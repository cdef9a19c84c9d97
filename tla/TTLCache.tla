------------------------------ MODULE TTLCache ------------------------------
(***************************************************************************)
(* The data structures of src/cache.go as pure definitions: the cache of   *)
(* rendered documents and the limiter of forced refreshes.  Every method   *)
(* of cache.go holds its mutex while it touches the map, so each one is an *)
(* atomic operator here; the clock readings that put and allow take BEFORE *)
(* they lock are arguments, which leaves the time between the reading and  *)
(* the locked section to the module that calls them.                       *)
(***************************************************************************)
EXTENDS Integers

CONSTANT None     \* "no entry": a key the Go map does not hold

(***************************************************************************)
(* A cache is a function from document keys to an entry or None.           *)
(***************************************************************************)
EmptyCache(Keys) == [k \in Keys |-> None]

NewEntry(value, stamp, ttl) ==
  [value |-> value, storedAt |-> stamp, expiresAt |-> stamp + ttl]

\* Deviation: the expiry is never looked at.
Fresh_IgnoresExpiry(cache, key, t) == cache[key] # None

\* get: an entry is served up to and including the instant it expires,
\* because time.After is strict.
Fresh(cache, key, t) == /\ cache[key] # None
                        /\ t <= cache[key].expiresAt

\* put overwrites whatever the key held, newer or not.
Store(cache, key, entry) == [cache EXCEPT ![key] = entry]

\* Deviation: the entry stays.
Invalidate_KeepsEntry(cache, key) == cache

Invalidate(cache, key) == [cache EXCEPT ![key] = None]

(***************************************************************************)
(* The limiter remembers, per client hint, the reading of the clock its    *)
(* last permitted refresh was made with.                                   *)
(***************************************************************************)
\* Deviation: the interval is not compared with anything.
Permits_Always(last, key, stamp, interval) == TRUE

Permits(last, key, stamp, interval) ==
  last[key] # None => stamp - last[key] >= interval

RecordPermit(last, key, stamp) == [last EXCEPT ![key] = stamp]
=============================================================================
