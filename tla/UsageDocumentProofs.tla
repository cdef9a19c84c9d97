------------------------ MODULE UsageDocumentProofs ------------------------
(***************************************************************************)
(* Proofs about UsageDocument, for every set of builds and credentials,    *)
(* every list of credentials and every number of requests.                 *)
(***************************************************************************)
EXTENDS UsageDocument, WellFoundedInduction, TLAPS

-----------------------------------------------------------------------------
(* The invariant *)

Places == {"idle", "files", "account", "quota", "fallback", "failed", "done"}

UsageTypes ==
  /\ served \in [Auth -> Nat]
  /\ records \subseteq Auth \X Nat
  /\ newest \in [Auth -> Nat]
  /\ pc \in [Build -> Places]
  /\ files \in [Build -> FileLists \cup {<<>>}]
  /\ updatedAt \in [Build -> [Auth -> Nat]]
  /\ accounts \in [Build -> Seq(Account)]
  /\ account \in [Build -> Account \cup {NoAccount}]
  /\ unsupported \in [Build -> SUBSET (Provider \ Supported)]
  /\ expired \in [Build -> BOOLEAN]
  /\ floor \in [Build -> [Auth -> Nat]]

\* The model an account names is one the register has come to know, and not
\* older than what the documents finished before the build named.
Timely(b, acc) ==
  floor[b][acc.auth] <= acc.lastModel /\ acc.lastModel <= newest[acc.auth]

\* An account is listed at its file's place, with quota or error.
Complete(b, i) ==
  LET acc == accounts[b][i] IN
  /\ acc.auth = files[b][i].auth /\ acc.provider = files[b][i].provider
  /\ IF acc.provider \in Supported THEN acc.error # acc.groups
                                   ELSE ~acc.error /\ ~acc.groups
  /\ Timely(b, acc)

\* The account in hand is the next file's, without quota or error yet.
InHand(b) ==
  /\ Len(accounts[b]) < Len(files[b])
  /\ account[b] \in Account
  /\ account[b].auth = NextFile(b).auth
  /\ account[b].provider = NextFile(b).provider
  /\ account[b].provider \in Supported
  /\ ~account[b].error /\ ~account[b].groups
  /\ Timely(b, account[b])

BuildInv(b) ==
  /\ Len(accounts[b]) <= Len(files[b])
  /\ pc[b] \in {"idle", "files"} => accounts[b] = <<>>
  /\ pc[b] \in {"quota", "fallback"} => InHand(b)
  /\ pc[b] = "done" => Len(accounts[b]) = Len(files[b])
  /\ \A i \in DOMAIN accounts[b] : Complete(b, i)
  /\ unsupported[b] = Unread(accounts[b])
  /\ \A a \in Auth : floor[b][a] <= newest[a]

UsageInv == UsageTypes /\ \A b \in Build : BuildInv(b)

-----------------------------------------------------------------------------
(* What the documents name *)

\* A bounded set of numbers that is not empty has a highest one.
LEMMA HighestExists ==
  ASSUME NEW S \in SUBSET Nat, S # {}, NEW n \in Nat, \A s \in S : s <= n
  PROVE  Highest(S) \in S
<1> DEFINE T == {n - s : s \in S}
<1>1. T \subseteq Nat /\ T # {}
  <2>1. ASSUME NEW s \in S PROVE n - s \in Nat
    BY <2>1
  <2> QED
    BY <2>1, Zenon
<1>2. \E x \in T : \A y \in T : ~ (<<y, x>> \in OpToRel(<, Nat))
  <2> HIDE DEF T
  <2> QED
    BY <1>1, NatLessThanWellFounded, WFMin
<1>3. PICK s \in S : \A y \in T : ~ (<<y, n - s>> \in OpToRel(<, Nat))
  BY <1>2
<1>4. ASSUME NEW t \in S PROVE s >= t
  <2>1. n - t \in T /\ n - t \in Nat /\ n - s \in Nat
    OBVIOUS
  <2>2. ~ (n - t < n - s)
    BY <1>3, <2>1 DEF OpToRel
  <2> QED
    BY <2>2
<1>5. \E m \in S : \A t \in S : m >= t
  BY <1>4
<1> QED
  BY <1>5 DEF Highest

\* What the finished documents name, the register knows.
LEMMA NamedIsKnown ==
  ASSUME UsageInv, NEW a \in Auth
  PROVE  /\ Highest(NamedBefore(a)) \in Nat
         /\ Highest(NamedBefore(a)) <= newest[a]
<1>1. newest[a] \in Nat
  BY DEF UsageInv, UsageTypes
<1>2. ASSUME NEW n \in NamedBefore(a) PROVE n \in Nat /\ n <= newest[a]
  <2>1. CASE n = 0
    BY <1>1, <2>1
  <2>2. CASE n # 0
    <3>1. PICK b \in Build : \E x \in ToSet(accounts[b]) :
                               x.auth = a /\ n = x.lastModel
      BY <2>2 DEF NamedBefore
    <3>2. PICK i \in DOMAIN accounts[b] : /\ accounts[b][i].auth = a
                                         /\ n = accounts[b][i].lastModel
      BY <3>1 DEF ToSet
    <3>3. accounts[b][i] \in Account
      BY DEF UsageInv, UsageTypes
    <3>4. Complete(b, i)
      BY DEF UsageInv, BuildInv
    <3> QED
      BY <3>2, <3>3, <3>4 DEF Complete, Timely, Account
  <2> QED
    BY <2>1, <2>2
<1>3. NamedBefore(a) \in SUBSET Nat /\ NamedBefore(a) # {}
  <2>1. 0 \in NamedBefore(a)
    BY DEF NamedBefore
  <2> QED
    BY <1>2, <2>1
<1>4. Highest(NamedBefore(a)) \in NamedBefore(a)
  BY <1>1, <1>2, <1>3, HighestExists
<1> QED
  BY <1>2, <1>4

-----------------------------------------------------------------------------
(* A build's own steps *)

LEMMA ListsAre ==
  ASSUME UsageInv, NEW b \in Build
  PROVE  files[b] \in Seq(File) /\ accounts[b] \in Seq(Account)
<1>1. files[b] \in FileLists \cup {<<>>} /\ accounts[b] \in Seq(Account)
  BY DEF UsageInv, UsageTypes
<1>2. FileLists \subseteq Seq(File)
  BY FileAssumption
<1>3. <<>> \in Seq(File)
  OBVIOUS
<1>4. PICK list : list = files[b]
  OBVIOUS
<1>5. list \in FileLists \/ list = <<>>
  BY <1>1, <1>4
<1>6. list \in Seq(File)
  BY <1>2, <1>3, <1>5
<1> QED
  BY <1>1, <1>4, <1>6

\* The next file of a build that has one left.
LEMMA NextFileIs ==
  ASSUME UsageInv, NEW b \in Build, Len(accounts[b]) < Len(files[b])
  PROVE  /\ NextFile(b) \in File /\ NextFile(b) = files[b][Len(accounts[b]) + 1]
         /\ NextFile(b).auth \in Auth /\ NextFile(b).provider \in Provider
<1>1. files[b] \in Seq(File) /\ accounts[b] \in Seq(Account)
  BY ListsAre
<1>2. Len(accounts[b]) + 1 \in 1..Len(files[b])
  BY <1>1
<1>3. files[b][Len(accounts[b]) + 1] \in File
  BY <1>1, <1>2
<1>4. NextFile(b) \in File
  BY <1>3 DEF NextFile
<1>5. NextFile(b).auth \in Auth /\ NextFile(b).provider \in Provider
  BY <1>4 DEF File
<1> QED
  BY <1>4, <1>5 DEF NextFile

\* The account made for the next file has the next file's name and provider,
\* no quota and no error, and names what the register knows.
LEMMA NewAccountIs ==
  ASSUME UsageInv, NEW b \in Build, Len(accounts[b]) < Len(files[b])
  PROVE  /\ NewAccount(b) \in Account
         /\ NewAccount(b).auth = NextFile(b).auth
         /\ NewAccount(b).provider = NextFile(b).provider
         /\ ~NewAccount(b).error /\ ~NewAccount(b).groups
         /\ Timely(b, NewAccount(b))
<1>1. /\ NextFile(b) \in File
      /\ NextFile(b).auth \in Auth /\ NextFile(b).provider \in Provider
  BY NextFileIs
<1>2. /\ newest \in [Auth -> Nat] /\ updatedAt[b] \in [Auth -> Nat]
      /\ floor[b] \in [Auth -> Nat]
      /\ \A a \in Auth : floor[b][a] <= newest[a]
  BY DEF UsageInv, UsageTypes, BuildInv
<1>3. PICK f : f = NextFile(b)
  OBVIOUS
<1>4. PICK acc : acc = NewAccount(b)
  OBVIOUS
<1>5. acc = [auth |-> f.auth, provider |-> f.provider,
             lastRequestAt |-> updatedAt[b][f.auth], lastModel |-> newest[f.auth],
             error |-> FALSE, groups |-> FALSE]
  BY <1>3, <1>4 DEF NewAccount
<1>6. /\ updatedAt[b][f.auth] \in Nat /\ newest[f.auth] \in Nat
      /\ floor[b][f.auth] <= newest[f.auth] /\ newest[f.auth] <= newest[f.auth]
  BY <1>1, <1>2, <1>3
<1>7. acc \in Account
  BY <1>1, <1>3, <1>5, <1>6 DEF Account
<1>8. Timely(b, acc)
  BY <1>5, <1>6 DEF Timely
<1> QED
  BY <1>3, <1>4, <1>5, <1>7, <1>8

\* What an account of a provider adds to the providers that cannot be read.
UnreadOf(provider) == {provider} \ (Supported \cup {""})

Notes(b, provider) ==
  unsupported' = [unsupported EXCEPT ![b] = @ \cup UnreadOf(provider)]

\* Adding the account of the next file keeps the list complete up to here.
LEMMA AddKeeps ==
  ASSUME UsageInv, NEW b \in Build, NEW acc \in Account,
         Len(accounts[b]) < Len(files[b]),
         acc.auth = NextFile(b).auth, acc.provider = NextFile(b).provider,
         IF acc.provider \in Supported THEN acc.error # acc.groups
                                       ELSE ~acc.error /\ ~acc.groups,
         Timely(b, acc),
         Notes(b, acc.provider),
         Add(b, acc)
  PROVE  UsageTypes' /\ BuildInv(b)'
<1>1. UsageTypes /\ BuildInv(b)
  BY DEF UsageInv
<1>2. /\ accounts[b] \in Seq(Account) /\ Len(accounts[b]) \in Nat
      /\ files[b] \in Seq(File) /\ Len(files[b]) \in Nat
  BY <1>1, FileAssumption DEF UsageTypes
<1>3. PICK s : s = Append(accounts[b], acc)
  OBVIOUS
<1>4. /\ s \in Seq(Account) /\ Len(s) = Len(accounts[b]) + 1
      /\ DOMAIN s = 1..Len(accounts[b]) + 1
      /\ DOMAIN accounts[b] = 1..Len(accounts[b])
      /\ s[Len(accounts[b]) + 1] = acc
      /\ \A i \in DOMAIN accounts[b] : s[i] = accounts[b][i]
  BY <1>2, <1>3
<1>5. /\ accounts' = [accounts EXCEPT ![b] = s]
      /\ account' = [account EXCEPT ![b] = NoAccount]
      /\ pc' = [pc EXCEPT ![b] = "account"]
      /\ UNCHANGED <<served, records, newest, files, updatedAt, expired, floor>>
  BY <1>3 DEF Add, Go, host
<1>6. UsageTypes'
  <2>1. accounts' \in [Build -> Seq(Account)]
    BY <1>1, <1>4, <1>5 DEF UsageTypes
  <2>2. account' \in [Build -> Account \cup {NoAccount}]
    BY <1>1, <1>5 DEF UsageTypes
  <2>3. pc' \in [Build -> Places]
    BY <1>1, <1>5 DEF UsageTypes, Places
  <2>4. unsupported' \in [Build -> SUBSET (Provider \ Supported)]
    <3>1. PICK u : u = UnreadOf(acc.provider)
      OBVIOUS
    <3>2. u \subseteq Provider \ Supported
      BY <3>1 DEF UnreadOf, Account
    <3>3. /\ unsupported' = [unsupported EXCEPT ![b] = @ \cup u]
          /\ unsupported \in [Build -> SUBSET (Provider \ Supported)]
      BY <1>1, <3>1 DEF Notes, UsageTypes
    <3> QED
      BY <3>2, <3>3
  <2> QED
    BY <1>1, <1>5, <2>1, <2>2, <2>3, <2>4 DEF UsageTypes
<1>7. accounts'[b] = s /\ pc'[b] = "account" /\ files' = files
      /\ floor' = floor /\ newest' = newest
  BY <1>1, <1>5 DEF UsageTypes
<1>8. ASSUME NEW i \in DOMAIN s PROVE Complete(b, i)'
  <2>1. CASE i \in DOMAIN accounts[b]
    <3>1. Complete(b, i) /\ s[i] = accounts[b][i]
      BY <1>1, <1>4, <2>1 DEF BuildInv
    <3> QED
      BY <1>7, <3>1 DEF Complete, Timely
  <2>2. CASE i \notin DOMAIN accounts[b]
    <3>1. i = Len(accounts[b]) + 1 /\ s[i] = acc
      BY <1>2, <1>4, <2>2
    <3>2. files[b][i] = NextFile(b)
      BY <3>1, NextFileIs
    <3> QED
      BY <1>7, <3>1, <3>2 DEF Complete, Timely
  <2> QED
    BY <2>1, <2>2
<1>9. Len(s) <= Len(files[b])
  BY <1>2, <1>4
<1>10. unsupported'[b] = Unread(s)
  <2>1. ToSet(s) = ToSet(accounts[b]) \cup {acc}
    <3>1. \A i \in DOMAIN s : i \in DOMAIN accounts[b] \/ i = Len(accounts[b]) + 1
      BY <1>2, <1>4
    <3>2. /\ Len(accounts[b]) + 1 \in DOMAIN s
          /\ \A i \in DOMAIN accounts[b] : i \in DOMAIN s
      BY <1>2, <1>4
    <3> QED
      BY <1>4, <3>1, <3>2 DEF ToSet
  <2>2. Unread(s) = Unread(accounts[b]) \cup UnreadOf(acc.provider)
    <3>1. PICK before, after : before = ToSet(accounts[b]) /\ after = ToSet(s)
      OBVIOUS
    <3>2. after = before \cup {acc}
      BY <2>1, <3>1
    <3>3. \A p : p \in {x.provider : x \in after}
                  <=> p \in {x.provider : x \in before} \/ p = acc.provider
      BY <3>2
    <3>4. /\ Unread(s) = {x.provider : x \in after} \ (Supported \cup {""})
          /\ Unread(accounts[b])
               = {x.provider : x \in before} \ (Supported \cup {""})
      BY <3>1 DEF Unread
    <3> QED
      BY <3>3, <3>4, Zenon DEF UnreadOf
  <2>3. unsupported'[b] = unsupported[b] \cup UnreadOf(acc.provider)
    BY <1>1 DEF UsageTypes, Notes
  <2> QED
    BY <1>1, <2>2, <2>3 DEF BuildInv
<1> QED
  BY <1>1, <1>6, <1>7, <1>8, <1>9, <1>10 DEF BuildInv

\* Starting takes down what the documents finished so far name, and the
\* register knows no less.
LEMMA StartKeeps ==
  ASSUME UsageInv, NEW b \in Build, Start(b)
  PROVE  UsageTypes' /\ BuildInv(b)'
<1>1. UsageTypes /\ BuildInv(b)
  BY DEF UsageInv
<1>2. PICK h : h = [a \in Auth |-> Highest(NamedBefore(a))]
  OBVIOUS
<1>3. h \in [Auth -> Nat] /\ \A a \in Auth : h[a] <= newest[a]
  BY <1>2, NamedIsKnown
<1>4. /\ pc[b] = "idle" /\ pc' = [pc EXCEPT ![b] = "files"]
      /\ floor' = [floor EXCEPT ![b] = h]
      /\ UNCHANGED <<served, records, newest, files, updatedAt, accounts,
                     unsupported, account, expired>>
  BY <1>2 DEF Start, Go, host
<1>5. UsageTypes'
  <2>1. floor' \in [Build -> [Auth -> Nat]]
    BY <1>1, <1>3, <1>4 DEF UsageTypes
  <2>2. pc' \in [Build -> Places]
    BY <1>1, <1>4 DEF UsageTypes, Places
  <2> QED
    BY <1>1, <1>4, <2>1, <2>2 DEF UsageTypes
<1>6. /\ pc'[b] = "files" /\ floor'[b] = h /\ accounts' = accounts
      /\ files' = files /\ newest' = newest /\ unsupported' = unsupported
  BY <1>1, <1>4 DEF UsageTypes
<1>7. accounts[b] = <<>> /\ DOMAIN accounts[b] = {}
  BY <1>1, <1>4 DEF BuildInv
<1>8. unsupported[b] = Unread(accounts[b]) /\ Len(accounts[b]) <= Len(files[b])
  BY <1>1 DEF BuildInv
<1> QED
  BY <1>3, <1>5, <1>6, <1>7, <1>8 DEF BuildInv

\* The list arrives before any account is made.
LEMMA FetchKeeps ==
  ASSUME UsageInv, NEW b \in Build, FetchAuthFiles(b)
  PROVE  UsageTypes' /\ BuildInv(b)'
<1>1. UsageTypes /\ BuildInv(b)
  BY DEF UsageInv
<1>2. PICK list \in FileLists : files' = [files EXCEPT ![b] = list]
  BY DEF FetchAuthFiles
<1>3. /\ pc[b] = "files" /\ pc' = [pc EXCEPT ![b] = "account"]
      /\ updatedAt' = [updatedAt EXCEPT ![b] = served]
      /\ UNCHANGED <<served, records, newest, accounts, unsupported, account,
                     expired, floor>>
  BY DEF FetchAuthFiles, Go, host
<1>4. UsageTypes'
  <2>1. updatedAt' \in [Build -> [Auth -> Nat]]
    BY <1>1, <1>3 DEF UsageTypes
  <2>2. files' \in [Build -> FileLists \cup {<<>>}]
    BY <1>1, <1>2 DEF UsageTypes
  <2>3. pc' \in [Build -> Places]
    BY <1>1, <1>3 DEF UsageTypes, Places
  <2> QED
    BY <1>1, <1>3, <2>1, <2>2, <2>3 DEF UsageTypes
<1>5. /\ pc'[b] = "account" /\ files'[b] = list
      /\ accounts' = accounts /\ floor' = floor /\ newest' = newest
      /\ unsupported' = unsupported
  BY <1>1, <1>2, <1>3 DEF UsageTypes
<1>6. accounts[b] = <<>> /\ DOMAIN accounts[b] = {} /\ Len(accounts[b]) = 0
  BY <1>1, <1>3 DEF BuildInv
<1>7. list \in Seq(File) /\ Len(list) \in Nat
  BY FileAssumption
<1>8. Len(accounts[b]) <= Len(list)
  BY <1>6, <1>7
<1> QED
  BY <1>1, <1>4, <1>5, <1>6, <1>8 DEF BuildInv

\* An account that is asked for is the next file's.
LEMMA AskKeeps ==
  ASSUME UsageInv, NEW b \in Build, AskProvider(b)
  PROVE  UsageTypes' /\ BuildInv(b)'
<1>1. UsageTypes /\ BuildInv(b)
  BY DEF UsageInv
<1>2. /\ Len(accounts[b]) < Len(files[b])
      /\ NextFile(b).provider \in Supported
  BY DEF AskProvider
<1>3. PICK acc : acc = NewAccount(b)
  OBVIOUS
<1>4. /\ acc \in Account /\ acc.auth = NextFile(b).auth
      /\ acc.provider = NextFile(b).provider
      /\ ~acc.error /\ ~acc.groups /\ Timely(b, acc)
  BY <1>2, <1>3, NewAccountIs
<1>5. /\ account' = [account EXCEPT ![b] = acc]
      /\ pc' = [pc EXCEPT ![b] = "quota"]
      /\ UNCHANGED <<served, records, newest, files, updatedAt, accounts,
                     unsupported, expired, floor>>
  BY <1>3 DEF AskProvider, Go, host
<1>6. UsageTypes'
  <2>1. account' \in [Build -> Account \cup {NoAccount}]
    BY <1>1, <1>4, <1>5 DEF UsageTypes
  <2>2. pc' \in [Build -> Places]
    BY <1>1, <1>5 DEF UsageTypes, Places
  <2> QED
    BY <1>1, <1>5, <2>1, <2>2 DEF UsageTypes
<1>7. /\ pc'[b] = "quota" /\ account'[b] = acc /\ files' = files
      /\ accounts' = accounts /\ floor' = floor /\ newest' = newest
      /\ unsupported' = unsupported
  BY <1>1, <1>5 DEF UsageTypes
<1>8. InHand(b)'
  BY <1>2, <1>4, <1>7 DEF InHand, NextFile, Timely
<1>9. \A i \in DOMAIN accounts[b] : Complete(b, i) => Complete(b, i)'
  BY <1>7 DEF Complete, Timely
<1> QED
  BY <1>1, <1>6, <1>7, <1>8, <1>9 DEF BuildInv

\* The account in hand is listed with its quota or with an error, whichever
\* of the two endpoints answered or failed.
LEMMA AnswerKeeps ==
  ASSUME UsageInv, NEW b \in Build, pc[b] \in {"quota", "fallback"},
         UNCHANGED unsupported,
         \/ Add(b, [account[b] EXCEPT !.groups = TRUE])
         \/ Add(b, [account[b] EXCEPT !.error = TRUE])
  PROVE  UsageTypes' /\ BuildInv(b)'
<1>1. InHand(b)
  BY DEF UsageInv, BuildInv
<1>2. PICK acc : /\ Add(b, acc)
                 /\ \/ acc = [account[b] EXCEPT !.groups = TRUE]
                    \/ acc = [account[b] EXCEPT !.error = TRUE]
  OBVIOUS
<1>3. /\ acc \in Account
      /\ acc.auth = account[b].auth /\ acc.provider = account[b].provider
      /\ acc.lastModel = account[b].lastModel
  BY <1>1, <1>2 DEF InHand, Account
<1>4. acc.error # acc.groups
  BY <1>1, <1>2 DEF InHand, Account
<1>5. Timely(b, acc)
  BY <1>1, <1>3 DEF InHand, Timely
<1>6. Notes(b, acc.provider)
  <2>1. PICK u : u = UnreadOf(acc.provider)
    OBVIOUS
  <2>2. u = {}
    BY <1>1, <1>3, <2>1 DEF InHand, UnreadOf
  <2> QED
    BY <2>1, <2>2 DEF Notes, UsageInv, UsageTypes
<1> QED
  BY <1>1, <1>2, <1>3, <1>4, <1>5, <1>6, AddKeeps DEF InHand

\* A build that only goes elsewhere keeps what it has.
LEMMA MoveKeeps ==
  ASSUME UsageInv, NEW b \in Build,
         UNCHANGED <<host, files, updatedAt, accounts, unsupported, account, floor>>,
         expired' \in [Build -> BOOLEAN],
         \/ UNCHANGED pc
         \/ Go(b, "failed")
         \/ Go(b, "done") /\ Len(accounts[b]) = Len(files[b])
         \/ Go(b, "fallback") /\ pc[b] = "quota"
  PROVE  UsageTypes' /\ BuildInv(b)'
<1>1. UsageTypes /\ BuildInv(b)
  BY DEF UsageInv
<1>2. pc' \in [Build -> Places]
  BY <1>1 DEF UsageTypes, Go, Places
<1>3. UsageTypes'
  BY <1>1, <1>2 DEF UsageTypes, host
<1>4. \A i \in DOMAIN accounts[b] : Complete(b, i) => Complete(b, i)'
  BY DEF Complete, Timely, host
<1>5. InHand(b) => InHand(b)'
  BY DEF InHand, NextFile, Timely, host
<1>6. \/ pc'[b] = pc[b]
      \/ pc'[b] = "failed"
      \/ pc'[b] = "done" /\ Len(accounts[b]) = Len(files[b])
      \/ pc'[b] = "fallback" /\ pc[b] = "quota"
  BY <1>1 DEF UsageTypes, Go
<1>7. /\ accounts' = accounts /\ files' = files /\ floor' = floor
      /\ newest' = newest
  BY DEF host
<1> QED
  BY <1>1, <1>3, <1>4, <1>5, <1>6, <1>7 DEF BuildInv

\* A step of a build keeps the types and what the build has.
LEMMA OwnStep ==
  ASSUME UsageInv, NEW b \in Build, Step(b)
  PROVE  UsageTypes' /\ BuildInv(b)'
<1>1. UNCHANGED expired => expired' \in [Build -> BOOLEAN]
  BY DEF UsageInv, UsageTypes
<1>2. CASE Start(b)
  BY <1>2, StartKeeps
<1>3. CASE Expire(b)
  <2>1. expired' \in [Build -> BOOLEAN]
    BY <1>3 DEF Expire, UsageInv, UsageTypes
  <2> QED
    BY <1>3, <2>1, MoveKeeps DEF Expire
<1>4. CASE AuthFilesUnavailable(b)
  BY <1>1, <1>4, MoveKeeps DEF AuthFilesUnavailable
<1>5. CASE FetchAuthFiles(b)
  BY <1>5, FetchKeeps
<1>6. CASE AddUnsupported(b)
  <2>1. /\ Len(accounts[b]) < Len(files[b])
        /\ NextFile(b).provider \notin Supported /\ Add(b, NewAccount(b))
        /\ unsupported' = [unsupported EXCEPT ![b] =
                             @ \cup ({NextFile(b).provider} \ {""})]
    BY <1>6 DEF AddUnsupported
  <2>2. PICK acc : acc = NewAccount(b)
    OBVIOUS
  <2>3. /\ acc \in Account /\ acc.auth = NextFile(b).auth
        /\ acc.provider = NextFile(b).provider
        /\ ~acc.error /\ ~acc.groups /\ Timely(b, acc)
    BY <2>1, <2>2, NewAccountIs
  <2>4. Notes(b, acc.provider)
    <3>1. PICK u : u = UnreadOf(acc.provider)
      OBVIOUS
    <3>2. {NextFile(b).provider} \ {""} = u
      BY <2>1, <2>3, <3>1 DEF UnreadOf
    <3> QED
      BY <2>1, <3>1, <3>2 DEF Notes
  <2> QED
    BY <2>1, <2>2, <2>3, <2>4, AddKeeps
<1>7. CASE AskProvider(b)
  BY <1>7, AskKeeps
<1>8. CASE \E reply \in Reply : \/ ReadQuota(b, reply) \/ QuotaFails(b, reply)
                                \/ ProjectQuota(b, reply)
  BY <1>8, AnswerKeeps DEF ReadQuota, QuotaFails, ProjectQuota
<1>9. CASE \E reply \in Reply : TryProject(b, reply)
  BY <1>1, <1>9, MoveKeeps DEF TryProject
<1>10. CASE Finish(b)
  BY <1>1, <1>10, MoveKeeps DEF Finish
<1> QED
  BY <1>2, <1>3, <1>4, <1>5, <1>6, <1>7, <1>8, <1>9, <1>10 DEF Step

-----------------------------------------------------------------------------
(* The other builds, and the register *)

\* What a build has stays true while the register moves forward.
LEMMA RegisterMoves ==
  ASSUME UsageInv, NEW c \in Build, UsageTypes',
         pc'[c] = pc[c], files'[c] = files[c], accounts'[c] = accounts[c],
         account'[c] = account[c], floor'[c] = floor[c],
         unsupported'[c] = unsupported[c],
         \A a \in Auth : newest[a] <= newest'[a]
  PROVE  BuildInv(c)'
<1>1. /\ BuildInv(c) /\ accounts[c] \in Seq(Account)
      /\ floor[c] \in [Auth -> Nat]
      /\ newest \in [Auth -> Nat] /\ newest' \in [Auth -> Nat]
  BY DEF UsageInv, UsageTypes
<1>2. ASSUME NEW acc \in Account, Timely(c, acc)
      PROVE  floor'[c][acc.auth] <= acc.lastModel
             /\ acc.lastModel <= newest'[acc.auth]
  <2>1. acc.auth \in Auth /\ acc.lastModel \in Nat
    BY DEF Account
  <2>2. newest[acc.auth] \in Nat /\ newest'[acc.auth] \in Nat
        /\ newest[acc.auth] <= newest'[acc.auth]
    BY <1>1, <2>1
  <2> QED
    BY <1>2, <2>1, <2>2 DEF Timely
<1>3. ASSUME NEW i \in DOMAIN accounts[c] PROVE Complete(c, i)'
  <2>1. Complete(c, i) /\ accounts[c][i] \in Account
    BY <1>1 DEF BuildInv
  <2>2. Timely(c, accounts[c][i])
    BY <2>1 DEF Complete
  <2>3. /\ floor'[c][accounts[c][i].auth] <= accounts[c][i].lastModel
        /\ accounts[c][i].lastModel <= newest'[accounts[c][i].auth]
    BY <1>2, <2>1, <2>2
  <2> QED
    BY <2>1, <2>3 DEF Complete, Timely
<1>4. InHand(c) => InHand(c)'
  <2> SUFFICES ASSUME InHand(c) PROVE InHand(c)'
    OBVIOUS
  <2>1. account[c] \in Account /\ Timely(c, account[c])
    BY DEF InHand
  <2>2. /\ floor'[c][account[c].auth] <= account[c].lastModel
        /\ account[c].lastModel <= newest'[account[c].auth]
    BY <1>2, <2>1
  <2> QED
    BY <2>2 DEF InHand, NextFile, Timely
<1>5. \A a \in Auth : floor[c][a] <= newest'[a]
  <2> TAKE a \in Auth
  <2>1. floor[c][a] <= newest[a]
    BY <1>1 DEF BuildInv
  <2> QED
    BY <1>1, <2>1
<1> QED
  BY <1>1, <1>3, <1>4, <1>5 DEF BuildInv

\* A step of one build leaves the others and the host alone.
LEMMA OtherBuilds ==
  ASSUME UsageTypes, NEW b \in Build, NEW c \in Build, c # b, Step(b)
  PROVE  /\ pc'[c] = pc[c] /\ files'[c] = files[c] /\ floor'[c] = floor[c]
         /\ accounts'[c] = accounts[c] /\ account'[c] = account[c]
         /\ unsupported'[c] = unsupported[c]
         /\ newest' = newest
<1> USE DEF UsageTypes, Go, host
<1>1. CASE Start(b) \/ Expire(b) \/ AuthFilesUnavailable(b) \/ FetchAuthFiles(b)
  BY <1>1 DEF Start, Expire, AuthFilesUnavailable, FetchAuthFiles
<1>2. CASE AddUnsupported(b)
  BY <1>2 DEF AddUnsupported, Add
<1>3. CASE AskProvider(b) \/ Finish(b)
  BY <1>3 DEF AskProvider, Finish
<1>4. CASE \E reply \in Reply : \/ ReadQuota(b, reply) \/ QuotaFails(b, reply)
                                \/ ProjectQuota(b, reply)
  BY <1>4 DEF ReadQuota, QuotaFails, ProjectQuota, Add
<1>5. CASE \E reply \in Reply : TryProject(b, reply)
  BY <1>5 DEF TryProject
<1> QED
  BY <1>1, <1>2, <1>3, <1>4, <1>5 DEF Step

\* Records move the register forward only, in whatever order they come.
LEMMA HostStep ==
  ASSUME UsageInv, NEW a \in Auth,
         Serve(a) \/ \E n \in 1..MaxRequests[a] : HandleRecord(a, n)
  PROVE  UsageTypes' /\ \A x \in Auth : newest[x] <= newest'[x]
<1>1. UsageTypes /\ MaxRequests[a] \in Nat
  BY FileAssumption DEF UsageInv
<1>2. UNCHANGED <<pc, files, updatedAt, accounts, unsupported, account, expired, floor>>
  BY DEF Serve, HandleRecord, local
<1>3. CASE Serve(a)
  <2>1. /\ served' \in [Auth -> Nat] /\ records' \subseteq Auth \X Nat
        /\ newest' = newest
    BY <1>1, <1>3 DEF Serve, UsageTypes
  <2>2. \A x \in Auth : newest[x] <= newest[x]
    BY <1>1 DEF UsageTypes
  <2> QED
    BY <1>1, <1>2, <2>1, <2>2 DEF UsageTypes
<1>4. CASE \E n \in 1..MaxRequests[a] : HandleRecord(a, n)
  <2>1. PICK n \in 1..MaxRequests[a] : HandleRecord(a, n)
    BY <1>4
  <2>2. n \in Nat
    BY <1>1
  <2>3. newest' = [newest EXCEPT ![a] = IF n > newest[a] THEN n ELSE newest[a]]
    BY <2>1 DEF HandleRecord
  <2>4. newest' \in [Auth -> Nat] /\ \A x \in Auth : newest[x] <= newest'[x]
    BY <1>1, <2>2, <2>3 DEF UsageTypes
  <2>5. served' = served /\ records' \subseteq Auth \X Nat
    BY <1>1, <2>1 DEF HandleRecord, UsageTypes
  <2> QED
    BY <1>1, <1>2, <2>4, <2>5 DEF UsageTypes
<1> QED
  BY <1>3, <1>4

-----------------------------------------------------------------------------
(* The theorems *)

LEMMA InitUsage == Init => UsageInv
<1> SUFFICES ASSUME Init PROVE UsageInv
  OBVIOUS
<1>1. UsageTypes
  <2>1. accounts \in [Build -> Seq(Account)]
    BY DEF Init
  <2> QED
    BY <2>1 DEF Init, UsageTypes, Places
<1>2. ASSUME NEW b \in Build PROVE BuildInv(b)
  <2>1. Unread(<<>>) = {}
    BY DEF Unread, ToSet
  <2> QED
    BY <2>1 DEF Init, BuildInv
<1> QED
  BY <1>1, <1>2 DEF UsageInv

\* UsageInv is inductive.
LEMMA NextUsage == UsageInv /\ [Next]_vars => UsageInv'
<1> SUFFICES ASSUME UsageInv, [Next]_vars PROVE UsageInv'
  OBVIOUS
<1>1. UsageTypes
  BY DEF UsageInv
<1>2. \A a \in Auth : newest[a] <= newest[a]
  BY <1>1 DEF UsageTypes
<1>3. CASE \E b \in Build : Step(b)
  <2>1. PICK b \in Build : Step(b)
    BY <1>3
  <2>2. UsageTypes' /\ BuildInv(b)'
    BY <2>1, OwnStep
  <2>3. ASSUME NEW c \in Build, c # b PROVE BuildInv(c)'
    <3>1. /\ pc'[c] = pc[c] /\ files'[c] = files[c] /\ floor'[c] = floor[c]
          /\ accounts'[c] = accounts[c] /\ account'[c] = account[c]
          /\ unsupported'[c] = unsupported[c] /\ newest' = newest
      BY <1>1, <2>1, <2>3, OtherBuilds
    <3> QED
      BY <1>2, <2>2, <3>1, RegisterMoves
  <2> QED
    BY <2>2, <2>3 DEF UsageInv
<1>4. CASE \E a \in Auth : Serve(a) \/ \E n \in 1..MaxRequests[a] : HandleRecord(a, n)
  <2>1. UsageTypes' /\ \A x \in Auth : newest[x] <= newest'[x]
    BY <1>4, HostStep
  <2>2. UNCHANGED <<pc, files, accounts, unsupported, account, floor>>
    BY <1>4 DEF Serve, HandleRecord, local
  <2> QED
    BY <2>1, <2>2, RegisterMoves DEF UsageInv
<1>5. CASE UNCHANGED vars
  <2>1. UNCHANGED <<served, records, newest, pc, files, updatedAt, accounts,
                    unsupported, account, expired, floor>>
    BY <1>5 DEF vars, host, local
  <2>2. UsageTypes'
    BY <1>1, <2>1 DEF UsageTypes
  <2> QED
    BY <1>2, <2>1, <2>2, RegisterMoves DEF UsageInv
<1> QED
  BY <1>3, <1>4, <1>5 DEF Next

LEMMA UsageHolds == Spec => []UsageInv
BY InitUsage, NextUsage, PTL DEF Spec

\* A document never lists more than the host did, and between two accounts
\* there is nothing in hand.
THEOREM TypesHold == Spec => []TypeOK
<1>1. UsageInv => TypeOK
  <2> SUFFICES ASSUME UsageInv PROVE TypeOK
    OBVIOUS
  <2>1. ASSUME NEW b \in Build
        PROVE  /\ Len(accounts[b]) <= Len(files[b])
               /\ ToSet(accounts[b]) \subseteq Account
               /\ account[b] \in Account \cup {NoAccount}
               /\ pc[b] \in {"quota", "fallback"} => account[b] \in Account
    BY DEF UsageInv, UsageTypes, BuildInv, InHand, ToSet
  <2> QED
    BY <2>1 DEF TypeOK, UsageInv, UsageTypes, Places
<1> QED
  BY <1>1, UsageHolds, PTL

\* However the calls for the quotas end, a finished document lists every
\* credential of the host, in its order, and names the providers among theirs
\* that the bridge cannot read (buildUsage).
THEOREM EveryoneIsListed == Spec => []EveryCredentialListed
<1>1. UsageInv => EveryCredentialListed
  <2> SUFFICES ASSUME UsageInv, NEW b \in Build, pc[b] = "done"
               PROVE  /\ Len(accounts[b]) = Len(files[b])
                      /\ \A i \in DOMAIN accounts[b] :
                           /\ accounts[b][i].auth = files[b][i].auth
                           /\ accounts[b][i].provider = files[b][i].provider
                      /\ unsupported[b] = Unread(files[b])
    BY DEF EveryCredentialListed
  <2>1. /\ Len(accounts[b]) = Len(files[b])
        /\ \A i \in DOMAIN accounts[b] :
             /\ accounts[b][i].auth = files[b][i].auth
             /\ accounts[b][i].provider = files[b][i].provider
        /\ unsupported[b] = Unread(accounts[b])
    BY DEF UsageInv, BuildInv, Complete
  <2>2. PICK xs, ys : xs = accounts[b] /\ ys = files[b]
    OBVIOUS
  <2>3. DOMAIN xs = DOMAIN ys
    <3>1. xs \in Seq(Account) /\ ys \in Seq(File)
      BY <2>2, ListsAre
    <3>2. Len(xs) = Len(ys)
      BY <2>1, <2>2
    <3> QED
      BY <3>1, <3>2
  <2>4. \A p : p \in {x.provider : x \in ToSet(xs)}
                <=> p \in {y.provider : y \in ToSet(ys)}
    <3>1. \A i \in DOMAIN xs : xs[i].provider = ys[i].provider
      BY <2>1, <2>2
    <3>2. /\ ToSet(xs) = {xs[i] : i \in DOMAIN xs}
          /\ ToSet(ys) = {ys[i] : i \in DOMAIN xs}
      <4>1. ToSet(xs) = {xs[i] : i \in DOMAIN xs}
        BY DEF ToSet
      <4>2. ToSet(ys) = {ys[i] : i \in DOMAIN ys}
        BY DEF ToSet
      <4> QED
        BY <2>3, <4>1, <4>2
    <3>3. ASSUME NEW p, NEW x \in ToSet(xs), p = x.provider
          PROVE  \E y \in ToSet(ys) : p = y.provider
      <4>1. PICK i \in DOMAIN xs : x = xs[i]
        BY <3>2, <3>3
      <4>2. ys[i] \in ToSet(ys) /\ p = ys[i].provider
        BY <3>1, <3>2, <3>3, <4>1
      <4> QED
        BY <4>2
    <3>4. ASSUME NEW p, NEW y \in ToSet(ys), p = y.provider
          PROVE  \E x \in ToSet(xs) : p = x.provider
      <4>1. PICK i \in DOMAIN xs : y = ys[i]
        BY <3>2, <3>4
      <4>2. xs[i] \in ToSet(xs) /\ p = xs[i].provider
        BY <3>1, <3>2, <3>4, <4>1
      <4> QED
        BY <4>2
    <3> QED
      BY <3>3, <3>4
  <2>5. Unread(xs) = Unread(ys)
    BY <2>4, Zenon DEF Unread
  <2> QED
    BY <2>1, <2>2, <2>5
<1> QED
  BY <1>1, UsageHolds, PTL

\* A credential the bridge can read ends with its quota or with an error.
THEOREM QuotaOrErrorHolds == Spec => []QuotaOrError
<1>1. UsageInv => QuotaOrError
  BY DEF UsageInv, BuildInv, Complete, QuotaOrError
<1> QED
  BY <1>1, UsageHolds, PTL

\* Documents name models in the order of the requests.
THEOREM ModelsOnlyAdvance == Spec => []ModelsMoveForward
<1>1. UsageInv => ModelsMoveForward
  <2> SUFFICES ASSUME UsageInv, NEW b \in Build, NEW i \in DOMAIN accounts[b]
               PROVE  accounts[b][i].lastModel >= floor[b][accounts[b][i].auth]
    BY DEF ModelsMoveForward
  <2>1. Complete(b, i) /\ accounts[b][i] \in Account /\ floor[b] \in [Auth -> Nat]
    BY DEF UsageInv, UsageTypes, BuildInv
  <2> QED
    BY <2>1 DEF Complete, Timely, Account
<1> QED
  BY <1>1, UsageHolds, PTL
=============================================================================
