--------------------------- MODULE UsageDocument ---------------------------
(***************************************************************************)
(* buildUsage and the quota readers it calls (src/quota.go): the usage     *)
(* document is assembled credential by credential, with a call to the      *)
(* provider for each, while the host goes on serving requests and the      *)
(* last-model register goes on taking their records.                       *)
(*                                                                         *)
(* Per credential, requests are numbered 1, 2, ... in the order of their   *)
(* times, and a request's number stands for its time and for its model.    *)
(* The register is the abstract one of NewestRequest, which UsageRecords   *)
(* implements.  What a provider answers is abstracted to whether windows   *)
(* can be read from it.                                                    *)
(***************************************************************************)
EXTENDS Integers, FiniteSets, SequencesExt

CONSTANTS
  Build,        \* builds that may run together
  Auth,         \* credentials
  FileLists,    \* external: what the host may list, [auth, provider, project]
  MaxRequests   \* bound on the requests, per credential

Supported == {"claude", "codex", "antigravity", "github-copilot"}

Provider == Supported \cup {"other", ""}

File == [auth : Auth, provider : Provider, project : BOOLEAN]

ASSUME FileAssumption == FileLists \subseteq Seq(File) /\ MaxRequests \in [Auth -> Nat]

\* What a call comes to: no answer, a status other than 200, a body that is
\* not JSON, a body without windows, windows.
Reply == {"transport", "refused", "garbled", "empty", "windows"}

VARIABLES
  served,    \* external: per credential, the newest request the host served
  records,   \* external: usage records not handled yet, <<auth, request>>
  newest,    \* lastModels: per credential, the request named, 0 for none
  pc,        \* where each build is
  files,     \* the list fetchAuthFiles returned
  updatedAt, \* ... with each file's updated_at
  accounts,  \* doc.Accounts so far
  unsupported, \* doc.Unsupported so far
  account,   \* the account in hand
  expired,   \* whether the build's context is over
  floor      \* history: per credential, the newest request named by the
             \* documents finished when the build started

host  == <<served, records, newest>>
local == <<pc, files, updatedAt, accounts, unsupported, account, expired, floor>>
vars  == <<host, local>>

Account ==
  [auth : Auth, provider : Provider, lastRequestAt : Nat, lastModel : Nat,
   error : BOOLEAN, groups : BOOLEAN]

NoAccount == [error |-> FALSE, groups |-> FALSE]

TypeOK ==
  /\ served \in [Auth -> Nat]
  /\ records \subseteq Auth \X Nat
  /\ newest \in [Auth -> Nat]
  /\ pc \in [Build -> {"idle", "files", "account", "quota", "fallback",
                       "failed", "done"}]
  /\ files \in [Build -> FileLists \cup {<<>>}]
  /\ updatedAt \in [Build -> [Auth -> Nat]]
  /\ \A b \in Build :
       /\ Len(accounts[b]) <= Len(files[b])
       /\ ToSet(accounts[b]) \subseteq Account
       /\ account[b] \in Account \cup {NoAccount}
       /\ pc[b] \in {"quota", "fallback"} => account[b] \in Account
  /\ unsupported \in [Build -> SUBSET (Provider \ Supported)]
  /\ expired \in [Build -> BOOLEAN]
  /\ floor \in [Build -> [Auth -> Nat]]

-----------------------------------------------------------------------------
(* External: the host serves requests and hands over their records, later  *)
(* and in any order.                                                       *)

Serve(a) ==
  /\ served[a] < MaxRequests[a]
  /\ served' = [served EXCEPT ![a] = @ + 1]
  /\ records' = records \cup {<<a, served[a] + 1>>}
  /\ UNCHANGED <<newest, local>>

\* Deviation: the register names the record that came last.
HandleRecord_LastArrival(a, n) ==
  /\ <<a, n>> \in records
  /\ records' = records \ {<<a, n>>}
  /\ newest' = [newest EXCEPT ![a] = n]
  /\ UNCHANGED <<served, local>>

\* recordLastModel: a late record does not replace a newer one.
HandleRecord(a, n) ==
  /\ <<a, n>> \in records
  /\ records' = records \ {<<a, n>>}
  /\ newest' = [newest EXCEPT ![a] = IF n > @ THEN n ELSE @]
  /\ UNCHANGED <<served, local>>

-----------------------------------------------------------------------------
(* buildUsage *)

\* What the documents finished so far name for a credential.
NamedBefore(a) ==
  {0} \cup {acc.lastModel : acc \in
    UNION {{x \in ToSet(accounts[b]) : x.auth = a} :
             b \in {c \in Build : pc[c] = "done"}}}

Highest(S) == CHOOSE n \in S : \A m \in S : n >= m

Go(b, where) == pc' = [pc EXCEPT ![b] = where]

Start(b) ==
  /\ pc[b] = "idle"
  /\ Go(b, "files")
  /\ floor' = [floor EXCEPT ![b] = [a \in Auth |-> Highest(NamedBefore(a))]]
  /\ UNCHANGED <<host, files, updatedAt, accounts, unsupported, account, expired>>

\* The build's context runs out: every call from now on fails.
Expire(b) ==
  /\ pc[b] \in {"files", "account", "quota", "fallback"}
  /\ ~expired[b]
  /\ expired' = [expired EXCEPT ![b] = TRUE]
  /\ UNCHANGED <<host, pc, files, updatedAt, accounts, unsupported, account, floor>>

\* Without the list of credentials there is no document.
AuthFilesUnavailable(b) ==
  /\ pc[b] = "files"
  /\ Go(b, "failed")
  /\ UNCHANGED <<host, files, updatedAt, accounts, unsupported, account, expired,
                 floor>>

FetchAuthFiles(b) ==
  /\ pc[b] = "files"
  /\ ~expired[b]
  /\ Go(b, "account")
  /\ \E list \in FileLists : files' = [files EXCEPT ![b] = list]
  /\ updatedAt' = [updatedAt EXCEPT ![b] = served]
  /\ UNCHANGED <<host, accounts, unsupported, account, expired, floor>>

NextFile(b) == files[b][Len(accounts[b]) + 1]

\* The account of the next file, with the model named at this moment.
NewAccount(b) ==
  LET f == NextFile(b) IN
  [auth |-> f.auth, provider |-> f.provider,
   lastRequestAt |-> updatedAt[b][f.auth], lastModel |-> newest[f.auth],
   error |-> FALSE, groups |-> FALSE]

Add(b, acc) ==
  /\ accounts' = [accounts EXCEPT ![b] = Append(@, acc)]
  /\ account' = [account EXCEPT ![b] = NoAccount]
  /\ Go(b, "account")
  /\ UNCHANGED <<host, files, updatedAt, expired, floor>>

\* Deviation: a provider the bridge cannot read is listed twice.
AddUnsupported_Twice(b) ==
  /\ pc[b] = "account" /\ Len(accounts[b]) < Len(files[b])
  /\ NextFile(b).provider \notin Supported
  /\ accounts' = [accounts EXCEPT ![b] = @ \o <<NewAccount(b), NewAccount(b)>>]
  /\ account' = [account EXCEPT ![b] = NoAccount]
  /\ unsupported' = [unsupported EXCEPT ![b] = @ \cup {NextFile(b).provider}]
  /\ Go(b, "account")
  /\ UNCHANGED <<host, files, updatedAt, expired, floor>>

\* A provider the bridge cannot read is named once, unless it has no name.
AddUnsupported(b) ==
  /\ pc[b] = "account" /\ Len(accounts[b]) < Len(files[b])
  /\ NextFile(b).provider \notin Supported
  /\ unsupported' = [unsupported EXCEPT ![b] = @ \cup ({NextFile(b).provider} \ {""})]
  /\ Add(b, NewAccount(b))

AskProvider(b) ==
  /\ pc[b] = "account" /\ Len(accounts[b]) < Len(files[b])
  /\ NextFile(b).provider \in Supported
  /\ Go(b, "quota")
  /\ account' = [account EXCEPT ![b] = NewAccount(b)]
  /\ UNCHANGED <<host, files, updatedAt, accounts, unsupported, expired, floor>>

-----------------------------------------------------------------------------
(* fetchQuota and the readers *)

Replies(b) == IF expired[b] THEN {"transport"} ELSE Reply

\* Copilot reports one number whatever the body holds; the other readers make
\* an error of a body without windows.
Readable(provider, reply) ==
  reply = "windows" \/ (reply = "empty" /\ provider = "github-copilot")

ReadQuota(b, reply) ==
  /\ pc[b] = "quota" /\ reply \in Replies(b)
  /\ Readable(account[b].provider, reply)
  /\ Add(b, [account[b] EXCEPT !.groups = TRUE])
  /\ UNCHANGED unsupported

HasFallback(b) ==
  account[b].provider = "antigravity" /\ NextFile(b).project

\* Deviation: the first credential that fails ends the list.
QuotaFails_EndsDocument(b, reply) ==
  /\ pc[b] = "quota" /\ reply \in Replies(b)
  /\ ~Readable(account[b].provider, reply)
  /\ ~HasFallback(b)
  /\ Go(b, "done")
  /\ UNCHANGED <<host, files, updatedAt, accounts, unsupported, account, expired,
                 floor>>

\* A credential that fails is listed with its error.
QuotaFails(b, reply) ==
  /\ pc[b] = "quota" /\ reply \in Replies(b)
  /\ ~Readable(account[b].provider, reply)
  /\ ~HasFallback(b)
  /\ Add(b, [account[b] EXCEPT !.error = TRUE])
  /\ UNCHANGED unsupported

\* fetchAntigravityQuota: the project's buckets when the models' fail.
TryProject(b, reply) ==
  /\ pc[b] = "quota" /\ reply \in Replies(b)
  /\ ~Readable(account[b].provider, reply)
  /\ HasFallback(b)
  /\ Go(b, "fallback")
  /\ UNCHANGED <<host, files, updatedAt, accounts, unsupported, account, expired,
                 floor>>

\* Deviation: a project without buckets is taken for an answer.
ProjectQuota_EmptyIsFine(b, reply) ==
  /\ pc[b] = "fallback" /\ reply \in Replies(b)
  /\ Add(b, IF reply \in {"windows", "empty"}
              THEN [account[b] EXCEPT !.groups = reply = "windows"]
              ELSE [account[b] EXCEPT !.error = TRUE])
  /\ UNCHANGED unsupported

\* When the fallback yields nothing the first error stands.
ProjectQuota(b, reply) ==
  /\ pc[b] = "fallback" /\ reply \in Replies(b)
  /\ Add(b, IF reply = "windows" THEN [account[b] EXCEPT !.groups = TRUE]
            ELSE [account[b] EXCEPT !.error = TRUE])
  /\ UNCHANGED unsupported

Finish(b) ==
  /\ pc[b] = "account" /\ Len(accounts[b]) = Len(files[b])
  /\ Go(b, "done")
  /\ UNCHANGED <<host, files, updatedAt, accounts, unsupported, account, expired,
                 floor>>

-----------------------------------------------------------------------------
Init ==
  /\ served = [a \in Auth |-> 0] /\ records = {}
  /\ newest = [a \in Auth |-> 0]
  /\ pc = [b \in Build |-> "idle"] /\ files = [b \in Build |-> <<>>]
  /\ updatedAt = [b \in Build |-> [a \in Auth |-> 0]]
  /\ accounts = [b \in Build |-> <<>>]
  /\ account = [b \in Build |-> NoAccount]
  /\ unsupported = [b \in Build |-> {}]
  /\ expired = [b \in Build |-> FALSE]
  /\ floor = [b \in Build |-> [a \in Auth |-> 0]]

Step(b) ==
  \/ Start(b) \/ Expire(b) \/ AuthFilesUnavailable(b) \/ FetchAuthFiles(b)
  \/ AddUnsupported(b) \/ AskProvider(b)
  \/ \E reply \in Reply : \/ ReadQuota(b, reply) \/ QuotaFails(b, reply)
                          \/ TryProject(b, reply) \/ ProjectQuota(b, reply)
  \/ Finish(b)

Next ==
  \/ \E a \in Auth : Serve(a) \/ \E n \in 1..MaxRequests[a] : HandleRecord(a, n)
  \/ \E b \in Build : Step(b)

Spec == Init /\ [][Next]_vars

-----------------------------------------------------------------------------
(* Properties *)

\* The providers of a list, of files or accounts, that the bridge cannot read.
Unread(list) == {x.provider : x \in ToSet(list)} \ (Supported \cup {""})

\* quota.go:164, 177: whichever calls fail, and also when the context runs out
\* half way, a finished document lists every credential once, in the host's
\* order, and names the providers among theirs that the bridge cannot read.
EveryCredentialListed ==
  \A b \in Build : pc[b] = "done" =>
    /\ Len(accounts[b]) = Len(files[b])
    /\ \A i \in DOMAIN accounts[b] :
         /\ accounts[b][i].auth = files[b][i].auth
         /\ accounts[b][i].provider = files[b][i].provider
    /\ unsupported[b] = Unread(files[b])

\* quota.go:164: a credential whose provider the bridge can read shows its
\* quota or an error, never both and never neither, whatever the provider
\* answers and whichever of Antigravity's two endpoints fails.
QuotaOrError ==
  \A b \in Build : pc[b] = "done" =>
    \A i \in DOMAIN accounts[b] :
      IF accounts[b][i].provider \in Supported
        THEN accounts[b][i].error # accounts[b][i].groups
        ELSE ~accounts[b][i].error /\ ~accounts[b][i].groups

\* A document whose build started after another one was finished never names
\* an older model of a credential than that one did, although records arrive
\* late and out of order.
ModelsMoveForward ==
  \A b \in Build : \A i \in DOMAIN accounts[b] :
    accounts[b][i].lastModel >= floor[b][accounts[b][i].auth]
=============================================================================
