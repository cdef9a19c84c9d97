--------------------------- MODULE MCUsageRecords ---------------------------
(***************************************************************************)
(* UsageRecords on small sets of deliveries of two credentials.            *)
(***************************************************************************)
EXTENDS UsageRecords, Sequences, TLC

D(i, o, r, c, t) ==
  "input" :> i @@ "output" :> o @@ "reasoning" :> r @@ "cached" :> c @@ "total" :> t

Rec(p, m, a, t, d) ==
  [provider |-> p, model |-> m, auth |-> a, requestedAt |-> t, detail |-> d]

Names == "anthropic" :> "claude" @@ "claude" :> "claude" @@ "openai" :> "codex"
           @@ "" :> ""

\* Requests out of order, a follow-up of the second one, a record without a
\* time, and a request of another credential.
Requests ==
  << Rec("claude", "sonnet", "a1", 1, D(2, 3, 1, 0, 0)),
     Rec("anthropic", "opus", "a1", 2, D(1, 1, 0, 1, 5)),
     Rec("openai", "image", "a1", 2, D(0, 4, 0, 0, 0)),
     Rec("claude", "sonnet", "a1", 0, D(1, 0, 0, 0, 1)),
     Rec("openai", "opus", "a2", 1, D(1, 0, 0, 0, 1)) >>

\* The first three of them with a record delivered twice under two names of
\* one provider, a record without a provider or a time, one without a
\* credential and one without a model.
Deliveries ==
  SubSeq(Requests, 1, 3) \o
  << Rec("claude", "opus", "a1", 2, D(1, 1, 0, 1, 5)),
     Rec("", "sonnet", "a2", 0, D(1, 2, 0, 0, 3)),
     Rec("openai", "image", "", 1, D(1, 2, 0, 0, 3)),
     Rec("openai", "", "a2", 1, D(1, 2, 0, 0, 3)) >>
=============================================================================
