--------------------------- MODULE MCKeySelection ---------------------------
(***************************************************************************)
(* KeySelection with two keys and blocks of every kind.                    *)
(***************************************************************************)
EXTENDS KeySelection, TLC

CONSTANTS r1, k1, k2

Keys == {k1, k2}

Mask == k1 :> "h1" @@ k2 :> "h2"
Checkbox == k1 :> "key_h1" @@ k2 :> "key_h2"

B(allow, box1, box2, advanced, ttl) ==
  [yaml |-> TRUE, allow |-> allow, advanced |-> advanced, ttl |-> ttl,
   boxes |-> "key_h1" :> box1 @@ "key_h2" :> box2]

Empty == B(None, "absent", "absent", "absent", 0)

Blocks == {Empty,
           B(FALSE, "on", "text", "object", 1),
           B(FALSE, "off", "on", "object", -1),
           B(TRUE, "off", "absent", "broken", 0)}

Configs      == {Parse(b) : b \in {x \in Blocks : Parses(x)}}
ParsedEmpty  == Parse(Empty)
AllowAllOf   == [c \in Config |-> c.allowAll]
TickedOf     == [c \in Config |-> c.selected]
UsageTTLOf   == [c \in Config |-> c.usageTTL]

Ask(route, token, refresh) ==
  [route |-> route, token |-> token, refresh |-> refresh]

SomeCalls ==
  {Ask("usage", k1, TRUE), Ask("usage", k2, FALSE), Ask("usage", None, FALSE),
   Ask("capabilities", k1, FALSE), Ask("other", k2, FALSE),
   Ask("panel", None, FALSE)}

SomeLists == {{}, {k1, k2}}
=============================================================================
