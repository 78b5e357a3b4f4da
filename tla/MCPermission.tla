----------------------------- MODULE MCPermission -----------------------------
(* A small instance of Permission: a tool and the loop of one session, and a *)
(* second tool or the bridge in another; two patterns.                       *)
EXTENDS Permission, TLC

CONSTANTS t1, t2, l1, b1, s1, s2, p1, p2

MCAsks == {t1, t2, l1}
MCBridge == {t1, b1}
MCPatterns == {p1, p2}
MCSessionOf == [a \in Asks |-> IF a \in {t1, l1} THEN s1 ELSE s2]
MCKindOf ==
  [a \in Asks |-> CASE a = l1 -> "loop" [] a = b1 -> "bridge" [] OTHER -> "tool"]
MCRulesetOf ==
  [a \in Asks |-> CASE a = t1 -> p1 :> "allow" @@ p2 :> "ask"
                    [] a = t2 -> p1 :> "ask" @@ p2 :> "deny"
                    [] OTHER -> p1 :> "ask" @@ p2 :> "ask"]
=============================================================================
