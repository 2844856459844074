----------------------------- MODULE MCLineage -----------------------------
(* Instances of Lineage for TLC.                                           *)
EXTENDS Lineage, TLC

CONSTANTS p1, p2, alice, bob, d1, o1, n1, n2
Owners == (p1 :> alice) @@ (p2 :> bob)
OneDoc == o1 :> d1

(* Both users are editors and have a policy that allows them to write; a   *)
(* policy that denies is not bound to anyone yet.                          *)
Editors == {<<alice, "editor">>, <<bob, "editor">>}
AllowAndDeny == (n1 :> [effect |-> "allow", docs |-> Docs]) @@ (n2 :> [effect |-> "deny", docs |-> Docs])
BothAllowed == {<<alice, n1>>, <<bob, n1>>}

Ops == [k \in OpKinds |-> CASE k = "overlay" -> 3 [] k = "acquire" -> 2 [] OTHER -> 1]

(* The two users and their processes may change places.                    *)
Identity == [x \in {p1, p2, alice, bob} |-> x]
Swap == {Identity, (p1 :> p2) @@ (p2 :> p1) @@ (alice :> bob) @@ (bob :> alice)}
=============================================================================
