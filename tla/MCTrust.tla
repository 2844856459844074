------------------------------ MODULE MCTrust ------------------------------
(* Instances of Trust for TLC.                                             *)
EXTENDS Trust, TLC

(* One provider is the enrolment default, the other is found by its issuer.*)
OnlySubject == {[skew |-> 1, require |-> [sub |-> "bob"]]}

(* Every operation; two processes may rotate one key, and two sessions of  *)
(* one provider may be open.                                               *)
EveryOp == [k \in OpKinds |-> IF k \in {"rotate", "complete"} THEN 2 ELSE 1]
(* Only what leads to one push.                                            *)
PushOps == [k \in OpKinds |->
              IF k \in {"provider", "complete", "enroll", "verifyChain", "push"} THEN 1 ELSE 0]

Symm == Permutations(Procs) \cup Permutations(Devices)
=============================================================================
