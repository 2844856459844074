---------------------------- MODULE HeadRegister ----------------------------
(***************************************************************************)
(* What a sync target promises: one published value, and for each replica  *)
(* the value it knows to be the basis of its own state.  A publication is  *)
(* one replica's: it goes over the value which that replica knows, and     *)
(* what it published becomes its basis, or falls back to the old one when  *)
(* the answer is lost.  A replica that has no basis yet may publish over   *)
(* anything; one that has a basis never publishes over another's value.    *)
(***************************************************************************)
CONSTANTS Devices, Values, None

VARIABLES
  value,    \* the published value, or None
  base,     \* base[d]: the value that d's state is based on, or None
  unacked   \* unacked[d]: the basis before a publication not yet answered, if any

vars == <<value, base, unacked>>

Init ==
  /\ value = None
  /\ base = [d \in Devices |-> None]
  /\ unacked = [d \in Devices |-> {}]

(* A push: compare with what the replica knows, and swap.                  *)
Publish(d) ==
  /\ unacked[d] = {}
  /\ base[d] \in {None, value}
  /\ value' \in Values
  /\ base' = [base EXCEPT ![d] = value']
  /\ unacked' = [unacked EXCEPT ![d] = {base[d]}]

(* The replica learns that its publication was made, or never does.        *)
Acknowledge(d) ==
  /\ unacked[d] # {}
  /\ unacked' = [unacked EXCEPT ![d] = {}]
  /\ UNCHANGED <<value, base>>

Lose(d) ==
  /\ \E b \in unacked[d] : base' = [base EXCEPT ![d] = b]
  /\ unacked' = [unacked EXCEPT ![d] = {}]
  /\ UNCHANGED value

(* A pull makes the published value the replica's basis.                   *)
Adopt(d) ==
  /\ unacked[d] = {}
  /\ value # None
  /\ base' = [base EXCEPT ![d] = value]
  /\ UNCHANGED <<value, unacked>>

Next == \E d \in Devices : Publish(d) \/ Acknowledge(d) \/ Lose(d) \/ Adopt(d)

Spec == Init /\ [][Next]_vars
=============================================================================
