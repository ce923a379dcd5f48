------------------------------ MODULE Consent ------------------------------
(***************************************************************************)
(* What the pairing of LocalEx nodes promises, with no network in it.      *)
(*                                                                         *)
(* A user of node n consents to peer m by answering "yes" to m's request.  *)
(* A node may trust a peer only on the ground of a consent given at one of *)
(* the two ends: its own user's, or the peer's.  Trust can be lost at any  *)
(* time (a peer is rediscovered, asks again, expires, is disconnected) and *)
(* a node that boots may trust, again, any peers it has a ground to trust. *)
(***************************************************************************)
CONSTANT Node

VARIABLES
  consent,   \* consent[n]: the peers n's user has said yes to, ever
  trust      \* trust[n]: the peers n treats as verified now

vars == <<consent, trust>>

(* The peers node n may trust, given the consents cs.                      *)
Grounded(cs, n) == cs[n] \cup {m \in Node : n \in cs[m]}

Init ==
  /\ consent = [n \in Node |-> {}]
  /\ trust = [n \in Node |-> {}]

(* n's user says yes to m.                                                 *)
Agree(n, m) ==
  /\ consent' = [consent EXCEPT ![n] = @ \cup {m}]
  /\ UNCHANGED trust

(* n acts on a consent: its own user's, or one m's user gave.              *)
Trust(n, m) ==
  /\ m \in Grounded(consent, n)
  /\ trust' = [trust EXCEPT ![n] = @ \cup {m}]
  /\ UNCHANGED consent

(* n stops trusting the peers of M.                                        *)
Forget(n, M) ==
  /\ trust' = [trust EXCEPT ![n] = @ \ M]
  /\ UNCHANGED consent

(* n boots and trusts what it had saved.                                   *)
Recall(n, M) ==
  /\ M \subseteq Grounded(consent, n)
  /\ trust' = [trust EXCEPT ![n] = M]
  /\ UNCHANGED consent

Next ==
  \E n \in Node :
    \/ \E m \in Node : Agree(n, m) \/ Trust(n, m)
    \/ \E M \in SUBSET Node : Forget(n, M) \/ Recall(n, M)

Spec == Init /\ [][Next]_vars

=============================================================================
