----------------------------- MODULE MCFraming -----------------------------
(* Framing on a small instance: bodies shorter than, as long as and longer *)
(* than a size.                                                            *)
EXTENDS Framing

MCBodySize == [m \in 1..Messages |-> (m % 3) + 1]

=============================================================================
