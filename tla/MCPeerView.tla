----------------------------- MODULE MCPeerView -----------------------------
(* PeerView on small instances.                                            *)
EXTENDS PeerView, TLC

(* Clients are interchangeable.  Safety only.                              *)
Symmetry == Permutations(Client)

=============================================================================
