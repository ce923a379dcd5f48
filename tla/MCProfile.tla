----------------------------- MODULE MCProfile -----------------------------
(* Profile, and SocketFile with it, on a small instance.                   *)
EXTENDS Profile, TLC

(* Daemons, and clients, are interchangeable.  Safety only.                *)
Symmetry == Permutations(Daemon) \cup Permutations(Client)

=============================================================================
