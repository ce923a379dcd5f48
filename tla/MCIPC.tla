------------------------------- MODULE MCIPC -------------------------------
(* IPC on a small instance: a client that asks often, and one that asks    *)
(* once.  Liveness is checked too, so that no symmetry is used.            *)
EXTENDS IPC

CONSTANTS Busy, Asks

MCRequests == [c \in Client |-> IF c = Busy THEN Asks ELSE 1]

=============================================================================
