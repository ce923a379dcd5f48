-------------------------- MODULE MCFileTransfer ---------------------------
(* FileTransfer on small instances.  Liveness is checked too, so that no   *)
(* symmetry is used.                                                       *)
EXTENDS FileTransfer

=============================================================================
