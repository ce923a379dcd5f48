--------------------------- MODULE MCAndroidLoop ---------------------------
(* AndroidLoop on a small instance.  Liveness is checked too, so that no   *)
(* symmetry is used.                                                       *)
EXTENDS AndroidLoop

=============================================================================
