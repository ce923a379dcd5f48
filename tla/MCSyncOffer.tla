---------------------------- MODULE MCSyncOffer ----------------------------
(* SyncOffer on a small instance.  Liveness is checked too, so that no     *)
(* symmetry is used.                                                       *)
EXTENDS SyncOffer

CONSTANTS f1, f2

(* Versions differ for the first file only.                                *)
MCVersions == (f1 :> {1, 2}) @@ (f2 :> {1})

=============================================================================
