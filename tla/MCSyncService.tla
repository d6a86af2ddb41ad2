--------------------------- MODULE MCSyncService ----------------------------
(***************************************************************************)
(* Small instances of SyncService.                                         *)
(***************************************************************************)
EXTENDS SyncService
=============================================================================
