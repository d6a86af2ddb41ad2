----------------------------- MODULE MCShellV2 ------------------------------
(***************************************************************************)
(* Small instances of ShellV2.                                             *)
(***************************************************************************)
EXTENDS ShellV2
=============================================================================
