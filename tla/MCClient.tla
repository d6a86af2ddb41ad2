------------------------------ MODULE MCClient ------------------------------
(***************************************************************************)
(* A small instance of ClientSession.                                      *)
(***************************************************************************)
EXTENDS ClientSession
=============================================================================
