--------------------------- MODULE MCServiceTable ---------------------------
(***************************************************************************)
(* Small instances of ServiceTable.                                        *)
(***************************************************************************)
EXTENDS ServiceTable, TLC

Symmetry == Permutations(Service)
=============================================================================
