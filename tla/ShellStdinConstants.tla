------------------------ MODULE ShellStdinConstants -------------------------
(***************************************************************************)
(* The parameters of ShellStdin, shared with the modules that compose it.  *)
(***************************************************************************)
EXTENDS Naturals

CONSTANTS
    Writers,     \* goroutines
    NoWriter,    \* writeMu is free
    MaxOps,      \* calls that each makes
    MaxChunks,   \* chunks of one Write
    Capacity     \* units that the connection holds before a write blocks

ASSUME StdinAssumption ==
    /\ NoWriter \notin Writers
    /\ MaxOps \in Nat /\ MaxChunks \in Nat /\ Capacity \in Nat \ {0}

=============================================================================
