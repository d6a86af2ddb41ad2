--------------------------- MODULE ClientSession ----------------------------
(***************************************************************************)
(* The jobs of DeviceJobs, where the one that opens a shell protocol v2    *)
(* session goes on as ShellStdin: the connection that                      *)
(* ShellV2WithOptionsContext has opened is the one that the writers of the *)
(* session share.                                                          *)
(***************************************************************************)
EXTENDS DeviceJobs, ShellStdinConstants

VARIABLES out, taken, mu, pc, op, ops, size, written, pos, failed

Stdin == INSTANCE ShellStdin

stdinVars == <<out, taken, mu, pc, op, ops, size, written, pos, failed>>
sessionVars == <<vars, stdinVars>>

(* The session has been returned to its user.                              *)
SessionOpen ==
    job = "ShellV2WithOptionsContext" /\ stage = "end" /\ answer = "true"

InSession(A) ==
    /\ SessionOpen
    /\ A
    /\ UNCHANGED <<callVars, wire, buf, torn, ctxVars, ans, sent, jobVars, deviceVars>>

SessionInit == Init /\ Stdin!WritersIdle

SessionNext ==
    \/ Next /\ UNCHANGED stdinVars
    \/ InSession(Stdin!Next)

SessionSpec == SessionInit /\ [][SessionNext]_sessionVars

(* The fairness of the jobs; the device reads what it is sent, and each    *)
(* goroutine that writes goes on.                                          *)
FairSessionSpec ==
    /\ SessionSpec
    /\ JobFairness
    /\ WF_sessionVars(InSession(Stdin!DeviceReads))
    /\ \A w \in Writers : WF_sessionVars(InSession(Stdin!WriterStep(w)))

(* The properties of ShellStdin, of a session that Client has opened.      *)
PacketsWhole == Stdin!PacketsWhole
CountTrue == Stdin!CountTrue
WritersReturn == Stdin!WritersReturn

=============================================================================
