--------------------------- MODULE PacketChannel ----------------------------
(***************************************************************************)
(* What Socket.Start expects of its PacketReader: the packets the client   *)
(* sent, whole, in order and none twice, up to the first one that is       *)
(* malformed or to the loss of the connection.                             *)
(***************************************************************************)
EXTENDS Naturals, Sequences

CONSTANT Valid(_)  \* the packets the reader accepts

VARIABLES
    wire,      \* the packets the client sends
    received,  \* the packets ReadPacket has returned
    failed     \* ReadPacket has returned an error

vars == <<wire, received, failed>>

Deliver ==
    /\ ~failed
    /\ Len(received) < Len(wire)
    /\ Valid(wire[Len(received) + 1])
    /\ received' = Append(received, wire[Len(received) + 1])
    /\ UNCHANGED <<wire, failed>>

Fail ==
    /\ ~failed
    /\ failed' = TRUE
    /\ UNCHANGED <<wire, received>>

Init == received = <<>> /\ failed = FALSE

Next == Deliver \/ Fail

Spec == Init /\ [][Next]_vars /\ WF_vars(Deliver)

=============================================================================
