----------------------------- MODULE ShellStdin -----------------------------
(***************************************************************************)
(* The sending half of a shell protocol v2 session: Write, CloseStdin and  *)
(* Resize of adb/device_shell_v2.go, called by any number of goroutines,   *)
(* while the session is closed by another or by readLoop.                  *)
(*                                                                         *)
(* Write cuts its argument into chunks and sends each in a packet of its   *)
(* own; writeMu is held for one packet, which is written as a header and a *)
(* payload.  A payload is two units, so that a write that does not fit the *)
(* connection, or is cut off by Close, leaves half of it behind.           *)
(***************************************************************************)
EXTENDS ShellStdinConstants, Sequences, FiniteSets

VARIABLES
    conn,      \* the transport on this side: "open" or "closed"
    server,    \* the other side: "up", "silent" when it reads no more, or lost
    out,       \* every unit written
    taken,     \* how many of them the other side has read
    mu,        \* writeMu
    pc,        \* where a goroutine is: "idle", "lock", "send" or "unlock"
    op,        \* the call it makes, or made last
    ops,       \* calls it has made
    size,      \* packets of that call
    written,   \* packets of it that were sent
    pos,       \* units of the packet under way that were written
    failed     \* it returned an error

writerVars == <<out, taken, mu, pc, op, ops, size, written, pos, failed>>
vars == <<conn, server, writerVars>>

Kinds == {"Write", "CloseStdin", "Resize"}

(* A header, and a payload if there is one.                                *)
Units(k) == IF k = "CloseStdin" THEN 1 ELSE 3

-----------------------------------------------------------------------------
(* The calls.                                                              *)

Begin(w, k, n) ==
    /\ pc[w] = "idle" /\ ops[w] < MaxOps
    /\ pc' = [pc EXCEPT ![w] = IF n = 0 THEN "idle" ELSE "lock"]
    /\ op' = [op EXCEPT ![w] = k]
    /\ ops' = [ops EXCEPT ![w] = @ + 1]
    /\ size' = [size EXCEPT ![w] = n]
    /\ written' = [written EXCEPT ![w] = 0]
    /\ failed' = [failed EXCEPT ![w] = FALSE]
    /\ UNCHANGED <<conn, server, out, taken, mu, pos>>

Write(w) == \E n \in 0..MaxChunks : Begin(w, "Write", n)
CloseStdin(w) == Begin(w, "CloseStdin", 1)
Resize(w) == Begin(w, "Resize", 1)

(* Mutant of Lock: writePacket without writeMu.                            *)
LockNothing(w) ==
    /\ pc[w] = "lock"
    /\ pc' = [pc EXCEPT ![w] = "send"]
    /\ pos' = [pos EXCEPT ![w] = 0]
    /\ UNCHANGED <<conn, server, out, taken, mu, op, ops, size, written, failed>>

Lock(w) ==
    /\ pc[w] = "lock" /\ mu = NoWriter
    /\ mu' = w
    /\ pc' = [pc EXCEPT ![w] = "send"]
    /\ pos' = [pos EXCEPT ![w] = 0]
    /\ UNCHANGED <<conn, server, out, taken, op, ops, size, written, failed>>

(* writeShellV2Packet: the next unit goes to the connection.               *)
Send(w) ==
    /\ pc[w] = "send" /\ conn = "open" /\ server # "reset"
    /\ Len(out) - taken < Capacity
    /\ out' = Append(out, [w |-> w, op |-> ops[w], chunk |-> written[w] + 1,
                           unit |-> pos[w] + 1, of |-> Units(op[w])])
    /\ pos' = [pos EXCEPT ![w] = @ + 1]
    /\ pc' = [pc EXCEPT ![w] = IF pos[w] + 1 = Units(op[w]) THEN "unlock" ELSE @]
    /\ UNCHANGED <<conn, server, taken, mu, op, ops, size, written, failed>>

(* A connection that the other side has left takes some more data, until   *)
(* a write fails; then no write succeeds any more.                         *)
CannotSend ==
    /\ conn # "open" \/ server \in {"gone", "reset"}
    /\ server' = IF server = "gone" THEN "reset" ELSE server

(* Mutant of SendFails: does not unlock on the error path.                 *)
SendFailsLocked(w) ==
    /\ pc[w] = "send" /\ CannotSend
    /\ failed' = [failed EXCEPT ![w] = TRUE]
    /\ pc' = [pc EXCEPT ![w] = "idle"]
    /\ UNCHANGED <<conn, out, taken, mu, op, ops, size, written, pos>>

SendFails(w) ==
    /\ pc[w] = "send" /\ CannotSend
    /\ failed' = [failed EXCEPT ![w] = TRUE]
    /\ pc' = [pc EXCEPT ![w] = "idle"]
    /\ mu' = NoWriter
    /\ UNCHANGED <<conn, out, taken, op, ops, size, written, pos>>

(* Mutant of Unlock: counts a chunk that is still to be sent.              *)
UnlockAhead(w) ==
    /\ pc[w] = "unlock"
    /\ mu' = NoWriter
    /\ written' = [written EXCEPT ![w] = IF @ + 2 <= size[w] THEN @ + 2 ELSE size[w]]
    /\ pc' = [pc EXCEPT ![w] = IF written[w] + 2 < size[w] THEN "lock" ELSE "idle"]
    /\ UNCHANGED <<conn, server, out, taken, op, ops, size, pos, failed>>

Unlock(w) ==
    /\ pc[w] = "unlock"
    /\ mu' = NoWriter
    /\ written' = [written EXCEPT ![w] = @ + 1]
    /\ pc' = [pc EXCEPT ![w] = IF written[w] + 1 < size[w] THEN "lock" ELSE "idle"]
    /\ UNCHANGED <<conn, server, out, taken, op, ops, size, pos, failed>>

WriterStep(w) == Lock(w) \/ Send(w) \/ SendFails(w) \/ Unlock(w)

-----------------------------------------------------------------------------
(* The rest of the session, and the other side.                            *)

closeTransport ==
    /\ conn = "open"
    /\ conn' = "closed"
    /\ UNCHANGED <<server, writerVars>>

DeviceReads ==
    /\ server = "up" /\ taken < Len(out)
    /\ taken' = taken + 1
    /\ UNCHANGED <<conn, server, out, mu, pc, op, ops, size, written, pos, failed>>

DeviceStops ==
    /\ server = "up"
    /\ server' \in {"silent", "gone"}
    /\ UNCHANGED <<conn, writerVars>>

Next ==
    \/ \E w \in Writers :
         Write(w) \/ CloseStdin(w) \/ Resize(w) \/ WriterStep(w)
    \/ closeTransport \/ DeviceReads \/ DeviceStops

WritersIdle ==
    /\ out = <<>> /\ taken = 0
    /\ mu = NoWriter
    /\ pc = [w \in Writers |-> "idle"]
    /\ op = [w \in Writers |-> "Write"]
    /\ ops = [w \in Writers |-> 0]
    /\ size = [w \in Writers |-> 0]
    /\ written = [w \in Writers |-> 0]
    /\ pos = [w \in Writers |-> 0]
    /\ failed = [w \in Writers |-> FALSE]

Init == conn = "open" /\ server = "up" /\ WritersIdle

Spec == Init /\ [][Next]_vars

-----------------------------------------------------------------------------
(* Properties.                                                             *)

SamePacket(a, b) == a.w = b.w /\ a.op = b.op /\ a.chunk = b.chunk

(* The units of a packet follow one another: whoever reads the stream finds *)
(* a header, its whole payload, and the next header, whatever the          *)
(* goroutines do.  A packet can lack its end only where the stream ends,   *)
(* for the connection is not written to after a write has failed.          *)
PacketsWhole ==
    \A i \in 1..Len(out) :
      IF out[i].unit = 1
        THEN i = 1 \/ out[i - 1].unit = out[i - 1].of
        ELSE i > 1 /\ SamePacket(out[i - 1], out[i]) /\ out[i].unit = out[i - 1].unit + 1

(* The chunks of the last call of w that are complete in the stream.       *)
Complete(w) ==
    {i \in 1..Len(out) : /\ out[i].w = w /\ out[i].op = ops[w]
                         /\ out[i].unit = out[i].of}

(* A call that has returned says how much of its data was sent: no less    *)
(* and no more than is in the stream, with no chunk twice or left out, and *)
(* all of it if there is no error.                                         *)
CountTrue ==
    \A w \in Writers : pc[w] = "idle" /\ ops[w] > 0 =>
      /\ Cardinality(Complete(w)) = written[w]
      /\ {out[i].chunk : i \in Complete(w)} = 1..written[w]
      /\ failed[w] \/ written[w] = size[w]

(* Every call returns, except while the other side reads nothing and the   *)
(* session is open; closing the session releases the goroutine that is     *)
(* blocked in a write and those that wait for writeMu behind it.           *)
WritersReturn ==
    \A w \in Writers :
      pc[w] # "idle" ~> (pc[w] = "idle" \/ (server = "silent" /\ conn = "open"))

=============================================================================
