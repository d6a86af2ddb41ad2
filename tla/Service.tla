------------------------------ MODULE Service -------------------------------
(***************************************************************************)
(* The services of a connection: tcpusb/service.go.  Each service relays   *)
(* one stream between the peer and the device.  Its fields are read and    *)
(* written by Reader and Closer (through Socket.End), by its handler and   *)
(* by its forwarder; mu[i] is Service.mu.  Where the code touches a field  *)
(* without the mutex, the step here does so too.                           *)
(*                                                                         *)
(* The transport is the connection to the device through the adb server.   *)
(* dev[i] is that connection: "none" before it is dialled, "open", "eof"   *)
(* once the device side has closed it, "closed" once the bridge has.       *)
(* transport[i] says whether the field Service.transport is non-nil.       *)
(* Calling a method of a nil transport panics, which ends the process.     *)
(***************************************************************************)
EXTENDS Socket

VARIABLES
    mu,         \* Service.mu
    transport,  \* Service.transport # nil
    opened,     \* Service.opened
    closeArg,   \* the localID End has computed for its CLSE
    ended,      \* Service.ended, and endCh is closed
    needAck,    \* Service.needAck
    doneCh,     \* doneCh is closed
    dev,        \* the connection to the device
    chunk,      \* number of the last chunk read from the device
    crashed     \* a goroutine has panicked

serviceVars == <<mu, transport, opened, closeArg, ended, needAck, doneCh, dev,
                 chunk, crashed>>

(* Where End returns to: the range loop of ServiceMap.End if p holds its   *)
(* mutex, the packet loop, or the deferred function of a goroutine.        *)
AfterEnd(p) ==
    IF p \in Handlers THEN "exit"
    ELSE IF p \in Forwarders THEN "closeDone"
    ELSE IF smMu = p THEN "mapNext" ELSE "read"

-----------------------------------------------------------------------------
(* Service.End on the service p works on.                                  *)

(* Mutant of EndLock: End does not look at s.ended.                        *)
EndAgain(p) ==
    LET i == Target(p) IN
    /\ pc[p] = "endLock"
    /\ mu[i] = Free
    /\ Goto(p, "endWrite")
    /\ mu' = [mu EXCEPT ![i] = p]
    /\ dev' = IF transport[i] THEN [dev EXCEPT ![i] = "closed"] ELSE dev
    /\ closeArg' = [closeArg EXCEPT ![i] = IF opened[i] THEN "localID" ELSE "zero"]
    /\ UNCHANGED connVars
    /\ UNCHANGED <<transport, opened, ended, needAck, doneCh, chunk, crashed>>

EndLock(p) ==
    LET i == Target(p) IN
    /\ pc[p] = "endLock"
    /\ mu[i] = Free
    /\ IF ended[i]
         THEN Goto(p, AfterEnd(p)) /\ UNCHANGED <<mu, dev, closeArg>>
         ELSE /\ Goto(p, "endWrite")
              /\ mu' = [mu EXCEPT ![i] = p]
              /\ dev' = IF transport[i] THEN [dev EXCEPT ![i] = "closed"] ELSE dev
              /\ closeArg' = [closeArg EXCEPT
                                ![i] = IF opened[i] THEN "localID" ELSE "zero"]
    /\ UNCHANGED connVars
    /\ UNCHANGED <<transport, opened, ended, needAck, doneCh, chunk, crashed>>

EndWrite(p) ==
    /\ WriteLock(p, "endWrite", "endSend", "endSet")
    /\ UNCHANGED serviceVars

EndSend(p) ==
    /\ WriteConn(p, "endSend", "endSet",
                 Packet("CLSE", Target(p), closeArg[Target(p)], 0))
    /\ UNCHANGED serviceVars

EndSet(p) ==
    LET i == Target(p) IN
    /\ pc[p] = "endSet"
    /\ transport' = [transport EXCEPT ![i] = FALSE]
    /\ ended' = [ended EXCEPT ![i] = TRUE]
    /\ mu' = [mu EXCEPT ![i] = Free]
    /\ Goto(p, AfterEnd(p))
    /\ UNCHANGED connVars
    /\ UNCHANGED <<opened, closeArg, needAck, doneCh, dev, chunk, crashed>>

End(p) == EndLock(p) \/ EndWrite(p) \/ EndSend(p) \/ EndSet(p)

-----------------------------------------------------------------------------
(* Service.handleOpenPacket, run by Handler(i).                            *)

(* device.Transport() dials the adb server; it may fail.                   *)
Dial(i) ==
    /\ pc[Handler(i)] = "dial"
    /\ \/ Goto(Handler(i), "adopt") /\ dev' = [dev EXCEPT ![i] = "open"]
       \/ Goto(Handler(i), "remove") /\ UNCHANGED dev
    /\ UNCHANGED connVars
    /\ UNCHANGED <<mu, transport, opened, closeArg, ended, needAck, doneCh,
                   chunk, crashed>>

(* Mutant of AdoptTransport: keeps the transport of a service that ended.  *)
AdoptAlways(i) ==
    /\ pc[Handler(i)] = "adopt"
    /\ mu[i] = Free
    /\ Goto(Handler(i), "name")
    /\ transport' = [transport EXCEPT ![i] = TRUE]
    /\ UNCHANGED connVars
    /\ UNCHANGED <<mu, opened, closeArg, ended, needAck, doneCh, dev, chunk, crashed>>

(* Keep the transport, or close it (ErrLateTransport) if End came first.   *)
AdoptTransport(i) ==
    /\ pc[Handler(i)] = "adopt"
    /\ mu[i] = Free
    /\ IF ended[i]
         THEN /\ Goto(Handler(i), "remove")
              /\ dev' = [dev EXCEPT ![i] = "closed"]
              /\ UNCHANGED transport
         ELSE /\ Goto(Handler(i), "name")
              /\ transport' = [transport EXCEPT ![i] = TRUE]
              /\ UNCHANGED dev
    /\ UNCHANGED connVars
    /\ UNCHANGED <<mu, opened, closeArg, ended, needAck, doneCh, chunk, crashed>>

(* s.transport.Write(name): evaluates the field without the mutex.         *)
SendName(i) ==
    /\ pc[Handler(i)] = "name"
    /\ transport[i]
    /\ \/ dev[i] # "closed" /\ Goto(Handler(i), "reply")
       \/ dev[i] # "open" /\ Goto(Handler(i), "remove")
    /\ UNCHANGED connVars
    /\ UNCHANGED serviceVars

(* io.ReadFull(s.transport, reply): evaluates the field, then blocks.      *)
ReadReply(i) ==
    /\ pc[Handler(i)] = "reply"
    /\ transport[i]
    /\ Goto(Handler(i), "await")
    /\ UNCHANGED connVars
    /\ UNCHANGED serviceVars

(* The device answers OKAY, FAIL or something else, or the read fails.     *)
Reply(i) ==
    /\ pc[Handler(i)] = "await"
    /\ \/ dev[i] = "open" /\ \E l \in {"okWrite", "fail", "remove"} :
                                Goto(Handler(i), l)
       \/ dev[i] # "open" /\ Goto(Handler(i), "remove")
    /\ UNCHANGED connVars
    /\ UNCHANGED serviceVars

(* On FAIL the length of the message is read from s.transport.             *)
ReadFail(i) ==
    /\ pc[Handler(i)] = "fail"
    /\ transport[i]
    /\ Goto(Handler(i), "remove")
    /\ UNCHANGED connVars
    /\ UNCHANGED serviceVars

(* The three unlocked uses of s.transport panic when End has made it nil.  *)
NilTransport(i) ==
    /\ pc[Handler(i)] \in {"name", "reply", "fail"}
    /\ ~transport[i]
    /\ crashed' = TRUE
    /\ UNCHANGED socketVars
    /\ UNCHANGED <<mu, transport, opened, closeArg, ended, needAck, doneCh,
                   dev, chunk>>

OkayWrite(i) ==
    /\ WriteLock(Handler(i), "okWrite", "okSend", "setOpened")
    /\ UNCHANGED serviceVars

OkaySend(i) ==
    /\ WriteConn(Handler(i), "okSend", "setOpened",
                 Packet("OKAY", i, "localID", 0))
    /\ UNCHANGED serviceVars

(* s.opened = true, without the mutex, and go s.forwardFromDevice().       *)
SetOpened(i) ==
    /\ pc[Handler(i)] = "setOpened"
    /\ opened' = [opened EXCEPT ![i] = TRUE]
    /\ pc' = [pc EXCEPT ![Handler(i)] = "wait", ![Forwarder(i)] = "loop"]
    /\ UNCHANGED connVars
    /\ UNCHANGED <<mu, transport, closeArg, ended, needAck, doneCh, dev, chunk,
                   crashed>>

(* Mutant of Wait: does not wait for the forwarder.                        *)
WaitNot(i) ==
    /\ pc[Handler(i)] = "wait"
    /\ Goto(Handler(i), "remove")
    /\ UNCHANGED connVars
    /\ UNCHANGED serviceVars

Wait(i) ==
    /\ pc[Handler(i)] = "wait"
    /\ doneCh[i]
    /\ Goto(Handler(i), "remove")
    /\ UNCHANGED connVars
    /\ UNCHANGED serviceVars

Remove(i) == MapRemove(i) /\ UNCHANGED serviceVars

-----------------------------------------------------------------------------
(* Packets for a service, handled by Reader.                               *)

HandleOkay ==
    LET i == tgt[Reader] IN
    /\ pc[Reader] = "OKAY"
    /\ mu[i] = Free
    /\ IF ended[i]          THEN Goto(Reader, "read") /\ UNCHANGED needAck
       ELSE IF ~transport[i] THEN Goto(Reader, "premature") /\ UNCHANGED needAck
       ELSE Goto(Reader, "read") /\ needAck' = [needAck EXCEPT ![i] = FALSE]
    /\ UNCHANGED connVars
    /\ UNCHANGED <<mu, transport, opened, closeArg, ended, doneCh, dev, chunk,
                   crashed>>

(* Data goes to the device first; a WRTE without data is just acknowledged. *)
HandleWrite ==
    LET i == tgt[Reader] IN
    /\ pc[Reader] = "WRTE"
    /\ mu[i] = Free
    /\ IF ended[i]          THEN Goto(Reader, "read") /\ UNCHANGED mu
       ELSE IF ~transport[i] THEN Goto(Reader, "premature") /\ UNCHANGED mu
       ELSE /\ Goto(Reader, "devWrite") \/ Goto(Reader, "ackWrite")
            /\ mu' = [mu EXCEPT ![i] = Reader]
    /\ UNCHANGED connVars
    /\ UNCHANGED <<transport, opened, closeArg, ended, needAck, doneCh, dev,
                   chunk, crashed>>

(* transport.Write(packet.Data) with mu held: completes when the device    *)
(* takes the data, which may be never; may fail once the device side is    *)
(* closed, and then Start returns the error.                               *)
DeviceWrite ==
    /\ pc[Reader] = "devWrite"
    /\ \/ Goto(Reader, "ackWrite") /\ UNCHANGED mu
       \/ /\ dev[tgt[Reader]] # "open"
          /\ Goto(Reader, "sockEnd")
          /\ mu' = [mu EXCEPT ![tgt[Reader]] = Free]
    /\ UNCHANGED connVars
    /\ UNCHANGED <<transport, opened, closeArg, ended, needAck, doneCh, dev,
                   chunk, crashed>>

(* Mutant of AckWrite: the WRTE is not acknowledged.                       *)
AckNot ==
    /\ pc[Reader] = "ackWrite"
    /\ Goto(Reader, "ackDone")
    /\ UNCHANGED connVars
    /\ UNCHANGED serviceVars

AckWrite ==
    /\ WriteLock(Reader, "ackWrite", "ackSend", "ackDone")
    /\ UNCHANGED serviceVars

AckSend ==
    /\ WriteConn(Reader, "ackSend", "ackDone",
                 Packet("OKAY", tgt[Reader], "localID", 0))
    /\ UNCHANGED serviceVars

AckDone ==
    /\ pc[Reader] = "ackDone"
    /\ Goto(Reader, "read")
    /\ mu' = [mu EXCEPT ![tgt[Reader]] = Free]
    /\ UNCHANGED connVars
    /\ UNCHANGED <<transport, opened, closeArg, ended, needAck, doneCh, dev,
                   chunk, crashed>>

(* Reads s.transport without the mutex and without looking at s.ended.     *)
HandleClose ==
    /\ pc[Reader] = "CLSE"
    /\ Goto(Reader, IF transport[tgt[Reader]] THEN "endLock" ELSE "premature")
    /\ UNCHANGED connVars
    /\ UNCHANGED serviceVars

-----------------------------------------------------------------------------
(* Service.forwardFromDevice, run by Forwarder(i).  The handshake set      *)
(* maxPayload to a positive value, so a read that returns has data.        *)

ForwardCheck(i) ==
    /\ pc[Forwarder(i)] = "loop"
    /\ mu[i] = Free
    /\ Goto(Forwarder(i), IF ended[i] \/ ~transport[i] THEN "endLock"
                          ELSE IF needAck[i] THEN "nap" ELSE "devRead")
    /\ UNCHANGED connVars
    /\ UNCHANGED serviceVars

(* select on endCh and a timer                                             *)
ForwardNap(i) ==
    /\ pc[Forwarder(i)] = "nap"
    /\ \/ ended[i] /\ Goto(Forwarder(i), "endLock")
       \/ Goto(Forwarder(i), "loop")
    /\ UNCHANGED connVars
    /\ UNCHANGED serviceVars

(* Mutant of ForwardRead: goes round the loop again on a read error.       *)
ForwardReadRetry(i) ==
    /\ pc[Forwarder(i)] = "devRead"
    /\ \/ /\ dev[i] = "open" /\ chunk[i] < MaxChunks
          /\ Goto(Forwarder(i), "push")
          /\ chunk' = [chunk EXCEPT ![i] = @ + 1]
       \/ dev[i] # "open" /\ Goto(Forwarder(i), "loop") /\ UNCHANGED chunk
    /\ UNCHANGED connVars
    /\ UNCHANGED <<mu, transport, opened, closeArg, ended, needAck, doneCh,
                   dev, crashed>>

ForwardRead(i) ==
    /\ pc[Forwarder(i)] = "devRead"
    /\ \/ /\ dev[i] = "open" /\ chunk[i] < MaxChunks
          /\ Goto(Forwarder(i), "push")
          /\ chunk' = [chunk EXCEPT ![i] = @ + 1]
       \/ /\ dev[i] # "open"
          /\ Goto(Forwarder(i), "endLock")
          /\ UNCHANGED chunk
    /\ UNCHANGED connVars
    /\ UNCHANGED <<mu, transport, opened, closeArg, ended, needAck, doneCh,
                   dev, crashed>>

ForwardPush(i) ==
    /\ pc[Forwarder(i)] = "push"
    /\ mu[i] = Free
    /\ IF ended[i]
         THEN Goto(Forwarder(i), "loop") /\ UNCHANGED mu
         ELSE Goto(Forwarder(i), "pushWrite") /\ mu' = [mu EXCEPT ![i] = Forwarder(i)]
    /\ UNCHANGED connVars
    /\ UNCHANGED <<transport, opened, closeArg, ended, needAck, doneCh, dev,
                   chunk, crashed>>

PushWrite(i) ==
    /\ WriteLock(Forwarder(i), "pushWrite", "pushSend", "pushSet")
    /\ UNCHANGED serviceVars

PushSend(i) ==
    /\ WriteConn(Forwarder(i), "pushSend", "pushSet",
                 Packet("WRTE", i, "localID", chunk[i]))
    /\ UNCHANGED serviceVars

(* Mutant of PushSet: does not set needAck.                                *)
PushNoAck(i) ==
    /\ pc[Forwarder(i)] = "pushSet"
    /\ Goto(Forwarder(i), "loop")
    /\ mu' = [mu EXCEPT ![i] = Free]
    /\ UNCHANGED connVars
    /\ UNCHANGED <<transport, opened, closeArg, ended, needAck, doneCh, dev, chunk,
                   crashed>>

PushSet(i) ==
    /\ pc[Forwarder(i)] = "pushSet"
    /\ Goto(Forwarder(i), "loop")
    /\ needAck' = [needAck EXCEPT ![i] = TRUE]
    /\ mu' = [mu EXCEPT ![i] = Free]
    /\ UNCHANGED connVars
    /\ UNCHANGED <<transport, opened, closeArg, ended, doneCh, dev, chunk,
                   crashed>>

(* Mutant of CloseDone: the forwarder returns without closing doneCh.      *)
CloseDoneNot(i) ==
    /\ pc[Forwarder(i)] = "closeDone"
    /\ Goto(Forwarder(i), "exit")
    /\ UNCHANGED connVars
    /\ UNCHANGED serviceVars

CloseDone(i) ==
    /\ pc[Forwarder(i)] = "closeDone"
    /\ Goto(Forwarder(i), "exit")
    /\ doneCh' = [doneCh EXCEPT ![i] = TRUE]
    /\ UNCHANGED connVars
    /\ UNCHANGED <<mu, transport, opened, closeArg, ended, needAck, dev, chunk,
                   crashed>>

ServiceInit ==
    /\ mu = [i \in Service |-> Free]
    /\ transport = [i \in Service |-> FALSE]
    /\ opened = [i \in Service |-> FALSE]
    /\ closeArg = [i \in Service |-> "zero"]
    /\ ended = [i \in Service |-> FALSE]
    /\ needAck = [i \in Service |-> FALSE]
    /\ doneCh = [i \in Service |-> FALSE]
    /\ dev = [i \in Service |-> "none"]
    /\ chunk = [i \in Service |-> 0]
    /\ crashed = FALSE

=============================================================================
