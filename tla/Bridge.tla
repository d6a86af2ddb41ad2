------------------------------- MODULE Bridge -------------------------------
(***************************************************************************)
(* A connection with the parties it stands between: the adb host that      *)
(* opened it (the peer) and the device behind the adb server.  Both follow *)
(* the adb protocol: the peer names only services it was told about, sends *)
(* one WRTE at a time and acknowledges every WRTE it receives.  Either may *)
(* close a stream at any moment, and the peer may stop reading or drop the *)
(* connection.                                                             *)
(***************************************************************************)
EXTENDS Service

CONSTANTS
    MaxWrites,     \* WRTE packets the peer sends per service
    ServerCloses   \* whether another goroutine calls Server.Close

ASSUME MaxWritesAssumption == MaxWrites \in Nat
ASSUME ServerClosesAssumption == ServerCloses \in BOOLEAN

VARIABLES
    peer,       \* the peer's view of each stream
    awaiting,   \* the peer has a WRTE that is not acknowledged
    written,    \* WRTE packets the peer has sent
    received    \* number of the last chunk the peer has received

peerVars == <<peer, awaiting, written, received>>
vars == <<socketVars, serviceVars, peerVars>>

-----------------------------------------------------------------------------
(* The peer.                                                               *)

PeerSend(cmd, i) ==
    /\ peerUp
    /\ fromClient' = Append(fromClient, [cmd |-> cmd, svc |-> i])
    /\ UNCHANGED <<pc, tgt, sockEnded, connOpen, peerUp, toClient, writeMu,
                   smMu, services, toEnd>>
    /\ UNCHANGED serviceVars

PeerOpen(i) ==
    /\ peer[i] = "idle"
    /\ PeerSend("OPEN", i)
    /\ peer' = [peer EXCEPT ![i] = "opening"]
    /\ UNCHANGED <<awaiting, written, received>>

PeerWrite(i) ==
    /\ peer[i] = "open"
    /\ ~awaiting[i]
    /\ written[i] < MaxWrites
    /\ PeerSend("WRTE", i)
    /\ awaiting' = [awaiting EXCEPT ![i] = TRUE]
    /\ written' = [written EXCEPT ![i] = @ + 1]
    /\ UNCHANGED <<peer, received>>

PeerClose(i) ==
    /\ peer[i] = "open"
    /\ PeerSend("CLSE", i)
    /\ peer' = [peer EXCEPT ![i] = "closing"]
    /\ UNCHANGED <<awaiting, written, received>>

(* The peer takes the next packet.  It acknowledges a WRTE on a stream it  *)
(* has not closed and ignores packets for a stream that it has.            *)
PeerRecv ==
    /\ peerUp
    /\ toClient # <<>>
    /\ LET k == Head(toClient)
           i == Head(toClient).svc IN
         /\ toClient' = Tail(toClient)
         /\ peer' = [peer EXCEPT
                       ![i] = IF k.cmd = "CLSE" THEN "closed"
                              ELSE IF k.cmd = "OKAY" /\ @ = "opening" THEN "open"
                              ELSE @]
         /\ awaiting' = [awaiting EXCEPT ![i] = k.cmd = "WRTE" /\ @]
         /\ received' = [received EXCEPT
                           ![i] = IF k.cmd = "WRTE" THEN k.data ELSE @]
         /\ fromClient' = IF k.cmd = "WRTE" /\ peer[i] = "open"
                            THEN Append(fromClient, [cmd |-> "OKAY", svc |-> i])
                            ELSE fromClient
    /\ UNCHANGED <<pc, tgt, sockEnded, connOpen, peerUp, writeMu, smMu,
                   services, toEnd>>
    /\ UNCHANGED <<written, serviceVars>>

(* The peer drops the connection; what it has not read is lost.            *)
PeerGone ==
    /\ peerUp
    /\ peerUp' = FALSE
    /\ toClient' = <<>>
    /\ UNCHANGED <<pc, tgt, sockEnded, connOpen, fromClient, writeMu, smMu,
                   services, toEnd>>
    /\ UNCHANGED <<serviceVars, peerVars>>

(* The device closes a stream.                                             *)
DeviceEOF(i) ==
    /\ dev[i] = "open"
    /\ dev' = [dev EXCEPT ![i] = "eof"]
    /\ UNCHANGED <<mu, transport, opened, closeArg, ended, needAck, doneCh,
                   chunk, crashed>>
    /\ UNCHANGED <<socketVars, peerVars>>

-----------------------------------------------------------------------------
(* The steps of each goroutine.                                            *)

EndStep(p) ==
    \/ (SocketEnd(p) \/ MapEndLock(p) \/ MapEndNext(p) \/ MapEndUnlock(p)
          \/ ConnClose(p)) /\ UNCHANGED serviceVars
    \/ End(p)

ReaderStep ==
    \/ (ReadPacket \/ ReadError \/ HandleOpen \/ ForwardServicePacket
          \/ ReturnPremature) /\ UNCHANGED serviceVars
    \/ HandleOkay \/ HandleWrite \/ DeviceWrite \/ AckWrite \/ AckSend
    \/ AckDone \/ HandleClose
    \/ EndStep(Reader)

HandlerStep(i) ==
    \/ Dial(i) \/ AdoptTransport(i) \/ SendName(i) \/ ReadReply(i) \/ Reply(i)
    \/ ReadFail(i) \/ NilTransport(i) \/ OkayWrite(i) \/ OkaySend(i)
    \/ SetOpened(i) \/ Wait(i) \/ Remove(i)
    \/ End(Handler(i))

ForwarderStep(i) ==
    \/ ForwardCheck(i) \/ ForwardNap(i) \/ ForwardRead(i) \/ ForwardPush(i)
    \/ PushWrite(i) \/ PushSend(i) \/ PushSet(i) \/ CloseDone(i)
    \/ End(Forwarder(i))

CallServerClose ==
    ServerCloses /\ ServerClose /\ UNCHANGED <<serviceVars, peerVars>>

PeerStep ==
    \/ \E i \in Service : PeerOpen(i) \/ PeerWrite(i) \/ PeerClose(i)
    \/ PeerRecv
    \/ PeerGone

BridgeStep ==
    /\ \/ ReaderStep \/ EndStep(Closer)
       \/ \E i \in Service : HandlerStep(i) \/ ForwarderStep(i)
    /\ UNCHANGED peerVars

(* Nothing is left to do: every goroutine has returned, or the process has *)
(* panicked.                                                               *)
Stopped ==
    \/ crashed
    \/ /\ pc[Reader] = "done"
       /\ pc[Closer] \in {"idle", "done"}
       /\ \A i \in Service : /\ pc[Handler(i)] \in {"off", "exit"}
                             /\ pc[Forwarder(i)] \in {"off", "exit"}

Next ==
    \/ /\ ~crashed
       /\ BridgeStep \/ CallServerClose \/ PeerStep
            \/ \E i \in Service : DeviceEOF(i)
    \/ Stopped /\ UNCHANGED vars

Init ==
    /\ SocketInit
    /\ ServiceInit
    /\ peer = [i \in Service |-> "idle"]
    /\ awaiting = [i \in Service |-> FALSE]
    /\ written = [i \in Service |-> 0]
    /\ received = [i \in Service |-> 0]

Spec == Init /\ [][Next]_vars

-----------------------------------------------------------------------------
(* Fairness.  The Go scheduler runs every goroutine that can run, and a    *)
(* mutex that is free is eventually handed to a waiter.  Dial and Reply    *)
(* are steps of the fair goroutines: the adb server answers an open.  But  *)
(* nothing makes a device that keeps its stream open take data: a write to *)
(* it need not return.                                                     *)

(* Reader is in transport.Write, with mu held, and no error can end it.    *)
WritesToDevice == pc[Reader] = "devWrite" /\ dev[tgt[Reader]] = "open"

GoroutineFairness ==
    /\ WF_vars(~crashed /\ ~WritesToDevice /\ ReaderStep /\ UNCHANGED peerVars)
    /\ WF_vars(~crashed /\ EndStep(Closer) /\ UNCHANGED peerVars)
    /\ \A i \in Service :
         /\ WF_vars(~crashed /\ HandlerStep(i) /\ UNCHANGED peerVars)
         /\ WF_vars(~crashed /\ ForwarderStep(i) /\ UNCHANGED peerVars)

(* A peer that may stop reading whenever it likes.                         *)
StallingPeerSpec == Spec /\ GoroutineFairness

(* A peer that reads what it is sent for as long as it is connected.       *)
FairSpec == Spec /\ GoroutineFairness /\ WF_vars(~crashed /\ PeerRecv)

(* A device that takes data whenever the forwarder is reading its output:  *)
(* with it, the only write that never returns is one of a circular wait.   *)
DrainedDeviceSpec ==
    /\ FairSpec
    /\ \A i \in Service :
         SF_vars(/\ ~crashed /\ tgt[Reader] = i /\ pc[Forwarder(i)] = "devRead"
                 /\ DeviceWrite /\ UNCHANGED peerVars)

-----------------------------------------------------------------------------
(* Properties.                                                             *)

EndLabels == {"endLock", "endWrite", "endSend", "endSet"}
SocketEndLabels == {"sockEnd", "mapLock", "mapNext", "connClose", "done"}
ReaderLabels == {"read", "dispatch", "OKAY", "WRTE", "CLSE", "devWrite",
                 "ackWrite", "ackSend", "ackDone", "premature"}
                  \cup EndLabels \cup SocketEndLabels
CloserLabels == {"idle"} \cup EndLabels \cup SocketEndLabels
HandlerLabels == {"off", "dial", "adopt", "name", "reply", "await", "fail",
                  "okWrite", "okSend", "setOpened", "wait", "remove", "exit"}
                   \cup EndLabels
ForwarderLabels == {"off", "loop", "nap", "devRead", "push", "pushWrite",
                    "pushSend", "pushSet", "closeDone", "exit"} \cup EndLabels

Label == ReaderLabels \cup CloserLabels \cup HandlerLabels \cup ForwarderLabels

LabelsOf(p) ==
    IF p = Reader THEN ReaderLabels
    ELSE IF p = Closer THEN CloserLabels
    ELSE IF p \in Handlers THEN HandlerLabels ELSE ForwarderLabels

PcOK == pc \in [Proc -> Label] /\ \A p \in Proc : pc[p] \in LabelsOf(p)

ConnOK ==
    /\ tgt \in [Enders -> Service \cup {NoService}]
    /\ sockEnded \in BOOLEAN /\ connOpen \in BOOLEAN /\ peerUp \in BOOLEAN
    /\ fromClient \in Seq(FromClient)
    /\ toClient \in Seq(ToClient) /\ Len(toClient) <= ConnCap
    /\ writeMu \in Proc \cup {Free}
    /\ smMu \in Enders \cup {Free}
    /\ services \subseteq Service /\ toEnd \subseteq Service

FieldsOK ==
    /\ mu \in [Service -> Proc \cup {Free}]
    /\ transport \in [Service -> BOOLEAN]
    /\ opened \in [Service -> BOOLEAN]
    /\ closeArg \in [Service -> {"localID", "zero"}]
    /\ ended \in [Service -> BOOLEAN]
    /\ needAck \in [Service -> BOOLEAN]
    /\ doneCh \in [Service -> BOOLEAN]
    /\ dev \in [Service -> {"none", "open", "eof", "closed"}]
    /\ chunk \in [Service -> 0..MaxChunks]
    /\ crashed \in BOOLEAN

PeerOK ==
    /\ peer \in [Service -> {"idle", "opening", "open", "closing", "closed"}]
    /\ awaiting \in [Service -> BOOLEAN]
    /\ written \in [Service -> 0..MaxWrites]
    /\ received \in [Service -> 0..MaxChunks]

(* Every variable stays in its range: no goroutine leaves its own code,    *)
(* the send buffer never holds more than ConnCap packets, and only a       *)
(* goroutine running Socket.End ever keeps the map locked.                 *)
TypeOK == PcOK /\ ConnOK /\ FieldsOK /\ PeerOK

(* Where a goroutine is inside a critical section of each mutex.           *)
MuLabels == {"endWrite", "endSend", "endSet", "devWrite", "ackWrite", "ackSend",
             "ackDone", "pushWrite", "pushSend", "pushSet"}
WriteMuLabels == {"endSend", "okSend", "ackSend", "pushSend"}
TargetLabels == EndLabels \cup {"OKAY", "WRTE", "CLSE", "devWrite", "ackWrite",
                                "ackSend", "ackDone", "premature"}

HoldsMu(p) == pc[p] \in MuLabels
HoldsWriteMu(p) == pc[p] \in WriteMuLabels

(* ServiceMap.mu is kept across steps only by the goroutine that runs      *)
(* ServiceMap.End, from its first service to its last.                     *)
MapLocked ==
    /\ \A p \in Enders :
         /\ smMu = p => pc[p] \in {"mapNext"} \cup EndLabels
         /\ pc[p] = "mapNext" => smMu = p
    /\ pc[Closer] \in EndLabels => smMu = Closer

(* Locking is sound: the goroutine in a critical section of Service.mu or  *)
(* of Socket.writeMu is the one that holds the mutex, so there is at most  *)
(* one, and only the goroutine running ServiceMap.End holds the map.       *)
LockDiscipline ==
    /\ \A p \in Proc : \A i \in Service :
         mu[i] = p <=> HoldsMu(p) /\ Target(p) = i
    /\ \A p \in Proc : writeMu = p <=> HoldsWriteMu(p)
    /\ MapLocked

(* A goroutine that works on a service has one: whoever waits for or holds *)
(* a service's mutex has looked the service up, and Reader dispatches only *)
(* a packet that it has read.                                              *)
TargetKnown ==
    /\ \A p \in Enders :
         pc[p] \in TargetLabels => tgt[p] \in Service
    /\ pc[Reader] = "dispatch" => fromClient # <<>>

(* No goroutine is started twice: while an OPEN is in flight its handler   *)
(* has not been started and no second OPEN names the same stream, and a    *)
(* forwarder starts only from a handler that goes on to wait for it.       *)
StartedOnce ==
    /\ \A n \in 1..Len(fromClient) : fromClient[n].cmd = "OPEN" =>
         /\ peer[fromClient[n].svc] # "idle"
         /\ pc[Handler(fromClient[n].svc)] = "off"
         /\ \A m \in 1..Len(fromClient) :
              fromClient[m] = fromClient[n] => m = n
    /\ \A i \in Service :
         /\ peer[i] = "idle" => pc[Handler(i)] = "off"
         /\ pc[Handler(i)] \in HandlerLabels \ (EndLabels \cup {"wait", "remove", "exit"})
              => pc[Forwarder(i)] = "off"

(* Service.End takes effect once, however many goroutines call it: whoever *)
(* is about to close endCh finds it open, and so does the forwarder about  *)
(* to close doneCh.  Closing a closed channel would panic.                 *)
ChannelsClosedOnce ==
    /\ \A p \in Proc : HoldsMu(p) => ~ended[Target(p)]
    /\ \A i \in Service : pc[Forwarder(i)] = "closeDone" => ~doneCh[i]

(* No transport leaks: an ended service has dropped its transport, and the *)
(* connection to the device is closed unless the handler dialled it too    *)
(* late and is about to close it.  When the handler has exited, the        *)
(* service has ended and no connection is left open.                       *)
TransportReleased ==
    \A i \in Service :
      /\ ended[i] => /\ ~transport[i]
                     /\ dev[i] \in {"none", "closed"}
                          \/ pc[Handler(i)] = "adopt"
      /\ pc[Handler(i)] = "exit" => ended[i] /\ dev[i] \in {"none", "closed"}

Positions(i, cmd) ==
    {n \in 1..Len(toClient) : toClient[n].svc = i /\ toClient[n].cmd = cmd}
Acks(i) ==
    {n \in 1..Len(fromClient) : fromClient[n].svc = i /\ fromClient[n].cmd = "OKAY"}

(* Flow control: a service has at most one WRTE that the peer has not yet  *)
(* acknowledged, whether the WRTE or its OKAY is in flight or the OKAY is  *)
(* being handled; and while there is one, needAck is set or about to be.   *)
WindowOfOne ==
    \A i \in Service :
      LET handling == IF pc[Reader] = "OKAY" /\ tgt[Reader] = i THEN 1 ELSE 0
          unacked == Cardinality(Positions(i, "WRTE")) + Cardinality(Acks(i)) + handling
      IN /\ unacked <= 1
         /\ unacked = 1 => needAck[i] \/ pc[Forwarder(i)] = "pushSet"

(* The packets of a stream are in order: the device's chunks reach the     *)
(* peer in order, none twice and none skipped (a WRTE in flight carries    *)
(* the chunk after the last received), OKAY comes before any WRTE, and     *)
(* CLSE is the last packet, after which End lets nothing be written.       *)
PacketsInOrder ==
    \A i \in Service :
      /\ \A n \in Positions(i, "WRTE") : toClient[n].data = received[i] + 1
      /\ \A n \in Positions(i, "CLSE") : \A m \in 1..Len(toClient) :
           toClient[m].svc = i => m <= n
      /\ peer[i] = "closed" => \A m \in 1..Len(toClient) : toClient[m].svc # i
      /\ \A n \in Positions(i, "WRTE") :
           peer[i] = "opening" => \E m \in Positions(i, "OKAY") : m < n

(* A stream that the device closed was delivered completely: a peer that   *)
(* is told CLSE on a stream it has not closed itself has received every    *)
(* chunk that the bridge read from the device.                             *)
CompleteBeforeClose ==
    \A i \in Service :
      toClient # <<>> /\ Head(toClient).cmd = "CLSE" /\ Head(toClient).svc = i
        /\ peer[i] = "open" => received[i] = chunk[i]

(* Until the connection ends, the map holds exactly the services whose     *)
(* handler goroutine is running, so a packet for a live service finds it.  *)
MapTracksHandlers ==
    \A i \in Service :
      ~sockEnded =>
        (i \in services <=> pc[Handler(i)] \notin {"off", "exit"} \cup EndLabels)

Released ==
    /\ Stopped
    /\ services = {}
    /\ ~connOpen
    /\ \A i \in Service : dev[i] \in {"none", "closed"}

ServerClosing == pc[Closer] # "idle"

(* Once the peer is gone, everything that belongs to the connection is     *)
(* released: goroutines return, transports are closed, the map is empty.   *)
(* A Server.Close at the same time may leave a service behind, as          *)
(* EndEndsServices says, and a device that never takes a write keeps       *)
(* Reader for ever; no other wait of the goroutines on one another does.   *)
PeerLossReleases ==
    ~peerUp ~> (Released \/ crashed \/ ServerClosing \/ []WritesToDevice)

(* A stream that either side closes ends: End runs to completion, unless   *)
(* Server.Close ends the connection or a device, of this stream or of      *)
(* another one of the connection, never takes a write.                     *)
ClosedStreamEnds ==
    \A i \in Service :
      (peer[i] = "closing" \/ dev[i] = "eof")
        ~> (ended[i] \/ crashed \/ ServerClosing \/ []WritesToDevice)

(* The bridge acknowledges every WRTE of the peer, or closes the stream,   *)
(* unless the connection ends or a device never takes a write.  The last   *)
(* case is no fault of the device alone: one that first wants its output   *)
(* read waits for the forwarder, which waits for mu, which Reader holds in *)
(* transport.Write, or for an OKAY that only Reader can handle.            *)
WritesAnswered ==
    \A i \in Service :
      awaiting[i] ~> (~awaiting[i] \/ ~peerUp \/ sockEnded \/ crashed
                        \/ []WritesToDevice)

-----------------------------------------------------------------------------
(* What comments say of the code and the code does not do.                 *)

(* service.go:65 "Zero can only mean a failed open": a CLSE with local id  *)
(* zero reaches only a peer whose open has not been confirmed by OKAY.     *)
ZeroMeansFailedOpen ==
    toClient # <<>> /\ Head(toClient).cmd = "CLSE" /\ Head(toClient).arg0 = "zero"
      => peer[Head(toClient).svc] = "opening"

(* errors.go:15 "ErrPrematurePacket indicates a packet was received before *)
(* transport was ready": the transport has not been dialled.               *)
PrematureMeansNotReady ==
    pc[Reader] = "premature" => dev[tgt[Reader]] = "none"

(* service.go:50 "End closes the service": it does not stop the process.   *)
EndDoesNotPanic == ~crashed

(* socket.go:100 "End closes the socket and all services": after End, every *)
(* service that was started ends.                                          *)
EndEndsServices ==
    sockEnded ~> (crashed \/ \A i \in Service : pc[Handler(i)] # "off" => ended[i])

(* socket.go:100 "End closes the socket and all services": End reaches     *)
(* conn.Close, whether or not the peer reads.  Under DrainedDeviceSpec it  *)
(* fails too: a write to the device keeps mu, which services.End needs.    *)
EndClosesSocket == sockEnded ~> (crashed \/ ~connOpen)

=============================================================================
