---------------------------- MODULE BridgeProofs ----------------------------
(***************************************************************************)
(* The connection of a client, for any set of services and any sizes of    *)
(* the buffers.                                                            *)
(*                                                                         *)
(* Part 1, the locks: the critical sections of Service.mu and              *)
(* Socket.writeMu exclude each other (LockDiscipline), no goroutine is     *)
(* started twice (StartedOnce), and no channel is closed twice             *)
(* (ChannelsClosedOnce).  And what rests on it: every transport is         *)
(* released (TransportReleased), and the map holds the services that run   *)
(* (MapTracksHandlers).                                                    *)
(*                                                                         *)
(* TypeInv adds to TypeOK what keeps it inductive: Reader and Closer name  *)
(* a service whenever they work on one (TargetKnown), and only the         *)
(* goroutine that runs ServiceMap.End returns from a service's End into    *)
(* its range loop (MapLocked).                                             *)
(*                                                                         *)
(* The argument for the locks: a step of the bridge moves one goroutine p, *)
(* and what it does to the mutexes and channels is one of a few effects,   *)
(* determined by where p comes from and goes to (Shape).  A step that also *)
(* starts a goroutine starts one that was never running, by StartedOnce.   *)
(*                                                                         *)
(* Part 2, the packets of a stream: at most one WRTE is unacknowledged     *)
(* (WindowOfOne), chunks reach the peer in order and CLSE comes last       *)
(* (PacketsInOrder), and a stream that the device closed is delivered      *)
(* completely (CompleteBeforeClose).                                       *)
(*                                                                         *)
(* StreamInv(i) is the inductive invariant of one stream.  Seen from       *)
(* stream i nearly every step is calm (Calm): it moves other goroutines,   *)
(* writes packets of other streams, ends the connection or loses the peer. *)
(* The few steps that are not are the forwarder's own, the three writes,   *)
(* the acknowledgement, and what the peer sends and receives.              *)
(***************************************************************************)
EXTENDS Bridge, TLAPS

(* Zenon proves most leaves; those beyond it name the SMT solver.          *)
USE Zenon

(* The goroutines are distinct, and each service has its own two.          *)
LEMMA ProcFacts ==
    /\ Reader # Closer /\ Reader # Free /\ Closer # Free
    /\ Reader \in Proc /\ Closer \in Proc /\ Free \notin Proc
    /\ Enders = {Reader, Closer}
    /\ \A i \in Service :
         /\ Handler(i) \in Proc /\ Forwarder(i) \in Proc
         /\ Handler(i) \in Handlers /\ Forwarder(i) \in Forwarders
         /\ Handler(i) \notin Enders /\ Forwarder(i) \notin Enders
         /\ Handler(i) \notin Forwarders /\ Forwarder(i) \notin Handlers
         /\ Handler(i) # Free /\ Forwarder(i) # Free
         /\ Handler(i)[2] = i /\ Forwarder(i)[2] = i
         /\ \A j \in Service : /\ Handler(i) # Forwarder(j)
                               /\ Handler(i) = Handler(j) => i = j
                               /\ Forwarder(i) = Forwarder(j) => i = j
    /\ \A p \in Proc : p \in Enders \/ (\E i \in Service : p = Handler(i))
                         \/ (\E i \in Service : p = Forwarder(i))
BY DEF Reader, Closer, Free, Handler, Forwarder, Proc, Enders, Handlers, Forwarders

(* Which labels each kind of goroutine may have.                           *)
LEMMA LabelFacts ==
    /\ LabelsOf(Reader) = ReaderLabels
    /\ LabelsOf(Closer) = CloserLabels
    /\ \A i \in Service : /\ LabelsOf(Handler(i)) = HandlerLabels
                          /\ LabelsOf(Forwarder(i)) = ForwarderLabels
    /\ \A p \in Proc : LabelsOf(p) \subseteq Label /\ EndLabels \subseteq LabelsOf(p)
    /\ \A p \in Proc : p # Closer \/ smMu = Closer => AfterEnd(p) \in LabelsOf(p)
<1>1. \A p \in Proc : LabelsOf(p) \subseteq Label
  BY DEF LabelsOf, Label
<1>2. \A p \in Proc : EndLabels \subseteq LabelsOf(p)
  BY DEF LabelsOf, ReaderLabels, CloserLabels, HandlerLabels, ForwarderLabels
<1>3. /\ LabelsOf(Reader) = ReaderLabels
      /\ LabelsOf(Closer) = CloserLabels
      /\ \A i \in Service : /\ LabelsOf(Handler(i)) = HandlerLabels
                            /\ LabelsOf(Forwarder(i)) = ForwarderLabels
  BY ProcFacts DEF LabelsOf
<1>4. /\ "exit" \in HandlerLabels /\ "closeDone" \in ForwarderLabels
      /\ "mapNext" \in ReaderLabels /\ "read" \in ReaderLabels
      /\ "mapNext" \in CloserLabels /\ "read" \in ReaderLabels
  BY DEF ReaderLabels, CloserLabels, HandlerLabels, ForwarderLabels, SocketEndLabels
<1>5. \A p \in Handlers \cup Forwarders : AfterEnd(p) \in LabelsOf(p)
  BY <1>3, <1>4, ProcFacts, SMT DEF AfterEnd, Handlers, Forwarders
<1>6. AfterEnd(Reader) \in LabelsOf(Reader)
  BY <1>3, <1>4, ProcFacts DEF AfterEnd, Handlers, Forwarders, Enders
<1>7. smMu = Closer => AfterEnd(Closer) \in LabelsOf(Closer)
  BY <1>3, <1>4, ProcFacts DEF AfterEnd, Handlers, Forwarders, Enders
<1> QED BY <1>1, <1>2, <1>3, <1>5, <1>6, <1>7 DEF Proc, Enders

(* A Goto to a label of its own moves one goroutine and keeps PcOK.        *)
LEMMA Move ==
    ASSUME PcOK, NEW p \in Proc, NEW l \in LabelsOf(p), Goto(p, l)
    PROVE  /\ PcOK'
           /\ pc'[p] = l
           /\ \A q \in Proc : q # p => pc'[q] = pc[q]
BY LabelFacts DEF PcOK, Goto

TypeInv == TypeOK /\ TargetKnown /\ MapLocked

(* A step that moves none of the goroutines that call Socket.End, and      *)
(* leaves the map and the packets from the peer alone, keeps what TypeInv  *)
(* says of them.                                                           *)
LEMMA QuietEnders ==
    ASSUME TargetKnown, MapLocked, pc'[Reader] = pc[Reader], pc'[Closer] = pc[Closer],
           UNCHANGED <<tgt, smMu, fromClient>>
    PROVE  TargetKnown' /\ MapLocked'
BY DEF TargetKnown, MapLocked, Enders

(* Writing to the connection keeps its variables in their ranges.          *)
LEMMA TypeWrite ==
    ASSUME ConnOK, NEW p \in Proc, NEW a, NEW b, NEW c, NEW k \in ToClient,
           WriteLock(p, a, b, c) \/ WriteConn(p, a, b, k)
    PROVE  ConnOK' /\ UNCHANGED <<tgt, smMu, fromClient, services>>
<1>1. CASE WriteLock(p, a, b, c)
  BY <1>1 DEF WriteLock, ConnOK
<1>2. CASE WriteConn(p, a, b, k)
  <2>0. toClient \in Seq(ToClient) /\ Len(toClient) <= ConnCap
    BY DEF ConnOK
  <2>1. toClient' \in Seq(ToClient) /\ Len(toClient') <= ConnCap
    <3>1. CASE connOpen /\ peerUp
      <4>1. Len(toClient) < ConnCap /\ toClient' = Append(toClient, k)
        BY <1>2, <3>1 DEF WriteConn
      <4> QED BY <2>0, <4>1, ConnCapAssumption, SMT
    <3>2. CASE ~(connOpen /\ peerUp)
      BY <1>2, <2>0, <3>2 DEF WriteConn
    <3> QED BY <3>1, <3>2
  <2> QED BY <1>2, <2>1 DEF WriteConn, ConnOK
<1> QED BY <1>1, <1>2

(* Service.End keeps types, whichever goroutine runs it.                   *)
LEMMA TypeEnd ==
    ASSUME TypeInv, NEW p \in Proc, End(p), UNCHANGED peerVars
    PROVE  TypeInv'
<1> DEFINE i == Target(p)
<1>0. i \in Service /\ pc[p] \in EndLabels
  BY ProcFacts, SMT DEF End, EndLock, EndWrite, EndSend, EndSet, WriteLock, WriteConn,
     TypeInv, TargetKnown, TargetLabels, EndLabels, Target
<1>1. AfterEnd(p) \in LabelsOf(p) /\ EndLabels \subseteq LabelsOf(p)
  BY <1>0, LabelFacts DEF TypeInv, MapLocked
<1>2. \E l \in EndLabels \cup {AfterEnd(p)} : Goto(p, l)
  BY DEF End, EndLock, EndWrite, EndSend, EndSet, WriteLock, WriteConn, EndLabels
<1>3. PICK l \in EndLabels \cup {AfterEnd(p)} : Goto(p, l)
  BY <1>2
<1>4. PcOK' /\ pc'[p] = l /\ \A q \in Proc : q # p => pc'[q] = pc[q]
  BY <1>1, <1>3, Move DEF TypeInv, TypeOK
<1>5. ConnOK' /\ UNCHANGED <<tgt, smMu, fromClient, services>>
  <2>1. CASE EndLock(p) \/ EndSet(p)
    BY <2>1 DEF EndLock, EndSet, connVars, TypeInv, TypeOK, ConnOK
  <2>2. CASE EndWrite(p) \/ EndSend(p)
    <3>1. Packet("CLSE", i, closeArg[i], 0) \in ToClient
      BY <1>0, MaxChunksAssumption, SMT DEF Packet, ToClient, TypeInv, TypeOK, FieldsOK
    <3> QED BY <2>2, <3>1, TypeWrite DEF EndWrite, EndSend, TypeInv, TypeOK
  <2> QED BY <2>1, <2>2 DEF End
<1>6. FieldsOK'
  <2>1. CASE EndLock(p)
    BY <1>0, <2>1, SMT DEF EndLock, TypeInv, TypeOK, FieldsOK
  <2>2. CASE EndWrite(p) \/ EndSend(p)
    BY <2>2 DEF EndWrite, EndSend, serviceVars, TypeInv, TypeOK, FieldsOK
  <2>3. CASE EndSet(p)
    BY <1>0, <2>3 DEF EndSet, TypeInv, TypeOK, FieldsOK
  <2> QED BY <2>1, <2>2, <2>3 DEF End
<1>7. TargetKnown'
  <2>1. pc[Reader] # "dispatch" \/ p # Reader
    BY <1>0 DEF EndLabels
  <2>2. AfterEnd(p) # "dispatch" /\ AfterEnd(p) \notin TargetLabels /\ "dispatch" \notin EndLabels
    BY DEF AfterEnd, TargetLabels, EndLabels
  <2>3. EndLabels \subseteq TargetLabels
    BY DEF TargetLabels
  <2> QED BY <1>0, <1>3, <1>4, <1>5, <2>1, <2>2, <2>3, ProcFacts, SMT DEF TypeInv, TargetKnown
<1>8. MapLocked'
  <2>1. CASE p \notin Enders
    BY <1>4, <1>5, <2>1, ProcFacts DEF TypeInv, MapLocked
  <2>2. CASE p \in Enders
    <3>1. AfterEnd(p) = IF smMu = p THEN "mapNext" ELSE "read"
      BY <2>2, ProcFacts, SMT DEF AfterEnd, Handlers, Forwarders
    <3>2. smMu = p => l \in {"mapNext"} \cup EndLabels
      BY <1>3, <3>1
    <3>3. l = "mapNext" => smMu = p
      BY <1>3, <3>1 DEF EndLabels
    <3>4. p = Closer => smMu = Closer
      BY <1>0 DEF TypeInv, MapLocked
    <3> QED BY <1>4, <1>5, <2>2, <3>2, <3>3, <3>4, ProcFacts DEF TypeInv, MapLocked
  <2> QED BY <2>1, <2>2
<1>9. PeerOK'
  BY DEF TypeInv, TypeOK, PeerOK, peerVars
<1> QED BY <1>4, <1>5, <1>6, <1>7, <1>8, <1>9 DEF TypeInv, TypeOK

(* The steps of a handler keep the invariant.                              *)
LEMMA TypeHandler ==
    ASSUME TypeInv, NEW i \in Service, HandlerStep(i), UNCHANGED peerVars
    PROVE  TypeInv'
<1>0. Handler(i) \in Proc /\ LabelsOf(Handler(i)) = HandlerLabels
      /\ Handler(i) # Reader /\ Handler(i) # Closer /\ Reader \in Proc /\ Closer \in Proc
  BY ProcFacts, LabelFacts
<1>p. PeerOK'
  BY DEF TypeInv, TypeOK, PeerOK, peerVars
<1>1. CASE Dial(i) \/ AdoptTransport(i) \/ SendName(i) \/ ReadReply(i) \/ Reply(i)
            \/ ReadFail(i) \/ Wait(i)
  <2>1. \E l \in HandlerLabels : Goto(Handler(i), l)
    BY <1>1 DEF Dial, AdoptTransport, SendName, ReadReply, Reply, ReadFail, Wait,
       HandlerLabels
  <2>2. PcOK' /\ pc'[Reader] = pc[Reader] /\ pc'[Closer] = pc[Closer]
    BY <1>0, <2>1, Move DEF TypeInv, TypeOK
  <2>3. UNCHANGED connVars
    BY <1>1 DEF Dial, AdoptTransport, SendName, ReadReply, Reply, ReadFail, Wait
  <2>4. FieldsOK'
    BY <1>1 DEF Dial, AdoptTransport, SendName, ReadReply, Reply, ReadFail, Wait,
       serviceVars, TypeInv, TypeOK, FieldsOK
  <2>5. TargetKnown' /\ MapLocked'
    BY <2>2, <2>3, QuietEnders DEF connVars, TypeInv
  <2> QED BY <1>p, <2>2, <2>3, <2>4, <2>5 DEF TypeInv, TypeOK, ConnOK, connVars
<1>2. CASE NilTransport(i)
  BY <1>2, <1>p DEF NilTransport, socketVars, connVars, TypeInv, TypeOK, PcOK, ConnOK,
     FieldsOK, TargetKnown, MapLocked
<1>3. CASE OkayWrite(i) \/ OkaySend(i)
  <2>1. \E l \in HandlerLabels : Goto(Handler(i), l)
    BY <1>3 DEF OkayWrite, OkaySend, WriteLock, WriteConn, HandlerLabels
  <2>2. PcOK' /\ pc'[Reader] = pc[Reader] /\ pc'[Closer] = pc[Closer]
    BY <1>0, <2>1, Move DEF TypeInv, TypeOK
  <2>3. Packet("OKAY", i, "localID", 0) \in ToClient
    BY MaxChunksAssumption, SMT DEF Packet, ToClient
  <2>4. ConnOK' /\ UNCHANGED <<tgt, smMu, fromClient>>
    BY <1>0, <1>3, <2>3, TypeWrite DEF OkayWrite, OkaySend, TypeInv, TypeOK
  <2>5. FieldsOK'
    BY <1>3 DEF OkayWrite, OkaySend, serviceVars, TypeInv, TypeOK, FieldsOK
  <2>6. TargetKnown' /\ MapLocked'
    BY <2>2, <2>4, QuietEnders DEF TypeInv
  <2> QED BY <1>p, <2>2, <2>4, <2>5, <2>6 DEF TypeInv, TypeOK
<1>4. CASE SetOpened(i)
  <2>1. PcOK' /\ pc'[Reader] = pc[Reader] /\ pc'[Closer] = pc[Closer]
    <3>1. "wait" \in HandlerLabels /\ "loop" \in ForwarderLabels
          /\ "wait" \in Label /\ "loop" \in Label
      BY DEF HandlerLabels, ForwarderLabels, Label
    <3> QED BY <1>4, <3>1, ProcFacts, LabelFacts, SMT DEF SetOpened, TypeInv, TypeOK, PcOK
  <2>2. FieldsOK' /\ ConnOK'
    BY <1>4 DEF SetOpened, connVars, TypeInv, TypeOK, FieldsOK, ConnOK
  <2>3. TargetKnown' /\ MapLocked'
    BY <1>4, <2>1, QuietEnders DEF SetOpened, connVars, TypeInv
  <2> QED BY <1>p, <2>1, <2>2, <2>3 DEF TypeInv, TypeOK
<1>5. CASE Remove(i)
  <2>1. "endLock" \in HandlerLabels
    BY DEF HandlerLabels, EndLabels
  <2>2. PcOK' /\ pc'[Reader] = pc[Reader] /\ pc'[Closer] = pc[Closer]
    BY <1>0, <1>5, <2>1, Move DEF Remove, MapRemove, TypeInv, TypeOK
  <2>3. ConnOK' /\ FieldsOK'
    BY <1>5 DEF Remove, MapRemove, serviceVars, TypeInv, TypeOK, ConnOK, FieldsOK
  <2>4. TargetKnown' /\ MapLocked'
    BY <1>5, <2>2, QuietEnders DEF Remove, MapRemove, TypeInv
  <2> QED BY <1>p, <2>2, <2>3, <2>4 DEF TypeInv, TypeOK
<1>6. CASE End(Handler(i))
  BY <1>0, <1>6, TypeEnd
<1> QED BY <1>1, <1>2, <1>3, <1>4, <1>5, <1>6 DEF HandlerStep

(* The steps of a forwarder keep the invariant.                            *)
LEMMA TypeForwarder ==
    ASSUME TypeInv, NEW i \in Service, ForwarderStep(i), UNCHANGED peerVars
    PROVE  TypeInv'
<1>0. Forwarder(i) \in Proc /\ LabelsOf(Forwarder(i)) = ForwarderLabels
      /\ Forwarder(i) # Reader /\ Forwarder(i) # Closer
      /\ Reader \in Proc /\ Closer \in Proc
  BY ProcFacts, LabelFacts
<1>p. PeerOK'
  BY DEF TypeInv, TypeOK, PeerOK, peerVars
<1>1. CASE ForwardCheck(i) \/ ForwardNap(i) \/ ForwardRead(i) \/ ForwardPush(i)
            \/ PushSet(i) \/ CloseDone(i)
  <2>1. \E l \in ForwarderLabels : Goto(Forwarder(i), l)
    BY <1>1 DEF ForwardCheck, ForwardNap, ForwardRead, ForwardPush, PushSet, CloseDone,
       ForwarderLabels, EndLabels
  <2>2. PcOK' /\ pc'[Reader] = pc[Reader] /\ pc'[Closer] = pc[Closer]
    BY <1>0, <2>1, Move DEF TypeInv, TypeOK
  <2>3. UNCHANGED connVars
    BY <1>1 DEF ForwardCheck, ForwardNap, ForwardRead, ForwardPush, PushSet, CloseDone
  <2>4. FieldsOK'
    <3>1. CASE ForwardRead(i)
      BY <3>1, MaxChunksAssumption, SMT DEF ForwardRead, TypeInv, TypeOK, FieldsOK
    <3>2. CASE ForwardCheck(i) \/ ForwardNap(i) \/ ForwardPush(i) \/ PushSet(i)
               \/ CloseDone(i)
      BY <1>0, <3>2 DEF ForwardCheck, ForwardNap, ForwardPush, PushSet, CloseDone,
         serviceVars, TypeInv, TypeOK, FieldsOK
    <3> QED BY <1>1, <3>1, <3>2
  <2>5. TargetKnown' /\ MapLocked'
    BY <2>2, <2>3, QuietEnders DEF connVars, TypeInv
  <2> QED BY <1>p, <2>2, <2>3, <2>4, <2>5 DEF TypeInv, TypeOK, ConnOK, connVars
<1>2. CASE PushWrite(i) \/ PushSend(i)
  <2>1. \E l \in ForwarderLabels : Goto(Forwarder(i), l)
    BY <1>2 DEF PushWrite, PushSend, WriteLock, WriteConn, ForwarderLabels
  <2>2. PcOK' /\ pc'[Reader] = pc[Reader] /\ pc'[Closer] = pc[Closer]
    BY <1>0, <2>1, Move DEF TypeInv, TypeOK
  <2>3. Packet("WRTE", i, "localID", chunk[i]) \in ToClient
    BY DEF Packet, ToClient, TypeInv, TypeOK, FieldsOK
  <2>4. ConnOK' /\ UNCHANGED <<tgt, smMu, fromClient>>
    BY <1>0, <1>2, <2>3, TypeWrite DEF PushWrite, PushSend, TypeInv, TypeOK
  <2>5. FieldsOK'
    BY <1>2 DEF PushWrite, PushSend, serviceVars, TypeInv, TypeOK, FieldsOK
  <2>6. TargetKnown' /\ MapLocked'
    BY <2>2, <2>4, QuietEnders DEF TypeInv
  <2> QED BY <1>p, <2>2, <2>4, <2>5, <2>6 DEF TypeInv, TypeOK
<1>3. CASE End(Forwarder(i))
  BY <1>0, <1>3, TypeEnd
<1> QED BY <1>1, <1>2, <1>3 DEF ForwarderStep

(* Socket.End and ServiceMap.End keep types.                               *)
LEMMA TypeSocketEnd ==
    ASSUME TypeInv, NEW p \in Enders, EndStep(p), UNCHANGED peerVars
    PROVE  TypeInv'
<1>0. p \in Proc /\ SocketEndLabels \subseteq LabelsOf(p) /\ EndLabels \subseteq LabelsOf(p)
  BY ProcFacts, LabelFacts DEF ReaderLabels, CloserLabels
<1>p. PeerOK'
  BY DEF TypeInv, TypeOK, PeerOK, peerVars
<1>1. CASE End(p)
  BY <1>0, <1>1, TypeEnd
<1>2. CASE /\ SocketEnd(p) \/ MapEndLock(p) \/ MapEndNext(p) \/ MapEndUnlock(p)
                \/ ConnClose(p)
           /\ UNCHANGED serviceVars
  <2>1. PICK l \in SocketEndLabels \cup {"endLock"} : Goto(p, l)
    BY <1>2 DEF SocketEnd, MapEndLock, MapEndNext, MapEndUnlock, ConnClose,
       SocketEndLabels
  <2>2. l \in LabelsOf(p)
    BY <1>0, <2>1 DEF EndLabels
  <2>3. PcOK' /\ pc'[p] = l /\ \A q \in Proc : q # p => pc'[q] = pc[q]
    BY <1>0, <2>1, <2>2, Move DEF TypeInv, TypeOK
  <2>4. FieldsOK'
    BY <1>2 DEF serviceVars, TypeInv, TypeOK, FieldsOK
  <2>5. ConnOK' /\ fromClient' = fromClient
    BY <1>2 DEF SocketEnd, MapEndLock, MapEndNext, MapEndUnlock, ConnClose,
       TypeInv, TypeOK, ConnOK
  <2>6. TargetKnown'
    <3>1. CASE MapEndNext(p)
      <4>1. PICK i \in Service : tgt' = [tgt EXCEPT ![p] = i]
        BY <3>1 DEF MapEndNext, TypeInv, TypeOK, ConnOK
      <4>2. tgt'[p] \in Service /\ \A q \in Enders : q # p => tgt'[q] = tgt[q]
        BY <4>1 DEF TypeInv, TypeOK, ConnOK
      <4>3. l # "dispatch"
        BY <2>1 DEF SocketEndLabels
      <4> QED BY <2>3, <2>5, <4>2, <4>3, ProcFacts, SMT DEF TypeInv, TargetKnown
    <3>2. CASE SocketEnd(p) \/ MapEndLock(p) \/ MapEndUnlock(p) \/ ConnClose(p)
      <4>1. tgt' = tgt /\ pc'[p] \in SocketEndLabels
        BY <1>0, <3>2 DEF SocketEnd, MapEndLock, MapEndUnlock, ConnClose, Goto,
           SocketEndLabels, TypeInv, TypeOK, PcOK
      <4>2. pc'[p] \notin TargetLabels /\ pc'[p] # "dispatch"
        BY <4>1 DEF TargetLabels, SocketEndLabels, EndLabels
      <4> QED BY <2>3, <2>5, <4>1, <4>2, ProcFacts DEF TypeInv, TargetKnown
    <3> QED BY <1>2, <3>1, <3>2
  <2>7. MapLocked'
    <3>1. CASE SocketEnd(p) \/ ConnClose(p)
      <4>1. /\ smMu' = smMu /\ pc[p] \notin {"mapNext"} \cup EndLabels
            /\ pc'[p] \notin {"mapNext"} \cup EndLabels
        BY <1>0, <2>3, <3>1 DEF SocketEnd, ConnClose, Goto, EndLabels, TypeInv, TypeOK, PcOK
      <4> QED BY <2>3, <4>1, ProcFacts DEF TypeInv, MapLocked
    <3>2. CASE MapEndLock(p)
      <4>1. smMu = Free /\ smMu' = p /\ pc'[p] = "mapNext"
        BY <1>0, <3>2 DEF MapEndLock, Goto, TypeInv, TypeOK, PcOK
      <4>2. "mapNext" \notin EndLabels
        BY DEF EndLabels
      <4> QED BY <2>3, <4>1, <4>2, ProcFacts DEF TypeInv, MapLocked
    <3>3. CASE MapEndNext(p)
      <4>1. smMu' = smMu /\ pc[p] = "mapNext" /\ pc'[p] = "endLock"
        BY <1>0, <3>3 DEF MapEndNext, Goto, TypeInv, TypeOK, PcOK
      <4>2. "endLock" \in EndLabels
        BY DEF EndLabels
      <4> QED BY <2>3, <4>1, <4>2, ProcFacts, SMT DEF TypeInv, MapLocked
    <3>4. CASE MapEndUnlock(p)
      <4>1. pc[p] = "mapNext" /\ smMu' = Free /\ pc'[p] = "connClose"
        BY <1>0, <3>4 DEF MapEndUnlock, Goto, TypeInv, TypeOK, PcOK
      <4>2. "connClose" \notin {"mapNext"} \cup EndLabels
        BY DEF EndLabels
      <4> QED BY <2>3, <4>1, <4>2, ProcFacts, SMT DEF TypeInv, MapLocked
    <3> QED BY <1>2, <3>1, <3>2, <3>3, <3>4
  <2> QED BY <1>p, <2>3, <2>4, <2>5, <2>6, <2>7 DEF TypeInv, TypeOK
<1> QED BY <1>1, <1>2 DEF EndStep

(* A step of Reader outside ServiceMap.End and Service.End.                *)
LEMMA TypeReaderMove ==
    ASSUME TypeInv, NEW l \in ReaderLabels, Goto(Reader, l),
           pc[Reader] \notin {"mapNext"} \cup EndLabels, l # "mapNext",
           UNCHANGED smMu, ConnOK', FieldsOK', UNCHANGED peerVars,
           tgt'[Closer] = tgt[Closer],
           l \in TargetLabels => tgt'[Reader] \in Service,
           l = "dispatch" => fromClient' # <<>>
    PROVE  TypeInv'
<1>1. PcOK' /\ pc'[Reader] = l /\ \A q \in Proc : q # Reader => pc'[q] = pc[q]
  BY ProcFacts, LabelFacts, Move DEF TypeInv, TypeOK
<1>2. TargetKnown'
  BY <1>1, ProcFacts DEF TypeInv, TargetKnown
<1>3. MapLocked'
  BY <1>1, ProcFacts DEF TypeInv, MapLocked
<1>4. PeerOK'
  BY DEF TypeInv, TypeOK, PeerOK, peerVars
<1> QED BY <1>1, <1>2, <1>3, <1>4 DEF TypeInv, TypeOK

(* The steps of Reader, which dispatches packets, keep the invariant.      *)
LEMMA TypeReader ==
    ASSUME TypeInv, ReaderStep, UNCHANGED peerVars
    PROVE  TypeInv'
<1>t. /\ tgt \in [Enders -> Service \cup {NoService}] /\ Reader \in Enders
      /\ Closer \in Enders /\ Reader # Closer /\ Reader \in Proc
      /\ fromClient \in Seq(FromClient)
  BY ProcFacts DEF TypeInv, TypeOK, ConnOK
<1>l. /\ {"read", "dispatch", "OKAY", "WRTE", "CLSE", "devWrite", "ackWrite", "ackSend",
          "ackDone", "premature", "endLock", "sockEnd"} \subseteq ReaderLabels
      /\ {"read", "dispatch", "sockEnd"} \cap TargetLabels = {}
      /\ {"OKAY", "WRTE", "CLSE", "devWrite", "ackWrite", "ackSend", "ackDone",
          "premature", "endLock"} \subseteq TargetLabels
      /\ {"read", "dispatch", "OKAY", "WRTE", "CLSE", "devWrite", "ackWrite", "ackSend",
          "ackDone", "premature", "sockEnd"} \cap ({"mapNext"} \cup EndLabels) = {}
  BY DEF ReaderLabels, SocketEndLabels, TargetLabels, EndLabels
<1>1. CASE ReadPacket /\ UNCHANGED serviceVars
  <2>1. FieldsOK'
    BY <1>1 DEF serviceVars, TypeInv, TypeOK, FieldsOK
  <2>2. CASE sockEnded
    <3>1. fromClient' \in Seq(FromClient)
      BY <1>1, <1>t, <2>2, SMT DEF ReadPacket
    <3>2. ConnOK' /\ UNCHANGED <<pc, tgt, smMu>> /\ pc[Reader] = "read"
      BY <1>1, <2>2, <3>1 DEF ReadPacket, TypeInv, TypeOK, ConnOK
    <3>3. TargetKnown' /\ MapLocked'
      BY <3>2 DEF TypeInv, TargetKnown, MapLocked
    <3> QED BY <2>1, <3>2, <3>3 DEF TypeInv, TypeOK, PcOK, PeerOK, peerVars
  <2>3. CASE ~sockEnded
    <3>1. /\ Goto(Reader, "dispatch") /\ pc[Reader] = "read" /\ ConnOK'
          /\ fromClient' # <<>> /\ UNCHANGED <<smMu, tgt>>
      BY <1>1, <2>3 DEF ReadPacket, TypeInv, TypeOK, ConnOK
    <3> QED BY <1>l, <2>1, <3>1, TypeReaderMove
  <2> QED BY <2>2, <2>3
<1>2. CASE (ReadError \/ ReturnPremature) /\ UNCHANGED serviceVars
  <2>1. /\ Goto(Reader, "sockEnd") /\ pc[Reader] \in {"read", "premature"}
        /\ UNCHANGED <<smMu, tgt>> /\ ConnOK' /\ FieldsOK'
    BY <1>2 DEF ReadError, ReturnPremature, connVars, serviceVars, TypeInv, TypeOK,
       ConnOK, FieldsOK
  <2> QED BY <1>l, <2>1, TypeReaderMove
<1>3. CASE HandleOpen /\ UNCHANGED serviceVars
  <2>1. Head(fromClient) \in FromClient /\ Tail(fromClient) \in Seq(FromClient)
        /\ pc[Reader] = "dispatch"
    BY <1>3, <1>t, SMT DEF HandleOpen, TypeInv, TargetKnown
  <2> DEFINE i == Head(fromClient).svc
  <2>2. i \in Service
    BY <2>1 DEF FromClient
  <2>3. ConnOK' /\ FieldsOK' /\ UNCHANGED <<tgt, smMu>>
    BY <1>3, <2>1, <2>2 DEF HandleOpen, serviceVars, TypeInv, TypeOK, ConnOK, FieldsOK
  <2>4. "read" \in ReaderLabels /\ "dial" \in HandlerLabels /\ "read" \in Label
        /\ "dial" \in Label
    BY DEF ReaderLabels, HandlerLabels, Label
  <2>5. pc' = [pc EXCEPT ![Reader] = "read", ![Handler(i)] = "dial"]
    BY <1>3 DEF HandleOpen
  <2> HIDE DEF i
  <2>6. PcOK' /\ pc'[Reader] = "read" /\ pc'[Closer] = pc[Closer]
    BY <2>2, <2>4, <2>5, ProcFacts, LabelFacts, SMT DEF TypeInv, TypeOK, PcOK
  <2>7. TargetKnown'
    BY <1>l, <2>3, <2>6, ProcFacts DEF TypeInv, TargetKnown
  <2>8. MapLocked'
    BY <1>l, <2>1, <2>3, <2>6, ProcFacts DEF TypeInv, MapLocked
  <2> QED BY <2>3, <2>6, <2>7, <2>8 DEF TypeInv, TypeOK, PeerOK, peerVars
<1>4. CASE ForwardServicePacket /\ UNCHANGED serviceVars
  <2>1. Head(fromClient) \in FromClient /\ Tail(fromClient) \in Seq(FromClient)
        /\ pc[Reader] = "dispatch"
    BY <1>4, <1>t, SMT DEF ForwardServicePacket, TypeInv, TargetKnown
  <2>2. Head(fromClient).svc \in Service
        /\ Head(fromClient).cmd \in {"OKAY", "WRTE", "CLSE"}
    BY <1>4, <2>1 DEF FromClient, ForwardServicePacket
  <2>3. ConnOK' /\ FieldsOK' /\ UNCHANGED smMu
    BY <1>4, <1>t, <2>1, <2>2 DEF ForwardServicePacket, serviceVars, TypeInv, TypeOK,
       ConnOK, FieldsOK
  <2>4. CASE Head(fromClient).svc \in services
    <3>1. PICK l \in {"OKAY", "WRTE", "CLSE"} : Goto(Reader, l)
      BY <1>4, <2>2, <2>4 DEF ForwardServicePacket
    <3>2. tgt'[Reader] \in Service /\ tgt'[Closer] = tgt[Closer]
      BY <1>4, <1>t, <2>2, <2>4 DEF ForwardServicePacket
    <3> QED BY <1>l, <2>1, <2>3, <3>1, <3>2, TypeReaderMove
  <2>5. CASE Head(fromClient).svc \notin services
    <3>1. Goto(Reader, "read") /\ tgt' = tgt
      BY <1>4, <2>5 DEF ForwardServicePacket
    <3> QED BY <1>l, <2>1, <2>3, <3>1, TypeReaderMove
  <2> QED BY <2>4, <2>5
<1>5. CASE HandleOkay \/ HandleWrite \/ DeviceWrite \/ AckDone \/ HandleClose
  <2>1. PICK l \in {"read", "premature", "devWrite", "ackWrite", "sockEnd", "endLock"} :
          Goto(Reader, l)
    BY <1>5 DEF HandleOkay, HandleWrite, DeviceWrite, AckDone, HandleClose
  <2>2. pc[Reader] \in {"OKAY", "WRTE", "devWrite", "ackDone", "CLSE"}
    BY <1>5 DEF HandleOkay, HandleWrite, DeviceWrite, AckDone, HandleClose
  <2>3. UNCHANGED connVars
    BY <1>5 DEF HandleOkay, HandleWrite, DeviceWrite, AckDone, HandleClose
  <2>4. ConnOK' /\ UNCHANGED <<tgt, smMu>>
    BY <2>3 DEF connVars, TypeInv, TypeOK, ConnOK
  <2>5. tgt[Reader] \in Service
    BY <1>l, <1>t, <2>2 DEF TypeInv, TargetKnown
  <2>6. FieldsOK'
    <3>1. CASE HandleOkay
      BY <2>5, <3>1 DEF HandleOkay, TypeInv, TypeOK, FieldsOK
    <3>2. CASE HandleWrite
      BY <1>t, <2>5, <3>2 DEF HandleWrite, TypeInv, TypeOK, FieldsOK
    <3>3. CASE DeviceWrite \/ AckDone
      BY <2>5, <3>3 DEF DeviceWrite, AckDone, TypeInv, TypeOK, FieldsOK
    <3>4. CASE HandleClose
      BY <3>4 DEF HandleClose, serviceVars, TypeInv, TypeOK, FieldsOK
    <3> QED BY <1>5, <3>1, <3>2, <3>3, <3>4
  <2> QED BY <1>l, <2>1, <2>2, <2>4, <2>5, <2>6, TypeReaderMove
<1>6. CASE AckWrite \/ AckSend
  <2>1. PICK l \in {"ackSend", "ackDone"} : Goto(Reader, l)
    BY <1>6 DEF AckWrite, AckSend, WriteLock, WriteConn
  <2>2. pc[Reader] \in {"ackWrite", "ackSend"}
    BY <1>6 DEF AckWrite, AckSend, WriteLock, WriteConn
  <2>3. tgt[Reader] \in Service
    BY <1>l, <1>t, <2>2 DEF TypeInv, TargetKnown
  <2>4. Packet("OKAY", tgt[Reader], "localID", 0) \in ToClient
    BY <2>3, MaxChunksAssumption, SMT DEF Packet, ToClient
  <2>5. ConnOK' /\ UNCHANGED <<tgt, smMu>>
    BY <1>6, <1>t, <2>4, TypeWrite DEF AckWrite, AckSend, TypeInv, TypeOK
  <2>6. FieldsOK'
    BY <1>6 DEF AckWrite, AckSend, serviceVars, TypeInv, TypeOK, FieldsOK
  <2> QED BY <1>l, <2>1, <2>2, <2>3, <2>5, <2>6, TypeReaderMove
<1>7. CASE EndStep(Reader)
  BY <1>t, <1>7, TypeSocketEnd
<1> QED BY <1>1, <1>2, <1>3, <1>4, <1>5, <1>6, <1>7 DEF ReaderStep

(* The steps of the peer keep the invariant.                               *)
LEMMA TypePeer ==
    ASSUME TypeInv, PeerStep
    PROVE  TypeInv'
<1>t. /\ fromClient \in Seq(FromClient) /\ toClient \in Seq(ToClient)
      /\ Len(toClient) <= ConnCap /\ ConnCap \in Nat
  BY ConnCapAssumption DEF TypeInv, TypeOK, ConnOK
<1>1. ASSUME NEW i \in Service, PeerOpen(i) \/ PeerWrite(i) \/ PeerClose(i)
      PROVE  TypeInv'
  <2>1. PICK c \in {"OPEN", "WRTE", "CLSE"} : PeerSend(c, i)
    BY <1>1 DEF PeerOpen, PeerWrite, PeerClose
  <2>2. [cmd |-> c, svc |-> i] \in FromClient
    BY DEF FromClient
  <2>3. fromClient' \in Seq(FromClient) /\ fromClient' # <<>>
    BY <1>t, <2>1, <2>2, SMT DEF PeerSend
  <2>4. ConnOK' /\ PcOK' /\ FieldsOK' /\ UNCHANGED <<pc, tgt, smMu>>
    BY <2>1, <2>3 DEF PeerSend, serviceVars, TypeInv, TypeOK, ConnOK, PcOK, FieldsOK
  <2>5. PeerOK'
    <3>1. CASE PeerOpen(i)
      BY <3>1 DEF PeerOpen, TypeInv, TypeOK, PeerOK
    <3>2. CASE PeerWrite(i)
      <4>1. written' \in [Service -> 0..MaxWrites]
        <5>1. written[i] \in 0..MaxWrites /\ written[i] < MaxWrites
          BY <3>2 DEF PeerWrite, TypeInv, TypeOK, PeerOK
        <5>2. written[i] + 1 \in 0..MaxWrites
          BY <5>1, MaxWritesAssumption, SMT
        <5> QED BY <3>2, <5>2 DEF PeerWrite, TypeInv, TypeOK, PeerOK
      <4> QED BY <3>2, <4>1 DEF PeerWrite, TypeInv, TypeOK, PeerOK
    <3>3. CASE PeerClose(i)
      BY <3>3 DEF PeerClose, TypeInv, TypeOK, PeerOK
    <3> QED BY <1>1, <3>1, <3>2, <3>3
  <2>6. TargetKnown' /\ MapLocked'
    BY <2>3, <2>4 DEF TypeInv, TargetKnown, MapLocked
  <2> QED BY <2>4, <2>5, <2>6 DEF TypeInv, TypeOK
<1>2. CASE PeerRecv
  <2>1. Head(toClient) \in ToClient /\ Tail(toClient) \in Seq(ToClient)
        /\ Len(Tail(toClient)) <= ConnCap
    BY <1>2, <1>t, SMT DEF PeerRecv
  <2> DEFINE k == Head(toClient)
             i == Head(toClient).svc
  <2>2. i \in Service /\ k.data \in 0..MaxChunks
    BY <2>1 DEF ToClient
  <2>3. [cmd |-> "OKAY", svc |-> i] \in FromClient
    BY <2>2 DEF FromClient
  <2>4. fromClient' \in Seq(FromClient) /\ (fromClient # <<>> => fromClient' # <<>>)
    BY <1>2, <1>t, <2>3, SMT DEF PeerRecv
  <2>5. ConnOK' /\ PcOK' /\ FieldsOK' /\ UNCHANGED <<pc, tgt, smMu>>
    BY <1>2, <2>1, <2>4 DEF PeerRecv, serviceVars, TypeInv, TypeOK, ConnOK, PcOK,
       FieldsOK
  <2>6. PeerOK'
    BY <1>2, <2>2 DEF PeerRecv, TypeInv, TypeOK, PeerOK
  <2>7. TargetKnown' /\ MapLocked'
    BY <2>4, <2>5 DEF TypeInv, TargetKnown, MapLocked
  <2> QED BY <2>5, <2>6, <2>7 DEF TypeInv, TypeOK
<1>3. CASE PeerGone
  <2>1. ConnOK'
    <3>1. <<>> \in Seq(ToClient) /\ Len(<<>>) <= ConnCap
      BY ConnCapAssumption, SMT
    <3>2. toClient' \in Seq(ToClient) /\ Len(toClient)' <= ConnCap
      BY <1>3, <3>1 DEF PeerGone
    <3>3. peerUp' \in BOOLEAN
      BY <1>3 DEF PeerGone
    <3> QED BY <1>3, <3>2, <3>3 DEF PeerGone, TypeInv, TypeOK, ConnOK
  <2> QED BY <1>3, <2>1 DEF PeerGone, serviceVars, peerVars, TypeInv, TypeOK, PcOK,
      FieldsOK, PeerOK, TargetKnown, MapLocked
<1> QED BY <1>1, <1>2, <1>3 DEF PeerStep

(* TypeInv holds initially and every step preserves it.                    *)
LEMMA TypeInit ==
    ASSUME Init
    PROVE  TypeInv
<1>1. PcOK
  <2>1. "read" \in ReaderLabels /\ "idle" \in CloserLabels /\ "off" \in HandlerLabels
        /\ "off" \in ForwarderLabels
    BY DEF ReaderLabels, CloserLabels, HandlerLabels, ForwarderLabels
  <2> QED BY <2>1, ProcFacts DEF Init, SocketInit, PcOK, LabelsOf, Label
<1>2. ConnOK
  <2>1. <<>> \in Seq(FromClient) /\ <<>> \in Seq(ToClient) /\ Len(<<>>) <= ConnCap
    BY ConnCapAssumption, SMT
  <2> QED BY <2>1 DEF Init, SocketInit, ConnOK
<1>5. FieldsOK
  <2>1. /\ mu \in [Service -> Proc \cup {Free}] /\ crashed \in BOOLEAN
        /\ closeArg \in [Service -> {"localID", "zero"}]
        /\ dev \in [Service -> {"none", "open", "eof", "closed"}]
    BY DEF Init, ServiceInit
  <2>2. chunk \in [Service -> 0..MaxChunks]
    BY MaxChunksAssumption, SMT DEF Init, ServiceInit
  <2>3. /\ transport \in [Service -> BOOLEAN] /\ opened \in [Service -> BOOLEAN]
        /\ ended \in [Service -> BOOLEAN] /\ needAck \in [Service -> BOOLEAN]
        /\ doneCh \in [Service -> BOOLEAN]
    BY DEF Init, ServiceInit
  <2> QED BY <2>1, <2>2, <2>3 DEF FieldsOK
<1>6. PeerOK
  BY MaxChunksAssumption, MaxWritesAssumption, SMT DEF Init, PeerOK
<1>3. pc[Reader] = "read" /\ pc[Closer] = "idle" /\ smMu = Free
  BY ProcFacts DEF Init, SocketInit
<1>4. TargetKnown /\ MapLocked
  BY <1>3, ProcFacts DEF TargetKnown, MapLocked, TargetLabels, EndLabels
<1> QED BY <1>1, <1>2, <1>4, <1>5, <1>6 DEF TypeInv, TypeOK

(* Every step keeps the invariant.                                         *)
LEMMA TypeNext ==
    ASSUME TypeInv, [Next]_vars
    PROVE  TypeInv'
<1>1. CASE BridgeStep
  BY <1>1, TypeReader, TypeSocketEnd, TypeHandler, TypeForwarder, ProcFacts
  DEF BridgeStep
<1>2. CASE CallServerClose
  <2>1. Goto(Closer, "sockEnd") /\ UNCHANGED <<connVars, serviceVars, peerVars>>
        /\ pc[Closer] = "idle"
    BY <1>2 DEF CallServerClose, ServerClose
  <2>2. "sockEnd" \in LabelsOf(Closer) /\ "sockEnd" \notin TargetLabels
        /\ "sockEnd" \notin {"mapNext"} \cup EndLabels
        /\ "idle" \notin {"mapNext"} \cup EndLabels
    BY LabelFacts DEF CloserLabels, SocketEndLabels, TargetLabels, EndLabels
  <2>3. PcOK' /\ pc'[Closer] = "sockEnd" /\ \A q \in Proc : q # Closer => pc'[q] = pc[q]
    BY <2>1, <2>2, ProcFacts, Move DEF TypeInv, TypeOK
  <2>4. TargetKnown' /\ MapLocked'
    BY <2>1, <2>2, <2>3, ProcFacts, SMT DEF connVars, TypeInv, TargetKnown, MapLocked
  <2> QED BY <2>1, <2>3, <2>4 DEF connVars, serviceVars, peerVars, TypeInv, TypeOK,
      ConnOK, FieldsOK, PeerOK
<1>3. CASE PeerStep
  BY <1>3, TypePeer
<1>4. ASSUME NEW i \in Service, DeviceEOF(i) PROVE TypeInv'
  BY <1>4 DEF DeviceEOF, socketVars, connVars, peerVars, TypeInv, TypeOK, PcOK, ConnOK,
     FieldsOK, PeerOK, TargetKnown, MapLocked
<1>5. CASE UNCHANGED vars
  BY <1>5 DEF vars, socketVars, connVars, serviceVars, peerVars, TypeInv, TypeOK, PcOK,
     ConnOK, FieldsOK, PeerOK, TargetKnown, MapLocked
<1> QED BY <1>1, <1>2, <1>3, <1>4, <1>5 DEF Next

(* Every variable stays in its range, for any set of services and bounds:  *)
(* goroutines stay in their code and the send buffer within its capacity.  *)
THEOREM TypeCorrect == Spec => []TypeOK
<1>1. TypeInv => TypeOK
  BY DEF TypeInv
<1> QED BY <1>1, TypeInit, TypeNext, PTL DEF Spec

-----------------------------------------------------------------------------
(* The locks.                                                              *)

(* Where a handler is before it starts its forwarder.                      *)
Early == HandlerLabels \ (EndLabels \cup {"wait", "remove", "exit"})

(* p enters, leaves or keeps its critical section of Service.mu.           *)
MuEffect(p) ==
    \/ mu' = mu /\ (HoldsMu(p)' <=> HoldsMu(p))
    \/ /\ ~HoldsMu(p) /\ HoldsMu(p)'
       /\ mu[Target(p)] = Free /\ ~ended[Target(p)]
       /\ mu' = [mu EXCEPT ![Target(p)] = p]
    \/ /\ HoldsMu(p) /\ ~HoldsMu(p)'
       /\ mu' = [mu EXCEPT ![Target(p)] = Free]

WriteMuEffect(p) ==
    \/ writeMu' = writeMu /\ (HoldsWriteMu(p)' <=> HoldsWriteMu(p))
    \/ ~HoldsWriteMu(p) /\ HoldsWriteMu(p)' /\ writeMu = Free /\ writeMu' = p
    \/ HoldsWriteMu(p) /\ ~HoldsWriteMu(p)' /\ writeMu' = Free

EndedEffect(p) ==
    \/ ended' = ended
    \/ HoldsMu(p) /\ ~HoldsMu(p)' /\ ended' = [ended EXCEPT ![Target(p)] = TRUE]

DoneEffect(p) ==
    \/ doneCh' = doneCh
    \/ \E i \in Service : /\ p = Forwarder(i) /\ pc'[p] = "exit"
                          /\ doneCh' = [doneCh EXCEPT ![i] = TRUE]

(* A handler does not go back to before the wait for its forwarder.        *)
NoReturn(p) ==
    \A i \in Service : p = Handler(i) /\ pc'[p] \in Early => pc[p] \in Early

Shape(p) ==
    /\ pc[p] \notin {"off", "exit"} /\ pc'[p] # "off"
    /\ \A q \in Proc : q = p \/ pc'[q] = pc[q]
    /\ \A q \in Enders : tgt'[q] = tgt[q] \/ (q = p /\ ~HoldsMu(p) /\ ~HoldsMu(p)')
    /\ MuEffect(p) /\ WriteMuEffect(p) /\ EndedEffect(p) /\ DoneEffect(p)
    /\ NoReturn(p)

(* The labels of a handler that has not started its forwarder.             *)
LEMMA EarlyLabels ==
    /\ Early = {"off", "dial", "adopt", "name", "reply", "await", "fail", "okWrite",
                "okSend", "setOpened"}
    /\ Early \cap MuLabels = {} /\ EndLabels \cap Early = {}
BY DEF Early, HandlerLabels, EndLabels, MuLabels

(* How the two halves of Socket.Write move the goroutine that calls it.    *)
LEMMA WriteLockShape ==
    ASSUME TypeInv, NEW p \in Proc, NEW a, NEW b \in LabelsOf(p), NEW c \in LabelsOf(p),
           WriteLock(p, a, b, c), a \notin {"off", "exit"}, {b, c} \cap {"off", "exit"} = {},
           a \notin WriteMuLabels, b \in WriteMuLabels, c \notin WriteMuLabels,
           (a \in MuLabels <=> b \in MuLabels), (a \in MuLabels <=> c \in MuLabels),
           a \in Early \/ {b, c} \cap Early = {}, UNCHANGED serviceVars
    PROVE  Shape(p)
<1>1. pc[p] = a
  BY DEF WriteLock
<1>2. PICK l \in {b, c} : Goto(p, l)
  BY DEF WriteLock
<1>3. pc'[p] = l /\ \A q \in Proc : q # p => pc'[q] = pc[q]
  BY <1>2, Move DEF TypeInv, TypeOK
<1>4. UNCHANGED <<tgt, mu, ended, doneCh>>
  BY DEF WriteLock, serviceVars
<1>5. WriteMuEffect(p)
  <2>1. CASE sockEnded
    <3>1. Goto(p, c) /\ writeMu' = writeMu
      BY <2>1 DEF WriteLock
    <3>2. pc'[p] = c
      BY <3>1, Move DEF TypeInv, TypeOK
    <3> QED BY <1>1, <3>1, <3>2 DEF WriteMuEffect, HoldsWriteMu
  <2>2. CASE ~sockEnded
    <3>1. Goto(p, b) /\ writeMu = Free /\ writeMu' = p
      BY <2>2 DEF WriteLock
    <3>2. pc'[p] = b
      BY <3>1, Move DEF TypeInv, TypeOK
    <3> QED BY <1>1, <3>1, <3>2 DEF WriteMuEffect, HoldsWriteMu
  <2> QED BY <2>1, <2>2
<1> QED BY <1>1, <1>3, <1>4, <1>5 DEF Shape, MuEffect, EndedEffect, DoneEffect, NoReturn,
    HoldsMu

(* The shape of conn.Write, which releases writeMu.                        *)
LEMMA WriteConnShape ==
    ASSUME TypeInv, NEW p \in Proc, NEW a, NEW c \in LabelsOf(p), NEW k,
           WriteConn(p, a, c, k), a \notin {"off", "exit"}, c \notin {"off", "exit"},
           a \in WriteMuLabels, c \notin WriteMuLabels, (a \in MuLabels <=> c \in MuLabels),
           a \in Early \/ c \notin Early, UNCHANGED serviceVars
    PROVE  Shape(p)
<1>1. pc[p] = a /\ Goto(p, c) /\ writeMu' = Free /\ UNCHANGED <<tgt, mu, ended, doneCh>>
  BY DEF WriteConn, serviceVars
<1>2. pc'[p] = c /\ \A q \in Proc : q # p => pc'[q] = pc[q]
  BY <1>1, Move DEF TypeInv, TypeOK
<1> QED BY <1>1, <1>2 DEF Shape, MuEffect, WriteMuEffect, EndedEffect, DoneEffect, NoReturn,
    HoldsMu, HoldsWriteMu

(* A step that moves p and touches neither mutexes nor channels.           *)
LEMMA QuietShape ==
    ASSUME TypeInv, NEW p \in Proc, NEW l \in LabelsOf(p), Goto(p, l),
           pc[p] \notin MuLabels \cup WriteMuLabels \cup {"off", "exit"},
           l \notin MuLabels \cup WriteMuLabels \cup {"off"},
           pc[p] \in Early \/ l \notin Early \/ p \in Enders \cup Forwarders,
           UNCHANGED <<mu, writeMu, ended, doneCh>>,
           \A q \in Enders : q # p => tgt'[q] = tgt[q]
    PROVE  Shape(p)
<1>1. pc'[p] = l /\ \A q \in Proc : q # p => pc'[q] = pc[q]
  BY Move DEF TypeInv, TypeOK
<1> QED BY <1>1, ProcFacts DEF Shape, MuEffect, WriteMuEffect, EndedEffect, DoneEffect,
    NoReturn, HoldsMu, HoldsWriteMu

(* A step in which p takes, keeps or releases Service.mu.                  *)
LEMMA MuShape ==
    ASSUME TypeInv, NEW p \in Proc, NEW l \in LabelsOf(p), Goto(p, l),
           pc[p] \notin WriteMuLabels \cup {"off", "exit"},
           l \notin WriteMuLabels \cup {"off"},
           p \in Handlers => l \notin Early,
           UNCHANGED <<writeMu, doneCh, tgt>>,
           \/ mu' = mu /\ (l \in MuLabels <=> pc[p] \in MuLabels) /\ ended' = ended
           \/ /\ pc[p] \notin MuLabels /\ l \in MuLabels /\ mu[Target(p)] = Free
              /\ ~ended[Target(p)] /\ mu' = [mu EXCEPT ![Target(p)] = p] /\ ended' = ended
           \/ /\ pc[p] \in MuLabels /\ l \notin MuLabels
              /\ mu' = [mu EXCEPT ![Target(p)] = Free]
              /\ ended' \in {ended, [ended EXCEPT ![Target(p)] = TRUE]}
    PROVE  Shape(p)
<1>1. pc'[p] = l /\ \A q \in Proc : q # p => pc'[q] = pc[q]
  BY Move DEF TypeInv, TypeOK
<1>2. NoReturn(p)
  BY <1>1, ProcFacts DEF NoReturn
<1>3. WriteMuEffect(p) /\ DoneEffect(p)
  BY <1>1 DEF WriteMuEffect, DoneEffect, HoldsWriteMu
<1>4. MuEffect(p) /\ EndedEffect(p)
  BY <1>1 DEF MuEffect, EndedEffect, HoldsMu
<1> QED BY <1>1, <1>2, <1>3, <1>4 DEF Shape

(* The shape of the steps of Service.End.                                  *)
LEMMA EndShape ==
    ASSUME TypeInv, NEW p \in Proc, End(p)
    PROVE  Shape(p)
<1>0. EndLabels \subseteq LabelsOf(p) /\ (pc[p] \in EndLabels => AfterEnd(p) \in LabelsOf(p))
  BY LabelFacts DEF TypeInv, MapLocked
<1>l. /\ {"endLock", "endWrite", "endSend", "endSet"} = EndLabels
      /\ EndLabels \cap {"off", "exit"} = {} /\ EndLabels \cap Early = {}
      /\ {"endWrite", "endSend", "endSet"} \subseteq MuLabels
      /\ "endLock" \notin MuLabels /\ EndLabels \cap WriteMuLabels = {"endSend"}
  BY EarlyLabels DEF EndLabels, MuLabels, WriteMuLabels
<1>a. AfterEnd(p) \in {"exit", "closeDone", "mapNext", "read"}
  BY DEF AfterEnd
<1>b. AfterEnd(p) \notin MuLabels \cup WriteMuLabels \cup Early \cup {"off"}
  BY <1>a, EarlyLabels DEF MuLabels, WriteMuLabels
<1>1. CASE EndLock(p)
  <2>1. CASE ended[Target(p)]
    <3>1. /\ Goto(p, AfterEnd(p)) /\ pc[p] = "endLock"
          /\ UNCHANGED <<writeMu, doneCh, tgt, mu, ended>>
      BY <1>1, <2>1 DEF EndLock, connVars
    <3> QED BY <1>0, <1>l, <1>b, <3>1, MuShape
  <2>2. CASE ~ended[Target(p)]
    <3>1. /\ Goto(p, "endWrite") /\ pc[p] = "endLock" /\ mu[Target(p)] = Free
          /\ mu' = [mu EXCEPT ![Target(p)] = p]
          /\ UNCHANGED <<writeMu, doneCh, tgt, ended>>
      BY <1>1, <2>2 DEF EndLock, connVars
    <3> QED BY <1>0, <1>l, <2>2, <3>1, MuShape
  <2> QED BY <2>1, <2>2
<1>2. CASE EndWrite(p)
  BY <1>0, <1>l, <1>2, WriteLockShape, SMT DEF EndWrite
<1>3. CASE EndSend(p)
  BY <1>0, <1>l, <1>3, WriteConnShape, SMT DEF EndSend
<1>4. CASE EndSet(p)
  <2>1. /\ Goto(p, AfterEnd(p)) /\ pc[p] = "endSet"
        /\ mu' = [mu EXCEPT ![Target(p)] = Free]
        /\ ended' = [ended EXCEPT ![Target(p)] = TRUE]
        /\ UNCHANGED <<writeMu, doneCh, tgt>>
    BY <1>4 DEF EndSet, connVars
  <2> QED BY <1>0, <1>l, <1>b, <2>1, MuShape
<1> QED BY <1>1, <1>2, <1>3, <1>4 DEF End

(* The shape of the steps of Socket.End and ServiceMap.End.                *)
LEMMA SocketEndShape ==
    ASSUME TypeInv, NEW p \in Enders, EndStep(p)
    PROVE  Shape(p)
<1>0. p \in Proc /\ SocketEndLabels \cup EndLabels \subseteq LabelsOf(p)
  BY ProcFacts, LabelFacts DEF ReaderLabels, CloserLabels
<1>1. CASE End(p)
  BY <1>0, <1>1, EndShape
<1>2. CASE /\ SocketEnd(p) \/ MapEndLock(p) \/ MapEndNext(p) \/ MapEndUnlock(p) \/ ConnClose(p)
           /\ UNCHANGED serviceVars
  <2>1. PICK l \in {"mapLock", "mapNext", "endLock", "connClose", "done"} : Goto(p, l)
    BY <1>2 DEF SocketEnd, MapEndLock, MapEndNext, MapEndUnlock, ConnClose
  <2>2. l \in LabelsOf(p) /\ l \notin MuLabels \cup WriteMuLabels \cup {"off"}
    BY <1>0 DEF SocketEndLabels, EndLabels, MuLabels, WriteMuLabels
  <2>3. pc[p] \in {"sockEnd", "mapLock", "mapNext", "connClose"}
    BY <1>2 DEF SocketEnd, MapEndLock, MapEndNext, MapEndUnlock, ConnClose
  <2>4. pc[p] \notin MuLabels \cup WriteMuLabels \cup {"off", "exit"}
    BY <2>3 DEF MuLabels, WriteMuLabels
  <2>5. UNCHANGED <<mu, writeMu, ended, doneCh>> /\ \A q \in Enders : q # p => tgt'[q] = tgt[q]
    BY <1>2 DEF SocketEnd, MapEndLock, MapEndNext, MapEndUnlock, ConnClose, serviceVars,
       TypeInv, TypeOK, ConnOK
  <2> QED BY <1>0, <2>1, <2>2, <2>4, <2>5, QuietShape
<1> QED BY <1>1, <1>2 DEF EndStep

(* The shape of Reader's steps, but for the one that starts a handler.     *)
LEMMA ReaderShape ==
    ASSUME TypeInv, ReaderStep, ~HandleOpen
    PROVE  Shape(Reader)
<1>0. Reader \in Proc /\ Reader \in Enders /\ Reader \notin Handlers
      /\ LabelsOf(Reader) = ReaderLabels /\ Target(Reader) = tgt[Reader]
  BY ProcFacts, LabelFacts DEF Handlers, Target
<1>l. /\ {"read", "dispatch", "OKAY", "WRTE", "CLSE", "devWrite", "ackWrite", "ackSend",
          "ackDone", "premature", "sockEnd", "endLock"} \subseteq ReaderLabels
      /\ {"read", "dispatch", "OKAY", "WRTE", "CLSE", "premature", "sockEnd", "endLock"}
           \cap (MuLabels \cup WriteMuLabels \cup {"off", "exit"}) = {}
      /\ {"devWrite", "ackWrite", "ackSend", "ackDone"} \subseteq MuLabels
      /\ {"devWrite", "ackWrite", "ackDone"} \cap (WriteMuLabels \cup {"off", "exit"}) = {}
      /\ {"ackWrite", "ackSend", "ackDone"} \cap (Early \cup {"off", "exit"}) = {}
      /\ "ackSend" \in WriteMuLabels
  BY EarlyLabels DEF ReaderLabels, EndLabels, SocketEndLabels, MuLabels, WriteMuLabels
<1>1. CASE ReadPacket /\ UNCHANGED serviceVars
  <2>1. pc[Reader] = "read" /\ UNCHANGED <<mu, writeMu, ended, doneCh, tgt>>
    BY <1>1 DEF ReadPacket, serviceVars
  <2>2. CASE UNCHANGED pc
    BY <1>0, <1>l, <2>1, <2>2 DEF Shape, MuEffect, WriteMuEffect, EndedEffect, DoneEffect,
       NoReturn, HoldsMu, HoldsWriteMu
  <2>3. CASE Goto(Reader, "dispatch")
    BY <1>0, <1>l, <2>1, <2>3, QuietShape
  <2> QED BY <1>1, <2>2, <2>3 DEF ReadPacket
<1>2. CASE /\ ReadError \/ ForwardServicePacket \/ ReturnPremature
           /\ UNCHANGED serviceVars
  <2>1. pc[Reader] \in {"read", "dispatch", "premature"}
    BY <1>2 DEF ReadError, ForwardServicePacket, ReturnPremature
  <2>2. UNCHANGED <<mu, writeMu, ended, doneCh>>
    BY <1>2 DEF ReadError, ForwardServicePacket, ReturnPremature, serviceVars, connVars
  <2>3. \A q \in Enders : q # Reader => tgt'[q] = tgt[q]
    BY <1>2 DEF ReadError, ForwardServicePacket, ReturnPremature, connVars, TypeInv, TypeOK,
       ConnOK
  <2>4. PICK l \in {"sockEnd", "read", "OKAY", "WRTE", "CLSE"} : Goto(Reader, l)
    <3>1. CASE ForwardServicePacket
      <4>1. Head(fromClient) \in FromClient /\ Head(fromClient).cmd # "OPEN"
        BY <3>1, SMT DEF ForwardServicePacket, TypeInv, TypeOK, ConnOK, TargetKnown
      <4>2. Head(fromClient).cmd \in {"OKAY", "WRTE", "CLSE"}
        BY <4>1 DEF FromClient
      <4> QED BY <3>1, <4>2 DEF ForwardServicePacket
    <3>2. CASE ReadError \/ ReturnPremature
      BY <3>2 DEF ReadError, ReturnPremature
    <3> QED BY <1>2, <3>1, <3>2
  <2> QED BY <1>0, <1>l, <2>1, <2>2, <2>3, <2>4, QuietShape
<1>3. CASE HandleOkay \/ HandleClose
  <2>1. /\ pc[Reader] \in {"OKAY", "CLSE"}
        /\ UNCHANGED <<mu, writeMu, ended, doneCh, tgt>>
    BY <1>3 DEF HandleOkay, HandleClose, connVars, serviceVars
  <2>2. PICK l \in {"read", "premature", "endLock"} : Goto(Reader, l)
    BY <1>3 DEF HandleOkay, HandleClose
  <2> QED BY <1>0, <1>l, <2>1, <2>2, QuietShape
<1>4. CASE HandleWrite
  <2>1. pc[Reader] = "WRTE" /\ mu[tgt[Reader]] = Free /\ UNCHANGED <<writeMu, ended, doneCh, tgt>>
    BY <1>4 DEF HandleWrite, connVars
  <2>2. \/ \E l \in {"read", "premature"} : Goto(Reader, l) /\ mu' = mu
        \/ /\ ~ended[tgt[Reader]] /\ \E l \in {"devWrite", "ackWrite"} : Goto(Reader, l)
           /\ mu' = [mu EXCEPT ![tgt[Reader]] = Reader]
    BY <1>4 DEF HandleWrite
  <2> QED BY <1>0, <1>l, <2>1, <2>2, MuShape
<1>5. CASE DeviceWrite \/ AckDone
  <2>1. pc[Reader] \in {"devWrite", "ackDone"} /\ UNCHANGED <<writeMu, ended, doneCh, tgt>>
    BY <1>5 DEF DeviceWrite, AckDone, connVars
  <2>2. \/ Goto(Reader, "ackWrite") /\ mu' = mu
        \/ \E l \in {"read", "sockEnd"} :
             Goto(Reader, l) /\ mu' = [mu EXCEPT ![tgt[Reader]] = Free]
    BY <1>5 DEF DeviceWrite, AckDone
  <2> QED BY <1>0, <1>l, <2>1, <2>2, MuShape
<1>6. CASE AckWrite
  BY <1>0, <1>l, <1>6, WriteLockShape DEF AckWrite
<1>7. CASE AckSend
  BY <1>0, <1>l, <1>7, WriteConnShape DEF AckSend
<1>8. CASE EndStep(Reader)
  BY <1>0, <1>8, SocketEndShape
<1> QED BY <1>1, <1>2, <1>3, <1>4, <1>5, <1>6, <1>7, <1>8 DEF ReaderStep

(* The shape of a handler's steps, but for the one that starts its         *)
(* forwarder.                                                              *)
LEMMA HandlerShape ==
    ASSUME TypeInv, NEW i \in Service, HandlerStep(i), ~SetOpened(i), ~NilTransport(i)
    PROVE  Shape(Handler(i))
<1>0. Handler(i) \in Proc /\ Handler(i) \notin Enders /\ Handler(i) \in Handlers
      /\ LabelsOf(Handler(i)) = HandlerLabels
  BY ProcFacts, LabelFacts
<1>l. /\ {"adopt", "name", "reply", "await", "fail", "okWrite", "okSend", "setOpened",
          "remove", "endLock"} \subseteq HandlerLabels
      /\ {"dial", "adopt", "name", "reply", "await", "fail", "okWrite", "wait", "remove",
          "endLock"} \cap (MuLabels \cup WriteMuLabels \cup {"off", "exit"}) = {}
      /\ {"dial", "adopt", "name", "reply", "await", "fail", "okWrite", "okSend", "setOpened"}
           \subseteq Early
      /\ {"remove", "endLock", "wait"} \cap Early = {}
      /\ {"okWrite", "okSend", "setOpened"} \cap (MuLabels \cup {"off", "exit"}) = {}
      /\ "okSend" \in WriteMuLabels /\ {"okWrite", "setOpened"} \cap WriteMuLabels = {}
  BY EarlyLabels DEF HandlerLabels, EndLabels, MuLabels, WriteMuLabels
<1>1. CASE Dial(i) \/ AdoptTransport(i) \/ SendName(i) \/ ReadReply(i) \/ Reply(i)
             \/ ReadFail(i) \/ Wait(i) \/ Remove(i)
  <2>1. UNCHANGED <<mu, writeMu, ended, doneCh, tgt>>
    BY <1>1 DEF Dial, AdoptTransport, SendName, ReadReply, Reply, ReadFail, Wait, Remove,
       MapRemove, connVars, serviceVars
  <2>2. pc[Handler(i)] \in {"dial", "adopt", "name", "reply", "await", "fail"}
        \/ pc[Handler(i)] \in {"wait", "remove"}
    BY <1>1 DEF Dial, AdoptTransport, SendName, ReadReply, Reply, ReadFail, Wait, Remove,
       MapRemove
  <2>3. PICK l \in {"adopt", "name", "reply", "await", "fail", "okWrite", "remove", "endLock"} :
          Goto(Handler(i), l)
            /\ (pc[Handler(i)] \in {"wait", "remove"} => l \in {"remove", "endLock"})
    BY <1>1 DEF Dial, AdoptTransport, SendName, ReadReply, Reply, ReadFail, Wait, Remove,
       MapRemove
  <2> QED BY <1>0, <1>l, <2>1, <2>2, <2>3, QuietShape
<1>2. CASE OkayWrite(i)
  BY <1>0, <1>l, <1>2, WriteLockShape, SMT DEF OkayWrite
<1>3. CASE OkaySend(i)
  BY <1>0, <1>l, <1>3, WriteConnShape, SMT DEF OkaySend
<1>4. CASE End(Handler(i))
  BY <1>0, <1>4, EndShape
<1> QED BY <1>1, <1>2, <1>3, <1>4 DEF HandlerStep

(* The shape of a forwarder's steps.                                       *)
LEMMA ForwarderShape ==
    ASSUME TypeInv, NEW i \in Service, ForwarderStep(i)
    PROVE  Shape(Forwarder(i))
<1> DEFINE f == Forwarder(i)
<1>0. f \in Proc /\ f \notin Enders /\ f \in Forwarders /\ f \notin Handlers
      /\ LabelsOf(f) = ForwarderLabels /\ Target(f) = i
  BY ProcFacts, LabelFacts DEF Target
<1>l. /\ {"loop", "nap", "devRead", "push", "pushWrite", "pushSend", "pushSet", "exit",
          "endLock"} \subseteq ForwarderLabels
      /\ {"loop", "nap", "devRead", "push", "closeDone", "endLock"}
           \cap (MuLabels \cup WriteMuLabels \cup {"off", "exit"}) = {}
      /\ {"pushWrite", "pushSend", "pushSet"} \subseteq MuLabels
      /\ {"pushWrite", "pushSend", "pushSet"} \cap ({"off", "exit"} \cup Early) = {}
      /\ "pushSend" \in WriteMuLabels /\ {"pushWrite", "pushSet"} \cap WriteMuLabels = {}
      /\ "exit" \notin MuLabels \cup WriteMuLabels
  BY EarlyLabels DEF ForwarderLabels, EndLabels, MuLabels, WriteMuLabels
<1> HIDE DEF f
<1>1. CASE ForwardCheck(i) \/ ForwardNap(i) \/ ForwardRead(i)
  <2>1. /\ UNCHANGED <<mu, writeMu, ended, doneCh, tgt>>
        /\ pc[f] \in {"loop", "nap", "devRead"}
    BY <1>1 DEF ForwardCheck, ForwardNap, ForwardRead, connVars, serviceVars, f
  <2>2. PICK l \in {"loop", "nap", "devRead", "push", "endLock"} : Goto(f, l)
    BY <1>1 DEF ForwardCheck, ForwardNap, ForwardRead, f
  <2> QED BY <1>0, <1>l, <2>1, <2>2, QuietShape DEF f
<1>2. CASE ForwardPush(i)
  <2>1. /\ UNCHANGED <<writeMu, ended, doneCh, tgt>> /\ pc[f] = "push" /\ mu[i] = Free
        /\ \/ Goto(f, "loop") /\ mu' = mu
           \/ ~ended[i] /\ Goto(f, "pushWrite") /\ mu' = [mu EXCEPT ![i] = f]
    BY <1>2 DEF ForwardPush, connVars, f
  <2> QED BY <1>0, <1>l, <2>1, MuShape DEF f
<1>3. CASE PushSet(i)
  <2>1. /\ UNCHANGED <<writeMu, ended, doneCh, tgt>> /\ pc[f] = "pushSet"
        /\ Goto(f, "loop") /\ mu' = [mu EXCEPT ![i] = Free]
    BY <1>3 DEF PushSet, connVars, f
  <2> QED BY <1>0, <1>l, <2>1, MuShape DEF f
<1>4. CASE PushWrite(i)
  BY <1>0, <1>l, <1>4, WriteLockShape, SMT DEF PushWrite, f
<1>5. CASE PushSend(i)
  BY <1>0, <1>l, <1>5, WriteConnShape, SMT DEF PushSend, f
<1>6. CASE CloseDone(i)
  <2>1. /\ UNCHANGED <<mu, writeMu, ended, tgt>> /\ pc[f] = "closeDone"
        /\ Goto(f, "exit") /\ doneCh' = [doneCh EXCEPT ![i] = TRUE]
    BY <1>6 DEF CloseDone, connVars, f
  <2>2. pc'[f] = "exit" /\ \A q \in Proc : q # f => pc'[q] = pc[q]
    BY <1>0, <1>l, <2>1, Move DEF TypeInv, TypeOK
  <2>3. NoReturn(f)
    BY <1>0, ProcFacts DEF NoReturn
  <2> QED BY <1>l, <2>1, <2>2, <2>3 DEF Shape, MuEffect, WriteMuEffect, EndedEffect, DoneEffect,
      HoldsMu, HoldsWriteMu, f
<1>7. CASE End(f)
  BY <1>0, <1>7, EndShape DEF f
<1> QED BY <1>1, <1>2, <1>3, <1>4, <1>5, <1>6, <1>7 DEF ForwarderStep, f

-----------------------------------------------------------------------------
(* No goroutine is started twice.                                          *)

OpenFresh ==
    \A n \in 1..Len(fromClient) : fromClient[n].cmd = "OPEN" =>
      /\ peer[fromClient[n].svc] # "idle"
      /\ pc[Handler(fromClient[n].svc)] = "off"
      /\ \A m \in 1..Len(fromClient) : fromClient[m] = fromClient[n] => m = n

ForwarderFresh ==
    \A i \in Service : /\ peer[i] = "idle" => pc[Handler(i)] = "off"
                       /\ pc[Handler(i)] \in Early => pc[Forwarder(i)] = "off"

(* StartedOnce speaks of handlers and of forwarders.                       *)
LEMMA StartedParts == StartedOnce <=> OpenFresh /\ ForwarderFresh
BY DEF StartedOnce, OpenFresh, ForwarderFresh, Early

(* The bridge takes packets from the peer only at the head.                *)
LEMMA Consumes ==
    ASSUME TypeInv, BridgeStep
    PROVE  \/ fromClient' = fromClient
           \/ fromClient # <<>> /\ fromClient' = Tail(fromClient)
<1>1. CASE ReaderStep
  <2>1. CASE ReadPacket
    BY <2>1 DEF ReadPacket
  <2>2. CASE HandleOpen \/ ForwardServicePacket
    BY <2>2 DEF HandleOpen, ForwardServicePacket, TypeInv, TargetKnown
  <2>3. CASE ReadError \/ ReturnPremature \/ HandleOkay \/ HandleWrite \/ DeviceWrite
               \/ AckWrite \/ AckSend \/ AckDone \/ HandleClose
    BY <2>3 DEF ReadError, ReturnPremature, HandleOkay, HandleWrite, DeviceWrite, AckWrite,
       AckSend, AckDone, HandleClose, WriteLock, WriteConn, connVars
  <2>4. CASE EndStep(Reader)
    BY <2>4 DEF EndStep, SocketEnd, MapEndLock, MapEndNext, MapEndUnlock, ConnClose, End,
       EndLock, EndWrite, EndSend, EndSet, WriteLock, WriteConn, connVars
  <2> QED BY <1>1, <2>1, <2>2, <2>3, <2>4 DEF ReaderStep
<1>2. CASE EndStep(Closer)
  BY <1>2 DEF EndStep, SocketEnd, MapEndLock, MapEndNext, MapEndUnlock, ConnClose, End,
     EndLock, EndWrite, EndSend, EndSet, WriteLock, WriteConn, connVars
<1>3. ASSUME NEW i \in Service, HandlerStep(i) PROVE fromClient' = fromClient
  <2>1. CASE End(Handler(i))
    BY <2>1 DEF End, EndLock, EndWrite, EndSend, EndSet, WriteLock, WriteConn, connVars
  <2>2. CASE ~End(Handler(i))
    BY <1>3, <2>2 DEF HandlerStep, Dial, AdoptTransport, SendName, ReadReply, Reply, ReadFail,
       NilTransport, OkayWrite, OkaySend, SetOpened, Wait, Remove, MapRemove, WriteLock,
       WriteConn, connVars, socketVars
  <2> QED BY <2>1, <2>2
<1>4. ASSUME NEW i \in Service, ForwarderStep(i) PROVE fromClient' = fromClient
  <2>1. CASE End(Forwarder(i))
    BY <2>1 DEF End, EndLock, EndWrite, EndSend, EndSet, WriteLock, WriteConn, connVars
  <2>2. CASE ~End(Forwarder(i))
    BY <1>4, <2>2 DEF ForwarderStep, ForwardCheck, ForwardNap, ForwardRead, ForwardPush,
       PushWrite, PushSend, PushSet, CloseDone, WriteLock, WriteConn, connVars
  <2> QED BY <2>1, <2>2
<1> QED BY <1>1, <1>2, <1>3, <1>4 DEF BridgeStep

(* A step that starts no goroutine and at most takes a packet keeps        *)
(* StartedOnce.                                                            *)
LEMMA StartedShape ==
    ASSUME TypeInv, StartedOnce, NEW p \in Proc, Shape(p), UNCHANGED peer,
           \/ fromClient' = fromClient
           \/ fromClient # <<>> /\ fromClient' = Tail(fromClient)
    PROVE  StartedOnce'
<1>1. \A i \in Service : pc[Handler(i)] = "off" => pc'[Handler(i)] = "off"
  BY ProcFacts DEF Shape
<1>2. \A i \in Service : pc[Forwarder(i)] = "off" => pc'[Forwarder(i)] = "off"
  BY ProcFacts DEF Shape
<1>3. \A i \in Service : pc'[Handler(i)] \in Early => pc[Handler(i)] \in Early
  BY ProcFacts DEF Shape, NoReturn
<1>4. ForwarderFresh'
  BY <1>1, <1>2, <1>3, StartedParts DEF ForwarderFresh
<1>5. OpenFresh
  BY StartedParts
<1>6. \A n \in 1..Len(fromClient) : fromClient[n].svc \in Service
  <2>1. \A n \in 1..Len(fromClient) : fromClient[n] \in FromClient
    BY SMT DEF TypeInv, TypeOK, ConnOK
  <2> QED BY <2>1 DEF FromClient
<1>7. OpenFresh'
  <2>1. CASE fromClient' = fromClient
    BY <1>1, <1>5, <1>6, <2>1, SMT DEF OpenFresh
  <2>2. CASE fromClient # <<>> /\ fromClient' = Tail(fromClient)
    <3>1. \A n \in 1..Len(fromClient') : /\ n + 1 \in 1..Len(fromClient)
                                         /\ fromClient'[n] = fromClient[n + 1]
      BY <2>2, SMT DEF TypeInv, TypeOK, ConnOK
    <3> QED BY <1>1, <1>5, <1>6, <3>1, SMT DEF OpenFresh
  <2> QED BY <2>1, <2>2
<1> QED
  <2>1. StartedOnce' <=> OpenFresh' /\ ForwarderFresh'
    BY DEF StartedOnce, OpenFresh, ForwarderFresh, Early
  <2> QED BY <1>4, <1>7, <2>1

(* handleOpenPacket takes the OPEN that no other packet repeats.           *)
LEMMA StartedHandleOpen ==
    ASSUME TypeInv, StartedOnce, HandleOpen, UNCHANGED peer
    PROVE  /\ StartedOnce'
           /\ \E i \in Service :
                /\ pc[Handler(i)] = "off" /\ pc'[Handler(i)] = "dial"
                /\ pc[Reader] = "dispatch" /\ pc'[Reader] = "read"
                /\ \A q \in Proc : q \in {Reader, Handler(i)} \/ pc'[q] = pc[q]
<1> DEFINE i == Head(fromClient).svc
<1>1. /\ fromClient \in Seq(FromClient) /\ fromClient # <<>> /\ pc[Reader] = "dispatch"
      /\ fromClient' = Tail(fromClient) /\ Head(fromClient).cmd = "OPEN"
      /\ pc' = [pc EXCEPT ![Reader] = "read", ![Handler(i)] = "dial"]
  BY DEF HandleOpen, TypeInv, TargetKnown, TypeOK, ConnOK
<1>2. \A n \in 1..Len(fromClient) : fromClient[n].svc \in Service
  <2>1. \A n \in 1..Len(fromClient) : fromClient[n] \in FromClient
    BY <1>1, SMT
  <2> QED BY <2>1 DEF FromClient
<1>3. 1 \in 1..Len(fromClient) /\ fromClient[1] = Head(fromClient)
  BY <1>1, SMT
<1>4. /\ \A n \in 1..Len(fromClient') : /\ n + 1 \in 1..Len(fromClient) /\ n + 1 # 1
                                        /\ fromClient'[n] = fromClient[n + 1]
  BY <1>1, SMT
<1>5. OpenFresh /\ ForwarderFresh
  BY StartedParts
<1>6. i \in Service /\ peer[i] # "idle" /\ pc[Handler(i)] = "off"
      /\ \A m \in 1..Len(fromClient) : fromClient[m] = fromClient[1] => m = 1
  BY <1>1, <1>2, <1>3, <1>5 DEF OpenFresh
<1>7. \A n \in 1..Len(fromClient') : fromClient'[n].cmd = "OPEN" => fromClient'[n].svc # i
  <2> SUFFICES ASSUME NEW n \in 1..Len(fromClient'), fromClient'[n].cmd = "OPEN",
                      fromClient'[n].svc = i
               PROVE  FALSE
    OBVIOUS
  <2>1. fromClient[n + 1] \in FromClient /\ fromClient[1] \in FromClient
    BY <1>1, <1>3, <1>4, SMT
  <2>2. fromClient[n + 1] = fromClient[1]
    BY <1>1, <1>3, <1>4, <2>1, SMT DEF FromClient
  <2> QED BY <1>4, <1>6, <2>2
<1> HIDE DEF i
<1>8. pc \in [Proc -> Label]
  BY DEF TypeInv, TypeOK, PcOK
<1>9. /\ pc'[Handler(i)] = "dial" /\ pc'[Reader] = "read"
      /\ \A q \in Proc : q \in {Reader, Handler(i)} \/ pc'[q] = pc[q]
  BY <1>1, <1>6, <1>8, ProcFacts
<1>10. OpenFresh'
  <2>1. \A j \in Service : j # i => pc'[Handler(j)] = pc[Handler(j)]
    BY <1>6, <1>9, ProcFacts
  <2> SUFFICES ASSUME NEW n \in 1..Len(fromClient'), fromClient'[n].cmd = "OPEN"
               PROVE  /\ peer'[fromClient'[n].svc] # "idle"
                      /\ pc'[Handler(fromClient'[n].svc)] = "off"
                      /\ \A m \in 1..Len(fromClient') : fromClient'[m] = fromClient'[n] => m = n
    BY DEF OpenFresh
  <2>2. /\ n + 1 \in 1..Len(fromClient) /\ fromClient'[n] = fromClient[n + 1]
        /\ fromClient'[n].svc \in Service /\ fromClient'[n].svc # i
    BY <1>2, <1>4, <1>7
  <2>3. \A m \in 1..Len(fromClient') : fromClient'[m] = fromClient'[n] => m + 1 = n + 1
    BY <1>4, <1>5, <2>2 DEF OpenFresh
  <2>4. \A m \in 1..Len(fromClient') : m + 1 = n + 1 => m = n
    BY SMT
  <2> QED BY <1>5, <2>1, <2>2, <2>3, <2>4 DEF OpenFresh
<1>11. ForwarderFresh'
  <2>1. \A j \in Service : pc'[Forwarder(j)] = pc[Forwarder(j)]
                           /\ (j # i => pc'[Handler(j)] = pc[Handler(j)])
    BY <1>6, <1>9, ProcFacts
  <2> QED BY <1>5, <1>6, <2>1, EarlyLabels DEF ForwarderFresh
<1>12. StartedOnce' <=> OpenFresh' /\ ForwarderFresh'
  BY DEF StartedOnce, OpenFresh, ForwarderFresh, Early
<1> QED BY <1>1, <1>6, <1>9, <1>10, <1>11, <1>12

(* The handler that starts the forwarder goes on to wait for it.           *)
LEMMA StartedSetOpened ==
    ASSUME TypeInv, StartedOnce, NEW i \in Service, SetOpened(i), UNCHANGED peer
    PROVE  /\ StartedOnce'
           /\ pc[Handler(i)] = "setOpened" /\ pc'[Handler(i)] = "wait"
           /\ pc[Forwarder(i)] = "off" /\ pc'[Forwarder(i)] = "loop"
           /\ \A q \in Proc : q \in {Handler(i), Forwarder(i)} \/ pc'[q] = pc[q]
<1>1. OpenFresh /\ ForwarderFresh /\ fromClient' = fromClient
  BY StartedParts DEF SetOpened, connVars
<1>2. pc \in [Proc -> Label] /\ pc[Handler(i)] = "setOpened"
      /\ pc' = [pc EXCEPT ![Handler(i)] = "wait", ![Forwarder(i)] = "loop"]
  BY DEF SetOpened, TypeInv, TypeOK, PcOK
<1>3. pc[Forwarder(i)] = "off" /\ peer[i] # "idle"
  BY <1>1, <1>2, EarlyLabels DEF ForwarderFresh
<1>4. /\ pc'[Handler(i)] = "wait" /\ pc'[Forwarder(i)] = "loop"
      /\ \A q \in Proc : q \in {Handler(i), Forwarder(i)} \/ pc'[q] = pc[q]
  BY <1>2, ProcFacts
<1>5. \A j \in Service : j # i => /\ pc'[Handler(j)] = pc[Handler(j)]
                                  /\ pc'[Forwarder(j)] = pc[Forwarder(j)]
  BY <1>4, ProcFacts, SMT
<1>6. \A n \in 1..Len(fromClient) : fromClient[n].svc \in Service
  <2>1. \A n \in 1..Len(fromClient) : fromClient[n] \in FromClient
    BY SMT DEF TypeInv, TypeOK, ConnOK
  <2> QED BY <2>1 DEF FromClient
<1>7. OpenFresh'
  <2>1. \A j \in Service : pc[Handler(j)] = "off" => pc'[Handler(j)] = "off"
    BY <1>2, <1>5
  <2> QED BY <1>1, <1>6, <2>1, SMT DEF OpenFresh
<1>8. ForwarderFresh'
  BY <1>1, <1>3, <1>4, <1>5, EarlyLabels DEF ForwarderFresh
<1>9. StartedOnce' <=> OpenFresh' /\ ForwarderFresh'
  BY DEF StartedOnce, OpenFresh, ForwarderFresh, Early
<1> QED BY <1>2, <1>3, <1>4, <1>7, <1>8, <1>9

(* The peer names a fresh stream in each OPEN.                             *)
LEMMA StartedPeer ==
    ASSUME TypeInv, StartedOnce, PeerStep
    PROVE  StartedOnce'
<1>1. OpenFresh /\ ForwarderFresh /\ pc' = pc
  BY StartedParts DEF PeerStep, PeerOpen, PeerWrite, PeerClose, PeerSend, PeerRecv, PeerGone
<1>2. fromClient \in Seq(FromClient) /\ peer \in [Service ->
        {"idle", "opening", "open", "closing", "closed"}]
  BY DEF TypeInv, TypeOK, ConnOK, PeerOK
<1>3. \A n \in 1..Len(fromClient) : fromClient[n].svc \in Service
  <2>1. \A n \in 1..Len(fromClient) : fromClient[n] \in FromClient
    BY <1>2, SMT
  <2> QED BY <2>1 DEF FromClient
<1>4. StartedOnce' <=> OpenFresh' /\ ForwarderFresh'
  BY DEF StartedOnce, OpenFresh, ForwarderFresh, Early
<1>5. ASSUME \A i \in Service : peer'[i] = "idle" => peer[i] = "idle",
             \/ fromClient' = fromClient
             \/ \E c \in {"OKAY", "WRTE", "CLSE"}, j \in Service :
                  fromClient' = Append(fromClient, [cmd |-> c, svc |-> j])
      PROVE  StartedOnce'
  <2>1. ForwarderFresh'
    BY <1>1, <1>5 DEF ForwarderFresh
  <2>2. OpenFresh'
    <3>1. CASE fromClient' = fromClient
      BY <1>1, <1>3, <1>5, <3>1, SMT DEF OpenFresh
    <3>2. ASSUME NEW c \in {"OKAY", "WRTE", "CLSE"}, NEW j \in Service,
                 fromClient' = Append(fromClient, [cmd |-> c, svc |-> j])
          PROVE  OpenFresh'
      <4>1. /\ Len(fromClient') = Len(fromClient) + 1 /\ Len(fromClient) \in Nat
            /\ \A n \in 1..Len(fromClient) : fromClient'[n] = fromClient[n]
            /\ fromClient'[Len(fromClient) + 1].cmd # "OPEN"
        BY <1>2, <3>2, SMT
      <4>2. \A n \in 1..Len(fromClient') : fromClient'[n].cmd = "OPEN" =>
              n \in 1..Len(fromClient)
        BY <4>1, SMT
      <4> QED BY <1>1, <1>3, <1>5, <4>1, <4>2, SMT DEF OpenFresh
    <3> QED BY <1>5, <3>1, <3>2
  <2> QED BY <1>4, <2>1, <2>2
<1>6. ASSUME NEW i \in Service, PeerOpen(i) PROVE StartedOnce'
  <2>1. /\ peer[i] = "idle" /\ peer' = [peer EXCEPT ![i] = "opening"]
        /\ fromClient' = Append(fromClient, [cmd |-> "OPEN", svc |-> i])
    BY <1>6 DEF PeerOpen, PeerSend
  <2>2. ForwarderFresh'
    BY <1>1, <1>2, <2>1 DEF ForwarderFresh
  <2>3. /\ Len(fromClient') = Len(fromClient) + 1 /\ Len(fromClient) \in Nat
        /\ \A n \in 1..Len(fromClient) : fromClient'[n] = fromClient[n]
        /\ fromClient'[Len(fromClient) + 1] = [cmd |-> "OPEN", svc |-> i]
    BY <1>2, <2>1, SMT
  <2>4. \A n \in 1..Len(fromClient) : fromClient[n].cmd = "OPEN" => fromClient[n].svc # i
    BY <1>1, <2>1 DEF OpenFresh
  <2>5. pc[Handler(i)] = "off" /\ peer'[i] # "idle"
    BY <1>1, <1>2, <2>1 DEF ForwarderFresh
  <2>6. \A j \in Service : peer[j] # "idle" => peer'[j] # "idle"
    BY <1>2, <2>1
  <2>7. OpenFresh'
    <3> SUFFICES ASSUME NEW n \in 1..Len(fromClient'), fromClient'[n].cmd = "OPEN"
                 PROVE  /\ peer'[fromClient'[n].svc] # "idle"
                        /\ pc'[Handler(fromClient'[n].svc)] = "off"
                        /\ \A m \in 1..Len(fromClient') : fromClient'[m] = fromClient'[n] => m = n
      BY DEF OpenFresh
    <3>1. CASE n = Len(fromClient) + 1
      BY <1>1, <2>3, <2>4, <2>5, <3>1, SMT
    <3>2. CASE n \in 1..Len(fromClient)
      BY <1>1, <1>3, <2>3, <2>4, <2>6, <3>2, SMT DEF OpenFresh
    <3> QED BY <2>3, <3>1, <3>2, SMT
  <2> QED BY <1>4, <2>2, <2>7
<1>7. ASSUME NEW i \in Service, PeerWrite(i) \/ PeerClose(i) PROVE StartedOnce'
  BY <1>2, <1>5, <1>7 DEF PeerWrite, PeerClose, PeerSend
<1>8. CASE PeerRecv
  <2>1. Head(toClient).svc \in Service
    <3>1. Head(toClient) \in ToClient
      BY <1>8, SMT DEF PeerRecv, TypeInv, TypeOK, ConnOK
    <3> QED BY <3>1 DEF ToClient
  <2>2. \A i \in Service : peer'[i] = "idle" => peer[i] = "idle"
    BY <1>2, <1>8, <2>1 DEF PeerRecv
  <2>3. \/ fromClient' = fromClient
        \/ fromClient' = Append(fromClient, [cmd |-> "OKAY", svc |-> Head(toClient).svc])
    BY <1>8 DEF PeerRecv
  <2> QED BY <1>5, <2>1, <2>2, <2>3
<1>9. CASE PeerGone
  BY <1>5, <1>9 DEF PeerGone, peerVars
<1> QED BY <1>6, <1>7, <1>8, <1>9 DEF PeerStep

-----------------------------------------------------------------------------
(* The inductive invariant.                                                *)

DoneMeansExit == \A i \in Service : doneCh[i] => pc[Forwarder(i)] = "exit"
MuHeld == \A p \in Proc : \A i \in Service : mu[i] = p <=> HoldsMu(p) /\ Target(p) = i
WriteMuHeld == \A p \in Proc : writeMu = p <=> HoldsWriteMu(p)
HolderLive == \A p \in Proc : HoldsMu(p) => ~ended[Target(p)]
MutexInv == MuHeld /\ WriteMuHeld /\ HolderLive /\ DoneMeansExit

LockInv == TypeInv /\ StartedOnce /\ MutexInv

(* The holder of a service's mutex works on a service; handlers and        *)
(* forwarders always work on their own.                                    *)
LEMMA TargetFacts ==
    /\ \A p \in Proc : HoldsMu(p) /\ TypeInv => Target(p) \in Service
    /\ \A i \in Service : Target(Handler(i)) = i /\ Target(Forwarder(i)) = i
    /\ \A p \in Proc : p \notin Enders => Target(p)' = Target(p)
    /\ \A p \in Enders : Target(p) = tgt[p] /\ Target(p)' = tgt'[p]
<1>1. \A i \in Service : Target(Handler(i)) = i /\ Target(Forwarder(i)) = i
  BY ProcFacts DEF Target
<1>2. MuLabels \subseteq TargetLabels \cup {"pushWrite", "pushSend", "pushSet"}
  BY DEF MuLabels, TargetLabels, EndLabels
<1>3. {"pushWrite", "pushSend", "pushSet"} \cap (ReaderLabels \cup CloserLabels) = {}
  BY DEF ReaderLabels, CloserLabels, EndLabels, SocketEndLabels
<1>4. ASSUME NEW p \in Enders, HoldsMu(p), TypeInv PROVE Target(p) \in Service
  BY <1>2, <1>3, <1>4, ProcFacts, LabelFacts
  DEF HoldsMu, TypeInv, TypeOK, PcOK, TargetKnown, Target
<1> QED BY <1>1, <1>4, ProcFacts, SMT DEF Target

(* A step of one goroutine keeps the mutexes sound.                        *)
LEMMA MutexShape ==
    ASSUME TypeInv, MutexInv, NEW p \in Proc, Shape(p)
    PROVE  MutexInv'
<1>t. /\ mu \in [Service -> Proc \cup {Free}] /\ ended \in [Service -> BOOLEAN]
      /\ doneCh \in [Service -> BOOLEAN]
  BY DEF TypeInv, TypeOK, FieldsOK
<1>1. \A q \in Proc : q # p => /\ HoldsMu(q)' <=> HoldsMu(q)
                               /\ HoldsWriteMu(q)' <=> HoldsWriteMu(q)
                               /\ Target(q)' = Target(q)
  BY TargetFacts DEF Shape, HoldsMu, HoldsWriteMu
<1>2. HoldsMu(p) \/ HoldsMu(p)' => Target(p)' = Target(p)
  BY TargetFacts DEF Shape
<1>3. HoldsMu(p) => Target(p) \in Service /\ mu[Target(p)] = p
  BY TargetFacts DEF MutexInv, MuHeld
<1>4. MuHeld' /\ HolderLive'
  <2>1. CASE mu' = mu /\ (HoldsMu(p)' <=> HoldsMu(p))
    <3>1. MuHeld'
      BY <1>1, <1>2, <2>1 DEF MutexInv, MuHeld
    <3>2. ended' = ended
      BY <2>1 DEF Shape, EndedEffect
    <3> QED BY <1>1, <1>2, <2>1, <3>1, <3>2 DEF MutexInv, HolderLive
  <2>2. CASE /\ ~HoldsMu(p) /\ HoldsMu(p)' /\ mu[Target(p)] = Free /\ ~ended[Target(p)]
             /\ mu' = [mu EXCEPT ![Target(p)] = p]
    <3>1. MuHeld'
      BY <1>t, <1>1, <1>2, <2>2, ProcFacts, SMT DEF MutexInv, MuHeld
    <3>2. ended' = ended
      BY <2>2 DEF Shape, EndedEffect
    <3> QED BY <1>1, <1>2, <2>2, <3>1, <3>2 DEF MutexInv, HolderLive
  <2>3. CASE HoldsMu(p) /\ ~HoldsMu(p)' /\ mu' = [mu EXCEPT ![Target(p)] = Free]
    <3>1. MuHeld'
      BY <1>t, <1>1, <1>2, <1>3, <2>3, ProcFacts, SMT DEF MutexInv, MuHeld
    <3>2. \A q \in Proc : q # p /\ HoldsMu(q) => Target(q) # Target(p)
      BY <1>3, <2>3 DEF MutexInv, MuHeld
    <3>3. \A q \in Proc : q # p /\ HoldsMu(q) => ended'[Target(q)] = ended[Target(q)]
      BY <1>t, <1>3, <2>3, <3>2, TargetFacts DEF Shape, EndedEffect
    <3> QED BY <1>1, <2>3, <3>1, <3>3 DEF MutexInv, HolderLive
  <2> QED BY <2>1, <2>2, <2>3 DEF Shape, MuEffect
<1>5. WriteMuHeld'
  <2>1. /\ \A q \in Proc : writeMu = q <=> HoldsWriteMu(q)
        /\ Free \notin Proc
    BY ProcFacts DEF MutexInv, WriteMuHeld
  <2>2. CASE writeMu' = writeMu /\ (HoldsWriteMu(p)' <=> HoldsWriteMu(p))
    BY <1>1, <2>1, <2>2 DEF WriteMuHeld
  <2>3. CASE ~HoldsWriteMu(p) /\ HoldsWriteMu(p)' /\ writeMu = Free /\ writeMu' = p
    BY <1>1, <2>1, <2>3 DEF WriteMuHeld
  <2>4. CASE HoldsWriteMu(p) /\ ~HoldsWriteMu(p)' /\ writeMu' = Free
    BY <1>1, <2>1, <2>4 DEF WriteMuHeld
  <2> QED BY <2>2, <2>3, <2>4 DEF Shape, WriteMuEffect
<1>6. DoneMeansExit'
  <2>1. \A i \in Service : pc[Forwarder(i)] = "exit" => pc'[Forwarder(i)] = "exit"
    BY ProcFacts DEF Shape
  <2> QED BY <1>t, <2>1 DEF Shape, DoneEffect, MutexInv, DoneMeansExit
<1> QED BY <1>4, <1>5, <1>6 DEF MutexInv

(* So does a step that starts goroutines, or none of the bridge's.         *)
LEMMA MutexQuiet ==
    ASSUME TypeInv, MutexInv, UNCHANGED <<mu, writeMu, tgt, ended, doneCh>>,
           \A q \in Proc : \/ pc'[q] = pc[q]
                           \/ /\ pc[q] \notin MuLabels \cup WriteMuLabels \cup {"exit"}
                              /\ pc'[q] \notin MuLabels \cup WriteMuLabels
    PROVE  MutexInv'
<1>1. \A q \in Proc : /\ HoldsMu(q)' <=> HoldsMu(q)
                      /\ HoldsWriteMu(q)' <=> HoldsWriteMu(q)
                      /\ Target(q)' = Target(q)
  BY TargetFacts DEF HoldsMu, HoldsWriteMu
<1>2. DoneMeansExit'
  BY ProcFacts DEF MutexInv, DoneMeansExit
<1> QED BY <1>1, <1>2, SMT DEF MutexInv, MuHeld, WriteMuHeld, HolderLive

(* The invariant holds initially.                                          *)
LEMMA LockInit ==
    ASSUME Init
    PROVE  LockInv
<1>1. TypeInv
  BY TypeInit
<1>2. \A p \in Proc : pc[p] \in {"read", "idle", "off"}
  BY DEF Init, SocketInit
<1>3. \A p \in Proc : ~HoldsMu(p) /\ ~HoldsWriteMu(p)
  BY <1>2 DEF HoldsMu, HoldsWriteMu, MuLabels, WriteMuLabels
<1>4. MutexInv
  BY <1>3, ProcFacts DEF Init, SocketInit, ServiceInit, MutexInv, MuHeld, WriteMuHeld,
     HolderLive, DoneMeansExit
<1>5. fromClient = <<>> /\ \A i \in Service : pc[Handler(i)] = "off" /\ pc[Forwarder(i)] = "off"
  BY ProcFacts DEF Init, SocketInit, Enders
<1>6. StartedOnce
  BY <1>5, StartedParts, SMT DEF OpenFresh, ForwarderFresh
<1> QED BY <1>1, <1>4, <1>6 DEF LockInv

(* Every step keeps the invariant.                                         *)
LEMMA LockNext ==
    ASSUME LockInv, [Next]_vars
    PROVE  LockInv'
<1>0. TypeInv /\ StartedOnce /\ MutexInv /\ TypeInv'
  BY TypeNext DEF LockInv
<1>1. CASE BridgeStep
  <2>1. UNCHANGED peer
    BY <1>1 DEF BridgeStep, peerVars
  <2>2. ASSUME NEW p \in Proc, Shape(p) PROVE LockInv'
    BY <1>0, <1>1, <2>1, <2>2, Consumes, StartedShape, MutexShape DEF LockInv
  <2>3. CASE HandleOpen /\ UNCHANGED serviceVars
    <3>1. StartedOnce'
      BY <1>0, <2>1, <2>3, StartedHandleOpen
    <3>2. UNCHANGED <<mu, writeMu, tgt, ended, doneCh>>
      BY <2>3 DEF HandleOpen, serviceVars
    <3>3. {"off", "dial", "dispatch", "read"} \cap (MuLabels \cup WriteMuLabels \cup {"exit"}) = {}
      BY DEF MuLabels, WriteMuLabels
    <3>4. MutexInv'
      BY <1>0, <2>1, <2>3, <3>2, <3>3, StartedHandleOpen, MutexQuiet
    <3> QED BY <1>0, <3>1, <3>4 DEF LockInv
  <2>4. ASSUME NEW i \in Service, SetOpened(i) PROVE LockInv'
    <3>1. StartedOnce'
      BY <1>0, <2>1, <2>4, StartedSetOpened
    <3>2. UNCHANGED <<mu, writeMu, tgt, ended, doneCh>>
      BY <2>4 DEF SetOpened, connVars
    <3>3. {"off", "loop", "setOpened", "wait"} \cap (MuLabels \cup WriteMuLabels \cup {"exit"}) = {}
      BY DEF MuLabels, WriteMuLabels
    <3>4. MutexInv'
      BY <1>0, <2>1, <2>4, <3>2, <3>3, StartedSetOpened, MutexQuiet
    <3> QED BY <1>0, <3>1, <3>4 DEF LockInv
  <2>5. ASSUME NEW i \in Service, NilTransport(i) PROVE LockInv'
    <3>1. UNCHANGED <<pc, fromClient, mu, writeMu, tgt, ended, doneCh>>
      BY <2>5 DEF NilTransport, socketVars, connVars
    <3> QED BY <1>0, <2>1, <3>1, MutexQuiet, SMT DEF LockInv, StartedOnce
  <2>6. CASE ReaderStep /\ ~HandleOpen
    BY <1>0, <2>2, <2>6, ReaderShape, ProcFacts
  <2>7. CASE EndStep(Closer)
    BY <1>0, <2>2, <2>7, SocketEndShape, ProcFacts
  <2>8. ASSUME NEW i \in Service, HandlerStep(i), ~SetOpened(i), ~NilTransport(i) PROVE LockInv'
    BY <1>0, <2>2, <2>8, HandlerShape, ProcFacts
  <2>9. ASSUME NEW i \in Service, ForwarderStep(i) PROVE LockInv'
    BY <1>0, <2>2, <2>9, ForwarderShape, ProcFacts
  <2>10. ReaderStep /\ HandleOpen => UNCHANGED serviceVars
    <3> SUFFICES ASSUME ReaderStep, HandleOpen PROVE UNCHANGED serviceVars
      OBVIOUS
    <3>1. pc[Reader] = "dispatch"
      BY DEF HandleOpen
    <3> QED BY <3>1 DEF ReaderStep, HandleOkay, HandleWrite, DeviceWrite, AckWrite, AckSend,
        AckDone, HandleClose, EndStep, End, EndLock, EndWrite, EndSend, EndSet, WriteLock, WriteConn
  <2> QED BY <1>1, <2>3, <2>4, <2>5, <2>6, <2>7, <2>8, <2>9, <2>10 DEF BridgeStep
<1>2. CASE CallServerClose
  <2>1. /\ Goto(Closer, "sockEnd") /\ pc[Closer] = "idle"
        /\ UNCHANGED <<mu, writeMu, tgt, ended, doneCh, fromClient, peer>>
    BY <1>2 DEF CallServerClose, ServerClose, connVars, serviceVars, peerVars
  <2>2. "sockEnd" \in LabelsOf(Closer)
    BY LabelFacts DEF CloserLabels, SocketEndLabels
  <2>3. {"idle", "sockEnd"} \cap (MuLabels \cup WriteMuLabels \cup {"exit", "off"}) = {}
    BY DEF MuLabels, WriteMuLabels
  <2>4. Shape(Closer)
    BY <1>0, <2>1, <2>2, <2>3, ProcFacts, QuietShape
  <2> QED BY <1>0, <2>1, <2>4, StartedShape, MutexShape, ProcFacts DEF LockInv
<1>3. CASE PeerStep
  <2>1. UNCHANGED <<pc, mu, writeMu, tgt, ended, doneCh>>
    BY <1>3 DEF PeerStep, PeerOpen, PeerWrite, PeerClose, PeerSend, PeerRecv, PeerGone,
       serviceVars
  <2> QED BY <1>0, <1>3, <2>1, StartedPeer, MutexQuiet DEF LockInv
<1>4. ASSUME NEW i \in Service, DeviceEOF(i) PROVE LockInv'
  <2>1. UNCHANGED <<pc, mu, writeMu, tgt, ended, doneCh, fromClient, peer>>
    BY <1>4 DEF DeviceEOF, socketVars, connVars, peerVars
  <2> QED BY <1>0, <2>1, MutexQuiet, SMT DEF LockInv, StartedOnce
<1>5. CASE UNCHANGED vars
  <2>1. UNCHANGED <<pc, mu, writeMu, tgt, ended, doneCh, fromClient, peer>>
    BY <1>5 DEF vars, socketVars, connVars, serviceVars, peerVars
  <2> QED BY <1>0, <2>1, MutexQuiet, SMT DEF LockInv, StartedOnce
<1> QED BY <1>1, <1>2, <1>3, <1>4, <1>5 DEF Next

(* Locking is sound: for any number of services, at most one goroutine is  *)
(* in a critical section of a Service.mu or of Socket.writeMu, and it is   *)
(* the one that holds the mutex.                                           *)
THEOREM LocksSound == Spec => []LockDiscipline
<1>1. LockInv => LockDiscipline
  BY DEF LockInv, TypeInv, MutexInv, MuHeld, WriteMuHeld, LockDiscipline
<1> QED BY <1>1, LockInit, LockNext, PTL DEF Spec

(* No handler or forwarder goroutine is started twice.                     *)
THEOREM NoDoubleStart == Spec => []StartedOnce
<1>1. LockInv => StartedOnce
  BY DEF LockInv
<1> QED BY <1>1, LockInit, LockNext, PTL DEF Spec

(* Service.End takes effect once and closes endCh once, and the forwarder  *)
(* closes doneCh once, however many goroutines call End.                   *)
THEOREM NoDoubleClose == Spec => []ChannelsClosedOnce
<1>1. LockInv => ChannelsClosedOnce
  BY DEF LockInv, MutexInv, HolderLive, DoneMeansExit, ChannelsClosedOnce
<1> QED BY <1>1, LockInit, LockNext, PTL DEF Spec

-----------------------------------------------------------------------------
(* The transports and the map.                                             *)
(*                                                                         *)
(* TransportInv is the inductive invariant: a connection to the device     *)
(* that the field Service.transport does not hold is open only while the   *)
(* handler is about to adopt it, and a goroutine inside Service.End has    *)
(* closed the one it found.  That the handler cannot adopt a transport     *)
(* between the two is the exclusion of LockDiscipline.                     *)

EndHold == {"endWrite", "endSend", "endSet"}
Ending(p, i) == pc[p] \in EndHold /\ Target(p) = i
Quiet(i) == dev[i] \in {"none", "closed"} \/ pc[Handler(i)] = "adopt"

TransportInv ==
    \A i \in Service :
      /\ pc[Handler(i)] \in {"off", "dial"} => ~transport[i] /\ dev[i] = "none"
      /\ ~transport[i] => Quiet(i)
      /\ ended[i] => ~transport[i]
      /\ \A p \in Proc : Ending(p, i) => Quiet(i)
      /\ pc[Handler(i)] = "exit" => ended[i]

(* Inside End a goroutine holds Service.mu.                                *)
LEMMA EndHoldLabels ==
    /\ EndHold \subseteq MuLabels /\ EndHold \subseteq EndLabels
    /\ EndHold \cap {"off", "dial", "adopt", "exit", "endLock"} = {}
BY DEF EndHold, MuLabels, EndLabels

(* A step that leaves transports alone and moves no handler into or out of *)
(* the states the invariant names.                                         *)
LEMMA TransportQuiet ==
    ASSUME TransportInv, UNCHANGED <<transport, dev, ended>>,
           \A q \in Proc : \/ pc'[q] \notin EndHold
                           \/ pc[q] \in EndHold /\ Target(q)' = Target(q),
           \A i \in Service :
             \/ pc'[Handler(i)] = pc[Handler(i)]
             \/ pc[Handler(i)] = "off" /\ pc'[Handler(i)] = "dial"
             \/ /\ pc[Handler(i)] \notin {"off", "dial", "adopt"}
                /\ pc'[Handler(i)] \notin {"off", "dial", "exit"}
    PROVE  TransportInv'
<1>1. \A i \in Service : Quiet(i) => Quiet(i)'
  BY DEF Quiet
<1>2. \A i \in Service, q \in Proc : Ending(q, i)' => Ending(q, i)
  BY DEF Ending
<1> QED BY <1>1, <1>2 DEF TransportInv

(* The step of a goroutine other than a handler, outside End.              *)
LEMMA TransportOther ==
    ASSUME TypeInv, TransportInv, NEW p \in Proc, Shape(p), UNCHANGED <<transport, dev, ended>>,
           pc'[p] \notin EndHold,
           \A i \in Service : p = Handler(i) => /\ pc[p] \notin {"off", "dial", "adopt"}
                                                /\ pc'[p] \notin {"off", "dial", "exit"}
    PROVE  TransportInv'
<1>1. \A q \in Proc : q # p => pc'[q] = pc[q] /\ Target(q)' = Target(q)
  BY TargetFacts DEF Shape
<1>2. \A i \in Service : \/ pc'[Handler(i)] = pc[Handler(i)]
                         \/ /\ pc[Handler(i)] \notin {"off", "dial", "adopt"}
                            /\ pc'[Handler(i)] \notin {"off", "dial", "exit"}
  BY <1>1, ProcFacts
<1> QED BY <1>1, <1>2, TransportQuiet

(* End closes the transport it finds, before it lets go of mu.             *)
LEMMA TransportEnd ==
    ASSUME LockInv, TransportInv, NEW p \in Proc, End(p)
    PROVE  TransportInv'
<1>0. TypeInv /\ MuHeld /\ HolderLive /\ Shape(p)
  BY EndShape DEF LockInv, MutexInv
<1>t. /\ transport \in [Service -> BOOLEAN] /\ ended \in [Service -> BOOLEAN]
      /\ dev \in [Service -> {"none", "open", "eof", "closed"}]
  BY <1>0 DEF TypeInv, TypeOK, FieldsOK
<1>1. pc[p] \in EndLabels /\ Target(p) \in Service
  <2>1. pc[p] \in EndLabels
    BY DEF End, EndLock, EndWrite, EndSend, EndSet, WriteLock, WriteConn, EndLabels
  <2>2. EndLabels \subseteq TargetLabels
    BY DEF EndLabels, TargetLabels
  <2>3. CASE p \in Enders
    BY <1>0, <2>1, <2>2, <2>3 DEF TypeInv, TargetKnown, Target
  <2>4. CASE p \notin Enders
    <3>1. PICK j \in Service : p = Handler(j) \/ p = Forwarder(j)
      BY <2>4, ProcFacts
    <3>2. Handler(j)[2] = j /\ Forwarder(j)[2] = j
      BY ProcFacts
    <3>3. Target(p) = p[2]
      BY <2>4 DEF Target
    <3>4. p[2] = j
      BY <3>1, <3>2
    <3> QED BY <2>1, <3>3, <3>4
  <2> QED BY <2>3, <2>4
<1>i. PICK i \in Service : i = Target(p)
  BY <1>1
<1>2. \A q \in Proc : q # p => pc'[q] = pc[q] /\ Target(q)' = Target(q)
  BY <1>0, TargetFacts DEF Shape
<1>3. /\ UNCHANGED tgt /\ Target(p)' = Target(p)
      /\ pc'[p] \in EndHold \cup {AfterEnd(p)}
  <2>1. \E l \in EndHold \cup {AfterEnd(p)} : Goto(p, l)
    BY DEF End, EndLock, EndWrite, EndSend, EndSet, WriteLock, WriteConn, EndHold
  <2>2. UNCHANGED tgt
    BY DEF End, EndLock, EndWrite, EndSend, EndSet, WriteLock, WriteConn, connVars
  <2>3. EndHold \cup {AfterEnd(p)} \subseteq LabelsOf(p)
    BY <1>0, <1>1, LabelFacts, EndHoldLabels DEF TypeInv, MapLocked
  <2>4. pc'[p] \in EndHold \cup {AfterEnd(p)}
    BY <1>0, <2>1, <2>3, Move DEF TypeInv, TypeOK
  <2> QED BY <2>2, <2>4 DEF Target
<1>4. AfterEnd(p) \in {"exit", "closeDone", "mapNext", "read"}
  BY DEF AfterEnd
<1>5. \A j \in Service : p = Handler(j) =>
        j = i /\ pc[p] \notin {"off", "dial", "adopt", "exit"} /\ pc'[p] \notin {"off", "dial", "adopt"}
  <2>1. {"off", "dial", "adopt", "exit"} \cap EndLabels = {} /\ EndHold \cap {"off", "dial", "adopt"} = {}
    BY DEF EndLabels, EndHold
  <2> QED BY <1>i, <1>1, <1>3, <1>4, <2>1, TargetFacts
<1>6. {"exit", "closeDone", "mapNext", "read"} \cap EndHold = {}
  BY DEF EndHold
<1>7. \A j \in Service : Quiet(j)' <=> dev'[j] \in {"none", "closed"} \/ pc[Handler(j)] = "adopt"
  BY <1>2, <1>5, ProcFacts DEF Quiet
<1>h. \A j \in Service : /\ pc'[Handler(j)] \in {"off", "dial"} => pc[Handler(j)] \in {"off", "dial"}
                         /\ pc'[Handler(j)] = "exit" => pc[Handler(j)] = "exit" \/ j = i
  BY <1>2, <1>5, ProcFacts
<1>8. CASE EndLock(p) /\ ended[i]
  <2>1. Goto(p, AfterEnd(p)) /\ UNCHANGED <<transport, dev, ended>>
    BY <1>i, <1>8 DEF EndLock
  <2>2. pc'[p] \notin EndHold
    <3>1. AfterEnd(p) \in LabelsOf(p)
      BY <1>0, <1>1, LabelFacts DEF TypeInv, MapLocked
    <3>2. pc'[p] = AfterEnd(p)
      BY <1>0, <2>1, <3>1, Move DEF TypeInv, TypeOK
    <3> QED BY <1>4, <1>6, <3>2
  <2>3. \A j \in Service, q \in Proc : Ending(q, j)' => Ending(q, j)
    BY <1>2, <2>2 DEF Ending
  <2>4. \A j \in Service : Quiet(j) => Quiet(j)'
    BY <1>7, <2>1 DEF Quiet
  <2>5. \A j \in Service : pc'[Handler(j)] = "exit" => ended'[j]
    BY <1>8, <1>h, <2>1 DEF TransportInv
  <2> QED BY <1>h, <2>1, <2>3, <2>4, <2>5 DEF TransportInv
<1>9. CASE EndLock(p) /\ ~ended[i]
  <2>1. /\ UNCHANGED <<transport, ended>>
        /\ dev' = IF transport[i] THEN [dev EXCEPT ![i] = "closed"] ELSE dev
    BY <1>i, <1>9 DEF EndLock
  <2>2. pc'[p] # "exit"
    <3>1. Goto(p, "endWrite") /\ "endWrite" \in LabelsOf(p)
      BY <1>i, <1>9, LabelFacts DEF EndLock, EndLabels
    <3> QED BY <1>0, <3>1, Move DEF TypeInv, TypeOK
  <2>a. ASSUME transport[i]
        PROVE  Quiet(i)' /\ \A j \in Service : j # i => dev'[j] = dev[j]
    <3>1. dev'[i] = "closed" /\ \A j \in Service : j # i => dev'[j] = dev[j]
      BY <1>t, <1>1, <2>1, <2>a
    <3> QED BY <1>1, <1>7, <3>1
  <2>b. ASSUME ~transport[i]
        PROVE  Quiet(i)' /\ dev' = dev
    BY <1>1, <1>7, <2>1, <2>b DEF TransportInv, Quiet
  <2>3. \A j \in Service : j # i => dev'[j] = dev[j]
    BY <2>a, <2>b
  <2>4. Quiet(i)'
    BY <2>a, <2>b
  <2>5. \A j \in Service : Quiet(j) => Quiet(j)'
    BY <1>7, <2>3, <2>4 DEF Quiet
  <2>6. \A j \in Service, q \in Proc : Ending(q, j)' => j = i \/ Ending(q, j)
    BY <1>i, <1>2, <1>3 DEF Ending
  <2>7. \A j \in Service : pc'[Handler(j)] = "exit" => pc[Handler(j)] = "exit"
    BY <1>2, <2>2, ProcFacts
  <2>8. \A j \in Service : pc[Handler(j)] \in {"off", "dial"} => dev'[j] = dev[j]
    BY <1>1, <2>b, <2>3 DEF TransportInv
  <2> QED BY <1>h, <2>1, <2>4, <2>5, <2>6, <2>7, <2>8 DEF TransportInv
<1>10. CASE EndWrite(p) \/ EndSend(p)
  <2>1. UNCHANGED <<transport, dev, ended>> /\ pc[p] \in EndHold
    BY <1>10 DEF EndWrite, EndSend, WriteLock, WriteConn, serviceVars, EndHold
  <2>2. pc'[p] # "exit"
    <3>1. \E l \in EndHold : Goto(p, l)
      BY <1>10 DEF EndWrite, EndSend, WriteLock, WriteConn, EndHold
    <3> QED BY <1>0, <3>1, LabelFacts, EndHoldLabels, Move DEF TypeInv, TypeOK
  <2>3. \A j \in Service, q \in Proc : Ending(q, j)' => Ending(q, j)
    BY <1>2, <1>3, <2>1 DEF Ending
  <2>4. \A j \in Service : pc'[Handler(j)] = "exit" => pc[Handler(j)] = "exit"
    BY <1>2, <2>2, ProcFacts
  <2> QED BY <1>7, <1>h, <2>1, <2>3, <2>4 DEF TransportInv, Quiet
<1>11. CASE EndSet(p)
  <2>1. /\ transport' = [transport EXCEPT ![i] = FALSE] /\ ended' = [ended EXCEPT ![i] = TRUE]
        /\ UNCHANGED dev /\ pc[p] = "endSet" /\ Goto(p, AfterEnd(p))
    BY <1>i, <1>11 DEF EndSet
  <2>2. Quiet(i) /\ pc[p] \in EndHold
    BY <1>i, <1>1, <2>1 DEF TransportInv, Ending, EndHold
  <2>3. \A j \in Service : j # i => transport'[j] = transport[j] /\ ended'[j] = ended[j]
    BY <1>t, <2>1
  <2>4. ~transport'[i] /\ ended'[i]
    BY <1>t, <1>1, <2>1
  <2>5. \A j \in Service, q \in Proc : Ending(q, j)' => Ending(q, j)
    BY <1>2, <1>3, <2>2 DEF Ending
  <2>6. \A j \in Service : Quiet(j) => Quiet(j)'
    BY <1>7, <2>1 DEF Quiet
  <2>7. \A j \in Service : pc'[Handler(j)] = "exit" => ended'[j]
    BY <1>h, <2>3, <2>4 DEF TransportInv
  <2>8. \A j \in Service : ~transport'[j] => Quiet(j)'
    BY <2>2, <2>3, <2>6 DEF TransportInv
  <2>9. \A j \in Service : transport'[j] => transport[j]
    BY <2>3, <2>4
  <2>10. \A j \in Service : ended'[j] => ~transport'[j]
    BY <2>3, <2>4 DEF TransportInv
  <2> QED BY <1>h, <2>1, <2>5, <2>6, <2>7, <2>8, <2>9, <2>10 DEF TransportInv
<1> QED BY <1>8, <1>9, <1>10, <1>11 DEF End

(* The handler adopts a transport only while the service has not ended.    *)
LEMMA TransportHandler ==
    ASSUME LockInv, TransportInv, NEW i \in Service, HandlerStep(i), UNCHANGED peer
    PROVE  TransportInv'
<1> DEFINE h == Handler(i)
<1>0. /\ TypeInv /\ StartedOnce /\ MuHeld /\ h \in Proc /\ h \notin Enders
      /\ LabelsOf(h) = HandlerLabels
  BY ProcFacts, LabelFacts DEF LockInv, MutexInv
<1>t. /\ transport \in [Service -> BOOLEAN] /\ ended \in [Service -> BOOLEAN]
      /\ dev \in [Service -> {"none", "open", "eof", "closed"}]
      /\ mu \in [Service -> Proc \cup {Free}]
  BY <1>0 DEF TypeInv, TypeOK, FieldsOK
<1>l. /\ {"adopt", "remove", "name", "reply", "await", "fail", "okWrite", "okSend",
          "setOpened", "endLock"} \subseteq HandlerLabels
      /\ {"adopt", "remove", "name", "reply", "await", "fail", "okWrite", "okSend",
          "setOpened", "endLock", "wait", "loop"} \cap EndHold = {}
  BY DEF HandlerLabels, EndLabels, EndHold
<1>m. ASSUME NEW l \in HandlerLabels, Goto(h, l), UNCHANGED tgt
      PROVE  /\ pc'[h] = l /\ \A q \in Proc : q # h => pc'[q] = pc[q]
             /\ \A q \in Proc : Target(q)' = Target(q)
             /\ \A j \in Service : j # i => pc'[Handler(j)] = pc[Handler(j)]
  BY <1>0, <1>m, Move, ProcFacts, TargetFacts, SMT DEF TypeInv, TypeOK
<1>1. CASE Dial(i)
  <2>1. UNCHANGED <<tgt, transport, ended>> /\ pc[h] = "dial"
        /\ \A j \in Service : j # i => dev'[j] = dev[j]
    BY <1>t, <1>1 DEF Dial, connVars
  <2>2. \/ Goto(h, "adopt")
        \/ Goto(h, "remove") /\ dev' = dev
    BY <1>1 DEF Dial
  <2>3. /\ pc'[h] \in {"adopt", "remove"}
        /\ \A q \in Proc : q # h => pc'[q] = pc[q] /\ Target(q)' = Target(q)
        /\ \A j \in Service : j # i => pc'[Handler(j)] = pc[Handler(j)]
    BY <1>l, <1>m, <2>1, <2>2
  <2>4. \A j \in Service, q \in Proc : Ending(q, j)' => Ending(q, j)
    BY <1>l, <2>3 DEF Ending
  <2>6. Quiet(i)'
    <3>1. CASE Goto(h, "adopt")
      <4>1. pc'[h] = "adopt"
        BY <1>l, <1>m, <2>1, <3>1
      <4> QED BY <4>1 DEF Quiet
    <3>2. CASE dev' = dev
      BY <2>1, <3>2 DEF TransportInv, Quiet
    <3> QED BY <2>2, <3>1, <3>2
  <2>7. \A j \in Service : j # i => (Quiet(j)' <=> Quiet(j))
    BY <2>1, <2>3 DEF Quiet
  <2> QED BY <2>1, <2>3, <2>4, <2>6, <2>7 DEF TransportInv
<1>2. CASE AdoptTransport(i)
  <2>1. UNCHANGED <<tgt, ended>> /\ pc[h] = "adopt" /\ mu[i] = Free
    BY <1>2 DEF AdoptTransport, connVars
  <2>2. \A q \in Proc : ~Ending(q, i)
    BY <1>0, <2>1, ProcFacts, EndHoldLabels, SMT DEF Ending, MuHeld, HoldsMu
  <2>3. \/ /\ ended[i] /\ Goto(h, "remove") /\ dev' = [dev EXCEPT ![i] = "closed"]
           /\ UNCHANGED transport
        \/ /\ ~ended[i] /\ Goto(h, "name") /\ transport' = [transport EXCEPT ![i] = TRUE]
           /\ UNCHANGED dev
    BY <1>2 DEF AdoptTransport
  <2>4. /\ pc'[h] \in {"name", "remove"}
        /\ \A q \in Proc : q # h => pc'[q] = pc[q] /\ Target(q)' = Target(q)
        /\ \A j \in Service : j # i => pc'[Handler(j)] = pc[Handler(j)]
    BY <1>l, <1>m, <2>1, <2>3
  <2>5. \A j \in Service : j # i => dev'[j] = dev[j] /\ transport'[j] = transport[j]
    BY <1>t, <2>3
  <2>6. (transport'[i] /\ ~ended[i]) \/ (dev'[i] = "closed" /\ ~transport'[i])
    <3>1. ended[i] => ~transport[i]
      BY DEF TransportInv
    <3>2. CASE ended[i]
      <4>1. dev'[i] = "closed" /\ transport'[i] = transport[i]
        BY <1>t, <2>3, <3>2
      <4> QED BY <3>1, <3>2, <4>1
    <3>3. CASE ~ended[i]
      <4>1. transport'[i]
        BY <1>t, <2>3, <3>3
      <4> QED BY <3>3, <4>1
    <3> QED BY <3>2, <3>3
  <2>7. \A j \in Service, q \in Proc : Ending(q, j)' => Ending(q, j) /\ j # i
    BY <1>l, <2>2, <2>4, ProcFacts, SMT DEF Ending
  <2>8. \A j \in Service : j # i => (Quiet(j)' <=> Quiet(j))
    BY <2>4, <2>5 DEF Quiet
  <2>9. dev'[i] = "closed" => Quiet(i)'
    BY DEF Quiet
  <2> QED BY <2>1, <2>4, <2>5, <2>6, <2>7, <2>8, <2>9 DEF TransportInv
<1>3. CASE SendName(i) \/ ReadReply(i) \/ Reply(i) \/ ReadFail(i) \/ Wait(i) \/ Remove(i)
             \/ OkayWrite(i) \/ OkaySend(i)
  <2>1. UNCHANGED <<tgt, transport, dev, ended>>
    BY <1>3 DEF SendName, ReadReply, Reply, ReadFail, Wait, Remove, MapRemove, OkayWrite,
       OkaySend, WriteLock, WriteConn, connVars, serviceVars
  <2>2. pc[h] \in {"name", "reply", "await", "fail", "wait", "remove", "okWrite", "okSend"}
    BY <1>3 DEF SendName, ReadReply, Reply, ReadFail, Wait, Remove, MapRemove, OkayWrite,
       OkaySend, WriteLock, WriteConn
  <2>3. \E l \in {"reply", "await", "fail", "remove", "endLock", "okWrite", "okSend", "setOpened"} :
          Goto(h, l)
    BY <1>3 DEF SendName, ReadReply, Reply, ReadFail, Wait, Remove, MapRemove, OkayWrite,
       OkaySend, WriteLock, WriteConn
  <2>4. /\ pc'[h] \in {"reply", "await", "fail", "remove", "endLock", "okWrite", "okSend", "setOpened"}
        /\ \A q \in Proc : q # h => pc'[q] = pc[q] /\ Target(q)' = Target(q)
        /\ \A j \in Service : j # i => pc'[Handler(j)] = pc[Handler(j)]
    BY <1>l, <1>m, <2>1, <2>3
  <2>5. \A q \in Proc : \/ pc'[q] \notin EndHold
                        \/ pc[q] \in EndHold /\ Target(q)' = Target(q)
    BY <1>l, <2>4
  <2>6. \A j \in Service : \/ pc'[Handler(j)] = pc[Handler(j)]
                           \/ /\ pc[Handler(j)] \notin {"off", "dial", "adopt"}
                              /\ pc'[Handler(j)] \notin {"off", "dial", "exit"}
    BY <2>2, <2>4
  <2> QED BY <2>1, <2>5, <2>6, TransportQuiet
<1>4. CASE NilTransport(i)
  <2>1. UNCHANGED <<pc, tgt, transport, dev, ended>>
    BY <1>4 DEF NilTransport, socketVars, connVars
  <2>2. \A q \in Proc : Target(q)' = Target(q)
    BY <2>1 DEF Target
  <2> QED BY <2>1, <2>2, TransportQuiet
<1>5. CASE SetOpened(i)
  <2>1. UNCHANGED <<tgt, transport, dev, ended>>
    BY <1>5 DEF SetOpened, connVars
  <2>2. /\ pc[h] = "setOpened" /\ pc'[h] = "wait" /\ pc'[Forwarder(i)] = "loop"
        /\ \A q \in Proc : q \in {h, Forwarder(i)} \/ pc'[q] = pc[q]
    BY <1>0, <1>5, StartedSetOpened
  <2>3. \A q \in Proc : Target(q)' = Target(q)
    BY <2>1 DEF Target
  <2>4. \A q \in Proc : \/ pc'[q] \notin EndHold
                        \/ pc[q] \in EndHold /\ Target(q)' = Target(q)
    BY <1>l, <2>2, <2>3
  <2>5. \A j \in Service : \/ pc'[Handler(j)] = pc[Handler(j)]
                           \/ /\ pc[Handler(j)] \notin {"off", "dial", "adopt"}
                              /\ pc'[Handler(j)] \notin {"off", "dial", "exit"}
    BY <2>2, ProcFacts, SMT
  <2> QED BY <2>1, <2>4, <2>5, TransportQuiet
<1>6. CASE End(h)
  BY <1>0, <1>6, TransportEnd
<1> QED BY <1>1, <1>2, <1>3, <1>4, <1>5, <1>6 DEF HandlerStep

(* Where Reader goes on to, outside HandleOpen and Socket.End.             *)
ReaderMoveLabels ==
    {"read", "dispatch", "premature", "OPEN", "OKAY", "WRTE", "CLSE", "devWrite",
     "ackWrite", "ackSend", "ackDone", "sockEnd", "endLock"}

LEMMA ReaderMoves ==
    ASSUME TypeInv, ReaderStep, ~HandleOpen, ~EndStep(Reader)
    PROVE  UNCHANGED pc \/ \E l \in ReaderMoveLabels : Goto(Reader, l)
<1>1. /\ ReadPacket => UNCHANGED pc \/ Goto(Reader, "dispatch")
      /\ ReadError \/ ReturnPremature => Goto(Reader, "sockEnd")
      /\ HandleOkay \/ HandleWrite \/ DeviceWrite \/ AckDone \/ HandleClose =>
           \E l \in {"read", "premature", "devWrite", "ackWrite", "sockEnd", "endLock"} :
             Goto(Reader, l)
      /\ AckWrite \/ AckSend => \E l \in {"ackSend", "ackDone"} : Goto(Reader, l)
      /\ ForwardServicePacket =>
           Goto(Reader, "read") \/ Goto(Reader, Head(fromClient).cmd)
  BY DEF ReadPacket, ReadError, ForwardServicePacket, ReturnPremature, HandleOkay,
     HandleWrite, DeviceWrite, AckWrite, AckSend, AckDone, HandleClose, WriteLock, WriteConn
<1>2. ForwardServicePacket => Head(fromClient).cmd \in {"OPEN", "OKAY", "WRTE", "CLSE"}
  <2>1. ForwardServicePacket => Head(fromClient) \in FromClient
    BY SMT DEF ForwardServicePacket, TypeInv, TargetKnown, TypeOK, ConnOK
  <2> QED BY <2>1 DEF FromClient
<1> QED BY <1>1, <1>2 DEF ReaderStep, ReaderMoveLabels

(* Every step keeps the invariant.                                         *)
LEMMA TransportNext ==
    ASSUME LockInv, TransportInv, [Next]_vars
    PROVE  TransportInv'
<1>0. TypeInv /\ StartedOnce
  BY DEF LockInv
<1>p. Reader \in Proc /\ Closer \in Proc
      /\ \A i \in Service : Reader # Handler(i) /\ Closer # Handler(i)
  BY ProcFacts
<1>e. ASSUME NEW p \in Enders, EndStep(p) PROVE TransportInv'
  <2>1. CASE End(p)
    BY <1>e, <2>1, TransportEnd, ProcFacts
  <2>2. CASE /\ SocketEnd(p) \/ MapEndLock(p) \/ MapEndNext(p) \/ MapEndUnlock(p) \/ ConnClose(p)
             /\ UNCHANGED serviceVars
    <3>1. \E l \in {"mapLock", "mapNext", "endLock", "connClose", "done"} : Goto(p, l)
      BY <2>2 DEF SocketEnd, MapEndLock, MapEndNext, MapEndUnlock, ConnClose
    <3>2. pc'[p] \notin EndHold
      <4>1. pc'[p] \in {"mapLock", "mapNext", "endLock", "connClose", "done"}
        BY <1>0, <1>p, <3>1, ProcFacts, SMT DEF Goto, TypeInv, TypeOK, PcOK
      <4> QED BY <4>1 DEF EndHold
    <3>3. UNCHANGED <<transport, dev, ended>>
      BY <2>2 DEF serviceVars
    <3> QED BY <1>0, <1>e, <1>p, <3>2, <3>3, SocketEndShape, TransportOther, ProcFacts
  <2> QED BY <1>e, <2>1, <2>2 DEF EndStep
<1>1. CASE BridgeStep
  <2>0. UNCHANGED peer
    BY <1>1 DEF BridgeStep, peerVars
  <2>1. CASE HandleOpen /\ UNCHANGED serviceVars
    <3>1. UNCHANGED <<transport, dev, ended, tgt>>
      BY <2>1 DEF HandleOpen, serviceVars
    <3>2. PICK i \in Service :
            /\ pc[Handler(i)] = "off" /\ pc'[Handler(i)] = "dial"
            /\ pc[Reader] = "dispatch" /\ pc'[Reader] = "read"
            /\ \A q \in Proc : q \in {Reader, Handler(i)} \/ pc'[q] = pc[q]
      BY <1>0, <2>0, <2>1, StartedHandleOpen
    <3>3. \A q \in Proc : Target(q)' = Target(q)
      BY <3>1 DEF Target
    <3>4. "dial" \notin EndHold /\ "read" \notin EndHold
      BY DEF EndHold
    <3>5. \A j \in Service : \/ pc'[Handler(j)] = pc[Handler(j)]
                             \/ pc[Handler(j)] = "off" /\ pc'[Handler(j)] = "dial"
      BY <1>p, <3>2, ProcFacts
    <3>6. \A q \in Proc : \/ pc'[q] \notin EndHold
                          \/ pc[q] \in EndHold /\ Target(q)' = Target(q)
      BY <3>2, <3>3, <3>4
    <3> QED BY <3>1, <3>5, <3>6, TransportQuiet
  <2>2. CASE ReaderStep /\ ~HandleOpen
    <3>1. CASE EndStep(Reader)
      BY <1>e, <3>1, ProcFacts
    <3>2. CASE ~EndStep(Reader)
      <4>1. UNCHANGED <<transport, dev, ended>>
        BY <2>2, <3>2 DEF ReaderStep, HandleOkay, HandleWrite, DeviceWrite, AckWrite, AckSend,
           AckDone, HandleClose, serviceVars
      <4>2. pc[Reader] \in {"read", "dispatch", "premature", "OKAY", "WRTE", "CLSE", "devWrite",
                            "ackWrite", "ackSend", "ackDone"}
        BY <2>2, <3>2 DEF ReaderStep, ReadPacket, ReadError, ForwardServicePacket,
           ReturnPremature, HandleOkay, HandleWrite, DeviceWrite, AckWrite, AckSend, AckDone,
           HandleClose, WriteLock, WriteConn
      <4>5. \/ UNCHANGED pc
            \/ \E l \in ReaderMoveLabels : Goto(Reader, l)
        BY <1>0, <2>2, <3>2, ReaderMoves
      <4>6. pc'[Reader] \in {"read", "dispatch", "premature", "OPEN", "OKAY", "WRTE", "CLSE",
              "devWrite", "ackWrite", "ackSend", "ackDone", "sockEnd", "endLock"}
        BY <1>0, <1>p, <4>2, <4>5 DEF Goto, TypeInv, TypeOK, PcOK, ReaderMoveLabels
      <4>7. pc'[Reader] \notin EndHold
        BY <4>6 DEF EndHold
      <4> QED BY <1>0, <1>p, <2>2, <4>1, <4>7, ReaderShape, TransportOther
    <3> QED BY <3>1, <3>2
  <2>3. CASE EndStep(Closer)
    BY <1>e, <2>3, ProcFacts
  <2>4. ASSUME NEW i \in Service, HandlerStep(i) PROVE TransportInv'
    BY <2>0, <2>4, TransportHandler
  <2>5. ASSUME NEW i \in Service, ForwarderStep(i) PROVE TransportInv'
    <3>1. CASE End(Forwarder(i))
      BY <3>1, TransportEnd, ProcFacts
    <3>2. CASE ~End(Forwarder(i))
      <4>1. UNCHANGED <<transport, dev, ended>>
        BY <2>5, <3>2 DEF ForwarderStep, ForwardCheck, ForwardNap, ForwardRead, ForwardPush,
           PushWrite, PushSend, PushSet, CloseDone, serviceVars
      <4>2. \E l \in {"loop", "nap", "devRead", "push", "pushWrite", "pushSend", "pushSet", "exit",
                      "endLock"} : Goto(Forwarder(i), l)
        BY <2>5, <3>2 DEF ForwarderStep, ForwardCheck, ForwardNap, ForwardRead, ForwardPush,
           PushWrite, PushSend, PushSet, CloseDone, WriteLock, WriteConn
      <4>3. pc'[Forwarder(i)] \in {"loop", "nap", "devRead", "push", "pushWrite", "pushSend",
              "pushSet", "exit", "endLock"}
        BY <1>0, <4>2, ProcFacts DEF Goto, TypeInv, TypeOK, PcOK
      <4>4. pc'[Forwarder(i)] \notin EndHold
        BY <4>3 DEF EndHold
      <4> QED BY <1>0, <2>5, <4>1, <4>4, ForwarderShape, TransportOther, ProcFacts, SMT
    <3> QED BY <3>1, <3>2
  <2>6. ReaderStep /\ HandleOpen => UNCHANGED serviceVars
    <3> SUFFICES ASSUME ReaderStep, HandleOpen PROVE UNCHANGED serviceVars
      OBVIOUS
    <3>1. pc[Reader] = "dispatch"
      BY DEF HandleOpen
    <3> QED BY <3>1 DEF ReaderStep, HandleOkay, HandleWrite, DeviceWrite, AckWrite, AckSend,
        AckDone, HandleClose, EndStep, End, EndLock, EndWrite, EndSend, EndSet, WriteLock, WriteConn
  <2> QED BY <1>1, <2>1, <2>2, <2>3, <2>4, <2>5, <2>6 DEF BridgeStep
<1>2. CASE CallServerClose
  <2>1. /\ Goto(Closer, "sockEnd") /\ UNCHANGED <<transport, dev, ended, tgt>>
    BY <1>2 DEF CallServerClose, ServerClose, connVars, serviceVars
  <2>2. pc'[Closer] = "sockEnd" /\ \A q \in Proc : q # Closer => pc'[q] = pc[q]
    BY <1>0, <1>p, <2>1 DEF Goto, TypeInv, TypeOK, PcOK
  <2>3. \A q \in Proc : Target(q)' = Target(q)
    BY <2>1 DEF Target
  <2>4. "sockEnd" \notin EndHold
    BY DEF EndHold
  <2> QED BY <1>p, <2>1, <2>2, <2>3, <2>4, TransportQuiet, ProcFacts, SMT
<1>3. CASE PeerStep \/ UNCHANGED vars
  <2>1. UNCHANGED <<pc, tgt, transport, dev, ended>>
    BY <1>3 DEF PeerStep, PeerOpen, PeerWrite, PeerClose, PeerSend, PeerRecv, PeerGone,
       serviceVars, vars, socketVars, connVars
  <2>2. \A q \in Proc : Target(q)' = Target(q)
    BY <2>1 DEF Target
  <2> QED BY <2>1, <2>2, TransportQuiet
<1>4. ASSUME NEW i \in Service, DeviceEOF(i) PROVE TransportInv'
  <2>1. /\ UNCHANGED <<pc, tgt, transport, ended>> /\ dev[i] = "open"
        /\ dev' = [dev EXCEPT ![i] = "eof"]
    BY <1>4 DEF DeviceEOF, socketVars, connVars
  <2>2. dev'[i] = "eof" /\ \A j \in Service : j # i => dev'[j] = dev[j]
    BY <1>0, <2>1 DEF TypeInv, TypeOK, FieldsOK
  <2>3. \A j \in Service : Quiet(j) => Quiet(j)'
    BY <2>1, <2>2 DEF Quiet
  <2>4. \A j \in Service, q \in Proc : Ending(q, j)' => Ending(q, j)
    BY <2>1 DEF Ending, Target
  <2> QED BY <2>1, <2>2, <2>3, <2>4 DEF TransportInv
<1> QED BY <1>1, <1>2, <1>3, <1>4 DEF Next

(* No transport leaks: an ended service has dropped its transport, and     *)
(* once its handler has exited the connection to the device is closed,     *)
(* whoever ended the service and however late the dial returned.           *)
THEOREM NoTransportLeak == Spec => []TransportReleased
<1>1. Init => LockInv /\ TransportInv
  <2> SUFFICES ASSUME Init PROVE LockInv /\ TransportInv
    OBVIOUS
  <2>1. \A p \in Proc : pc[p] \in {"read", "idle", "off"}
    BY DEF Init, SocketInit
  <2>2. \A p \in Proc : pc[p] \notin EndHold /\ pc[p] # "exit"
    BY <2>1 DEF EndHold
  <2>3. \A i \in Service : ~transport[i] /\ dev[i] = "none" /\ ~ended[i]
    BY DEF Init, ServiceInit
  <2> QED BY <2>2, <2>3, LockInit, ProcFacts DEF TransportInv, Quiet, Ending
<1>2. LockInv /\ TransportInv /\ [Next]_vars => (LockInv /\ TransportInv)'
  BY LockNext, TransportNext
<1>3. LockInv /\ TransportInv => TransportReleased
  BY DEF TransportInv, TransportReleased, Quiet
<1> QED BY <1>1, <1>2, <1>3, PTL DEF Spec

-----------------------------------------------------------------------------
(* The map of services.  While the connection has not ended nobody runs    *)
(* ServiceMap.End, so only HandleOpen and the deferred function of a       *)
(* handler change the map, and each moves the handler with it.             *)

Dead == {"off", "exit"} \cup EndLabels
MapLabels == {"mapLock", "mapNext", "connClose"}

MapInv ==
    ~sockEnded => /\ \A i \in Service : i \in services <=> pc[Handler(i)] \notin Dead
                  /\ smMu = Free
                  /\ \A p \in Enders : pc[p] \notin MapLabels

(* A step that leaves the map alone and moves no handler in or out of it.  *)
LEMMA MapQuiet ==
    ASSUME MapInv, UNCHANGED <<sockEnded, services, smMu>>,
           \A i \in Service : pc'[Handler(i)] \in Dead <=> pc[Handler(i)] \in Dead,
           \A p \in Enders : pc'[p] = pc[p] \/ pc'[p] \notin MapLabels
    PROVE  MapInv'
BY DEF MapInv

(* A goroutine other than a handler moves, not into Socket.End.            *)
LEMMA MapMove ==
    ASSUME TypeInv, MapInv, NEW p \in Enders \cup Forwarders, NEW l, Goto(p, l),
           p \in Enders => l \notin MapLabels, UNCHANGED <<sockEnded, services, smMu>>
    PROVE  MapInv'
<1>1. p \in Proc /\ \A i \in Service : Handler(i) \in Proc /\ Handler(i) # p
  BY ProcFacts, SMT DEF Forwarders, Proc
<1>2. pc'[p] = l /\ \A q \in Proc : q # p => pc'[q] = pc[q]
  BY <1>1 DEF Goto, TypeInv, TypeOK, PcOK
<1>3. \A i \in Service : pc'[Handler(i)] = pc[Handler(i)]
  BY <1>1, <1>2
<1>4. \A q \in Enders : pc'[q] = pc[q] \/ pc'[q] \notin MapLabels
  BY <1>2, ProcFacts
<1> QED BY <1>3, <1>4, MapQuiet

(* A handler moves, and stays in the map or out of it.                     *)
LEMMA MapHandlerMove ==
    ASSUME TypeInv, MapInv, NEW i \in Service, NEW l, Goto(Handler(i), l),
           pc[Handler(i)] \in Dead <=> l \in Dead, UNCHANGED <<sockEnded, services, smMu>>
    PROVE  MapInv'
<1>1. pc'[Handler(i)] = l /\ \A q \in Proc : q # Handler(i) => pc'[q] = pc[q]
  BY ProcFacts DEF Goto, TypeInv, TypeOK, PcOK
<1>2. \A j \in Service : pc'[Handler(j)] \in Dead <=> pc[Handler(j)] \in Dead
  BY <1>1, ProcFacts
<1>3. \A q \in Enders : pc'[q] = pc[q]
  BY <1>1, ProcFacts
<1> QED BY <1>2, <1>3, MapQuiet

(* Service.End, called by anyone.                                          *)
LEMMA MapEnd ==
    ASSUME TypeInv, MapInv, NEW p \in Proc, End(p)
    PROVE  MapInv'
<1>1. UNCHANGED <<sockEnded, services, smMu>> /\ pc[p] \in EndLabels
  BY DEF End, EndLock, EndWrite, EndSend, EndSet, WriteLock, WriteConn, connVars, EndLabels
<1>2. PICK l \in EndHold \cup {AfterEnd(p)} : Goto(p, l)
  BY DEF End, EndLock, EndWrite, EndSend, EndSet, WriteLock, WriteConn, EndHold
<1>3. CASE sockEnded
  BY <1>1, <1>3 DEF MapInv
<1>4. CASE ~sockEnded /\ p \in Enders \cup Forwarders
  <2>1. p \in Enders => AfterEnd(p) = "read"
    <3>1. p \in Enders => p \notin Handlers /\ p \notin Forwarders /\ p # Free
      BY ProcFacts, SMT DEF Handlers, Forwarders, Free
    <3> QED BY <1>4, <3>1 DEF AfterEnd, MapInv
  <2>2. EndHold \cap MapLabels = {} /\ "read" \notin MapLabels
    BY DEF EndHold, MapLabels
  <2> QED BY <1>1, <1>2, <1>4, <2>1, <2>2, MapMove
<1>5. ASSUME NEW i \in Service, p = Handler(i) PROVE MapInv'
  <2>1. AfterEnd(p) = "exit"
    BY <1>5, ProcFacts DEF AfterEnd
  <2>2. pc[p] \in Dead /\ EndHold \subseteq Dead /\ "exit" \in Dead
    BY <1>1, EndHoldLabels DEF Dead
  <2> QED BY <1>1, <1>2, <1>5, <2>1, <2>2, MapHandlerMove
<1> QED BY <1>3, <1>4, <1>5 DEF Proc, Handlers

(* The handler takes its service out of the map as it starts to end it.    *)
LEMMA MapHandler ==
    ASSUME TypeInv, MapInv, NEW i \in Service, HandlerStep(i)
    PROVE  MapInv'
<1> DEFINE h == Handler(i)
           Live == {"adopt", "remove", "name", "reply", "await", "fail", "okWrite", "okSend",
                    "setOpened", "wait", "dial"}
<1>l. Live \cap Dead = {} /\ "endLock" \in Dead
  BY DEF Dead, EndLabels
<1>1. CASE \/ Dial(i) \/ AdoptTransport(i) \/ SendName(i) \/ ReadReply(i) \/ Reply(i)
           \/ ReadFail(i) \/ OkayWrite(i) \/ OkaySend(i) \/ Wait(i)
  <2>1. UNCHANGED <<sockEnded, services, smMu>>
    BY <1>1 DEF Dial, AdoptTransport, SendName, ReadReply, Reply, ReadFail, Wait, OkayWrite,
       OkaySend, WriteLock, WriteConn, connVars
  <2>2. pc[h] \in Live
    BY <1>1 DEF Dial, AdoptTransport, SendName, ReadReply, Reply, ReadFail, Wait, OkayWrite,
       OkaySend, WriteLock, WriteConn
  <2>3. \E l \in Live : Goto(h, l)
    BY <1>1 DEF Dial, AdoptTransport, SendName, ReadReply, Reply, ReadFail, Wait, OkayWrite,
       OkaySend, WriteLock, WriteConn
  <2> QED BY <1>l, <2>1, <2>2, <2>3, MapHandlerMove
<1>2. CASE NilTransport(i)
  <2>1. UNCHANGED <<pc, sockEnded, services, smMu>>
    BY <1>2 DEF NilTransport, socketVars, connVars
  <2> QED BY <2>1, MapQuiet
<1>3. CASE SetOpened(i)
  <2>1. UNCHANGED <<sockEnded, services, smMu>> /\ pc[h] = "setOpened"
        /\ pc' = [pc EXCEPT ![h] = "wait", ![Forwarder(i)] = "loop"]
    BY <1>3 DEF SetOpened, connVars
  <2>2. /\ pc'[h] = "wait"
        /\ \A q \in Proc : q \in {h, Forwarder(i)} \/ pc'[q] = pc[q]
    BY <2>1, ProcFacts, SMT DEF TypeInv, TypeOK, PcOK
  <2>3. \A j \in Service : pc'[Handler(j)] \in Dead <=> pc[Handler(j)] \in Dead
    <3>1. \A j \in Service : j # i => pc'[Handler(j)] = pc[Handler(j)]
      BY <2>2, ProcFacts, SMT
    <3> QED BY <1>l, <2>1, <2>2, <3>1
  <2>4. \A q \in Enders : pc'[q] = pc[q]
    BY <2>2, ProcFacts, SMT
  <2> QED BY <2>1, <2>3, <2>4, MapQuiet
<1>4. CASE Remove(i)
  <2>1. UNCHANGED <<sockEnded, smMu>> /\ services' = services \ {i} /\ Goto(h, "endLock")
    BY <1>4 DEF Remove, MapRemove
  <2>2. pc'[h] = "endLock" /\ \A q \in Proc : q # h => pc'[q] = pc[q]
    BY <2>1, ProcFacts DEF Goto, TypeInv, TypeOK, PcOK
  <2>3. \A j \in Service : j # i => pc'[Handler(j)] = pc[Handler(j)]
    BY <2>2, ProcFacts
  <2>4. \A q \in Enders : pc'[q] = pc[q]
    BY <2>2, ProcFacts, SMT
  <2> QED BY <1>l, <2>1, <2>2, <2>3, <2>4 DEF MapInv
<1>5. CASE End(h)
  BY <1>5, MapEnd, ProcFacts
<1> QED BY <1>1, <1>2, <1>3, <1>4, <1>5 DEF HandlerStep

(* Every step keeps the map as it should be.                               *)
LEMMA MapNext ==
    ASSUME TypeInv, MapInv, [Next]_vars
    PROVE  MapInv'
<1>e. ASSUME NEW p \in Enders, EndStep(p) PROVE MapInv'
  <2>1. CASE End(p)
    BY <2>1, MapEnd, ProcFacts
  <2>2. CASE SocketEnd(p)
    BY <2>2 DEF SocketEnd, MapInv
  <2>3. CASE MapEndLock(p) \/ MapEndNext(p) \/ MapEndUnlock(p) \/ ConnClose(p)
    <3>1. pc[p] \in MapLabels /\ UNCHANGED sockEnded
      BY <2>3 DEF MapEndLock, MapEndNext, MapEndUnlock, ConnClose, MapLabels
    <3> QED BY <3>1 DEF MapInv
  <2> QED BY <1>e, <2>1, <2>2, <2>3 DEF EndStep
<1>1. CASE BridgeStep
  <2>1. CASE HandleOpen
    <3> DEFINE i == Head(fromClient).svc
    <3>1. /\ services' = services \cup {i} /\ UNCHANGED <<sockEnded, smMu>>
          /\ pc' = [pc EXCEPT ![Reader] = "read", ![Handler(i)] = "dial"]
      BY <2>1 DEF HandleOpen
    <3>2. i \in Service
      <4>1. Head(fromClient) \in FromClient
        BY <2>1, SMT DEF HandleOpen, TypeInv, TargetKnown, TypeOK, ConnOK
      <4> QED BY <4>1 DEF FromClient
    <3> HIDE DEF i
    <3>3. /\ pc'[Handler(i)] = "dial" /\ pc'[Reader] = "read"
          /\ \A q \in Proc : q \in {Reader, Handler(i)} \/ pc'[q] = pc[q]
      BY <3>1, <3>2, ProcFacts, SMT DEF TypeInv, TypeOK, PcOK
    <3>4. \A j \in Service : j # i => pc'[Handler(j)] = pc[Handler(j)]
      <4>1. \A j \in Service : j # i => Handler(j) \in Proc /\ Handler(j) \notin {Reader, Handler(i)}
        BY <3>2, ProcFacts
      <4> QED BY <3>3, <4>1
    <3>5. pc'[Closer] = pc[Closer]
      BY <3>2, <3>3, ProcFacts
    <3>6. "dial" \notin Dead /\ "read" \notin MapLabels
      BY DEF Dead, EndLabels, MapLabels
    <3>7. \A p \in Enders : pc[p] \notin MapLabels => pc'[p] \notin MapLabels
      BY <3>3, <3>5, <3>6, SMT DEF Enders
    <3>8. \A j \in Service : j # i => (j \in services' <=> j \in services)
      BY <3>1
    <3> QED BY <3>1, <3>2, <3>3, <3>4, <3>6, <3>7, <3>8 DEF MapInv
  <2>2. CASE ReaderStep /\ ~HandleOpen /\ ~EndStep(Reader)
    <3>1. UNCHANGED <<sockEnded, services, smMu>>
      BY <2>2 DEF ReaderStep, ReadPacket, ReadError, ForwardServicePacket, ReturnPremature,
         HandleOkay, HandleWrite, DeviceWrite, AckWrite, AckSend, AckDone, HandleClose,
         WriteLock, WriteConn, connVars
    <3>2. ReaderMoveLabels \cap MapLabels = {}
      BY DEF ReaderMoveLabels, MapLabels
    <3>3. UNCHANGED pc \/ \E l \in ReaderMoveLabels : Goto(Reader, l)
      BY <2>2, ReaderMoves
    <3>4. CASE UNCHANGED pc
      BY <3>1, <3>4, MapQuiet
    <3>5. CASE \E l \in ReaderMoveLabels : Goto(Reader, l)
      BY <3>1, <3>2, <3>5, MapMove, ProcFacts
    <3> QED BY <3>3, <3>4, <3>5
  <2>3. ASSUME NEW i \in Service, ForwarderStep(i) PROVE MapInv'
    <3>1. CASE End(Forwarder(i))
      BY <3>1, MapEnd, ProcFacts
    <3>2. CASE ~End(Forwarder(i))
      <4>1. UNCHANGED <<sockEnded, services, smMu>>
        BY <2>3, <3>2 DEF ForwarderStep, ForwardCheck, ForwardNap, ForwardRead, ForwardPush,
           PushWrite, PushSend, PushSet, CloseDone, WriteLock, WriteConn, connVars
      <4>2. \E l : Goto(Forwarder(i), l)
        BY <2>3, <3>2 DEF ForwarderStep, ForwardCheck, ForwardNap, ForwardRead, ForwardPush,
           PushWrite, PushSend, PushSet, CloseDone, WriteLock, WriteConn
      <4>3. Forwarder(i) \in Forwarders /\ Forwarder(i) \notin Enders
        BY ProcFacts
      <4> QED BY <4>1, <4>2, <4>3, MapMove
    <3> QED BY <3>1, <3>2
  <2> QED BY <1>1, <1>e, <2>1, <2>2, <2>3, MapHandler, ProcFacts DEF BridgeStep
<1>2. CASE CallServerClose
  <2>1. Goto(Closer, "sockEnd") /\ UNCHANGED <<sockEnded, services, smMu>>
    BY <1>2 DEF CallServerClose, ServerClose, connVars
  <2>2. "sockEnd" \notin MapLabels
    BY DEF MapLabels
  <2> QED BY <2>1, <2>2, MapMove, ProcFacts
<1>3. CASE PeerStep \/ (\E i \in Service : DeviceEOF(i)) \/ UNCHANGED vars
  <2>1. UNCHANGED <<pc, sockEnded, services, smMu>>
    BY <1>3 DEF PeerStep, PeerOpen, PeerWrite, PeerClose, PeerSend, PeerRecv, PeerGone,
       DeviceEOF, vars, socketVars, connVars
  <2> QED BY <2>1, MapQuiet
<1> QED BY <1>1, <1>2, <1>3 DEF Next

(* The map starts empty.                                                   *)
LEMMA MapInit ==
    ASSUME Init
    PROVE  MapInv
<1>1. /\ services = {} /\ smMu = Free
      /\ \A i \in Service : pc[Handler(i)] = "off"
      /\ pc[Reader] = "read" /\ pc[Closer] = "idle"
  BY ProcFacts DEF Init, SocketInit
<1>2. "off" \in Dead /\ {"read", "idle"} \cap MapLabels = {}
  BY DEF Dead, MapLabels
<1> QED BY <1>1, <1>2, ProcFacts DEF MapInv

(* Until the connection ends, ServiceMap holds exactly the services whose  *)
(* handler is running, so a packet for a live service always finds it, and *)
(* one for a service that is ending finds nothing.                         *)
THEOREM MapExact == Spec => []MapTracksHandlers
<1>1. Init => TypeInv /\ MapInv
  BY MapInit, TypeInit
<1>2. TypeInv /\ MapInv /\ [Next]_vars => (TypeInv /\ MapInv)'
  BY TypeNext, MapNext
<1>3. MapInv => MapTracksHandlers
  BY DEF MapInv, MapTracksHandlers, Dead
<1> QED BY <1>1, <1>2, <1>3, PTL DEF Spec

-----------------------------------------------------------------------------
(* Packets of service i in a sequence of packets.                          *)

Is(k, i, cmd) == k.svc = i /\ k.cmd = cmd
In(s, i, cmd) == \E n \in 1..Len(s) : Is(s[n], i, cmd)
AtMostOne(s, i, cmd) ==
    \A m, n \in 1..Len(s) : Is(s[m], i, cmd) /\ Is(s[n], i, cmd) => m = n
Carries(s, i, d) == \A n \in 1..Len(s) : Is(s[n], i, "WRTE") => s[n].data = d
CloseLast(s, i) ==
    \A n \in 1..Len(s) : Is(s[n], i, "CLSE") =>
      \A m \in 1..Len(s) : s[m].svc = i => m <= n
NoneOf(s, i) == \A n \in 1..Len(s) : s[n].svc # i
OkayFirst(s, i) ==
    \A n \in 1..Len(s) : Is(s[n], i, "WRTE") =>
      \E m \in 1..Len(s) : Is(s[m], i, "OKAY") /\ m < n

(* What a packet written at the end of a sequence does to them.            *)
LEMMA AppendFacts ==
    ASSUME NEW S, NEW s \in Seq(S), NEW k \in S, NEW i
    PROVE  /\ \A cmd : In(Append(s, k), i, cmd) <=> In(s, i, cmd) \/ Is(k, i, cmd)
           /\ \A cmd : AtMostOne(s, i, cmd) /\ (Is(k, i, cmd) => ~In(s, i, cmd))
                         => AtMostOne(Append(s, k), i, cmd)
           /\ \A d : Carries(s, i, d) /\ (Is(k, i, "WRTE") => k.data = d)
                       => Carries(Append(s, k), i, d)
           /\ CloseLast(s, i) /\ (k.svc = i => ~In(s, i, "CLSE")) => CloseLast(Append(s, k), i)
           /\ NoneOf(s, i) /\ k.svc # i => NoneOf(Append(s, k), i)
           /\ OkayFirst(s, i) /\ (Is(k, i, "WRTE") => In(s, i, "OKAY"))
                => OkayFirst(Append(s, k), i)
<1> DEFINE t == Append(s, k)
<1>1. /\ Len(t) = Len(s) + 1 /\ Len(s) \in Nat /\ t[Len(s) + 1] = k
      /\ \A n \in 1..Len(s) : t[n] = s[n] /\ n \in 1..Len(t) /\ n < Len(s) + 1
      /\ \A n \in 1..Len(t) : n \in 1..Len(s) \/ n = Len(s) + 1
      /\ Len(s) + 1 \in 1..Len(t)
      /\ \A n \in 1..Len(t) : n <= Len(s) + 1
  BY SMT
<1> HIDE DEF t
<1>2. \A cmd : In(t, i, cmd) <=> In(s, i, cmd) \/ Is(k, i, cmd)
  BY <1>1 DEF In
<1>3. \A cmd : AtMostOne(s, i, cmd) /\ (Is(k, i, cmd) => ~In(s, i, cmd)) => AtMostOne(t, i, cmd)
  BY <1>1 DEF AtMostOne, In
<1>4. \A d : Carries(s, i, d) /\ (Is(k, i, "WRTE") => k.data = d) => Carries(t, i, d)
  BY <1>1 DEF Carries
<1>5. CloseLast(s, i) /\ (k.svc = i => ~In(s, i, "CLSE")) => CloseLast(t, i)
  BY <1>1 DEF CloseLast, In, Is
<1>6. NoneOf(s, i) /\ k.svc # i => NoneOf(t, i)
  BY <1>1 DEF NoneOf
<1>7. OkayFirst(s, i) /\ (Is(k, i, "WRTE") => In(s, i, "OKAY")) => OkayFirst(t, i)
  BY <1>1 DEF OkayFirst, In
<1> QED BY <1>2, <1>3, <1>4, <1>5, <1>6, <1>7 DEF t

(* What taking the first packet does to them.                              *)
LEMMA TailFacts ==
    ASSUME NEW S, NEW s \in Seq(S), s # <<>>, NEW i
    PROVE  /\ \A cmd : In(s, i, cmd) <=> In(Tail(s), i, cmd) \/ Is(Head(s), i, cmd)
           /\ \A cmd : AtMostOne(s, i, cmd) =>
                /\ AtMostOne(Tail(s), i, cmd)
                /\ Is(Head(s), i, cmd) => ~In(Tail(s), i, cmd)
           /\ \A d : Carries(s, i, d) => /\ Carries(Tail(s), i, d)
                                         /\ Is(Head(s), i, "WRTE") => Head(s).data = d
           /\ CloseLast(s, i) => /\ CloseLast(Tail(s), i)
                                 /\ Is(Head(s), i, "CLSE") => NoneOf(Tail(s), i)
           /\ NoneOf(s, i) => NoneOf(Tail(s), i) /\ Head(s).svc # i
           /\ OkayFirst(s, i) /\ ~Is(Head(s), i, "OKAY") => OkayFirst(Tail(s), i)
<1> DEFINE t == Tail(s)
<1>1. /\ Len(s) \in Nat /\ Len(t) = Len(s) - 1 /\ 1 \in 1..Len(s) /\ s[1] = Head(s)
      /\ \A n \in 1..Len(t) : t[n] = s[n + 1] /\ n + 1 \in 1..Len(s) /\ n + 1 # 1
      /\ \A n \in 1..Len(s) : n = 1 \/ (n - 1 \in 1..Len(t) /\ t[n - 1] = s[n])
      /\ \A m, n \in 1..Len(t) : (m + 1 = n + 1 => m = n) /\ (m + 1 <= n + 1 => m <= n)
      /\ \A n \in 1..Len(t) : ~(n + 1 <= 1)
      /\ \A n \in 1..Len(t), m \in 1..Len(s) : m < n + 1 => m = 1 \/ m - 1 < n
  BY SMT
<1> HIDE DEF t
<1>2. \A cmd : In(s, i, cmd) <=> In(t, i, cmd) \/ Is(Head(s), i, cmd)
  BY <1>1, SMT DEF In
<1>3. \A cmd : AtMostOne(s, i, cmd) =>
        AtMostOne(t, i, cmd) /\ (Is(Head(s), i, cmd) => ~In(t, i, cmd))
  BY <1>1, SMT DEF AtMostOne, In
<1>4. \A d : Carries(s, i, d) => Carries(t, i, d) /\ (Is(Head(s), i, "WRTE") => Head(s).data = d)
  BY <1>1, SMT DEF Carries
<1>5. CloseLast(s, i) => CloseLast(t, i) /\ (Is(Head(s), i, "CLSE") => NoneOf(t, i))
  BY <1>1, SMT DEF CloseLast, NoneOf
<1>6. NoneOf(s, i) => NoneOf(t, i) /\ Head(s).svc # i
  BY <1>1, SMT DEF NoneOf
<1>7. OkayFirst(s, i) /\ ~Is(Head(s), i, "OKAY") => OkayFirst(t, i)
  BY <1>1, SMT DEF OkayFirst
<1> QED BY <1>2, <1>3, <1>4, <1>5, <1>6, <1>7 DEF t

-----------------------------------------------------------------------------
(* The invariant of a stream.                                              *)

(* Where a handler is before it has written the OKAY of its stream.        *)
Before == {"off", "dial", "adopt", "name", "reply", "await", "fail", "okWrite", "okSend"}
Late == {"remove", "exit"} \cup EndLabels
Sending == {"push", "pushWrite", "pushSend"}

Fwd(i) == pc[Forwarder(i)]
Past(i) == pc[Handler(i)] \notin Before
Left(i) == peer[i] \in {"closing", "closed"}
Fresh(i) == peer[i] \in {"idle", "opening"}
Alive == connOpen /\ peerUp
Finished(i) == ended[i] \/ \E p \in Proc : pc[p] = "endSet" /\ Target(p) = i

(* Reader handles an OKAY, a WRTE or a CLSE of stream i; an End that it    *)
(* runs for ServiceMap.End is not one that the peer asked for.             *)
ReadsOkay(i) == pc[Reader] = "OKAY" /\ tgt[Reader] = i
ReadsWrite(i) ==
    pc[Reader] \in {"WRTE", "devWrite", "ackWrite", "ackSend", "ackDone"} /\ tgt[Reader] = i
ReadsClose(i) ==
    pc[Reader] \in {"CLSE"} \cup EndLabels /\ tgt[Reader] = i /\ smMu # Reader

Told(i) ==
    \/ peer[i] \in {"open", "closing"} \/ In(toClient, i, "OKAY")
    \/ In(fromClient, i, "WRTE") \/ In(fromClient, i, "CLSE")
    \/ ReadsWrite(i) \/ ReadsClose(i)

(* The peer uses a stream only after the handler has written its OKAY, the *)
(* bridge ends it for a CLSE only after the peer has sent one, and the     *)
(* bridge writes CLSE only on the way to setting ended.                    *)
KnownInv(i) ==
    /\ Told(i) => Past(i)
    /\ In(fromClient, i, "CLSE") \/ ReadsClose(i) => Left(i)
    /\ In(toClient, i, "CLSE") \/ peer[i] = "closed" => Finished(i) /\ Past(i)

(* A service whose forwarder has run to its end has ended.                 *)
EndedInv(i) ==
    /\ Fwd(i) \in {"closeDone", "exit"} => ended[i]
    /\ pc[Handler(i)] \in Late /\ Fwd(i) # "off" => ended[i]

Unacked(i) == In(toClient, i, "WRTE") \/ In(fromClient, i, "OKAY") \/ ReadsOkay(i)

(* The chunk under way is in one place: in a WRTE, or its acknowledgement  *)
(* is in an OKAY, or Reader handles that OKAY.  While it is anywhere, the  *)
(* forwarder does not read another.                                        *)
WindowInv(i) ==
    /\ AtMostOne(toClient, i, "WRTE") /\ AtMostOne(fromClient, i, "OKAY")
    /\ In(toClient, i, "WRTE") => ~In(fromClient, i, "OKAY") /\ ~ReadsOkay(i)
    /\ ReadsOkay(i) => ~In(fromClient, i, "OKAY")
    /\ Unacked(i) => needAck[i] \/ Fwd(i) = "pushSet"
    /\ Fwd(i) \in {"devRead"} \cup Sending => ~needAck[i]

(* A write that has begun is not stopped by the end of the connection.     *)
OnTrack(i) ==
    Alive /\ ~ended[i] /\ (~sockEnded \/ Fwd(i) \in {"pushSend", "endSend"})

(* As long as the stream and the connection live, the forwarder is at most *)
(* one chunk ahead of the peer.                                            *)
ChunkInv(i) ==
    /\ Carries(toClient, i, chunk[i])
    /\ In(toClient, i, "WRTE") => chunk[i] = received[i] + 1
    /\ Fwd(i) = "off" => chunk[i] = received[i]
    /\ OnTrack(i) /\ Fwd(i) \in Sending => chunk[i] = received[i] + 1
    /\ OnTrack(i) /\ Fwd(i) \notin Sending =>
         In(toClient, i, "WRTE") \/ chunk[i] = received[i]

(* A CLSE that the peer did not ask for follows everything that was read.  *)
CloseInv(i) ==
    /\ CloseLast(toClient, i)
    /\ peer[i] = "closed" => NoneOf(toClient, i)
    /\ In(toClient, i, "CLSE") /\ ~Left(i) =>
         /\ Fwd(i) \in {"off", "endSet", "closeDone", "exit"}
         /\ Fwd(i) = "off" => pc[Handler(i)] \in Late
         /\ In(toClient, i, "WRTE") \/ chunk[i] = received[i]

(* The OKAY of a stream goes before its first WRTE.                        *)
OkayInv(i) ==
    /\ /\ pc[Handler(i)] = "setOpened" \/ Fwd(i) # "off"
       /\ Alive /\ (~sockEnded \/ Fwd(i) = "pushSend")
       => ~Fresh(i) \/ In(toClient, i, "OKAY")
    /\ Fresh(i) => OkayFirst(toClient, i)

StreamInv(i) ==
    KnownInv(i) /\ EndedInv(i) /\ WindowInv(i) /\ ChunkInv(i) /\ CloseInv(i) /\ OkayInv(i)

(* ServiceMap.End runs after the socket has ended, so it writes nothing.   *)
MapSilent == \A p \in Enders : smMu = p => pc[p] # "endSend"

FlowInv == LockInv /\ MapInv /\ MapSilent /\ \A i \in Service : StreamInv(i)

-----------------------------------------------------------------------------
(* Steps that are calm for stream i.                                       *)

Onward(i) ==
    /\ sockEnded => sockEnded'
    /\ Alive' => Alive
    /\ ended[i] => ended'[i]
    /\ Finished(i) => Finished(i)'

ToQuiet(i) ==
    \/ toClient' = toClient
    \/ \E k \in ToClient : k.svc # i /\ toClient' = Append(toClient, k)
    \/ toClient # <<>> /\ Head(toClient).svc # i /\ toClient' = Tail(toClient)
    \/ ~Alive' /\ toClient' = <<>>

FromQuiet(i) ==
    \/ fromClient' = fromClient
    \/ fromClient # <<>> /\ fromClient' = Tail(fromClient)
    \/ \E k \in FromClient : /\ k.svc # i \/ k.cmd = "OPEN"
                             /\ fromClient' = Append(fromClient, k)

ReaderQuiet(i) ==
    /\ ReadsOkay(i)' =>
         \/ ReadsOkay(i)
         \/ /\ fromClient # <<>> /\ Is(Head(fromClient), i, "OKAY")
            /\ fromClient' = Tail(fromClient)
    /\ ReadsWrite(i)' => ReadsWrite(i) \/ In(fromClient, i, "WRTE")
    /\ ReadsClose(i)' => ReadsClose(i) \/ In(fromClient, i, "CLSE")

HandlerQuiet(i) ==
    \/ pc'[Handler(i)] = pc[Handler(i)]
    \/ /\ Past(i) => Past(i)'
       /\ pc'[Handler(i)] \in Late =>
            pc[Handler(i)] \in Late \/ Fwd(i) = "off" \/ ended'[i]
       /\ pc[Handler(i)] \in Late => pc'[Handler(i)] \in Late
       /\ pc'[Handler(i)] = "setOpened" => sockEnded' \/ ~Alive'

Calm(i) ==
    /\ Onward(i) /\ ToQuiet(i) /\ FromQuiet(i) /\ ReaderQuiet(i) /\ HandlerQuiet(i)
    /\ Fwd(i)' = Fwd(i)
    /\ chunk'[i] = chunk[i] /\ needAck'[i] = needAck[i]
    /\ received'[i] = received[i]
    /\ peer'[i] = peer[i] \/ (peer[i] = "idle" /\ peer'[i] = "opening")

(* Such a step writes no packet of stream i.                               *)
LEMMA ToQuietFacts ==
    ASSUME TypeInv, NEW i \in Service, ToQuiet(i)
    PROVE  /\ \A cmd : In(toClient', i, cmd) => In(toClient, i, cmd)
           /\ \A cmd : Alive' /\ In(toClient, i, cmd) => In(toClient', i, cmd)
           /\ \A c, d : In(toClient', i, c) /\ In(toClient, i, d) => In(toClient', i, d)
           /\ AtMostOne(toClient, i, "WRTE") => AtMostOne(toClient', i, "WRTE")
           /\ \A d : Carries(toClient, i, d) => Carries(toClient', i, d)
           /\ CloseLast(toClient, i) => CloseLast(toClient', i)
           /\ NoneOf(toClient, i) => NoneOf(toClient', i)
           /\ OkayFirst(toClient, i) => OkayFirst(toClient', i)
<1>1. CASE toClient' = toClient
  BY <1>1
<1>2. ASSUME NEW k \in ToClient, k.svc # i, toClient' = Append(toClient, k)
      PROVE  /\ \A cmd : In(toClient', i, cmd) <=> In(toClient, i, cmd)
             /\ AtMostOne(toClient, i, "WRTE") => AtMostOne(toClient', i, "WRTE")
             /\ \A d : Carries(toClient, i, d) => Carries(toClient', i, d)
             /\ CloseLast(toClient, i) => CloseLast(toClient', i)
             /\ NoneOf(toClient, i) => NoneOf(toClient', i)
             /\ OkayFirst(toClient, i) => OkayFirst(toClient', i)
  <2>1. toClient \in Seq(ToClient)
    BY DEF TypeInv, TypeOK, ConnOK
  <2>2. \A cmd : ~Is(k, i, cmd)
    BY <1>2 DEF Is
  <2> QED BY <1>2, <2>1, <2>2, AppendFacts
<1>3. CASE ~Alive' /\ toClient' = <<>>
  <2>1. \A n : n \notin 1..Len(<<>>)
    BY SMT
  <2> QED BY <1>3, <2>1 DEF In, AtMostOne, Carries, CloseLast, NoneOf, OkayFirst
<1>4. ASSUME toClient # <<>>, Head(toClient).svc # i, toClient' = Tail(toClient)
      PROVE  /\ \A cmd : In(toClient', i, cmd) <=> In(toClient, i, cmd)
             /\ AtMostOne(toClient, i, "WRTE") => AtMostOne(toClient', i, "WRTE")
             /\ \A d : Carries(toClient, i, d) => Carries(toClient', i, d)
             /\ CloseLast(toClient, i) => CloseLast(toClient', i)
             /\ NoneOf(toClient, i) => NoneOf(toClient', i)
             /\ OkayFirst(toClient, i) => OkayFirst(toClient', i)
  <2>1. toClient \in Seq(ToClient)
    BY DEF TypeInv, TypeOK, ConnOK
  <2>2. \A cmd : ~Is(Head(toClient), i, cmd)
    BY <1>4 DEF Is
  <2> QED BY <1>4, <2>1, <2>2, TailFacts
<1> QED BY <1>1, <1>2, <1>3, <1>4 DEF ToQuiet

(* Nor does the peer send one that counts.                                 *)
LEMMA FromQuietFacts ==
    ASSUME TypeInv, NEW i \in Service, FromQuiet(i)
    PROVE  /\ \A cmd : cmd # "OPEN" /\ In(fromClient', i, cmd) => In(fromClient, i, cmd)
           /\ AtMostOne(fromClient, i, "OKAY") => AtMostOne(fromClient', i, "OKAY")
<1>0. fromClient \in Seq(FromClient)
  BY DEF TypeInv, TypeOK, ConnOK
<1>1. CASE fromClient' = fromClient
  BY <1>1
<1>2. ASSUME fromClient # <<>>, fromClient' = Tail(fromClient)
      PROVE  /\ \A cmd : In(fromClient', i, cmd) => In(fromClient, i, cmd)
             /\ AtMostOne(fromClient, i, "OKAY") => AtMostOne(fromClient', i, "OKAY")
  BY <1>0, <1>2, TailFacts
<1>3. ASSUME NEW k \in FromClient, k.svc # i \/ k.cmd = "OPEN",
             fromClient' = Append(fromClient, k)
      PROVE  /\ \A cmd : cmd # "OPEN" /\ In(fromClient', i, cmd) => In(fromClient, i, cmd)
             /\ AtMostOne(fromClient, i, "OKAY") => AtMostOne(fromClient', i, "OKAY")
  <2>1. \A cmd : cmd # "OPEN" => ~Is(k, i, cmd)
    BY <1>3 DEF Is
  <2>2. "OKAY" # "OPEN"
    BY SMT
  <2> QED BY <1>0, <1>3, <2>1, <2>2, AppendFacts
<1> QED BY <1>1, <1>2, <1>3 DEF FromQuiet

(* A calm step keeps the stream's invariant.                               *)
LEMMA CalmKeeps ==
    ASSUME TypeInv, NEW i \in Service, StreamInv(i), Calm(i)
    PROVE  StreamInv(i)'
<1> DEFINE to(cmd) == In(toClient, i, cmd)
           from(cmd) == In(fromClient, i, cmd)
<1>1. /\ \A cmd : to(cmd)' => to(cmd)
      /\ \A cmd : Alive' /\ to(cmd) => to(cmd)'
      /\ \A c, d : to(c)' /\ to(d) => to(d)'
      /\ AtMostOne(toClient, i, "WRTE") => AtMostOne(toClient', i, "WRTE")
      /\ \A d : Carries(toClient, i, d) => Carries(toClient', i, d)
      /\ CloseLast(toClient, i) => CloseLast(toClient', i)
      /\ NoneOf(toClient, i) => NoneOf(toClient', i)
      /\ OkayFirst(toClient, i) => OkayFirst(toClient', i)
  BY ToQuietFacts DEF Calm
<1>2. /\ from("WRTE")' => from("WRTE")
      /\ from("CLSE")' => from("CLSE")
      /\ from("OKAY")' => from("OKAY")
      /\ AtMostOne(fromClient, i, "OKAY") => AtMostOne(fromClient', i, "OKAY")
  <2>1. "WRTE" # "OPEN" /\ "CLSE" # "OPEN" /\ "OKAY" # "OPEN"
    BY SMT
  <2> QED BY <2>1, FromQuietFacts DEF Calm
<1>3. /\ Fwd(i)' = Fwd(i) /\ chunk'[i] = chunk[i] /\ needAck'[i] = needAck[i]
      /\ received'[i] = received[i]
      /\ peer'[i] \in {"open", "closing"} => peer[i] \in {"open", "closing"}
      /\ peer'[i] = "closed" <=> peer[i] = "closed"
      /\ Left(i)' <=> Left(i)
      /\ Fresh(i)' <=> Fresh(i)
      /\ sockEnded => sockEnded'
      /\ Alive' => Alive
      /\ ended[i] => ended'[i]
      /\ Finished(i) => Finished(i)'
  BY DEF Calm, Onward, Left, Fresh
<1>4. /\ Past(i) => Past(i)'
      /\ pc'[Handler(i)] \in Late =>
           pc[Handler(i)] \in Late \/ Fwd(i) = "off" \/ ended'[i]
      /\ pc[Handler(i)] \in Late => pc'[Handler(i)] \in Late
      /\ pc'[Handler(i)] = "setOpened" => pc[Handler(i)] = "setOpened" \/ sockEnded' \/ ~Alive'
  BY DEF Calm, HandlerQuiet, Past
<1>5. /\ ReadsWrite(i)' => ReadsWrite(i) \/ from("WRTE")
      /\ ReadsClose(i)' => ReadsClose(i) \/ from("CLSE")
  BY DEF Calm, ReaderQuiet
<1>6. ReadsOkay(i)' => ReadsOkay(i) \/ (from("OKAY") /\ (AtMostOne(fromClient, i, "OKAY") => ~from("OKAY")'))
  <2>1. ASSUME fromClient # <<>>, Is(Head(fromClient), i, "OKAY"), fromClient' = Tail(fromClient)
        PROVE  from("OKAY") /\ (AtMostOne(fromClient, i, "OKAY") => ~from("OKAY")')
    <3>1. fromClient \in Seq(FromClient)
      BY DEF TypeInv, TypeOK, ConnOK
    <3> QED BY <2>1, <3>1, TailFacts
  <2> QED BY <2>1 DEF Calm, ReaderQuiet
<1> HIDE DEF to, from
<1>7. KnownInv(i)'
  BY <1>1, <1>2, <1>3, <1>4, <1>5 DEF StreamInv, KnownInv, Told, to, from
<1>8. EndedInv(i)'
  BY <1>3, <1>4 DEF StreamInv, EndedInv
<1>9. WindowInv(i)'
  BY <1>1, <1>2, <1>3, <1>6 DEF StreamInv, WindowInv, Unacked, to, from
<1>10. ChunkInv(i)'
  <2>1. OnTrack(i)' => OnTrack(i) /\ Alive'
    BY <1>3 DEF OnTrack
  <2> QED BY <1>1, <1>3, <2>1 DEF StreamInv, ChunkInv, to
<1>11. CloseInv(i)'
  BY <1>1, <1>3, <1>4 DEF StreamInv, CloseInv, to
<1>12. OkayInv(i)'
  BY <1>1, <1>3, <1>4 DEF StreamInv, OkayInv, to
<1> QED BY <1>7, <1>8, <1>9, <1>10, <1>11, <1>12 DEF StreamInv

-----------------------------------------------------------------------------
(* One goroutine moves.                                                    *)

(* Once CLSE is written, the goroutine inside End goes on to set ended.    *)
LEMMA ShapeFinished ==
    ASSUME TypeInv, NEW p \in Proc, Shape(p), pc[p] # "endSet" \/ ended'[Target(p)],
           NEW i \in Service
    PROVE  /\ ended[i] => ended'[i]
           /\ Finished(i) => Finished(i)'
<1>1. ended[i] => ended'[i]
  <2>1. ended \in [Service -> BOOLEAN]
    BY DEF TypeInv, TypeOK, FieldsOK
  <2> QED BY <2>1, SMT DEF Shape, EndedEffect
<1>2. ASSUME NEW q \in Proc, pc[q] = "endSet", Target(q) = i
      PROVE  ended'[i] \/ (pc'[q] = "endSet" /\ Target(q)' = i)
  <2>1. CASE q = p
    BY <1>2, <2>1
  <2>2. CASE q # p
    <3>1. pc'[q] = pc[q]
      BY <2>2 DEF Shape
    <3>2. q \in Enders => tgt'[q] = tgt[q]
      BY <2>2 DEF Shape
    <3>3. Target(q)' = Target(q)
      BY <3>2 DEF Target
    <3> QED BY <1>2, <3>1, <3>3
  <2> QED BY <2>1, <2>2
<1> QED BY <1>1, <1>2 DEF Finished

(* The holder of a service's mutex finds no CLSE written.                  *)
LEMMA HolderNotFinished ==
    ASSUME LockInv, NEW p \in Proc, pc[p] \in MuLabels, pc[p] # "endSet"
    PROVE  ~Finished(Target(p))
<1>1. ~ended[Target(p)] /\ Target(p) \in Service
  BY TargetFacts DEF LockInv, MutexInv, HolderLive, HoldsMu
<1>2. ASSUME NEW q \in Proc, pc[q] = "endSet", Target(q) = Target(p) PROVE FALSE
  <2>1. "endSet" \in MuLabels
    BY DEF MuLabels
  <2>2. mu[Target(p)] = q /\ mu[Target(p)] = p
    BY <1>1, <1>2, <2>1 DEF LockInv, MutexInv, MuHeld, HoldsMu
  <2> QED BY <1>2, <2>2
<1> QED BY <1>1, <1>2 DEF Finished

(* A step of a goroutine that is not the stream's forwarder is calm, if    *)
(* what it does to packets, the reader and the handler is.                 *)
LEMMA ShapeCalm ==
    ASSUME TypeInv, NEW p \in Proc, Shape(p), pc[p] # "endSet" \/ ended'[Target(p)],
           NEW i \in Service, p # Forwarder(i),
           sockEnded => sockEnded', Alive' => Alive, UNCHANGED <<peer, received>>,
           chunk'[i] = chunk[i], needAck'[i] = needAck[i], ToQuiet(i), FromQuiet(i),
           p = Reader => ReaderQuiet(i), p # Reader => (smMu' = Reader <=> smMu = Reader),
           p = Handler(i) => HandlerQuiet(i)
    PROVE  Calm(i)
<1>1. \A q \in Proc : q # p => pc'[q] = pc[q]
  BY DEF Shape
<1>2. p # Reader => ReaderQuiet(i)
  <2>1. p # Reader => pc'[Reader] = pc[Reader] /\ tgt'[Reader] = tgt[Reader]
    BY <1>1, ProcFacts DEF Shape
  <2> QED BY <2>1 DEF ReaderQuiet, ReadsOkay, ReadsWrite, ReadsClose
<1>3. p # Handler(i) => HandlerQuiet(i)
  BY <1>1, ProcFacts DEF HandlerQuiet
<1>4. Fwd(i)' = Fwd(i)
  BY <1>1, ProcFacts DEF Fwd
<1>5. Onward(i)
  BY ShapeFinished DEF Onward
<1> QED BY <1>2, <1>3, <1>4, <1>5 DEF Calm

-----------------------------------------------------------------------------
(* The forwarder.                                                          *)

(* The steps of forwardFromDevice that write no packet, with what they do  *)
(* to the stream: from f to t, with chunk a before and b after, needAck n  *)
(* and m, ended e and d, and with the socket ended (s) or alive (l).       *)
FwdMove(f, t, a, b, n, m, e, d, s, l) ==
    LET same == b = a /\ m = n
    IN \/ f = "loop" /\ t \in {"endLock", "nap"} /\ same
       \/ f = "loop" /\ t = "devRead" /\ ~n /\ same
       \/ f = "nap" /\ t \in {"endLock", "loop"} /\ same
       \/ f = "devRead" /\ t = "endLock" /\ same
       \/ f = "devRead" /\ t = "push" /\ m = n /\ b = a + 1
       \/ f = "push" /\ t = "loop" /\ e /\ same
       \/ f = "push" /\ t = "pushWrite" /\ same
       \/ f = "pushWrite" /\ t = "pushSend" /\ ~s /\ same
       \/ f = "pushWrite" /\ t = "pushSet" /\ s /\ same
       \/ f = "pushSend" /\ t = "pushSet" /\ ~l /\ same
       \/ f = "pushSet" /\ t = "loop" /\ m /\ b = a
       \/ f = "endLock" /\ t = "endWrite" /\ same
       \/ f = "endLock" /\ t = "closeDone" /\ e /\ same
       \/ f = "endWrite" /\ t = "endSend" /\ ~s /\ same
       \/ f = "endWrite" /\ t = "endSet" /\ s /\ same
       \/ f = "endSend" /\ t = "endSet" /\ ~l /\ same
       \/ f = "endSet" /\ t = "closeDone" /\ d /\ same
       \/ f = "closeDone" /\ t = "exit" /\ same

ForwarderMove(i) ==
    FwdMove(Fwd(i), Fwd(i)', chunk[i], chunk'[i], needAck[i], needAck'[i], ended[i], ended'[i],
         sockEnded, Alive)

(* What such a step does.                                                  *)
MoveEffect(f, t, a, b, n, m, e, d, s, l) ==
    /\ f # "off" /\ t # "off"
    /\ n \/ f = "pushSet" => m \/ t = "pushSet"
    /\ (f \in {"devRead"} \cup Sending => ~n) => (t \in {"devRead"} \cup Sending => ~m)
    /\ t \in {"pushSend", "endSend"} => ~s
    /\ t \in {"closeDone", "exit"} => e \/ d \/ f \in {"closeDone", "exit"}
    /\ b = a \/ f = "devRead"
    /\ t \in Sending => (f \in Sending /\ b = a) \/ (f = "devRead" /\ b = a + 1)
    /\ t \notin Sending => \/ f \notin Sending /\ b = a
                          \/ e \/ ~l \/ (s /\ t = "pushSet")
    /\ f \in {"off", "endSet", "closeDone", "exit"} =>
         t \in {"endSet", "closeDone", "exit"} /\ b = a

LEMMA MoveFacts ==
    ASSUME NEW f, NEW t, NEW a, NEW b, NEW n, NEW m, NEW e, NEW d, NEW s, NEW l,
           FwdMove(f, t, a, b, n, m, e, d, s, l)
    PROVE  MoveEffect(f, t, a, b, n, m, e, d, s, l)
<1>1. f # "off" /\ t # "off"
  BY SMT DEF FwdMove
<1>2. n \/ f = "pushSet" => m \/ t = "pushSet"
  BY SMT DEF FwdMove
<1>3. (f \in {"devRead"} \cup Sending => ~n) => (t \in {"devRead"} \cup Sending => ~m)
  BY SMT DEF FwdMove, Sending
<1>4. t \in {"pushSend", "endSend"} => ~s
  BY SMT DEF FwdMove
<1>5. t \in {"closeDone", "exit"} => e \/ d \/ f \in {"closeDone", "exit"}
  BY SMT DEF FwdMove
<1>6. b = a \/ f = "devRead"
  BY SMT DEF FwdMove
<1>7. t \in Sending => (f \in Sending /\ b = a) \/ (f = "devRead" /\ b = a + 1)
  BY SMT DEF FwdMove, Sending
<1>8. t \notin Sending => \/ f \notin Sending /\ b = a
                         \/ e \/ ~l \/ (s /\ t = "pushSet")
  BY SMT DEF FwdMove, Sending
<1>9. f \in {"off", "endSet", "closeDone", "exit"} =>
        t \in {"endSet", "closeDone", "exit"} /\ b = a
  BY SMT DEF FwdMove
<1> QED BY <1>1, <1>2, <1>3, <1>4, <1>5, <1>6, <1>7, <1>8, <1>9 DEF MoveEffect

(* What a goroutine's own step leaves alone.                               *)
Still(i) ==
    /\ UNCHANGED <<fromClient, tgt, smMu, sockEnded, connOpen, peerUp>>
    /\ pc'[Reader] = pc[Reader] /\ pc'[Handler(i)] = pc[Handler(i)]
    /\ peer'[i] = peer[i] /\ received'[i] = received[i]
    /\ ended[i] => ended'[i]
    /\ Finished(i) => Finished(i)'

(* The forwarder's moves keep the invariant of its stream.                 *)
LEMMA ForwarderMoveKeeps ==
    ASSUME TypeInv, NEW i \in Service, StreamInv(i), ForwarderMove(i), Still(i),
           toClient' = toClient
    PROVE  StreamInv(i)'
<1>0. /\ chunk[i] \in Nat /\ received[i] \in Nat
      /\ ended[i] \in BOOLEAN /\ sockEnded \in BOOLEAN /\ needAck[i] \in BOOLEAN
  BY MaxChunksAssumption, SMT DEF TypeInv, TypeOK, FieldsOK, ConnOK, PeerOK
<1>1. /\ ReadsOkay(i)' <=> ReadsOkay(i)
      /\ ReadsWrite(i)' <=> ReadsWrite(i)
      /\ ReadsClose(i)' <=> ReadsClose(i)
      /\ Left(i)' <=> Left(i)
      /\ Fresh(i)' <=> Fresh(i)
      /\ Alive' <=> Alive
      /\ Past(i)' <=> Past(i)
  BY DEF Still, ReadsOkay, ReadsWrite, ReadsClose, Left, Fresh, Alive, Past
<1>2. /\ UNCHANGED <<fromClient, sockEnded>>
      /\ pc'[Handler(i)] = pc[Handler(i)]
      /\ peer'[i] = peer[i] /\ received'[i] = received[i]
      /\ ended[i] => ended'[i]
      /\ Finished(i) => Finished(i)'
  BY DEF Still
<1>m. MoveEffect(Fwd(i), Fwd(i)', chunk[i], chunk'[i], needAck[i], needAck'[i],
                 ended[i], ended'[i], sockEnded, Alive)
  BY MoveFacts DEF ForwarderMove
<1>3. Fwd(i) # "off" /\ Fwd(i)' # "off"
  BY <1>m DEF MoveEffect
<1>4. KnownInv(i)'
  BY <1>1, <1>2 DEF StreamInv, KnownInv, Told
<1>5. EndedInv(i)'
  <2>1. Fwd(i)' \in {"closeDone", "exit"} =>
          ended[i] \/ ended'[i] \/ Fwd(i) \in {"closeDone", "exit"}
    BY <1>m DEF MoveEffect
  <2> QED BY <1>2, <1>3, <2>1 DEF StreamInv, EndedInv
<1>6. WindowInv(i)'
  <2>1. /\ Unacked(i)' <=> Unacked(i)
    BY <1>1, <1>2 DEF Unacked
  <2>2. needAck[i] \/ Fwd(i) = "pushSet" => needAck'[i] \/ Fwd(i)' = "pushSet"
    BY <1>m DEF MoveEffect
  <2>3. (Fwd(i) \in {"devRead"} \cup Sending => ~needAck[i])
           => (Fwd(i)' \in {"devRead"} \cup Sending => ~needAck'[i])
    BY <1>m DEF MoveEffect
  <2> QED BY <1>1, <1>2, <2>1, <2>2, <2>3 DEF StreamInv, WindowInv
<1>7. ChunkInv(i)'
  <2>1. In(toClient, i, "WRTE") => chunk'[i] = chunk[i]
    <3>1. chunk'[i] = chunk[i] \/ Fwd(i) = "devRead"
      BY <1>m DEF MoveEffect
    <3>2. "devRead" # "pushSet"
      BY SMT
    <3> QED BY <3>1, <3>2 DEF StreamInv, WindowInv, Unacked
  <2>2. In(toClient, i, "WRTE") <=> In(toClient', i, "WRTE")
    OBVIOUS
  <2>3. Carries(toClient', i, chunk'[i])
    BY <2>1 DEF StreamInv, ChunkInv, Carries, In
  <2>4. OnTrack(i)' => OnTrack(i)
    <3>1. Fwd(i)' \in {"pushSend", "endSend"} => ~sockEnded
      BY <1>m DEF MoveEffect
    <3> QED BY <1>1, <1>2, <3>1 DEF OnTrack
  <2>5. OnTrack(i)' /\ Fwd(i)' \in Sending => chunk'[i] = received'[i] + 1
    <3>1. Fwd(i)' \in Sending =>
            \/ Fwd(i) \in Sending /\ chunk'[i] = chunk[i]
            \/ Fwd(i) = "devRead" /\ chunk'[i] = chunk[i] + 1
      BY <1>m DEF MoveEffect
    <3>2. Fwd(i) = "devRead" /\ OnTrack(i) => chunk[i] = received[i]
      <4>1. "devRead" \notin Sending /\ "devRead" # "pushSet"
        BY SMT DEF Sending
      <4> QED BY <4>1 DEF StreamInv, ChunkInv, WindowInv, Unacked
    <3> QED BY <1>2, <2>4, <3>1, <3>2 DEF StreamInv, ChunkInv
  <2>6. OnTrack(i)' /\ Fwd(i)' \notin Sending =>
          In(toClient', i, "WRTE") \/ chunk'[i] = received'[i]
    <3>1. Fwd(i)' \notin Sending =>
            \/ Fwd(i) \notin Sending /\ chunk'[i] = chunk[i]
            \/ ended[i] \/ ~Alive \/ (sockEnded /\ Fwd(i)' = "pushSet")
      BY <1>m DEF MoveEffect
    <3>2. OnTrack(i)' => ~ended[i] /\ Alive /\ ~(sockEnded /\ Fwd(i)' = "pushSet")
      BY <1>1, <1>2 DEF OnTrack
    <3> QED BY <1>2, <2>4, <3>1, <3>2 DEF StreamInv, ChunkInv
  <2> QED BY <1>2, <1>3, <2>1, <2>2, <2>3, <2>5, <2>6 DEF StreamInv, ChunkInv
<1>8. CloseInv(i)'
  <2>1. Fwd(i) \in {"off", "endSet", "closeDone", "exit"} =>
          Fwd(i)' \in {"endSet", "closeDone", "exit"} /\ chunk'[i] = chunk[i]
    BY <1>m DEF MoveEffect
  <2> QED BY <1>1, <1>2, <1>3, <2>1 DEF StreamInv, CloseInv
<1>9. OkayInv(i)'
  <2>1. Fwd(i)' = "pushSend" => ~sockEnded
    BY <1>m DEF MoveEffect
  <2> QED BY <1>1, <1>2, <1>3, <2>1 DEF StreamInv, OkayInv
<1> QED BY <1>4, <1>5, <1>6, <1>7, <1>8, <1>9 DEF StreamInv

-----------------------------------------------------------------------------
(* The three packets that the bridge writes for a stream.                  *)

(* What a write leaves alone; the reader may move on, not to a new packet. *)
Writes(i, k) ==
    /\ toClient' = Append(toClient, k)
    /\ UNCHANGED <<fromClient, sockEnded, connOpen, peerUp>>
    /\ peer'[i] = peer[i] /\ received'[i] = received[i]
    /\ chunk'[i] = chunk[i] /\ needAck'[i] = needAck[i] /\ ended'[i] = ended[i]
    /\ Finished(i) => Finished(i)'
    /\ ReadsOkay(i)' => ReadsOkay(i)
    /\ ReadsWrite(i)' => ReadsWrite(i)
    /\ ReadsClose(i)' => ReadsClose(i)

(* An OKAY, by the handler or for a WRTE of the peer.                      *)
LEMMA OkayWritten ==
    ASSUME TypeInv, NEW i \in Service, StreamInv(i), NEW k \in ToClient, Is(k, i, "OKAY"),
           Writes(i, k), ~(Finished(i) /\ Past(i)), Past(i)', Fwd(i)' = Fwd(i),
           pc'[Handler(i)] = pc[Handler(i)] \/ pc'[Handler(i)] = "setOpened"
    PROVE  StreamInv(i)'
<1>0. toClient \in Seq(ToClient) /\ ~Is(k, i, "WRTE") /\ ~Is(k, i, "CLSE")
  <2>1. "OKAY" # "WRTE" /\ "OKAY" # "CLSE"
    BY SMT
  <2> QED BY <2>1 DEF Is, TypeInv, TypeOK, ConnOK
<1>1. ~In(toClient, i, "CLSE") /\ peer[i] # "closed"
  BY DEF StreamInv, KnownInv
<1>2. /\ \A cmd : In(toClient', i, cmd) <=> In(toClient, i, cmd) \/ Is(k, i, cmd)
      /\ AtMostOne(toClient, i, "WRTE") => AtMostOne(toClient', i, "WRTE")
      /\ \A d : Carries(toClient, i, d) => Carries(toClient', i, d)
      /\ CloseLast(toClient, i) => CloseLast(toClient', i)
      /\ OkayFirst(toClient, i) => OkayFirst(toClient', i)
  BY <1>0, <1>1, AppendFacts DEF Writes
<1>3. /\ In(toClient', i, "WRTE") <=> In(toClient, i, "WRTE")
      /\ In(toClient', i, "CLSE") <=> In(toClient, i, "CLSE")
      /\ In(toClient', i, "OKAY")
  BY <1>0, <1>2
<1>4. /\ UNCHANGED <<fromClient, sockEnded>>
      /\ peer'[i] = peer[i] /\ received'[i] = received[i]
      /\ chunk'[i] = chunk[i] /\ needAck'[i] = needAck[i] /\ ended'[i] = ended[i]
      /\ ReadsOkay(i)' => ReadsOkay(i)
      /\ ReadsWrite(i)' => ReadsWrite(i)
      /\ ReadsClose(i)' => ReadsClose(i)
      /\ Alive' <=> Alive
      /\ Left(i)' <=> Left(i)
      /\ Fresh(i)' <=> Fresh(i)
  BY DEF Writes, Alive, Left, Fresh
<1>5. KnownInv(i)'
  BY <1>1, <1>3, <1>4 DEF StreamInv, KnownInv
<1>6. EndedInv(i)'
  <2>1. "setOpened" \notin Late
    BY SMT DEF Late, EndLabels
  <2> QED BY <1>4, <2>1 DEF StreamInv, EndedInv
<1>7. WindowInv(i)'
  BY <1>2, <1>3, <1>4 DEF StreamInv, WindowInv, Unacked
<1>8. ChunkInv(i)'
  <2>1. OnTrack(i)' <=> OnTrack(i)
    BY <1>4 DEF OnTrack
  <2> QED BY <1>2, <1>3, <1>4, <2>1 DEF StreamInv, ChunkInv
<1>9. CloseInv(i)'
  BY <1>1, <1>2, <1>3, <1>4 DEF StreamInv, CloseInv
<1>10. OkayInv(i)'
  BY <1>2, <1>3, <1>4 DEF StreamInv, OkayInv
<1> QED BY <1>5, <1>6, <1>7, <1>8, <1>9, <1>10 DEF StreamInv

(* A WRTE, by the forwarder.                                               *)
LEMMA ChunkWritten ==
    ASSUME TypeInv, NEW i \in Service, StreamInv(i), NEW k \in ToClient, Is(k, i, "WRTE"),
           Writes(i, k), k.data = chunk[i], Alive, ~Finished(i),
           Fwd(i) = "pushSend", Fwd(i)' = "pushSet", pc'[Handler(i)] = pc[Handler(i)]
    PROVE  StreamInv(i)'
<1>0. toClient \in Seq(ToClient) /\ ~Is(k, i, "OKAY") /\ ~Is(k, i, "CLSE")
  <2>1. "WRTE" # "OKAY" /\ "WRTE" # "CLSE"
    BY SMT
  <2> QED BY <2>1 DEF Is, TypeInv, TypeOK, ConnOK
<1>1. ~In(toClient, i, "CLSE") /\ peer[i] # "closed" /\ ~ended[i]
  BY DEF StreamInv, KnownInv, Finished
<1>l. /\ "pushSend" \in Sending /\ "pushSend" # "pushSet" /\ "pushSend" # "off"
      /\ "pushSet" \notin {"devRead"} \cup Sending /\ "pushSet" # "off"
      /\ "pushSet" \notin {"closeDone", "exit"}
  BY SMT DEF Sending
<1>2. ~Unacked(i)
  BY <1>l DEF StreamInv, WindowInv
<1>3. ~Fresh(i) \/ In(toClient, i, "OKAY")
  BY <1>l DEF StreamInv, OkayInv
<1>4. chunk[i] = received[i] + 1
  BY <1>1, <1>l DEF StreamInv, ChunkInv, OnTrack
<1>5. /\ \A cmd : In(toClient', i, cmd) <=> In(toClient, i, cmd) \/ Is(k, i, cmd)
      /\ AtMostOne(toClient, i, "WRTE") => AtMostOne(toClient', i, "WRTE")
      /\ Carries(toClient, i, chunk[i]) => Carries(toClient', i, chunk[i])
      /\ CloseLast(toClient, i) => CloseLast(toClient', i)
      /\ OkayFirst(toClient, i) /\ In(toClient, i, "OKAY") => OkayFirst(toClient', i)
  BY <1>0, <1>1, <1>2, AppendFacts DEF Writes, Unacked
<1>6. /\ In(toClient', i, "WRTE")
      /\ In(toClient', i, "CLSE") <=> In(toClient, i, "CLSE")
      /\ In(toClient', i, "OKAY") <=> In(toClient, i, "OKAY")
  BY <1>0, <1>5
<1>7. /\ UNCHANGED <<fromClient, sockEnded>>
      /\ peer'[i] = peer[i] /\ received'[i] = received[i]
      /\ chunk'[i] = chunk[i] /\ needAck'[i] = needAck[i] /\ ended'[i] = ended[i]
      /\ ReadsOkay(i)' => ReadsOkay(i)
      /\ ReadsWrite(i)' => ReadsWrite(i)
      /\ ReadsClose(i)' => ReadsClose(i)
      /\ Left(i)' <=> Left(i)
      /\ Fresh(i)' <=> Fresh(i)
      /\ Past(i)' <=> Past(i)
  BY DEF Writes, Left, Fresh, Past
<1>8. KnownInv(i)'
  BY <1>1, <1>6, <1>7 DEF StreamInv, KnownInv, Told
<1>9. EndedInv(i)'
  BY <1>l, <1>7 DEF StreamInv, EndedInv
<1>10. WindowInv(i)'
  BY <1>2, <1>5, <1>7, <1>l DEF StreamInv, WindowInv, Unacked
<1>11. ChunkInv(i)'
  BY <1>4, <1>5, <1>6, <1>7, <1>l DEF StreamInv, ChunkInv
<1>12. CloseInv(i)'
  BY <1>1, <1>5, <1>6, <1>7 DEF StreamInv, CloseInv
<1>13. OkayInv(i)'
  BY <1>3, <1>5, <1>6, <1>7 DEF StreamInv, OkayInv
<1> QED BY <1>8, <1>9, <1>10, <1>11, <1>12, <1>13 DEF StreamInv

(* A CLSE: for one of the peer, by the forwarder at the end of its loop,   *)
(* or by a handler that has no forwarder.                                  *)
LEMMA CloseWritten ==
    ASSUME TypeInv, NEW i \in Service, StreamInv(i), NEW k \in ToClient, Is(k, i, "CLSE"),
           Writes(i, k), Alive, ~Finished(i), Finished(i)', Past(i),
           Fwd(i)' = Fwd(i) \/ (Fwd(i) = "endSend" /\ Fwd(i)' = "endSet"),
           \/ pc'[Handler(i)] = pc[Handler(i)]
           \/ pc[Handler(i)] \in Late /\ pc'[Handler(i)] \in Late,
           \/ Left(i)
           \/ Fwd(i) = "endSend" /\ Fwd(i)' = "endSet"
           \/ Fwd(i) = "off" /\ pc'[Handler(i)] \in Late
    PROVE  StreamInv(i)'
<1>0. toClient \in Seq(ToClient) /\ ~Is(k, i, "OKAY") /\ ~Is(k, i, "WRTE")
  <2>1. "CLSE" # "OKAY" /\ "CLSE" # "WRTE"
    BY SMT
  <2> QED BY <2>1 DEF Is, TypeInv, TypeOK, ConnOK
<1>1. ~In(toClient, i, "CLSE") /\ peer[i] # "closed" /\ ~ended[i]
  BY DEF StreamInv, KnownInv, Finished
<1>l. /\ "endSend" \notin Sending /\ "endSend" # "pushSet" /\ "endSend" # "off"
      /\ "endSet" \notin {"devRead"} \cup Sending /\ "endSet" # "off" /\ "endSet" # "pushSend"
      /\ "endSet" \notin {"closeDone", "exit"}
      /\ "setOpened" \notin Late /\ Late \cap Before = {}
  BY SMT DEF Sending, Late, EndLabels, Before
<1>2. /\ \A cmd : In(toClient', i, cmd) <=> In(toClient, i, cmd) \/ Is(k, i, cmd)
      /\ AtMostOne(toClient, i, "WRTE") => AtMostOne(toClient', i, "WRTE")
      /\ Carries(toClient, i, chunk[i]) => Carries(toClient', i, chunk[i])
      /\ CloseLast(toClient, i) => CloseLast(toClient', i)
      /\ OkayFirst(toClient, i) => OkayFirst(toClient', i)
  BY <1>0, <1>1, AppendFacts DEF Writes
<1>3. /\ In(toClient', i, "WRTE") <=> In(toClient, i, "WRTE")
      /\ In(toClient', i, "OKAY") <=> In(toClient, i, "OKAY")
  BY <1>0, <1>2
<1>4. /\ UNCHANGED <<fromClient, sockEnded>>
      /\ peer'[i] = peer[i] /\ received'[i] = received[i]
      /\ chunk'[i] = chunk[i] /\ needAck'[i] = needAck[i] /\ ended'[i] = ended[i]
      /\ ReadsOkay(i)' => ReadsOkay(i)
      /\ ReadsWrite(i)' => ReadsWrite(i)
      /\ ReadsClose(i)' => ReadsClose(i)
      /\ Alive' <=> Alive
      /\ Left(i)' <=> Left(i)
      /\ Fresh(i)' <=> Fresh(i)
      /\ Past(i)'
  BY <1>l DEF Writes, Alive, Left, Fresh, Past
<1>5. KnownInv(i)'
  BY <1>3, <1>4 DEF StreamInv, KnownInv
<1>6. EndedInv(i)'
  <2>1. Fwd(i)' \notin {"closeDone", "exit"}
    BY <1>1, <1>l DEF StreamInv, EndedInv
  <2>2. pc'[Handler(i)] \in Late => pc[Handler(i)] \in Late
    OBVIOUS
  <2>3. Fwd(i)' # "off" => Fwd(i) # "off"
    BY <1>l
  <2> QED BY <1>4, <2>1, <2>2, <2>3 DEF StreamInv, EndedInv
<1>7. WindowInv(i)'
  <2>1. Unacked(i)' => Unacked(i)
    BY <1>3, <1>4 DEF Unacked
  <2>2. Unacked(i) => needAck[i] \/ Fwd(i)' = "pushSet"
    BY <1>l DEF StreamInv, WindowInv
  <2>3. Fwd(i)' \in {"devRead"} \cup Sending => ~needAck[i]
    BY <1>l DEF StreamInv, WindowInv
  <2> QED BY <1>2, <1>3, <1>4, <2>1, <2>2, <2>3 DEF StreamInv, WindowInv
<1>8. ChunkInv(i)'
  <2>1. OnTrack(i)' => OnTrack(i)
    BY <1>4 DEF OnTrack
  <2>2. (Fwd(i)' = "off" => Fwd(i) = "off") /\ (Fwd(i)' \in Sending <=> Fwd(i) \in Sending)
    BY <1>l
  <2> QED BY <1>2, <1>3, <1>4, <2>1, <2>2 DEF StreamInv, ChunkInv
<1>9. CloseInv(i)'
  <2>1. ~Left(i) => In(toClient, i, "WRTE") \/ chunk[i] = received[i]
    <3>1. Fwd(i) = "endSend" => In(toClient, i, "WRTE") \/ chunk[i] = received[i]
      BY <1>1, <1>l DEF StreamInv, ChunkInv, OnTrack
    <3> QED BY <3>1 DEF StreamInv, ChunkInv
  <2>2. ~Left(i) => /\ Fwd(i)' \in {"off", "endSet", "closeDone", "exit"}
                    /\ Fwd(i)' = "off" => pc'[Handler(i)] \in Late
    BY <1>l
  <2> QED BY <1>1, <1>2, <1>3, <1>4, <2>1, <2>2 DEF StreamInv, CloseInv
<1>10. OkayInv(i)'
  <2>1. /\ Fwd(i)' # "off" => Fwd(i) # "off"
        /\ Fwd(i)' = "pushSend" => Fwd(i) = "pushSend"
        /\ pc'[Handler(i)] = "setOpened" => pc[Handler(i)] = "setOpened"
    BY <1>l
  <2> QED BY <1>2, <1>3, <1>4, <2>1 DEF StreamInv, OkayInv
<1> QED BY <1>5, <1>6, <1>7, <1>8, <1>9, <1>10 DEF StreamInv

-----------------------------------------------------------------------------
(* The remaining steps of a stream.                                        *)

(* The handler starts the forwarder.                                       *)
LEMMA StreamOpened ==
    ASSUME LockInv, NEW i \in Service, StreamInv(i), SetOpened(i), UNCHANGED peerVars
    PROVE  StreamInv(i)'
<1>1. /\ pc[Handler(i)] = "setOpened" /\ pc'[Handler(i)] = "wait"
      /\ Fwd(i) = "off" /\ Fwd(i)' = "loop"
      /\ \A q \in Proc : q \in {Handler(i), Forwarder(i)} \/ pc'[q] = pc[q]
  BY StartedSetOpened DEF LockInv, peerVars, Fwd
<1>2. /\ UNCHANGED <<tgt, fromClient, toClient, smMu, sockEnded, connOpen, peerUp>>
      /\ UNCHANGED <<ended, chunk, needAck, peer, received>>
  BY DEF SetOpened, connVars, peerVars
<1>l. /\ {"wait", "setOpened"} \cap (Late \cup Before) = {} /\ "wait" # "setOpened"
      /\ "loop" \notin {"devRead"} \cup Sending /\ "off" \notin Sending
      /\ "loop" \notin {"off", "pushSet", "pushSend", "endSend", "closeDone", "exit", "endSet"}
      /\ "off" \notin {"pushSet", "endSet"} /\ "setOpened" # "endSet"
  BY SMT DEF Late, EndLabels, Before, Sending
<1>3. Finished(i) => Finished(i)'
  <2>1. \A q \in Proc : pc[q] = "endSet" => pc'[q] = "endSet"
    BY <1>1, <1>l DEF Fwd
  <2>2. \A q \in Proc : Target(q)' = Target(q)
    BY <1>2 DEF Target
  <2> QED BY <1>2, <2>1, <2>2 DEF Finished
<1>4. pc'[Reader] = pc[Reader]
  BY <1>1, ProcFacts
<1>5. /\ ReadsOkay(i)' <=> ReadsOkay(i)
      /\ ReadsWrite(i)' <=> ReadsWrite(i)
      /\ ReadsClose(i)' <=> ReadsClose(i)
      /\ Left(i)' <=> Left(i)
      /\ Fresh(i)' <=> Fresh(i)
      /\ Alive' <=> Alive
      /\ Past(i)'
  BY <1>1, <1>2, <1>4, <1>l DEF ReadsOkay, ReadsWrite, ReadsClose, Left, Fresh, Alive, Past
<1>6. KnownInv(i)'
  BY <1>2, <1>3, <1>5 DEF StreamInv, KnownInv
<1>7. EndedInv(i)'
  BY <1>1, <1>l DEF EndedInv
<1>8. WindowInv(i)'
  BY <1>1, <1>2, <1>5, <1>l DEF StreamInv, WindowInv, Unacked
<1>9. ChunkInv(i)'
  BY <1>1, <1>2, <1>l DEF StreamInv, ChunkInv
<1>10. CloseInv(i)'
  BY <1>1, <1>2, <1>5, <1>l DEF StreamInv, CloseInv
<1>11. OkayInv(i)'
  BY <1>1, <1>2, <1>5, <1>l DEF StreamInv, OkayInv
<1> QED BY <1>6, <1>7, <1>8, <1>9, <1>10, <1>11 DEF StreamInv

(* Reader handles the OKAY of the one chunk under way.                     *)
LEMMA StreamAcked ==
    ASSUME TypeInv, NEW i \in Service, StreamInv(i), ReadsOkay(i), pc'[Reader] = "read",
           needAck'[i] = FALSE,
           UNCHANGED <<tgt, fromClient, toClient, smMu, sockEnded, connOpen, peerUp>>,
           UNCHANGED <<ended, chunk, peer, received>>,
           Fwd(i)' = Fwd(i), pc'[Handler(i)] = pc[Handler(i)], Finished(i) => Finished(i)'
    PROVE  StreamInv(i)'
<1>1. /\ ~ReadsOkay(i)' /\ ~ReadsWrite(i)' /\ ~ReadsClose(i)'
      /\ Left(i)' <=> Left(i)
      /\ Fresh(i)' <=> Fresh(i)
      /\ Alive' <=> Alive
      /\ Past(i)' <=> Past(i)
      /\ OnTrack(i)' <=> OnTrack(i)
  <2>1. /\ "read" # "OKAY" /\ "read" \notin {"CLSE"} \cup EndLabels
        /\ "read" \notin {"WRTE", "devWrite", "ackWrite", "ackSend", "ackDone"}
    BY SMT DEF EndLabels
  <2> QED BY <2>1 DEF ReadsOkay, ReadsWrite, ReadsClose, Left, Fresh, Alive, Past, OnTrack
<1>2. ~Unacked(i)'
  BY <1>1 DEF StreamInv, WindowInv, Unacked
<1>3. KnownInv(i)' /\ EndedInv(i)'
  BY <1>1 DEF StreamInv, KnownInv, Told, EndedInv
<1>4. WindowInv(i)'
  BY <1>1, <1>2 DEF StreamInv, WindowInv
<1>5. ChunkInv(i)' /\ CloseInv(i)' /\ OkayInv(i)'
  BY <1>1 DEF StreamInv, ChunkInv, CloseInv, OkayInv
<1> QED BY <1>3, <1>4, <1>5 DEF StreamInv

(* What the peer leaves alone.                                             *)
PeerStill ==
    UNCHANGED <<pc, tgt, smMu, sockEnded, connOpen, peerUp, ended, chunk, needAck>>

(* So the goroutines are where they were.                                  *)
LEMMA PeerStillFacts ==
    ASSUME NEW i \in Service, PeerStill
    PROVE  /\ ReadsOkay(i)' <=> ReadsOkay(i)
           /\ ReadsWrite(i)' <=> ReadsWrite(i)
           /\ ReadsClose(i)' <=> ReadsClose(i)
           /\ Alive' <=> Alive
           /\ Past(i)' <=> Past(i)
           /\ OnTrack(i)' <=> OnTrack(i)
           /\ Finished(i)' <=> Finished(i)
           /\ EndedInv(i)' <=> EndedInv(i)
           /\ Fwd(i)' = Fwd(i)
BY DEF PeerStill, ReadsOkay, ReadsWrite, ReadsClose, Alive, Past, OnTrack, Finished,
   EndedInv, Fwd, Target

(* The peer sends WRTE or CLSE on a stream that it has open.               *)
LEMMA PeerSends ==
    ASSUME TypeInv, NEW i \in Service, StreamInv(i), PeerWrite(i) \/ PeerClose(i)
    PROVE  StreamInv(i)'
<1> DEFINE cmd == IF PeerWrite(i) THEN "WRTE" ELSE "CLSE"
           k == [cmd |-> cmd, svc |-> i]
<1>1. /\ PeerStill /\ UNCHANGED <<toClient, received>> /\ peer[i] = "open"
      /\ fromClient' = Append(fromClient, k)
      /\ cmd = "WRTE" => peer'[i] = "open"
      /\ cmd = "CLSE" => peer'[i] = "closing"
      /\ cmd \in {"WRTE", "CLSE"}
  <2>1. peer \in [Service -> {"idle", "opening", "open", "closing", "closed"}]
    BY DEF TypeInv, TypeOK, PeerOK
  <2> QED BY <2>1, SMT DEF PeerWrite, PeerClose, PeerSend, PeerStill, serviceVars
<1> HIDE DEF cmd
<1>2. k \in FromClient /\ fromClient \in Seq(FromClient) /\ Is(k, i, cmd) /\ ~Is(k, i, "OKAY")
  BY <1>1, SMT DEF FromClient, Is, TypeInv, TypeOK, ConnOK
<1>3. cmd = "WRTE" => ~Is(k, i, "CLSE")
  BY <1>1, SMT DEF Is
<1> HIDE DEF k
<1>4. /\ In(fromClient', i, "OKAY") <=> In(fromClient, i, "OKAY")
      /\ In(fromClient', i, "CLSE") <=> In(fromClient, i, "CLSE") \/ Is(k, i, "CLSE")
      /\ AtMostOne(fromClient, i, "OKAY") => AtMostOne(fromClient', i, "OKAY")
  BY <1>1, <1>2, AppendFacts
<1>5. /\ peer'[i] \in {"open", "closing"} /\ peer'[i] # "closed" /\ peer[i] # "closed"
      /\ ~Fresh(i)' /\ ~Left(i)
      /\ Is(k, i, "CLSE") => Left(i)'
  BY <1>1, <1>3, SMT DEF Fresh, Left
<1>6. KnownInv(i)'
  <2>1. Past(i)
    BY <1>1 DEF StreamInv, KnownInv, Told
  <2>2. ~In(fromClient, i, "CLSE") /\ ~ReadsClose(i)
    BY <1>5 DEF StreamInv, KnownInv
  <2> QED BY <1>1, <1>4, <1>5, <2>1, <2>2, PeerStillFacts DEF StreamInv, KnownInv
<1>7. EndedInv(i)'
  BY <1>1, PeerStillFacts DEF StreamInv
<1>8. WindowInv(i)'
  <2>1. Unacked(i)' <=> Unacked(i)
    BY <1>1, <1>4, PeerStillFacts DEF Unacked
  <2> QED BY <1>1, <1>4, <2>1, PeerStillFacts DEF StreamInv, WindowInv, PeerStill
<1>9. ChunkInv(i)'
  BY <1>1, PeerStillFacts DEF StreamInv, ChunkInv, PeerStill
<1>10. CloseInv(i)'
  BY <1>1, <1>5, PeerStillFacts DEF StreamInv, CloseInv, PeerStill
<1>11. OkayInv(i)'
  BY <1>5 DEF OkayInv
<1> QED BY <1>6, <1>7, <1>8, <1>9, <1>10, <1>11 DEF StreamInv

NextIs(k, i) == toClient # <<>> /\ k = Head(toClient) /\ k.svc = i

(* The peer receives the next packet of the stream.                        *)
LEMMA PeerReceives ==
    ASSUME LockInv, NEW i \in Service, StreamInv(i), PeerRecv, NEW k, NextIs(k, i)
    PROVE  StreamInv(i)'
<1>0. /\ toClient \in Seq(ToClient) /\ toClient # <<>> /\ toClient' = Tail(toClient)
      /\ fromClient \in Seq(FromClient)
      /\ peer \in [Service -> {"idle", "opening", "open", "closing", "closed"}]
      /\ received \in [Service -> 0..MaxChunks]
  BY DEF PeerRecv, LockInv, TypeInv, TypeOK, ConnOK, PeerOK
<1>1. PeerStill
  BY DEF PeerRecv, PeerStill, serviceVars
<1>2. /\ peer'[i] = IF k.cmd = "CLSE" THEN "closed"
                    ELSE IF k.cmd = "OKAY" /\ peer[i] = "opening" THEN "open" ELSE peer[i]
      /\ received'[i] = IF k.cmd = "WRTE" THEN k.data ELSE received[i]
      /\ fromClient' = IF k.cmd = "WRTE" /\ peer[i] = "open"
                         THEN Append(fromClient, [cmd |-> "OKAY", svc |-> i])
                         ELSE fromClient
  BY <1>0 DEF PeerRecv, NextIs
<1>r. toClient \in Seq(ToClient) /\ toClient # <<>> /\ toClient' = Tail(toClient)
  BY <1>0
<1>t1. \A cmd : In(toClient, i, cmd) <=> In(toClient', i, cmd) \/ Is(k, i, cmd)
  BY <1>r, TailFacts DEF NextIs
<1>t2. \A cmd : AtMostOne(toClient, i, cmd) =>
         /\ AtMostOne(toClient', i, cmd)
         /\ Is(k, i, cmd) => ~In(toClient', i, cmd)
  BY <1>r, TailFacts DEF NextIs
<1>t3. \A d : Carries(toClient, i, d) =>
         /\ Carries(toClient', i, d)
         /\ Is(k, i, "WRTE") => k.data = d
  BY <1>r, TailFacts DEF NextIs
<1>t4. CloseLast(toClient, i) =>
         /\ CloseLast(toClient', i)
         /\ Is(k, i, "CLSE") => NoneOf(toClient', i)
  BY <1>r, TailFacts DEF NextIs
<1>t5. NoneOf(toClient, i) => NoneOf(toClient', i) /\ k.svc # i
  BY <1>r, TailFacts DEF NextIs
<1>t6. OkayFirst(toClient, i) /\ ~Is(k, i, "OKAY") => OkayFirst(toClient', i)
  BY <1>r, TailFacts DEF NextIs
<1>4. k.cmd \in {"OKAY", "WRTE", "CLSE"}
  <2>1. k \in ToClient
    BY <1>0, SMT DEF NextIs
  <2> QED BY <2>1 DEF ToClient
<1>5. k.svc = i
  BY DEF NextIs
<1>6. peer[i] # "closed"
  BY <1>t5, <1>5 DEF StreamInv, CloseInv
<1>7. CASE k.cmd = "OKAY"
  <2>1. Is(k, i, "OKAY") /\ ~Is(k, i, "WRTE") /\ ~Is(k, i, "CLSE")
    BY <1>5, <1>7, SMT DEF Is
  <2>2. Past(i)
    BY <1>t1, <2>1 DEF StreamInv, KnownInv, Told
  <2>3. peer[i] # "idle"
    <3>1. "off" \in Before
      BY DEF Before
    <3> QED BY <2>2, <3>1, StartedParts DEF Past, LockInv, ForwarderFresh
  <2>4. /\ received'[i] = received[i] /\ fromClient' = fromClient
        /\ peer'[i] = IF peer[i] = "opening" THEN "open" ELSE peer[i]
    BY <1>2, <1>7, SMT
  <2>5. /\ Left(i)' <=> Left(i)
        /\ ~Fresh(i)'
        /\ peer'[i] # "closed"
    BY <1>6, <2>3, <2>4, SMT DEF Left, Fresh
  <2>6. KnownInv(i)'
    BY <1>1, <1>t1, <2>2, <2>4, <2>5, PeerStillFacts DEF StreamInv, KnownInv
  <2>7. WindowInv(i)'
    BY <1>1, <1>t1, <1>t2, <2>1, <2>4, PeerStillFacts DEF StreamInv, WindowInv, Unacked, PeerStill
  <2>8. ChunkInv(i)'
    BY <1>1, <1>t1, <1>t3, <2>1, <2>4, PeerStillFacts DEF StreamInv, ChunkInv, PeerStill
  <2>9. CloseInv(i)'
    BY <1>1, <1>t1, <1>t4, <2>1, <2>4, <2>5, PeerStillFacts DEF StreamInv, CloseInv, PeerStill
  <2>10. OkayInv(i)' /\ EndedInv(i)'
    BY <1>1, <2>5, PeerStillFacts DEF StreamInv, OkayInv
  <2> QED BY <2>6, <2>7, <2>8, <2>9, <2>10 DEF StreamInv
<1>8. CASE k.cmd = "WRTE"
  <2>1. Is(k, i, "WRTE") /\ ~Is(k, i, "OKAY") /\ ~Is(k, i, "CLSE")
    BY <1>5, <1>8, SMT DEF Is
  <2>2. In(toClient, i, "WRTE") /\ ~In(toClient', i, "WRTE")
    BY <1>t1, <1>t2, <2>1 DEF StreamInv, WindowInv
  <2>3. received'[i] = chunk[i] /\ peer'[i] = peer[i]
    <3>1. k.data = chunk[i]
      BY <1>t3, <2>1 DEF StreamInv, ChunkInv
    <3> QED BY <1>2, <1>8, <3>1, SMT
  <2>4. Fwd(i) \notin {"devRead"} \cup Sending
    <3>1. needAck[i] \/ Fwd(i) = "pushSet"
      BY <2>2 DEF StreamInv, WindowInv, Unacked
    <3>2. "pushSet" \notin {"devRead"} \cup Sending
      BY SMT DEF Sending
    <3> QED BY <3>1, <3>2 DEF StreamInv, WindowInv
  <2>5. /\ ~In(fromClient, i, "OKAY") /\ ~ReadsOkay(i)
        /\ needAck[i] \/ Fwd(i) = "pushSet"
    BY <2>2 DEF StreamInv, WindowInv, Unacked
  <2>6. /\ AtMostOne(fromClient', i, "OKAY")
        /\ \A cmd : cmd # "OKAY" => (In(fromClient', i, cmd) <=> In(fromClient, i, cmd))
    <3>1. CASE fromClient' = fromClient
      BY <3>1 DEF StreamInv, WindowInv
    <3>2. ASSUME NEW a, a = [cmd |-> "OKAY", svc |-> i], fromClient' = Append(fromClient, a)
          PROVE  /\ AtMostOne(fromClient', i, "OKAY")
                 /\ \A cmd : cmd # "OKAY" => (In(fromClient', i, cmd) <=> In(fromClient, i, cmd))
      <4>1. a \in FromClient /\ a.cmd = "OKAY"
        BY <3>2, SMT DEF FromClient
      <4>2. \A cmd : cmd # "OKAY" => ~Is(a, i, cmd)
        BY <4>1 DEF Is
      <4>3. fromClient \in Seq(FromClient) /\ AtMostOne(fromClient, i, "OKAY")
        BY <1>0 DEF StreamInv, WindowInv
      <4>4. AtMostOne(Append(fromClient, a), i, "OKAY")
        BY <2>5, <4>1, <4>3, AppendFacts
      <4>5. \A cmd : In(Append(fromClient, a), i, cmd) <=> In(fromClient, i, cmd) \/ Is(a, i, cmd)
        BY <4>1, <4>3, AppendFacts
      <4> QED BY <3>2, <4>2, <4>4, <4>5
    <3>3. fromClient' = fromClient \/ fromClient' = Append(fromClient, [cmd |-> "OKAY", svc |-> i])
      BY <1>2
    <3> QED BY <3>1, <3>2, <3>3
  <2>7. /\ In(fromClient', i, "WRTE") <=> In(fromClient, i, "WRTE")
        /\ In(fromClient', i, "CLSE") <=> In(fromClient, i, "CLSE")
    <3>1. "WRTE" # "OKAY" /\ "CLSE" # "OKAY"
      BY SMT
    <3> QED BY <2>6, <3>1
  <2>8. (Left(i)' <=> Left(i)) /\ (Fresh(i)' <=> Fresh(i))
    BY <2>3 DEF Left, Fresh
  <2>9. KnownInv(i)'
    BY <1>1, <1>t1, <2>3, <2>7, <2>8, PeerStillFacts DEF StreamInv, KnownInv, Told
  <2>10. WindowInv(i)'
    BY <1>1, <1>t2, <2>2, <2>4, <2>5, <2>6, PeerStillFacts DEF StreamInv, WindowInv, PeerStill
  <2>11. ChunkInv(i)'
    BY <1>1, <1>t3, <2>2, <2>3, <2>4, PeerStillFacts DEF StreamInv, ChunkInv, PeerStill
  <2>12. CloseInv(i)'
    BY <1>1, <1>t1, <1>t4, <1>6, <2>3, <2>8, PeerStillFacts DEF StreamInv, CloseInv, PeerStill
  <2>13. OkayInv(i)' /\ EndedInv(i)'
    BY <1>1, <1>t1, <1>t6, <2>1, <2>8, PeerStillFacts DEF StreamInv, OkayInv, PeerStill
  <2> QED BY <2>9, <2>10, <2>11, <2>12, <2>13 DEF StreamInv
<1>9. CASE k.cmd = "CLSE"
  <2>1. Is(k, i, "CLSE") /\ ~Is(k, i, "OKAY") /\ ~Is(k, i, "WRTE")
    BY <1>5, <1>9, SMT DEF Is
  <2>2. peer'[i] = "closed" /\ received'[i] = received[i] /\ fromClient' = fromClient
    BY <1>2, <1>9, SMT
  <2>3. Left(i)' /\ ~Fresh(i)' /\ peer'[i] \notin {"open", "closing"}
    BY <2>2, SMT DEF Left, Fresh
  <2>4. Finished(i) /\ Past(i)
    BY <1>t1, <2>1 DEF StreamInv, KnownInv
  <2>5. KnownInv(i)'
    BY <1>1, <2>3, <2>4, PeerStillFacts DEF KnownInv
  <2>6. WindowInv(i)'
    BY <1>1, <1>t1, <1>t2, <2>1, <2>2, PeerStillFacts DEF StreamInv, WindowInv, Unacked, PeerStill
  <2>7. ChunkInv(i)'
    BY <1>1, <1>t1, <1>t3, <2>1, <2>2, PeerStillFacts DEF StreamInv, ChunkInv, PeerStill
  <2>8. CloseInv(i)'
    BY <1>t4, <2>1, <2>3 DEF StreamInv, CloseInv
  <2>9. OkayInv(i)' /\ EndedInv(i)'
    BY <1>1, <2>3, PeerStillFacts DEF StreamInv, OkayInv
  <2> QED BY <2>5, <2>6, <2>7, <2>8, <2>9 DEF StreamInv
<1> QED BY <1>4, <1>7, <1>8, <1>9

-----------------------------------------------------------------------------
(* Every step of the forwarder.                                            *)

(* It writes a packet, or makes one of the moves listed above.             *)
LEMMA ForwarderMoves ==
    ASSUME TypeInv, NEW i \in Service, ForwarderStep(i),
           ~(Alive /\ (PushSend(i) \/ EndSend(Forwarder(i))))
    PROVE  ForwarderMove(i) /\ toClient' = toClient
<1> DEFINE f == Forwarder(i)
           NoWrite == UNCHANGED <<toClient, chunk, needAck>>
<1>0. \A l : Goto(f, l) => Fwd(i)' = l
  BY ProcFacts DEF Goto, Fwd, TypeInv, TypeOK, PcOK
<1>a. Target(f) = i /\ AfterEnd(f) = "closeDone"
  BY ProcFacts, TargetFacts DEF AfterEnd
<1>1. ended \in [Service -> BOOLEAN] /\ needAck \in [Service -> BOOLEAN]
      /\ chunk \in [Service -> 0..MaxChunks]
  BY DEF TypeInv, TypeOK, FieldsOK
<1>2. CASE ForwardCheck(i)
  <2>1. NoWrite /\ Fwd(i) = "loop"
    BY <1>2 DEF ForwardCheck, Fwd, connVars, serviceVars
  <2>2. Fwd(i)' = IF ended[i] \/ ~transport[i] THEN "endLock"
                  ELSE IF needAck[i] THEN "nap" ELSE "devRead"
    BY <1>0, <1>2 DEF ForwardCheck
  <2>3. Fwd(i)' \in {"endLock", "nap"} \/ (Fwd(i)' = "devRead" /\ ~needAck[i])
    BY <2>2
  <2> QED BY <2>1, <2>3 DEF ForwarderMove, FwdMove
<1>3. CASE ForwardNap(i)
  <2>1. NoWrite /\ Fwd(i) = "nap"
    BY <1>3 DEF ForwardNap, Fwd, connVars, serviceVars
  <2>2. Fwd(i)' \in {"endLock", "loop"}
    BY <1>0, <1>3 DEF ForwardNap
  <2> QED BY <2>1, <2>2 DEF ForwarderMove, FwdMove
<1>4. CASE ForwardRead(i)
  <2>1. UNCHANGED <<toClient, needAck>> /\ Fwd(i) = "devRead"
    BY <1>4 DEF ForwardRead, Fwd, connVars
  <2>2. \/ Fwd(i)' = "endLock" /\ chunk' = chunk
        \/ Fwd(i)' = "push" /\ chunk' = [chunk EXCEPT ![i] = @ + 1]
    BY <1>0, <1>4 DEF ForwardRead
  <2>3. chunk' = [chunk EXCEPT ![i] = @ + 1] => chunk'[i] = chunk[i] + 1
    BY <1>1, SMT
  <2> QED BY <2>1, <2>2, <2>3 DEF ForwarderMove, FwdMove
<1>5. CASE ForwardPush(i)
  <2>1. NoWrite /\ Fwd(i) = "push"
    BY <1>5 DEF ForwardPush, Fwd, connVars
  <2>2. (ended[i] /\ Fwd(i)' = "loop") \/ Fwd(i)' = "pushWrite"
    BY <1>0, <1>5 DEF ForwardPush
  <2> QED BY <2>1, <2>2 DEF ForwarderMove, FwdMove
<1>6. CASE PushWrite(i)
  <2>1. NoWrite /\ Fwd(i) = "pushWrite"
    BY <1>6 DEF PushWrite, WriteLock, Fwd, serviceVars
  <2>2. (sockEnded /\ Fwd(i)' = "pushSet") \/ (~sockEnded /\ Fwd(i)' = "pushSend")
    BY <1>0, <1>6 DEF PushWrite, WriteLock
  <2> QED BY <2>1, <2>2 DEF ForwarderMove, FwdMove
<1>7. CASE PushSend(i)
  <2>1. ~Alive
    BY <1>7
  <2>2. NoWrite /\ Fwd(i) = "pushSend" /\ Goto(f, "pushSet")
    BY <1>7, <2>1 DEF PushSend, WriteConn, Alive, serviceVars, Fwd
  <2>3. Fwd(i)' = "pushSet"
    BY <1>0, <2>2
  <2> QED BY <2>1, <2>2, <2>3 DEF ForwarderMove, FwdMove
<1>8. CASE PushSet(i)
  <2>1. UNCHANGED <<toClient, chunk>> /\ Fwd(i) = "pushSet" /\ Goto(f, "loop")
    BY <1>8 DEF PushSet, Fwd, connVars
  <2>2. Fwd(i)' = "loop" /\ needAck'[i]
    BY <1>0, <1>1, <1>8, <2>1 DEF PushSet
  <2> QED BY <2>1, <2>2 DEF ForwarderMove, FwdMove
<1>9. CASE CloseDone(i)
  <2>1. NoWrite /\ Fwd(i) = "closeDone" /\ Goto(f, "exit")
    BY <1>9 DEF CloseDone, Fwd, connVars
  <2>2. Fwd(i)' = "exit"
    BY <1>0, <2>1
  <2> QED BY <2>1, <2>2 DEF ForwarderMove, FwdMove
<1>10. CASE EndLock(f)
  <2>1. NoWrite /\ Fwd(i) = "endLock"
    BY <1>10 DEF EndLock, Fwd, connVars
  <2>2. (ended[i] /\ Fwd(i)' = "closeDone") \/ Fwd(i)' = "endWrite"
    BY <1>0, <1>a, <1>10 DEF EndLock
  <2> QED BY <2>1, <2>2 DEF ForwarderMove, FwdMove
<1>11. CASE EndWrite(f)
  <2>1. NoWrite /\ Fwd(i) = "endWrite"
    BY <1>11 DEF EndWrite, WriteLock, Fwd, serviceVars
  <2>2. (sockEnded /\ Fwd(i)' = "endSet") \/ (~sockEnded /\ Fwd(i)' = "endSend")
    BY <1>0, <1>11 DEF EndWrite, WriteLock
  <2> QED BY <2>1, <2>2 DEF ForwarderMove, FwdMove
<1>12. CASE EndSend(f)
  <2>1. ~Alive
    BY <1>12
  <2>2. NoWrite /\ Fwd(i) = "endSend" /\ Goto(f, "endSet")
    BY <1>12, <2>1 DEF EndSend, WriteConn, Alive, serviceVars, Fwd
  <2>3. Fwd(i)' = "endSet"
    BY <1>0, <2>2
  <2> QED BY <2>1, <2>2, <2>3 DEF ForwarderMove, FwdMove
<1>13. CASE EndSet(f)
  <2>1. NoWrite /\ Fwd(i) = "endSet" /\ Goto(f, "closeDone")
    BY <1>a, <1>13 DEF EndSet, Fwd, connVars
  <2>2. Fwd(i)' = "closeDone" /\ ended'[i]
    BY <1>0, <1>1, <1>a, <1>13, <2>1 DEF EndSet
  <2> QED BY <2>1, <2>2 DEF ForwarderMove, FwdMove
<1> QED BY <1>2, <1>3, <1>4, <1>5, <1>6, <1>7, <1>8, <1>9, <1>10, <1>11, <1>12, <1>13
  DEF ForwarderStep, End

(* A goroutine inside End sets ended when it leaves.                       *)
LEMMA EndSetEnds ==
    ASSUME TypeInv, NEW p \in Proc, End(p)
    PROVE  pc[p] # "endSet" \/ ended'[Target(p)]
<1>1. CASE EndSet(p)
  <2>1. HoldsMu(p)
    BY <1>1 DEF EndSet, HoldsMu, MuLabels
  <2>2. Target(p) \in Service
    BY <2>1, TargetFacts
  <2> QED BY <1>1, <2>2 DEF EndSet, TypeInv, TypeOK, FieldsOK
<1>2. CASE ~EndSet(p)
  <2>1. pc[p] \in {"endLock", "endWrite", "endSend"}
    BY <1>2 DEF End, EndLock, EndWrite, EndSend, WriteLock, WriteConn
  <2> QED BY <2>1, SMT
<1> QED BY <1>1, <1>2

(* Every step of a forwarder keeps the invariant of every stream.          *)
LEMMA FlowForwarder ==
    ASSUME FlowInv, NEW i \in Service, ForwarderStep(i), UNCHANGED peerVars
    PROVE  \A j \in Service : StreamInv(j)'
<1> DEFINE f == Forwarder(i)
<1>0. LockInv /\ TypeInv /\ StreamInv(i) /\ (\A j \in Service : StreamInv(j))
  BY DEF FlowInv, LockInv
<1>1. Shape(f) /\ f \in Proc /\ Target(f) = i /\ f # Reader /\ Reader \in Proc
  BY <1>0, ForwarderShape, ProcFacts, TargetFacts
<1>2. /\ UNCHANGED <<fromClient, tgt, smMu, sockEnded, connOpen, peerUp>>
      /\ UNCHANGED <<peer, received>>
  BY DEF ForwarderStep, ForwardCheck, ForwardNap, ForwardRead, ForwardPush, PushWrite, PushSend,
     PushSet, CloseDone, End, EndLock, EndWrite, EndSend, EndSet, WriteLock, WriteConn, connVars,
     peerVars
<1>3. pc[f] # "endSet" \/ ended'[Target(f)]
  <2>1. CASE End(f)
    BY <1>0, <1>1, <2>1, EndSetEnds
  <2>2. CASE ~End(f)
    <3>1. pc[f] \in {"loop", "nap", "devRead", "push", "pushWrite", "pushSend", "pushSet",
                     "closeDone"}
      BY <2>2 DEF ForwarderStep, ForwardCheck, ForwardNap, ForwardRead, ForwardPush, PushWrite,
         PushSend, PushSet, CloseDone, WriteLock, WriteConn
    <3> QED BY <3>1, SMT
  <2> QED BY <2>1, <2>2
<1>4. /\ ended[i] => ended'[i]
      /\ Finished(i) => Finished(i)'
  BY <1>0, <1>1, <1>3, ShapeFinished
<1>5. \A q \in Proc : q # f => pc'[q] = pc[q]
  BY <1>1 DEF Shape
<1>6. Still(i)
  BY <1>1, <1>2, <1>4, <1>5, ProcFacts DEF Still
<1>7. /\ PushSend(i) /\ Alive => toClient' = Append(toClient, Packet("WRTE", i, "localID", chunk[i]))
      /\ EndSend(f) /\ Alive => toClient' = Append(toClient, Packet("CLSE", i, closeArg[i], 0))
      /\ ~(PushSend(i) \/ EndSend(f)) \/ ~Alive => toClient' = toClient
  <2>1. ~(PushSend(i) \/ EndSend(f)) \/ ~Alive => toClient' = toClient
    BY <1>0, ForwarderMoves
  <2> QED BY <1>1, <2>1 DEF PushSend, EndSend, WriteConn, Alive
<1>8. /\ Packet("WRTE", i, "localID", chunk[i]) \in ToClient
      /\ Packet("CLSE", i, closeArg[i], 0) \in ToClient
  BY <1>0, MaxChunksAssumption, SMT DEF Packet, ToClient, TypeInv, TypeOK, FieldsOK
<1>9. ASSUME NEW j \in Service, j # i PROVE StreamInv(j)'
  <2>1. ToQuiet(j)
    <3>1. /\ Packet("WRTE", i, "localID", chunk[i]).svc # j
          /\ Packet("CLSE", i, closeArg[i], 0).svc # j
      BY <1>9 DEF Packet
    <3> QED BY <1>7, <1>8, <3>1 DEF ToQuiet
  <2>2. FromQuiet(j)
    BY <1>2 DEF FromQuiet
  <2>3. chunk'[j] = chunk[j] /\ needAck'[j] = needAck[j]
    <3>1. CASE ForwardRead(i) \/ PushSet(i)
      BY <1>0, <1>9, <3>1 DEF ForwardRead, PushSet, TypeInv, TypeOK, FieldsOK
    <3>2. CASE ~ForwardRead(i) /\ ~PushSet(i)
      BY <3>2 DEF ForwarderStep, ForwardCheck, ForwardNap, ForwardPush, PushWrite, PushSend,
         CloseDone, End, EndLock, EndWrite, EndSend, EndSet, serviceVars
    <3> QED BY <3>1, <3>2
  <2>4. f # Forwarder(j) /\ f # Handler(j)
    BY <1>9, ProcFacts
  <2>5. Alive' => Alive
    BY <1>2 DEF Alive
  <2>6. Calm(j)
    BY <1>0, <1>1, <1>2, <1>3, <2>1, <2>2, <2>3, <2>4, <2>5, ShapeCalm
  <2> QED BY <1>0, <2>6, CalmKeeps
<1> SUFFICES StreamInv(i)'
  BY <1>9
<1>10. CASE ~(Alive /\ (PushSend(i) \/ EndSend(f)))
  BY <1>0, <1>6, <1>10, ForwarderMoves, ForwarderMoveKeeps
<1>11. CASE Alive /\ (PushSend(i) \/ EndSend(f))
  <2>1. UNCHANGED <<chunk, needAck, ended>>
    BY <1>11 DEF PushSend, EndSend, serviceVars
  <2>2. \A k : toClient' = Append(toClient, k) => Writes(i, k)
    BY <1>6, <2>1 DEF Writes, Still, ReadsOkay, ReadsWrite, ReadsClose
  <2>3. pc[f] \in MuLabels /\ pc[f] # "endSet"
    BY <1>11, SMT DEF PushSend, EndSend, WriteConn, MuLabels
  <2>4. ~Finished(i)
    BY <1>0, <1>1, <2>3, HolderNotFinished
  <2>5. pc'[Handler(i)] = pc[Handler(i)]
    BY <1>6 DEF Still
  <2>6. CASE PushSend(i)
    <3>1. Fwd(i) = "pushSend" /\ Fwd(i)' = "pushSet"
      BY <1>0, <1>1, <2>6 DEF PushSend, WriteConn, Goto, Fwd, TypeInv, TypeOK, PcOK
    <3> DEFINE k == Packet("WRTE", i, "localID", chunk[i])
    <3>2. Is(k, i, "WRTE") /\ k.data = chunk[i]
      BY DEF Packet, Is
    <3>3. k \in ToClient /\ Writes(i, k)
      BY <1>7, <1>8, <1>11, <2>2, <2>6
    <3> HIDE DEF k
    <3> QED BY <1>0, <1>11, <2>4, <2>5, <3>1, <3>2, <3>3, ChunkWritten
  <2>7. CASE EndSend(f)
    <3>1. Fwd(i) = "endSend" /\ Fwd(i)' = "endSet" /\ pc'[f] = "endSet"
      BY <1>0, <1>1, <2>7 DEF EndSend, WriteConn, Goto, Fwd, TypeInv, TypeOK, PcOK
    <3> DEFINE k == Packet("CLSE", i, closeArg[i], 0)
    <3>2. Is(k, i, "CLSE")
      BY DEF Packet, Is
    <3>3. k \in ToClient /\ Writes(i, k)
      BY <1>7, <1>8, <1>11, <2>2, <2>7
    <3> HIDE DEF k
    <3>4. Finished(i)'
      <4>1. Target(f)' = i
        BY ProcFacts DEF Target
      <4> QED BY <1>1, <3>1, <4>1 DEF Finished
    <3>5. Past(i)
      <4>1. pc[Handler(i)] \notin Early
        <5>1. Fwd(i) # "off"
          BY <3>1, SMT
        <5> QED BY <1>0, <5>1, StartedParts DEF LockInv, ForwarderFresh, Fwd
      <4>2. Before \subseteq Early
        BY EarlyLabels DEF Before
      <4> QED BY <4>1, <4>2 DEF Past
    <3> QED BY <1>0, <1>11, <2>4, <2>5, <3>1, <3>2, <3>3, <3>4, <3>5, CloseWritten
  <2> QED BY <1>11, <2>6, <2>7
<1> QED BY <1>10, <1>11

-----------------------------------------------------------------------------
(* Service.End, run by Reader, Closer or a handler.                        *)

(* The labels that the invariant names.                                    *)
LEMMA LateLabels ==
    /\ EndLabels \subseteq Late /\ Late \cap Before = {} /\ "setOpened" \notin Late
    /\ Before \subseteq Early /\ "setOpened" \in Early /\ Late \cap Early = {}
    /\ "setOpened" \notin Before
BY EarlyLabels, SMT DEF Late, EndLabels, Before

(* Its CLSE is for one of the peer, or from a handler without a forwarder; *)
(* ServiceMap.End finds the socket ended and writes none.                  *)
LEMMA FlowEnd ==
    ASSUME FlowInv, NEW p \in Proc, p \notin Forwarders, End(p), UNCHANGED peerVars
    PROVE  \A j \in Service : StreamInv(j)'
<1>0. LockInv /\ TypeInv /\ (\A j \in Service : StreamInv(j)) /\ MapSilent /\ MapLocked
  BY DEF FlowInv, LockInv, TypeInv
<1>n. \A j \in Service : p # Forwarder(j) /\ Forwarder(j) \in Proc
  BY ProcFacts
<1>1. Shape(p) /\ (pc[p] # "endSet" \/ ended'[Target(p)])
  BY <1>0, EndShape, EndSetEnds
<1>2. pc[p] \in EndLabels
  BY DEF End, EndLock, EndWrite, EndSend, EndSet, WriteLock, WriteConn, EndLabels
<1>t. Target(p) \in Service
  <2>1. CASE p \in Enders
    BY <1>0, <1>2, <2>1, TargetFacts DEF TypeInv, TargetKnown, TargetLabels
  <2>2. CASE p \in Handlers
    BY <2>2, TargetFacts DEF Handlers
  <2> QED BY <2>1, <2>2, ProcFacts DEF Proc
<1>3. PICK i \in Service : i = Target(p)
  BY <1>t
<1> DEFINE k == Packet("CLSE", i, closeArg[i], 0)
<1>4. /\ UNCHANGED <<fromClient, tgt, smMu, sockEnded, connOpen, peerUp>>
      /\ UNCHANGED <<peer, received, chunk, needAck>>
  BY DEF End, EndLock, EndWrite, EndSend, EndSet, WriteLock, WriteConn, connVars, serviceVars,
     peerVars
<1>5. /\ EndSend(p) /\ Alive => toClient' = Append(toClient, k)
      /\ ~EndSend(p) \/ ~Alive => toClient' = toClient
  BY <1>3 DEF End, EndLock, EndWrite, EndSend, EndSet, WriteLock, WriteConn, connVars, Alive
<1>6. k \in ToClient /\ Is(k, i, "CLSE") /\ k.svc = i
  BY <1>0, <1>3, MaxChunksAssumption, SMT DEF Packet, ToClient, TypeInv, TypeOK, FieldsOK, Is
<1>7. pc'[p] \in EndLabels \cup {AfterEnd(p)}
  <2>1. \E l \in EndLabels \cup {AfterEnd(p)} : Goto(p, l)
    BY DEF End, EndLock, EndWrite, EndSend, EndSet, WriteLock, WriteConn, EndLabels
  <2> QED BY <1>0, <2>1 DEF Goto, TypeInv, TypeOK, PcOK
<1>r. /\ p = Reader => \A j \in Service : ReaderQuiet(j)
      /\ p = Reader => \A j \in Service : /\ ~ReadsOkay(j)' /\ ~ReadsWrite(j)'
                                          /\ ReadsClose(j)' => ReadsClose(j)
  <2>1. p = Reader => AfterEnd(p) \in {"mapNext", "read"}
    BY ProcFacts, SMT DEF AfterEnd, Handlers, Forwarders, Reader
  <2>2. (EndLabels \cup {"mapNext", "read"}) \cap
           {"OKAY", "WRTE", "devWrite", "ackWrite", "ackSend", "ackDone"} = {}
    BY SMT DEF EndLabels
  <2>3. p = Reader => /\ pc'[Reader] \in EndLabels \cup {"mapNext", "read"}
                      /\ pc[Reader] \in EndLabels
    BY <1>2, <1>7, <2>1
  <2>4. p = Reader => \A j \in Service : ~ReadsOkay(j)' /\ ~ReadsWrite(j)'
    BY <2>2, <2>3 DEF ReadsOkay, ReadsWrite
  <2>5. p = Reader => \A j \in Service : ReadsClose(j)' => ReadsClose(j)
    BY <1>4, <2>3 DEF ReadsClose
  <2> QED BY <2>4, <2>5 DEF ReaderQuiet
<1>h. \A j \in Service : p = Handler(j) =>
        /\ pc[p] \in Late /\ pc'[p] \in Late /\ HandlerQuiet(j)
  <2> SUFFICES ASSUME NEW j \in Service, p = Handler(j)
               PROVE  pc[p] \in Late /\ pc'[p] \in Late /\ HandlerQuiet(j)
    OBVIOUS
  <2>1. AfterEnd(p) = "exit"
    BY ProcFacts DEF AfterEnd
  <2>2. "exit" \in Late
    BY DEF Late
  <2>3. pc[p] \in Late /\ pc'[p] \in Late
    BY <1>2, <1>7, <2>1, <2>2, LateLabels
  <2> QED BY <2>3, LateLabels DEF HandlerQuiet, Past
<1> HIDE DEF k
<1>8. ASSUME NEW j \in Service, j # i \/ ~(EndSend(p) /\ Alive) PROVE StreamInv(j)'
  <2>1. ToQuiet(j)
    BY <1>5, <1>6, <1>8 DEF ToQuiet
  <2>2. FromQuiet(j) /\ (Alive' => Alive)
    BY <1>4 DEF FromQuiet, Alive
  <2>3. p # Forwarder(j)
    BY <1>n
  <2>4. Calm(j)
    BY <1>0, <1>1, <1>4, <1>h, <1>r, <2>1, <2>2, <2>3, ShapeCalm
  <2> QED BY <1>0, <2>4, CalmKeeps
<1>9. ASSUME EndSend(p), Alive PROVE StreamInv(i)'
  <2>1. pc[p] = "endSend" /\ pc'[p] = "endSet" /\ UNCHANGED ended
    BY <1>0, <1>9 DEF EndSend, WriteConn, Goto, TypeInv, TypeOK, PcOK, serviceVars
  <2>2. ~Finished(i)
    <3>1. "endSend" \in MuLabels /\ "endSend" # "endSet"
      BY SMT DEF MuLabels
    <3> QED BY <1>0, <2>1, <3>1, <1>3, HolderNotFinished
  <2>3. Finished(i)'
    <3>1. Target(p)' = i
      BY <1>3, <1>4 DEF Target
    <3> QED BY <2>1, <3>1 DEF Finished
  <2>4. \A q \in Proc : q # p => pc'[q] = pc[q]
    BY <1>1 DEF Shape
  <2>5. Fwd(i)' = Fwd(i)
    BY <1>n, <2>4 DEF Fwd
  <2>6. Writes(i, k)
    <3>1. p # Reader => pc'[Reader] = pc[Reader]
      BY <2>4, ProcFacts
    <3>2. /\ ReadsOkay(i)' => ReadsOkay(i)
          /\ ReadsWrite(i)' => ReadsWrite(i)
          /\ ReadsClose(i)' => ReadsClose(i)
      BY <1>3, <1>4, <1>r, <3>1 DEF ReadsOkay, ReadsWrite, ReadsClose
    <3> QED BY <1>4, <1>5, <1>9, <2>1, <2>3, <3>2 DEF Writes
  <2>7. CASE p = Reader
    <3>1. smMu # Reader /\ tgt[Reader] = i
      BY <1>0, <1>3, <2>1, <2>7, ProcFacts DEF MapSilent, Target
    <3>2. ReadsClose(i)
      BY <1>2, <2>7, <3>1 DEF ReadsClose
    <3>3. Left(i) /\ Past(i)
      BY <1>0, <1>3, <3>2 DEF StreamInv, KnownInv, Told
    <3>4. pc'[Handler(i)] = pc[Handler(i)]
      BY <1>3, <2>4, <2>7, ProcFacts
    <3> QED BY <1>0, <1>3, <1>6, <1>9, <2>2, <2>3, <2>5, <2>6, <3>3, <3>4, CloseWritten
  <2>8. CASE p = Closer
    BY <1>0, <1>2, <2>1, <2>8, ProcFacts DEF MapSilent, MapLocked
  <2>9. CASE p \notin Enders
    <3>0. PICK j \in Service : p = Handler(j)
      BY <1>n, <2>9, ProcFacts
    <3>1. i = j
      BY <3>0, <1>3, <2>9, TargetFacts
    <3>2. pc[Handler(i)] \in Late /\ pc'[Handler(i)] \in Late
      BY <1>h, <3>0, <3>1
    <3>3. ~ended[i]
      BY <2>2 DEF Finished
    <3>4. Fwd(i) = "off"
      BY <1>0, <1>3, <3>2, <3>3 DEF StreamInv, EndedInv
    <3>5. Past(i)
      BY <3>2, LateLabels DEF Past
    <3> QED BY <1>0, <1>3, <1>6, <1>9, <2>2, <2>3, <2>5, <2>6, <3>2, <3>4, <3>5, CloseWritten
  <2> QED BY <2>7, <2>8, <2>9, ProcFacts
<1> QED BY <1>8, <1>9

-----------------------------------------------------------------------------
(* The handlers.                                                           *)

(* A step that moves no goroutine and ends nothing is calm, if what it     *)
(* does to the packets is.                                                 *)
LEMMA StillCalm ==
    ASSUME NEW i \in Service, UNCHANGED <<pc, tgt, smMu, sockEnded, ended, chunk, needAck>>,
           Alive' => Alive, ToQuiet(i), FromQuiet(i), received'[i] = received[i],
           peer'[i] = peer[i] \/ (peer[i] = "idle" /\ peer'[i] = "opening")
    PROVE  Calm(i)
<1>1. Finished(i) => Finished(i)'
  BY DEF Finished, Target
<1>2. ReaderQuiet(i) /\ HandlerQuiet(i) /\ Fwd(i)' = Fwd(i)
  BY DEF ReaderQuiet, HandlerQuiet, Fwd, ReadsOkay, ReadsWrite, ReadsClose
<1> QED BY <1>1, <1>2 DEF Calm, Onward

(* A handler only moves on, without writing a packet of its stream: when   *)
(* it leaves early there is no forwarder, when it leaves after waiting the *)
(* forwarder has ended the service, and it skips OKAY only when there is   *)
(* nobody to read it.                                                      *)
LEMMA HandlerMoves ==
    ASSUME FlowInv, NEW i \in Service, HandlerStep(i), ~SetOpened(i), ~NilTransport(i),
           ~End(Handler(i)), ~(OkaySend(i) /\ Alive)
    PROVE  HandlerQuiet(i)
<1> DEFINE h == Handler(i)
<1>0. TypeInv /\ StartedOnce /\ MutexInv /\ StreamInv(i) /\ h \in Proc
  BY ProcFacts DEF FlowInv, LockInv
<1>1. ASSUME NEW l, Goto(h, l) PROVE pc'[h] = l
  BY <1>0, <1>1 DEF Goto, TypeInv, TypeOK, PcOK
<1>2. pc[h] \in Early => Fwd(i) = "off"
  BY <1>0, StartedParts DEF ForwarderFresh, Fwd
<1>3. pc[h] \in Before => ~Past(i) /\ pc[h] \notin Late /\ Fwd(i) = "off"
  BY <1>2, LateLabels DEF Past
<1>4. CASE Dial(i) \/ AdoptTransport(i) \/ SendName(i) \/ ReadReply(i) \/ Reply(i) \/ ReadFail(i)
  <2>1. pc[h] \in {"dial", "adopt", "name", "reply", "await", "fail"}
    BY <1>4 DEF Dial, AdoptTransport, SendName, ReadReply, Reply, ReadFail
  <2>2. \E l \in {"adopt", "name", "reply", "await", "fail", "okWrite", "remove"} : Goto(h, l)
    BY <1>4 DEF Dial, AdoptTransport, SendName, ReadReply, Reply, ReadFail
  <2>3. pc'[h] \in {"adopt", "name", "reply", "await", "fail", "okWrite", "remove"}
    BY <1>1, <2>2
  <2>4. pc[h] \in Before /\ pc'[h] # "setOpened"
    BY <2>1, <2>3 DEF Before
  <2> QED BY <1>3, <2>4 DEF HandlerQuiet
<1>5. CASE OkayWrite(i)
  <2>1. /\ pc[h] = "okWrite" /\ UNCHANGED sockEnded
        /\ Goto(h, "okSend") \/ (sockEnded /\ Goto(h, "setOpened"))
    BY <1>5 DEF OkayWrite, WriteLock
  <2>2. pc'[h] = "okSend" \/ (sockEnded' /\ pc'[h] = "setOpened")
    BY <1>1, <2>1
  <2>3. pc[h] \in Before
    BY <2>1 DEF Before
  <2>4. "okSend" # "setOpened"
    BY SMT
  <2> QED BY <1>3, <2>2, <2>3, <2>4 DEF HandlerQuiet
<1>6. CASE OkaySend(i)
  <2>1. pc[h] = "okSend" /\ Goto(h, "setOpened") /\ UNCHANGED <<connOpen, peerUp>>
    BY <1>6 DEF OkaySend, WriteConn
  <2>2. pc'[h] = "setOpened" /\ ~Alive'
    BY <1>1, <1>6, <2>1 DEF Alive
  <2>3. pc[h] \in Before
    BY <2>1 DEF Before
  <2> QED BY <1>3, <2>2, <2>3 DEF HandlerQuiet
<1>7. CASE Wait(i)
  <2>1. pc[h] = "wait" /\ doneCh[i] /\ pc'[h] = "remove" /\ UNCHANGED ended
    BY <1>1, <1>7 DEF Wait, serviceVars
  <2>2. ended'[i]
    BY <1>0, <2>1 DEF MutexInv, DoneMeansExit, StreamInv, EndedInv, Fwd
  <2>3. "remove" \notin Before /\ "wait" \notin Late /\ "remove" # "setOpened"
    BY SMT DEF Before, Late, EndLabels
  <2> QED BY <2>1, <2>2, <2>3 DEF HandlerQuiet, Past
<1>8. CASE Remove(i)
  <2>1. pc[h] = "remove" /\ pc'[h] = "endLock"
    BY <1>1, <1>8 DEF Remove, MapRemove
  <2>2. {"remove", "endLock"} \subseteq Late
    BY DEF Late, EndLabels
  <2>3. "endLock" \notin Before /\ "endLock" # "setOpened"
    BY SMT DEF Before
  <2> QED BY <2>1, <2>2, <2>3 DEF HandlerQuiet, Past
<1> QED BY <1>4, <1>5, <1>6, <1>7, <1>8 DEF HandlerStep

(* A handler keeps every stream's invariant.                               *)
LEMMA FlowHandler ==
    ASSUME FlowInv, NEW i \in Service, HandlerStep(i), UNCHANGED peerVars
    PROVE  \A j \in Service : StreamInv(j)'
<1> DEFINE h == Handler(i)
           k == Packet("OKAY", i, "localID", 0)
<1>0. LockInv /\ TypeInv /\ (\A j \in Service : StreamInv(j)) /\ UNCHANGED <<peer, received>>
  BY DEF FlowInv, LockInv, peerVars
<1>p. h \in Proc /\ h # Reader /\ h \notin Forwarders /\ Target(h) = i
  BY ProcFacts, TargetFacts
<1>1. CASE End(h)
  BY <1>1, <1>p, FlowEnd
<1>2. CASE SetOpened(i)
  <2>1. StreamInv(i)'
    BY <1>0, <1>2, StreamOpened
  <2>2. ASSUME NEW j \in Service, j # i PROVE StreamInv(j)'
    <3>1. /\ pc[h] = "setOpened" /\ pc'[h] = "wait" /\ Fwd(i) = "off" /\ Fwd(i)' = "loop"
          /\ \A q \in Proc : q \in {h, Forwarder(i)} \/ pc'[q] = pc[q]
      BY <1>0, <1>2, StartedSetOpened DEF LockInv, Fwd
    <3>2. /\ UNCHANGED <<tgt, fromClient, toClient, smMu, sockEnded, connOpen, peerUp>>
          /\ UNCHANGED <<ended, chunk, needAck>>
      BY <1>2 DEF SetOpened, connVars
    <3>3. /\ pc'[Reader] = pc[Reader] /\ pc'[Handler(j)] = pc[Handler(j)]
          /\ pc'[Forwarder(j)] = pc[Forwarder(j)]
      BY <2>2, <3>1, ProcFacts
    <3>4. ASSUME Finished(j) PROVE Finished(j)'
      <4>1. ASSUME NEW q \in Proc, pc[q] = "endSet", Target(q) = j PROVE Finished(j)'
        <5>1. "setOpened" # "endSet" /\ "off" # "endSet"
          BY SMT
        <5>2. pc'[q] = pc[q] /\ Target(q)' = j
          BY <3>1, <3>2, <4>1, <5>1 DEF Fwd, Target
        <5> QED BY <4>1, <5>2 DEF Finished
      <4> QED BY <3>2, <3>4, <4>1 DEF Finished
    <3>5. Onward(j) /\ ToQuiet(j) /\ FromQuiet(j)
      BY <3>2, <3>4 DEF Onward, Alive, ToQuiet, FromQuiet
    <3>6. ReaderQuiet(j) /\ HandlerQuiet(j) /\ Fwd(j)' = Fwd(j)
      BY <3>2, <3>3 DEF ReaderQuiet, HandlerQuiet, Fwd, ReadsOkay, ReadsWrite, ReadsClose
    <3>7. Calm(j)
      BY <1>0, <3>2, <3>5, <3>6 DEF Calm
    <3> QED BY <1>0, <3>7, CalmKeeps
  <2> QED BY <2>1, <2>2
<1>3. CASE NilTransport(i)
  <2>1. UNCHANGED <<pc, tgt, smMu, sockEnded, ended, chunk, needAck, toClient, fromClient,
                    connOpen, peerUp>>
    BY <1>3 DEF NilTransport, socketVars, connVars
  <2>2. ASSUME NEW j \in Service PROVE StreamInv(j)'
    <3>1. ToQuiet(j) /\ FromQuiet(j) /\ (Alive' => Alive)
      BY <2>1 DEF ToQuiet, FromQuiet, Alive
    <3>2. Calm(j)
      BY <1>0, <2>1, <3>1, StillCalm
    <3> QED BY <1>0, <3>2, CalmKeeps
  <2> QED BY <2>2
<1>4. CASE ~End(h) /\ ~SetOpened(i) /\ ~NilTransport(i)
  <2>1. Shape(h)
    BY <1>0, <1>4, HandlerShape
  <2>2. pc[h] # "endSet"
    <3>1. pc[h] \in {"dial", "adopt", "name", "reply", "await", "fail", "okWrite", "okSend",
                     "wait", "remove"}
      BY <1>4 DEF HandlerStep, Dial, AdoptTransport, SendName, ReadReply, Reply, ReadFail,
         OkayWrite, OkaySend, Wait, Remove, MapRemove, WriteLock, WriteConn
    <3> QED BY <3>1, SMT
  <2>3. /\ UNCHANGED <<fromClient, tgt, smMu, sockEnded, connOpen, peerUp>>
        /\ UNCHANGED <<ended, chunk, needAck>>
    BY <1>4 DEF HandlerStep, Dial, AdoptTransport, SendName, ReadReply, Reply, ReadFail,
       OkayWrite, OkaySend, Wait, Remove, MapRemove, WriteLock, WriteConn, connVars, serviceVars
  <2>4. /\ OkaySend(i) /\ Alive => toClient' = Append(toClient, k)
        /\ ~(OkaySend(i) /\ Alive) => toClient' = toClient
    BY <1>4 DEF HandlerStep, Dial, AdoptTransport, SendName, ReadReply, Reply, ReadFail,
       OkayWrite, OkaySend, Wait, Remove, MapRemove, WriteLock, WriteConn, connVars, Alive
  <2>5. k \in ToClient /\ Is(k, i, "OKAY") /\ k.svc = i
    BY MaxChunksAssumption, SMT DEF Packet, ToClient, Is
  <2> HIDE DEF k
  <2>6. ASSUME NEW j \in Service, j # i \/ ~(OkaySend(i) /\ Alive) PROVE StreamInv(j)'
    <3>1. ToQuiet(j)
      BY <2>4, <2>5, <2>6 DEF ToQuiet
    <3>2. FromQuiet(j) /\ (Alive' => Alive)
      BY <2>3 DEF FromQuiet, Alive
    <3>3. h # Forwarder(j)
      BY ProcFacts
    <3>4. h = Handler(j) => j = i
      BY ProcFacts
    <3>5. h = Handler(j) => HandlerQuiet(j)
      BY <1>4, <2>6, <3>4, HandlerMoves
    <3>6. Calm(j)
      BY <1>0, <1>p, <2>1, <2>2, <2>3, <3>1, <3>2, <3>3, <3>5, ShapeCalm
    <3> QED BY <1>0, <3>6, CalmKeeps
  <2>7. ASSUME OkaySend(i), Alive PROVE StreamInv(i)'
    <3>1. pc[h] = "okSend" /\ pc'[h] = "setOpened"
      BY <1>0, <1>p, <2>7 DEF OkaySend, WriteConn, Goto, TypeInv, TypeOK, PcOK
    <3>2. ~Past(i) /\ Past(i)'
      BY <3>1, LateLabels DEF Past, Before
    <3>3. \A q \in Proc : q # h => pc'[q] = pc[q]
      BY <2>1 DEF Shape
    <3>4. Fwd(i)' = Fwd(i) /\ pc'[Reader] = pc[Reader]
      BY <1>p, <3>3, ProcFacts DEF Fwd
    <3>5. Finished(i) => Finished(i)'
      BY <1>0, <1>p, <2>1, <2>2, ShapeFinished
    <3>6. Writes(i, k)
      BY <1>0, <2>3, <2>4, <2>7, <3>4, <3>5 DEF Writes, ReadsOkay, ReadsWrite, ReadsClose
    <3> QED BY <1>0, <2>5, <3>1, <3>2, <3>4, <3>6, OkayWritten
  <2> QED BY <2>6, <2>7
<1> QED BY <1>1, <1>2, <1>3, <1>4

-----------------------------------------------------------------------------
(* Socket.End and the reader.                                              *)

(* Socket.End, apart from the Service.End that it runs, touches no stream. *)
LEMMA FlowSocketEnd ==
    ASSUME FlowInv, NEW p \in Enders, EndStep(p), UNCHANGED peerVars
    PROVE  \A j \in Service : StreamInv(j)'
<1>0. /\ LockInv /\ TypeInv /\ (\A j \in Service : StreamInv(j)) /\ MapLocked
      /\ UNCHANGED <<peer, received>>
  BY DEF FlowInv, LockInv, TypeInv, peerVars
<1>p. p \in Proc /\ p \notin Forwarders /\ Shape(p)
  <2>1. p \in Proc /\ Shape(p)
    BY <1>0, ProcFacts, SocketEndShape
  <2>2. \A j \in Service : p # Forwarder(j)
    BY ProcFacts
  <2> QED BY <2>1, <2>2 DEF Forwarders
<1>1. CASE End(p)
  BY <1>1, <1>p, FlowEnd
<1>2. CASE ~End(p)
  <2>1. (SocketEnd(p) \/ MapEndLock(p) \/ MapEndNext(p) \/ MapEndUnlock(p) \/ ConnClose(p))
          /\ UNCHANGED serviceVars
    BY <1>2 DEF EndStep
  <2>2. /\ UNCHANGED <<fromClient, toClient, peerUp, chunk, needAck, ended>>
        /\ sockEnded => sockEnded'
        /\ connOpen' => connOpen
    <3>1. CASE SocketEnd(p) /\ UNCHANGED serviceVars
      BY <3>1 DEF SocketEnd, serviceVars
    <3>2. CASE ConnClose(p) /\ UNCHANGED serviceVars
      BY <3>2 DEF ConnClose, serviceVars
    <3>3. CASE MapEndLock(p) /\ UNCHANGED serviceVars
      BY <3>3 DEF MapEndLock, serviceVars
    <3>5. CASE MapEndUnlock(p) /\ UNCHANGED serviceVars
      BY <3>5 DEF MapEndUnlock, serviceVars
    <3>4. CASE MapEndNext(p) /\ UNCHANGED serviceVars
      BY <3>4 DEF MapEndNext, serviceVars
    <3> QED BY <2>1, <3>1, <3>2, <3>3, <3>4, <3>5
  <2>3. pc[p] # "endSet"
    <3>1. pc[p] \in {"sockEnd", "mapLock", "mapNext", "connClose"}
      BY <2>1 DEF SocketEnd, MapEndLock, MapEndNext, MapEndUnlock, ConnClose
    <3> QED BY <3>1, SMT
  <2>4. p # Reader => (smMu' = Reader <=> smMu = Reader)
    <3>1. p # Reader => p = Closer /\ Closer # Reader /\ Free # Reader
      BY ProcFacts
    <3>2. CASE MapEndLock(p) \/ MapEndUnlock(p)
      <4>1. \/ smMu = Free /\ smMu' = p
            \/ smMu = p /\ smMu' = Free
        BY <1>0, <3>2 DEF MapEndLock, MapEndUnlock, MapLocked
      <4> QED BY <3>1, <4>1
    <3>3. CASE SocketEnd(p) \/ MapEndNext(p) \/ ConnClose(p)
      BY <3>3 DEF SocketEnd, MapEndNext, ConnClose
    <3> QED BY <2>1, <3>2, <3>3
  <2>5. ASSUME NEW j \in Service, p = Reader PROVE ReaderQuiet(j)
    <3>1. pc \in [Proc -> Label]
      BY <1>0 DEF TypeInv, TypeOK, PcOK
    <3>2. \/ pc'[Reader] \in {"done", "mapLock", "mapNext", "connClose"}
          \/ pc'[Reader] = "endLock" /\ smMu' = Reader
      <4>1. CASE MapEndNext(p)
        BY <1>0, <1>p, <2>5, <3>1, <4>1 DEF MapEndNext, Goto, MapLocked
      <4>2. CASE SocketEnd(p) \/ MapEndLock(p) \/ MapEndUnlock(p) \/ ConnClose(p)
        <5>1. \E l \in {"done", "mapLock", "mapNext", "connClose"} : Goto(p, l)
          BY <4>2 DEF SocketEnd, MapEndLock, MapEndUnlock, ConnClose
        <5> QED BY <1>p, <2>5, <3>1, <5>1 DEF Goto
      <4> QED BY <2>1, <4>1, <4>2
    <3>3. /\ {"done", "mapLock", "mapNext", "connClose"} \cap
               ({"OKAY", "WRTE", "devWrite", "ackWrite", "ackSend", "ackDone", "CLSE"}
                  \cup EndLabels) = {}
          /\ "endLock" \notin {"OKAY", "WRTE", "devWrite", "ackWrite", "ackSend", "ackDone"}
      BY SMT DEF EndLabels
    <3>4. ~ReadsOkay(j)' /\ ~ReadsWrite(j)' /\ ~ReadsClose(j)'
      BY <3>2, <3>3 DEF ReadsOkay, ReadsWrite, ReadsClose
    <3> QED BY <3>4 DEF ReaderQuiet
  <2>6. ASSUME NEW j \in Service PROVE StreamInv(j)'
    <3>1. ToQuiet(j) /\ FromQuiet(j) /\ (Alive' => Alive)
      BY <2>2 DEF ToQuiet, FromQuiet, Alive
    <3>2. p # Forwarder(j) /\ p # Handler(j)
      BY ProcFacts
    <3>3. Calm(j)
      BY <1>0, <1>p, <2>2, <2>3, <2>4, <2>5, <3>1, <3>2, ShapeCalm
    <3> QED BY <1>0, <3>3, CalmKeeps
  <2> QED BY <2>6
<1> QED BY <1>1, <1>2

(* Reader starts the handler of a new stream.                              *)
LEMMA FlowHandleOpen ==
    ASSUME FlowInv, HandleOpen, UNCHANGED serviceVars, UNCHANGED peerVars, NEW j \in Service
    PROVE  StreamInv(j)'
<1>0. LockInv /\ TypeInv /\ StartedOnce /\ StreamInv(j) /\ UNCHANGED <<peer, received>>
  BY DEF FlowInv, LockInv, peerVars
<1>1. PICK i \in Service :
        /\ pc[Handler(i)] = "off" /\ pc'[Handler(i)] = "dial"
        /\ pc[Reader] = "dispatch" /\ pc'[Reader] = "read"
        /\ \A q \in Proc : q \in {Reader, Handler(i)} \/ pc'[q] = pc[q]
  BY <1>0, StartedHandleOpen
<1>2. /\ UNCHANGED <<tgt, toClient, smMu, sockEnded, connOpen, peerUp, ended, chunk, needAck>>
      /\ fromClient # <<>> /\ fromClient' = Tail(fromClient)
  BY <1>0 DEF HandleOpen, serviceVars, TypeInv, TargetKnown
<1>l. /\ "off" # "endSet" /\ "dispatch" # "endSet" /\ "off" \in Before /\ "off" \notin Late
      /\ "dial" \notin Late /\ "dial" # "setOpened"
      /\ "read" \notin {"OKAY", "WRTE", "devWrite", "ackWrite", "ackSend", "ackDone", "CLSE"}
      /\ "read" \notin EndLabels
  BY SMT DEF Before, Late, EndLabels
<1>3. ASSUME Finished(j) PROVE Finished(j)'
  <2>1. ASSUME NEW q \in Proc, pc[q] = "endSet", Target(q) = j PROVE Finished(j)'
    <3>1. pc'[q] = pc[q] /\ Target(q)' = j
      BY <1>1, <1>2, <1>l, <2>1 DEF Target
    <3> QED BY <2>1, <3>1 DEF Finished
  <2> QED BY <1>2, <1>3, <2>1 DEF Finished
<1>4. HandlerQuiet(j)
  <2>1. CASE j = i
    BY <1>1, <1>l, <2>1 DEF HandlerQuiet, Past
  <2>2. CASE j # i
    BY <1>1, <2>2, ProcFacts DEF HandlerQuiet
  <2> QED BY <2>1, <2>2
<1>5. ReaderQuiet(j)
  BY <1>1, <1>l DEF ReaderQuiet, ReadsOkay, ReadsWrite, ReadsClose
<1>6. Onward(j) /\ ToQuiet(j) /\ FromQuiet(j) /\ Fwd(j)' = Fwd(j)
  BY <1>1, <1>2, <1>3, ProcFacts DEF Onward, Alive, ToQuiet, FromQuiet, Fwd
<1>7. Calm(j)
  BY <1>0, <1>2, <1>4, <1>5, <1>6 DEF Calm
<1> QED BY <1>0, <1>7, CalmKeeps


(* What the handling of a packet makes Reader go on to: of a stream it     *)
(* handles only what it takes from the peer.                               *)
LEMMA ReaderMovesOn ==
    ASSUME TypeInv, ReaderStep, ~HandleOpen, ~EndStep(Reader), NEW j \in Service
    PROVE  ReaderQuiet(j)
<1>0. /\ pc \in [Proc -> Label] /\ Reader \in Proc /\ fromClient \in Seq(FromClient)
      /\ tgt \in [Enders -> Service \cup {NoService}] /\ Reader \in Enders
  BY ProcFacts DEF TypeInv, TypeOK, PcOK, ConnOK
<1>1. ASSUME NEW l, Goto(Reader, l) PROVE pc'[Reader] = l
  BY <1>0, <1>1 DEF Goto
<1>l. /\ {"read", "dispatch", "sockEnd", "premature"} \cap
           ({"OKAY", "WRTE", "devWrite", "ackWrite", "ackSend", "ackDone", "CLSE"}
              \cup EndLabels) = {}
      /\ "endLock" \in EndLabels
      /\ {"WRTE", "devWrite", "ackWrite", "ackSend", "ackDone"} \cap
           ({"CLSE", "OKAY"} \cup EndLabels) = {}
      /\ "endLock" \notin {"OKAY", "WRTE", "devWrite", "ackWrite", "ackSend", "ackDone"}
  BY SMT DEF EndLabels
<1>2. ASSUME pc'[Reader] \in {"read", "dispatch", "sockEnd", "premature"} PROVE ReaderQuiet(j)
  <2>1. ~ReadsOkay(j)' /\ ~ReadsWrite(j)' /\ ~ReadsClose(j)'
    BY <1>2, <1>l DEF ReadsOkay, ReadsWrite, ReadsClose
  <2> QED BY <2>1 DEF ReaderQuiet
<1>3. CASE ReadPacket
  <2>1. pc'[Reader] \in {"read", "dispatch"}
    BY <1>1, <1>3 DEF ReadPacket
  <2> QED BY <1>2, <2>1
<1>4. CASE ReadError \/ ReturnPremature \/ HandleOkay \/ AckDone
  <2>1. \E l \in {"read", "sockEnd", "premature"} : Goto(Reader, l)
    BY <1>4 DEF ReadError, ReturnPremature, HandleOkay, AckDone
  <2> QED BY <1>1, <1>2, <2>1
<1>5. CASE ForwardServicePacket
  <2>1. /\ fromClient # <<>> /\ fromClient' = Tail(fromClient)
        /\ \/ Goto(Reader, "read")
           \/ /\ Goto(Reader, Head(fromClient).cmd)
              /\ tgt' = [tgt EXCEPT ![Reader] = Head(fromClient).svc]
    BY <1>5 DEF ForwardServicePacket, TypeInv, TargetKnown
  <2>2. CASE Goto(Reader, "read")
    BY <1>1, <1>2, <2>2
  <2>3. CASE Goto(Reader, Head(fromClient).cmd)
               /\ tgt' = [tgt EXCEPT ![Reader] = Head(fromClient).svc]
    <3>1. /\ pc'[Reader] = Head(fromClient).cmd /\ tgt'[Reader] = Head(fromClient).svc
          /\ Head(fromClient) = fromClient[1] /\ 1 \in 1..Len(fromClient)
      <4>1. Head(fromClient) = fromClient[1] /\ 1 \in 1..Len(fromClient)
        BY <1>0, <2>1, SMT
      <4> QED BY <1>0, <1>1, <2>3, <4>1
    <3>2. Head(fromClient).cmd \in {"OPEN", "OKAY", "WRTE", "CLSE"}
      <4>1. fromClient[1] \in FromClient
        BY <1>0, <3>1, SMT
      <4> QED BY <3>1, <4>1, SMT DEF FromClient
    <3>3. /\ {"OPEN", "OKAY", "WRTE", "CLSE"} \cap
               ({"devWrite", "ackWrite", "ackSend", "ackDone"} \cup EndLabels) = {}
      BY SMT DEF EndLabels
    <3>4. ReadsOkay(j)' => Is(Head(fromClient), j, "OKAY")
      BY <3>1 DEF ReadsOkay, Is
    <3>5. ReadsWrite(j)' => In(fromClient, j, "WRTE")
      BY <3>1, <3>2, <3>3 DEF ReadsWrite, In, Is
    <3>6. ReadsClose(j)' => In(fromClient, j, "CLSE")
      BY <3>1, <3>2, <3>3 DEF ReadsClose, In, Is
    <3> QED BY <2>1, <3>4, <3>5, <3>6 DEF ReaderQuiet
  <2> QED BY <2>1, <2>2, <2>3
<1>6. CASE HandleWrite \/ DeviceWrite \/ AckWrite \/ AckSend
  <2>1. /\ pc[Reader] \in {"WRTE", "devWrite", "ackWrite", "ackSend", "ackDone"}
        /\ \E l \in {"read", "premature", "sockEnd"} \cup
                    {"WRTE", "devWrite", "ackWrite", "ackSend", "ackDone"} : Goto(Reader, l)
        /\ UNCHANGED tgt
    BY <1>6 DEF HandleWrite, DeviceWrite, AckWrite, AckSend, WriteLock, WriteConn, connVars
  <2>2. CASE pc'[Reader] \in {"WRTE", "devWrite", "ackWrite", "ackSend", "ackDone"}
    <3>1. ~ReadsOkay(j)' /\ ~ReadsClose(j)'
      BY <1>l, <2>2 DEF ReadsOkay, ReadsClose
    <3>2. ReadsWrite(j)' => ReadsWrite(j)
      BY <2>1 DEF ReadsWrite
    <3> QED BY <3>1, <3>2 DEF ReaderQuiet
  <2> QED BY <1>1, <1>2, <2>1, <2>2
<1>7. CASE HandleClose
  <2>1. /\ pc[Reader] = "CLSE" /\ UNCHANGED <<tgt, smMu>>
        /\ \E l \in {"endLock", "premature"} : Goto(Reader, l)
    BY <1>7 DEF HandleClose, connVars
  <2>2. CASE pc'[Reader] = "endLock"
    <3>1. ~ReadsOkay(j)' /\ ~ReadsWrite(j)'
      BY <1>l, <2>2 DEF ReadsOkay, ReadsWrite
    <3>2. ReadsClose(j)' => ReadsClose(j)
      BY <2>1 DEF ReadsClose
    <3> QED BY <3>1, <3>2 DEF ReaderQuiet
  <2> QED BY <1>1, <1>2, <2>1, <2>2
<1> QED BY <1>3, <1>4, <1>5, <1>6, <1>7 DEF ReaderStep

(* Reader keeps every stream's invariant.                                  *)
LEMMA FlowReader ==
    ASSUME FlowInv, ReaderStep, UNCHANGED peerVars
    PROVE  \A j \in Service : StreamInv(j)'
<1>0. LockInv /\ TypeInv /\ (\A j \in Service : StreamInv(j)) /\ UNCHANGED <<peer, received>>
  BY DEF FlowInv, LockInv, peerVars
<1>p. /\ Reader \in Proc /\ Reader \in Enders /\ Target(Reader) = tgt[Reader]
      /\ \A j \in Service : Reader # Forwarder(j) /\ Reader # Handler(j)
  BY ProcFacts, TargetFacts
<1>1. CASE EndStep(Reader)
  BY <1>1, <1>p, FlowSocketEnd
<1>2. CASE HandleOpen /\ ~EndStep(Reader)
  <2>1. UNCHANGED serviceVars
    <3>1. pc[Reader] = "dispatch"
      BY <1>2 DEF HandleOpen
    <3>2. HandleOkay \/ HandleWrite \/ DeviceWrite \/ AckWrite \/ AckSend \/ AckDone \/ HandleClose
            => pc[Reader] \in {"OKAY", "WRTE", "devWrite", "ackWrite", "ackSend", "ackDone", "CLSE"}
      BY DEF HandleOkay, HandleWrite, DeviceWrite, AckWrite, AckSend, AckDone, HandleClose,
         WriteLock, WriteConn
    <3>3. "dispatch" \notin {"OKAY", "WRTE", "devWrite", "ackWrite", "ackSend", "ackDone", "CLSE"}
      BY SMT
    <3> QED BY <1>2, <3>1, <3>2, <3>3 DEF ReaderStep
  <2> QED BY <1>2, <2>1, FlowHandleOpen
<1>3. CASE ~EndStep(Reader) /\ ~HandleOpen
  <2> DEFINE k == Packet("OKAY", tgt[Reader], "localID", 0)
  <2>1. Shape(Reader) /\ (\A j \in Service : ReaderQuiet(j))
    BY <1>0, <1>3, ReaderShape, ReaderMovesOn
  <2>2. pc[Reader] # "endSet"
    <3>1. pc[Reader] \in {"read", "dispatch", "premature", "OKAY", "WRTE", "devWrite", "ackWrite",
                          "ackSend", "ackDone", "CLSE"}
      BY <1>3 DEF ReaderStep, ReadPacket, ReadError, ForwardServicePacket, ReturnPremature,
         HandleOkay, HandleWrite, DeviceWrite, AckWrite, AckSend, AckDone, HandleClose, WriteLock,
         WriteConn
    <3> QED BY <3>1, SMT
  <2>3. UNCHANGED <<smMu, sockEnded, connOpen, peerUp, ended, chunk>>
    BY <1>3 DEF ReaderStep, ReadPacket, ReadError, ForwardServicePacket, ReturnPremature,
       HandleOkay, HandleWrite, DeviceWrite, AckWrite, AckSend, AckDone, HandleClose, WriteLock,
       WriteConn, connVars, serviceVars
  <2>4. fromClient' = fromClient \/ (fromClient # <<>> /\ fromClient' = Tail(fromClient))
    BY <1>0, <1>3, Consumes DEF BridgeStep
  <2>5. /\ AckSend /\ Alive => toClient' = Append(toClient, k)
        /\ ~(AckSend /\ Alive) => toClient' = toClient
    BY <1>3 DEF ReaderStep, ReadPacket, ReadError, ForwardServicePacket, ReturnPremature,
       HandleOkay, HandleWrite, DeviceWrite, AckWrite, AckSend, AckDone, HandleClose, WriteLock,
       WriteConn, connVars, Alive
  <2>6. \/ needAck' = needAck
        \/ /\ HandleOkay /\ Goto(Reader, "read") /\ UNCHANGED <<tgt, fromClient>>
           /\ needAck' = [needAck EXCEPT ![tgt[Reader]] = FALSE]
    BY <1>3 DEF ReaderStep, ReadPacket, ReadError, ForwardServicePacket, ReturnPremature,
       HandleOkay, HandleWrite, DeviceWrite, AckWrite, AckSend, AckDone, HandleClose, WriteLock,
       WriteConn, connVars, serviceVars
  <2> HIDE DEF k
  <2>7. ASSUME NEW j \in Service, needAck'[j] = needAck[j], ToQuiet(j) PROVE StreamInv(j)'
    <3>1. FromQuiet(j) /\ (Alive' => Alive)
      BY <2>3, <2>4 DEF FromQuiet, Alive
    <3>2. Calm(j)
      BY <1>0, <1>p, <2>1, <2>2, <2>3, <2>7, <3>1, ShapeCalm
    <3> QED BY <1>0, <3>2, CalmKeeps
  <2>8. ASSUME NEW j \in Service
        PROVE  /\ Fwd(j)' = Fwd(j) /\ pc'[Handler(j)] = pc[Handler(j)]
               /\ Finished(j) => Finished(j)'
    <3>1. Finished(j) => Finished(j)'
      BY <1>0, <1>p, <2>1, <2>2, ShapeFinished
    <3> QED BY <1>p, <2>1, <3>1, ProcFacts DEF Shape, Fwd
  <2>9. CASE AckSend /\ Alive
    <3>1. /\ pc[Reader] = "ackSend" /\ pc'[Reader] = "ackDone"
          /\ UNCHANGED <<needAck, tgt, fromClient>>
      BY <1>0, <1>p, <2>9 DEF AckSend, WriteConn, Goto, TypeInv, TypeOK, PcOK, serviceVars
    <3>2. tgt[Reader] \in Service
      BY <1>0, <1>p, <3>1 DEF TypeInv, TargetKnown, TargetLabels
    <3>3. PICK i \in Service : i = tgt[Reader]
      BY <3>2
    <3>4. k \in ToClient /\ Is(k, i, "OKAY") /\ k.svc = i
      BY <3>3, MaxChunksAssumption, SMT DEF k, Packet, ToClient, Is
    <3>5. ASSUME NEW j \in Service, j # i PROVE StreamInv(j)'
      <4>1. ToQuiet(j)
        BY <2>5, <2>9, <3>4, <3>5 DEF ToQuiet
      <4> QED BY <2>7, <3>1, <4>1
    <3>6. ReadsWrite(i) /\ ~ReadsOkay(i)' /\ ~ReadsClose(i)'
      <4>1. "ackDone" # "OKAY" /\ "ackDone" # "CLSE" /\ "ackDone" \notin EndLabels
        BY SMT DEF EndLabels
      <4> QED BY <3>1, <3>3, <4>1 DEF ReadsWrite, ReadsOkay, ReadsClose
    <3>7. Past(i) /\ Past(i)'
      BY <1>0, <2>8, <3>6 DEF StreamInv, KnownInv, Told, Past
    <3>8. ~Finished(i)
      <4>1. "ackSend" \in MuLabels /\ "ackSend" # "endSet"
        BY SMT DEF MuLabels
      <4> QED BY <1>0, <1>p, <3>1, <3>3, <4>1, HolderNotFinished
    <3>9. Writes(i, k)
      BY <1>0, <2>3, <2>5, <2>8, <2>9, <3>1, <3>6 DEF Writes
    <3>10. StreamInv(i)'
      BY <1>0, <2>8, <3>4, <3>7, <3>8, <3>9, OkayWritten
    <3> QED BY <3>5, <3>10
  <2>10. CASE ~(AckSend /\ Alive) /\ needAck' = needAck
    <3>1. \A j \in Service : ToQuiet(j)
      BY <2>5, <2>10 DEF ToQuiet
    <3> QED BY <2>7, <2>10, <3>1
  <2>11. CASE /\ HandleOkay /\ Goto(Reader, "read") /\ UNCHANGED <<tgt, fromClient>>
              /\ needAck' = [needAck EXCEPT ![tgt[Reader]] = FALSE]
    <3>1. pc[Reader] = "OKAY" /\ pc'[Reader] = "read" /\ UNCHANGED toClient
      BY <1>0, <1>p, <2>11 DEF HandleOkay, Goto, TypeInv, TypeOK, PcOK, connVars
    <3>2. tgt[Reader] \in Service
      BY <1>0, <1>p, <3>1 DEF TypeInv, TargetKnown, TargetLabels
    <3>3. PICK i \in Service : i = tgt[Reader]
      BY <3>2
    <3>4. needAck \in [Service -> BOOLEAN]
      BY <1>0 DEF TypeInv, TypeOK, FieldsOK
    <3>5. ASSUME NEW j \in Service, j # i PROVE StreamInv(j)'
      <4>1. ToQuiet(j) /\ needAck'[j] = needAck[j]
        BY <2>11, <3>1, <3>3, <3>4, <3>5 DEF ToQuiet
      <4> QED BY <2>7, <4>1
    <3>6. ReadsOkay(i) /\ needAck'[i] = FALSE
      BY <2>11, <3>1, <3>3, <3>4 DEF ReadsOkay
    <3>7. StreamInv(i)'
      BY <1>0, <2>3, <2>8, <2>11, <3>1, <3>6, StreamAcked
    <3> QED BY <3>5, <3>7
  <2> QED BY <2>6, <2>9, <2>10, <2>11
<1> QED BY <1>1, <1>2, <1>3

-----------------------------------------------------------------------------
(* ServiceMap.End writes no CLSE.                                          *)

(* A step that moves no goroutine into a write of CLSE.                    *)
LEMMA SilentKept ==
    ASSUME MapSilent, UNCHANGED smMu, \A p \in Enders : pc'[p] = pc[p] \/ pc'[p] # "endSend"
    PROVE  MapSilent'
BY DEF MapSilent

(* Socket.write finds the socket ended.                                    *)
LEMMA SilentEnd ==
    ASSUME TypeInv, MapInv, MapSilent, NEW p \in Enders, EndStep(p)
    PROVE  MapSilent'
<1>0. pc \in [Proc -> Label] /\ p \in Proc /\ Enders \subseteq Proc /\ MapLocked
  BY ProcFacts DEF TypeInv, TypeOK, PcOK, Proc
<1>1. ASSUME NEW l, Goto(p, l) PROVE pc'[p] = l /\ \A q \in Enders : q # p => pc'[q] = pc[q]
  BY <1>0, <1>1 DEF Goto
<1>2. CASE EndWrite(p)
  <2>1. /\ UNCHANGED smMu
        /\ Goto(p, "endSet") \/ (~sockEnded /\ Goto(p, "endSend"))
    BY <1>2 DEF EndWrite, WriteLock
  <2>2. CASE Goto(p, "endSet")
    <3>1. "endSet" # "endSend"
      BY SMT
    <3> QED BY <1>1, <2>1, <2>2, <3>1, SilentKept
  <2>3. CASE ~sockEnded
    <3>1. smMu' = Free /\ \A q \in Enders : q # Free
      BY <2>1, <2>3, ProcFacts DEF MapInv
    <3> QED BY <3>1 DEF MapSilent
  <2> QED BY <2>1, <2>2, <2>3
<1>3. CASE EndLock(p) \/ EndSend(p) \/ EndSet(p)
  <2>1. UNCHANGED smMu /\ \E l \in {"endWrite", "endSet", AfterEnd(p)} : Goto(p, l)
    BY <1>3 DEF EndLock, EndSend, EndSet, WriteConn, connVars
  <2>2. AfterEnd(p) # "endSend" /\ "endWrite" # "endSend" /\ "endSet" # "endSend"
    BY SMT DEF AfterEnd
  <2> QED BY <1>1, <2>1, <2>2, SilentKept
<1>4. CASE SocketEnd(p) \/ MapEndLock(p) \/ MapEndNext(p) \/ MapEndUnlock(p) \/ ConnClose(p)
  <2>1. \E l \in {"done", "mapLock", "mapNext", "endLock", "connClose"} : Goto(p, l)
    BY <1>4 DEF SocketEnd, MapEndLock, MapEndNext, MapEndUnlock, ConnClose
  <2>2. {"done", "mapLock", "mapNext", "endLock", "connClose"} \cap {"endSend"} = {}
    BY SMT
  <2>3. pc'[p] # "endSend" /\ \A q \in Enders : q # p => pc'[q] = pc[q]
    BY <1>1, <2>1, <2>2
  <2>4. smMu' \in {smMu, p, Free}
    BY <1>4 DEF SocketEnd, MapEndLock, MapEndNext, MapEndUnlock, ConnClose
  <2>5. \A q \in Enders : q # Free
    BY ProcFacts
  <2> QED BY <2>3, <2>4, <2>5 DEF MapSilent
<1> QED BY <1>2, <1>3, <1>4 DEF EndStep, End

(* No step makes ServiceMap.End write.                                     *)
LEMMA SilentNext ==
    ASSUME TypeInv, MapInv, MapSilent, [Next]_vars
    PROVE  MapSilent'
<1>0. pc \in [Proc -> Label] /\ Reader \in Proc /\ Closer \in Proc
      /\ Enders = {Reader, Closer} /\ Reader # Closer
  BY ProcFacts DEF TypeInv, TypeOK, PcOK
<1>1. CASE BridgeStep
  <2>1. CASE HandleOpen
    <3>1. pc'[Reader] = "read" /\ pc'[Closer] = pc[Closer] /\ UNCHANGED smMu
      <4>1. Head(fromClient) \in FromClient
        BY <2>1, SMT DEF HandleOpen, TypeInv, TargetKnown, TypeOK, ConnOK
      <4>2. PICK i \in Service : i = Head(fromClient).svc
        BY <4>1 DEF FromClient
      <4>3. pc' = [pc EXCEPT ![Reader] = "read", ![Handler(i)] = "dial"] /\ UNCHANGED smMu
        BY <2>1, <4>2 DEF HandleOpen
      <4>4. /\ Handler(i) # Reader /\ Handler(i) # Closer /\ Handler(i) \in Proc
            /\ Reader # Closer
        BY ProcFacts
      <4> QED BY <1>0, <4>3, <4>4, SMT
    <3>2. "read" # "endSend"
      BY SMT
    <3> QED BY <1>0, <3>1, <3>2, SilentKept
  <2>2. CASE ReaderStep /\ ~HandleOpen /\ ~EndStep(Reader)
    <3>1. UNCHANGED smMu
      BY <2>2 DEF ReaderStep, ReadPacket, ReadError, ForwardServicePacket, ReturnPremature,
         HandleOkay, HandleWrite, DeviceWrite, AckWrite, AckSend, AckDone, HandleClose,
         WriteLock, WriteConn, connVars
    <3>2. ReaderMoveLabels \cap {"endSend"} = {}
      BY SMT DEF ReaderMoveLabels
    <3>3. UNCHANGED pc \/ \E l \in ReaderMoveLabels : Goto(Reader, l)
      BY <2>2, ReaderMoves
    <3>4. pc'[Reader] = pc[Reader] \/ pc'[Reader] # "endSend"
      BY <1>0, <3>2, <3>3 DEF Goto
    <3>5. pc'[Closer] = pc[Closer]
      BY <1>0, <3>3 DEF Goto
    <3> QED BY <1>0, <3>1, <3>4, <3>5, SilentKept
  <2>3. ASSUME NEW i \in Service, ForwarderStep(i) PROVE MapSilent'
    <3>1. UNCHANGED smMu
      BY <2>3 DEF ForwarderStep, ForwardCheck, ForwardNap, ForwardRead, ForwardPush,
         PushWrite, PushSend, PushSet, CloseDone, End, EndLock, EndWrite, EndSend, EndSet,
         WriteLock, WriteConn, connVars
    <3>2. Shape(Forwarder(i))
      BY <2>3, ForwarderShape
    <3>3. \A p \in Enders : pc'[p] = pc[p]
      BY <1>0, <3>2, ProcFacts DEF Shape
    <3> QED BY <3>1, <3>3, SilentKept
  <2>4. ASSUME NEW i \in Service, HandlerStep(i) PROVE MapSilent'
    <3>1. UNCHANGED smMu
      BY <2>4 DEF HandlerStep, Dial, AdoptTransport, SendName, ReadReply, Reply, ReadFail,
         NilTransport, OkayWrite, OkaySend, SetOpened, Wait, Remove, MapRemove, End, EndLock,
         EndWrite, EndSend, EndSet, WriteLock, WriteConn, connVars, socketVars
    <3>2. \A p \in Enders : pc'[p] = pc[p]
      <4>1. CASE SetOpened(i)
        <5>1. pc' = [pc EXCEPT ![Handler(i)] = "wait", ![Forwarder(i)] = "loop"]
          BY <4>1 DEF SetOpened
        <5>2. /\ Handler(i) \in Proc /\ Handler(i) \notin Enders
              /\ Forwarder(i) \in Proc /\ Forwarder(i) \notin Enders
          BY ProcFacts
        <5>3. \A p \in Enders : p \in Proc
          BY <1>0
        <5> QED BY <1>0, <5>1, <5>2, <5>3, SMT
      <4>2. CASE NilTransport(i)
        BY <4>2 DEF NilTransport, socketVars
      <4>3. CASE ~SetOpened(i) /\ ~NilTransport(i)
        <5>1. Shape(Handler(i))
          BY <2>4, <4>3, HandlerShape
        <5> QED BY <1>0, <5>1, ProcFacts DEF Shape
      <4> QED BY <4>1, <4>2, <4>3
    <3> QED BY <3>1, <3>2, SilentKept
  <2> QED BY <1>0, <1>1, <2>1, <2>2, <2>3, <2>4, SilentEnd DEF BridgeStep
<1>2. CASE CallServerClose
  <2>1. Goto(Closer, "sockEnd") /\ UNCHANGED smMu
    BY <1>2 DEF CallServerClose, ServerClose, connVars
  <2>2. pc'[Closer] = "sockEnd" /\ pc'[Reader] = pc[Reader] /\ "sockEnd" # "endSend"
    BY <1>0, <2>1, ProcFacts, SMT DEF Goto
  <2> QED BY <1>0, <2>1, <2>2, SilentKept
<1>3. CASE PeerStep \/ (\E i \in Service : DeviceEOF(i)) \/ UNCHANGED vars
  <2>1. UNCHANGED <<pc, smMu>>
    BY <1>3 DEF PeerStep, PeerOpen, PeerWrite, PeerClose, PeerSend, PeerRecv, PeerGone,
       DeviceEOF, vars, socketVars, connVars
  <2> QED BY <2>1, SilentKept
<1> QED BY <1>1, <1>2, <1>3 DEF Next
-----------------------------------------------------------------------------
(* The peer, and the invariant of the whole.                               *)

(* The peer keeps every stream's invariant.                                *)
LEMMA FlowPeer ==
    ASSUME FlowInv, PeerStep
    PROVE  \A j \in Service : StreamInv(j)'
<1>0. LockInv /\ TypeInv /\ (\A j \in Service : StreamInv(j))
  BY DEF FlowInv, LockInv
<1>t. /\ peer \in [Service -> {"idle", "opening", "open", "closing", "closed"}]
      /\ received \in [Service -> 0..MaxChunks]
      /\ toClient \in Seq(ToClient)
  BY <1>0 DEF TypeInv, TypeOK, PeerOK, ConnOK
<1>1. ASSUME NEW i \in Service, PeerOpen(i), NEW j \in Service PROVE StreamInv(j)'
  <2>1. /\ UNCHANGED <<pc, tgt, smMu, sockEnded, ended, chunk, needAck, connOpen, peerUp>>
        /\ UNCHANGED <<toClient, received>>
        /\ fromClient' = Append(fromClient, [cmd |-> "OPEN", svc |-> i])
        /\ peer[i] = "idle" /\ peer' = [peer EXCEPT ![i] = "opening"]
    BY <1>1 DEF PeerOpen, PeerSend, serviceVars
  <2>2. [cmd |-> "OPEN", svc |-> i] \in FromClient
    BY DEF FromClient
  <2>3. FromQuiet(j)
    BY <2>1, <2>2 DEF FromQuiet
  <2>4. ToQuiet(j) /\ (Alive' => Alive)
    BY <2>1 DEF ToQuiet, Alive
  <2>5. peer'[j] = peer[j] \/ (peer[j] = "idle" /\ peer'[j] = "opening")
    BY <1>t, <2>1
  <2>6. Calm(j)
    BY <2>1, <2>3, <2>4, <2>5, StillCalm
  <2> QED BY <1>0, <2>6, CalmKeeps
<1>2. ASSUME NEW i \in Service, PeerWrite(i) \/ PeerClose(i), NEW j \in Service
      PROVE  StreamInv(j)'
  <2>1. CASE j = i
    BY <1>0, <1>2, <2>1, PeerSends
  <2>2. CASE j # i
    <3>1. /\ UNCHANGED <<pc, tgt, smMu, sockEnded, ended, chunk, needAck, connOpen, peerUp>>
          /\ UNCHANGED <<toClient, received>>
          /\ \E c \in {"WRTE", "CLSE"} :
               fromClient' = Append(fromClient, [cmd |-> c, svc |-> i])
          /\ \E s : peer' = [peer EXCEPT ![i] = s] \/ peer' = peer
      BY <1>2 DEF PeerWrite, PeerClose, PeerSend, serviceVars
    <3>2. \A c \in {"WRTE", "CLSE"} : /\ [cmd |-> c, svc |-> i] \in FromClient
                                      /\ [cmd |-> c, svc |-> i].svc = i
      BY DEF FromClient
    <3>3. FromQuiet(j)
      BY <2>2, <3>1, <3>2 DEF FromQuiet
    <3>4. ToQuiet(j) /\ (Alive' => Alive)
      BY <3>1 DEF ToQuiet, Alive
    <3>5. peer'[j] = peer[j]
      BY <1>t, <2>2, <3>1
    <3>6. Calm(j)
      BY <3>1, <3>3, <3>4, <3>5, StillCalm
    <3> QED BY <1>0, <3>6, CalmKeeps
  <2> QED BY <2>1, <2>2
<1>3. ASSUME PeerRecv, NEW j \in Service PROVE StreamInv(j)'
  <2>1. CASE Head(toClient).svc = j
    <3>1. NextIs(Head(toClient), j)
      BY <1>3, <2>1 DEF NextIs, PeerRecv
    <3> QED BY <1>0, <1>3, <3>1, PeerReceives
  <2>2. CASE Head(toClient).svc # j
    <3>0. PICK i : i = Head(toClient).svc
      OBVIOUS
    <3>1. i \in Service /\ i # j
      <4>1. Head(toClient) \in ToClient
        BY <1>3, <1>t, SMT DEF PeerRecv
      <4> QED BY <2>2, <3>0, <4>1 DEF ToClient
    <3>2. /\ UNCHANGED <<pc, tgt, smMu, sockEnded, ended, chunk, needAck, connOpen, peerUp>>
          /\ toClient # <<>> /\ toClient' = Tail(toClient)
          /\ \/ fromClient' = fromClient
             \/ fromClient' = Append(fromClient, [cmd |-> "OKAY", svc |-> i])
      BY <1>3, <3>0 DEF PeerRecv, serviceVars
    <3>3. peer'[j] = peer[j] /\ received'[j] = received[j]
      BY <1>3, <1>t, <3>0, <3>1 DEF PeerRecv
    <3>4. [cmd |-> "OKAY", svc |-> i] \in FromClient /\ [cmd |-> "OKAY", svc |-> i].svc = i
      BY <3>1 DEF FromClient
    <3>5. FromQuiet(j)
      BY <3>1, <3>2, <3>4 DEF FromQuiet
    <3>6. ToQuiet(j) /\ (Alive' => Alive)
      BY <2>2, <3>2 DEF ToQuiet, Alive
    <3>7. Calm(j)
      BY <3>2, <3>3, <3>5, <3>6, StillCalm
    <3> QED BY <1>0, <3>7, CalmKeeps
  <2> QED BY <2>1, <2>2
<1>4. ASSUME PeerGone, NEW j \in Service PROVE StreamInv(j)'
  <2>1. /\ UNCHANGED <<pc, tgt, smMu, sockEnded, ended, chunk, needAck, connOpen, fromClient>>
        /\ toClient' = <<>> /\ peerUp' = FALSE /\ UNCHANGED <<peer, received>>
    BY <1>4 DEF PeerGone, serviceVars, peerVars
  <2>2. ToQuiet(j) /\ FromQuiet(j) /\ ~Alive'
    BY <2>1 DEF ToQuiet, FromQuiet, Alive
  <2>3. Calm(j)
    BY <2>1, <2>2, StillCalm
  <2> QED BY <1>0, <2>3, CalmKeeps
<1> QED BY <1>1, <1>2, <1>3, <1>4 DEF PeerStep

(* Every step keeps the invariant.                                         *)
LEMMA FlowNext ==
    ASSUME FlowInv, [Next]_vars
    PROVE  FlowInv'
<1>0. LockInv /\ TypeInv /\ MapInv /\ MapSilent /\ (\A j \in Service : StreamInv(j))
  BY DEF FlowInv, LockInv
<1>1. LockInv' /\ MapInv' /\ MapSilent'
  BY <1>0, LockNext, MapNext, SilentNext
<1>2. CASE BridgeStep
  <2>1. Closer \in Enders
    BY ProcFacts
  <2> QED BY <1>1, <1>2, <2>1, FlowReader, FlowSocketEnd, FlowHandler, FlowForwarder
          DEF BridgeStep, FlowInv
<1>3. CASE PeerStep
  BY <1>1, <1>3, FlowPeer DEF FlowInv
<1>4. CASE CallServerClose
  <2>1. /\ pc[Closer] = "idle" /\ Goto(Closer, "sockEnd") /\ UNCHANGED connVars
        /\ UNCHANGED <<serviceVars, peerVars>>
    BY <1>4 DEF CallServerClose, ServerClose
  <2>2. \A q \in Proc : q # Closer => pc'[q] = pc[q]
    BY <1>0, <2>1, ProcFacts DEF Goto, TypeInv, TypeOK, PcOK
  <2>3. ASSUME NEW j \in Service PROVE StreamInv(j)'
    <3>1. /\ pc'[Reader] = pc[Reader] /\ pc'[Handler(j)] = pc[Handler(j)]
          /\ pc'[Forwarder(j)] = pc[Forwarder(j)]
      BY <2>2, ProcFacts
    <3>2. /\ UNCHANGED <<tgt, fromClient, toClient, smMu, sockEnded, connOpen, peerUp>>
          /\ UNCHANGED <<ended, chunk, needAck, peer, received>>
      BY <2>1 DEF connVars, serviceVars, peerVars
    <3>3. ASSUME Finished(j) PROVE Finished(j)'
      <4>1. ASSUME NEW q \in Proc, pc[q] = "endSet", Target(q) = j PROVE Finished(j)'
        <5>1. "idle" # "endSet"
          BY SMT
        <5>2. pc'[q] = pc[q] /\ Target(q)' = j
          BY <2>1, <2>2, <3>2, <4>1, <5>1 DEF Target
        <5> QED BY <4>1, <5>2 DEF Finished
      <4> QED BY <3>2, <3>3, <4>1 DEF Finished
    <3>4. Onward(j) /\ ToQuiet(j) /\ FromQuiet(j)
      BY <3>2, <3>3 DEF Onward, Alive, ToQuiet, FromQuiet
    <3>5. ReaderQuiet(j) /\ HandlerQuiet(j) /\ Fwd(j)' = Fwd(j)
      BY <3>1, <3>2 DEF ReaderQuiet, HandlerQuiet, Fwd, ReadsOkay, ReadsWrite, ReadsClose
    <3>6. Calm(j)
      BY <3>2, <3>4, <3>5 DEF Calm
    <3> QED BY <1>0, <3>6, CalmKeeps
  <2> QED BY <1>1, <2>3 DEF FlowInv
<1>5. CASE (\E i \in Service : DeviceEOF(i)) \/ UNCHANGED vars
  <2>1. /\ UNCHANGED <<pc, tgt, smMu, sockEnded, ended, chunk, needAck, connOpen, peerUp>>
        /\ UNCHANGED <<toClient, fromClient, peer, received>>
    BY <1>5 DEF DeviceEOF, vars, socketVars, connVars, serviceVars, peerVars
  <2>2. ASSUME NEW j \in Service PROVE StreamInv(j)'
    <3>1. ToQuiet(j) /\ FromQuiet(j) /\ (Alive' => Alive)
      BY <2>1 DEF ToQuiet, FromQuiet, Alive
    <3>2. Calm(j)
      BY <2>1, <3>1, StillCalm
    <3> QED BY <1>0, <3>2, CalmKeeps
  <2> QED BY <1>1, <2>2 DEF FlowInv
<1> QED BY <1>2, <1>3, <1>4, <1>5 DEF Next


(* It holds at the start, when nothing has been sent.                      *)
LEMMA FlowInit ==
    ASSUME Init
    PROVE  FlowInv
<1>1. LockInv /\ MapInv
  BY LockInit, MapInit
<1>2. MapSilent
  BY ProcFacts DEF Init, SocketInit, MapSilent
<1>3. ASSUME NEW i \in Service PROVE StreamInv(i)
  <2>1. /\ toClient = <<>> /\ fromClient = <<>> /\ pc[Reader] = "read" /\ pc[Handler(i)] = "off"
        /\ Fwd(i) = "off" /\ ~ended[i] /\ ~needAck[i] /\ chunk[i] = 0 /\ received[i] = 0
        /\ peer[i] = "idle"
    BY ProcFacts DEF Init, SocketInit, ServiceInit, Fwd
  <2>2. \A n : n \notin 1..Len(<<>>)
    BY SMT
  <2>3. /\ \A cmd : ~In(toClient, i, cmd) /\ ~In(fromClient, i, cmd)
        /\ AtMostOne(toClient, i, "WRTE") /\ AtMostOne(fromClient, i, "OKAY")
        /\ \A d : Carries(toClient, i, d)
        /\ CloseLast(toClient, i) /\ OkayFirst(toClient, i)
    BY <2>1, <2>2 DEF In, AtMostOne, Carries, CloseLast, OkayFirst
  <2>4. ~ReadsOkay(i) /\ ~ReadsWrite(i) /\ ~ReadsClose(i)
    <3>1. "read" \notin {"OKAY", "WRTE", "devWrite", "ackWrite", "ackSend", "ackDone", "CLSE"}
            /\ "read" \notin EndLabels
      BY SMT DEF EndLabels
    <3> QED BY <2>1, <3>1 DEF ReadsOkay, ReadsWrite, ReadsClose
  <2>5. /\ "idle" \notin {"open", "closing"} /\ "idle" # "closed" /\ "off" \notin Late
        /\ "off" \notin {"closeDone", "exit"} /\ "off" \notin {"devRead"} \cup Sending
        /\ "off" # "setOpened"
    BY SMT DEF Late, EndLabels, Sending
  <2>6. KnownInv(i) /\ EndedInv(i)
    BY <2>1, <2>3, <2>4, <2>5 DEF KnownInv, EndedInv, Told
  <2>7. WindowInv(i) /\ ChunkInv(i)
    BY <2>1, <2>3, <2>4, <2>5 DEF WindowInv, ChunkInv, Unacked
  <2>8. CloseInv(i) /\ OkayInv(i)
    BY <2>1, <2>3, <2>5 DEF CloseInv, OkayInv
  <2> QED BY <2>6, <2>7, <2>8 DEF StreamInv
<1> QED BY <1>1, <1>2, <1>3 DEF FlowInv

(* So it holds throughout.                                                 *)
LEMMA FlowAlways == Spec => []FlowInv
<1>1. Init => FlowInv
  BY FlowInit
<1>2. FlowInv /\ [Next]_vars => FlowInv'
  BY FlowNext
<1> QED BY <1>1, <1>2, PTL DEF Spec

-----------------------------------------------------------------------------
(* The results.                                                            *)

FST == INSTANCE FiniteSetTheorems

(* The cardinality of the library's theorems is that of the model.         *)
LEMMA SameCardinality == \A S : Cardinality(S) = FST!Cardinality(S)
<1> QED BY DEF Cardinality, FST!Cardinality

(* The number of packets of one kind, when there is at most one.           *)
LEMMA CountOne ==
    ASSUME NEW s, NEW i, NEW cmd, AtMostOne(s, i, cmd), NEW P,
           \A n : n \in P <=> n \in 1..Len(s) /\ Is(s[n], i, cmd)
    PROVE  Cardinality(P) = IF In(s, i, cmd) THEN 1 ELSE 0
<1>2. CASE In(s, i, cmd)
  <2>1. PICK n \in P : TRUE
    BY <1>2 DEF In
  <2>2. P = {n}
    BY <2>1 DEF AtMostOne
  <2> QED BY <1>2, <2>2, SameCardinality, FST!FS_Singleton
<1>3. CASE ~In(s, i, cmd)
  <2>1. P = {}
    BY <1>3 DEF In
  <2> QED BY <1>3, <2>1, SameCardinality, FST!FS_EmptySet
<1> QED BY <1>2, <1>3

(* Flow control works for any number of streams, chunks and packets in     *)
(* flight: forwardFromDevice never has two WRTE unacknowledged, although   *)
(* needAck is set only after the WRTE has been written and is cleared by   *)
(* another goroutine.                                                      *)
THEOREM OneChunkUnacked == Spec => []WindowOfOne
<1>1. ASSUME FlowInv PROVE WindowOfOne
  <2> SUFFICES ASSUME NEW i \in Service
               PROVE  LET handling == IF pc[Reader] = "OKAY" /\ tgt[Reader] = i THEN 1 ELSE 0
                          unacked == Cardinality(Positions(i, "WRTE")) + Cardinality(Acks(i))
                                       + handling
                      IN /\ unacked <= 1
                         /\ unacked = 1 => needAck[i] \/ pc[Forwarder(i)] = "pushSet"
    BY DEF WindowOfOne
  <2> DEFINE w == Cardinality(Positions(i, "WRTE"))
             a == Cardinality(Acks(i))
             h == IF pc[Reader] = "OKAY" /\ tgt[Reader] = i THEN 1 ELSE 0
  <2>1. WindowInv(i)
    BY <1>1 DEF FlowInv, StreamInv
  <2>2. w = IF In(toClient, i, "WRTE") THEN 1 ELSE 0
    <3>1. \A n : n \in Positions(i, "WRTE") <=>
                  n \in 1..Len(toClient) /\ Is(toClient[n], i, "WRTE")
      BY DEF Positions, Is
    <3> QED BY <2>1, <3>1, CountOne DEF WindowInv
  <2>3. a = IF In(fromClient, i, "OKAY") THEN 1 ELSE 0
    <3>1. \A n : n \in Acks(i) <=>
                  n \in 1..Len(fromClient) /\ Is(fromClient[n], i, "OKAY")
      BY DEF Acks, Is
    <3> QED BY <2>1, <3>1, CountOne DEF WindowInv
  <2>4. h = IF ReadsOkay(i) THEN 1 ELSE 0
    BY DEF ReadsOkay
  <2> HIDE DEF w, a, h
  <2>5. /\ w = 1 \/ w = 0
        /\ a = 1 \/ a = 0
        /\ h = 1 \/ h = 0
        /\ w = 1 => a = 0 /\ h = 0
        /\ h = 1 => a = 0
        /\ w = 1 \/ a = 1 \/ h = 1 => needAck[i] \/ pc[Forwarder(i)] = "pushSet"
    <3>1. 0 # 1
      BY SMT
    <3> QED BY <2>1, <2>2, <2>3, <2>4, <3>1 DEF WindowInv, Unacked, Fwd
  <2>6. w + a + h <= 1 /\ (w + a + h = 1 => w = 1 \/ a = 1 \/ h = 1)
    BY <2>5, SMT
  <2>7. w + a + h = 1 => needAck[i] \/ pc[Forwarder(i)] = "pushSet"
    BY <2>5, <2>6
  <2> QED BY <2>6, <2>7 DEF w, a, h
<1> QED BY <1>1, FlowAlways, PTL

(* The device's chunks reach the peer in order, each once, after the OKAY  *)
(* and before the CLSE of their stream, whoever of reader, handler and     *)
(* forwarder writes the packets.                                           *)
THEOREM OrderKept == Spec => []PacketsInOrder
<1>1. ASSUME FlowInv PROVE PacketsInOrder
  <2> SUFFICES ASSUME NEW i \in Service
               PROVE  /\ \A n \in Positions(i, "WRTE") : toClient[n].data = received[i] + 1
                      /\ \A n \in Positions(i, "CLSE") : \A m \in 1..Len(toClient) :
                           toClient[m].svc = i => m <= n
                      /\ peer[i] = "closed" => \A m \in 1..Len(toClient) : toClient[m].svc # i
                      /\ \A n \in Positions(i, "WRTE") :
                           peer[i] = "opening" => \E m \in Positions(i, "OKAY") : m < n
    BY DEF PacketsInOrder
  <2>0. ChunkInv(i) /\ CloseInv(i) /\ OkayInv(i)
    BY <1>1 DEF FlowInv, StreamInv
  <2>1. \A cmd : \A n : n \in Positions(i, cmd) <=>
                          n \in 1..Len(toClient) /\ Is(toClient[n], i, cmd)
    BY DEF Positions, Is
  <2>2. \A n \in Positions(i, "WRTE") : toClient[n].data = received[i] + 1
    BY <2>0, <2>1 DEF ChunkInv, Carries, In
  <2>3. \A n \in Positions(i, "CLSE") : \A m \in 1..Len(toClient) :
          toClient[m].svc = i => m <= n
    BY <2>0, <2>1 DEF CloseInv, CloseLast
  <2>4. peer[i] = "closed" => \A m \in 1..Len(toClient) : toClient[m].svc # i
    BY <2>0 DEF CloseInv, NoneOf
  <2>5. \A n \in Positions(i, "WRTE") :
          peer[i] = "opening" => \E m \in Positions(i, "OKAY") : m < n
    BY <2>0, <2>1 DEF OkayInv, Fresh, OkayFirst
  <2> QED BY <2>2, <2>3, <2>4, <2>5
<1> QED BY <1>1, FlowAlways, PTL

(* A peer that is told CLSE on a stream it has not closed has received     *)
(* every chunk that forwardFromDevice read: neither the end of the device  *)
(* stream nor an End by another goroutine overtakes a chunk.               *)
THEOREM CloseComes == Spec => []CompleteBeforeClose
<1>1. ASSUME FlowInv PROVE CompleteBeforeClose
  <2> SUFFICES ASSUME NEW i \in Service, toClient # <<>>, Is(Head(toClient), i, "CLSE"),
                      peer[i] = "open"
               PROVE  received[i] = chunk[i]
    BY DEF CompleteBeforeClose, Is
  <2>0. CloseInv(i) /\ toClient \in Seq(ToClient)
    BY <1>1 DEF FlowInv, StreamInv, LockInv, TypeInv, TypeOK, ConnOK
  <2>1. In(toClient, i, "CLSE") /\ NoneOf(Tail(toClient), i)
    BY <2>0, TailFacts DEF CloseInv
  <2>2. ~In(toClient, i, "WRTE")
    <3>1. ~In(Tail(toClient), i, "WRTE")
      BY <2>1 DEF NoneOf, In, Is
    <3>2. ~Is(Head(toClient), i, "WRTE")
      <4>1. "CLSE" # "WRTE"
        BY SMT
      <4> QED BY <4>1 DEF Is
    <3> QED BY <2>0, <3>1, <3>2, TailFacts
  <2>3. ~Left(i)
    <3>1. "open" \notin {"closing", "closed"}
      BY SMT
    <3> QED BY <3>1 DEF Left
  <2> QED BY <2>0, <2>1, <2>2, <2>3 DEF CloseInv
<1> QED BY <1>1, FlowAlways, PTL

=============================================================================
