------------------------------- MODULE Socket -------------------------------
(***************************************************************************)
(* One connection of an adb host to the bridge: tcpusb/socket.go with its  *)
(* tcpusb/service_map.go, after the handshake (see Handshake.tla) has      *)
(* authorized the peer.  The goroutines that act on a connection are       *)
(*                                                                         *)
(*   Reader        Socket.Start: reads packets and handles them in turn    *)
(*   Closer        a goroutine in Server.Close that calls Socket.End       *)
(*   Handler(i)    the goroutine handleOpenPacket starts for service i     *)
(*   Forwarder(i)  the goroutine Service.forwardFromDevice of service i    *)
(*                                                                         *)
(* pc[p] is the point at which goroutine p is about to take a step.  A     *)
(* step runs from one lock acquisition, blocking call or unsynchronized    *)
(* access to the next.  A mutex is the goroutine that holds it, or Free.   *)
(* Socket.mu is never held across a blocking call on this path, so its     *)
(* critical sections are part of the step that contains them.              *)
(***************************************************************************)
EXTENDS Naturals, Sequences, FiniteSets

CONSTANTS
    Service,    \* the services (streams) the peer may open
    ConnCap,    \* packets the TCP send buffer towards the peer holds
    MaxChunks   \* reads of device data modelled per service

ASSUME ConnCapAssumption == ConnCap \in Nat \ {0}
ASSUME MaxChunksAssumption == MaxChunks \in Nat

VARIABLES
    pc,         \* where each goroutine is
    tgt,        \* the service Reader or Closer is working on
    sockEnded,  \* Socket.ended
    connOpen,   \* conn.Close has not been called
    peerUp,     \* the peer has not dropped the TCP connection
    fromClient, \* packets the peer sent that are not yet handled
    toClient,   \* packets written to conn that the peer has not read
    writeMu,    \* Socket.writeMu
    smMu,       \* ServiceMap.mu, when held across a blocking call
    services,   \* ServiceMap.services: the services that are in the map
    toEnd       \* what the range loop of ServiceMap.End has still to visit

connVars == <<tgt, sockEnded, connOpen, peerUp, fromClient, toClient,
              writeMu, smMu, services, toEnd>>
socketVars == <<pc, connVars>>

Reader == <<"reader">>
Closer == <<"closer">>
Handler(i) == <<"handler", i>>
Forwarder(i) == <<"forwarder", i>>
Free == <<"free">>

Enders == {Reader, Closer}
Handlers == {Handler(i) : i \in Service}
Forwarders == {Forwarder(i) : i \in Service}
Proc == Enders \cup Handlers \cup Forwarders

NoService == <<"none">>

(* The service goroutine p works on. *)
Target(p) == IF p \in Enders THEN tgt[p] ELSE p[2]

FromClient == [cmd : {"OPEN", "OKAY", "WRTE", "CLSE"}, svc : Service]

(* arg0 tells whether the packet carries the service's localID or zero;    *)
(* data is the number of the device chunk a WRTE carries.                  *)
ToClient == [cmd : {"OKAY", "WRTE", "CLSE"}, svc : Service,
             arg0 : {"localID", "zero"}, data : 0..MaxChunks]

Packet(cmd, i, id, n) == [cmd |-> cmd, svc |-> i, arg0 |-> id, data |-> n]

Goto(p, label) == pc' = [pc EXCEPT ![p] = label]

-----------------------------------------------------------------------------
(* Socket.Write: take writeMu and give up if the socket has ended; then    *)
(* conn.Write, which blocks while the send buffer is full.  A write to a   *)
(* closed connection or a lost peer fails; callers ignore the error.       *)

WriteLock(p, here, send, skip) ==
    /\ pc[p] = here
    /\ writeMu = Free
    /\ IF sockEnded
         THEN Goto(p, skip) /\ UNCHANGED writeMu
         ELSE Goto(p, send) /\ writeMu' = p
    /\ UNCHANGED <<tgt, sockEnded, connOpen, peerUp, fromClient, toClient,
                   smMu, services, toEnd>>

WriteConn(p, here, next, packet) ==
    /\ pc[p] = here
    /\ IF connOpen /\ peerUp
         THEN Len(toClient) < ConnCap /\ toClient' = Append(toClient, packet)
         ELSE UNCHANGED toClient
    /\ writeMu' = Free
    /\ Goto(p, next)
    /\ UNCHANGED <<tgt, sockEnded, connOpen, peerUp, fromClient,
                   smMu, services, toEnd>>

-----------------------------------------------------------------------------
(* Socket.Start and Socket.handle.  The packet being handled stays at the  *)
(* head of fromClient until it is dispatched.                              *)

ReadPacket ==
    /\ pc[Reader] = "read"
    /\ connOpen
    /\ fromClient # <<>>
    /\ IF sockEnded
         THEN fromClient' = Tail(fromClient) /\ UNCHANGED pc
         ELSE Goto(Reader, "dispatch") /\ UNCHANGED fromClient
    /\ UNCHANGED <<tgt, sockEnded, connOpen, peerUp, toClient, writeMu, smMu,
                   services, toEnd>>

(* ReadPacket fails at the end of the stream or on a closed connection.    *)
ReadError ==
    /\ pc[Reader] = "read"
    /\ ~connOpen \/ (~peerUp /\ fromClient = <<>>)
    /\ Goto(Reader, "sockEnd")
    /\ UNCHANGED connVars

(* Socket.handleOpenPacket: insert the service and start its goroutine.    *)
(* Count only takes and releases ServiceMap.mu for reading.                *)
HandleOpen ==
    /\ pc[Reader] = "dispatch"
    /\ Head(fromClient).cmd = "OPEN"
    /\ smMu = Free
    /\ LET i == Head(fromClient).svc IN
         /\ services' = services \cup {i}
         /\ pc' = [pc EXCEPT ![Reader] = "read", ![Handler(i)] = "dial"]
    /\ fromClient' = Tail(fromClient)
    /\ UNCHANGED <<tgt, sockEnded, connOpen, peerUp, toClient, writeMu, smMu,
                   toEnd>>

(* Socket.forwardServicePacket and Service.Handle: look the service up and *)
(* enter its handler; a packet for an unknown service is ignored.          *)
ForwardServicePacket ==
    /\ pc[Reader] = "dispatch"
    /\ Head(fromClient).cmd # "OPEN"
    /\ smMu = Free
    /\ IF Head(fromClient).svc \in services
         THEN /\ tgt' = [tgt EXCEPT ![Reader] = Head(fromClient).svc]
              /\ Goto(Reader, Head(fromClient).cmd)
         ELSE /\ Goto(Reader, "read")
              /\ UNCHANGED tgt
    /\ fromClient' = Tail(fromClient)
    /\ UNCHANGED <<sockEnded, connOpen, peerUp, toClient, writeMu, smMu,
                   services, toEnd>>

(* A handler returned ErrPrematurePacket: Start returns, running End.      *)
ReturnPremature ==
    /\ pc[Reader] = "premature"
    /\ Goto(Reader, "sockEnd")
    /\ UNCHANGED connVars

-----------------------------------------------------------------------------
(* Socket.End, called by Reader when Start returns and by Closer.          *)

ServerClose ==
    /\ pc[Closer] = "idle"
    /\ Goto(Closer, "sockEnd")
    /\ UNCHANGED connVars

SocketEnd(p) ==
    /\ pc[p] = "sockEnd"
    /\ Goto(p, IF sockEnded THEN "done" ELSE "mapLock")
    /\ sockEnded' = TRUE
    /\ UNCHANGED <<tgt, connOpen, peerUp, fromClient, toClient, writeMu, smMu,
                   services, toEnd>>

(* ServiceMap.End holds ServiceMap.mu while it ends every service.         *)
MapEndLock(p) ==
    /\ pc[p] = "mapLock"
    /\ smMu = Free
    /\ smMu' = p
    /\ toEnd' = services
    /\ Goto(p, "mapNext")
    /\ UNCHANGED <<tgt, sockEnded, connOpen, peerUp, fromClient, toClient,
                   writeMu, services>>

MapEndNext(p) ==
    /\ pc[p] = "mapNext"
    /\ \E i \in toEnd :
         /\ tgt' = [tgt EXCEPT ![p] = i]
         /\ toEnd' = toEnd \ {i}
    /\ Goto(p, "endLock")
    /\ UNCHANGED <<sockEnded, connOpen, peerUp, fromClient, toClient, writeMu,
                   smMu, services>>

MapEndUnlock(p) ==
    /\ pc[p] = "mapNext"
    /\ toEnd = {}
    /\ services' = {}
    /\ smMu' = Free
    /\ Goto(p, "connClose")
    /\ UNCHANGED <<tgt, sockEnded, connOpen, peerUp, fromClient, toClient,
                   writeMu, toEnd>>

ConnClose(p) ==
    /\ pc[p] = "connClose"
    /\ connOpen' = FALSE
    /\ Goto(p, "done")
    /\ UNCHANGED <<tgt, sockEnded, peerUp, fromClient, toClient, writeMu, smMu,
                   services, toEnd>>

(* Mutant of MapRemove: the map is cleared.                                *)
MapClear(i) ==
    /\ pc[Handler(i)] = "remove"
    /\ smMu = Free
    /\ services' = {}
    /\ Goto(Handler(i), "endLock")
    /\ UNCHANGED <<tgt, sockEnded, connOpen, peerUp, fromClient, toClient,
                   writeMu, smMu, toEnd>>

(* ServiceMap.Remove and Count, in the deferred function of Handler(i).    *)
MapRemove(i) ==
    /\ pc[Handler(i)] = "remove"
    /\ smMu = Free
    /\ services' = services \ {i}
    /\ Goto(Handler(i), "endLock")
    /\ UNCHANGED <<tgt, sockEnded, connOpen, peerUp, fromClient, toClient,
                   writeMu, smMu, toEnd>>

SocketInit ==
    /\ pc = [p \in Proc |-> IF p = Reader THEN "read"
                            ELSE IF p = Closer THEN "idle" ELSE "off"]
    /\ tgt = [p \in Enders |-> NoService]
    /\ sockEnded = FALSE
    /\ connOpen = TRUE
    /\ peerUp = TRUE
    /\ fromClient = <<>>
    /\ toClient = <<>>
    /\ writeMu = Free
    /\ smMu = Free
    /\ services = {}
    /\ toEnd = {}

=============================================================================
