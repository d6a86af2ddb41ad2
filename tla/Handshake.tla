----------------------------- MODULE Handshake ------------------------------
(***************************************************************************)
(* The handshake of a connection: Socket.handle and the handlers of CNXN,  *)
(* AUTH and SYNC in tcpusb/socket.go, with the authorization checks of     *)
(* OPEN and of the packets that belong to a stream.  The client may send   *)
(* any packet at any time; a second goroutine may call Socket.End.         *)
(*                                                                         *)
(* Socket.mu is held across a blocking call in one place, while sendCNXN   *)
(* asks the device for its serial number; there pc[Reader] = "serial".     *)
(* What End does to the services is in Bridge.tla.                         *)
(***************************************************************************)
EXTENDS Naturals, Sequences

CONSTANTS
    Uint16Max,      \* UINT16_MAX, the largest payload the bridge agrees to
    DefaultPayload, \* maxPayload of a new Socket
    MaxPackets      \* packets the client sends

ASSUME PayloadAssumption ==
    Uint16Max \in Nat /\ DefaultPayload \in Nat /\ DefaultPayload < Uint16Max
ASSUME MaxPacketsAssumption == MaxPackets \in Nat

VARIABLES
    pc,         \* where Reader (Socket.Start) and Closer are
    packet,     \* the packet Reader handles
    reply,      \* the packet Reader is about to write
    ended,      \* Socket.ended
    connOpen,   \* conn.Close has not been called
    maxPayload, \* Socket.maxPayload
    token,      \* Socket.token: 0 is nil, n the n-th token created
    signature,  \* Socket.signature # nil
    authorized, \* Socket.authorized
    started,    \* services started by OPEN
    sent,       \* packets written to the connection
    asked,      \* Arg1 of the last CNXN that the client sent
    accepted,   \* the AuthHandler has accepted a key
    received    \* packets read from the client

vars == <<pc, packet, reply, ended, connOpen, maxPayload, token, signature,
          authorized, started, sent, asked, accepted, received>>

Proc == {"reader", "closer"}

(* kind is Arg0 of an AUTH and arg is Arg1 of a CNXN; data is the length   *)
(* of the payload, which matters only up to 2.                             *)
Request ==
    [cmd : {"CNXN"}, kind : {"none"}, arg : 0..(Uint16Max + 1), data : {0}]
      \cup [cmd : {"AUTH"}, kind : {"SIGNATURE", "RSAPUBLICKEY", "OTHER"},
            arg : {0}, data : 0..2]
      \cup [cmd : {"OPEN"}, kind : {"none"}, arg : {0}, data : 0..2]
      \cup [cmd : {"SYNC", "STREAM", "UNKNOWN"}, kind : {"none"}, arg : {0}, data : {0}]

(* arg is the token of an AUTH and the payload size of a CNXN.             *)
Answer(cmd, arg) == [cmd |-> cmd, arg |-> arg]

Goto(p, label) == pc' = [pc EXCEPT ![p] = label]

(* What Reader's steps outside the handlers leave alone.                   *)
socketFields == <<maxPayload, token, signature, authorized, started, asked, accepted>>

-----------------------------------------------------------------------------
(* Socket.Start and Socket.handle.                                         *)

ReadPacket ==
    /\ pc["reader"] = "read"
    /\ connOpen
    /\ received < MaxPackets
    /\ packet' \in Request
    /\ received' = received + 1
    /\ Goto("reader", "handle")
    /\ UNCHANGED <<reply, ended, connOpen, sent, socketFields>>

(* The client leaves, the stream is corrupt or the connection is closed.   *)
ReadError ==
    /\ pc["reader"] = "read"
    /\ Goto("reader", "end")
    /\ UNCHANGED <<packet, reply, ended, connOpen, sent, received, socketFields>>

Handle ==
    /\ pc["reader"] = "handle"
    /\ Goto("reader", IF ended THEN "read" ELSE "dispatch")
    /\ UNCHANGED <<packet, reply, ended, connOpen, sent, received, socketFields>>

(* Return an error, which makes Start return too.                          *)
Fail ==
    /\ Goto("reader", "end")
    /\ UNCHANGED <<packet, reply, ended, connOpen, sent, received, socketFields>>

(* Assemble a packet and call Socket.Write with it.                        *)
Write(answer) ==
    /\ reply' = answer
    /\ Goto("reader", "write")
    /\ UNCHANGED <<packet, ended, connOpen, sent, received>>

HandleUnknown ==
    /\ pc["reader"] = "dispatch"
    /\ packet.cmd = "UNKNOWN"
    /\ Fail

HandleSyncPacket ==
    /\ pc["reader"] = "dispatch"
    /\ packet.cmd = "SYNC"
    /\ Write(Answer("SYNC", 0))
    /\ UNCHANGED socketFields

(* Mutant of HandleConnectionPacket: takes Arg1 as it is.                  *)
HandleConnectionUncapped ==
    /\ pc["reader"] = "dispatch"
    /\ packet.cmd = "CNXN"
    /\ maxPayload' = packet.arg
    /\ asked' = packet.arg
    /\ Goto("reader", "token")
    /\ UNCHANGED <<packet, reply, ended, connOpen, token, signature, authorized,
                   started, sent, accepted, received>>

(* Socket.handleConnectionPacket, up to the creation of the token.         *)
HandleConnectionPacket ==
    /\ pc["reader"] = "dispatch"
    /\ packet.cmd = "CNXN"
    /\ maxPayload' = IF packet.arg < Uint16Max THEN packet.arg ELSE Uint16Max
    /\ asked' = packet.arg
    /\ Goto("reader", "token")
    /\ UNCHANGED <<packet, reply, ended, connOpen, token, signature, authorized,
                   started, sent, accepted, received>>

(* Mutant of CreateToken: sends the challenge without storing it.          *)
TokenNotStored ==
    /\ pc["reader"] = "token"
    /\ Write(Answer("AUTH", token + 1))
    /\ UNCHANGED socketFields

(* rand.Read, which may fail, then s.token and the challenge.              *)
CreateToken ==
    /\ pc["reader"] = "token"
    /\ \/ Fail
       \/ /\ token' = token + 1
          /\ Write(Answer("AUTH", token + 1))
          /\ UNCHANGED <<maxPayload, signature, authorized, started, asked, accepted>>

-----------------------------------------------------------------------------
(* Socket.handleAuthPacket.                                                *)

(* Keep the first signature (an empty payload is nil) and challenge again. *)
HandleSignature ==
    /\ pc["reader"] = "dispatch"
    /\ packet.cmd = "AUTH" /\ packet.kind = "SIGNATURE"
    /\ signature' = (signature \/ packet.data > 0)
    /\ Write(Answer("AUTH", token))
    /\ UNCHANGED <<maxPayload, token, authorized, started, asked, accepted>>

HandlePublicKey ==
    /\ pc["reader"] = "dispatch"
    /\ packet.cmd = "AUTH" /\ packet.kind = "RSAPUBLICKEY"
    /\ Goto("reader", IF signature /\ packet.data >= 2 THEN "authHandler" ELSE "end")
    /\ UNCHANGED <<packet, reply, ended, connOpen, sent, received, socketFields>>

HandleOtherAuth ==
    /\ pc["reader"] = "dispatch"
    /\ packet.cmd = "AUTH" /\ packet.kind = "OTHER"
    /\ Fail

(* Mutant of CallAuthHandler: ignores what the AuthHandler returns.        *)
AuthHandlerIgnored ==
    /\ pc["reader"] = "authHandler"
    /\ accepted' \in {accepted, TRUE}
    /\ authorized' = TRUE
    /\ Goto("reader", "cnxn")
    /\ UNCHANGED <<packet, reply, ended, connOpen, sent, received, maxPayload,
                   token, signature, started, asked>>

(* The AuthHandler rejects the key or accepts it.                          *)
CallAuthHandler ==
    /\ pc["reader"] = "authHandler"
    /\ \/ Fail
       \/ /\ accepted' = TRUE
          /\ authorized' = TRUE
          /\ Goto("reader", "cnxn")
          /\ UNCHANGED <<packet, reply, ended, connOpen, sent, received,
                         maxPayload, token, signature, started, asked>>

(* Socket.sendCNXN takes s.mu and asks the device for its serial number.   *)
LockCnxn ==
    /\ pc["reader"] = "cnxn"
    /\ Goto("reader", "serial")
    /\ UNCHANGED <<packet, reply, ended, connOpen, sent, received, socketFields>>

(* Mutant of SendCnxn: returns without the CNXN.                           *)
SendCnxnNot ==
    /\ pc["reader"] = "serial"
    /\ Goto("reader", "read")
    /\ UNCHANGED <<packet, reply, ended, connOpen, sent, received, socketFields>>

SendCnxn ==
    /\ pc["reader"] = "serial"
    /\ Write(Answer("CNXN", maxPayload))
    /\ UNCHANGED socketFields

-----------------------------------------------------------------------------
(* Packets that need an authorized client.                                 *)

HandleOpenPacket ==
    /\ pc["reader"] = "dispatch"
    /\ packet.cmd = "OPEN"
    /\ \/ (~authorized \/ packet.data < 2) /\ Fail
       \/ /\ authorized /\ packet.data >= 2
          /\ started' = started + 1
          /\ Goto("reader", "read")
          /\ UNCHANGED <<packet, reply, ended, connOpen, sent, received,
                         maxPayload, token, signature, authorized, asked, accepted>>

ForwardServicePacket ==
    /\ pc["reader"] = "dispatch"
    /\ packet.cmd = "STREAM"
    /\ Goto("reader", IF authorized THEN "read" ELSE "end")
    /\ UNCHANGED <<packet, reply, ended, connOpen, sent, received, socketFields>>

-----------------------------------------------------------------------------
(* Socket.Write: refuses once the socket has ended; conn.Write may fail.   *)

WriteCheck ==
    /\ pc["reader"] = "write"
    /\ Goto("reader", IF ended THEN "end" ELSE "send")
    /\ UNCHANGED <<packet, reply, ended, connOpen, sent, received, socketFields>>

WriteConn ==
    /\ pc["reader"] = "send"
    /\ \/ Fail
       \/ /\ connOpen
          /\ sent' = Append(sent, reply)
          /\ Goto("reader", "read")
          /\ UNCHANGED <<packet, reply, ended, connOpen, received, socketFields>>

-----------------------------------------------------------------------------
(* Socket.End, by Reader when Start returns and by Closer.                 *)

CallEnd ==
    /\ pc["closer"] = "idle"
    /\ Goto("closer", "end")
    /\ UNCHANGED <<packet, reply, ended, connOpen, sent, received, socketFields>>

(* Mutant of EndLock: returns without closing the connection.             *)
EndLockReturns(p) ==
    /\ pc[p] = "end"
    /\ pc["reader"] # "serial"
    /\ Goto(p, "done")
    /\ ended' = TRUE
    /\ UNCHANGED <<packet, reply, connOpen, sent, received, socketFields>>

EndLock(p) ==
    /\ pc[p] = "end"
    /\ pc["reader"] # "serial"
    /\ Goto(p, IF ended THEN "done" ELSE "close")
    /\ ended' = TRUE
    /\ UNCHANGED <<packet, reply, connOpen, sent, received, socketFields>>

CloseConn(p) ==
    /\ pc[p] = "close"
    /\ connOpen' = FALSE
    /\ Goto(p, "done")
    /\ UNCHANGED <<packet, reply, ended, sent, received, socketFields>>

End(p) == EndLock(p) \/ CloseConn(p)

Dispatch ==
    \/ HandleUnknown \/ HandleSyncPacket \/ HandleConnectionPacket
    \/ HandleSignature \/ HandlePublicKey \/ HandleOtherAuth
    \/ HandleOpenPacket \/ ForwardServicePacket

Reader ==
    \/ Handle \/ Dispatch \/ CreateToken \/ CallAuthHandler \/ LockCnxn
    \/ SendCnxn \/ WriteCheck \/ WriteConn
    \/ End("reader")

Stopped == pc["reader"] = "done" /\ pc["closer"] \in {"idle", "done"}

Next ==
    \/ ReadPacket \/ ReadError \/ Reader
    \/ CallEnd \/ End("closer")
    \/ Stopped /\ UNCHANGED vars

Init ==
    /\ pc = [p \in Proc |-> IF p = "reader" THEN "read" ELSE "idle"]
    /\ packet = [cmd |-> "SYNC", kind |-> "none", arg |-> 0, data |-> 0]
    /\ reply = Answer("SYNC", 0)
    /\ ended = FALSE
    /\ connOpen = TRUE
    /\ maxPayload = DefaultPayload
    /\ token = 0
    /\ signature = FALSE
    /\ authorized = FALSE
    /\ started = 0
    /\ sent = <<>>
    /\ asked = DefaultPayload
    /\ accepted = FALSE
    /\ received = 0

Spec == Init /\ [][Next]_vars

(* Goroutines run, the AuthHandler and the adb server answer; a read fails *)
(* for certain only on a closed connection.                                *)
FairSpec ==
    /\ Spec
    /\ WF_vars(Reader)
    /\ WF_vars(~connOpen /\ ReadError)
    /\ WF_vars(End("closer"))

-----------------------------------------------------------------------------
(* Properties.                                                             *)

ReaderLabels == {"read", "handle", "dispatch", "token", "authHandler", "cnxn",
                 "serial", "write", "send", "end", "close", "done"}

(* Every variable stays in its range; the payload size never exceeds what  *)
(* fits in 16 bits.                                                        *)
TypeOK ==
    /\ pc \in [Proc -> ReaderLabels \cup {"idle"}]
    /\ pc["reader"] \in ReaderLabels
    /\ pc["closer"] \in {"idle", "end", "close", "done"}
    /\ packet \in Request
    /\ reply \in [cmd : {"SYNC", "AUTH", "CNXN"}, arg : Nat]
    /\ sent \in Seq([cmd : {"SYNC", "AUTH", "CNXN"}, arg : Nat])
    /\ ended \in BOOLEAN /\ connOpen \in BOOLEAN
    /\ signature \in BOOLEAN /\ authorized \in BOOLEAN /\ accepted \in BOOLEAN
    /\ maxPayload \in 0..Uint16Max /\ asked \in Nat
    /\ token \in Nat /\ started \in Nat /\ received \in 0..MaxPackets

(* A client is authorized only after the AuthHandler accepted its key, and *)
(* that only after a signature; it is told CNXN only when it is authorized *)
(* and opens services only then.  (And every variable keeps its type.)     *)
NothingBeforeAuth ==
    /\ TypeOK
    /\ authorized => accepted /\ signature
    /\ started > 0 => authorized
    /\ \A n \in 1..Len(sent) : sent[n].cmd = "CNXN" => authorized

(* No client is told CNXN that was not challenged before: every CNXN on    *)
(* the wire comes after an AUTH.                                           *)
ChallengedFirst ==
    \A n \in 1..Len(sent) : sent[n].cmd = "CNXN" =>
      \E m \in 1..(n - 1) : sent[m].cmd = "AUTH"

(* The last challenge on the wire is the token that the socket keeps.      *)
LastIsToken ==
    \A n \in 1..Len(sent) :
      \/ sent[n] = Answer("AUTH", token)
      \/ sent[n].cmd # "AUTH"
      \/ \E m \in (n + 1)..Len(sent) : sent[m].cmd = "AUTH"

(* Challenges come before any CNXN, and whenever Reader turns to the next  *)
(* packet the client has been sent the token that a later AUTH is about.   *)
ChallengesSound ==
    /\ ChallengedFirst
    /\ pc["reader"] \in {"read", "handle", "dispatch", "authHandler", "cnxn", "serial"}
         => LastIsToken

(* A CNXN carries the size the client asked for last, or UINT16_MAX if     *)
(* that is smaller: the bridge agrees to no more than was offered.         *)
PayloadAgreed ==
    [][\A n \in 1..Len(sent') :
         n > Len(sent) /\ sent'[n].cmd = "CNXN" =>
           sent'[n].arg = IF asked < Uint16Max THEN asked ELSE Uint16Max]_vars

(* socket.go:257: a client that is authorized is sent a CNXN packet,       *)
(* unless the connection ends.                                             *)
AuthorizedAnswered ==
    authorized ~> (ended \/ \E n \in 1..Len(sent) : sent[n].cmd = "CNXN")

(* Once End is called the connection is closed and Start returns, also if  *)
(* sendCNXN holds s.mu at that moment.                                     *)
EndCompletes == pc["closer"] = "end" ~> (~connOpen /\ pc["reader"] = "done")

=============================================================================
