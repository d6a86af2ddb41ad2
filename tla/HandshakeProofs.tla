-------------------------- MODULE HandshakeProofs ---------------------------
(***************************************************************************)
(* The handshake of a connection is sound for every size of payload and    *)
(* any number of packets that the client sends.                            *)
(*                                                                         *)
(* What has been written says nothing of what is about to be, so the       *)
(* invariants are strengthened by where Reader is: on the way from a       *)
(* signature to CNXN, and between the choice of an answer and its writing. *)
(***************************************************************************)
EXTENDS Handshake, TLAPS

Writing(cmd) == pc["reader"] \in {"write", "send"} /\ reply.cmd = cmd
Running == pc["reader"] \notin {"end", "close", "done"}

(* What Reader has checked when it is at a point.                          *)
Checked ==
    /\ pc["reader"] = "authHandler" => signature
    /\ pc["reader"] \in {"cnxn", "serial"} => authorized
    /\ Writing("CNXN") => authorized

Challenged == \E m \in 1..Len(sent) : sent[m].cmd = "AUTH"

(* A signature is answered by a challenge before anything else is written. *)
SignedChallenged == signature /\ Running => Challenged \/ Writing("AUTH")

(* A challenge that is about to be written is the token that is kept.      *)
TokenKept ==
    /\ Running => LastIsToken \/ Writing("AUTH")
    /\ Writing("AUTH") => reply = Answer("AUTH", token)

HandshakeInv ==
    /\ NothingBeforeAuth /\ Checked
    /\ ChallengedFirst /\ SignedChallenged /\ TokenKept

-----------------------------------------------------------------------------
(* Types.                                                                  *)

LEMMA TypeInit == Init => TypeOK
<1> SUFFICES ASSUME Init PROVE TypeOK
  OBVIOUS
<1> USE PayloadAssumption, MaxPacketsAssumption DEF Init
<1>1. /\ pc \in [Proc -> ReaderLabels \cup {"idle"}]
      /\ pc["reader"] \in ReaderLabels
      /\ pc["closer"] \in {"idle", "end", "close", "done"}
  BY DEF Proc, ReaderLabels
<1>2. packet \in Request
  BY DEF Request
<1>3. reply \in [cmd : {"SYNC", "AUTH", "CNXN"}, arg : Nat]
  BY DEF Answer
<1>4. sent \in Seq([cmd : {"SYNC", "AUTH", "CNXN"}, arg : Nat])
  OBVIOUS
<1>5. /\ ended \in BOOLEAN /\ connOpen \in BOOLEAN
      /\ signature \in BOOLEAN /\ authorized \in BOOLEAN /\ accepted \in BOOLEAN
  BY Zenon
<1>6. /\ maxPayload \in 0..Uint16Max /\ asked \in Nat
      /\ token \in Nat /\ started \in Nat /\ received \in 0..MaxPackets
  OBVIOUS
<1> QED BY <1>1, <1>2, <1>3, <1>4, <1>5, <1>6 DEF TypeOK

LEMMA TypeStep == TypeOK /\ [Next]_vars => TypeOK'
<1> SUFFICES ASSUME TypeOK, [Next]_vars PROVE TypeOK'
  OBVIOUS
<1> USE PayloadAssumption, MaxPacketsAssumption
    DEF TypeOK, Proc, ReaderLabels, Goto, socketFields, Answer
<1>1. CASE ReadPacket
  BY <1>1 DEF ReadPacket
<1>2. CASE ReadError
  BY <1>2 DEF ReadError
<1>3. CASE Handle
  BY <1>3 DEF Handle
<1>4. CASE HandleUnknown
  BY <1>4 DEF HandleUnknown, Fail
<1>5. CASE HandleSyncPacket
  BY <1>5 DEF HandleSyncPacket, Write
<1>6. CASE HandleConnectionPacket
  BY <1>6 DEF HandleConnectionPacket, Request
<1>7. CASE HandleSignature
  BY <1>7 DEF HandleSignature, Write
<1>8. CASE HandlePublicKey
  BY <1>8 DEF HandlePublicKey
<1>9. CASE HandleOtherAuth
  BY <1>9 DEF HandleOtherAuth, Fail
<1>10. CASE HandleOpenPacket
  BY <1>10 DEF HandleOpenPacket, Fail
<1>11. CASE ForwardServicePacket
  BY <1>11 DEF ForwardServicePacket
<1>12. CASE CreateToken
  BY <1>12 DEF CreateToken, Fail, Write
<1>13. CASE CallAuthHandler
  BY <1>13 DEF CallAuthHandler, Fail
<1>14. CASE LockCnxn
  BY <1>14 DEF LockCnxn
<1>15. CASE SendCnxn
  BY <1>15 DEF SendCnxn, Write
<1>16. CASE WriteCheck
  BY <1>16 DEF WriteCheck
<1>17. CASE WriteConn
  <2>1. CASE Fail
    BY <2>1 DEF Fail
  <2>2. CASE sent' = Append(sent, reply) /\ ~Fail
    <3>1. sent' \in Seq([cmd : {"SYNC", "AUTH", "CNXN"}, arg : Nat])
      BY <2>2
    <3> QED BY <1>17, <2>2, <3>1 DEF WriteConn
  <2> QED BY <1>17, <2>1, <2>2 DEF WriteConn
<1>18. CASE CallEnd
  BY <1>18 DEF CallEnd
<1>19. ASSUME NEW p \in Proc, End(p) PROVE TypeOK'
  <2>1. CASE EndLock(p)
    BY <1>19, <2>1 DEF EndLock
  <2>2. CASE CloseConn(p)
    BY <1>19, <2>2 DEF CloseConn
  <2> QED BY <1>19, <2>1, <2>2 DEF End
<1>20. CASE UNCHANGED vars
  BY <1>20 DEF vars
<1> QED
  BY <1>1, <1>2, <1>3, <1>4, <1>5, <1>6, <1>7, <1>8, <1>9, <1>10, <1>11, <1>12, <1>13, <1>14, <1>15, <1>16, <1>17, <1>18, <1>19, <1>20 DEF Next, Reader, Dispatch

-----------------------------------------------------------------------------
(* The order of what is written.                                           *)

(* A step that writes nothing and keeps the token and the fields that say  *)
(* what the client may do.                                                 *)
Quiet == UNCHANGED <<sent, token, signature, authorized, accepted, started>>

LEMMA QuietKeeps ==
    ASSUME HandshakeInv, TypeOK', Quiet, Checked',
           Running' => Running, Writing("AUTH")' <=> Writing("AUTH"),
           Writing("AUTH")' => reply' = reply
    PROVE  HandshakeInv'
<1>1. NothingBeforeAuth'
  BY DEF HandshakeInv, NothingBeforeAuth, Quiet
<1>2. ChallengedFirst' /\ SignedChallenged'
  BY DEF HandshakeInv, ChallengedFirst, SignedChallenged, Challenged, Quiet
<1>3. TokenKept'
  BY DEF HandshakeInv, TokenKept, LastIsToken, Answer, Quiet
<1> QED BY <1>1, <1>2, <1>3 DEF HandshakeInv

(* Writing("AUTH") ends without the challenge only when Start returns.     *)
LEMMA StopKeeps ==
    ASSUME HandshakeInv, TypeOK', Quiet, ~Running'
    PROVE  HandshakeInv'
<1>1. /\ ~Writing("AUTH")' /\ ~Writing("CNXN")'
      /\ pc'["reader"] \notin {"authHandler", "cnxn", "serial"}
  BY DEF Running, Writing
<1>2. NothingBeforeAuth' /\ ChallengedFirst'
  BY DEF HandshakeInv, NothingBeforeAuth, ChallengedFirst, Quiet
<1>3. Checked' /\ SignedChallenged' /\ TokenKept'
  BY <1>1 DEF Checked, SignedChallenged, TokenKept
<1> QED BY <1>2, <1>3 DEF HandshakeInv

(* A packet goes to the wire.                                              *)
LEMMA WriteKeeps ==
    ASSUME HandshakeInv, TypeOK, TypeOK', WriteConn, ~Fail
    PROVE  HandshakeInv'
<1>1. /\ pc["reader"] = "send" /\ pc'["reader"] = "read" /\ Running /\ Running'
      /\ UNCHANGED <<reply, token, signature, authorized, accepted, started>>
  <2>1. pc["reader"] = "send" /\ Goto("reader", "read")
    BY DEF WriteConn
  <2>2. UNCHANGED <<reply, token, signature, authorized, accepted, started>>
    BY DEF WriteConn, socketFields
  <2> QED BY <2>1, <2>2 DEF TypeOK, Goto, Proc, Running
<1>2. /\ sent \in Seq([cmd : {"SYNC", "AUTH", "CNXN"}, arg : Nat])
      /\ reply \in [cmd : {"SYNC", "AUTH", "CNXN"}, arg : Nat]
      /\ sent' = Append(sent, reply)
  BY DEF TypeOK, WriteConn
<1>3. /\ Len(sent) \in Nat /\ Len(sent') = Len(sent) + 1 /\ sent'[Len(sent) + 1] = reply
      /\ \A i \in 1..Len(sent) : sent'[i] = sent[i]
  BY <1>2
<1>4. NothingBeforeAuth'
  <2>1. \A n \in 1..Len(sent') : sent'[n].cmd = "CNXN" => authorized
    BY <1>1, <1>3 DEF HandshakeInv, NothingBeforeAuth, Checked, Writing
  <2> QED BY <1>1, <2>1 DEF HandshakeInv, NothingBeforeAuth
<1>5. reply.cmd = "CNXN" => Challenged
  BY <1>1 DEF HandshakeInv, NothingBeforeAuth, Checked, SignedChallenged, Writing
<1>6. ChallengedFirst'
  <2> SUFFICES ASSUME NEW n \in 1..Len(sent'), sent'[n].cmd = "CNXN"
               PROVE  \E m \in 1..(n - 1) : sent'[m].cmd = "AUTH"
    BY DEF ChallengedFirst
  <2>1. CASE n \in 1..Len(sent)
    <3>1. PICK m \in 1..(n - 1) : sent[m].cmd = "AUTH"
      BY <2>1, <1>3 DEF HandshakeInv, ChallengedFirst
    <3>2. sent'[m].cmd = "AUTH"
      BY <2>1, <3>1, <1>3
    <3> QED BY <3>1, <3>2
  <2>2. CASE n = Len(sent) + 1
    <3>1. PICK m \in 1..Len(sent) : sent[m].cmd = "AUTH"
      BY <2>2, <1>3, <1>5 DEF Challenged
    <3> QED BY <2>2, <3>1, <1>3
  <2> QED BY <2>1, <2>2, <1>3
<1>7. Checked'
  BY <1>1 DEF Checked, Writing
<1>8. SignedChallenged'
  <2> SUFFICES ASSUME signature PROVE Challenged'
    BY <1>1 DEF SignedChallenged
  <2>1. CASE reply.cmd = "AUTH"
    BY <2>1, <1>3 DEF Challenged
  <2>2. CASE reply.cmd # "AUTH"
    <3>1. PICK m \in 1..Len(sent) : sent[m].cmd = "AUTH"
      BY <2>2, <1>1 DEF HandshakeInv, SignedChallenged, Writing, Challenged
    <3> QED BY <3>1, <1>3 DEF Challenged
  <2> QED BY <2>1, <2>2
<1>9. TokenKept'
  <2>1. ~Writing("AUTH")'
    BY <1>1 DEF Writing
  <2>2. CASE reply.cmd = "AUTH"
    <3>1. reply = Answer("AUTH", token')
      BY <2>2, <1>1 DEF HandshakeInv, TokenKept, Writing
    <3>2. \A n \in 1..Len(sent) : Len(sent') \in (n + 1)..Len(sent')
      BY <1>3
    <3>3. sent'[Len(sent')] = reply /\ \A n \in 1..Len(sent') : n \in 1..Len(sent) \/ n = Len(sent')
      BY <1>3
    <3>4. LastIsToken'
      BY <2>2, <3>1, <3>2, <3>3 DEF LastIsToken, Answer
    <3> QED BY <2>1, <3>4 DEF TokenKept
  <2>3. CASE reply.cmd # "AUTH"
    <3>1. LastIsToken
      BY <2>3, <1>1 DEF HandshakeInv, TokenKept, Writing
    <3>2. ASSUME NEW n \in 1..Len(sent')
          PROVE  \/ sent'[n] = Answer("AUTH", token') \/ sent'[n].cmd # "AUTH"
                 \/ \E m \in (n + 1)..Len(sent') : sent'[m].cmd = "AUTH"
      <4>1. CASE n = Len(sent) + 1
        BY <2>3, <4>1, <1>3
      <4>2. CASE n \in 1..Len(sent) /\ \E m \in (n + 1)..Len(sent) : sent[m].cmd = "AUTH"
        <5>1. PICK m \in (n + 1)..Len(sent) : sent[m].cmd = "AUTH"
          BY <4>2
        <5>2. m \in (n + 1)..Len(sent') /\ sent'[m].cmd = "AUTH"
          BY <5>1, <4>2, <1>3
        <5> QED BY <5>2
      <4>3. CASE n \in 1..Len(sent) /\ ~\E m \in (n + 1)..Len(sent) : sent[m].cmd = "AUTH"
        BY <4>3, <3>1, <1>1, <1>3 DEF LastIsToken, Answer
      <4> QED BY <4>1, <4>2, <4>3, <1>3
    <3> QED BY <2>1, <3>2 DEF TokenKept, LastIsToken
  <2> QED BY <2>2, <2>3
<1> QED BY <1>4, <1>6, <1>7, <1>8, <1>9 DEF HandshakeInv

LEMMA HandshakeStep == HandshakeInv /\ [Next]_vars => HandshakeInv'
<1> SUFFICES ASSUME HandshakeInv, [Next]_vars PROVE HandshakeInv'
  OBVIOUS
<1>0. TypeOK /\ TypeOK' /\ pc \in [Proc -> ReaderLabels \cup {"idle"}]
  BY TypeStep DEF HandshakeInv, NothingBeforeAuth, TypeOK
<1>1. ASSUME Fail PROVE HandshakeInv'
  <2>1. ~Running' /\ Quiet
    BY <1>0, <1>1 DEF Fail, Goto, Proc, Running, Quiet, socketFields
  <2> QED BY <1>0, <2>1, StopKeeps
<1>2. CASE ReadPacket
  <2>1. CASE Running'
    BY <1>0, <1>2, <2>1, QuietKeeps
       DEF ReadPacket, Goto, Proc, Running, Quiet, socketFields, Writing, Checked, HandshakeInv
  <2>2. CASE ~Running'
    BY <1>0, <1>2, <2>2, StopKeeps DEF ReadPacket, Quiet, socketFields
  <2> QED BY <2>1, <2>2
<1>3. CASE Handle
  <2>1. CASE Running'
    BY <1>0, <1>3, <2>1, QuietKeeps
       DEF Handle, Goto, Proc, Running, Quiet, socketFields, Writing, Checked, HandshakeInv
  <2>2. CASE ~Running'
    BY <1>0, <1>3, <2>2, StopKeeps DEF Handle, Quiet, socketFields
  <2> QED BY <2>1, <2>2
<1>4. CASE HandleConnectionPacket
  <2>1. CASE Running'
    BY <1>0, <1>4, <2>1, QuietKeeps
       DEF HandleConnectionPacket, Goto, Proc, Running, Quiet, socketFields, Writing, Checked, HandshakeInv
  <2>2. CASE ~Running'
    BY <1>0, <1>4, <2>2, StopKeeps DEF HandleConnectionPacket, Quiet, socketFields
  <2> QED BY <2>1, <2>2
<1>5. CASE HandlePublicKey
  <2>1. CASE Running'
    BY <1>0, <1>5, <2>1, QuietKeeps
       DEF HandlePublicKey, Goto, Proc, Running, Quiet, socketFields, Writing, Checked, HandshakeInv
  <2>2. CASE ~Running'
    BY <1>0, <1>5, <2>2, StopKeeps DEF HandlePublicKey, Quiet, socketFields
  <2> QED BY <2>1, <2>2
<1>6. CASE ForwardServicePacket
  <2>1. CASE Running'
    BY <1>0, <1>6, <2>1, QuietKeeps
       DEF ForwardServicePacket, Goto, Proc, Running, Quiet, socketFields, Writing, Checked, HandshakeInv
  <2>2. CASE ~Running'
    BY <1>0, <1>6, <2>2, StopKeeps DEF ForwardServicePacket, Quiet, socketFields
  <2> QED BY <2>1, <2>2
<1>7. CASE LockCnxn
  <2>1. CASE Running'
    BY <1>0, <1>7, <2>1, QuietKeeps
       DEF LockCnxn, Goto, Proc, Running, Quiet, socketFields, Writing, Checked, HandshakeInv
  <2>2. CASE ~Running'
    BY <1>0, <1>7, <2>2, StopKeeps DEF LockCnxn, Quiet, socketFields
  <2> QED BY <2>1, <2>2
<1>8. CASE CallEnd
  <2>1. CASE Running'
    BY <1>0, <1>8, <2>1, QuietKeeps
       DEF CallEnd, Goto, Proc, Running, Quiet, socketFields, Writing, Checked, HandshakeInv
  <2>2. CASE ~Running'
    BY <1>0, <1>8, <2>2, StopKeeps DEF CallEnd, Quiet, socketFields
  <2> QED BY <2>1, <2>2
<1>9. CASE WriteCheck
  <2>1. CASE Running'
    BY <1>0, <1>9, <2>1, QuietKeeps
       DEF WriteCheck, Goto, Proc, Running, Quiet, socketFields, Writing, Checked, HandshakeInv
  <2>2. CASE ~Running'
    BY <1>0, <1>9, <2>2, StopKeeps DEF WriteCheck, Quiet, socketFields
  <2> QED BY <2>1, <2>2
<1>10. CASE ReadError \/ HandleUnknown \/ HandleOtherAuth
  BY <1>1, <1>10 DEF ReadError, HandleUnknown, HandleOtherAuth, Fail
<1>11. ASSUME NEW p \in Proc, End(p) PROVE HandshakeInv'
  <2>1. Quiet /\ reply' = reply
    BY <1>11 DEF End, EndLock, CloseConn, Quiet, socketFields
  <2>2. CASE p = "reader"
    <3>1. ~Running'
      BY <1>0, <1>11, <2>2 DEF End, EndLock, CloseConn, Goto, Proc, Running
    <3> QED BY <1>0, <2>1, <3>1, StopKeeps
  <2>3. CASE p = "closer"
    <3>1. pc'["reader"] = pc["reader"]
      BY <1>0, <1>11, <2>3 DEF End, EndLock, CloseConn, Goto, Proc
    <3> QED BY <1>0, <2>1, <3>1, QuietKeeps DEF Running, Quiet, Writing, Checked, HandshakeInv
  <2> QED BY <1>11, <2>2, <2>3 DEF Proc
<1>12. CASE UNCHANGED vars
  BY <1>0, <1>12, QuietKeeps DEF vars, Running, Quiet, Writing, Checked, HandshakeInv
<1>13. CASE HandleSyncPacket
  BY <1>0, <1>13, QuietKeeps DEF HandleSyncPacket, Write, Answer, Goto, Proc, Running, Quiet, socketFields, Writing, Checked, HandshakeInv
<1>14. CASE HandleSignature
  <2>1. /\ pc["reader"] = "dispatch" /\ Writing("AUTH")' /\ reply' = Answer("AUTH", token)
        /\ UNCHANGED <<sent, token, authorized, accepted, started>>
        /\ signature => signature'
    BY <1>0, <1>14 DEF HandleSignature, Write, Goto, Proc, Writing, Answer, TypeOK
  <2>2. NothingBeforeAuth' /\ ChallengedFirst'
    BY <1>0, <2>1 DEF HandshakeInv, NothingBeforeAuth, ChallengedFirst
  <2>3. Checked' /\ SignedChallenged' /\ TokenKept'
    BY <2>1 DEF Checked, SignedChallenged, TokenKept, Writing, Answer
  <2> QED BY <2>2, <2>3 DEF HandshakeInv
<1>15. CASE CreateToken /\ ~Fail
  <2>1. /\ Writing("AUTH")' /\ reply' = Answer("AUTH", token')
        /\ UNCHANGED <<sent, signature, authorized, accepted, started>>
    BY <1>0, <1>15 DEF CreateToken, Write, Goto, Proc, Writing, Answer
  <2>2. NothingBeforeAuth' /\ ChallengedFirst'
    BY <1>0, <2>1 DEF HandshakeInv, NothingBeforeAuth, ChallengedFirst
  <2>3. Checked' /\ SignedChallenged' /\ TokenKept'
    BY <2>1 DEF Checked, SignedChallenged, TokenKept, Writing, Answer
  <2> QED BY <2>2, <2>3 DEF HandshakeInv
<1>16. CASE CallAuthHandler /\ ~Fail
  <2>1. /\ pc["reader"] = "authHandler" /\ pc'["reader"] = "cnxn"
        /\ UNCHANGED <<sent, token, signature, started>>
        /\ authorized' /\ accepted' /\ signature
    BY <1>0, <1>16 DEF CallAuthHandler, Goto, Proc, HandshakeInv, Checked
  <2>2. NothingBeforeAuth' /\ ChallengedFirst'
    BY <1>0, <2>1 DEF HandshakeInv, NothingBeforeAuth, ChallengedFirst
  <2>3. Checked' /\ SignedChallenged'
    BY <2>1 DEF HandshakeInv, Checked, SignedChallenged, Challenged, Writing, Running
  <2>4. TokenKept'
    BY <2>1 DEF HandshakeInv, TokenKept, LastIsToken, Answer, Writing, Running
  <2> QED BY <2>2, <2>3, <2>4 DEF HandshakeInv
<1>17. CASE SendCnxn
  BY <1>0, <1>17, QuietKeeps DEF SendCnxn, Write, Answer, Goto, Proc, Running, Quiet, socketFields, Writing, Checked, HandshakeInv
<1>18. CASE HandleOpenPacket /\ ~Fail
  <2>1. /\ pc["reader"] = "dispatch" /\ pc'["reader"] = "read" /\ authorized
        /\ UNCHANGED <<sent, token, signature, authorized, accepted>>
    BY <1>0, <1>18 DEF HandleOpenPacket, Goto, Proc
  <2>2. NothingBeforeAuth' /\ ChallengedFirst'
    BY <1>0, <2>1 DEF HandshakeInv, NothingBeforeAuth, ChallengedFirst
  <2>3. Checked' /\ SignedChallenged'
    BY <2>1 DEF HandshakeInv, Checked, SignedChallenged, Challenged, Writing, Running
  <2>4. TokenKept'
    BY <2>1 DEF HandshakeInv, TokenKept, LastIsToken, Answer, Writing, Running
  <2> QED BY <2>2, <2>3, <2>4 DEF HandshakeInv
<1>19. CASE WriteConn /\ ~Fail
  BY <1>0, <1>19, WriteKeeps
<1> QED
  BY <1>1, <1>2, <1>3, <1>4, <1>5, <1>6, <1>7, <1>8, <1>9, <1>10, <1>11, <1>12,
     <1>13, <1>14, <1>15, <1>16, <1>17, <1>18, <1>19
     DEF Next, Reader, Dispatch, CreateToken, CallAuthHandler, HandleOpenPacket, WriteConn, Proc

LEMMA HandshakeInvariant == Spec => []HandshakeInv
<1>1. Init => HandshakeInv
  <2> SUFFICES ASSUME Init PROVE HandshakeInv
    OBVIOUS
  <2>1. TypeOK /\ sent = <<>> /\ Len(sent) = 0 /\ started = 0 /\ pc["reader"] = "read"
    BY TypeInit DEF Init, Proc
  <2>2. ~authorized /\ ~signature
    BY Zenon DEF Init
  <2>3. NothingBeforeAuth /\ ChallengedFirst /\ LastIsToken
    BY <2>1, <2>2 DEF NothingBeforeAuth, ChallengedFirst, LastIsToken
  <2>4. Checked /\ SignedChallenged /\ TokenKept
    BY <2>1, <2>2, <2>3 DEF Checked, SignedChallenged, TokenKept, Writing
  <2> QED BY <2>3, <2>4 DEF HandshakeInv
<1> QED BY <1>1, HandshakeStep, PTL DEF Spec

(* Nothing is served and no CNXN is sent before authorization, whatever    *)
(* the client sends and whenever the socket is ended.                      *)
THEOREM AuthorizedFirst == Spec => []NothingBeforeAuth
<1>1. HandshakeInv => NothingBeforeAuth
  BY DEF HandshakeInv
<1> QED BY <1>1, HandshakeInvariant, PTL

(* Challenges come before any CNXN, and the last one is the token that is  *)
(* kept.                                                                   *)
THEOREM ChallengesCurrent == Spec => []ChallengesSound
<1>1. HandshakeInv => ChallengesSound
  BY DEF HandshakeInv, ChallengesSound, TokenKept, Running, Writing
<1> QED BY <1>1, HandshakeInvariant, PTL

-----------------------------------------------------------------------------
(* The size of payload that is agreed.                                     *)

Offered == IF asked < Uint16Max THEN asked ELSE Uint16Max

(* maxPayload is what the client offered last, and so is the size in a     *)
(* CNXN from its assembly in sendCNXN until Socket.Write has written it.   *)
PayloadInv ==
    /\ TypeOK
    /\ maxPayload = Offered
    /\ Writing("CNXN") => reply.arg = maxPayload

LEMMA PayloadStep == PayloadInv /\ [Next]_vars => PayloadInv'
<1> SUFFICES ASSUME PayloadInv, [Next]_vars PROVE PayloadInv'
  OBVIOUS
<1>1. TypeOK /\ TypeOK' /\ pc \in [Proc -> ReaderLabels \cup {"idle"}]
  BY TypeStep DEF PayloadInv, TypeOK
<1>2. CASE HandleConnectionPacket
  BY <1>1, <1>2 DEF HandleConnectionPacket, PayloadInv, Offered, Writing, Goto, Proc
<1>3. CASE SendCnxn
  BY <1>1, <1>3 DEF SendCnxn, Write, Answer, PayloadInv, Offered, socketFields
<1>4. ASSUME UNCHANGED <<maxPayload, asked>>, Writing("CNXN")' => Writing("CNXN") /\ reply' = reply
      PROVE  PayloadInv'
  BY <1>1, <1>4 DEF PayloadInv, Offered
<1>5. CASE CreateToken \/ HandleSignature \/ HandleSyncPacket
  <2>1. ~Writing("CNXN")'
    BY <1>1, <1>5 DEF CreateToken, HandleSignature, HandleSyncPacket, Fail, Write, Answer, Writing, Goto, Proc
  <2>2. UNCHANGED <<maxPayload, asked>>
    BY <1>5 DEF CreateToken, HandleSignature, HandleSyncPacket, Fail, socketFields
  <2> QED BY <1>4, <2>1, <2>2
<1>6. CASE WriteCheck \/ WriteConn
  <2>1. UNCHANGED <<maxPayload, asked, reply>>
    BY <1>6 DEF WriteCheck, WriteConn, Fail, socketFields
  <2>2. Writing("CNXN")' => Writing("CNXN")
    BY <1>1, <1>6, <2>1 DEF WriteCheck, WriteConn, Fail, Writing, Goto, Proc
  <2> QED BY <1>4, <2>1, <2>2
<1>7. CASE \/ ReadPacket \/ ReadError \/ Handle \/ HandleUnknown \/ HandlePublicKey
           \/ HandleOtherAuth \/ HandleOpenPacket \/ ForwardServicePacket
           \/ CallAuthHandler \/ LockCnxn
  <2>1. UNCHANGED <<maxPayload, asked>>
    BY <1>7 DEF ReadPacket, ReadError, Handle, HandleUnknown, HandlePublicKey, HandleOtherAuth,
                HandleOpenPacket, ForwardServicePacket, CallAuthHandler, LockCnxn, Fail, socketFields
  <2>2. ~Writing("CNXN")'
    BY <1>1, <1>7
       DEF ReadPacket, ReadError, Handle, HandleUnknown, HandlePublicKey, HandleOtherAuth,
           HandleOpenPacket, ForwardServicePacket, CallAuthHandler, LockCnxn, Fail, Writing, Goto, Proc
  <2> QED BY <1>4, <2>1, <2>2
<1>8. ASSUME NEW p \in Proc, End(p) PROVE PayloadInv'
  <2>1. UNCHANGED <<maxPayload, asked, reply>>
    BY <1>8 DEF End, EndLock, CloseConn, socketFields
  <2>2. Writing("CNXN")' => Writing("CNXN")
    BY <1>1, <1>8, <2>1 DEF End, EndLock, CloseConn, Writing, Goto, Proc
  <2> QED BY <1>4, <2>1, <2>2
<1>9. CASE CallEnd \/ UNCHANGED vars
  <2>1. UNCHANGED <<maxPayload, asked, reply>> /\ pc'["reader"] = pc["reader"]
    BY <1>1, <1>9 DEF CallEnd, vars, socketFields, Goto, Proc
  <2> QED BY <1>4, <2>1 DEF Writing
<1> QED
  BY <1>2, <1>3, <1>5, <1>6, <1>7, <1>8, <1>9 DEF Next, Reader, Dispatch, Proc

(* A step that writes a CNXN writes the size that the client offered last. *)
LEMMA PayloadWritten ==
    ASSUME PayloadInv, [Next]_vars, NEW n \in 1..Len(sent'),
           n > Len(sent), sent'[n].cmd = "CNXN"
    PROVE  sent'[n].arg = Offered
<1>1. sent \in Seq([cmd : {"SYNC", "AUTH", "CNXN"}, arg : Nat]) /\ TypeOK
  BY DEF PayloadInv, TypeOK
<1>2. sent' = sent \/ (pc["reader"] = "send" /\ sent' = Append(sent, reply))
  BY DEF Next, Reader, Dispatch, ReadPacket, ReadError, Handle, HandleUnknown, HandleSyncPacket,
         HandleConnectionPacket, HandleSignature, HandlePublicKey, HandleOtherAuth,
         HandleOpenPacket, ForwardServicePacket, CreateToken, CallAuthHandler, LockCnxn,
         SendCnxn, WriteCheck, WriteConn, CallEnd, End, EndLock, CloseConn, Write, Fail, vars
<1>3. pc["reader"] = "send" /\ sent' = Append(sent, reply)
  <2>1. sent' # sent
    BY <1>1
  <2> QED BY <1>2, <2>1
<1>4. sent'[n] = reply
  BY <1>1, <1>3
<1> QED BY <1>3, <1>4 DEF PayloadInv, Writing

(* Every CNXN carries the smaller of what the client offered last and      *)
(* UINT16_MAX, although it is written steps after the size was read.       *)
THEOREM AgreedPayload == Spec => PayloadAgreed
<1>1. Init => PayloadInv
  <2> SUFFICES ASSUME Init PROVE PayloadInv
    OBVIOUS
  <2>1. maxPayload = Offered
    BY PayloadAssumption DEF Init, Offered
  <2>2. ~Writing("CNXN")
    BY DEF Init, Writing, Proc
  <2> QED BY <2>1, <2>2, TypeInit DEF PayloadInv
<1>2. PayloadInv /\ [Next]_vars =>
        [\A n \in 1..Len(sent') :
           n > Len(sent) /\ sent'[n].cmd = "CNXN" =>
             sent'[n].arg = IF asked < Uint16Max THEN asked ELSE Uint16Max]_vars
  BY PayloadWritten DEF Offered
<1> QED BY <1>1, <1>2, PayloadStep, PTL DEF Spec, PayloadAgreed

=============================================================================
