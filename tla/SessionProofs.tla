--------------------------- MODULE SessionProofs ----------------------------
(***************************************************************************)
(* What the jobs of DeviceJobs and the session of ClientSession promise,   *)
(* on top of what ClientProofs shows of the calls that they make.          *)
(*                                                                         *)
(* The packets of a shell v2 session are whole, and a call of one of its   *)
(* writers that returns counts the chunks it sent, for any number of       *)
(* writers, calls and chunks and any capacity of the connection.           *)
(*                                                                         *)
(* The operations of DeviceJobs make calls of Client and nothing else, so  *)
(* that what holds of the calls holds in every job; what a job answers     *)
(* follows from what its calls returned and what the device did.  And the  *)
(* session does not disturb the call that opened it.                       *)
(***************************************************************************)
EXTENDS ClientProofs, ClientSession

-----------------------------------------------------------------------------
(* The writers of a session.                                               *)

UnitRec == [w : Writers, op : Nat, chunk : Nat, unit : Nat, of : Nat]

StdinTypes ==
    /\ out \in Seq(UnitRec)
    /\ mu \in Writers \cup {NoWriter}
    /\ pc \in [Writers -> {"idle", "lock", "send", "unlock"}]
    /\ op \in [Writers -> Stdin!Kinds]
    /\ ops \in [Writers -> Nat]
    /\ written \in [Writers -> Nat]
    /\ pos \in [Writers -> Nat]

(* No write succeeds any more.                                             *)
Dead == conn # "open" \/ server = "reset"

(* The stream ends with the end of a packet.                               *)
EndsWhole == out = <<>> \/ out[Len(out)].unit = out[Len(out)].of

(* The unit that w has written last.                                       *)
LastOf(w) == [w |-> w, op |-> ops[w], chunk |-> written[w] + 1,
              unit |-> pos[w], of |-> Stdin!Units(op[w])]

(* Only the holder of writeMu is inside a packet, and the stream ends where *)
(* it is; when nobody is, the stream ends with a whole packet or no write  *)
(* succeeds any more.                                                      *)
InPacket ==
    /\ \A w \in Writers : pc[w] \in {"send", "unlock"} <=> mu = w
    /\ mu = NoWriter => EndsWhole \/ Dead
    /\ \A w \in Writers :
         /\ pc[w] = "unlock" => EndsWhole \/ Dead
         /\ pc[w] = "send" =>
              /\ pos[w] < Stdin!Units(op[w])
              /\ pos[w] = 0 => EndsWhole \/ Dead
              /\ pos[w] > 0 => Dead \/ (out # <<>> /\ out[Len(out)] = LastOf(w))

StdinInv == StdinTypes /\ InPacket /\ Stdin!PacketsWhole

(* The chunks that the call of w has sent: the last is not in written as   *)
(* long as writeMu is held.                                                *)
Sent(w) == IF pc[w] = "unlock" THEN written[w] + 1 ELSE written[w]
Chunks(w) == {out[i].chunk : i \in Stdin!Complete(w)}

(* They are what the stream has of this call, also while it goes on, and   *)
(* no unit of a later call is there before the call is made.               *)
Counted(w) ==
    /\ IsFiniteSet(Stdin!Complete(w)) /\ Cardinality(Stdin!Complete(w)) = Sent(w)
    /\ Chunks(w) = 1..Sent(w)
    /\ \A i \in 1..Len(out) : out[i].w = w => out[i].op <= ops[w]
    /\ pc[w] # "idle" => written[w] < size[w]
    /\ pc[w] = "idle" => failed[w] \/ written[w] = size[w]

CountInv ==
    /\ size \in [Writers -> Nat] /\ failed \in [Writers -> BOOLEAN]
    /\ \A w \in Writers : Counted(w)

-----------------------------------------------------------------------------

LEMMA StdinInit == Stdin!WritersIdle => StdinInv
BY StdinAssumption DEF Stdin!WritersIdle, StdinInv, StdinTypes, InPacket,
     Stdin!PacketsWhole, EndsWhole, Stdin!Kinds

(* A call begins.                                                          *)
LEMMA BeginWrites ==
    ASSUME StdinInv, NEW w \in Writers, NEW k \in Stdin!Kinds, NEW n \in Nat,
           Stdin!Begin(w, k, n)
    PROVE  StdinInv'
<1> USE StdinAssumption
<1>1. StdinTypes'
  BY DEF StdinInv, StdinTypes, Stdin!Begin
<1>2. InPacket'
  BY DEF StdinInv, StdinTypes, Stdin!Begin, InPacket, EndsWhole, Dead, LastOf, Stdin!Units
<1>3. Stdin!PacketsWhole'
  BY DEF StdinInv, Stdin!Begin, Stdin!PacketsWhole
<1> QED BY <1>1, <1>2, <1>3 DEF StdinInv

LEMMA LockKeeps ==
    ASSUME StdinInv, NEW w \in Writers, Stdin!Lock(w)
    PROVE  StdinInv'
<1> USE StdinAssumption
<1>1. StdinTypes'
  BY DEF StdinInv, StdinTypes, Stdin!Lock
<1>2. InPacket'
  BY DEF StdinInv, StdinTypes, Stdin!Lock, InPacket, EndsWhole, Dead, LastOf, Stdin!Units
<1>3. Stdin!PacketsWhole'
  BY DEF StdinInv, Stdin!Lock, Stdin!PacketsWhole
<1> QED BY <1>1, <1>2, <1>3 DEF StdinInv

LEMMA SendWrites ==
    ASSUME StdinInv, NEW w \in Writers, Stdin!Send(w)
    PROVE  StdinInv'
<1> USE StdinAssumption
<1> DEFINE u == [w |-> w, op |-> ops[w], chunk |-> written[w] + 1,
                 unit |-> pos[w] + 1, of |-> Stdin!Units(op[w])]
<1>1. /\ u \in UnitRec /\ out' = Append(out, u) /\ out \in Seq(UnitRec)
      /\ Len(out') = Len(out) + 1 /\ out'[Len(out) + 1] = u
      /\ \A i \in 1..Len(out) : out'[i] = out[i]
  BY DEF StdinInv, StdinTypes, Stdin!Send, UnitRec, Stdin!Units
<1>2. StdinTypes'
  BY <1>1 DEF StdinInv, StdinTypes, Stdin!Send
<1>3. InPacket'
  <2>1. mu = w /\ mu' = w /\ pc'[w] \in {"send", "unlock"}
    BY DEF StdinInv, StdinTypes, Stdin!Send, InPacket
  <2>2. \A v \in Writers : v # w => pc'[v] = pc[v] /\ pc[v] \notin {"send", "unlock"}
    BY <2>1 DEF StdinInv, StdinTypes, Stdin!Send, InPacket
  <2>3. pc'[w] = "unlock" => EndsWhole'
    BY <1>1, <2>1 DEF StdinInv, StdinTypes, Stdin!Send, EndsWhole, Stdin!Units
  <2>4. out' # <<>> /\ out'[Len(out')] = LastOf(w)'
    <3>1. pos'[w] = pos[w] + 1 /\ UNCHANGED <<op, ops, written>>
      BY DEF StdinInv, StdinTypes, Stdin!Send
    <3> QED BY <1>1, <3>1 DEF LastOf, Stdin!Units
  <2>6. pc'[w] = "send" => pos'[w] < Stdin!Units(op'[w])
    BY DEF StdinInv, StdinTypes, InPacket, Stdin!Send, Stdin!Units
  <2>5. pos'[w] > 0
    BY DEF StdinInv, StdinTypes, Stdin!Send
  <2> QED BY <2>1, <2>2, <2>3, <2>4, <2>5, <2>6 DEF InPacket
<1>4. Stdin!PacketsWhole'
  <2>1. ~Dead /\ pc[w] = "send"
    BY DEF Stdin!Send, Dead
  <2>2. pos[w] = 0 => EndsWhole
    BY <2>1 DEF StdinInv, InPacket
  <2>3. pos[w] > 0 => out # <<>> /\ out[Len(out)] = LastOf(w)
    BY <2>1 DEF StdinInv, InPacket
  <2>4. Stdin!SamePacket(LastOf(w), u) /\ u.unit = LastOf(w).unit + 1
    BY DEF LastOf, Stdin!SamePacket
  <2>5. ASSUME NEW i \in 1..Len(out')
        PROVE  IF out'[i].unit = 1
                 THEN i = 1 \/ out'[i - 1].unit = out'[i - 1].of
                 ELSE /\ i > 1 /\ Stdin!SamePacket(out'[i - 1], out'[i])
                      /\ out'[i].unit = out'[i - 1].unit + 1
    <3>1. CASE i \in 1..Len(out)
      <4>1. i > 1 => i - 1 \in 1..Len(out)
        BY <3>1, <1>1
      <4> QED BY <3>1, <4>1, <1>1 DEF StdinInv, Stdin!PacketsWhole
    <3>2. CASE i = Len(out) + 1 /\ pos[w] = 0
      <4>1. i = 1 \/ (i - 1 = Len(out) /\ Len(out) \in 1..Len(out) /\ out # <<>>)
        BY <3>2, <1>1
      <4> QED BY <3>2, <4>1, <1>1, <2>2 DEF EndsWhole
    <3>3. CASE i = Len(out) + 1 /\ pos[w] > 0
      <4>1. out # <<>> /\ Len(out) \in 1..Len(out) /\ i - 1 = Len(out) /\ i > 1
        BY <3>3, <1>1, <2>3
      <4>2. out'[i - 1] = LastOf(w) /\ out'[i] = u
        BY <3>3, <4>1, <1>1, <2>3
      <4>3. u.unit # 1
        BY <3>3 DEF StdinInv, StdinTypes
      <4> QED BY <4>1, <4>2, <4>3, <2>4
    <3>4. pos[w] \in Nat /\ Len(out) \in Nat
      BY <1>1 DEF StdinInv, StdinTypes
    <3>5. i \in 1..Len(out) \/ i = Len(out) + 1
      BY <1>1, <3>4
    <3>6. pos[w] = 0 \/ pos[w] > 0
      BY <3>4
    <3> QED BY <3>1, <3>2, <3>3, <3>5, <3>6
  <2> QED BY <2>5 DEF Stdin!PacketsWhole
<1> QED BY <1>2, <1>3, <1>4 DEF StdinInv

LEMMA SendFailsKeeps ==
    ASSUME StdinInv, NEW w \in Writers, Stdin!SendFails(w)
    PROVE  StdinInv'
<1> USE StdinAssumption
<1>1. StdinTypes'
  BY DEF StdinInv, StdinTypes, Stdin!SendFails
<1>2. InPacket'
  <2>1. Dead' /\ mu' = NoWriter
    BY DEF Stdin!SendFails, Stdin!CannotSend, Dead
  <2>2. \A v \in Writers : pc'[v] \notin {"send", "unlock"}
    BY DEF StdinInv, StdinTypes, InPacket, Stdin!SendFails
  <2> QED BY <2>1, <2>2 DEF InPacket
<1>3. Stdin!PacketsWhole'
  BY DEF StdinInv, Stdin!SendFails, Stdin!PacketsWhole
<1> QED BY <1>1, <1>2, <1>3 DEF StdinInv

LEMMA UnlockKeeps ==
    ASSUME StdinInv, NEW w \in Writers, Stdin!Unlock(w)
    PROVE  StdinInv'
<1> USE StdinAssumption
<1>1. StdinTypes'
  BY DEF StdinInv, StdinTypes, Stdin!Unlock
<1>2. InPacket'
  <2>1. mu' = NoWriter /\ (EndsWhole \/ Dead)' 
    BY DEF StdinInv, InPacket, Stdin!Unlock, EndsWhole, Dead
  <2>2. \A v \in Writers : pc'[v] \notin {"send", "unlock"}
    BY DEF StdinInv, StdinTypes, InPacket, Stdin!Unlock
  <2> QED BY <2>1, <2>2 DEF InPacket
<1>3. Stdin!PacketsWhole'
  BY DEF StdinInv, Stdin!Unlock, Stdin!PacketsWhole
<1> QED BY <1>1, <1>2, <1>3 DEF StdinInv

(* The session closes, and the other side reads, stops or goes away: no    *)
(* step of these makes a write possible again.                             *)
LEMMA OthersKeep ==
    ASSUME StdinInv, UNCHANGED <<out, mu, pc, op, ops, written, pos>>, Dead => Dead'
    PROVE  StdinInv'
<1>1. StdinTypes' /\ Stdin!PacketsWhole'
  BY DEF StdinInv, StdinTypes, Stdin!PacketsWhole
<1>2. InPacket'
  BY DEF StdinInv, InPacket, EndsWhole, LastOf
<1> QED BY <1>1, <1>2 DEF StdinInv

LEMMA StdinStep == StdinInv /\ [Stdin!Next]_(Stdin!vars) => StdinInv'
<1> SUFFICES ASSUME StdinInv, [Stdin!Next]_(Stdin!vars) PROVE StdinInv'
  OBVIOUS
<1>1. CASE \E w \in Writers : Stdin!Write(w) \/ Stdin!CloseStdin(w) \/ Stdin!Resize(w)
  <2>1. 0..MaxChunks \subseteq Nat /\ 1 \in Nat
    BY StdinAssumption
  <2>2. PICK w \in Writers : \E k \in Stdin!Kinds : \E n \in Nat : Stdin!Begin(w, k, n)
    BY <1>1, <2>1 DEF Stdin!Write, Stdin!CloseStdin, Stdin!Resize, Stdin!Kinds
  <2> QED BY <2>2, BeginWrites
<1>2. CASE \E w \in Writers : Stdin!WriterStep(w)
  BY <1>2, LockKeeps, SendWrites, SendFailsKeeps, UnlockKeeps DEF Stdin!WriterStep
<1>3. CASE \/ Stdin!closeTransport \/ Stdin!DeviceReads \/ Stdin!DeviceStops
           \/ UNCHANGED Stdin!vars
  <2>1. UNCHANGED <<out, mu, pc, op, ops, written, pos>> /\ (Dead => Dead')
    BY <1>3 DEF Stdin!closeTransport, Stdin!DeviceReads, Stdin!DeviceStops, Stdin!vars,
       Stdin!writerVars, Dead
  <2> QED BY <2>1, OthersKeep
<1> QED BY <1>1, <1>2, <1>3 DEF Stdin!Next

-----------------------------------------------------------------------------
(* What a call counts.                                                     *)

LEMMA CountInit == SetsCount /\ Stdin!WritersIdle => CountInv
<1> SUFFICES ASSUME SetsCount, Stdin!WritersIdle PROVE CountInv
  OBVIOUS
<1>1. size \in [Writers -> Nat] /\ failed \in [Writers -> BOOLEAN]
  BY DEF Stdin!WritersIdle
<1>2. ASSUME NEW w \in Writers PROVE Counted(w)
  <2>1. /\ pc[w] = "idle" /\ written[w] = 0 /\ size[w] = 0
        /\ 1..Len(out) = {}
    BY DEF Stdin!WritersIdle
  <2>2. Stdin!Complete(w) = {} /\ Chunks(w) = {}
    BY <2>1 DEF Stdin!Complete, Chunks
  <2>3. Sent(w) = 0 /\ 1..Sent(w) = {}
    BY <2>1 DEF Sent
  <2>4. IsFiniteSet({}) /\ Cardinality({}) = 0
    BY Zenon DEF SetsCount
  <2> QED BY <2>1, <2>2, <2>3, <2>4 DEF Counted
<1> QED BY <1>1, <1>2 DEF CountInv

(* The stream and the call of v stay as they are.                          *)
LEMMA CountSame ==
    ASSUME NEW v \in Writers, Counted(v), out' = out,
           UNCHANGED <<ops[v], Sent(v)>>,
           pc'[v] # "idle" => written'[v] < size'[v],
           pc'[v] = "idle" => failed'[v] \/ written'[v] = size'[v]
    PROVE  Counted(v)'
<1>1. UNCHANGED <<Stdin!Complete(v), Chunks(v)>>
  BY DEF Stdin!Complete, Chunks
<1> QED BY <1>1 DEF Counted

(* A new call has sent nothing: the stream has no unit of it.              *)
LEMMA CountNew ==
    ASSUME SetsCount, NEW v \in Writers, StdinTypes, Counted(v), out' = out,
           ops'[v] = ops[v] + 1, pc'[v] # "unlock", written'[v] = 0,
           pc'[v] # "idle" => written'[v] < size'[v],
           pc'[v] = "idle" => written'[v] = size'[v]
    PROVE  Counted(v)'
<1>1. \A i \in 1..Len(out) : out[i] \in UnitRec
  BY DEF StdinTypes
<1>2. \A i \in 1..Len(out) : out[i].w = v => out[i].op <= ops[v] /\ out[i].op \in Nat
  BY <1>1 DEF Counted, UnitRec
<1>3. ops[v] \in Nat
  BY DEF StdinTypes
<1>4. \A i \in 1..Len(out) : out[i].w = v => out[i].op # ops'[v] /\ out[i].op <= ops'[v]
  BY <1>2, <1>3
<1>5. Stdin!Complete(v)' = {}
  BY <1>4 DEF Stdin!Complete
<1>6. Chunks(v)' = {}
  BY <1>5 DEF Chunks
<1>7. Sent(v)' = 0 /\ 1..0 = {}
  BY DEF Sent
<1>8. IsFiniteSet({}) /\ Cardinality({}) = 0
  BY Zenon DEF SetsCount
<1> QED BY <1>4, <1>5, <1>6, <1>7, <1>8 DEF Counted

(* The steps that write nothing.                                           *)
LEMMA CountQuiet ==
    ASSUME StdinTypes, CountInv, NEW w \in Writers,
           Stdin!Lock(w) \/ Stdin!SendFails(w) \/ Stdin!Unlock(w)
    PROVE  CountInv'
<1>1. size' \in [Writers -> Nat] /\ failed' \in [Writers -> BOOLEAN]
  <2>1. size \in [Writers -> Nat] /\ failed \in [Writers -> BOOLEAN]
    BY DEF CountInv
  <2>2. size' = size /\ (failed' = failed \/ failed' = [failed EXCEPT ![w] = TRUE])
    BY DEF Stdin!Lock, Stdin!SendFails, Stdin!Unlock
  <2>3. [failed EXCEPT ![w] = TRUE] \in [Writers -> BOOLEAN]
    BY <2>1, Zenon
  <2> QED BY <2>1, <2>2, <2>3, Zenon
<1>2. ASSUME NEW v \in Writers PROVE Counted(v)'
  <2>1. Counted(v) /\ out' = out /\ ops'[v] = ops[v]
    BY DEF CountInv, Stdin!Lock, Stdin!SendFails, Stdin!Unlock
  <2>2. Sent(v)' = Sent(v)
    <3>1. CASE Stdin!Lock(w) \/ Stdin!SendFails(w)
      <4>1. written' = written /\ (pc[v] = "unlock" <=> pc'[v] = "unlock")
        BY <3>1 DEF StdinTypes, Stdin!Lock, Stdin!SendFails
      <4> QED BY <4>1 DEF Sent
    <3>2. CASE Stdin!Unlock(w)
      BY <3>2 DEF Sent, StdinTypes, Stdin!Unlock
    <3> QED BY <3>1, <3>2
  <2>3. /\ pc'[v] # "idle" => written'[v] < size'[v]
        /\ pc'[v] = "idle" => failed'[v] \/ written'[v] = size'[v]
    <3>1. CASE Stdin!Lock(w) \/ Stdin!SendFails(w)
      <4>1. UNCHANGED <<written, size>> /\ (pc'[v] # "idle" => pc[v] # "idle")
        BY <3>1 DEF StdinTypes, Stdin!Lock, Stdin!SendFails
      <4>2. pc'[v] = "idle" => pc[v] = "idle" \/ failed'[v] = TRUE
        BY <3>1 DEF StdinTypes, CountInv, Stdin!Lock, Stdin!SendFails
      <4>3. pc[v] = "idle" /\ failed[v] => failed'[v]
        <5>1. failed' = failed \/ (failed' = [failed EXCEPT ![w] = TRUE] /\ pc[w] = "send")
          BY <3>1, Zenon DEF Stdin!Lock, Stdin!SendFails
        <5>2. pc[v] = "idle" /\ pc[w] = "send" => v # w
          OBVIOUS
        <5>3. failed \in [Writers -> BOOLEAN]
          BY Zenon DEF CountInv
        <5> QED BY <5>1, <5>2, <5>3, Zenon
      <4> QED BY <2>1, <4>1, <4>2, <4>3, Zenon DEF Counted
    <3>2. CASE Stdin!Unlock(w)
      <4>1. UNCHANGED <<size, failed>> /\ pc[w] = "unlock"
        BY <3>2, Zenon DEF Stdin!Unlock
      <4>2. CASE v = w
        <5>1. written[w] < size[w] /\ written[w] \in Nat /\ size[w] \in Nat
          BY <2>1, <4>1, <4>2 DEF Counted, CountInv, StdinTypes
        <5>2. /\ written'[w] = written[w] + 1
              /\ pc'[w] = IF written[w] + 1 < size[w] THEN "lock" ELSE "idle"
          BY <3>2 DEF StdinTypes, Stdin!Unlock
        <5> QED BY <4>1, <4>2, <5>1, <5>2
      <4>3. CASE v # w
        <5>1. pc'[v] = pc[v] /\ written'[v] = written[v]
          BY <3>2, <4>3 DEF StdinTypes, Stdin!Unlock
        <5> QED BY <2>1, <4>1, <5>1, Zenon DEF Counted
      <4> QED BY <4>2, <4>3, Zenon
    <3> QED BY <3>1, <3>2, Zenon
  <2> QED BY <2>1, <2>2, <2>3, CountSame
<1> QED BY <1>1, <1>2 DEF CountInv

LEMMA CountBegin ==
    ASSUME SetsCount, StdinTypes, CountInv,
           NEW w \in Writers, NEW k \in Stdin!Kinds, NEW n \in Nat, Stdin!Begin(w, k, n)
    PROVE  CountInv'
<1>1. size' \in [Writers -> Nat] /\ failed' \in [Writers -> BOOLEAN]
  BY DEF CountInv, Stdin!Begin
<1>2. ASSUME NEW v \in Writers PROVE Counted(v)'
  <2>1. Counted(v) /\ out' = out
    BY DEF CountInv, Stdin!Begin
  <2>2. CASE v = w
    <3>1. /\ ops'[v] = ops[v] + 1 /\ pc'[v] # "unlock" /\ written'[v] = 0
          /\ pc'[v] # "idle" => written'[v] < size'[v]
          /\ pc'[v] = "idle" => written'[v] = size'[v]
      BY <2>2 DEF StdinTypes, CountInv, Stdin!Begin
    <3> QED BY <2>1, <3>1, CountNew
  <2>3. CASE v # w
    <3>1. UNCHANGED <<ops[v], pc[v], written[v], size[v], failed[v]>>
      BY <2>3 DEF StdinTypes, CountInv, Stdin!Begin
    <3> QED BY <2>1, <3>1, CountSame DEF Sent, Counted
  <2> QED BY <2>2, <2>3
<1> QED BY <1>1, <1>2 DEF CountInv

LEMMA OneMore ==
    ASSUME NEW n \in Nat
    PROVE  /\ \A i \in 1..n : i \in 1..(n + 1)
           /\ \A i \in 1..(n + 1) : i \in 1..n \/ i = n + 1
           /\ n + 1 \in 1..(n + 1) /\ n + 1 \notin 1..n
OBVIOUS

(* A unit u is sent: the calls that it is not the end of a chunk of have   *)
(* the chunks that they had, and the others one more.                      *)
LEMMA SendUnit ==
    ASSUME StdinTypes, NEW v \in Writers, NEW u \in UnitRec,
           out' = Append(out, u), ops'[v] = ops[v]
    PROVE  /\ Len(out) \in Nat /\ Len(out') = Len(out) + 1 /\ out'[Len(out) + 1] = u
           /\ \A i \in 1..Len(out) : out'[i] = out[i] /\ i \in 1..Len(out')
           /\ \A i \in 1..Len(out') : i \in 1..Len(out) \/ i = Len(out) + 1
           /\ ~(u.w = v /\ u.op = ops[v] /\ u.unit = u.of) =>
                UNCHANGED <<Stdin!Complete(v), Chunks(v)>>
           /\ u.w = v /\ u.op = ops[v] /\ u.unit = u.of =>
                /\ Len(out) + 1 \notin Stdin!Complete(v)
                /\ Stdin!Complete(v)' = Stdin!Complete(v) \cup {Len(out) + 1}
                /\ Chunks(v)' = Chunks(v) \cup {u.chunk}
<1>1. /\ Len(out) \in Nat /\ Len(out') = Len(out) + 1 /\ out'[Len(out) + 1] = u
      /\ \A i \in 1..Len(out) : out'[i] = out[i]
  BY DEF StdinTypes
<1>2. /\ \A i \in 1..Len(out) : i \in 1..Len(out')
      /\ \A i \in 1..Len(out') : i \in 1..Len(out) \/ i = Len(out) + 1
      /\ Len(out) + 1 \in 1..Len(out') /\ Len(out) + 1 \notin 1..Len(out)
  BY <1>1, OneMore, Zenon
<1>3. CASE ~(u.w = v /\ u.op = ops[v] /\ u.unit = u.of)
  <2>1. ASSUME NEW i PROVE i \in Stdin!Complete(v)' <=> i \in Stdin!Complete(v)
    BY <1>1, <1>2, <1>3, Zenon DEF Stdin!Complete
  <2>2. \A i \in Stdin!Complete(v) : out'[i] = out[i]
    BY <1>1, Zenon DEF Stdin!Complete
  <2>3. Chunks(v)' = Chunks(v)
    BY <2>1, <2>2, Zenon DEF Chunks
  <2>4. Stdin!Complete(v)' = Stdin!Complete(v)
    BY <2>1, Zenon
  <2> QED BY <1>1, <1>2, <1>3, <2>3, <2>4, Zenon
<1>4. CASE u.w = v /\ u.op = ops[v] /\ u.unit = u.of
  <2>1. Stdin!Complete(v)' = Stdin!Complete(v) \cup {Len(out) + 1}
    BY <1>1, <1>2, <1>4, Zenon DEF Stdin!Complete
  <2>2. \A i \in Stdin!Complete(v) : out'[i] = out[i]
    BY <1>1, Zenon DEF Stdin!Complete
  <2>3. Chunks(v)' = Chunks(v) \cup {u.chunk}
    <3>1. ASSUME NEW c PROVE c \in Chunks(v)' <=> c \in Chunks(v) \/ c = u.chunk
      BY <1>1, <2>1, <2>2, Zenon DEF Chunks
    <3> QED BY <3>1, Zenon
  <2>4. Len(out) + 1 \notin Stdin!Complete(v)
    BY <1>2, Zenon DEF Stdin!Complete
  <2> QED BY <1>1, <1>2, <1>4, <2>1, <2>3, <2>4, Zenon
<1> QED BY <1>3, <1>4, Zenon

LEMMA CountSend ==
    ASSUME SetsCount, StdinTypes, InPacket, CountInv, NEW w \in Writers, Stdin!Send(w)
    PROVE  CountInv'
<1> DEFINE u == [w |-> w, op |-> ops[w], chunk |-> written[w] + 1,
                 unit |-> pos[w] + 1, of |-> Stdin!Units(op[w])]
<1>1. u \in UnitRec /\ out' = Append(out, u)
  BY DEF StdinTypes, Stdin!Send, UnitRec, Stdin!Units
<1>2. /\ u.w = w /\ u.op = ops[w] /\ u.chunk = written[w] + 1
      /\ u.unit = u.of <=> pos[w] + 1 = Stdin!Units(op[w])
  OBVIOUS
<1>3. UNCHANGED <<ops, size, written, failed>> /\ pc[w] = "send"
  BY DEF Stdin!Send
<1> HIDE DEF u
<1>4. ASSUME NEW v \in Writers PROVE Counted(v)'
  <2>1. Counted(v) /\ ops'[v] = ops[v] /\ ops[v] \in Nat
    BY <1>3 DEF CountInv, StdinTypes
  <2>2. /\ Len(out) \in Nat /\ Len(out') = Len(out) + 1 /\ out'[Len(out) + 1] = u
        /\ \A i \in 1..Len(out) : out'[i] = out[i]
        /\ \A i \in 1..Len(out') : i \in 1..Len(out) \/ i = Len(out) + 1
    BY <1>1, <2>1, SendUnit, Zenon
  <2>3. \A i \in 1..Len(out') : out'[i].w = v => out'[i].op <= ops'[v]
    <3>1. u.w = v => u.op <= ops[v]
      BY <1>2, <2>1
    <3> QED BY <2>1, <2>2, <3>1, Zenon DEF Counted
  <2>4. /\ pc'[v] # "idle" => written'[v] < size'[v]
        /\ pc'[v] = "idle" => failed'[v] \/ written'[v] = size'[v]
    <3>1. pc'[v] = "idle" <=> pc[v] = "idle"
      BY DEF StdinTypes, Stdin!Send
    <3> QED BY <1>3, <2>1, <3>1, Zenon DEF Counted
  <2>5. CASE v = w /\ pos[w] + 1 = Stdin!Units(op[w])
    <3>1. pc'[v] = "unlock"
      BY <2>5 DEF StdinTypes, Stdin!Send
    <3>2. Sent(v) = written[v] /\ Sent(v)' = written[v] + 1
      BY <1>3, <2>5, <3>1 DEF Sent
    <3>3. /\ Len(out) + 1 \notin Stdin!Complete(v)
          /\ Stdin!Complete(v)' = Stdin!Complete(v) \cup {Len(out) + 1}
          /\ Chunks(v)' = Chunks(v) \cup {written[v] + 1}
      BY <1>1, <1>2, <2>1, <2>5, SendUnit, Zenon
    <3>4. written[v] \in Nat
      BY DEF StdinTypes
    <3>5. 1..(written[v] + 1) = (1..written[v]) \cup {written[v] + 1}
      BY <3>4
    <3>6. Chunks(v)' = 1..Sent(v)'
      BY <2>1, <3>2, <3>3, <3>5, Zenon DEF Counted
    <3>7. /\ IsFiniteSet(Stdin!Complete(v)')
          /\ Cardinality(Stdin!Complete(v)') = Cardinality(Stdin!Complete(v)) + 1
      <4>1. IsFiniteSet(Stdin!Complete(v))
        BY <2>1, Zenon DEF Counted
      <4>2. PICK C, x : C = Stdin!Complete(v) /\ x = Len(out) + 1
        OBVIOUS
      <4>3. IsFiniteSet(C) /\ x \notin C
        BY <3>3, <4>1, <4>2, Zenon
      <4>4. IsFiniteSet(C \cup {x}) /\ Cardinality(C \cup {x}) = Cardinality(C) + 1
        BY <4>3, Zenon DEF SetsCount
      <4> QED BY <3>3, <4>2, <4>4, Zenon
    <3>8. Cardinality(Stdin!Complete(v)') = Sent(v)'
      BY <2>1, <3>2, <3>7, Zenon DEF Counted
    <3> QED BY <2>3, <2>4, <3>6, <3>7, <3>8, Zenon DEF Counted
  <2>6. CASE v # w \/ pos[w] + 1 # Stdin!Units(op[w])
    <3>1. pc'[v] = pc[v]
      BY <2>6 DEF StdinTypes, Stdin!Send
    <3>2. Sent(v)' = Sent(v)
      BY <1>3, <3>1, Zenon DEF Sent
    <3>3. UNCHANGED <<Stdin!Complete(v), Chunks(v)>>
      BY <1>1, <1>2, <2>1, <2>6, SendUnit, Zenon
    <3> QED BY <2>1, <2>3, <2>4, <3>2, <3>3, Zenon DEF Counted
  <2> QED BY <2>5, <2>6, Zenon
<1>5. size' \in [Writers -> Nat] /\ failed' \in [Writers -> BOOLEAN]
  BY <1>3, Zenon DEF CountInv
<1> QED BY <1>4, <1>5, Zenon DEF CountInv

(* Nothing of this changes while the writers do nothing.                   *)
LEMMA CountStays ==
    ASSUME CountInv, UNCHANGED <<out, pc, ops, size, written, failed>>
    PROVE  CountInv'
<1>1. size' \in [Writers -> Nat] /\ failed' \in [Writers -> BOOLEAN]
  BY Zenon DEF CountInv
<1>2. ASSUME NEW v \in Writers PROVE Counted(v)'
  <2>1. Counted(v) /\ UNCHANGED <<ops[v], Sent(v)>>
    BY Zenon DEF CountInv, Sent
  <2> QED BY <2>1, CountSame, Zenon DEF Counted
<1> QED BY <1>1, <1>2, Zenon DEF CountInv

LEMMA CountStep ==
    SetsCount /\ StdinInv /\ CountInv /\ [Stdin!Next]_(Stdin!vars) => CountInv'
<1> SUFFICES ASSUME SetsCount, StdinInv, CountInv, [Stdin!Next]_(Stdin!vars)
             PROVE  CountInv'
  OBVIOUS
<1>1. StdinTypes /\ InPacket
  BY Zenon DEF StdinInv
<1>2. CASE \E w \in Writers : Stdin!Write(w) \/ Stdin!CloseStdin(w) \/ Stdin!Resize(w)
  <2>1. 0..MaxChunks \subseteq Nat /\ 1 \in Nat
    BY StdinAssumption
  <2>2. PICK w \in Writers : \E k \in Stdin!Kinds : \E n \in Nat : Stdin!Begin(w, k, n)
    BY <1>2, <2>1 DEF Stdin!Write, Stdin!CloseStdin, Stdin!Resize, Stdin!Kinds
  <2> QED BY <1>1, <2>2, CountBegin, Zenon
<1>3. CASE \E w \in Writers : Stdin!WriterStep(w)
  BY <1>1, <1>3, CountQuiet, CountSend, Zenon DEF Stdin!WriterStep
<1>4. CASE \/ Stdin!closeTransport \/ Stdin!DeviceReads \/ Stdin!DeviceStops
           \/ UNCHANGED Stdin!vars
  BY <1>4, CountStays, Zenon DEF Stdin!closeTransport, Stdin!DeviceReads, Stdin!DeviceStops,
     Stdin!vars, Stdin!writerVars
<1> QED BY <1>2, <1>3, <1>4, Zenon DEF Stdin!Next

LEMMA CountSays == CountInv => Stdin!CountTrue
<1>1. \A X : Stdin!Cardinality(X) = Cardinality(X)
  BY Zenon DEF Stdin!Cardinality, Cardinality
<1> QED BY <1>1, Zenon DEF CountInv, Counted, Stdin!CountTrue, Sent, Chunks

(* The stream that the writers of a session share is a sequence of whole   *)
(* packets, whatever calls they make and however they are interrupted.     *)
THEOREM StreamOfPackets == Stdin!Spec => []Stdin!PacketsWhole
<1>1. StdinInv => Stdin!PacketsWhole
  BY DEF StdinInv
<1>2. Stdin!Init => Stdin!WritersIdle
  BY DEF Stdin!Init
<1> QED BY <1>1, <1>2, StdinStep, StdinInit, PTL DEF Stdin!Spec

(* Zenon proves most leaves from here on.                                  *)
USE Zenon

-----------------------------------------------------------------------------
(* The jobs.                                                               *)

LEMMA StagesAreCalls ==
    ASSUME NEW s
    PROVE  CallOf(s) \in Calls /\ ContextOf(s) \in Contexts(CallOf(s))
<1>1. CallOf(s) \in Calls
  BY CallNames DEF CallOf
<1>2. ContextOf(s) \in Contexts(CallOf(s))
  BY DEF ContextOf, Contexts, TakesContext, CallOf
<1> QED BY <1>1, <1>2

LEMMA JobStepCalls == JobStep => [ClientNext]_clientVars
<1>1. ASSUME NEW s, Enter(s) PROVE ClientNext
  BY <1>1, StagesAreCalls DEF Enter, ClientNext
<1>2. ASSUME NEW v, Return(v) PROVE UNCHANGED clientVars
  BY <1>2 DEF Return
<1>3. ASSUME NEW s, Goto(s) PROVE UNCHANGED clientVars
  BY <1>3 DEF Goto
<1>4. Push => [ClientNext]_clientVars
  <2>1. "background" \in Contexts(CallOf("pm")) /\ CallOf("pm") \in Calls
    BY StagesAreCalls DEF Contexts
  <2> QED BY <2>1 DEF Push, ClientNext
<1>5. FirstDevice \/ ChooseMethod \/ OpenFile \/ FinishAbbExec \/ FinishInstall \/ Cleanup
        => [ClientNext]_clientVars
  BY <1>1, <1>2, <1>3
     DEF FirstDevice, ChooseMethod, OpenFile, FinishAbbExec, FinishInstall, Cleanup
<1>6. StartActivity \/ StartService \/ WaitForDevice \/ WaitForDeviceWithTimeout \/ SingleCall
        => [ClientNext]_clientVars
  BY <1>1, <1>2
     DEF StartActivity, StartService, WaitForDevice, WaitForDeviceWithTimeout, SingleCall
<1> QED BY <1>4, <1>5, <1>6 DEF JobStep

LEMMA JobsStep == [Next]_vars => [ClientNext]_clientVars
<1> SUFFICES ASSUME [Next]_vars PROVE [ClientNext]_clientVars
  OBVIOUS
<1>1. CASE JobStep
  BY <1>1, JobStepCalls
<1>2. CASE WaitTimesOut \/ DeviceRuns \/ OtherInstall \/ UNCHANGED vars
  BY <1>2 DEF WaitTimesOut, DeviceRuns, OtherInstall, vars
<1>3. CASE \/ Quietly(CallStep) \/ Quietly(Watcher) \/ Quietly(Reader)
           \/ Quietly(Cancel) \/ Quietly(DeadlinePasses)
           \/ Quietly(ServerHangs) \/ Quietly(ServerLost) \/ ServerActs
  BY <1>3 DEF Quietly, ServerActs, ClientNext, ClientStep
<1> QED BY <1>1, <1>2, <1>3 DEF Next

(* DeviceJobs implements Client: an installation, an intent or a wait is a *)
(* sequence of calls, each begun when the one before has returned.         *)
THEOREM JobsMakeCalls == Spec => ClientSpec
<1>1. Init => ClientInit
  BY DEF Init
<1> QED BY <1>1, JobsStep, PTL DEF Spec, ClientSpec

(* Which call a job is making.  None of ClosingCalls hands its connection  *)
(* over.                                                                   *)
ClosingCalls == {"SendHostCommandContext", "installUsingAbbExec",
                 "executeTransportCommandWithResponse", "RunCommandContext"}

CallInv ==
    IF job \in Calls THEN call = job /\ stage \in {"call", "end"}
    ELSE /\ stage # "call"
         /\ \/ call \in ClosingCalls
            \/ job = "InstallRemote" /\ stage \in {"rm", "end"}

LEMMA ClosingCallsClose == ASSUME NEW c \in ClosingCalls PROVE ~Opens(c)
<1>1. Closes(Program[c])
  <2>1. /\ Program["SendHostCommandContext"] = SendHostCommandContext
        /\ Program["installUsingAbbExec"] = installUsingAbbExec
        /\ Program["executeTransportCommandWithResponse"] = executeTransportCommandWithResponse
        /\ Program["RunCommandContext"] = RunCommandContext
    BY SMT DEF Program
  <2> QED BY <2>1, ClosingPrograms DEF ClosingCalls
<1>2. Len(Program[c]) \in 1..Len(Program[c]) /\ Program[c][Len(Program[c])] = "close"
  BY <1>1, SMT DEF Closes, LastStep
<1> QED BY <1>2 DEF Opens, HasStep

LEMMA CallsStart == Init => CallInv
<1> SUFFICES ASSUME Init PROVE CallInv
  OBVIOUS
<1>1. CASE job \in Calls
  <2>1. job \notin Composite
    BY <1>1, CallNames DEF Composite
  <2>2. FirstStage(job) = {"call"}
    BY <2>1 DEF FirstStage, Composite, Intents, Waits
  <2> QED BY <1>1, <2>2 DEF Init, CallInv
<1>2. CASE job \notin Calls
  <2>1. job \in Composite
    BY <1>2 DEF Init
  <2>2. stage \in {"devices", "features", "pm", "am", "wait"}
    BY <2>1 DEF Init, FirstStage, Composite, Intents, Waits
  <2>3. call = CallOf(stage)
    BY <2>1 DEF Init
  <2> QED BY <1>2, <2>2, <2>3 DEF CallInv, CallOf, ClosingCalls
<1> QED BY <1>1, <1>2

LEMMA CallsStep == CallInv /\ [Next]_vars => CallInv'
<1> SUFFICES ASSUME CallInv, [Next]_vars PROVE CallInv'
  OBVIOUS
<1>1. ASSUME UNCHANGED <<job, stage, call>> PROVE CallInv'
  BY <1>1 DEF CallInv
<1>2. ASSUME NEW v, Return(v) PROVE CallInv'
  BY <1>2 DEF CallInv, Return, clientVars, callVars
<1>3. ASSUME NEW s \in {"push", "open"}, Goto(s), stage \notin {"call", "rm", "end"}
      PROVE  CallInv'
  BY <1>3 DEF CallInv, Goto, clientVars, callVars
<1>4. ASSUME NEW s \in {"features", "abb", "am", "rm"}, Enter(s), stage \notin {"call", "end"}
      PROVE  CallInv'
  <2>1. job' = job /\ stage' = s /\ call' = CallOf(s)
    BY <1>4 DEF Enter, Begin
  <2>2. job \notin Calls
    BY <1>4 DEF CallInv
  <2>3. CallOf(s) \in ClosingCalls \/ (job = "InstallRemote" /\ s = "rm")
    BY DEF CallOf, ClosingCalls
  <2> QED BY <2>1, <2>2, <2>3 DEF CallInv
<1>5. CASE JobStep
  <2>1. CASE FirstDevice \/ ChooseMethod \/ OpenFile \/ FinishInstall
    BY <1>2, <1>3, <1>4, <2>1 DEF FirstDevice, ChooseMethod, OpenFile, FinishInstall, At
  <2>2. CASE Push
    <3>1. job \notin Calls /\ job' = job
      BY <2>2 DEF Push, CallInv
    <3>2. CASE stage' = "pm" /\ call' = CallOf("pm")
      BY <3>1, <3>2 DEF CallInv, CallOf, ClosingCalls
    <3>3. CASE stage' = "end" /\ call' = call
      BY <3>1, <3>3 DEF CallInv
    <3> QED BY <2>2, <3>2, <3>3 DEF Push, Begin, clientVars, callVars
  <2>3. CASE StartActivity \/ StartService
    BY <1>2, <1>4, <2>3 DEF StartActivity, StartService, At
  <2>4. CASE FinishAbbExec \/ Cleanup \/ WaitForDevice \/ WaitForDeviceWithTimeout \/ SingleCall
    BY <1>2, <2>4 DEF FinishAbbExec, Cleanup, WaitForDevice, WaitForDeviceWithTimeout, SingleCall
  <2> QED BY <1>5, <2>1, <2>2, <2>3, <2>4 DEF JobStep
<1>6. CASE WaitTimesOut \/ DeviceRuns \/ OtherInstall \/ UNCHANGED vars
  BY <1>1, <1>6 DEF WaitTimesOut, DeviceRuns, OtherInstall, vars, jobVars, clientVars, callVars
<1>7. CASE \/ Quietly(CallStep) \/ Quietly(Watcher) \/ Quietly(Reader)
           \/ Quietly(Cancel) \/ Quietly(DeadlinePasses)
           \/ Quietly(ServerHangs) \/ Quietly(ServerLost) \/ ServerActs
  <2>1. UNCHANGED <<job, stage>>
    BY <1>7 DEF Quietly, ServerActs, jobVars
  <2>2. call' = call
    BY <1>7 DEF Quietly, ServerActs, CallStep, Dial, Watch, Send, ReadOnce, ReadStatus, Message,
       ReadPayload, ReadReply, ReadRaw, ReadRest, Decode, Spawn, Collect, Close, Watcher, Reader,
       Cancel, DeadlinePasses, ServerHangs, ServerLost, ServerStep, ServerStatus, ServerPayload,
       ServerSecondStatus, ServerOutput, Sends, callVars
  <2> QED BY <1>1, <2>1, <2>2
<1> QED BY <1>5, <1>6, <1>7 DEF Next

LEMMA CallsClose == ClientInv /\ CallInv => JobsClose
<1> SUFFICES ASSUME ClientInv, CallInv, Returned, conn = "open"
             PROVE  /\ res = "ok"
                    /\ \/ job \in Calls /\ Opens(job)
                       \/ job = "InstallRemote" /\ stage \in {"rm", "end"}
  BY DEF JobsClose
<1>1. res = "ok" /\ Opens(call)
  BY DEF ClientInv, NothingLeaks
<1> QED BY <1>1, ClosingCallsClose DEF CallInv

(* An operation that makes several calls has closed the connection of each *)
(* before it makes the next and when it returns, on any path through them; *)
(* and one that makes a single call leaves its connection open only to     *)
(* hand it over.  The exception is InstallRemote, which drops the shell in *)
(* which it has removed the file.                                          *)
THEOREM JobsCloseConnections == Spec => []JobsClose
<1>1. Spec => []ClientInv
  BY JobsMakeCalls, ClientStarts, ClientInductive, PTL DEF ClientSpec
<1> QED BY <1>1, CallsStart, CallsStep, CallsClose, PTL DEF Spec

JobInv ==
    /\ job \in {"Install", "InstallRemote"} =>
         stage \in {"devices", "features", "open", "abb", "push", "pm", "rm", "end"}
    /\ stage \in {"devices", "features", "open", "push"} => ran = "no"
    /\ stage \in {"devices", "features", "open", "push", "pm", "abb"} => output = "false"
    /\ stage = "pm" => temp = "own" \/ shared
    /\ stage \in {"pm", "abb"} /\ ran = "Success" => installed = "own" \/ shared
    /\ output = "true" => installed = "own" \/ shared
    /\ answer = "true" /\ job \in {"Install", "InstallRemote"} =>
         installed = "own" \/ shared
    /\ job = "WaitForDevice" =>
         /\ stage \in {"wait", "end"} /\ call = "SendHostCommandContext"
         /\ answer = "true" =>
              stage = "end" /\ Returned /\ res = "ok" /\ (torn \/ buf = <<>>)
    /\ job = "ShellV2WithOptionsContext" => stage \in {"call", "end"} /\ call = job

-----------------------------------------------------------------------------
(* The answers of the jobs.                                                *)

LEMMA JobKept ==
    ASSUME JobInv, UNCHANGED <<job, stage, answer, output, temp, installed, ran, shared>>,
           call' = call,
           job = "WaitForDevice" /\ answer = "true" => UNCHANGED <<prog, res, buf, torn>>
    PROVE  JobInv'
BY DEF JobInv, Returned

LEMMA Entered ==
    ASSUME JobInv, NEW s, Enter(s), s \in {"features", "abb", "am", "rm"},
           job \notin {"WaitForDevice", "ShellV2WithOptionsContext"},
           job \in {"Install", "InstallRemote"} => s # "am",
           output' = "true" => installed = "own" \/ shared,
           s \in {"features", "abb"} => output' = "false"
    PROVE  JobInv'
<1>1. stage' = s /\ ran' = "no" /\ UNCHANGED <<job, answer, temp, installed, shared>>
  BY DEF Enter
<1> QED BY <1>1 DEF JobInv

LEMMA ReturnedFrom ==
    ASSUME JobInv, NEW v, Return(v), job # "WaitForDevice",
           v = "true" /\ job \in {"Install", "InstallRemote"} => installed = "own" \/ shared
    PROVE  JobInv'
<1>1. /\ stage' = "end" /\ answer' = v
      /\ UNCHANGED <<job, output, temp, installed, ran, shared, call>>
  BY DEF Return, deviceVars, clientVars, callVars
<1> QED BY <1>1 DEF JobInv

LEMMA WentTo ==
    ASSUME JobInv, NEW s, Goto(s), s \in {"push", "open"},
           job \notin {"WaitForDevice", "ShellV2WithOptionsContext"},
           stage \in {"devices", "features"}
    PROVE  JobInv'
<1>1. stage' = s /\ UNCHANGED <<job, answer, output, temp, installed, ran, shared>>
  BY DEF Goto, deviceVars
<1> QED BY <1>1 DEF JobInv

LEMMA JobStepKeeps ==
    ASSUME JobInv, JobStep
    PROVE  JobInv'
<1> DEFINE Inst == {"Install", "InstallRemote"}
<1>1. \A b : Bool(b) = "true" => b
  BY DEF Bool
<1>2. CASE FirstDevice
  <2>1. job \notin {"WaitForDevice", "ShellV2WithOptionsContext"} /\ stage = "devices"
    BY <1>2 DEF FirstDevice, At, JobInv
  <2>2. CASE Enter("features") /\ UNCHANGED output
    BY <2>1, <2>2, Entered DEF JobInv
  <2>3. CASE Goto("push")
    BY <2>1, <2>3, WentTo
  <2> QED BY <1>2, <2>2, <2>3, Zenon DEF FirstDevice
<1>3. CASE ChooseMethod
  <2>1. job \notin {"WaitForDevice", "ShellV2WithOptionsContext"} /\ stage = "features"
    BY <1>3 DEF ChooseMethod, At, JobInv
  <2>2. Goto("open") \/ Goto("push")
    BY <1>3, Zenon DEF ChooseMethod
  <2> QED BY <2>1, <2>2, WentTo
<1>4. CASE OpenFile
  <2>1. job \notin {"WaitForDevice", "ShellV2WithOptionsContext"} /\ stage = "open"
    BY <1>4 DEF OpenFile, JobInv
  <2>2. CASE Enter("abb") /\ UNCHANGED output
    BY <2>1, <2>2, Entered DEF JobInv
  <2>3. CASE Return("error")
    BY <2>1, <2>3, ReturnedFrom
  <2> QED BY <1>4, <2>2, <2>3, Zenon DEF OpenFile
<1>5. CASE FinishAbbExec
  <2>1. job \notin {"WaitForDevice", "ShellV2WithOptionsContext"} /\ stage = "abb"
    BY <1>5 DEF FinishAbbExec, At, JobInv
  <2>2. PICK v : Return(v) /\ v = IF res = "ok" THEN Bool(Says("Success")) ELSE "error"
    BY <1>5, Zenon DEF FinishAbbExec
  <2>3. v = "true" => ran = "Success"
    BY <2>2 DEF Bool, Says
  <2> QED BY <2>1, <2>2, <2>3, ReturnedFrom DEF JobInv
<1>6. CASE Push
  <2>1. /\ job \notin {"WaitForDevice", "ShellV2WithOptionsContext"} /\ stage = "push"
        /\ UNCHANGED <<job, output, installed, ran, shared>>
        /\ \/ stage' = "pm" /\ temp' = "own" /\ answer' = answer
           \/ stage' = "end" /\ answer' = "error"
    <3>1. job \notin {"WaitForDevice", "ShellV2WithOptionsContext"}
      BY <1>6 DEF Push, JobInv
    <3> QED BY <1>6, <3>1, Zenon DEF Push
  <2> QED BY <2>1 DEF JobInv
<1>7. CASE FinishInstall
  <2>1. job \notin {"WaitForDevice", "ShellV2WithOptionsContext"} /\ stage = "pm"
    BY <1>7 DEF FinishInstall, At, JobInv
  <2>2. CASE Enter("rm") /\ output' = Bool(Says("Success"))
    <3>1. output' = "true" => ran = "Success"
      BY <2>2 DEF Bool, Says
    <3> QED BY <2>1, <2>2, <3>1, Entered DEF JobInv
  <2>3. CASE Return("error")
    BY <2>1, <2>3, ReturnedFrom
  <2> QED BY <1>7, <2>2, <2>3, Zenon DEF FinishInstall
<1>8. CASE Cleanup
  <2>1. job # "WaitForDevice" /\ Return(output)
    BY <1>8 DEF Cleanup, At, JobInv
  <2> QED BY <2>1, ReturnedFrom DEF JobInv
<1>9. CASE StartActivity \/ StartService
  <2>1. job \in {"StartActivity", "StartService"}
    <3>1. job = "StartActivity" \/ job = "StartService"
      BY <1>9, Zenon DEF StartActivity, StartService
    <3> QED BY <3>1
  <2>2. job \notin {"WaitForDevice", "ShellV2WithOptionsContext"} /\ job \notin Inst
    BY <2>1
  <2>3. CASE Enter("am") /\ UNCHANGED output
    BY <2>2, <2>3, Entered DEF JobInv
  <2>4. CASE \E v : Return(v)
    BY <2>2, <2>4, ReturnedFrom
  <2> QED BY <1>9, <2>3, <2>4, Zenon DEF StartActivity, StartService
<1>10. CASE WaitForDevice
  <2>1. /\ job = "WaitForDevice" /\ stage' = "end" /\ Returned
        /\ UNCHANGED <<job, output, temp, installed, ran, shared, call, prog, res, buf, torn>>
        /\ answer' = IF res = "ok" THEN Bool(buf = <<>>) ELSE "error"
    BY <1>10 DEF WaitForDevice, At, Return, deviceVars, clientVars, callVars, linkVars
  <2>2. answer' = "true" => res = "ok" /\ buf = <<>>
    BY <2>1 DEF Bool
  <2> QED BY <2>1, <2>2 DEF JobInv, Returned
<1>11. CASE WaitForDeviceWithTimeout \/ SingleCall
  <2>1. job # "WaitForDevice" /\ job \notin Inst
    BY <1>11 DEF WaitForDeviceWithTimeout, SingleCall, At, JobInv
  <2>2. \E v : Return(v)
    BY <1>11, Zenon DEF WaitForDeviceWithTimeout, SingleCall
  <2> QED BY <2>1, <2>2, ReturnedFrom
<1> QED BY <1>2, <1>3, <1>4, <1>5, <1>6, <1>7, <1>8, <1>9, <1>10, <1>11, Zenon DEF JobStep

LEMMA DeviceKeeps ==
    ASSUME JobInv, DeviceRuns
    PROVE  JobInv'
<1>1. /\ UNCHANGED <<job, stage, answer, output, shared, call, prog, res, buf, torn>>
      /\ \/ /\ stage \in {"pm", "abb"} /\ temp' = temp
            /\ \/ /\ ran' = "Success"
                  /\ installed' = IF stage = "abb" THEN "own" ELSE temp
               \/ ran' = "Error" /\ installed' = installed
         \/ stage \in {"rm", "am"} /\ installed' = installed
  BY Zenon DEF DeviceRuns, jobVars, clientVars, callVars, linkVars
<1>2. job # "WaitForDevice"
  BY <1>1 DEF JobInv
<1> QED BY <1>1, <1>2 DEF JobInv

LEMMA JobInvStep ==
    ASSUME JobInv, ReplyInv, [Next]_vars
    PROVE  JobInv'
<1>1. CASE JobStep
  BY <1>1, JobStepKeeps
<1>2. CASE DeviceRuns
  BY <1>2, DeviceKeeps
<1>3. CASE OtherInstall
  <2>1. /\ UNCHANGED <<job, stage, answer, output, installed, ran, call, prog, res, buf, torn>>
        /\ shared' = TRUE /\ job = "Install" /\ stage \in {"push", "pm", "rm"}
    BY <1>3, Zenon DEF OtherInstall, jobVars, clientVars, callVars, linkVars
  <2> QED BY <2>1 DEF JobInv
<1>4. CASE WaitTimesOut
  <2>1. /\ UNCHANGED <<job, stage, output, temp, installed, ran, shared, call>>
        /\ answer' = "error" /\ job = "WaitForDeviceWithTimeout"
    BY <1>4, Zenon DEF WaitTimesOut, deviceVars, clientVars, callVars
  <2> QED BY <2>1 DEF JobInv
<1>5. CASE UNCHANGED vars
  <2>1. /\ UNCHANGED <<job, stage, answer, output, temp, installed, ran, shared>>
        /\ UNCHANGED <<call, prog, res, buf, torn>>
    BY <1>5, Zenon DEF vars, jobVars, deviceVars, clientVars, callVars, linkVars
  <2> QED BY <2>1, JobKept
<1>6. CASE Quietly(CallStep)
  <2>1. CallStep /\ UNCHANGED <<job, stage, answer, output, temp, installed, ran, shared>>
    BY <1>6, Zenon DEF Quietly, jobVars, deviceVars
  <2>2. call' = call /\ ~Returned
    BY <2>1, CallKept, CallRuns
  <2>3. ~(job = "WaitForDevice" /\ answer = "true")
    BY <2>2 DEF JobInv
  <2> QED BY <2>1, <2>2, <2>3, JobKept
<1>7. CASE \/ Quietly(Watcher) \/ Quietly(Reader) \/ Quietly(Cancel)
           \/ Quietly(DeadlinePasses) \/ Quietly(ServerHangs) \/ Quietly(ServerLost)
           \/ ServerActs
  <2>1. /\ UNCHANGED <<job, stage, answer, output, temp, installed, ran, shared>>
        /\ \/ Watcher \/ Reader \/ Cancel \/ DeadlinePasses \/ ServerStep \/ ServerHangs
           \/ ServerLost
    BY <1>7, Zenon DEF Quietly, ServerActs, jobVars, deviceVars
  <2>2. UNCHANGED <<call, prog, res, torn>>
    BY <2>1, Untouched, Zenon
  <2>3. ~Reader => buf' = buf
    BY <2>1, Zenon DEF Watcher, Cancel, DeadlinePasses, ServerStep, ServerStatus,
       ServerPayload, ServerSecondStatus, ServerOutput, Sends, ServerHangs, ServerLost,
       callVars, linkVars, serverVars
  <2>4. CASE ~Reader
    BY <2>1, <2>2, <2>3, <2>4, JobKept
  <2>5. CASE job = "WaitForDevice" /\ answer = "true" /\ ~torn
    <3>1. call = "SendHostCommandContext" /\ res = "ok" /\ prog = <<>>
      BY <2>5 DEF JobInv, Returned
    <3>2. Host(call)
      BY <3>1, HostCall, Zenon DEF ReplyInv, HeardInv
    <3>3. ~Failing
      BY <3>1 DEF Failing
    <3>4. HostFollows
      BY <2>5, <3>2, <3>3, Zenon DEF ReplyInv, HeardInv, Heard
    <3>5. helper \in {"off", "watching", "exit"}
      BY <3>4 DEF HostFollows, HostFollowed
    <3>6. ~Reader
      BY <3>5 DEF Reader
    <3> QED BY <2>4, <3>6
  <2>6. CASE ~(job = "WaitForDevice" /\ answer = "true")
    BY <2>1, <2>2, <2>6, JobKept
  <2>7. CASE job = "WaitForDevice" /\ answer = "true" /\ torn
    BY <2>1, <2>2, <2>7 DEF JobInv, Returned
  <2> QED BY <2>5, <2>6, <2>7
<1> QED BY <1>1, <1>2, <1>3, <1>4, <1>5, <1>6, <1>7, Zenon DEF Next

LEMMA JobStarts == Init => JobInv
<1> SUFFICES ASSUME Init PROVE JobInv
  OBVIOUS
<1>1. /\ stage \in FirstStage(job) /\ answer = "none" /\ output = "false"
      /\ job \in Calls => call = job
      /\ temp = IF job = "InstallRemote" THEN "own" ELSE "none"
      /\ ran = "no"
      /\ job \in Composite => call = CallOf(stage)
  BY Zenon DEF Init
<1>2. /\ job = "Install" => stage \in {"devices", "features"}
      /\ job = "InstallRemote" => stage = "pm"
      /\ job = "WaitForDevice" => stage = "wait"
  BY <1>1 DEF FirstStage, Intents, Waits
<1>3. stage = "pm" => job = "InstallRemote"
  BY <1>1 DEF FirstStage
<1>4. job = "WaitForDevice" => call = "SendHostCommandContext"
  BY <1>1, <1>2 DEF Composite, CallOf
<1>5. job = "ShellV2WithOptionsContext" => stage = "call" /\ call = job
  BY <1>1, CallNames DEF FirstStage, Intents, Waits
<1> QED BY <1>1, <1>2, <1>3, <1>4, <1>5 DEF JobInv

(* A writer that fails may turn a lost connection into one that is reset,  *)
(* and the device may stop: neither touches what the call has read.        *)
LEMMA WhileWriting ==
    ASSUME ReplyInv, JobInv, job = "ShellV2WithOptionsContext",
           UNCHANGED <<callVars, wire, buf, torn, ctxVars, ans, sent, jobVars, deviceVars>>,
           conn' = conn \/ conn' = "closed",
           \/ server' = server
           \/ server = "up" /\ server' \in {"silent", "gone"}
           \/ server = "gone" /\ server' = "reset"
    PROVE  ReplyInv' /\ JobInv'
<1>1. /\ UNCHANGED <<call, prog, res, buf, wire, torn, sent, ans, helper>>
      /\ UNCHANGED <<job, stage, answer, output, temp, installed, ran, shared>>
  BY Zenon DEF callVars, ctxVars, jobVars, deviceVars
<1>2. JobInv'
  BY <1>1, JobKept
<1>3. ClientInv'
  BY <1>1, StayKeeps DEF ReplyInv
<1>4. Ended'
  BY <1>1, Zenon DEF ReplyInv, Ended, Returned
<1>5. call = "ShellV2WithOptionsContext" /\ call \in Calls
  BY Zenon DEF JobInv, ReplyInv, HeardInv
<1>6. ~Host(call) /\ (Host(call)' <=> Host(call))
  <2>1. call # "SendHostCommandContext"
    BY <1>5
  <2>2. ~Host(call)
    BY <1>5, <2>1, HostCall, Zenon
  <2> QED BY <1>1, <2>2, Zenon
<1>7. Heard'
  <2>1. CASE Failing
    BY <1>1, <2>1, Zenon DEF Heard, Failing
  <2>2. CASE Follows
    <3>1. PICK j \in Nat, a \in Nat, k \in Nat : \E t : Followed(Program[call], j, a, k, t)
      BY <2>2, Zenon DEF Follows
    <3>2. PICK t : Followed(Program[call], j, a, k, t)
      BY <3>1
    <3>3. PICK p : p = Program[call]
      BY Zenon
    <3>4. /\ Len(p) \in Nat
          /\ \A i \in 1..Len(p) : p[i] \notin {"payload", "rest", "collect"}
      BY <1>5, <3>3, ShellV2Program
    <3>5. (Lost => Lost') /\ (server' = "up" => server = "up")
      BY DEF Lost
    <3>6. Followed(p, j, a, k, t)
      BY <3>2, <3>3, Zenon
    <3>7. Followed(p, j, a, k, t)'
      BY <1>1, <3>4, <3>5, <3>6, StillFollowed
    <3>8. p = (Program[call])'
      BY <1>1, <3>3, Zenon
    <3>9. Follows'
      BY <3>7, <3>8, Zenon DEF Follows
    <3> QED BY <1>6, <3>9, Zenon DEF Heard
  <2> QED BY <1>6, <2>1, <2>2, Zenon DEF ReplyInv, HeardInv, Heard
<1> QED BY <1>1, <1>2, <1>3, <1>4, <1>5, <1>7, Zenon DEF ReplyInv, HeardInv

-----------------------------------------------------------------------------
(* The session that ShellV2WithOptionsContext opens.                       *)

(* The writers start when the session is handed to its user, which is      *)
(* after the call that opened it has returned.                             *)
SessionInv ==
    /\ StdinInv /\ CountInv
    /\ SessionOpen => Returned
    /\ ~SessionOpen => Stdin!WritersIdle

LEMMA WritersStart == SetsCount /\ Stdin!WritersIdle => StdinInv /\ CountInv
BY StdinInit, CountInit, Zenon

(* What the writers do to the connection that they share with the call.    *)
LEMMA WritersTouch ==
    Stdin!Next =>
      /\ conn' = conn \/ conn' = "closed"
      /\ \/ server' = server
         \/ server = "up" /\ server' \in {"silent", "gone"}
         \/ server = "gone" /\ server' = "reset"
BY Zenon DEF Stdin!Next, Stdin!Write, Stdin!CloseStdin, Stdin!Resize, Stdin!Begin,
   Stdin!WriterStep, Stdin!Lock, Stdin!Send, Stdin!SendFails, Stdin!CannotSend,
   Stdin!Unlock, Stdin!closeTransport, Stdin!DeviceReads, Stdin!DeviceStops

LEMMA WritersStay ==
    ASSUME StdinInv, CountInv, Dead => Dead',
           UNCHANGED <<out, mu, pc, op, ops, size, written, pos, failed>>
    PROVE  StdinInv' /\ CountInv'
BY OthersKeep, CountStays, Zenon

(* A job that has returned makes no call any more, and what is left of its *)
(* second goroutine and the server only take the connection away.          *)
LEMMA JobOver ==
    ASSUME SessionOpen, Returned, Next
    PROVE  SessionOpen' /\ Returned' /\ (Dead => Dead')
<1>1. stage = "end" /\ prog = <<>> /\ job = "ShellV2WithOptionsContext"
  BY DEF SessionOpen, Returned
<1>2. ~JobStep
  BY <1>1 DEF JobStep, FirstDevice, ChooseMethod, OpenFile, FinishAbbExec, Push,
     FinishInstall, Cleanup, StartActivity, StartService, WaitForDevice,
     WaitForDeviceWithTimeout, SingleCall, At
<1>3. ~CallStep
  BY DEF CallStep, Dial, Watch, Send, ReadOnce, ReadStatus, Message, ReadPayload,
     ReadReply, ReadRaw, ReadRest, Decode, Spawn, Collect, Close, Step
<1>4. ~WaitTimesOut /\ ~OtherInstall
  BY <1>1 DEF WaitTimesOut, OtherInstall
<1>5. CASE \/ Quietly(Watcher) \/ Quietly(Reader) \/ Quietly(Cancel)
           \/ Quietly(DeadlinePasses) \/ Quietly(ServerHangs) \/ Quietly(ServerLost)
  <2>1. UNCHANGED jobVars /\ UNCHANGED callVars
    BY <1>5, Zenon DEF Quietly, Watcher, Reader, Cancel, DeadlinePasses, ServerHangs,
       ServerLost
  <2>2. (conn' = conn \/ conn' = "closed") /\ (server' = server \/ server # "reset")
    BY <1>5 DEF Quietly, Watcher, Reader, Cancel, DeadlinePasses, ServerHangs,
       ServerLost, linkVars, serverVars
  <2> QED BY <2>1, <2>2 DEF SessionOpen, Returned, Dead, jobVars, callVars
<1>6. CASE DeviceRuns
  BY <1>6 DEF DeviceRuns, jobVars, clientVars, callVars, linkVars, serverVars,
     SessionOpen, Returned, Dead
<1>7. CASE ServerActs
  <2>1. UNCHANGED <<jobVars, callVars, conn>> /\ server = "up"
    BY <1>7, Zenon DEF ServerActs, ServerStep, ServerStatus, ServerPayload,
       ServerSecondStatus, ServerOutput, Sends, Answering
  <2> QED BY <2>1 DEF SessionOpen, Returned, Dead, jobVars, callVars
<1> QED BY <1>2, <1>3, <1>4, <1>5, <1>6, <1>7, Zenon DEF Next, Quietly

(* A job ends when its call has returned.                                  *)
LEMMA JobEnds ==
    ASSUME ~SessionOpen, Next, SessionOpen'
    PROVE  Returned'
<1>1. stage' = "end" /\ answer' = "true" /\ job' = "ShellV2WithOptionsContext"
  BY DEF SessionOpen
<1>2. ~UNCHANGED jobVars
  BY DEF SessionOpen, jobVars
<1>3. ~WaitTimesOut /\ ~OtherInstall
  BY <1>1, <1>2 DEF WaitTimesOut, OtherInstall
<1>4. JobStep
  BY <1>2, <1>3, Zenon DEF Next, Quietly, DeviceRuns, ServerActs
<1>5. ~Push /\ ~OpenFile
  BY <1>1 DEF Push, OpenFile, Enter, Return
<1>6. Returned
  BY <1>4, <1>5, Zenon DEF JobStep, FirstDevice, ChooseMethod, FinishAbbExec,
     FinishInstall, Cleanup, StartActivity, StartService, WaitForDevice,
     WaitForDeviceWithTimeout, SingleCall, At
<1>7. ASSUME NEW x, Enter(x), x # "end" PROVE FALSE
  BY <1>1, <1>7 DEF Enter
<1>8. ASSUME NEW x, Goto(x), x # "end" PROVE FALSE
  BY <1>1, <1>8 DEF Goto
<1>9. \A x \in {"features", "push", "open", "rm", "am"} : ~Enter(x) /\ ~Goto(x)
  BY <1>7, <1>8
<1>10. \E v : Return(v)
  BY <1>4, <1>5, <1>9, Zenon DEF JobStep, FirstDevice, ChooseMethod, FinishAbbExec,
     FinishInstall, Cleanup, StartActivity, StartService, WaitForDevice,
     WaitForDeviceWithTimeout, SingleCall
<1> QED BY <1>6, <1>10, Zenon DEF Return, clientVars, callVars, Returned

LEMMA SessionStart == SetsCount /\ SessionInit => SessionInv
<1> SUFFICES ASSUME SetsCount, SessionInit PROVE SessionInv
  OBVIOUS
<1>1. Stdin!WritersIdle /\ Init
  BY Zenon DEF SessionInit
<1>2. ~SessionOpen
  <2>1. answer = "none"
    BY <1>1, Zenon DEF Init
  <2> QED BY <2>1 DEF SessionOpen
<1> QED BY <1>1, <1>2, WritersStart, Zenon DEF SessionInv

LEMMA SessionStep == SetsCount /\ SessionInv /\ [SessionNext]_sessionVars => SessionInv'
<1> SUFFICES ASSUME SetsCount, SessionInv, [SessionNext]_sessionVars PROVE SessionInv'
  OBVIOUS
<1>1. CASE InSession(Stdin!Next)
  <2>1. Stdin!Next /\ SessionOpen /\ UNCHANGED <<callVars, jobVars>>
    BY <1>1, Zenon DEF InSession
  <2>2. StdinInv' /\ CountInv'
    BY <2>1, StdinStep, CountStep, Zenon DEF SessionInv
  <2>3. SessionOpen' /\ Returned'
    BY <2>1, Zenon DEF SessionInv, SessionOpen, Returned, callVars, jobVars
  <2> QED BY <2>2, <2>3, Zenon DEF SessionInv
<1>2. CASE (Next \/ UNCHANGED vars) /\ UNCHANGED stdinVars
  <2>1. UNCHANGED <<out, taken, mu, pc, op, ops, size, written, pos, failed>>
    BY <1>2, Zenon DEF stdinVars
  <2>2. CASE ~SessionOpen
    <3>1. Stdin!WritersIdle'
      BY <2>1, <2>2, Zenon DEF SessionInv, Stdin!WritersIdle
    <3>2. StdinInv' /\ CountInv'
      BY <3>1, WritersStart, PTL
    <3>3. SessionOpen' => Returned'
      <4>1. CASE Next
        BY <2>2, <4>1, JobEnds, Zenon
      <4>2. CASE UNCHANGED vars
        BY <2>2, <4>2, Zenon DEF vars, jobVars, SessionOpen
      <4> QED BY <1>2, <4>1, <4>2, Zenon
    <3> QED BY <3>1, <3>2, <3>3, Zenon DEF SessionInv
  <2>3. CASE SessionOpen
    <3>1. SessionOpen' /\ Returned' /\ (Dead => Dead')
      <4>1. Returned
        BY <2>3, Zenon DEF SessionInv
      <4>2. CASE Next
        BY <2>3, <4>1, <4>2, JobOver, Zenon
      <4>3. CASE UNCHANGED vars
        BY <2>3, <4>1, <4>3, Zenon DEF vars, clientVars, callVars, linkVars, serverVars,
           jobVars, SessionOpen, Returned, Dead
      <4> QED BY <1>2, <4>2, <4>3, Zenon
    <3>2. StdinInv' /\ CountInv'
      BY <2>1, <3>1, WritersStay, Zenon DEF SessionInv
    <3> QED BY <3>1, <3>2, Zenon DEF SessionInv
  <2> QED BY <2>2, <2>3, Zenon
<1> QED BY <1>1, <1>2, Zenon DEF SessionNext, sessionVars

(* The session closes the connection that it was handed and opens no       *)
(* other, so that this stays so while it is in use.                        *)
THEOREM SessionsCloseConnections == SessionSpec => []JobsClose
<1>1. SessionInit => ClientInv /\ CallInv
  BY ClientStarts, CallsStart, Zenon DEF SessionInit, Init
<1>2. ClientInv /\ CallInv /\ [SessionNext]_sessionVars => ClientInv' /\ CallInv'
  <2> SUFFICES ASSUME ClientInv, CallInv, [SessionNext]_sessionVars PROVE ClientInv' /\ CallInv'
    OBVIOUS
  <2>1. CASE InSession(Stdin!Next)
    <3>1. UNCHANGED <<prog, call, res, job, stage>>
      BY <2>1, Zenon DEF InSession, callVars, jobVars
    <3>2. conn' = conn \/ conn' = "closed"
      BY <2>1, WritersTouch, Zenon DEF InSession
    <3>3. CallInv'
      BY <3>1, Zenon DEF CallInv
    <3> QED BY <3>1, <3>2, <3>3, StayKeeps, Zenon
  <2>2. CASE Next \/ UNCHANGED vars
    BY <2>2, JobsStep, ClientInductive, CallsStep, Zenon
  <2> QED BY <2>1, <2>2, Zenon DEF SessionNext, sessionVars
<1> QED BY <1>1, <1>2, CallsClose, PTL DEF SessionSpec

LEMMA AnswerSays == SetsCount /\ ReplyInv /\ JobInv => AnswerTrue
<1> SUFFICES ASSUME SetsCount, ReplyInv, JobInv, answer = "true"
             PROVE  /\ job \in {"Install", "InstallRemote"} => installed = "own" \/ shared
                    /\ job = "WaitForDevice" =>
                         torn \/ CutShort \/ ~Refused
  BY Zenon DEF AnswerTrue
<1>1. job \in {"Install", "InstallRemote"} => installed = "own" \/ shared
  BY Zenon DEF JobInv
<1>2. ASSUME job = "WaitForDevice", ~torn, ~CutShort
      PROVE  ~Refused
  <2>1. call = "SendHostCommandContext" /\ res = "ok" /\ buf = <<>> /\ call \in Calls
    BY <1>2, Zenon DEF JobInv, ReplyInv, HeardInv
  <2>2. Host(call)
    BY <2>1, HostCall, Zenon
  <2>3. /\ sent \in Seq(Unit) /\ 4 + Len(buf) >= Len(sent)
        /\ Refused => Len(sent) > 4
    BY <1>2, <2>1, <2>2, HostSuccess, Zenon DEF ReplyInv
  <2>4. ~(Len(sent) > 4)
    BY <2>1, <2>3, SMT
  <2> QED BY <2>3, <2>4, Zenon
<1> QED BY <1>1, <1>2, Zenon

LEMMA SessionReplyStep ==
    SetsCount /\ ReplyInv /\ JobInv /\ [SessionNext]_sessionVars => ReplyInv' /\ JobInv'
<1> SUFFICES ASSUME SetsCount, ReplyInv, JobInv, [SessionNext]_sessionVars
             PROVE  ReplyInv' /\ JobInv'
  OBVIOUS
<1>1. CASE InSession(Stdin!Next)
  <2>1. /\ Stdin!Next /\ job = "ShellV2WithOptionsContext"
        /\ UNCHANGED <<callVars, wire, buf, torn, ctxVars, ans, sent, jobVars, deviceVars>>
    BY <1>1, Zenon DEF InSession, SessionOpen
  <2>2. /\ conn' = conn \/ conn' = "closed"
        /\ \/ server' = server
           \/ server = "up" /\ server' \in {"silent", "gone"}
           \/ server = "gone" /\ server' = "reset"
    BY <2>1, WritersTouch, Zenon
  <2> QED BY <2>1, <2>2, WhileWriting, Zenon
<1>2. CASE Next \/ UNCHANGED vars
  <2>1. [ClientNext]_clientVars
    BY <1>2, JobsStep, Zenon
  <2>2. ReplyInv'
    BY <2>1, GrammarHolds, ReplyStep, Zenon
  <2>3. JobInv'
    BY <1>2, JobInvStep, Zenon
  <2> QED BY <2>2, <2>3
<1> QED BY <1>1, <1>2, Zenon DEF SessionNext, sessionVars

-----------------------------------------------------------------------------
(* The theorems about what is returned and what is counted: their last     *)
(* premise is what the library knows of finite sets.                       *)

FST == INSTANCE FiniteSetTheorems

(* The sets and cardinalities of the library's theorems are the model's.   *)
LEMMA SameSets ==
    \A S : Cardinality(S) = FST!Cardinality(S) /\ (IsFiniteSet(S) <=> FST!IsFiniteSet(S))
<1>1. \A S : Cardinality(S) = FST!Cardinality(S)
  BY DEF Cardinality, FST!Cardinality
<1>2. \A S : IsFiniteSet(S) <=> FST!IsFiniteSet(S)
  BY DEF IsFiniteSet, FST!IsFiniteSet
<1> QED BY <1>1, <1>2

LEMMA SetsAreCounted == SetsCount
<1>1. IsFiniteSet({}) /\ Cardinality({}) = 0
  BY SameSets, FST!FS_EmptySet
<1>2. ASSUME NEW S, NEW x, IsFiniteSet(S), x \notin S
      PROVE  IsFiniteSet(S \cup {x}) /\ Cardinality(S \cup {x}) = Cardinality(S) + 1
  BY <1>2, SameSets, FST!FS_AddElement
<1>3. ASSUME NEW S, NEW T, IsFiniteSet(T), S \subseteq T
      PROVE  IsFiniteSet(S) /\ Cardinality(S) \in Nat /\ Cardinality(S) <= Cardinality(T)
  <2>1. FST!IsFiniteSet(S) /\ FST!Cardinality(S) <= FST!Cardinality(T)
    BY <1>3, SameSets, FST!FS_Subset
  <2>2. FST!Cardinality(S) \in Nat
    BY <2>1, FST!FS_CardinalityType
  <2> QED BY <2>1, <2>2, SameSets
<1>4. ASSUME NEW n \in Nat PROVE IsFiniteSet(1..n) /\ Cardinality(1..n) = n
  <2>1. FST!IsFiniteSet(1..n) /\ FST!Cardinality(1..n) = n
    BY FST!FS_Interval, SMT
  <2> QED BY <2>1, SameSets
<1>5. ASSUME NEW S, NEW n, NEW f, n \in Nat, Numbers(f, n, S)
      PROVE  Cardinality(S) = n
  <2>1. f \in [1..n -> S] /\ DOMAIN f = 1..n
    BY <1>5 DEF Numbers
  <2>2. f \in FST!Bijection(1..n, S)
    BY <1>5, <2>1
       DEF Numbers, FST!IsInjective, FST!Bijection, FST!Injection, FST!Surjection
  <2>3. FST!ExistsBijection(1..n, S)
    BY <2>2 DEF FST!ExistsBijection
  <2>4. FST!IsFiniteSet(1..n) /\ FST!Cardinality(1..n) = n
    BY <1>4, <1>5, SameSets
  <2>5. FST!Cardinality(S) = FST!Cardinality(1..n)
    BY <2>3, <2>4, FST!FS_Bijection
  <2> QED BY <2>4, <2>5, SameSets
<1> QED BY <1>1, <1>2, <1>3, <1>4, <1>5 DEF SetsCount

LEMMA ReplyAlways == ClientSpec => []ReplyInv
<1>1. ClientInit => ReplyInv
  BY SetsAreCounted, GrammarHolds, ReplyStarts
<1>2. ReplyInv /\ [ClientNext]_clientVars => ReplyInv'
  BY SetsAreCounted, GrammarHolds, ReplyStep, Zenon
<1> QED BY <1>1, <1>2, PTL DEF ClientSpec

(* No function but a host command reports a success that the server did    *)
(* not: it was answered OKAY once for each status that it asked for and    *)
(* not once FAIL, however the answers are cut into reads and whenever the  *)
(* context, the server or the network gives up.  A host command that       *)
(* succeeds was answered OKAY first, unless its status was torn; and if a  *)
(* second status was FAIL, its payload is not empty, unless it was cut     *)
(* short.                                                                  *)
THEOREM SuccessIsTrue == ClientSpec => []SuccessTrue
BY SetsAreCounted, ReplyAlways, SuccessSays, PTL

(* What a function returns with a success is what the server sent after    *)
(* the statuses and the length, from its first byte on, and all of it      *)
(* unless the connection was lost or its deadline passed under a function  *)
(* that takes the end of the stream for the end of the reply.  Two cases   *)
(* of a host command differ: with a second status FAIL it returns all that *)
(* came behind that, and of one with a torn status nothing is said.        *)
THEOREM RepliesAreWhole == ClientSpec => []ReplyWhole
BY SetsAreCounted, ReplyAlways, ReplySays, PTL

(* An Install that returns true has installed its own package unless       *)
(* another job used the path in between, and a WaitForDevice that returns  *)
(* true was not told of a failure, unless the report was torn or cut       *)
(* short.                                                                  *)
THEOREM AnswersAreTrue == Spec => []AnswerTrue
<1>1. Init => JobInv
  BY JobStarts
<1>2. ReplyInv /\ JobInv /\ [Next]_vars => JobInv'
  BY JobInvStep, Zenon
<1>3. Spec => []ReplyInv
  BY JobsMakeCalls, ReplyAlways, PTL
<1>4. Spec => []JobInv
  BY <1>1, <1>2, <1>3, PTL DEF Spec
<1> QED BY <1>3, <1>4, SetsAreCounted, AnswerSays, PTL

(* A call of Write, CloseStdin or Resize that returns has put in the       *)
(* stream exactly the chunks that it says it wrote, each once and all of   *)
(* them unless it returns an error, however many goroutines write.         *)
THEOREM CallsCountTrue == Stdin!Spec => []Stdin!CountTrue
<1>1. Stdin!Init => Stdin!WritersIdle
  BY DEF Stdin!Init
<1> QED BY <1>1, SetsAreCounted, StdinInit, StdinStep, CountInit, CountStep, CountSays, PTL
     DEF Stdin!Spec

LEMMA SessionAlways == SessionSpec => []SessionInv
BY SetsAreCounted, SessionStart, SessionStep, PTL DEF SessionSpec

(* The stream of a session that ShellV2WithOptionsContext has opened is a  *)
(* sequence of whole packets, for any number of goroutines that write,     *)
(* while the context, the server and the network do what they may.         *)
THEOREM SessionPackets == SessionSpec => []PacketsWhole
<1>1. SessionInv => PacketsWhole
  BY Zenon DEF SessionInv, StdinInv, PacketsWhole
<1> QED BY <1>1, SessionAlways, PTL

(* And a Write, CloseStdin or Resize of it that returns says how many of   *)
(* its chunks are in the stream, with none twice and none left out.        *)
THEOREM SessionCounts == SessionSpec => []CountTrue
<1>1. SessionInv => CountTrue
  BY CountSays, Zenon DEF SessionInv, CountTrue
<1> QED BY <1>1, SessionAlways, PTL

(* All three hold while the session of a shell is in use: its writers      *)
(* share the connection with a call that has returned, and nothing that    *)
(* they or the device do makes a success, a reply or an answer of it       *)
(* untrue afterwards.                                                      *)
THEOREM SessionsKeepAnswers == SessionSpec => [](SuccessTrue /\ ReplyWhole /\ AnswerTrue)
<1>1. SessionInit => ReplyInv /\ JobInv
  <2> SUFFICES ASSUME SessionInit PROVE ReplyInv /\ JobInv
    OBVIOUS
  <2>1. Init /\ ClientInit
    BY Zenon DEF SessionInit, Init
  <2> QED BY <2>1, SetsAreCounted, GrammarHolds, ReplyStarts, JobStarts, Zenon
<1>2. ReplyInv /\ JobInv => SuccessTrue /\ ReplyWhole /\ AnswerTrue
  BY SetsAreCounted, SuccessSays, ReplySays, AnswerSays, Zenon
<1> QED BY <1>1, <1>2, SetsAreCounted, SessionReplyStep, PTL DEF SessionSpec

=============================================================================
