--------------------------- MODULE ShellV2Proofs ----------------------------
(***************************************************************************)
(* Nothing that the device writes to stdout or stderr is lost on its way   *)
(* through a shell protocol v2 session, and a result that                  *)
(* RunCommandV2Context returns is complete, for any number of frames.      *)
(*                                                                         *)
(* The goroutines agree through three facts: a stream is closed only after *)
(* readLoop has left its loop, so nothing is added to it any more; the     *)
(* reader of a stream returns only when it is closed and drained; and the  *)
(* caller looks at the exit code only after both have returned.            *)
(***************************************************************************)
EXTENDS ShellV2, TLAPS

(* What holds of each stream.                                              *)
StreamInv(s) ==
    /\ Lists(got[s] \o buf[s], Output(s))
    /\ closed[s] => loop # "read"
    /\ rpc[s] = "returned" => closed[s] /\ buf[s] = <<>>

(* The exit code is that of the frame at which readLoop left its loop.     *)
ExitInv ==
    /\ gotExit => /\ loop # "read" /\ taken > 0
                  /\ frames[taken].id = "exit" /\ frames[taken].data = exitCode
    /\ ~gotExit => exitCode = 0

(* What RunCommandV2Context has waited for.                                *)
CallerInv ==
    /\ caller # "stdout" => rpc["stdout"] = "returned"
    /\ caller \in {"wait", "finish", "returned"} => rpc["stderr"] = "returned"
    /\ result = "ok" => caller = "returned" /\ gotExit

SessionInv ==
    /\ TypeOK
    /\ \A s \in Streams : StreamInv(s)
    /\ ExitInv
    /\ CallerInv

-----------------------------------------------------------------------------
(* Sequences.                                                              *)

(* A read moves a part of the buffer to what was read.                     *)
Moves(g, b, n, N) ==
    /\ g \o SubSeq(b, 1, n) \in Seq(N) /\ SubSeq(b, n + 1, Len(b)) \in Seq(N)
    /\ (g \o SubSeq(b, 1, n)) \o SubSeq(b, n + 1, Len(b)) = g \o b

LEMMA MovePart ==
    ASSUME NEW N, NEW g \in Seq(N), NEW b \in Seq(N), NEW n \in 1..Len(b)
    PROVE  Moves(g, b, n, N)
<1> DEFINE x == SubSeq(b, 1, n)
           y == SubSeq(b, n + 1, Len(b))
<1>1. x \in Seq(N) /\ y \in Seq(N)
  BY SMT
<1>2. x \o y = b
  BY SMT
<1> HIDE DEF x, y
<1>3. (g \o x) \o y = g \o (x \o y)
  BY <1>1, SMTT(30)
<1>4. g \o x \in Seq(N)
  BY <1>1, SMT
<1> QED BY <1>1, <1>2, <1>3, <1>4, Zenon DEF Moves, x, y

(* A write adds to the buffer, and so to all that came.                    *)
LEMMA AddLast ==
    ASSUME NEW N, NEW g \in Seq(N), NEW b \in Seq(N), NEW n \in N
    PROVE  /\ Append(b, n) \in Seq(N)
           /\ g \o Append(b, n) = Append(g \o b, n)
  BY SMT

(* The listing of a set, when it gets a number beyond the others.          *)
LEMMA ListsAppend ==
    ASSUME NEW q \in Seq(Nat), NEW n \in Nat, NEW K \in SUBSET (1..n), Lists(q, K)
    PROVE  Lists(Append(q, n + 1), K \cup {n + 1})
<1> DEFINE a == Append(q, n + 1)
           l == Len(q)
<1>1. /\ l \in Nat /\ Len(a) = l + 1 /\ a[l + 1] = n + 1
      /\ \A i \in 1..l : a[i] = q[i] /\ q[i] \in Nat
  BY SMT
<1>2. \A i \in 1..l : q[i] \in K
  BY DEF Lists
<1>3. \A i \in 1..l : q[i] < n + 1
  BY <1>1, <1>2, SMT
<1>4. \A i, j \in 1..l : i < j => q[i] < q[j]
  BY DEF Lists
<1>5. \A k \in K : \E i \in 1..l : q[i] = k
  BY DEF Lists
<1> HIDE DEF a, l
<1>6. ASSUME NEW i \in 1..l+1, NEW j \in 1..l+1, i < j PROVE a[i] < a[j]
  <2>1. CASE j \in 1..l
    BY <1>1, <1>4, <1>6, <2>1, SMT
  <2>2. CASE j = l + 1
    BY <1>1, <1>3, <1>6, <2>2, SMT
  <2> QED BY <1>1, <2>1, <2>2, SMT
<1>7. {a[i] : i \in 1..l+1} = K \cup {n + 1}
  <2>1. \A i \in 1..l+1 : a[i] \in K \cup {n + 1}
    BY <1>1, <1>2, SMT
  <2>2. \A k \in K : \E i \in 1..l+1 : a[i] = k
    BY <1>1, <1>5, SMT
  <2>3. \E i \in 1..l+1 : a[i] = n + 1
    BY <1>1, SMT
  <2> QED BY <2>1, <2>2, <2>3, Zenon
<1> QED BY <1>1, <1>6, <1>7, Zenon DEF Lists, a

-----------------------------------------------------------------------------
(* The types.                                                              *)

(* StreamRead takes the first n frames of the buffer.                      *)
ReadPart(s, n) ==
    /\ got' = [got EXCEPT ![s] = @ \o SubSeq(buf[s], 1, n)]
    /\ buf' = [buf EXCEPT ![s] = SubSeq(@, n + 1, Len(@))]

(* What a read does to a stream.                                           *)
LEMMA ReadMoves ==
    ASSUME StreamsOK, NEW s \in Streams, NEW n \in 1..Len(buf[s]), ReadPart(s, n)
    PROVE  /\ got' \in [Streams -> Seq(Nat)] /\ buf' \in [Streams -> Seq(Nat)]
           /\ got'[s] \o buf'[s] = got[s] \o buf[s]
           /\ \A t \in Streams : t # s => got'[t] = got[t] /\ buf'[t] = buf[t]
<1> DEFINE N == Nat
<1>1. got \in [Streams -> Seq(N)] /\ buf \in [Streams -> Seq(N)]
  BY Zenon DEF StreamsOK
<1> HIDE DEF N
<1>2. got[s] \in Seq(N) /\ buf[s] \in Seq(N)
  BY <1>1, Zenon
<1>3. /\ got[s] \o SubSeq(buf[s], 1, n) \in Seq(N)
      /\ SubSeq(buf[s], n + 1, Len(buf[s])) \in Seq(N)
      /\ (got[s] \o SubSeq(buf[s], 1, n)) \o SubSeq(buf[s], n + 1, Len(buf[s]))
           = got[s] \o buf[s]
  <2>1. Moves(got[s], buf[s], n, N)
    BY <1>2, MovePart, Zenon
  <2> QED BY <2>1, Zenon DEF Moves
<1>4. got' \in [Streams -> Seq(N)] /\ buf' \in [Streams -> Seq(N)]
  BY <1>1, <1>3, Zenon DEF ReadPart
<1>5. /\ got'[s] = got[s] \o SubSeq(buf[s], 1, n)
      /\ buf'[s] = SubSeq(buf[s], n + 1, Len(buf[s]))
      /\ \A t \in Streams : t # s => got'[t] = got[t] /\ buf'[t] = buf[t]
  BY <1>1, Zenon DEF ReadPart
<1> QED BY <1>3, <1>4, <1>5, Zenon DEF N

(* What a write does to a stream.                                          *)
LEMMA WriteAdds ==
    ASSUME StreamsOK, NEW s \in Streams, NEW n \in Nat, StreamWrite(s, n)
    PROVE  /\ buf' \in [Streams -> Seq(Nat)]
           /\ got[s] \o buf'[s] = Append(got[s] \o buf[s], n)
           /\ got[s] \o buf[s] \in Seq(Nat)
           /\ \A t \in Streams : t # s => buf'[t] = buf[t]
<1> DEFINE N == Nat
<1>1. got \in [Streams -> Seq(N)] /\ buf \in [Streams -> Seq(N)]
  BY Zenon DEF StreamsOK
<1>n. n \in N
  OBVIOUS
<1> HIDE DEF N
<1>2. got[s] \in Seq(N) /\ buf[s] \in Seq(N)
  BY <1>1, Zenon
<1>3. Append(buf[s], n) \in Seq(N) /\ got[s] \o Append(buf[s], n) = Append(got[s] \o buf[s], n)
  <2>1. PICK g \in Seq(N), b \in Seq(N) : g = got[s] /\ b = buf[s]
    BY <1>2, Zenon
  <2>2. Append(b, n) \in Seq(N) /\ g \o Append(b, n) = Append(g \o b, n)
    BY <1>n, AddLast, SMT
  <2> QED BY <2>1, <2>2, Zenon
<1>4. got[s] \o buf[s] \in Seq(N)
  BY <1>2, SMT
<1>5. buf' \in [Streams -> Seq(N)] /\ buf'[s] = Append(buf[s], n)
      /\ \A t \in Streams : t # s => buf'[t] = buf[t]
  BY <1>1, <1>3, Zenon DEF StreamWrite
<1> QED BY <1>3, <1>4, <1>5, Zenon DEF N

(* Waking the reader of a stream changes where it is, and no more.         *)
LEMMA WokenFacts ==
    ASSUME StreamsOK, NEW s \in Streams
    PROVE  /\ Woken(s) \in [Streams -> {"check", "wait", "returned"}]
           /\ \A t \in Streams : Woken(s)[t] = "returned" <=> rpc[t] = "returned"
  BY SMT DEF StreamsOK, Woken

LEMMA TypeStep ==
    ASSUME TypeOK, [Next]_vars
    PROVE  TypeOK'
<1> USE Zenon
<1>0. DeviceOK /\ LoopOK /\ StreamsOK /\ CallerOK
  BY DEF TypeOK
<1>s. "stdout" \in Streams /\ "stderr" \in Streams
  BY DEF Streams
<1>1. CASE DeviceSends
  <2>1. PICK f \in Frame : frames' = Append(frames, f)
    BY <1>1 DEF DeviceSends
  <2>2. frames' \in Seq(Frame) /\ Len(frames') = Len(frames) + 1 /\ Len(frames) \in Nat
    <3> QED BY <1>0, <2>1, SMT DEF DeviceOK
  <2>3. taken' \in 0..Len(frames')
    <3>1. taken' = taken
      BY <1>1 DEF DeviceSends, sessionVars
    <3> QED BY <1>0, <2>2, <3>1, SMT DEF DeviceOK
  <2>4. DeviceOK'
    BY <1>0, <1>1, <2>2, <2>3 DEF DeviceOK, DeviceSends
  <2>5. LoopOK'
    BY <1>0, <1>1 DEF LoopOK, DeviceSends, sessionVars
  <2>6. StreamsOK'
    BY <1>0, <1>1 DEF StreamsOK, DeviceSends, sessionVars
  <2>7. CallerOK'
    BY <1>0, <1>1 DEF CallerOK, DeviceSends, callerVars
  <2> QED BY <2>4, <2>5, <2>6, <2>7 DEF TypeOK
<1>2. CASE DeviceCloses
  <2>1. DeviceOK'
    BY <1>0, <1>2 DEF DeviceOK, DeviceCloses, sessionVars
  <2>2. LoopOK'
    BY <1>0, <1>2 DEF LoopOK, DeviceCloses, sessionVars
  <2>3. StreamsOK'
    BY <1>0, <1>2 DEF StreamsOK, DeviceCloses, sessionVars
  <2>4. CallerOK'
    BY <1>0, <1>2 DEF CallerOK, DeviceCloses, callerVars
  <2> QED BY <2>1, <2>2, <2>3, <2>4 DEF TypeOK
<1>3. CASE TakeOutput
  <2>1. taken + 1 \in 0..Len(frames) /\ taken + 1 \in Nat
    BY <1>0, <1>3, SMT DEF DeviceOK, TakeOutput
  <2>2. DeviceOK'
    BY <1>0, <1>3, <2>1 DEF DeviceOK, TakeOutput
  <2>3. StreamsOK'
    <3>1. CASE UNCHANGED <<buf, rpc>>
      BY <1>0, <1>3, <3>1 DEF StreamsOK, TakeOutput
    <3>2. ASSUME NEW s \in Streams, NEW n \in Nat, StreamWrite(s, n) PROVE StreamsOK'
      <4>1. rpc' = Woken(s)
        BY <3>2 DEF StreamWrite
      <4>2. buf' \in [Streams -> Seq(Nat)]
        BY <1>0, <3>2, WriteAdds
      <4>3. rpc' \in [Streams -> {"check", "wait", "returned"}]
        BY <1>0, <4>1, WokenFacts
      <4> QED BY <1>0, <1>3, <4>2, <4>3 DEF StreamsOK, TakeOutput
    <3> QED BY <1>3, <2>1, <3>1, <3>2 DEF TakeOutput
  <2>4. LoopOK' /\ CallerOK'
    BY <1>0, <1>3 DEF LoopOK, CallerOK, TakeOutput, callerVars
  <2> QED BY <2>2, <2>3, <2>4 DEF TypeOK
<1>4. CASE TakeExit
  <2>1. taken + 1 \in 0..Len(frames) /\ taken + 1 \in 1..Len(frames)
    BY <1>0, <1>4, SMT DEF DeviceOK, TakeExit
  <2>2. frames[taken + 1] \in Frame
    <3> DEFINE F == Frame
    <3>1. frames \in Seq(F)
      BY <1>0 DEF DeviceOK
    <3> HIDE DEF F
    <3>2. frames[taken + 1] \in F
      BY <2>1, <3>1, SMT
    <3> QED BY <3>2 DEF F
  <2>3. frames[taken + 1].data \in 0..1
    BY <2>2, SMT DEF Frame
  <2>4. exitCode' \in 0..1
    BY <1>0, <1>4, <2>3 DEF LoopOK, TakeExit
  <2>5. DeviceOK'
    BY <1>0, <1>4, <2>1 DEF DeviceOK, TakeExit
  <2>6. LoopOK'
    BY <1>0, <1>4, <2>4 DEF LoopOK, TakeExit
  <2>7. StreamsOK' /\ CallerOK'
    BY <1>0, <1>4 DEF StreamsOK, CallerOK, TakeExit, callerVars
  <2> QED BY <2>5, <2>6, <2>7 DEF TypeOK
<1>5. CASE TakeOther
  <2>1. taken + 1 \in 0..Len(frames)
    BY <1>0, <1>5, SMT DEF DeviceOK, TakeOther
  <2>2. DeviceOK'
    BY <1>0, <1>5, <2>1 DEF DeviceOK, TakeOther
  <2>3. LoopOK'
    BY <1>0, <1>5 DEF LoopOK, TakeOther
  <2>4. StreamsOK' /\ CallerOK'
    BY <1>0, <1>5 DEF StreamsOK, CallerOK, TakeOther, callerVars
  <2> QED BY <2>2, <2>3, <2>4 DEF TypeOK
<1>6. CASE ReadError
  <2>1. LoopOK'
    BY <1>0, <1>6 DEF LoopOK, ReadError
  <2>2. DeviceOK' /\ StreamsOK'
    BY <1>0, <1>6 DEF DeviceOK, StreamsOK, ReadError
  <2>3. CallerOK'
    BY <1>0, <1>6 DEF CallerOK, ReadError, callerVars
  <2> QED BY <2>1, <2>2, <2>3 DEF TypeOK
<1>7. CASE LoopReturns
  <2>1. LoopOK'
    BY <1>0, <1>7 DEF LoopOK, LoopReturns
  <2>2. /\ closed' \in [Streams -> BOOLEAN]
        /\ rpc' \in [Streams -> {"check", "wait", "returned"}]
    <3>1. CASE UNCHANGED <<closed, rpc>>
      BY <1>0, <3>1 DEF StreamsOK
    <3>2. ASSUME NEW s \in Streams, StreamClose(s)
          PROVE  /\ closed' \in [Streams -> BOOLEAN]
                 /\ rpc' \in [Streams -> {"check", "wait", "returned"}]
      BY <1>0, <3>2, WokenFacts DEF StreamsOK, StreamClose
    <3> QED BY <1>7, <1>s, <3>1, <3>2 DEF LoopReturns
  <2>3. StreamsOK'
    BY <1>0, <1>7, <2>2 DEF StreamsOK, LoopReturns
  <2>4. DeviceOK' /\ CallerOK'
    BY <1>0, <1>7 DEF DeviceOK, CallerOK, LoopReturns, callerVars
  <2> QED BY <2>1, <2>3, <2>4 DEF TypeOK
<1>8. ASSUME NEW s \in Streams, StreamRead(s) PROVE TypeOK'
  <2>1. got' \in [Streams -> Seq(Nat)] /\ buf' \in [Streams -> Seq(Nat)]
    <3>1. ASSUME NEW n \in 1..Len(buf[s]), ReadPart(s, n)
          PROVE  got' \in [Streams -> Seq(Nat)] /\ buf' \in [Streams -> Seq(Nat)]
      BY <1>0, <3>1, ReadMoves
    <3>2. CASE UNCHANGED <<got, buf>>
      BY <1>0, <3>2 DEF StreamsOK
    <3> QED BY <1>8, <3>1, <3>2 DEF StreamRead, ReadPart
  <2>2. rpc' \in [Streams -> {"check", "wait", "returned"}]
    BY <1>0, <1>8 DEF StreamsOK, StreamRead
  <2>3. StreamsOK'
    BY <1>0, <1>8, <2>1, <2>2 DEF StreamsOK, StreamRead
  <2>4. DeviceOK'
    BY <1>0, <1>8 DEF DeviceOK, StreamRead
  <2>5. LoopOK'
    BY <1>0, <1>8 DEF LoopOK, StreamRead
  <2>6. CallerOK'
    BY <1>0, <1>8 DEF CallerOK, StreamRead, callerVars
  <2> QED BY <2>3, <2>4, <2>5, <2>6 DEF TypeOK
<1>9. CASE Cancel \/ Watch \/ Await \/ Finish
  <2>1. DeviceOK' /\ StreamsOK'
    BY <1>0, <1>9 DEF DeviceOK, StreamsOK, Cancel, Watch, Await, Finish, sessionVars
  <2>2. LoopOK'
    BY <1>0, <1>9 DEF LoopOK, Cancel, Watch, Await, Finish, sessionVars
  <2>3. CallerOK'
    BY <1>0, <1>9 DEF CallerOK, Cancel, Watch, Await, Finish
  <2> QED BY <2>1, <2>2, <2>3 DEF TypeOK
<1>10. CASE UNCHANGED vars
  <2>1. DeviceOK'
    BY <1>0, <1>10 DEF DeviceOK, vars
  <2>2. LoopOK'
    BY <1>0, <1>10 DEF LoopOK, vars
  <2>3. StreamsOK'
    BY <1>0, <1>10 DEF StreamsOK, vars
  <2>4. CallerOK'
    BY <1>0, <1>10 DEF CallerOK, vars
  <2> QED BY <2>1, <2>2, <2>3, <2>4 DEF TypeOK
<1> QED BY <1>1, <1>2, <1>3, <1>4, <1>5, <1>6, <1>7, <1>8, <1>9, <1>10 DEF Next, ReadLoop

-----------------------------------------------------------------------------
(* The streams.                                                            *)

(* The output read so far only changes when readLoop takes a frame.        *)
LEMMA OutputStays ==
    ASSUME DeviceOK, NEW s, taken' = taken,
           frames' = frames \/ \E f \in Frame : frames' = Append(frames, f)
    PROVE  Output(s)' = Output(s)
<1>1. \A k \in 1..taken : frames'[k] = frames[k]
  <2>1. CASE frames' = frames
    BY <2>1
  <2>2. ASSUME NEW f \in Frame, frames' = Append(frames, f)
        PROVE  \A k \in 1..taken : frames'[k] = frames[k]
    <3> DEFINE F == Frame
    <3>1. frames \in Seq(F) /\ taken \in 0..Len(frames) /\ f \in F
      BY Zenon DEF DeviceOK
    <3> HIDE DEF F
    <3> QED BY <2>2, <3>1, SMT
  <2> QED BY <2>1, <2>2
<1> QED BY <1>1, Zenon DEF Output

(* ... and then it gets that frame, if the frame carries output.           *)
LEMMA OutputGrows ==
    ASSUME DeviceOK, NEW s, frames' = frames, taken' = taken + 1
    PROVE  /\ Output(s)' = IF frames[taken + 1].id = s /\ frames[taken + 1].data > 0
                           THEN Output(s) \cup {taken + 1} ELSE Output(s)
           /\ Output(s) \in SUBSET (1..taken)
           /\ taken \in Nat
<1>1. taken \in Nat
  BY SMT DEF DeviceOK
<1>2. 1..(taken + 1) = (1..taken) \cup {taken + 1}
  BY <1>1, SMT
<1>3. Output(s)' = {k \in 1..(taken + 1) : frames[k].id = s /\ frames[k].data > 0}
  BY DEF Output
<1> QED BY <1>1, <1>2, <1>3, Zenon DEF Output

(* A stream that a step does not touch.                                    *)
LEMMA StreamStays ==
    ASSUME NEW s \in Streams, StreamInv(s),
           got'[s] \o buf'[s] = got[s] \o buf[s], Output(s)' = Output(s),
           loop = "read" \/ loop' # "read", closed'[s] => closed[s] \/ loop' # "read",
           rpc'[s] = "returned" => closed'[s] /\ buf'[s] = <<>>
    PROVE  StreamInv(s)'
  BY Zenon DEF StreamInv

LEMMA StreamStep ==
    ASSUME SessionInv, [Next]_vars, NEW s \in Streams
    PROVE  StreamInv(s)'
<1> USE Zenon
<1>0. DeviceOK /\ StreamsOK /\ StreamInv(s)
  BY DEF SessionInv, TypeOK
<1>1. CASE /\ UNCHANGED <<taken, got, buf, closed, rpc, loop>>
           /\ frames' = frames \/ \E f \in Frame : frames' = Append(frames, f)
  BY <1>0, <1>1, OutputStays, StreamStays DEF StreamInv
<1>2. CASE DeviceSends \/ DeviceCloses \/ Cancel \/ Watch \/ Await \/ Finish \/ UNCHANGED vars
  BY <1>1, <1>2 DEF DeviceSends, DeviceCloses, Cancel, Watch, Await, Finish, sessionVars, vars
<1>3. CASE TakeOutput
  <2> DEFINE n == taken + 1
             t == frames[n].id
  <2>1. frames' = frames /\ taken' = n /\ UNCHANGED <<got, closed, loop>> /\ t \in Streams
        /\ loop = "read"
    BY <1>3 DEF TakeOutput
  <2>2. Output(s)' = IF t = s /\ frames[n].data > 0 THEN Output(s) \cup {n} ELSE Output(s)
    BY <1>0, <2>1, OutputGrows
  <2>3. Output(s) \in SUBSET (1..taken) /\ taken \in Nat /\ n \in Nat
    <3>1. Output(s) \in SUBSET (1..taken) /\ taken \in Nat
      BY <1>0, <2>1, OutputGrows
    <3> QED BY <3>1, SMT
  <2>4. frames[n].data = 0 \/ frames[n].data > 0
    <3>1. n \in 1..Len(frames)
      BY <1>0, <1>3, SMT DEF DeviceOK, TakeOutput
    <3> DEFINE F == Frame
    <3>2. frames \in Seq(F)
      BY <1>0 DEF DeviceOK
    <3> HIDE DEF F
    <3>3. frames[n] \in F
      BY <3>1, <3>2, SMT
    <3> QED BY <3>3, SMT DEF F, Frame
  <2>5. ~closed[s] /\ rpc[s] # "returned"
    BY <1>0, <2>1 DEF StreamInv
  <2>6. CASE frames[n].data = 0
    <3>1. Output(s)' = Output(s)
      <4>1. ~(frames[n].data > 0)
        BY <2>6, SMT
      <4> QED BY <2>2, <4>1
    <3>2. UNCHANGED <<buf, rpc>>
      BY <1>3, <2>6 DEF TakeOutput
    <3> QED BY <1>0, <2>1, <2>5, <3>1, <3>2, StreamStays
  <2>7. CASE frames[n].data > 0
    <3>1. StreamWrite(t, n)
      <4>1. frames[n].data # 0
        BY <2>7, SMT
      <4> QED BY <1>3, <4>1 DEF TakeOutput
    <3>2. rpc'[s] # "returned"
      BY <1>0, <2>1, <2>5, <3>1, WokenFacts DEF StreamWrite
    <3>3. CASE t # s
      <4>1. buf'[s] = buf[s]
        BY <1>0, <2>1, <2>3, <3>1, <3>3, WriteAdds
      <4>2. Output(s)' = Output(s)
        BY <2>2, <3>3
      <4> QED BY <1>0, <2>1, <2>5, <3>2, <4>1, <4>2, StreamStays
    <3>4. CASE t = s
      <4>1. got[s] \o buf'[s] = Append(got[s] \o buf[s], n) /\ got[s] \o buf[s] \in Seq(Nat)
        <5>1. StreamWrite(s, n)
          BY <3>1, <3>4
        <5> HIDE DEF n, t
        <5> QED BY <1>0, <2>3, <5>1, WriteAdds
      <4>2. Lists(Append(got[s] \o buf[s], n), Output(s) \cup {n})
        BY <1>0, <2>3, <4>1, ListsAppend DEF StreamInv
      <4>3. Output(s)' = Output(s) \cup {n}
        BY <2>2, <2>7, <3>4
      <4> HIDE DEF n, t
      <4> QED BY <2>1, <2>5, <3>2, <4>1, <4>2, <4>3 DEF StreamInv
    <3> QED BY <3>3, <3>4
  <2> QED BY <2>4, <2>6, <2>7
<1>4. CASE TakeExit \/ TakeOther
  <2>1. /\ frames' = frames /\ taken' = taken + 1 /\ UNCHANGED <<got, buf, closed, rpc>>
        /\ loop = "read"
    BY <1>4 DEF TakeExit, TakeOther
  <2>2. frames[taken + 1].id \in {"exit", "other", "huge"}
    BY <1>4 DEF TakeExit, TakeOther
  <2>3. frames[taken + 1].id # s
    BY <2>2, SMT DEF Streams
  <2>4. Output(s)' = Output(s)
    BY <1>0, <2>1, <2>3, OutputGrows
  <2> QED BY <1>0, <2>1, <2>4, StreamStays DEF StreamInv
<1>5. CASE ReadError
  <2>1. UNCHANGED <<frames, taken, got, buf, closed, rpc>> /\ loop = "read"
    BY <1>5 DEF ReadError
  <2> QED BY <1>0, <2>1, OutputStays, StreamStays DEF StreamInv
<1>6. CASE LoopReturns
  <2>1. UNCHANGED <<frames, taken, got, buf>>
    BY <1>6 DEF LoopReturns
  <2>2. loop' \in {"closeOut", "closeTransport", "closeDone", "exit"}
    BY <1>6 DEF LoopReturns
  <2>3. loop' # "read"
    BY <2>2, SMT
  <2>4. (closed[s] => closed'[s]) /\ (rpc'[s] = "returned" <=> rpc[s] = "returned")
    <3>1. CASE UNCHANGED <<closed, rpc>>
      BY <3>1
    <3>2. ASSUME NEW t \in Streams, StreamClose(t)
          PROVE  (closed[s] => closed'[s]) /\ (rpc'[s] = "returned" <=> rpc[s] = "returned")
      BY <1>0, <3>2, WokenFacts DEF StreamClose, StreamsOK
    <3>3. "stdout" \in Streams /\ "stderr" \in Streams
      BY DEF Streams
    <3> QED BY <1>6, <3>1, <3>2, <3>3 DEF LoopReturns
  <2> QED BY <1>0, <2>1, <2>3, <2>4, OutputStays, StreamStays DEF StreamInv
<1>7. ASSUME NEW t \in Streams, StreamRead(t) PROVE StreamInv(s)'
  <2>1. UNCHANGED <<frames, taken, closed, loop>>
    BY <1>7 DEF StreamRead
  <2>2. Output(s)' = Output(s)
    BY <1>0, <2>1, OutputStays
  <2>3. ASSUME NEW n \in 1..Len(buf[t]), ReadPart(t, n), UNCHANGED rpc, rpc[t] = "check"
        PROVE  StreamInv(s)'
    <3>1. /\ got'[t] \o buf'[t] = got[t] \o buf[t]
          /\ s # t => got'[s] = got[s] /\ buf'[s] = buf[s]
      BY <1>0, <2>3, ReadMoves
    <3>2. got'[s] \o buf'[s] = got[s] \o buf[s]
      BY <3>1
    <3>3. rpc[s] = "returned" => s # t
      <4>1. "check" # "returned"
        BY SMT
      <4> QED BY <2>3, <4>1
    <3>4. rpc'[s] = "returned" => closed'[s] /\ buf'[s] = <<>>
      BY <1>0, <2>1, <2>3, <3>1, <3>3 DEF StreamInv
    <3> QED BY <1>0, <2>1, <2>2, <3>2, <3>4, StreamStays
  <2>4. CASE UNCHANGED <<got, buf>>
    BY <1>0, <1>7, <2>1, <2>2, <2>4, StreamStays DEF StreamInv, StreamRead, StreamsOK
  <2> QED BY <1>7, <2>3, <2>4 DEF StreamRead, ReadPart
<1> QED BY <1>2, <1>3, <1>4, <1>5, <1>6, <1>7 DEF Next, ReadLoop

-----------------------------------------------------------------------------
(* The exit code and the caller.                                           *)

LEMMA ExitStep ==
    ASSUME SessionInv, [Next]_vars
    PROVE  ExitInv'
<1> USE Zenon
<1>0. DeviceOK /\ LoopOK /\ ExitInv
  BY DEF SessionInv, TypeOK
<1>1. CASE DeviceSends
  <2>1. UNCHANGED <<taken, loop, gotExit, exitCode>>
    BY <1>1 DEF DeviceSends, sessionVars
  <2>2. taken > 0 => frames'[taken] = frames[taken]
    <3> DEFINE F == Frame
    <3>1. /\ frames \in Seq(F) /\ taken \in 0..Len(frames)
          /\ \E f \in F : frames' = Append(frames, f)
      BY <1>0, <1>1 DEF DeviceOK, DeviceSends
    <3> HIDE DEF F
    <3> QED BY <3>1, SMT
  <2> QED BY <1>0, <2>1, <2>2 DEF ExitInv
<1>2. CASE TakeExit
  <2>1. /\ frames' = frames /\ taken' = taken + 1 /\ gotExit' = TRUE /\ loop' = "closeErr"
        /\ frames[taken + 1].id = "exit"
    BY <1>2 DEF TakeExit
  <2>2. exitCode' = frames[taken + 1].data
    <3>1. exitCode = 0
      BY <1>0, <1>2 DEF ExitInv, TakeExit, LoopOK
    <3>2. frames[taken + 1].data \in 0..1
      <4> DEFINE F == Frame
      <4>1. frames \in Seq(F)
        BY <1>0 DEF DeviceOK
      <4>2. taken + 1 \in 1..Len(frames)
        BY <1>0, <1>2, SMT DEF DeviceOK, TakeExit
      <4> HIDE DEF F
      <4>3. frames[taken + 1] \in F
        BY <4>1, <4>2, SMT
      <4> QED BY <4>3, SMT DEF F, Frame
    <3>3. frames[taken + 1].data > 0 \/ frames[taken + 1].data = 0
      BY <3>2, SMT
    <3> QED BY <1>2, <3>1, <3>3 DEF TakeExit
  <2>3. taken' > 0 /\ loop' # "read"
    BY <1>0, <2>1, SMT DEF DeviceOK
  <2> QED BY <2>1, <2>2, <2>3 DEF ExitInv
<1>3. CASE TakeOutput \/ TakeOther \/ ReadError
  <2>1. UNCHANGED <<gotExit, exitCode>> /\ loop = "read"
    BY <1>3 DEF TakeOutput, TakeOther, ReadError
  <2> QED BY <1>0, <2>1 DEF ExitInv
<1>4. CASE LoopReturns
  <2>1. UNCHANGED <<frames, taken, gotExit, exitCode>>
    BY <1>4 DEF LoopReturns
  <2>2. loop' \in {"closeOut", "closeTransport", "closeDone", "exit"}
    BY <1>4 DEF LoopReturns
  <2>3. loop' # "read"
    BY <2>2, SMT
  <2> QED BY <1>0, <2>1, <2>3 DEF ExitInv
<1>5. CASE UNCHANGED <<frames, taken, loop, gotExit, exitCode>>
  BY <1>0, <1>5 DEF ExitInv
<1>6. ASSUME NEW s \in Streams, StreamRead(s) PROVE ExitInv'
  BY <1>5, <1>6 DEF StreamRead
<1>7. CASE DeviceCloses \/ Cancel \/ Watch \/ Await \/ Finish \/ UNCHANGED vars
  BY <1>5, <1>7 DEF DeviceCloses, Cancel, Watch, Await, Finish, sessionVars, vars
<1> QED BY <1>1, <1>2, <1>3, <1>4, <1>6, <1>7 DEF Next, ReadLoop

(* A reader that has returned stays so.                                    *)
LEMMA ReturnedStays ==
    ASSUME StreamsOK, [Next]_vars, NEW s \in Streams, rpc[s] = "returned"
    PROVE  rpc'[s] = "returned"
<1> USE Zenon
<1>1. ASSUME NEW t \in Streams, rpc' = Woken(t) PROVE rpc'[s] = "returned"
  BY <1>1, WokenFacts
<1>2. ASSUME NEW t \in Streams, StreamRead(t) PROVE rpc'[s] = "returned"
  <2>1. s # t
    <3>1. "check" # "returned"
      BY SMT
    <3> QED BY <1>2, <3>1 DEF StreamRead
  <2> QED BY <1>2, <2>1 DEF StreamRead, StreamsOK
<1>3. CASE TakeOutput
  BY <1>1, <1>3 DEF TakeOutput, StreamWrite
<1>4. CASE LoopReturns
  <2>1. "stdout" \in Streams /\ "stderr" \in Streams
    BY DEF Streams
  <2> QED BY <1>1, <1>4, <2>1 DEF LoopReturns, StreamClose
<1>5. CASE TakeExit \/ TakeOther \/ ReadError \/ UNCHANGED vars
  BY <1>5 DEF TakeExit, TakeOther, ReadError, vars
<1>6. CASE DeviceSends \/ DeviceCloses \/ Cancel \/ Watch \/ Await \/ Finish
  BY <1>6 DEF DeviceSends, DeviceCloses, Cancel, Watch, Await, Finish, sessionVars
<1> QED BY <1>2, <1>3, <1>4, <1>5, <1>6 DEF Next, ReadLoop

LEMMA CallerStep ==
    ASSUME SessionInv, [Next]_vars
    PROVE  CallerInv'
<1> USE Zenon
<1>0. StreamsOK /\ CallerInv /\ "stdout" \in Streams /\ "stderr" \in Streams
  BY DEF SessionInv, TypeOK, Streams
<1>1. /\ rpc["stdout"] = "returned" => rpc'["stdout"] = "returned"
      /\ rpc["stderr"] = "returned" => rpc'["stderr"] = "returned"
  BY <1>0, ReturnedStays
<1>2. gotExit => gotExit'
  BY DEF Next, DeviceSends, DeviceCloses, ReadLoop, TakeOutput, TakeExit, TakeOther, ReadError,
     LoopReturns, StreamRead, Cancel, Watch, Await, Finish, sessionVars, vars
<1>3. CASE UNCHANGED <<caller, result>>
  BY <1>0, <1>1, <1>2, <1>3 DEF CallerInv
<1>4. CASE Await
  <2>1. UNCHANGED <<rpc, gotExit, result>> /\ caller # "returned"
    <3>1. caller \in {"stdout", "stderr", "wait"}
      BY <1>4 DEF Await
    <3>2. caller # "returned"
      BY <3>1, SMT
    <3> QED BY <1>4, <3>2 DEF Await, sessionVars
  <2>2. result' # "ok"
    BY <1>0, <2>1 DEF CallerInv
  <2>3. CASE caller = "stdout" /\ rpc["stdout"] = "returned" /\ caller' = "stderr"
    <3>1. caller' \notin {"wait", "finish", "returned"}
      BY <2>3, SMT
    <3> QED BY <2>1, <2>2, <2>3, <3>1 DEF CallerInv
  <2>4. CASE caller \in {"stderr", "wait"} /\ rpc["stderr"] = "returned"
    <3>1. caller # "stdout"
      BY <2>4, SMT
    <3> QED BY <1>0, <2>1, <2>2, <2>4, <3>1 DEF CallerInv
  <2> QED BY <1>0, <1>4, <2>3, <2>4 DEF Await, CallerInv
<1>5. CASE Finish
  <2>1. /\ UNCHANGED <<rpc, gotExit>> /\ caller = "finish" /\ caller' = "returned"
        /\ result' = IF cancelled \/ err \/ ~gotExit THEN "error" ELSE "ok"
    BY <1>5 DEF Finish, sessionVars
  <2>2. rpc["stdout"] = "returned" /\ rpc["stderr"] = "returned"
    <3>1. "finish" # "stdout"
      BY SMT
    <3> QED BY <1>0, <2>1, <3>1 DEF CallerInv
  <2>3. result' = "ok" => gotExit
    <3>1. "error" # "ok"
      BY SMT
    <3> QED BY <2>1, <3>1
  <2> QED BY <2>1, <2>2, <2>3 DEF CallerInv
<1>6. ~Await /\ ~Finish => UNCHANGED <<caller, result>>
  BY DEF Next, DeviceSends, DeviceCloses, ReadLoop, TakeOutput, TakeExit, TakeOther, ReadError,
     LoopReturns, StreamRead, Cancel, Watch, callerVars, vars
<1> QED BY <1>3, <1>4, <1>5, <1>6

-----------------------------------------------------------------------------
(* The results.                                                            *)

LEMMA SessionStart == Init => SessionInv
<1> SUFFICES ASSUME Init PROVE SessionInv
  OBVIOUS
<1>1. TypeOK
  <2>1. DeviceOK
    <3>1. frames = <<>> /\ taken = 0 /\ dev = "open"
      BY Zenon DEF Init
    <3>2. frames \in Seq(Frame)
      BY <3>1, SMT
    <3>3. taken \in 0..Len(frames)
      BY <3>1, SMT
    <3> QED BY <3>1, <3>2, <3>3, Zenon DEF DeviceOK
  <2>2. LoopOK
    <3>1. 0 \in 0..1
      BY SMT
    <3> QED BY <3>1, Zenon DEF Init, LoopOK
  <2>3. StreamsOK
    <3>1. /\ buf = [s \in Streams |-> <<>>] /\ got = [s \in Streams |-> <<>>]
          /\ closed = [s \in Streams |-> FALSE] /\ rpc = [s \in Streams |-> "check"]
      BY Zenon DEF Init
    <3>2. buf \in [Streams -> Seq(Nat)] /\ got \in [Streams -> Seq(Nat)]
      BY <3>1, SMT
    <3> QED BY <3>1, <3>2, SMT DEF StreamsOK
  <2>4. CallerOK
    BY Zenon DEF Init, CallerOK
  <2> QED BY <2>1, <2>2, <2>3, <2>4 DEF TypeOK
<1>2. ASSUME NEW s \in Streams PROVE StreamInv(s)
  <2>1. got[s] \o buf[s] = <<>> /\ taken = 0 /\ ~closed[s] /\ rpc[s] = "check"
    BY SMT DEF Init
  <2>2. Lists(<<>>, {})
    BY SMT DEF Lists
  <2>3. Output(s) = {}
    BY <2>1, SMT DEF Output
  <2> QED BY <2>1, <2>2, <2>3 DEF StreamInv
<1>3. ExitInv /\ CallerInv
  BY SMT DEF Init, ExitInv, CallerInv
<1> QED BY <1>1, <1>2, <1>3 DEF SessionInv

LEMMA SessionAlways == Spec => []SessionInv
<1>1. SessionInv /\ [Next]_vars => SessionInv'
  BY TypeStep, StreamStep, ExitStep, CallerStep DEF SessionInv
<1> QED BY SessionStart, <1>1, PTL DEF Spec

(* What a reader that saw io.EOF has read.                                 *)
LEMMA ReturnedHasAll ==
    ASSUME SessionInv, NEW s \in Streams, rpc[s] = "returned"
    PROVE  Lists(got[s], Output(s)) /\ loop # "read"
<1>1. got[s] \o buf[s] = got[s]
  <2> DEFINE N == Nat
  <2>1. got[s] \in Seq(N) /\ buf[s] = <<>>
    BY Zenon DEF SessionInv, TypeOK, StreamsOK, StreamInv
  <2> HIDE DEF N
  <2> QED BY <2>1, SMT
<1> QED BY <1>1, Zenon DEF SessionInv, StreamInv

(* For any number of frames: what was read from stdout and stderr and what *)
(* is buffered is what the device wrote, in order, and a reader that saw   *)
(* io.EOF has all of it, however readLoop, the readers and Close           *)
(* interleave.                                                             *)
THEOREM StreamsKept == Spec => []StreamsIntact
<1>1. SessionInv => StreamsIntact
  BY ReturnedHasAll, Zenon DEF SessionInv, StreamInv, StreamsIntact
<1> QED BY <1>1, SessionAlways, PTL

(* A result of RunCommandV2Context has the exit code that the device sent  *)
(* last and the whole output of both streams.                              *)
THEOREM ResultWhole == Spec => []ResultComplete
<1>1. SessionInv => ResultComplete
  <2> SUFFICES ASSUME SessionInv, result = "ok" PROVE ResultComplete
    BY DEF ResultComplete
  <2>1. gotExit /\ caller = "returned" /\ ExitInv /\ CallerInv
    BY Zenon DEF SessionInv, CallerInv
  <2>2. rpc["stdout"] = "returned" /\ rpc["stderr"] = "returned"
    BY <2>1, SMT DEF CallerInv
  <2>3. \A s \in Streams : rpc[s] = "returned"
    BY <2>2, Zenon DEF Streams
  <2> QED BY <2>1, <2>3, ReturnedHasAll, Zenon DEF ExitInv, ResultComplete
<1> QED BY <1>1, SessionAlways, PTL

=============================================================================
