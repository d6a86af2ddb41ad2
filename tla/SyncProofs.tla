----------------------------- MODULE SyncProofs -----------------------------
(***************************************************************************)
(* A sync session for any number of calls, files and directories of any    *)
(* length and any size of the chunks: each call reads its own replies and  *)
(* leaves nothing behind (OwnReplies), and what it tells its caller is     *)
(* what happened on the device (ResultsTrue).                              *)
(*                                                                         *)
(* Both speak of sessions in which no reply was left unread.  SyncInv says *)
(* what holds in them beside the types (Orderly): at most one call is at   *)
(* work; what is on the wire in both directions, what the device does and  *)
(* what the call has delivered fit together (Link); and when no call is at *)
(* work nothing is under way (Resting).  A connection that was closed or a *)
(* device that is gone leaves less to say, which is why Linked and Resting *)
(* ask for an open connection and Requests for a device.                   *)
(*                                                                         *)
(* The replies that are under way follow the items the call has taken      *)
(* (Follow), and a pushed file is on the wire as chunks that continue what *)
(* is stored, up to what was sent (Chunked).                               *)
(***************************************************************************)
EXTENDS SyncService, TLAPS

(* The goroutine of call n is at work.                                     *)
Live(n) == at[n] \notin {"off", "done"}

Request(n) == Message(Identifier(calls[n]), n, <<>>)
Done(n) == Message("DONE", n, <<>>)

ItemOf(k, n, e) == Message(IF k \in Pulls THEN "DATA" ELSE "DENT", n, <<e>>)

(* The messages q are the replies to call n that follow the first r items. *)
Follow(q, k, n, items, last, r) ==
    \A i \in 1..Len(q) :
      IF r + i <= Len(items)
        THEN q[i] = ItemOf(k, n, items[r + i])
        ELSE /\ r + i = Len(items) + 1
             /\ last # "none" /\ q[i].cmd = last /\ q[i].call = n

(* All of them.                                                            *)
Total(items, last) == Len(items) + (IF last = "none" THEN 0 ELSE 1)

(* What a call of kind k has delivered after r items.                      *)
Delivered(k, g, items, r) ==
    /\ k \in Pulls => Len(g) = r /\ \A i \in 1..r : g[i] = items[i]
    /\ k = "Readdir" => Lists(g, Entries(items, r))
    /\ k \notin Pulls \cup {"Readdir"} => items = <<>>

Replies(n) ==
    \E r \in 0..Len(sent[n]) :
      /\ Follow(fromDev, calls[n], n, sent[n], final[n], r)
      /\ Delivered(calls[n], got[n], sent[n], r)
      /\ devUp => Len(fromDev) + r = Total(sent[n], final[n])

(* The first l messages of q carry the content from a to b.                *)
Chunked(q, l, n, a, b) ==
    \E m \in [0..l -> Items] :
      /\ m[0] = a /\ m[l] = b
      /\ \A i \in 1..l : m[i - 1] <= m[i] /\ q[i] = Message("DATA", n, Content(m[i - 1], m[i]))

(* What follows the request of call n, which is at p: the content, of      *)
(* which st is stored and b sent, if it is a Push.                         *)
Body(k, p, n, st, b, q) ==
    IF k = "Push"
      THEN /\ st = Content(0, Len(st)) /\ Len(st) \in Items
           /\ p = "source" => q = <<>>
           /\ p # "reply" => Chunked(q, Len(q), n, Len(st), b)
           /\ p = "reply" => /\ q # <<>> /\ q[Len(q)] = Done(n)
                             /\ Chunked(q, Len(q) - 1, n, Len(st), b)
      ELSE q = <<>>

Pending(n, q) == Body(calls[n], at[n], n, stored[n], offset[n], q)

Requests(n) ==
    \/ /\ task = Idle /\ final[n] = "none" /\ sent[n] = <<>> /\ stored[n] = <<>>
       /\ toDev # <<>> /\ Head(toDev) = Request(n) /\ Pending(n, Tail(toDev))
    \/ task = n /\ final[n] = "none" /\ Pending(n, toDev)
    \/ task = Idle /\ final[n] # "none" /\ toDev = <<>> /\ at[n] \in {"reply", "pipe"}

Finals(k) == CASE k = "Stat" -> {"STAT", "FAIL"}
               [] k = "Push" -> {"OKAY", "FAIL"}
               [] OTHER -> {"DONE", "FAIL"}

(* Call n is where the messages of the session say.                        *)
Link(n) ==
    /\ Replies(n)
    /\ devUp => Requests(n)
    /\ final[n] \in {"none"} \cup Finals(calls[n])
    /\ at[n] \in {"source", "write"} => calls[n] = "Push" /\ final[n] = "none"
    /\ at[n] = "pipe" => calls[n] \in Pulls
    /\ at[n] = "source" => offset[n] = 0
    /\ offset[n] <= size[n]
    /\ at[n] \in {"reply", "pipe"} => offset[n] = size[n]
    /\ calls[n] = "Push" /\ final[n] = "OKAY" => stored[n] = Content(0, size[n])

(* Nothing is under way.                                                   *)
Quiet == fromDev = <<>> /\ (devUp => toDev = <<>> /\ task = Idle)

(* The device works for calls that have not succeeded.                     *)
Unfinished(m) == m \in 1..Len(calls) /\ result[m] # "ok"

Blank(n) ==
    /\ offset[n] = 0 /\ size[n] = 0 /\ got[n] = <<>> /\ took[n] = {} /\ result[n] = "none"
    /\ sent[n] = <<>> /\ final[n] = "none" /\ stored[n] = <<>>

(* What the caller of call n has been told is true.                        *)
Told(n) ==
    /\ calls[n] \in Pulls =>
         /\ Len(got[n]) <= Len(sent[n]) /\ \A i \in 1..Len(got[n]) : got[n][i] = sent[n][i]
         /\ result[n] = "ok" /\ devUp => final[n] = "DONE" /\ Len(got[n]) = Len(sent[n])
    /\ calls[n] = "Readdir" /\ result[n] = "ok" =>
         final[n] = "DONE" /\ Lists(got[n], Entries(sent[n], Len(sent[n])))
    /\ calls[n] = "Push" /\ result[n] = "ok" =>
         final[n] = "OKAY" /\ stored[n] = Content(0, size[n])

Numbered == \A n \in Calls : IF n <= Len(calls) THEN at[n] # "off"
                                                ELSE at[n] = "off" /\ Blank(n)
OneLive == \A m, n \in Calls : Live(m) /\ Live(n) => m = n
OwnOnly == \A n \in Calls : took[n] \subseteq {n} /\ (result[n] = "ok" => at[n] = "done")
Linked == open => \A n \in Calls : Live(n) => Link(n)
Resting == open /\ (\A n \in Calls : ~Live(n)) => Quiet
Serving == devUp => /\ task # Idle => Unfinished(task)
                    /\ \A i \in 1..Len(toDev) : Unfinished(toDev[i].call)
Listed == \A n \in Calls : \A i \in 1..Len(sent[n]) : sent[n][i] \in {0, i}
AllTold == \A n \in 1..Len(calls) : Told(n)

Orderly ==
    /\ Numbered /\ OneLive /\ OwnOnly /\ Linked /\ Resting /\ Serving /\ Listed /\ AllTold

SyncInv ==
    /\ TypeOK
    /\ ~devUp => toDev = <<>>
    /\ ~abandoned => Orderly

-----------------------------------------------------------------------------
(* Types.                                                                  *)

LEMMA DataFacts ==
    /\ <<>> \in Datas
    /\ \A e \in Items : <<e>> \in Datas
    /\ \A d \in Datas : d \in Seq(Items) /\ Len(d) <= ChunkMax
    /\ \A a, b \in Items : a <= b /\ b - a <= ChunkMax => Content(a, b) \in Datas
<1> USE MaxItemsAssumption, ChunkMaxAssumption
<1>1. \A l \in 0..ChunkMax : \A d \in [1..l -> Items] : d \in Datas
  BY DEF Datas
<1>2. <<>> \in Datas
  <2>1. <<>> \in [1..0 -> Items] /\ 0 \in 0..ChunkMax
    OBVIOUS
  <2> QED BY <1>1, <2>1, Zenon
<1>3. ASSUME NEW e \in Items PROVE <<e>> \in Datas
  <2>1. <<e>> \in [1..1 -> Items] /\ 1 \in 0..ChunkMax
    OBVIOUS
  <2> QED BY <1>1, <2>1, Zenon
<1>4. ASSUME NEW d \in Datas PROVE d \in Seq(Items) /\ Len(d) <= ChunkMax
  <2>1. PICK l \in 0..ChunkMax : d \in [1..l -> Items]
    BY DEF Datas
  <2> QED BY <2>1
<1>5. ASSUME NEW a \in Items, NEW b \in Items, a <= b, b - a <= ChunkMax
      PROVE  Content(a, b) \in Datas
  <2>1. b - a \in 0..ChunkMax /\ \A i \in 1..(b - a) : a + i \in Items
    BY <1>5 DEF Items
  <2>2. Content(a, b) \in [1..(b - a) -> Items]
    BY <2>1 DEF Content
  <2> QED BY <1>1, <2>1, <2>2
<1> QED BY <1>2, <1>3, <1>4, <1>5

LEMMA MessageType ==
    ASSUME NEW c \in Commands, NEW n \in Calls, NEW d \in Datas
    PROVE  Message(c, n, d) \in Messages
BY DEF Message, Messages

LEMMA SendType ==
    ASSUME WireOK, NEW m \in Messages, Send(m)
    PROVE  toDev' \in Seq(Messages)
BY DEF WireOK, Send

LEMMA HeadType ==
    ASSUME NEW M, NEW q \in Seq(M), q # <<>>
    PROVE  /\ Head(q) \in M /\ Tail(q) \in Seq(M) /\ Len(Tail(q)) = Len(q) - 1
           /\ Len(q) \in Nat /\ Len(q) > 0 /\ Head(q) = q[1]
           /\ \A i \in 1..Len(Tail(q)) : Tail(q)[i] = q[i + 1] /\ i + 1 \in 1..Len(q)
OBVIOUS

(* A function is changed in one place.                                     *)
LEMMA Update ==
    ASSUME NEW S, NEW T, NEW f \in [S -> T], NEW x, NEW v \in T
    PROVE  [f EXCEPT ![x] = v] \in [S -> T]
BY Zenon

LEMMA EndsType ==
    ASSUME CallsOK, NEW n, NEW r \in {"ok", "error"}, Ends(n, r)
    PROVE  /\ at' \in [Calls -> {"off", "source", "write", "reply", "pipe", "done"}]
           /\ result' \in [Calls -> {"none", "ok", "error"}]
<1>1. "done" \in {"off", "source", "write", "reply", "pipe", "done"}
      /\ r \in {"none", "ok", "error"}
  BY Zenon
<1> QED BY <1>1, Update, Zenon DEF CallsOK, Ends

LEMMA TypeBegin ==
    ASSUME TypeOK, NEW k \in Kinds, Begin(k) \/ BeginFails(k)
    PROVE  TypeOK'
<1>1. Len(calls) + 1 \in Calls /\ calls' = Append(calls, k) /\ Len(calls) \in Nat
  BY DEF Begin, BeginFails, TypeOK, CallsOK
<1>n. PICK n \in Calls : n = Len(calls) + 1
  BY <1>1, Zenon
<1>2. calls' \in Seq(Kinds) /\ Len(calls') <= MaxCalls
  BY <1>1, MaxCallsAssumption DEF TypeOK, CallsOK, Calls
<1>3. Message(Identifier(k), n, <<>>) \in Messages
  <2>1. Identifier(k) \in Commands
    BY DEF Identifier, Kinds, Pulls, Commands
  <2> QED BY <2>1, DataFacts, MessageType, Zenon
<1>4. CallsOK'
  <2>1. UNCHANGED <<offset, size, got, took>>
    BY Zenon DEF Begin, BeginFails
  <2>2. CASE Begin(k)
    <3>1. /\ at' = [at EXCEPT ![n] = IF k = "Push" THEN "source" ELSE "reply"]
          /\ reader' = [reader EXCEPT ![n] = IF k = "Pull" THEN "open" ELSE "none"]
          /\ result' = result
      BY <2>2, <1>n, Zenon DEF Begin
    <3>2. /\ (IF k = "Push" THEN "source" ELSE "reply")
               \in {"off", "source", "write", "reply", "pipe", "done"}
          /\ (IF k = "Pull" THEN "open" ELSE "none") \in {"none", "open", "closed"}
      BY Zenon
    <3> QED BY <1>2, <2>1, <3>1, <3>2, Update, Zenon DEF TypeOK, CallsOK
  <2>3. CASE BeginFails(k)
    <3>1. Ends(n, "error") /\ reader' = reader
      BY <2>3, <1>n, Zenon DEF BeginFails
    <3> QED BY <1>2, <2>1, <3>1, EndsType, Zenon DEF TypeOK, CallsOK
  <2> QED BY <2>2, <2>3, Zenon
<1>5. WireOK'
  <2>1. Send(Message(Identifier(k), n, <<>>)) \/ toDev' = toDev
    BY <1>n, Zenon DEF Begin, BeginFails
  <2>2. toDev' \in Seq(Messages)
    BY <1>3, <2>1, SendType, Zenon DEF TypeOK, WireOK
  <2>3. UNCHANGED <<fromDev, open, devUp>> /\ abandoned' \in BOOLEAN
    BY Zenon DEF Begin, BeginFails, TypeOK, WireOK, devVars
  <2> QED BY <2>2, <2>3, Zenon DEF TypeOK, WireOK
<1>6. DeviceOK'
  BY Zenon DEF Begin, BeginFails, TypeOK, DeviceOK, devVars
<1> QED BY <1>4, <1>5, <1>6 DEF TypeOK

LEMMA ChunkEnd ==
    ASSUME TypeOK, NEW n \in Calls, offset[n] < size[n]
    PROVE  \E b \in Items :
             /\ offset[n] <= b /\ b <= size[n] /\ b - offset[n] <= ChunkMax
             /\ b = offset[n] + ChunkSize(n)
<1>1. offset[n] \in Items /\ size[n] \in Items
  BY Zenon DEF TypeOK, CallsOK
<1>2. /\ offset[n] + ChunkSize(n) \in Items /\ offset[n] <= offset[n] + ChunkSize(n)
      /\ offset[n] + ChunkSize(n) <= size[n] /\ (offset[n] + ChunkSize(n)) - offset[n] <= ChunkMax
  BY <1>1, MaxItemsAssumption, ChunkMaxAssumption DEF ChunkSize, Items
<1> QED BY <1>2, Zenon

(* The steps of a Push.                                                    *)
LEMMA TypePush ==
    ASSUME TypeOK, NEW n \in Calls,
           \/ ReadSource(n) \/ SourceFails(n) \/ WriteChunk(n) \/ WriteDone(n) \/ WriteFails(n)
    PROVE  TypeOK'
<1> DEFINE AtSet == {"off", "source", "write", "reply", "pipe", "done"}
<1>1. DeviceOK' /\ UNCHANGED <<calls, got, took, reader, open, fromDev, devUp>>
  BY Zenon DEF ReadSource, SourceFails, WriteChunk, WriteDone, WriteFails, TypeOK,
     DeviceOK, devVars
<1>2. abandoned' \in BOOLEAN
  BY Zenon DEF ReadSource, SourceFails, WriteChunk, WriteDone, WriteFails, TypeOK, WireOK
<1>3. "write" \in AtSet /\ "reply" \in AtSet
  BY Zenon
<1>4. at' \in [Calls -> AtSet] /\ result' \in [Calls -> {"none", "ok", "error"}]
  <2>1. CASE SourceFails(n) \/ WriteFails(n)
    BY <2>1, EndsType, Zenon DEF SourceFails, WriteFails, TypeOK
  <2>2. CASE ReadSource(n)
    BY <2>2, <1>3, Update, Zenon DEF ReadSource, TypeOK, CallsOK
  <2>3. CASE WriteChunk(n)
    BY <2>3, Zenon DEF WriteChunk, TypeOK, CallsOK
  <2>4. CASE WriteDone(n)
    BY <2>4, <1>3, Update, Zenon DEF WriteDone, TypeOK, CallsOK
  <2> QED BY <2>1, <2>2, <2>3, <2>4, Zenon
<1>5. /\ offset' \in [Calls -> Items] /\ size' \in [Calls -> Items]
      /\ toDev' \in Seq(Messages)
  <2>t. offset \in [Calls -> Items] /\ size \in [Calls -> Items] /\ toDev \in Seq(Messages)
    BY Zenon DEF TypeOK, CallsOK, WireOK
  <2>1. CASE ReadSource(n)
    BY <2>1, <2>t, Update, Zenon DEF ReadSource, Items
  <2>2. CASE WriteChunk(n)
    <3>1. offset[n] \in Items /\ size[n] \in Items /\ offset[n] < size[n]
      BY <2>2, <2>t, Zenon DEF WriteChunk
    <3>b. PICK b \in Items :
            /\ offset[n] <= b /\ b <= size[n] /\ b - offset[n] <= ChunkMax
            /\ b = offset[n] + ChunkSize(n)
      BY <3>1, ChunkEnd, Zenon
    <3>a. offset[n] <= b /\ b - offset[n] <= ChunkMax
      BY <3>b
    <3>3. Content(offset[n], b) \in Datas
      BY <3>1, <3>a, DataFacts, Zenon
    <3>4. Message("DATA", n, Content(offset[n], b)) \in Messages
      BY <3>3, MessageType, Zenon DEF Commands
    <3>5. Send(Message("DATA", n, Content(offset[n], b))) /\ size' = size
          /\ offset' = [offset EXCEPT ![n] = b]
      BY <2>2, <3>b, Zenon DEF WriteChunk
    <3> QED BY <2>t, <3>4, <3>5, SendType, Update, Zenon DEF TypeOK
  <2>3. CASE WriteDone(n)
    <3>1. Message("DONE", n, <<>>) \in Messages
      BY DataFacts, MessageType, Zenon DEF Commands
    <3> QED BY <2>3, <2>t, <3>1, SendType, Zenon DEF WriteDone, TypeOK
  <2>4. CASE SourceFails(n) \/ WriteFails(n)
    BY <2>4, <2>t, Zenon DEF SourceFails, WriteFails
  <2> QED BY <2>1, <2>2, <2>3, <2>4, Zenon
<1> QED BY <1>1, <1>2, <1>4, <1>5, Zenon DEF TypeOK, CallsOK, WireOK

LEMMA TakeType ==
    ASSUME TypeOK, NEW n \in Calls, Take(n)
    PROVE  /\ fromDev' \in Seq(Messages) /\ took' \in [Calls -> SUBSET Calls]
           /\ Reply \in Messages /\ Reply.data \in Seq(Items)
<1>1. fromDev \in Seq(Messages) /\ fromDev # <<>> /\ fromDev' = Tail(fromDev)
  BY Zenon DEF TypeOK, WireOK, Take
<1>2. Reply \in Messages /\ fromDev' \in Seq(Messages)
  BY <1>1, HeadType, Zenon DEF Reply
<1>3. Reply.call \in Calls /\ Reply.data \in Datas
  BY <1>2 DEF Messages
<1>4. took[n] \cup {Reply.call} \in SUBSET Calls
  BY <1>3, Zenon DEF TypeOK, CallsOK
<1>5. took' \in [Calls -> SUBSET Calls]
  BY <1>4, Update, Zenon DEF TypeOK, CallsOK, Take, Reply
<1>6. Reply.data \in Seq(Items)
  BY <1>3, DataFacts, Zenon
<1> QED BY <1>2, <1>5, <1>6, Zenon

(* The steps that read a reply.                                            *)
LEMMA TypeReply ==
    ASSUME TypeOK, NEW n \in Calls,
           \/ StatReply(n) \/ ReaddirEntry(n) \/ ReaddirEnds(n) \/ ReadFinalReply(n)
           \/ ReadDataChunk(n) \/ ReadDataEnds(n)
    PROVE  TypeOK'
<1> DEFINE AtSet == {"off", "source", "write", "reply", "pipe", "done"}
<1>1. Take(n) /\ Leave
  BY Zenon DEF StatReply, ReaddirEntry, ReaddirEnds, ReadFinalReply, ReadDataChunk,
     ReadDataEnds
<1>2. /\ fromDev' \in Seq(Messages) /\ took' \in [Calls -> SUBSET Calls]
      /\ Reply.data \in Seq(Items)
  BY <1>1, TakeType, Zenon
<1>3. UNCHANGED <<calls, offset, size, reader>>
  BY <1>1, Zenon DEF Leave
<1>4. WireOK' /\ DeviceOK'
  BY <1>1, <1>2, Zenon DEF Leave, devVars, TypeOK, WireOK, DeviceOK
<1>5. /\ at' \in [Calls -> AtSet] /\ result' \in [Calls -> {"none", "ok", "error"}]
      /\ got' \in [Calls -> Seq(Items)]
  <2>1. CASE \E r \in {"ok", "error"} : Ends(n, r) /\ got' = got
    BY <2>1, EndsType, Zenon DEF TypeOK, CallsOK
  <2>2. CASE ReaddirEntry(n)
    <3>1. got[n] \in Seq(Items)
      BY Zenon DEF TypeOK, CallsOK
    <3>2. (IF Reply.data = <<0>> THEN got[n] ELSE got[n] \o Reply.data) \in Seq(Items)
      BY <1>2, <3>1
    <3> QED BY <2>2, <3>2, Update, Zenon DEF ReaddirEntry, TypeOK, CallsOK
  <2>3. CASE ReadDataChunk(n)
    <3>1. got[n] \in Seq(Items)
      BY Zenon DEF TypeOK, CallsOK
    <3>2. got[n] \o Reply.data \in Seq(Items)
      BY <1>2, <3>1
    <3>3. "pipe" \in AtSet
      BY Zenon
    <3> QED BY <2>3, <3>2, <3>3, Update, Zenon DEF ReadDataChunk, Continue, TypeOK, CallsOK
  <2>4. CASE StatReply(n) \/ ReaddirEnds(n) \/ ReadFinalReply(n) \/ ReadDataEnds(n)
    <3>1. \A c : (IF c THEN "ok" ELSE "error") \in {"ok", "error"}
      BY Zenon
    <3> QED BY <2>1, <2>4, <3>1, Zenon DEF StatReply, ReaddirEnds, ReadFinalReply, ReadDataEnds
  <2> QED BY <2>2, <2>3, <2>4, Zenon
<1> QED BY <1>2, <1>3, <1>4, <1>5, Zenon DEF TypeOK, CallsOK

LEMMA TypeUnexpected ==
    ASSUME TypeOK, NEW n \in Calls, UnexpectedReply(n)
    PROVE  TypeOK'
<1>1. fromDev \in Seq(Messages) /\ fromDev # <<>>
  BY Zenon DEF TypeOK, WireOK, UnexpectedReply
<1>2. Reply \in Messages /\ Tail(fromDev) \in Seq(Messages)
  BY <1>1, HeadType, Zenon DEF Reply
<1>3. Reply.call \in Calls /\ [Reply EXCEPT !.cmd = "rest"] \in Messages
  BY <1>2 DEF Messages, Commands
<1>4. <<[Reply EXCEPT !.cmd = "rest"]>> \o Tail(fromDev) \in Seq(Messages)
  BY <1>2, <1>3
<1>5. fromDev' \in Seq(Messages)
  BY <1>2, <1>4, Zenon DEF UnexpectedReply
<1>6. took[n] \cup {Reply.call} \in SUBSET Calls
  BY <1>3, Zenon DEF TypeOK, CallsOK
<1>7. took' \in [Calls -> SUBSET Calls]
  BY <1>6, Update, Zenon DEF TypeOK, CallsOK, UnexpectedReply
<1>8. WireOK' /\ DeviceOK' /\ UNCHANGED <<calls, offset, size, reader, got>>
  BY <1>5, Zenon DEF UnexpectedReply, Leave, devVars, TypeOK, WireOK, DeviceOK
<1>9. CallsOK'
  BY <1>7, <1>8, EndsType, Zenon DEF UnexpectedReply, TypeOK, CallsOK
<1> QED BY <1>8, <1>9 DEF TypeOK

LEMMA TypeOther ==
    ASSUME TypeOK, NEW n \in Calls,
           ReadError(n) \/ PipeRead(n) \/ CloseReader(n) \/ PipeClosed(n) \/ Close
    PROVE  TypeOK'
<1>1. UNCHANGED <<calls, offset, size, got, took, toDev, fromDev, devVars>>
  BY Zenon DEF ReadError, PipeRead, CloseReader, PipeClosed, Close, Leave
<1>2. DeviceOK'
  BY <1>1, Zenon DEF TypeOK, DeviceOK, devVars
<1>3. WireOK'
  <2>1. open' \in BOOLEAN /\ abandoned' \in BOOLEAN
    BY Zenon DEF ReadError, PipeRead, CloseReader, PipeClosed, Close, Leave, TypeOK, WireOK
  <2> QED BY <1>1, <2>1, Zenon DEF TypeOK, WireOK, devVars
<1>4. CallsOK'
  <2>1. CASE ReadError(n) \/ PipeClosed(n)
    BY <1>1, <2>1, EndsType, Zenon DEF ReadError, PipeClosed, Leave, TypeOK, CallsOK
  <2>2. CASE PipeRead(n)
    <3>1. "reply" \in {"off", "source", "write", "reply", "pipe", "done"}
      BY Zenon
    <3> QED BY <1>1, <2>2, <3>1, Update, Zenon DEF PipeRead, Leave, TypeOK, CallsOK
  <2>3. CASE CloseReader(n)
    <3>1. "closed" \in {"none", "open", "closed"}
      BY Zenon
    <3> QED BY <1>1, <2>3, <3>1, Update, Zenon DEF CloseReader, TypeOK, CallsOK
  <2>4. CASE Close
    BY <1>1, <2>4, Zenon DEF Close, TypeOK, CallsOK
  <2> QED BY <2>1, <2>2, <2>3, <2>4, Zenon
<1> QED BY <1>2, <1>3, <1>4 DEF TypeOK

LEMMA AppendType ==
    ASSUME NEW M, NEW q \in Seq(M), NEW m \in M
    PROVE  Append(q, m) \in Seq(M)
OBVIOUS

LEMMA DevEndsType ==
    ASSUME TypeOK, task \in Calls, NEW c \in {"STAT", "DONE", "OKAY", "FAIL"},
           NEW d \in Datas, DevEnds(c, d)
    PROVE  /\ fromDev' \in Seq(Messages) /\ task' = Idle
           /\ final' \in [Calls -> {"none", "STAT", "DONE", "OKAY", "FAIL"}]
<1>1. c \in Commands /\ c \in {"none", "STAT", "DONE", "OKAY", "FAIL"}
  BY Zenon DEF Commands
<1>2. Message(c, task, d) \in Messages
  BY <1>1, MessageType, Zenon
<1> QED BY <1>1, <1>2, AppendType, Update, Zenon DEF DevEnds, TypeOK, WireOK, DeviceOK

(* The steps of the device.                                                *)
LEMMA TypeDevice ==
    ASSUME TypeOK, DevStep \/ DevLost
    PROVE  TypeOK'
<1>1. UNCHANGED clientVars
  BY Zenon DEF DevStep, DevLost, DevTake, DevItem, DevAnswers, DevStores, DevRejects
<1>2. CallsOK' /\ open' \in BOOLEAN /\ abandoned' \in BOOLEAN
  BY <1>1, Zenon DEF clientVars, TypeOK, CallsOK, WireOK
<1>t. /\ toDev \in Seq(Messages) /\ fromDev \in Seq(Messages) /\ devUp \in BOOLEAN
      /\ task \in {Idle} \cup Calls
      /\ sent \in [Calls -> Seq(Items)] /\ stored \in [Calls -> Seq(Items)]
      /\ final \in [Calls -> {"none", "STAT", "DONE", "OKAY", "FAIL"}]
  BY Zenon DEF TypeOK, WireOK, DeviceOK
<1>k. task # Idle => task \in Calls
  BY <1>t, Zenon
<1>f. "FAIL" \in {"STAT", "DONE", "OKAY", "FAIL"} /\ "DONE" \in {"STAT", "DONE", "OKAY", "FAIL"}
      /\ "STAT" \in {"STAT", "DONE", "OKAY", "FAIL"} /\ <<>> \in Datas
  BY DataFacts, Zenon
<1>e. <<>> \in Seq(Messages)
  OBVIOUS
<1>3. CASE DevTake
  <2>1. Head(toDev).call \in Calls /\ Tail(toDev) \in Seq(Messages)
    <3>1. Head(toDev) \in Messages /\ Tail(toDev) \in Seq(Messages)
      BY <1>3, <1>t, HeadType, Zenon DEF DevTake
    <3> QED BY <3>1 DEF Messages
  <2> QED BY <1>2, <1>3, <1>t, <2>1, Zenon DEF DevTake, TypeOK, WireOK, DeviceOK
<1>4. CASE DevItem
  <2>1. task \in Calls /\ sent[task] \in Seq(Items) /\ Len(sent[task]) < MaxItems
    BY <1>4, <1>k, <1>t, Zenon DEF DevItem
  <2>2. PICK e \in {0, Len(sent[task]) + 1} :
          /\ sent' = [sent EXCEPT ![task] = Append(@, e)]
          /\ fromDev' = Append(fromDev,
               Message(IF calls[task] \in Pulls THEN "DATA" ELSE "DENT", task, <<e>>))
    BY <1>4, Zenon DEF DevItem
  <2>3. e \in Items
    BY <2>1, MaxItemsAssumption DEF Items
  <2>4. (IF calls[task] \in Pulls THEN "DATA" ELSE "DENT") \in Commands
    BY Zenon DEF Commands
  <2>5. <<e>> \in Datas
    BY <2>3, DataFacts, Zenon
  <2>6. Message(IF calls[task] \in Pulls THEN "DATA" ELSE "DENT", task, <<e>>) \in Messages
    BY <2>1, <2>4, <2>5, MessageType, Zenon
  <2>7. fromDev' \in Seq(Messages) /\ sent' \in [Calls -> Seq(Items)]
    BY <1>t, <2>1, <2>2, <2>3, <2>6, AppendType, Update, Zenon
  <2> QED BY <1>2, <1>4, <1>t, <2>7, Zenon DEF DevItem, TypeOK, WireOK, DeviceOK
<1>5. CASE DevAnswers
  <2>1. \E c \in {"STAT", "DONE", "OKAY", "FAIL"} : \E d \in Datas : DevEnds(c, d)
    <3>1. \A mode \in 0..1 : <<mode>> \in Datas
      <4>1. \A mode \in 0..1 : mode \in Items
        BY MaxItemsAssumption DEF Items
      <4> QED BY <4>1, DataFacts, Zenon
    <3> QED BY <1>5, <1>f, <3>1, Zenon DEF DevAnswers
  <2>2. task \in Calls
    BY <1>5, <1>k, Zenon DEF DevAnswers
  <2>3. /\ fromDev' \in Seq(Messages) /\ task' = Idle
        /\ final' \in [Calls -> {"none", "STAT", "DONE", "OKAY", "FAIL"}]
    BY <2>1, <2>2, DevEndsType, Zenon
  <2> QED BY <1>2, <1>5, <1>t, <2>3, Zenon DEF DevAnswers, TypeOK, WireOK, DeviceOK
<1>6. CASE DevStores
  <2>1. task \in Calls /\ Head(toDev) \in Messages /\ Tail(toDev) \in Seq(Messages)
    BY <1>6, <1>t, <1>k, HeadType, Zenon DEF DevStores
  <2>2. CASE \E cmd \in {"OKAY", "FAIL"} : DevEnds(cmd, <<>>) /\ UNCHANGED stored
    <3>1. \A cmd \in {"OKAY", "FAIL"} : cmd \in {"STAT", "DONE", "OKAY", "FAIL"}
      BY Zenon
    <3>2. /\ fromDev' \in Seq(Messages) /\ task' = Idle
          /\ final' \in [Calls -> {"none", "STAT", "DONE", "OKAY", "FAIL"}]
      BY <1>f, <2>1, <2>2, <3>1, DevEndsType, Zenon
    <3> QED BY <1>2, <1>6, <1>t, <2>1, <2>2, <3>2, Zenon DEF DevStores, TypeOK, WireOK, DeviceOK
  <2>3. CASE /\ stored' = [stored EXCEPT ![task] = @ \o Head(toDev).data]
             /\ UNCHANGED <<fromDev, task, final>>
    <3>1. Head(toDev).data \in Datas
      BY <2>1 DEF Messages
    <3>2. Head(toDev).data \in Seq(Items) /\ stored[task] \in Seq(Items)
      BY <1>t, <2>1, <3>1, DataFacts, Zenon
    <3>3. stored[task] \o Head(toDev).data \in Seq(Items)
      BY <3>2
    <3>4. stored' \in [Calls -> Seq(Items)]
      BY <1>t, <2>3, <3>3, Update, Zenon
    <3> QED BY <1>2, <1>6, <1>t, <2>1, <2>3, <3>4, Zenon DEF DevStores, TypeOK, WireOK, DeviceOK
  <2> QED BY <1>6, <2>2, <2>3, Zenon DEF DevStores
<1>7. CASE DevRejects
  <2>1. task \in Calls /\ DevEnds("FAIL", <<>>)
    BY <1>7, <1>k, Zenon DEF DevRejects
  <2>2. /\ fromDev' \in Seq(Messages) /\ task' = Idle
        /\ final' \in [Calls -> {"none", "STAT", "DONE", "OKAY", "FAIL"}]
    BY <2>1, <1>f, DevEndsType, Zenon
  <2> QED BY <1>2, <1>7, <1>t, <1>e, <2>2, Zenon DEF DevRejects, TypeOK, WireOK, DeviceOK
<1>8. CASE DevLost
  <2>1. \A k \in 0..Len(fromDev) : SubSeq(fromDev, 1, k) \in Seq(Messages)
    BY <1>t
  <2> QED BY <1>2, <1>8, <1>t, <1>e, <2>1, Zenon DEF DevLost, TypeOK, WireOK, DeviceOK
<1> QED BY <1>3, <1>4, <1>5, <1>6, <1>7, <1>8, Zenon DEF DevStep

(* Every step keeps the types.                                             *)
LEMMA TypeStep ==
    ASSUME TypeOK, [Next]_vars
    PROVE  TypeOK'
<1>1. CASE UNCHANGED vars
  BY <1>1, Zenon DEF vars, clientVars, devVars, TypeOK, CallsOK, WireOK, DeviceOK
<1>2. CASE Next
  <2>1. CASE \E k \in Kinds : Begin(k) \/ BeginFails(k)
    BY <2>1, TypeBegin, Zenon
  <2>2. CASE \E n \in Calls : Step(n) \/ PipeRead(n) \/ CloseReader(n)
    BY <2>2, TypePush, TypeReply, TypeUnexpected, TypeOther, Zenon DEF Step
  <2>3. CASE Close
    <3>1. WireOK' /\ DeviceOK' /\ CallsOK'
      BY <2>3, Zenon DEF Close, devVars, TypeOK, CallsOK, WireOK, DeviceOK
    <3> QED BY <3>1 DEF TypeOK
  <2> QED BY <1>2, <2>1, <2>2, <2>3, TypeDevice, Zenon DEF Next
<1> QED BY <1>1, <1>2, Zenon

-----------------------------------------------------------------------------
(* The invariant, one action at a time.                                    *)

LEMMA CallsFacts ==
    ASSUME TypeOK
    PROVE  /\ \A n \in 1..Len(calls) : n \in Calls /\ calls[n] \in Kinds
           /\ \A n \in Calls : n \in Nat /\ n # Idle /\ (n <= Len(calls) <=> n \in 1..Len(calls))
           /\ Len(calls) \in Nat
BY MaxCallsAssumption DEF TypeOK, CallsOK, Calls, Idle

(* Nothing that the result of call n depends on changes.                   *)
LEMMA ToldSame ==
    ASSUME NEW n, Told(n), devUp' => devUp,
           /\ calls'[n] = calls[n] /\ got'[n] = got[n] /\ sent'[n] = sent[n]
           /\ result'[n] = result[n] /\ final'[n] = final[n] /\ stored'[n] = stored[n]
           /\ size'[n] = size[n]
    PROVE  Told(n)'
BY Zenon DEF Told

(* A call that has not succeeded has at most passed on part of the file.   *)
LEMMA ToldUnfinished ==
    ASSUME NEW n, result'[n] # "ok",
           calls'[n] \in Pulls =>
             /\ Len(got'[n]) <= Len(sent'[n])
             /\ \A i \in 1..Len(got'[n]) : got'[n][i] = sent'[n][i]
    PROVE  Told(n)'
BY Zenon DEF Told

(* A step of the goroutine of call n, the only one at work.                *)
LEMMA StepFrame ==
    ASSUME TypeOK, Orderly, NEW n \in Calls, Live(n),
           UNCHANGED <<calls, open, devVars>>,
           \A m \in Calls \ {n} :
             /\ at'[m] = at[m] /\ result'[m] = result[m] /\ got'[m] = got[m]
             /\ took'[m] = took[m] /\ offset'[m] = offset[m] /\ size'[m] = size[m],
           at'[n] # "off", took'[n] \subseteq {n}, result'[n] = "ok" => at'[n] = "done",
           Serving', Told(n)',
           open => IF at'[n] = "done" THEN Quiet' ELSE Link(n)'
    PROVE  Orderly'
<1>1. n <= Len(calls) /\ n \in 1..Len(calls)
  BY CallsFacts, Zenon DEF Orderly, Numbered, Live
<1>2. \A m \in Calls \ {n} : ~Live(m) /\ ~Live(m)'
  BY Zenon DEF Orderly, OneLive, Live
<1>3. Numbered'
  <2> SUFFICES ASSUME NEW m \in Calls
               PROVE  IF m <= Len(calls') THEN at'[m] # "off"
                                          ELSE at'[m] = "off" /\ Blank(m)'
    BY Zenon DEF Numbered
  <2>1. CASE m = n
    BY <1>1, <2>1, Zenon
  <2>2. CASE m # n
    BY <2>2, Zenon DEF Orderly, Numbered, Blank, devVars
  <2> QED BY <2>1, <2>2, Zenon
<1>4. OneLive'
  BY <1>2, Zenon DEF OneLive
<1>5. OwnOnly'
  BY Zenon DEF Orderly, OwnOnly
<1>6. Linked'
  BY <1>2, Zenon DEF Linked, Live
<1>7. Resting'
  BY Zenon DEF Resting, Live
<1>8. Listed'
  BY Zenon DEF Orderly, Listed, devVars
<1>9. AllTold'
  <2> SUFFICES ASSUME NEW m \in 1..Len(calls), m # n PROVE Told(m)'
    BY Zenon DEF AllTold
  <2>1. m \in Calls \ {n} /\ Told(m)
    BY CallsFacts, Zenon DEF Orderly, AllTold
  <2> QED BY <2>1, ToldSame, Zenon DEF devVars
<1> QED BY <1>3, <1>4, <1>5, <1>6, <1>7, <1>8, <1>9, Zenon DEF Orderly

(* A step of the device for call t.                                        *)
LEMMA DeviceFrame ==
    ASSUME TypeOK, Orderly, NEW t \in Calls, Unfinished(t), UNCHANGED clientVars,
           devUp' => devUp,
           \A m \in Calls \ {t} :
             sent'[m] = sent[m] /\ final'[m] = final[m] /\ stored'[m] = stored[m],
           calls[t] \in Pulls => /\ Len(got[t]) <= Len(sent'[t])
                                 /\ \A i \in 1..Len(got[t]) : got[t][i] = sent'[t][i],
           \A i \in 1..Len(sent'[t]) : sent'[t][i] \in {0, i},
           Serving',
           open => /\ \A n \in Calls : Live(n) => Link(n)'
                   /\ (\A n \in Calls : ~Live(n)) => Quiet'
    PROVE  Orderly'
<1>1. UNCHANGED <<calls, at, offset, size, got, took, result, open>>
  BY Zenon DEF clientVars
<1>2. \A n \in Calls : Live(n)' <=> Live(n)
  BY <1>1, Zenon DEF Live
<1>3. Numbered'
  <2> SUFFICES ASSUME NEW m \in Calls
               PROVE  IF m <= Len(calls) THEN at[m] # "off"
                                         ELSE at[m] = "off" /\ Blank(m)'
    BY <1>1, Zenon DEF Numbered
  <2>1. CASE m = t
    <3>1. t <= Len(calls)
      BY CallsFacts, Zenon DEF Unfinished
    <3> QED BY <2>1, <3>1, Zenon DEF Orderly, Numbered
  <2>2. CASE m # t
    BY <1>1, <2>2, Zenon DEF Orderly, Numbered, Blank
  <2> QED BY <2>1, <2>2, Zenon
<1>4. OneLive'
  BY <1>2, Zenon DEF Orderly, OneLive
<1>5. OwnOnly'
  BY <1>1, Zenon DEF Orderly, OwnOnly
<1>6. Linked'
  BY <1>1, <1>2, Zenon DEF Linked
<1>7. Resting'
  BY <1>1, <1>2, Zenon DEF Resting
<1>8. Listed'
  BY Zenon DEF Orderly, Listed
<1>9. AllTold'
  <2> SUFFICES ASSUME NEW m \in 1..Len(calls) PROVE Told(m)'
    BY <1>1, Zenon DEF AllTold
  <2>1. m \in Calls /\ Told(m)
    BY CallsFacts, Zenon DEF Orderly, AllTold
  <2>2. CASE m = t
    BY <1>1, <2>2, ToldUnfinished, Zenon DEF Unfinished
  <2>3. CASE m # t
    BY <1>1, <2>1, <2>3, ToldSame, Zenon
  <2> QED BY <2>2, <2>3, Zenon
<1> QED BY <1>3, <1>4, <1>5, <1>6, <1>7, <1>8, <1>9, Zenon DEF Orderly

LEMMA TailAppend ==
    ASSUME NEW M, NEW q \in Seq(M), NEW x \in M, q # <<>>
    PROVE  /\ Head(Append(q, x)) = Head(q) /\ Tail(Append(q, x)) = Append(Tail(q), x)
           /\ Append(q, x) # <<>>
OBVIOUS

LEMMA ChunkedMore ==
    ASSUME NEW n, NEW M, NEW q \in Seq(M), NEW a, NEW b \in Items, NEW c \in Items, b <= c,
           Chunked(q, Len(q), n, a, b)
    PROVE  Chunked(Append(q, Message("DATA", n, Content(b, c))), Len(q) + 1, n, a, c)
<1> DEFINE x == Message("DATA", n, Content(b, c))
<1>1. PICK m \in [0..Len(q) -> Items] :
        /\ m[0] = a /\ m[Len(q)] = b
        /\ \A i \in 1..Len(q) : /\ m[i - 1] <= m[i]
                                /\ q[i] = Message("DATA", n, Content(m[i - 1], m[i]))
  BY Zenon DEF Chunked
<1> DEFINE w == [i \in 0..(Len(q) + 1) |-> IF i <= Len(q) THEN m[i] ELSE c]
<1>n. Len(q) \in Nat
  OBVIOUS
<1>2. w \in [0..(Len(q) + 1) -> Items] /\ w[0] = a /\ w[Len(q) + 1] = c
  BY <1>1, <1>n
<1>3. ASSUME NEW i \in 1..(Len(q) + 1)
      PROVE  w[i - 1] <= w[i] /\ Append(q, x)[i] = Message("DATA", n, Content(w[i - 1], w[i]))
  <2>1. CASE i <= Len(q)
    <3>1. w[i - 1] = m[i - 1] /\ w[i] = m[i] /\ i \in 1..Len(q)
      BY <1>n, <2>1
    <3>2. Append(q, x)[i] = q[i]
      BY <3>1
    <3> QED BY <1>1, <3>1, <3>2, Zenon
  <2>2. CASE i = Len(q) + 1
    <3>1. w[i - 1] = b /\ w[i] = c
      BY <1>1, <1>n, <2>2
    <3>2. Append(q, x)[i] = x
      BY <1>n, <2>2
    <3> QED BY <3>1, <3>2, Zenon
  <2> QED BY <2>1, <2>2, <1>n
<1> HIDE DEF w, x
<1> QED BY <1>2, <1>3, Zenon DEF Chunked, x

LEMMA ChunkedKept ==
    ASSUME NEW n, NEW M, NEW q \in Seq(M), NEW a, NEW b, NEW x, Chunked(q, Len(q), n, a, b)
    PROVE  Chunked(Append(q, x), Len(q), n, a, b)
<1>1. \A i \in 1..Len(q) : Append(q, x)[i] = q[i]
  OBVIOUS
<1> QED BY <1>1, Zenon DEF Chunked

(* Call n goes on without having succeeded, and sends a message at most.   *)
LEMMA ServingClient ==
    ASSUME TypeOK, Orderly, NEW n \in Calls, Live(n), UNCHANGED <<calls, devVars>>,
           \A m \in Calls \ {n} : result'[m] = result[m], result'[n] # "ok",
           \/ toDev' = toDev
           \/ \E x \in Messages : x.call = n /\ Send(x)
    PROVE  Serving'
<1>1. n \in 1..Len(calls) /\ \A m \in 1..Len(calls) : m \in Calls
  BY CallsFacts, Zenon DEF Orderly, Numbered, Live
<1> DEFINE Open(m) == m \in 1..Len(calls') /\ result'[m] # "ok"
<1>2. \A m : Unfinished(m) => Open(m)
  BY <1>1, Zenon DEF Unfinished
<1>3. Open(n)
  BY <1>1, Zenon
<1> HIDE DEF Open
<1>4. SUFFICES ASSUME devUp PROVE \A i \in 1..Len(toDev') : Open(toDev'[i].call)
  BY <1>2, Zenon DEF Orderly, Serving, devVars, Unfinished, Open
<1>5. CASE toDev' = toDev
  BY <1>2, <1>4, <1>5, Zenon DEF Orderly, Serving
<1>6. CASE \E x \in Messages : x.call = n /\ Send(x)
  <2>1. PICK x \in Messages : x.call = n /\ toDev' = Append(toDev, x)
    BY <1>4, <1>6, Zenon DEF Send
  <2>2. toDev \in Seq(Messages)
    BY Zenon DEF TypeOK, WireOK
  <2>3. \A i \in 1..Len(toDev') : (i \in 1..Len(toDev) /\ toDev'[i] = toDev[i]) \/ toDev'[i] = x
    BY <2>1, <2>2
  <2> QED BY <1>2, <1>3, <1>4, <2>1, <2>3, Zenon DEF Orderly, Serving
<1> QED BY <1>5, <1>6, Zenon

(* The replies to call n are as they were.                                 *)
LEMMA RepliesSame ==
    ASSUME NEW n, Replies(n), UNCHANGED <<calls, got, fromDev, devVars>>
    PROVE  Replies(n)'
BY Zenon DEF Replies, devVars

LEMMA ToldKept ==
    ASSUME NEW n \in Calls, TypeOK, Orderly, Live(n), UNCHANGED <<calls, got, devVars>>,
           result'[n] # "ok"
    PROVE  Told(n)'
<1>1. n \in 1..Len(calls)
  BY CallsFacts, Zenon DEF Orderly, Numbered, Live
<1> QED BY <1>1, ToldUnfinished, Zenon DEF Orderly, AllTold, Told, devVars

(* The calls other than n are left alone.                                  *)
LEMMA OthersSame ==
    ASSUME TypeOK, NEW n \in Calls,
           \/ at' = at
           \/ \E v \in {"write", "reply", "pipe", "done"} : at' = [at EXCEPT ![n] = v],
           result' = result \/ \E r \in {"ok", "error"} : result' = [result EXCEPT ![n] = r],
           got' = got \/ \E g : got' = [got EXCEPT ![n] = g],
           took' = took \/ \E u : took' = [took EXCEPT ![n] = u],
           offset' = offset \/ \E b : offset' = [offset EXCEPT ![n] = b],
           size' = size \/ \E l : size' = [size EXCEPT ![n] = l]
    PROVE  \A m \in Calls \ {n} :
             /\ at'[m] = at[m] /\ result'[m] = result[m] /\ got'[m] = got[m]
             /\ took'[m] = took[m] /\ offset'[m] = offset[m] /\ size'[m] = size[m]
<1>1. /\ at \in [Calls -> {"off", "source", "write", "reply", "pipe", "done"}]
      /\ offset \in [Calls -> Items] /\ size \in [Calls -> Items]
      /\ got \in [Calls -> Seq(Items)] /\ took \in [Calls -> SUBSET Calls]
      /\ result \in [Calls -> {"none", "ok", "error"}]
  BY Zenon DEF TypeOK, CallsOK
<1> TAKE m \in Calls \ {n}
<1>2. at'[m] = at[m]
  BY <1>1, Zenon
<1>3. result'[m] = result[m]
  BY <1>1, Zenon
<1>4. got'[m] = got[m]
  BY <1>1, Zenon
<1>5. took'[m] = took[m]
  BY <1>1, Zenon
<1>6. offset'[m] = offset[m]
  BY <1>1, Zenon
<1>7. size'[m] = size[m]
  BY <1>1, Zenon
<1> QED BY <1>2, <1>3, <1>4, <1>5, <1>6, <1>7, Zenon

LEMMA LiveFacts ==
    ASSUME TypeOK, Orderly, NEW n \in Calls, Live(n)
    PROVE  /\ n \in 1..Len(calls) /\ calls[n] \in Kinds /\ took[n] \subseteq {n}
           /\ result[n] # "ok" /\ at[n] # "off" /\ at[n] # "done"
           /\ open => Link(n)
<1>1. n \in 1..Len(calls) /\ calls[n] \in Kinds
  BY CallsFacts, Zenon DEF Orderly, Numbered, Live
<1>2. took[n] \subseteq {n} /\ result[n] # "ok" /\ (open => Link(n))
  BY Zenon DEF Orderly, OwnOnly, Linked, Live
<1> QED BY <1>1, <1>2, Zenon DEF Live

LEMMA OrderSource ==
    ASSUME TypeOK, Orderly, NEW n \in Calls, ReadSource(n)
    PROVE  Orderly'
<1>1. Live(n) /\ at[n] = "source"
  BY Zenon DEF ReadSource, Live
<1>2. PICK l \in 0..MaxItems : size' = [size EXCEPT ![n] = l]
  BY Zenon DEF ReadSource
<1>3. at' = [at EXCEPT ![n] = "write"]
      /\ UNCHANGED <<calls, offset, got, took, result, open, toDev, fromDev, devVars>>
  BY Zenon DEF ReadSource
<1>4. at'[n] = "write" /\ size'[n] = l
  BY <1>2, <1>3, Zenon DEF TypeOK, CallsOK
<1>5. \A m \in Calls \ {n} :
        /\ at'[m] = at[m] /\ result'[m] = result[m] /\ got'[m] = got[m]
        /\ took'[m] = took[m] /\ offset'[m] = offset[m] /\ size'[m] = size[m]
  <2>1. "write" \in {"write", "reply", "pipe", "done"}
    BY Zenon
  <2> QED BY <1>2, <1>3, <2>1, OthersSame, Zenon
<1>6. took'[n] \subseteq {n} /\ result'[n] # "ok"
  BY <1>1, <1>3, LiveFacts, Zenon
<1>7. Serving'
  BY <1>1, <1>3, <1>5, <1>6, ServingClient, Zenon
<1>8. Told(n)'
  BY <1>1, <1>3, <1>6, ToldKept, Zenon
<1>9. ASSUME open PROVE Link(n)'
  <2>1. Link(n) /\ calls[n] = "Push" /\ final[n] = "none" /\ offset[n] = 0
    BY <1>1, <1>9, LiveFacts, Zenon DEF Link
  <2>2. Replies(n)'
    BY <1>3, <2>1, RepliesSame, Zenon DEF Link
  <2>3. \A q, b, st : Body("Push", "source", n, st, b, q) => Body("Push", "write", n, st, b, q)
    BY Zenon DEF Body
  <2>4. devUp' => Requests(n)'
    <3>1. devUp => Requests(n)
      BY <2>1, Zenon DEF Link
    <3> QED BY <1>1, <1>3, <1>4, <2>1, <2>3, <3>1, Zenon DEF Requests, Pending, Request, devVars
  <2>5. offset'[n] <= size'[n]
    BY <1>3, <1>4, <2>1
  <2> QED BY <1>3, <1>4, <2>1, <2>2, <2>4, <2>5, Zenon DEF Link, devVars
<1>10. at'[n] # "off" /\ at'[n] # "done"
  BY <1>4, Zenon
<1> QED BY <1>1, <1>3, <1>5, <1>6, <1>7, <1>8, <1>9, <1>10, StepFrame, Zenon

LEMMA BodyMore ==
    ASSUME NEW n, NEW M, NEW q \in Seq(M), NEW st, NEW b \in Items, NEW c \in Items, b <= c,
           NEW x \in M, x = Message("DATA", n, Content(b, c)),
           Body("Push", "write", n, st, b, q)
    PROVE  Body("Push", "write", n, st, c, Append(q, x))
<1>1. Chunked(Append(q, x), Len(q) + 1, n, Len(st), c)
  BY ChunkedMore, Zenon DEF Body
<1>2. Len(Append(q, x)) = Len(q) + 1
  OBVIOUS
<1> QED BY <1>1, <1>2, Zenon DEF Body

LEMMA BodyDone ==
    ASSUME NEW n, NEW M, NEW q \in Seq(M), NEW st, NEW b, NEW x \in M, x = Done(n),
           Body("Push", "write", n, st, b, q)
    PROVE  Body("Push", "reply", n, st, b, Append(q, x))
<1>1. Chunked(Append(q, x), Len(q), n, Len(st), b)
  BY ChunkedKept, Zenon DEF Body
<1>2. Len(Append(q, x)) - 1 = Len(q) /\ Append(q, x)[Len(Append(q, x))] = x
      /\ Append(q, x) # <<>>
  OBVIOUS
<1> QED BY <1>1, <1>2, Zenon DEF Body

(* A message of a Push follows its request.                                *)
LEMMA RequestsMore ==
    ASSUME TypeOK, NEW n \in Calls, Link(n), at[n] = "write", devUp,
           UNCHANGED <<calls, devVars>>, NEW x \in Messages, toDev' = Append(toDev, x),
           \A q \in Seq(Messages) :
             Body("Push", "write", n, stored[n], offset[n], q)
               => Body("Push", at'[n], n, stored[n], offset'[n], Append(q, x))
    PROVE  Requests(n)'
<1>1. calls[n] = "Push" /\ final[n] = "none" /\ Requests(n) /\ toDev \in Seq(Messages)
  BY Zenon DEF Link, TypeOK, WireOK
<1>2. CASE task = n /\ Pending(n, toDev)
  BY <1>1, <1>2, Zenon DEF Requests, Pending, devVars
<1>3. CASE /\ task = Idle /\ sent[n] = <<>> /\ stored[n] = <<>>
           /\ toDev # <<>> /\ Head(toDev) = Request(n) /\ Pending(n, Tail(toDev))
  <2>1. Tail(toDev) \in Seq(Messages)
    BY <1>1, <1>3, HeadType, Zenon
  <2>2. Body("Push", at'[n], n, stored[n], offset'[n], Append(Tail(toDev), x))
    BY <1>1, <1>3, <2>1, Zenon DEF Pending
  <2>3. Head(toDev') = Head(toDev) /\ Tail(toDev') = Append(Tail(toDev), x) /\ toDev' # <<>>
    BY <1>1, <1>3, TailAppend, Zenon
  <2> QED BY <1>1, <1>3, <2>2, <2>3, Zenon DEF Requests, Pending, Request, devVars
<1> QED BY <1>1, <1>2, <1>3, Zenon DEF Requests

LEMMA OrderChunk ==
    ASSUME TypeOK, Orderly, NEW n \in Calls, WriteChunk(n)
    PROVE  Orderly'
<1>1. Live(n) /\ at[n] = "write" /\ open /\ offset[n] < size[n]
  BY Zenon DEF WriteChunk, Live
<1>2. offset[n] \in Items /\ size[n] \in Items
  BY Zenon DEF TypeOK, CallsOK
<1>b. PICK b \in Items :
        /\ offset[n] <= b /\ b <= size[n] /\ b - offset[n] <= ChunkMax
        /\ b = offset[n] + ChunkSize(n)
  BY <1>1, ChunkEnd, Zenon
<1>4. offset[n] <= b /\ b <= size[n] /\ b - offset[n] <= ChunkMax
  BY <1>b
<1>5. Content(offset[n], b) \in Datas
  BY <1>2, <1>4, DataFacts, Zenon
<1>c. "DATA" \in Commands
  BY Zenon DEF Commands
<1>6. Message("DATA", n, Content(offset[n], b)) \in Messages
      /\ Message("DATA", n, Content(offset[n], b)).call = n
  <2>1. Message("DATA", n, Content(offset[n], b)) \in Messages
    BY <1>5, <1>c, MessageType, Zenon
  <2>2. Message("DATA", n, Content(offset[n], b)).call = n
    BY DEF Message
  <2> QED BY <2>1, <2>2
<1>7. /\ Send(Message("DATA", n, Content(offset[n], b)))
      /\ offset' = [offset EXCEPT ![n] = b]
      /\ UNCHANGED <<calls, at, size, got, took, result, open, fromDev, devVars>>
  BY <1>b, Zenon DEF WriteChunk
<1>8. offset'[n] = b
  BY <1>7, Zenon DEF TypeOK, CallsOK
<1>9. \A m \in Calls \ {n} :
        /\ at'[m] = at[m] /\ result'[m] = result[m] /\ got'[m] = got[m]
        /\ took'[m] = took[m] /\ offset'[m] = offset[m] /\ size'[m] = size[m]
  BY <1>7, OthersSame, Zenon
<1>10. took'[n] \subseteq {n} /\ result'[n] # "ok"
  BY <1>1, <1>7, LiveFacts, Zenon
<1>11. Serving'
  BY <1>1, <1>6, <1>7, <1>9, <1>10, ServingClient, Zenon
<1>12. Told(n)'
  BY <1>1, <1>7, <1>10, ToldKept, Zenon
<1>13. Link(n)'
  <2>1. Link(n) /\ calls[n] = "Push" /\ final[n] = "none"
    BY <1>1, LiveFacts, Zenon DEF Link
  <2>2. Replies(n)'
    BY <1>7, <2>1, RepliesSame, Zenon DEF Link
  <2>3. ASSUME devUp PROVE Requests(n)'
    <3>1. PICK x \in Messages : x = Message("DATA", n, Content(offset[n], b))
      BY <1>6, Zenon
    <3>2. toDev' = Append(toDev, x)
      BY <1>7, <2>3, <3>1, Zenon DEF Send
    <3>3. \A q \in Seq(Messages) :
            Body("Push", "write", n, stored[n], offset[n], q)
              => Body("Push", "write", n, stored[n], b, Append(q, x))
      BY <1>2, <1>4, <3>1, BodyMore, Zenon
    <3>4. at'[n] = "write"
      BY <1>1, <1>7, Zenon
    <3> QED BY <1>1, <1>7, <1>8, <2>1, <2>3, <3>2, <3>3, <3>4, RequestsMore, Zenon
  <2>4. at'[n] = "write" /\ offset'[n] <= size'[n]
    BY <1>1, <1>4, <1>7, <1>8, Zenon
  <2> QED BY <1>7, <2>1, <2>2, <2>3, <2>4, Zenon DEF Link, devVars
<1>14. at'[n] # "off" /\ at'[n] # "done"
  BY <1>1, <1>7, Zenon
<1> QED BY <1>1, <1>7, <1>9, <1>10, <1>11, <1>12, <1>13, <1>14, StepFrame, Zenon

LEMMA OrderDone ==
    ASSUME TypeOK, Orderly, NEW n \in Calls, WriteDone(n)
    PROVE  Orderly'
<1>1. Live(n) /\ at[n] = "write" /\ open /\ offset[n] >= size[n]
  BY Zenon DEF WriteDone, Live
<1>2. offset[n] \in Nat /\ size[n] \in Nat
  BY MaxItemsAssumption DEF TypeOK, CallsOK, Items
<1>3. Done(n) \in Messages /\ Done(n).call = n
  <2>1. Done(n) \in Messages
    BY DataFacts, MessageType, Zenon DEF Commands, Done
  <2>2. Done(n).call = n
    BY DEF Done, Message
  <2> QED BY <2>1, <2>2
<1>4. /\ Send(Done(n)) /\ at' = [at EXCEPT ![n] = "reply"]
      /\ UNCHANGED <<calls, offset, size, got, took, result, open, fromDev, devVars>>
  BY Zenon DEF WriteDone, Done
<1>5. at'[n] = "reply"
  BY <1>4, Zenon DEF TypeOK, CallsOK
<1>6. \A m \in Calls \ {n} :
        /\ at'[m] = at[m] /\ result'[m] = result[m] /\ got'[m] = got[m]
        /\ took'[m] = took[m] /\ offset'[m] = offset[m] /\ size'[m] = size[m]
  <2>1. "reply" \in {"write", "reply", "pipe", "done"}
    BY Zenon
  <2> QED BY <1>4, <2>1, OthersSame, Zenon
<1>7. took'[n] \subseteq {n} /\ result'[n] # "ok"
  BY <1>1, <1>4, LiveFacts, Zenon
<1>8. Serving'
  BY <1>1, <1>3, <1>4, <1>6, <1>7, ServingClient, Zenon
<1>9. Told(n)'
  BY <1>1, <1>4, <1>7, ToldKept, Zenon
<1>10. Link(n)'
  <2>1. Link(n) /\ calls[n] = "Push" /\ final[n] = "none" /\ offset[n] <= size[n]
    BY <1>1, LiveFacts, Zenon DEF Link
  <2>2. Replies(n)'
    BY <1>4, <2>1, RepliesSame, Zenon DEF Link
  <2>3. ASSUME devUp PROVE Requests(n)'
    <3>1. PICK x \in Messages : x = Done(n)
      BY <1>3, Zenon
    <3>2. toDev' = Append(toDev, x)
      BY <1>4, <2>3, <3>1, Zenon DEF Send
    <3>3. \A q \in Seq(Messages) :
            Body("Push", "write", n, stored[n], offset[n], q)
              => Body("Push", "reply", n, stored[n], offset[n], Append(q, x))
      BY <3>1, BodyDone, Zenon
    <3> QED BY <1>1, <1>4, <1>5, <2>1, <2>3, <3>2, <3>3, RequestsMore, Zenon
  <2>4. offset[n] = size[n]
    BY <1>1, <1>2, <2>1
  <2> QED BY <1>4, <1>5, <2>1, <2>2, <2>3, <2>4, Zenon DEF Link, devVars
<1>11. at'[n] # "off" /\ at'[n] # "done"
  BY <1>5, Zenon
<1> QED BY <1>1, <1>4, <1>6, <1>7, <1>8, <1>9, <1>10, <1>11, StepFrame, Zenon

(* A call ends without success; the device is not there.                   *)
LEMMA OrderFails ==
    ASSUME TypeOK, Orderly, NEW n \in Calls, Live(n), Ends(n, "error"),
           UNCHANGED <<calls, offset, size, got, took, open, toDev, fromDev, devVars>>,
           open => ~devUp /\ fromDev = <<>>
    PROVE  Orderly'
<1>1. at'[n] = "done" /\ result'[n] = "error"
  BY Zenon DEF Ends, TypeOK, CallsOK
<1>2. \A m \in Calls \ {n} :
        /\ at'[m] = at[m] /\ result'[m] = result[m] /\ got'[m] = got[m]
        /\ took'[m] = took[m] /\ offset'[m] = offset[m] /\ size'[m] = size[m]
  <2>1. "done" \in {"write", "reply", "pipe", "done"} /\ "error" \in {"ok", "error"}
    BY Zenon
  <2> QED BY <2>1, OthersSame, Zenon DEF Ends
<1>3. took'[n] \subseteq {n} /\ result'[n] # "ok" /\ at'[n] # "off"
  BY <1>1, LiveFacts, Zenon
<1>4. Serving'
  BY <1>2, <1>3, ServingClient, Zenon
<1>5. Told(n)'
  BY <1>3, ToldKept, Zenon
<1>6. open => Quiet'
  BY Zenon DEF Quiet, devVars
<1> QED BY <1>1, <1>2, <1>3, <1>4, <1>5, <1>6, StepFrame, Zenon

(* While a Push is sending, the device has not replied.                    *)
LEMMA NoReplyYet ==
    ASSUME TypeOK, NEW n \in Calls, Link(n), final[n] = "none",
           calls[n] \notin Pulls \cup {"Readdir"}
    PROVE  fromDev = <<>>
<1>1. PICK r \in 0..Len(sent[n]) :
        /\ Follow(fromDev, calls[n], n, sent[n], final[n], r)
        /\ Delivered(calls[n], got[n], sent[n], r)
  BY Zenon DEF Link, Replies
<1>2. sent[n] = <<>>
  BY <1>1, Zenon DEF Delivered
<1>3. Len(sent[n]) = 0 /\ fromDev \in Seq(Messages) /\ r = 0
  BY <1>1, <1>2 DEF TypeOK, WireOK
<1>4. \A i \in 1..Len(fromDev) : FALSE
  BY <1>1, <1>3 DEF Follow
<1> QED BY <1>3, <1>4

LEMMA OrderWriteFails ==
    ASSUME TypeOK, Orderly, NEW n \in Calls, WriteFails(n)
    PROVE  Orderly'
<1>1. Live(n) /\ at[n] = "write" /\ (open => ~devUp)
  BY Zenon DEF WriteFails, Live
<1>2. ASSUME open PROVE fromDev = <<>>
  <2>1. Link(n) /\ calls[n] = "Push" /\ final[n] = "none"
    BY <1>1, <1>2, LiveFacts, Zenon DEF Link
  <2>2. "Push" \notin Pulls \cup {"Readdir"}
    BY DEF Pulls
  <2> QED BY <2>1, <2>2, NoReplyYet, Zenon
<1> QED BY <1>1, <1>2, OrderFails, Zenon DEF WriteFails

(* The next reply to call n is its next item or its last message.          *)
LEMMA NextReply ==
    ASSUME TypeOK, NEW n \in Calls, Link(n), fromDev # <<>>
    PROVE  \E r \in 0..Len(sent[n]) :
             /\ Follow(fromDev, calls[n], n, sent[n], final[n], r)
             /\ Delivered(calls[n], got[n], sent[n], r)
             /\ devUp => Len(fromDev) + r = Total(sent[n], final[n])
             /\ \/ /\ r + 1 \in 1..Len(sent[n])
                   /\ Reply = ItemOf(calls[n], n, sent[n][r + 1])
                \/ /\ r = Len(sent[n]) /\ Tail(fromDev) = <<>>
                   /\ final[n] # "none" /\ Reply.cmd = final[n] /\ Reply.call = n
<1>1. PICK r \in 0..Len(sent[n]) :
        /\ Follow(fromDev, calls[n], n, sent[n], final[n], r)
        /\ Delivered(calls[n], got[n], sent[n], r)
        /\ devUp => Len(fromDev) + r = Total(sent[n], final[n])
  BY Zenon DEF Link, Replies
<1>2. fromDev \in Seq(Messages) /\ Len(fromDev) > 0 /\ Reply = fromDev[1] /\ Len(fromDev) \in Nat
  BY HeadType, Zenon DEF Reply, TypeOK, WireOK
<1>3. sent[n] \in Seq(Items)
  BY Zenon DEF TypeOK, DeviceOK
<1>4. Len(sent[n]) \in Nat
  BY <1>3
<1>5. 1 \in 1..Len(fromDev)
  BY <1>2
<1>6. CASE r + 1 <= Len(sent[n])
  <2>1. r + 1 \in 1..Len(sent[n])
    BY <1>4, <1>6
  <2>2. Reply = ItemOf(calls[n], n, sent[n][r + 1])
    BY <1>1, <1>2, <1>5, <1>6, Zenon DEF Follow
  <2> QED BY <1>1, <2>1, <2>2, Zenon
<1>7. CASE ~(r + 1 <= Len(sent[n]))
  <2>1. r = Len(sent[n])
    BY <1>4, <1>7
  <2>2. final[n] # "none" /\ Reply.cmd = final[n] /\ Reply.call = n
    BY <1>1, <1>2, <1>5, <1>7, Zenon DEF Follow
  <2>3. ~(Len(fromDev) >= 2)
    <3> SUFFICES ASSUME Len(fromDev) >= 2 PROVE FALSE
      OBVIOUS
    <3>1. 2 \in 1..Len(fromDev) /\ ~(r + 2 <= Len(sent[n])) /\ r + 2 # Len(sent[n]) + 1
      BY <1>2, <1>4, <2>1
    <3> QED BY <1>1, <3>1, Zenon DEF Follow
  <2>4. Tail(fromDev) = <<>>
    <3>1. \A l \in Nat : l > 0 /\ ~(l >= 2) => l = 1
      OBVIOUS
    <3>2. Len(fromDev) = 1
      BY <1>2, <2>3, <3>1, Zenon
    <3> QED BY <1>2, <3>2
  <2> QED BY <1>1, <2>1, <2>2, <2>4, Zenon
<1> QED BY <1>6, <1>7, Zenon

LEMMA TookOwn ==
    ASSUME TypeOK, Orderly, NEW n \in Calls, Live(n), Take(n)
    PROVE  took'[n] \subseteq {n} /\ \A m \in Calls \ {n} : took'[m] = took[m]
<1>1. Link(n) /\ took[n] \subseteq {n} /\ fromDev # <<>>
  BY LiveFacts, Zenon DEF Take
<1>2. Reply.call = n
  <2>1. \A e : ItemOf(calls[n], n, e).call = n
    BY DEF ItemOf, Message
  <2> QED BY <1>1, <2>1, NextReply, Zenon
<1> QED BY <1>1, <1>2, Zenon DEF Take, Reply, TypeOK, CallsOK

(* The last message of a reply ends the call.                              *)
LEMMA OrderFinal ==
    ASSUME TypeOK, Orderly, NEW n \in Calls, Take(n), Leave, got' = got,
           Reply.cmd \notin {"DATA", "DENT"},
           NEW e \in {"ok", "error"}, Ends(n, e),
           /\ e = "ok" /\ calls[n] \in Pulls \cup {"Readdir"} => Reply.cmd = "DONE"
           /\ e = "ok" /\ calls[n] = "Push" => Reply.cmd = "OKAY"
    PROVE  Orderly'
<1>1. Live(n) /\ open /\ fromDev # <<>> /\ fromDev' = Tail(fromDev)
  BY Zenon DEF Take, Live
<1>2. Link(n)
  BY <1>1, LiveFacts, Zenon
<1>3. UNCHANGED <<calls, open, offset, size, toDev, devVars>>
  BY Zenon DEF Leave
<1>4. at'[n] = "done" /\ result'[n] = e
  BY Zenon DEF Ends, TypeOK, CallsOK
<1>5. \A m \in Calls \ {n} :
        /\ at'[m] = at[m] /\ result'[m] = result[m] /\ got'[m] = got[m]
        /\ took'[m] = took[m] /\ offset'[m] = offset[m] /\ size'[m] = size[m]
  <2>1. "done" \in {"write", "reply", "pipe", "done"}
    BY Zenon
  <2> QED BY <1>3, <2>1, OthersSame, Zenon DEF Ends, Take
<1>6. took'[n] \subseteq {n}
  BY <1>1, TookOwn, Zenon
<1>7. /\ Delivered(calls[n], got[n], sent[n], Len(sent[n])) /\ fromDev' = <<>>
      /\ final[n] # "none" /\ Reply.cmd = final[n]
  <2>1. \A i : ItemOf(calls[n], n, i).cmd \in {"DATA", "DENT"}
    BY DEF ItemOf, Message
  <2> QED BY <1>1, <1>2, <2>1, NextReply, Zenon
<1>8. devUp => toDev = <<>> /\ task = Idle
  BY <1>2, <1>7, Zenon DEF Link, Requests
<1>9. Quiet'
  BY <1>3, <1>7, <1>8, Zenon DEF Quiet, devVars
<1>10. Serving'
  <2>1. \A i \in 1..Len(<<>>) : FALSE
    OBVIOUS
  <2> QED BY <1>3, <1>8, <2>1, Zenon DEF Serving, devVars
<1>11. Told(n)'
  <2>1. sent[n] \in Seq(Items) /\ got[n] \in Seq(Items)
    BY Zenon DEF TypeOK, DeviceOK, CallsOK
  <2>2. Len(sent[n]) \in Nat
    BY <2>1
  <2>3. calls[n] \in Pulls =>
          /\ Len(got[n]) = Len(sent[n]) /\ Len(got[n]) <= Len(sent[n])
          /\ \A i \in 1..Len(got[n]) : got[n][i] = sent[n][i]
    BY <1>7, <2>2 DEF Delivered
  <2>4. calls[n] = "Readdir" => Lists(got[n], Entries(sent[n], Len(sent[n])))
    BY <1>7, Zenon DEF Delivered
  <2>5. calls[n] = "Push" /\ final[n] = "OKAY" => stored[n] = Content(0, size[n])
    BY <1>2, Zenon DEF Link
  <2> QED BY <1>3, <1>4, <1>7, <2>3, <2>4, <2>5, Zenon DEF Told, devVars
<1>12. at'[n] # "off"
  BY <1>4, Zenon
<1> QED BY <1>1, <1>3, <1>4, <1>5, <1>6, <1>9, <1>10, <1>11, <1>12, StepFrame, Zenon

LEMMA OrderEnds ==
    ASSUME TypeOK, Orderly, NEW n \in Calls,
           StatReply(n) \/ ReaddirEnds(n) \/ ReadFinalReply(n) \/ ReadDataEnds(n)
    PROVE  Orderly'
<1>1. \A c : (IF c THEN "ok" ELSE "error") \in {"ok", "error"}
      /\ ((IF c THEN "ok" ELSE "error") = "ok" => c)
  OBVIOUS
<1>2. Reply.cmd \notin {"DATA", "DENT"}
  BY DEF StatReply, ReaddirEnds, ReadFinalReply, ReadDataEnds
<1>3. CASE StatReply(n)
  <2>1. "Stat" \notin Pulls \cup {"Readdir"} /\ "Stat" # "Push"
    BY DEF Pulls
  <2> QED BY <1>1, <1>2, <1>3, <2>1, OrderFinal, Zenon DEF StatReply
<1>4. CASE ReaddirEnds(n)
  <2>1. "Readdir" # "Push"
    OBVIOUS
  <2> QED BY <1>1, <1>2, <1>4, <2>1, OrderFinal, Zenon DEF ReaddirEnds
<1>5. CASE ReadFinalReply(n)
  <2>1. "Push" \notin Pulls \cup {"Readdir"}
    BY DEF Pulls
  <2> QED BY <1>1, <1>2, <1>5, <2>1, OrderFinal, Zenon DEF ReadFinalReply
<1>6. CASE ReadDataEnds(n)
  <2>1. "Push" \notin Pulls
    BY DEF Pulls
  <2> QED BY <1>1, <1>2, <1>6, <2>1, OrderFinal, Zenon DEF ReadDataEnds
<1> QED BY <1>3, <1>4, <1>5, <1>6, Zenon

LEMMA ListsMore ==
    ASSUME NEW M, NEW q \in Seq(M), NEW K, NEW e \in M, Lists(q, K), \A k \in K : k < e,
           NEW p, p = q \o <<e>>, NEW J, J = K \cup {e}
    PROVE  Lists(p, J)
<1>1. /\ Len(q) \in Nat /\ Len(p) = Len(q) + 1 /\ p[Len(q) + 1] = e
      /\ \A i \in 1..Len(q) : p[i] = q[i]
  OBVIOUS
<1>2. \A i \in 1..Len(p) : i \in 1..Len(q) \/ i = Len(q) + 1
  BY <1>1
<1>3. \A i \in 1..Len(q) : i \in 1..Len(p)
  BY <1>1
<1>4. Len(q) + 1 \in 1..Len(p)
  BY <1>1
<1>5. ASSUME NEW i \in 1..Len(p), NEW j \in 1..Len(p), i < j PROVE p[i] < p[j]
  <2>1. i \in 1..Len(q)
    BY <1>1, <1>5
  <2>2. p[i] = q[i] /\ q[i] \in K
    BY <1>1, <2>1, Zenon DEF Lists
  <2>3. CASE j \in 1..Len(q)
    BY <1>1, <1>5, <2>1, <2>3, Zenon DEF Lists
  <2>4. CASE j = Len(q) + 1
    BY <1>1, <2>2, <2>4, Zenon
  <2> QED BY <1>2, <2>3, <2>4, Zenon
<1>6. {p[i] : i \in 1..Len(p)} = J
  <2>1. ASSUME NEW x PROVE x \in {p[i] : i \in 1..Len(p)} <=> x \in J
    <3>1. x \in K <=> \E i \in 1..Len(q) : x = q[i]
      BY Zenon DEF Lists
    <3>2. (\E i \in 1..Len(p) : x = p[i]) <=> (\E i \in 1..Len(q) : x = q[i]) \/ x = e
      BY <1>1, <1>2, <1>3, <1>4, Zenon
    <3> QED BY <3>1, <3>2, Zenon
  <2> QED BY <2>1, Zenon
<1> QED BY <1>5, <1>6, Zenon DEF Lists

LEMMA TailCount ==
    ASSUME NEW M, NEW q \in Seq(M), q # <<>>, NEW r \in Nat
    PROVE  Len(Tail(q)) + (r + 1) = Len(q) + r
OBVIOUS

LEMMA FollowTail ==
    ASSUME NEW M, NEW q \in Seq(M), q # <<>>, NEW k, NEW n, NEW N, NEW items \in Seq(N),
           NEW last, NEW r \in Nat, Follow(q, k, n, items, last, r)
    PROVE  Follow(Tail(q), k, n, items, last, r + 1)
<1>1. \A i \in 1..Len(Tail(q)) : Tail(q)[i] = q[i + 1] /\ i + 1 \in 1..Len(q) /\ i \in Nat
  <2>1. \A i \in 1..Len(Tail(q)) : Tail(q)[i] = q[i + 1] /\ i + 1 \in 1..Len(q)
    BY HeadType, Zenon
  <2> QED BY <2>1
<1> SUFFICES ASSUME NEW i \in 1..Len(Tail(q))
             PROVE  IF (r + 1) + i <= Len(items)
                      THEN Tail(q)[i] = ItemOf(k, n, items[(r + 1) + i])
                      ELSE /\ (r + 1) + i = Len(items) + 1
                           /\ last # "none" /\ Tail(q)[i].cmd = last /\ Tail(q)[i].call = n
  BY Zenon DEF Follow
<1>2. (r + 1) + i = r + (i + 1)
  BY <1>1
<1> QED BY <1>1, <1>2, Zenon DEF Follow

(* One more item reaches call n.                                           *)
LEMMA OrderItem ==
    ASSUME TypeOK, Orderly, NEW n \in Calls, Take(n), Leave, result' = result,
           calls[n] \in Pulls \cup {"Readdir"}, Reply.cmd \in {"DATA", "DENT"},
           at'[n] \in {"reply", "pipe"}, at'[n] = "pipe" => calls[n] \in Pulls,
           at' = at \/ \E v \in {"write", "reply", "pipe", "done"} : at' = [at EXCEPT ![n] = v],
           \E g : got' = [got EXCEPT ![n] = g],
           \A r \in Nat :
             /\ r + 1 \in 1..Len(sent[n]) /\ Delivered(calls[n], got[n], sent[n], r)
             /\ Reply = ItemOf(calls[n], n, sent[n][r + 1])
             => Delivered(calls[n], got'[n], sent[n], r + 1)
    PROVE  Orderly'
<1>1. Live(n) /\ open /\ fromDev # <<>> /\ fromDev' = Tail(fromDev)
  BY Zenon DEF Take, Live
<1>2. Link(n) /\ result'[n] # "ok" /\ calls[n] \in Kinds
  BY <1>1, LiveFacts, Zenon
<1>3. UNCHANGED <<calls, open, offset, size, toDev, devVars>>
  BY Zenon DEF Leave
<1>4. \A m \in Calls \ {n} :
        /\ at'[m] = at[m] /\ result'[m] = result[m] /\ got'[m] = got[m]
        /\ took'[m] = took[m] /\ offset'[m] = offset[m] /\ size'[m] = size[m]
  BY <1>3, OthersSame, Zenon DEF Take
<1>5. took'[n] \subseteq {n}
  BY <1>1, TookOwn, Zenon
<1>6. Serving'
  BY <1>1, <1>2, <1>3, <1>4, ServingClient, Zenon
<1>t. sent[n] \in Seq(Items) /\ fromDev \in Seq(Messages)
  BY Zenon DEF TypeOK, DeviceOK, WireOK
<1>7. PICK r \in 0..Len(sent[n]) :
        /\ Follow(fromDev, calls[n], n, sent[n], final[n], r)
        /\ Delivered(calls[n], got[n], sent[n], r)
        /\ devUp => Len(fromDev) + r = Total(sent[n], final[n])
        /\ r + 1 \in 1..Len(sent[n])
        /\ Reply = ItemOf(calls[n], n, sent[n][r + 1])
  <2>1. final[n] # Reply.cmd
    <3>1. final[n] \in {"none", "STAT", "FAIL", "OKAY", "DONE"}
      BY <1>2 DEF Link, Finals
    <3> QED BY <3>1
  <2> QED BY <1>1, <1>2, <2>1, NextReply, Zenon
<1>8. Len(sent[n]) \in Nat /\ r \in Nat /\ r + 1 \in 0..Len(sent[n])
  BY <1>t, <1>7
<1>9. Delivered(calls[n], got'[n], sent[n], r + 1)
  BY <1>7, <1>8, Zenon
<1>10. Replies(n)'
  <2>1. Follow(Tail(fromDev), calls[n], n, sent[n], final[n], r + 1)
    BY <1>1, <1>t, <1>7, <1>8, FollowTail, Zenon
  <2>2. devUp => Len(Tail(fromDev)) + (r + 1) = Total(sent[n], final[n])
    <3>1. fromDev # <<>> /\ r \in Nat
      BY <1>1, <1>8
    <3>2. Len(Tail(fromDev)) + (r + 1) = Len(fromDev) + r
      BY <1>t, <3>1, TailCount, Zenon
    <3>3. devUp => Len(fromDev) + r = Total(sent[n], final[n])
      BY <1>7
    <3> QED BY <3>2, <3>3, Zenon
  <2>3. \E s \in 0..Len(sent[n]) :
          /\ Follow(fromDev', calls[n], n, sent[n], final[n], s)
          /\ Delivered(calls[n], got'[n], sent[n], s)
          /\ devUp => Len(fromDev') + s = Total(sent[n], final[n])
    BY <1>1, <1>8, <1>9, <2>1, <2>2, Zenon
  <2> QED BY <1>3, <2>3, Zenon DEF Replies, devVars
<1>11. Told(n)'
  <2>1. calls[n] \in Pulls => /\ Len(got'[n]) = r + 1
                              /\ \A i \in 1..(r + 1) : got'[n][i] = sent[n][i]
    BY <1>9, Zenon DEF Delivered
  <2>2. r + 1 <= Len(sent[n])
    BY <1>7, <1>8
  <2> QED BY <1>2, <1>3, <2>1, <2>2, ToldUnfinished, Zenon DEF devVars
<1>12. calls[n] # "Push"
  BY DEF Pulls
<1>13. Link(n)'
  <2>1. devUp => Requests(n)'
    <3>1. at[n] \notin {"source", "write"}
      BY <1>2, <1>12, Zenon DEF Link
    <3>2. \A q : Pending(n, q) => q = <<>>
      BY <1>12, Zenon DEF Pending, Body
    <3>3. Body(calls[n], at'[n], n, stored[n], offset[n], <<>>)
      BY <1>12, Zenon DEF Body
    <3>4. devUp => Requests(n)
      BY <1>2, Zenon DEF Link
    <3> QED BY <1>3, <3>2, <3>3, <3>4, Zenon DEF Requests, Pending, Request, devVars
  <2>2. at[n] = "reply" /\ offset[n] <= size[n] /\ offset[n] = size[n]
    BY <1>2, Zenon DEF Link, Take
  <2>3. final[n] \in {"none"} \cup Finals(calls[n])
    BY <1>2, Zenon DEF Link
  <2>4. at'[n] \notin {"source", "write"}
    OBVIOUS
  <2> QED BY <1>3, <1>10, <1>12, <2>1, <2>2, <2>3, <2>4, Zenon DEF Link, devVars
<1>14. at'[n] # "off" /\ at'[n] # "done"
  OBVIOUS
<1> QED BY <1>1, <1>2, <1>3, <1>4, <1>5, <1>6, <1>11, <1>13, <1>14, StepFrame, Zenon

LEMMA OrderEntry ==
    ASSUME TypeOK, Orderly, NEW n \in Calls, ReaddirEntry(n)
    PROVE  Orderly'
<1>1. /\ Take(n) /\ Leave /\ result' = result /\ at' = at /\ at[n] = "reply"
      /\ calls[n] = "Readdir" /\ Reply.cmd = "DENT"
      /\ got' = [got EXCEPT ![n] = IF Reply.data = <<0>> THEN @ ELSE @ \o Reply.data]
  BY Zenon DEF ReaddirEntry, Take
<1>2. got[n] \in Seq(Items) /\ sent[n] \in Seq(Items)
      /\ got'[n] = IF Reply.data = <<0>> THEN got[n] ELSE got[n] \o Reply.data
  BY <1>1, Zenon DEF TypeOK, CallsOK, DeviceOK
<1>3. ASSUME NEW r \in Nat, r + 1 \in 1..Len(sent[n]),
             Delivered(calls[n], got[n], sent[n], r),
             Reply = ItemOf(calls[n], n, sent[n][r + 1])
      PROVE  Delivered(calls[n], got'[n], sent[n], r + 1)
  <2>1. PICK e : e = sent[n][r + 1]
    BY Zenon
  <2>2. e \in Items /\ e \in {0, r + 1}
    <3>1. sent[n][r + 1] \in Items
      BY <1>2, <1>3
    <3> QED BY <1>3, <2>1, <3>1, Zenon DEF Orderly, Listed
  <2>3. Reply.data = <<e>>
    BY <1>3, <2>1 DEF ItemOf, Message
  <2>4. Lists(got[n], Entries(sent[n], r))
    BY <1>1, <1>3, Zenon DEF Delivered
  <2>5. \A i : i \in 1..(r + 1) <=> i \in 1..r \/ i = r + 1
    OBVIOUS
  <2>6. \A i \in 1..r : i < r + 1
    OBVIOUS
  <2>7. Lists(got'[n], Entries(sent[n], r + 1))
    <3>1. CASE e = 0
      <4>1. Entries(sent[n], r + 1) = Entries(sent[n], r)
        <5>1. ASSUME NEW i PROVE i \in Entries(sent[n], r + 1) <=> i \in Entries(sent[n], r)
          BY <2>1, <2>5, <3>1, Zenon DEF Entries
        <5> QED BY <5>1, Zenon
      <4> QED BY <1>2, <2>3, <2>4, <3>1, <4>1, Zenon
    <3>2. CASE e # 0
      <4>1. Entries(sent[n], r + 1) = Entries(sent[n], r) \cup {e}
        <5>0. e = r + 1
          BY <2>2, <3>2, Zenon
        <5>1. ASSUME NEW i
              PROVE  i \in Entries(sent[n], r + 1) <=> i \in Entries(sent[n], r) \cup {e}
          BY <2>1, <2>5, <3>2, <5>0, Zenon DEF Entries
        <5> QED BY <5>1, Zenon
      <4>2. \A k \in Entries(sent[n], r) : k < e
        BY <2>2, <2>6, <3>2, Zenon DEF Entries
      <4>3. Reply.data # <<0>>
        BY <2>3, <3>2
      <4>4. got'[n] = got[n] \o <<e>>
        BY <1>2, <2>3, <4>3, Zenon
      <4>5. got[n] \in Seq(Items) /\ e \in Items
        BY <1>2, <2>2
      <4>6. \A p, J : p = got[n] \o <<e>> /\ J = Entries(sent[n], r) \cup {e} => Lists(p, J)
        BY <2>4, <4>2, <4>5, ListsMore, Zenon
      <4> QED BY <4>1, <4>4, <4>6, Zenon
    <3> QED BY <3>1, <3>2, Zenon
  <2>8. "Readdir" \notin Pulls
    BY DEF Pulls
  <2> QED BY <1>1, <2>7, <2>8, Zenon DEF Delivered
<1>4. calls[n] \in Pulls \cup {"Readdir"} /\ Reply.cmd \in {"DATA", "DENT"}
      /\ at'[n] \in {"reply", "pipe"} /\ at'[n] # "pipe"
  BY <1>1, Zenon
<1>5. \E g : got' = [got EXCEPT ![n] = g]
  BY <1>1, Zenon
<1> QED BY <1>1, <1>3, <1>4, <1>5, OrderItem, Zenon

LEMMA OrderData ==
    ASSUME TypeOK, Orderly, NEW n \in Calls, ReadDataChunk(n)
    PROVE  Orderly'
<1>1. /\ Take(n) /\ Leave /\ result' = result /\ at' = [at EXCEPT ![n] = "pipe"]
      /\ calls[n] \in Pulls /\ Reply.cmd = "DATA"
      /\ got' = [got EXCEPT ![n] = @ \o Reply.data]
  BY Zenon DEF ReadDataChunk, Continue
<1>2. got[n] \in Seq(Items) /\ sent[n] \in Seq(Items) /\ got'[n] = got[n] \o Reply.data
      /\ at'[n] = "pipe"
  BY <1>1, Zenon DEF TypeOK, CallsOK, DeviceOK
<1>3. ASSUME NEW r \in Nat, r + 1 \in 1..Len(sent[n]),
             Delivered(calls[n], got[n], sent[n], r),
             Reply = ItemOf(calls[n], n, sent[n][r + 1])
      PROVE  Delivered(calls[n], got'[n], sent[n], r + 1)
  <2>1. PICK e \in Items : e = sent[n][r + 1]
    BY <1>2, <1>3
  <2>2. Reply.data = <<e>>
    BY <1>3, <2>1 DEF ItemOf, Message
  <2>3. Len(got[n]) = r /\ \A i \in 1..r : got[n][i] = sent[n][i]
    BY <1>1, <1>3, Zenon DEF Delivered
  <2>4. got'[n] = got[n] \o <<e>>
    BY <1>2, <2>2, Zenon
  <2>5. /\ Len(got[n] \o <<e>>) = Len(got[n]) + 1 /\ (got[n] \o <<e>>)[Len(got[n]) + 1] = e
        /\ \A i \in 1..Len(got[n]) : (got[n] \o <<e>>)[i] = got[n][i]
    BY <1>2
  <2>6. \A i \in 1..(r + 1) : i \in 1..r \/ i = r + 1
    OBVIOUS
  <2>7. Len(got'[n]) = r + 1 /\ \A i \in 1..(r + 1) : got'[n][i] = sent[n][i]
    BY <2>1, <2>3, <2>4, <2>5, <2>6, Zenon
  <2>8. calls[n] # "Readdir"
    BY <1>1 DEF Pulls
  <2> QED BY <1>1, <2>7, <2>8, Zenon DEF Delivered
<1>4. calls[n] \in Pulls \cup {"Readdir"} /\ Reply.cmd \in {"DATA", "DENT"}
      /\ at'[n] \in {"reply", "pipe"} /\ "pipe" \in {"write", "reply", "pipe", "done"}
  BY <1>1, <1>2, Zenon
<1>5. \E g : got' = [got EXCEPT ![n] = g]
  BY <1>1, Zenon
<1> QED BY <1>1, <1>3, <1>4, <1>5, OrderItem, Zenon

(* While no reply was left behind, none is unexpected.                     *)
LEMMA NoneUnexpected ==
    ASSUME TypeOK, Orderly, NEW n \in Calls, UnexpectedReply(n)
    PROVE  FALSE
<1>1. Live(n) /\ open /\ fromDev # <<>> /\ Reply.cmd \notin Expected(calls[n])
  BY Zenon DEF UnexpectedReply, Live
<1>2. Link(n) /\ calls[n] \in Kinds
  BY <1>1, LiveFacts, Zenon
<1>3. PICK r \in 0..Len(sent[n]) :
        /\ Delivered(calls[n], got[n], sent[n], r)
        /\ \/ r + 1 \in 1..Len(sent[n]) /\ Reply = ItemOf(calls[n], n, sent[n][r + 1])
           \/ final[n] # "none" /\ Reply.cmd = final[n]
  BY <1>1, <1>2, NextReply, Zenon
<1>4. CASE r + 1 \in 1..Len(sent[n]) /\ Reply = ItemOf(calls[n], n, sent[n][r + 1])
  <2>1. sent[n] # <<>>
    BY <1>4
  <2>2. calls[n] \in Pulls \cup {"Readdir"}
    BY <1>3, <2>1, Zenon DEF Delivered
  <2>3. Reply.cmd = IF calls[n] \in Pulls THEN "DATA" ELSE "DENT"
    BY <1>4 DEF ItemOf, Message
  <2> QED BY <1>1, <2>2, <2>3 DEF Expected, Pulls
<1>5. CASE final[n] # "none" /\ Reply.cmd = final[n]
  <2>1. final[n] \in Finals(calls[n])
    BY <1>2, <1>5, Zenon DEF Link
  <2> QED BY <1>1, <1>2, <1>5, <2>1 DEF Finals, Expected, Kinds, Pulls
<1> QED BY <1>3, <1>4, <1>5, Zenon

LEMMA OrderReadError ==
    ASSUME TypeOK, Orderly, NEW n \in Calls, ReadError(n)
    PROVE  Orderly'
<1>1. /\ Live(n) /\ (open => ~devUp /\ fromDev = <<>>)
      /\ UNCHANGED <<calls, offset, size, got, took, open, toDev, fromDev, devVars>>
  BY Zenon DEF ReadError, Leave, Live
<1>2. PICK e \in {"ok", "error"} : Ends(n, e) /\ (e = "ok" => open /\ calls[n] \in Pulls)
  BY Zenon DEF ReadError
<1>3. CASE e = "error"
  BY <1>1, <1>2, <1>3, OrderFails, Zenon
<1>4. CASE e = "ok"
  <2>1. at'[n] = "done" /\ result'[n] = "ok" /\ open /\ ~devUp /\ calls[n] \in Pulls
    BY <1>1, <1>2, <1>4, Zenon DEF Ends, TypeOK, CallsOK
  <2>2. \A m \in Calls \ {n} :
          /\ at'[m] = at[m] /\ result'[m] = result[m] /\ got'[m] = got[m]
          /\ took'[m] = took[m] /\ offset'[m] = offset[m] /\ size'[m] = size[m]
    <3>1. "done" \in {"write", "reply", "pipe", "done"}
      BY Zenon
    <3> QED BY <1>1, <1>2, <3>1, OthersSame, Zenon DEF Ends
  <2>3. took'[n] \subseteq {n} /\ n \in 1..Len(calls)
    BY <1>1, LiveFacts, Zenon
  <2>4. Serving'
    BY <1>1, <2>1, Zenon DEF Serving, devVars
  <2>5. Told(n)'
    <3>1. Told(n)
      BY <2>3, Zenon DEF Orderly, AllTold
    <3>2. calls[n] # "Readdir" /\ calls[n] # "Push"
      BY <2>1 DEF Pulls
    <3> QED BY <1>1, <2>1, <3>1, <3>2, Zenon DEF Told, devVars
  <2>6. Quiet'
    BY <1>1, <2>1, Zenon DEF Quiet, devVars
  <2>7. at'[n] # "off"
    BY <2>1, Zenon
  <2> QED BY <1>1, <2>1, <2>2, <2>3, <2>4, <2>5, <2>6, <2>7, StepFrame, Zenon
<1> QED BY <1>3, <1>4, Zenon

LEMMA OrderPipeRead ==
    ASSUME TypeOK, Orderly, NEW n \in Calls, PipeRead(n)
    PROVE  Orderly'
<1>1. /\ Live(n) /\ at[n] = "pipe" /\ at' = [at EXCEPT ![n] = "reply"]
      /\ UNCHANGED <<calls, offset, size, got, took, result, open, toDev, fromDev, devVars>>
  BY Zenon DEF PipeRead, Leave, Live
<1>2. at'[n] = "reply"
  BY <1>1, Zenon DEF TypeOK, CallsOK
<1>3. \A m \in Calls \ {n} :
        /\ at'[m] = at[m] /\ result'[m] = result[m] /\ got'[m] = got[m]
        /\ took'[m] = took[m] /\ offset'[m] = offset[m] /\ size'[m] = size[m]
  <2>1. "reply" \in {"write", "reply", "pipe", "done"}
    BY Zenon
  <2> QED BY <1>1, <2>1, OthersSame, Zenon
<1>4. took'[n] \subseteq {n} /\ result'[n] # "ok"
  BY <1>1, LiveFacts, Zenon
<1>5. Serving'
  BY <1>1, <1>3, <1>4, ServingClient, Zenon
<1>6. Told(n)'
  BY <1>1, <1>4, ToldKept, Zenon
<1>7. ASSUME open PROVE Link(n)'
  <2>1. Link(n) /\ calls[n] \in Pulls
    BY <1>1, <1>7, LiveFacts, Zenon DEF Link
  <2>2. Replies(n)'
    BY <1>1, <2>1, RepliesSame, Zenon DEF Link
  <2>3. calls[n] # "Push"
    BY <2>1 DEF Pulls
  <2>4. devUp => Requests(n)'
    <3>1. devUp => Requests(n)
      BY <2>1, Zenon DEF Link
    <3>2. \A q, p, w : Body(calls[n], p, n, stored[n], offset[n], q)
                         => Body(calls[n], w, n, stored[n], offset[n], q)
      BY <2>3, Zenon DEF Body
    <3> QED BY <1>1, <1>2, <3>1, <3>2, Zenon DEF Requests, Pending, Request, devVars
  <2> QED BY <1>1, <1>2, <2>1, <2>2, <2>3, <2>4, Zenon DEF Link, devVars
<1>8. at'[n] # "off" /\ at'[n] # "done"
  BY <1>2, Zenon
<1> QED BY <1>1, <1>3, <1>4, <1>5, <1>6, <1>7, <1>8, StepFrame, Zenon

NewCall(n, k) == n = Len(calls) + 1 /\ calls' = Append(calls, k)

(* A new call: what the other calls are at and were told stays.            *)
LEMMA OthersKept ==
    ASSUME TypeOK, Orderly, NEW k \in Kinds, NEW n \in Calls, NewCall(n, k),
           \A m \in Calls \ {n} : at'[m] = at[m] /\ result'[m] = result[m],
           UNCHANGED <<offset, size, got, took, devVars>>, at'[n] # "off", result'[n] # "ok"
    PROVE  /\ Numbered' /\ OwnOnly' /\ Listed' /\ AllTold' /\ Blank(n)
           /\ \A m \in 1..Len(calls) : calls'[m] = calls[m] /\ m \in 1..Len(calls') /\ m # n
           /\ calls'[n] = k /\ n \in 1..Len(calls')
<1>1. calls \in Seq(Kinds) /\ Len(calls) \in Nat
  BY CallsFacts, Zenon DEF TypeOK, CallsOK
<1>2. /\ \A m \in 1..Len(calls) : calls'[m] = calls[m] /\ m \in 1..Len(calls') /\ m # n
      /\ calls'[n] = k /\ n \in 1..Len(calls')
  BY <1>1 DEF NewCall
<1>3. Len(calls') = Len(calls) + 1 /\ n = Len(calls) + 1
  BY <1>1 DEF NewCall
<1>4. \A m \in Calls : m # n => (m <= Len(calls') <=> m <= Len(calls))
  BY <1>1, <1>3, MaxCallsAssumption DEF Calls
<1>5. n <= Len(calls') /\ ~(n <= Len(calls))
  BY <1>1, <1>3
<1>6. Blank(n)
  BY <1>5, Zenon DEF Orderly, Numbered
<1>7. Numbered'
  <2> SUFFICES ASSUME NEW m \in Calls
               PROVE  IF m <= Len(calls') THEN at'[m] # "off"
                                          ELSE at'[m] = "off" /\ Blank(m)'
    BY Zenon DEF Numbered
  <2>1. CASE m = n
    BY <1>5, <2>1, Zenon
  <2>2. CASE m # n
    <3>1. IF m <= Len(calls) THEN at[m] # "off" ELSE at[m] = "off" /\ Blank(m)
      BY Zenon DEF Orderly, Numbered
    <3>2. at'[m] = at[m] /\ (Blank(m) => Blank(m)')
      BY <2>2, Zenon DEF Blank, devVars
    <3> QED BY <1>4, <2>2, <3>1, <3>2, Zenon
  <2> QED BY <2>1, <2>2, Zenon
<1>8. OwnOnly'
  BY Zenon DEF Orderly, OwnOnly
<1>9. Listed'
  BY Zenon DEF Orderly, Listed, devVars
<1>10. AllTold'
  <2> SUFFICES ASSUME NEW m \in 1..Len(calls') PROVE Told(m)'
    BY Zenon DEF AllTold
  <2>1. m \in 1..Len(calls) \/ m = n
    BY <1>1, <1>3
  <2>2. CASE m = n
    <3>1. Len(<<>>) <= Len(<<>>) /\ \A i \in 1..Len(<<>>) : FALSE
      OBVIOUS
    <3> QED BY <1>6, <2>2, <3>1, ToldUnfinished, Zenon DEF Blank, devVars
  <2>3. CASE m \in 1..Len(calls)
    <3>1. m \in Calls \ {n} /\ Told(m) /\ calls'[m] = calls[m]
      BY <1>2, <2>3, CallsFacts, Zenon DEF Orderly, AllTold
    <3> QED BY <3>1, ToldSame, Zenon DEF devVars
  <2> QED BY <2>1, <2>2, <2>3, Zenon
<1> QED BY <1>2, <1>6, <1>7, <1>8, <1>9, <1>10, Zenon

LEMMA OrderBegin ==
    ASSUME TypeOK, Orderly, NEW k \in Kinds, Begin(k), ~abandoned', ~devUp => toDev = <<>>
    PROVE  Orderly'
<1>n. PICK n \in Calls : n = Len(calls) + 1
  BY Zenon DEF Begin
<1>1. /\ open /\ open' = open /\ calls' = Append(calls, k)
      /\ at' = [at EXCEPT ![n] = IF k = "Push" THEN "source" ELSE "reply"]
      /\ Send(Message(Identifier(k), n, <<>>))
      /\ \A i \in 1..Len(calls) : at[i] = "done"
      /\ UNCHANGED <<offset, size, got, took, result, fromDev, devVars>>
  BY <1>n, Zenon DEF Begin
<1>2. at'[n] = (IF k = "Push" THEN "source" ELSE "reply")
      /\ \A m \in Calls \ {n} : at'[m] = at[m] /\ result'[m] = result[m]
  BY <1>1, Zenon DEF TypeOK, CallsOK
<1>3. \A m \in Calls : ~Live(m)
  <2> TAKE m \in Calls
  <2>1. CASE m <= Len(calls)
    BY <1>1, <2>1, CallsFacts, Zenon DEF Live
  <2>2. CASE ~(m <= Len(calls))
    BY <2>2, Zenon DEF Orderly, Numbered, Live
  <2> QED BY <2>1, <2>2, Zenon
<1>4. Quiet
  BY <1>1, <1>3, Zenon DEF Orderly, Resting
<1>5. at'[n] # "off" /\ at'[n] # "done" /\ at'[n] # "pipe" /\ at'[n] # "write"
  BY <1>2
<1>6. result'[n] # "ok"
  <2>1. Len(calls) \in Nat
    BY CallsFacts, Zenon
  <2>2. ~(n <= Len(calls))
    BY <1>n, <2>1
  <2>3. result[n] = "none"
    BY <2>2, Zenon DEF Orderly, Numbered, Blank
  <2> QED BY <1>1, <2>3
<1>7. /\ Numbered' /\ OwnOnly' /\ Listed' /\ AllTold' /\ Blank(n)
      /\ \A m \in 1..Len(calls) : calls'[m] = calls[m] /\ m \in 1..Len(calls') /\ m # n
      /\ calls'[n] = k /\ n \in 1..Len(calls')
  <2>1. NewCall(n, k) /\ UNCHANGED <<offset, size, got, took, devVars>>
    BY <1>n, <1>1, Zenon DEF NewCall
  <2>2. \A m \in Calls \ {n} : at'[m] = at[m] /\ result'[m] = result[m]
    BY <1>2
  <2> QED BY <2>1, <2>2, <1>5, <1>6, OthersKept, Zenon
<1>8. \A m \in Calls \ {n} : ~Live(m)'
  BY <1>2, <1>3, Zenon DEF Live
<1>9. OneLive'
  BY <1>8, Zenon DEF OneLive
<1>10. Resting'
  BY <1>5, Zenon DEF Resting, Live
<1>11. PICK x : x = Message(Identifier(k), n, <<>>)
  BY Zenon
<1>12. devUp => toDev' = <<x>>
  <2>1. Append(<<>>, x) = <<x>>
    OBVIOUS
  <2> QED BY <1>1, <1>4, <1>11, <2>1, Zenon DEF Send, Quiet
<1>13. Serving'
  <2>1. x.call = n
    BY <1>11 DEF Message
  <2>2. \A i \in 1..Len(<<x>>) : <<x>>[i] = x
    OBVIOUS
  <2>3. devUp => task = Idle
    BY <1>4, Zenon DEF Quiet
  <2> QED BY <1>1, <1>6, <1>7, <1>12, <2>1, <2>2, <2>3, Zenon DEF Serving, Unfinished, devVars
<1>14. Link(n)'
  <2>1. /\ offset'[n] = 0 /\ size'[n] = 0 /\ got'[n] = <<>> /\ sent'[n] = <<>>
        /\ final'[n] = "none" /\ stored'[n] = <<>> /\ fromDev' = <<>>
    BY <1>1, <1>4, <1>7, Zenon DEF Blank, Quiet, devVars
  <2>2. Replies(n)'
    <3>1. /\ 0 \in 0..Len(<<>>) /\ Len(<<>>) = 0
          /\ \A i \in 1..Len(<<>>) : FALSE
          /\ \A i \in 1..0 : FALSE
      OBVIOUS
    <3>2. \A last : Follow(<<>>, k, n, <<>>, last, 0)
      BY <3>1, Zenon DEF Follow
    <3>3. Delivered(k, <<>>, <<>>, 0)
      <4>1. Entries(<<>>, 0) = {}
        BY <3>1, Zenon DEF Entries
      <4>2. Lists(<<>>, {})
        BY <3>1, Zenon DEF Lists
      <4> QED BY <3>1, <4>1, <4>2, Zenon DEF Delivered
    <3>4. Len(<<>>) + 0 = Total(<<>>, "none")
      BY DEF Total
    <3> QED BY <1>7, <2>1, <3>1, <3>2, <3>3, <3>4, Zenon DEF Replies
  <2>3. devUp => Requests(n)'
    <3>1. <<x>> # <<>> /\ Head(<<x>>) = x /\ Tail(<<x>>) = <<>> /\ Len(<<>>) = 0
      OBVIOUS
    <3>2. Body(k, at'[n], n, <<>>, 0, <<>>)
      <4>1. CASE k # "Push"
        BY <4>1, Zenon DEF Body
      <4>2. CASE k = "Push"
        <5>1. <<>> = Content(0, 0) /\ 0 \in Items
          BY MaxItemsAssumption DEF Content, Items
        <5>2. Chunked(<<>>, 0, n, 0, 0)
          <6> DEFINE w == [i \in 0..0 |-> 0]
          <6>1. w \in [0..0 -> Items] /\ w[0] = 0 /\ \A i \in 1..0 : FALSE
            BY <5>1
          <6> QED BY <6>1, Zenon DEF Chunked
        <5>3. at'[n] = "source" /\ "source" # "reply"
          BY <1>2, <4>2
        <5> QED BY <3>1, <4>2, <5>1, <5>2, <5>3, Zenon DEF Body
      <4> QED BY <4>1, <4>2, Zenon
    <3>3. devUp => task = Idle
      BY <1>4, Zenon DEF Quiet
    <3>4. Pending(n, Tail(toDev))' <=> Body(k, at'[n], n, <<>>, 0, Tail(toDev'))
      BY <1>7, <2>1, Zenon DEF Pending
    <3>5. Request(n)' = x
      BY <1>7, <1>11, Zenon DEF Request
    <3> QED BY <1>1, <1>12, <2>1, <3>1, <3>2, <3>3, <3>4, <3>5, Zenon DEF Requests, devVars
  <2>4. at'[n] \in {"source", "write"} => k = "Push"
    BY <1>2
  <2>5. offset'[n] <= size'[n] /\ final'[n] # "OKAY"
    BY <2>1
  <2> QED BY <1>1, <1>5, <1>7, <2>1, <2>2, <2>3, <2>4, <2>5, Zenon DEF Link, devVars
<1>15. Linked'
  BY <1>8, <1>14, Zenon DEF Linked
<1> QED BY <1>7, <1>9, <1>10, <1>13, <1>15, Zenon DEF Orderly

LEMMA LinkSame ==
    ASSUME NEW m, Link(m), calls'[m] = calls[m], at'[m] = at[m],
           UNCHANGED <<offset, size, got, toDev, fromDev, devUp, task, sent, final, stored>>
    PROVE  Link(m)'
BY Zenon DEF Link, Replies, Requests, Pending, Request

LEMMA OrderBeginFails ==
    ASSUME TypeOK, Orderly, NEW k \in Kinds, BeginFails(k)
    PROVE  Orderly'
<1>n. PICK n \in Calls : n = Len(calls) + 1
  BY Zenon DEF BeginFails
<1>1. /\ calls' = Append(calls, k) /\ Ends(n, "error")
      /\ UNCHANGED <<offset, size, got, took, open, toDev, fromDev, devVars>>
  BY <1>n, Zenon DEF BeginFails
<1>2. at'[n] = "done" /\ result'[n] = "error"
      /\ \A m \in Calls \ {n} : at'[m] = at[m] /\ result'[m] = result[m]
  BY <1>1, Zenon DEF TypeOK, CallsOK, Ends
<1>3. at'[n] # "off" /\ result'[n] # "ok"
  BY <1>2, Zenon
<1>4. /\ Numbered' /\ OwnOnly' /\ Listed' /\ AllTold'
      /\ \A m \in 1..Len(calls) : calls'[m] = calls[m] /\ m \in 1..Len(calls') /\ m # n
      /\ calls'[n] = k /\ n \in 1..Len(calls')
  <2>1. NewCall(n, k) /\ UNCHANGED <<offset, size, got, took, devVars>>
    BY <1>n, <1>1, Zenon DEF NewCall
  <2>2. \A m \in Calls \ {n} : at'[m] = at[m] /\ result'[m] = result[m]
    BY <1>2
  <2> QED BY <2>1, <2>2, <1>3, OthersKept, Zenon
<1>5. ~Live(n)' /\ ~Live(n)
  <2>1. Len(calls) \in Nat
    BY CallsFacts, Zenon
  <2>2. ~(n <= Len(calls))
    BY <1>n, <2>1
  <2> QED BY <1>2, <2>2, Zenon DEF Live, Orderly, Numbered
<1>6. \A m \in Calls : Live(m)' <=> Live(m)
  BY <1>2, <1>5, Zenon DEF Live
<1>7. OneLive'
  BY <1>6, Zenon DEF Orderly, OneLive
<1>8. Resting'
  BY <1>1, <1>6, Zenon DEF Orderly, Resting, Quiet, devVars
<1>9. Serving'
  BY <1>1, <1>2, <1>4, CallsFacts, Zenon DEF Orderly, Serving, Unfinished, devVars
<1>10. Linked'
  <2> SUFFICES ASSUME open, NEW m \in Calls, Live(m) PROVE Link(m)'
    BY <1>1, <1>6, Zenon DEF Linked
  <2>1. Link(m) /\ m \in 1..Len(calls)
    BY LiveFacts, Zenon
  <2>2. calls'[m] = calls[m] /\ at'[m] = at[m]
    BY <1>2, <1>4, <2>1, Zenon
  <2> QED BY <1>1, <2>1, <2>2, LinkSame, Zenon DEF devVars
<1> QED BY <1>4, <1>7, <1>8, <1>9, <1>10, Zenon DEF Orderly

(* The caller closes the session.                                          *)
LEMMA OrderClose ==
    ASSUME Orderly, Close
    PROVE  Orderly'
<1>1. /\ ~open' /\ UNCHANGED <<calls, at, offset, size, got, took, result>>
      /\ UNCHANGED <<toDev, fromDev, devUp, task, sent, final, stored>>
  BY Zenon DEF Close, devVars
<1>2. Numbered' /\ OneLive' /\ OwnOnly'
  BY <1>1, Zenon DEF Orderly, Numbered, Blank, OneLive, Live, OwnOnly
<1>3. Linked' /\ Resting'
  BY <1>1, Zenon DEF Linked, Resting
<1>4. Serving' /\ Listed'
  BY <1>1, Zenon DEF Orderly, Serving, Unfinished, Listed
<1>5. AllTold'
  BY <1>1, Zenon DEF Orderly, AllTold, Told
<1> QED BY <1>2, <1>3, <1>4, <1>5, Zenon DEF Orderly

(* Steps that change none of the variables Orderly is about.               *)
LEMMA OrderSame ==
    ASSUME Orderly,
           UNCHANGED <<calls, at, offset, size, got, took, result, open>>,
           UNCHANGED <<toDev, fromDev, devUp, task, sent, final, stored>>
    PROVE  Orderly'
<1>2. Numbered' /\ OneLive' /\ OwnOnly'
  BY Zenon DEF Orderly, Numbered, Blank, OneLive, Live, OwnOnly
<1>3. Linked'
  <2> SUFFICES ASSUME open, NEW m \in Calls, Live(m) PROVE Link(m)'
    BY Zenon DEF Linked, Live
  <2>1. Link(m)
    BY Zenon DEF Orderly, Linked
  <2> QED BY <2>1, LinkSame, Zenon
<1>4. Resting'
  BY Zenon DEF Orderly, Resting, Live, Quiet
<1>5. Serving' /\ Listed'
  BY Zenon DEF Orderly, Serving, Unfinished, Listed
<1>6. AllTold'
  BY Zenon DEF Orderly, AllTold, Told
<1> QED BY <1>2, <1>3, <1>4, <1>5, <1>6, Zenon DEF Orderly

-----------------------------------------------------------------------------
(* The steps of the device.                                                *)

(* The request the device serves is that of the call at work.              *)
LEMMA Served ==
    ASSUME TypeOK, Orderly, devUp, open, task # Idle
    PROVE  /\ task \in Calls /\ Live(task) /\ Link(task) /\ Pending(task, toDev)
           /\ final[task] = "none" /\ \A m \in Calls : Live(m) => m = task
<1>1. PICK n \in Calls : Live(n)
  BY Zenon DEF Orderly, Resting, Quiet
<1>2. Link(n) /\ \A m \in Calls : Live(m) => m = n
  BY <1>1, Zenon DEF Orderly, Linked, OneLive
<1>3. task = n /\ final[n] = "none" /\ Pending(n, toDev)
  BY <1>2, Zenon DEF Link, Requests
<1> QED BY <1>1, <1>2, <1>3, Zenon

LEMMA ServingDevice ==
    ASSUME TypeOK, Orderly, devUp, UNCHANGED clientVars,
           toDev' = toDev \/ (toDev # <<>> /\ toDev' = Tail(toDev)),
           task' = task \/ task' = Idle \/ (task' \in 1..Len(calls) /\ result[task'] # "ok")
    PROVE  Serving'
<1>1. UNCHANGED <<calls, result>>
  BY Zenon DEF clientVars
<1>2. \A m : Unfinished(m) => m \in 1..Len(calls') /\ result'[m] # "ok"
  BY <1>1, Zenon DEF Unfinished
<1>3. task' # Idle => Unfinished(task)'
  BY <1>1, <1>2, Zenon DEF Orderly, Serving, Unfinished
<1>4. \A i \in 1..Len(toDev') :
        toDev'[i].call \in 1..Len(calls') /\ result'[toDev'[i].call] # "ok"
  <2>1. CASE toDev' = toDev
    BY <1>2, <2>1, Zenon DEF Orderly, Serving
  <2>2. CASE toDev # <<>> /\ toDev' = Tail(toDev)
    <3>1. \A i \in 1..Len(Tail(toDev)) : Tail(toDev)[i] = toDev[i + 1] /\ i + 1 \in 1..Len(toDev)
      BY <2>2, HeadType, Zenon DEF TypeOK, WireOK
    <3> QED BY <1>2, <2>2, <3>1, Zenon DEF Orderly, Serving
  <2> QED BY <2>1, <2>2, Zenon
<1> QED BY <1>3, <1>4, Zenon DEF Serving, Unfinished

(* What a call that has not succeeded was told does not depend on the end  *)
(* of its reply or on what is stored.                                      *)
LEMMA ToldSoFar ==
    ASSUME TypeOK, Orderly, NEW t, Unfinished(t)
    PROVE  /\ t \in Calls
           /\ calls[t] \in Pulls => /\ Len(got[t]) <= Len(sent[t])
                                    /\ \A i \in 1..Len(got[t]) : got[t][i] = sent[t][i]
           /\ \A i \in 1..Len(sent[t]) : sent[t][i] \in {0, i}
<1>1. t \in 1..Len(calls) /\ t \in Calls
  BY CallsFacts, Zenon DEF Unfinished
<1> QED BY <1>1, Zenon DEF Orderly, AllTold, Told, Listed

LEMMA OrderTake ==
    ASSUME TypeOK, Orderly, DevTake
    PROVE  Orderly'
<1>1. /\ devUp /\ task = Idle /\ toDev # <<>> /\ toDev' = Tail(toDev)
      /\ task' = Head(toDev).call
      /\ UNCHANGED clientVars /\ UNCHANGED <<fromDev, devUp, sent, final, stored>>
  BY Zenon DEF DevTake
<1>2. toDev \in Seq(Messages) /\ Head(toDev) = toDev[1] /\ 1 \in 1..Len(toDev)
  <2>1. toDev \in Seq(Messages)
    BY Zenon DEF TypeOK, WireOK
  <2> QED BY <1>1, <2>1
<1>3. PICK t : t = Head(toDev).call
  BY Zenon
<1>4. Unfinished(t)
  BY <1>1, <1>2, <1>3, Zenon DEF Orderly, Serving
<1>5. t \in Calls /\ t \in 1..Len(calls) /\ result[t] # "ok"
  BY <1>4, ToldSoFar, Zenon DEF Unfinished
<1>6. Serving'
  BY <1>1, <1>3, <1>5, ServingDevice, Zenon
<1>7. ASSUME open PROVE /\ \A n \in Calls : Live(n) => Link(n)'
                        /\ ~\A n \in Calls : ~Live(n)
  <2>1. ~\A n \in Calls : ~Live(n)
    BY <1>1, <1>7, Zenon DEF Orderly, Resting, Quiet
  <2>2. ASSUME NEW n \in Calls, Live(n) PROVE Link(n)'
    <3>1. Link(n)
      BY <1>7, <2>2, Zenon DEF Orderly, Linked
    <3>2. /\ final[n] = "none" /\ sent[n] = <<>> /\ Head(toDev) = Request(n)
          /\ Pending(n, Tail(toDev))
      <4>1. n # Idle
        BY CallsFacts, Zenon
      <4> QED BY <1>1, <3>1, <4>1, Zenon DEF Link, Requests
    <3>3. task' = n
      <4>1. Request(n).call = n
        BY DEF Request, Message
      <4> QED BY <1>1, <3>2, <4>1, Zenon
    <3>4. UNCHANGED <<calls, at, offset, size, got>>
      BY <1>1, Zenon DEF clientVars
    <3>5. Replies(n)'
      BY <1>1, <3>1, <3>4, Zenon DEF Link, Replies
    <3>6. Requests(n)'
      BY <1>1, <3>2, <3>3, <3>4, Zenon DEF Requests, Pending
    <3> QED BY <1>1, <3>1, <3>4, <3>5, <3>6, Zenon DEF Link
  <2> QED BY <2>1, <2>2, Zenon
<1>8. /\ \A m \in Calls \ {t} :
           sent'[m] = sent[m] /\ final'[m] = final[m] /\ stored'[m] = stored[m]
      /\ sent'[t] = sent[t] /\ (devUp' => devUp)
  BY <1>1, Zenon
<1>9. /\ calls[t] \in Pulls => /\ Len(got[t]) <= Len(sent'[t])
                               /\ \A i \in 1..Len(got[t]) : got[t][i] = sent'[t][i]
      /\ \A i \in 1..Len(sent'[t]) : sent'[t][i] \in {0, i}
  BY <1>4, <1>8, ToldSoFar, Zenon
<1> QED BY <1>1, <1>4, <1>5, <1>6, <1>7, <1>8, <1>9, DeviceFrame, Zenon

LEMMA FollowMore ==
    ASSUME NEW M, NEW q \in Seq(M), NEW N, NEW items \in Seq(N), NEW e \in N, NEW k, NEW n,
           NEW r \in Nat, NEW x \in M, x = ItemOf(k, n, e),
           Len(q) + r = Len(items), Follow(q, k, n, items, "none", r)
    PROVE  Follow(Append(q, x), k, n, Append(items, e), "none", r)
<1>1. /\ Len(q) \in Nat /\ Len(items) \in Nat /\ Len(Append(items, e)) = Len(items) + 1
      /\ \A i \in 1..Len(items) : Append(items, e)[i] = items[i]
      /\ Append(items, e)[Len(items) + 1] = e
  OBVIOUS
<1>2. /\ \A i \in 1..Len(Append(q, x)) : i \in 1..Len(q) \/ i = Len(q) + 1
      /\ \A i \in 1..Len(q) : Append(q, x)[i] = q[i]
      /\ Append(q, x)[Len(q) + 1] = x
  OBVIOUS
<1> SUFFICES ASSUME NEW i \in 1..Len(Append(q, x))
             PROVE  /\ r + i <= Len(Append(items, e))
                    /\ Append(q, x)[i] = ItemOf(k, n, Append(items, e)[r + i])
  BY Zenon DEF Follow
<1>3. CASE i \in 1..Len(q)
  <2>1. r + i <= Len(items) /\ r + i \in 1..Len(items) /\ r + i <= Len(items) + 1
    BY <1>1, <1>3
  <2>2. q[i] = ItemOf(k, n, items[r + i])
    BY <1>3, <2>1, Zenon DEF Follow
  <2>3. Append(q, x)[i] = q[i]
    BY <1>2, <1>3, Zenon
  <2>4. Append(items, e)[r + i] = items[r + i]
    BY <1>1, <2>1, Zenon
  <2> QED BY <1>1, <2>1, <2>2, <2>3, <2>4, Zenon
<1>4. CASE i = Len(q) + 1
  <2>1. r + i = Len(items) + 1
    BY <1>1, <1>4
  <2>2. r + i <= Len(Append(items, e))
    BY <1>1, <2>1
  <2>3. Append(q, x)[i] = x
    BY <1>2, <1>4, Zenon
  <2>4. Append(items, e)[r + i] = e
    BY <1>1, <2>1, Zenon
  <2> QED BY <2>2, <2>3, <2>4, Zenon
<1> QED BY <1>2, <1>3, <1>4, Zenon

LEMMA FollowFinal ==
    ASSUME NEW M, NEW q \in Seq(M), NEW N, NEW items \in Seq(N), NEW c, c # "none", NEW k, NEW n,
           NEW r \in Nat, NEW x \in M, x.cmd = c, x.call = n,
           Len(q) + r = Len(items), Follow(q, k, n, items, "none", r)
    PROVE  Follow(Append(q, x), k, n, items, c, r)
<1>1. Len(q) \in Nat /\ Len(items) \in Nat
  OBVIOUS
<1>2. /\ \A i \in 1..Len(Append(q, x)) : i \in 1..Len(q) \/ i = Len(q) + 1
      /\ \A i \in 1..Len(q) : Append(q, x)[i] = q[i]
      /\ Append(q, x)[Len(q) + 1] = x
  OBVIOUS
<1> SUFFICES ASSUME NEW i \in 1..Len(Append(q, x))
             PROVE  IF r + i <= Len(items)
                      THEN Append(q, x)[i] = ItemOf(k, n, items[r + i])
                      ELSE /\ r + i = Len(items) + 1
                           /\ c # "none" /\ Append(q, x)[i].cmd = c /\ Append(q, x)[i].call = n
  BY Zenon DEF Follow
<1>3. CASE i \in 1..Len(q)
  <2>1. r + i <= Len(items)
    BY <1>1, <1>3
  <2> QED BY <1>2, <1>3, <2>1, Zenon DEF Follow
<1>4. CASE i = Len(q) + 1
  <2>1. r + i = Len(items) + 1 /\ ~(r + i <= Len(items))
    BY <1>1, <1>4
  <2>2. Append(q, x)[i] = x
    BY <1>2, <1>4, Zenon
  <2> QED BY <2>1, <2>2, Zenon
<1> QED BY <1>2, <1>3, <1>4, Zenon

LEMMA DeliveredMore ==
    ASSUME NEW k \in Pulls \cup {"Readdir"}, NEW g, NEW N, NEW items \in Seq(N), NEW e \in N,
           NEW r \in 0..Len(items), Delivered(k, g, items, r)
    PROVE  Delivered(k, g, Append(items, e), r)
<1>1. \A i \in 1..r : Append(items, e)[i] = items[i]
  OBVIOUS
<1>2. Entries(Append(items, e), r) = Entries(items, r)
  <2>1. ASSUME NEW i PROVE i \in Entries(Append(items, e), r) <=> i \in Entries(items, r)
    BY <1>1, Zenon DEF Entries
  <2> QED BY <2>1, Zenon
<1> QED BY <1>1, <1>2, Zenon DEF Delivered

LEMMA OrderDevItem ==
    ASSUME TypeOK, Orderly, DevItem
    PROVE  Orderly'
<1>1. /\ devUp /\ task # Idle /\ calls[task] \in Pulls \cup {"Readdir"}
      /\ UNCHANGED clientVars /\ UNCHANGED <<toDev, devUp, task, final, stored>>
  BY Zenon DEF DevItem
<1>2. Unfinished(task)
  BY <1>1, Zenon DEF Orderly, Serving
<1>3. task \in Calls /\ sent[task] \in Seq(Items) /\ fromDev \in Seq(Messages)
      /\ Len(sent[task]) < MaxItems
  BY <1>2, ToldSoFar, Zenon DEF TypeOK, DeviceOK, WireOK, DevItem
<1>4. PICK e \in {0, Len(sent[task]) + 1} :
        /\ sent' = [sent EXCEPT ![task] = Append(@, e)]
        /\ fromDev' = Append(fromDev, ItemOf(calls[task], task, <<e>>[1]))
  <2>1. \A e : <<e>>[1] = e
    OBVIOUS
  <2> QED BY <2>1, Zenon DEF DevItem, ItemOf
<1>5. e \in Items
  BY <1>3, MaxItemsAssumption DEF Items
<1>6. sent'[task] = Append(sent[task], e)
      /\ \A m \in Calls \ {task} : sent'[m] = sent[m]
  BY <1>3, <1>4, Zenon DEF TypeOK, DeviceOK
<1>7. PICK x \in Messages : x = ItemOf(calls[task], task, e)
  <2>1. (IF calls[task] \in Pulls THEN "DATA" ELSE "DENT") \in Commands
    BY Zenon DEF Commands
  <2>2. <<e>> \in Datas
    BY <1>5, DataFacts, Zenon
  <2>3. ItemOf(calls[task], task, e) \in Messages
    BY <1>3, <2>1, <2>2, MessageType, Zenon DEF ItemOf
  <2> QED BY <2>3, Zenon
<1>8. fromDev' = Append(fromDev, x)
  <2>1. <<e>>[1] = e
    OBVIOUS
  <2> QED BY <1>4, <1>7, <2>1, Zenon
<1>9. Serving'
  BY <1>1, ServingDevice, Zenon
<1>10. /\ \A i \in 1..Len(sent[task]) : sent'[task][i] = sent[task][i]
       /\ \A i \in 1..Len(sent'[task]) :
            i \in 1..Len(sent[task]) \/ (i = Len(sent[task]) + 1 /\ sent'[task][i] = e)
       /\ Len(sent[task]) <= Len(sent'[task]) /\ Len(sent'[task]) = Len(sent[task]) + 1
  BY <1>3, <1>5, <1>6
<1>11. \A i \in 1..Len(sent'[task]) : sent'[task][i] \in {0, i}
  <2>1. \A i \in 1..Len(sent[task]) : sent[task][i] \in {0, i}
    BY <1>2, ToldSoFar, Zenon
  <2> QED BY <1>10, <2>1, Zenon
<1>12. calls[task] \in Pulls => /\ Len(got[task]) <= Len(sent'[task])
                                /\ \A i \in 1..Len(got[task]) : got[task][i] = sent'[task][i]
  <2> SUFFICES ASSUME calls[task] \in Pulls
               PROVE  /\ Len(got[task]) <= Len(sent'[task])
                      /\ \A i \in 1..Len(got[task]) : got[task][i] = sent'[task][i]
    OBVIOUS
  <2>1. /\ Len(got[task]) <= Len(sent[task])
        /\ \A i \in 1..Len(got[task]) : got[task][i] = sent[task][i]
    BY <1>2, ToldSoFar, Zenon
  <2>2. got[task] \in Seq(Items)
    BY <1>3, Zenon DEF TypeOK, CallsOK
  <2>3. Len(got[task]) <= Len(sent'[task])
    BY <1>3, <1>10, <2>1, <2>2
  <2>4. \A i \in 1..Len(got[task]) : i \in 1..Len(sent[task])
    BY <1>3, <2>1, <2>2
  <2> QED BY <1>10, <2>1, <2>3, <2>4, Zenon
<1>13. ASSUME open PROVE /\ \A n \in Calls : Live(n) => Link(n)'
                         /\ ~\A n \in Calls : ~Live(n)
  <2>1. /\ Live(task) /\ Link(task) /\ Pending(task, toDev) /\ final[task] = "none"
        /\ \A m \in Calls : Live(m) => m = task
    BY <1>1, <1>13, Served, Zenon
  <2>2. PICK n \in Calls : n = task
    BY <1>3, Zenon
  <2>3. UNCHANGED <<calls, at, offset, size, got>>
    BY <1>1, Zenon DEF clientVars
  <2>4. PICK r \in 0..Len(sent[n]) :
          /\ Follow(fromDev, calls[n], n, sent[n], "none", r)
          /\ Delivered(calls[n], got[n], sent[n], r)
          /\ Len(fromDev) + r = Total(sent[n], "none")
    BY <1>1, <2>1, <2>2, Zenon DEF Link, Replies
  <2>5. Len(fromDev) + r = Len(sent[n]) /\ r \in Nat
    BY <1>3, <2>2, <2>4 DEF Total
  <2>6. Follow(Append(fromDev, x), calls[n], n, Append(sent[n], e), "none", r)
    <3>1. x = ItemOf(calls[n], n, e) /\ sent[n] \in Seq(Items)
      BY <1>3, <1>7, <2>2, Zenon
    <3> QED BY <1>3, <1>5, <2>4, <2>5, <3>1, FollowMore
  <2>7. Delivered(calls[n], got[n], Append(sent[n], e), r)
    BY <1>1, <1>3, <1>5, <2>2, <2>4, DeliveredMore, Zenon
  <2>8. Len(Append(fromDev, x)) + r = Total(Append(sent[n], e), "none")
    BY <1>3, <1>5, <2>2, <2>5 DEF Total
  <2>9. r \in 0..Len(Append(sent[n], e))
    BY <1>3, <2>2
  <2>10. Replies(n)'
    BY <1>1, <1>6, <1>8, <2>1, <2>2, <2>3, <2>6, <2>7, <2>8, <2>9, Zenon DEF Replies
  <2>11. Requests(n)'
    BY <1>1, <2>1, <2>2, <2>3, Zenon DEF Requests, Pending
  <2>12. Link(n)'
    BY <1>1, <2>1, <2>2, <2>3, <2>10, <2>11, Zenon DEF Link
  <2> QED BY <2>1, <2>2, <2>12, Zenon
<1>14. \A m \in Calls \ {task} :
         sent'[m] = sent[m] /\ final'[m] = final[m] /\ stored'[m] = stored[m]
  BY <1>1, <1>6, Zenon
<1> QED BY <1>1, <1>2, <1>3, <1>9, <1>11, <1>12, <1>13, <1>14, DeviceFrame, Zenon

(* The device ends its reply to the call it serves.                        *)
LEMMA OrderDevEnds ==
    ASSUME TypeOK, Orderly, devUp, task # Idle,
           NEW c \in {"STAT", "DONE", "OKAY", "FAIL"}, NEW d \in Datas, DevEnds(c, d),
           UNCHANGED clientVars, UNCHANGED <<sent, stored>>, Serving',
           open => /\ toDev' = <<>> /\ at[task] \in {"reply", "pipe"} /\ devUp' = devUp
                   /\ c \in Finals(calls[task])
                   /\ calls[task] = "Push" /\ c = "OKAY" => stored[task] = Content(0, size[task])
    PROVE  Orderly'
<1>1. Unfinished(task)
  BY Zenon DEF Orderly, Serving
<1>2. task \in Calls /\ sent[task] \in Seq(Items) /\ fromDev \in Seq(Messages)
  BY <1>1, ToldSoFar, Zenon DEF TypeOK, DeviceOK, WireOK
<1>3. task' = Idle /\ final'[task] = c /\ \A m \in Calls \ {task} : final'[m] = final[m]
  BY <1>2, Zenon DEF DevEnds, TypeOK, DeviceOK
<1>4. /\ calls[task] \in Pulls =>
           /\ Len(got[task]) <= Len(sent'[task])
           /\ \A i \in 1..Len(got[task]) : got[task][i] = sent'[task][i]
      /\ \A i \in 1..Len(sent'[task]) : sent'[task][i] \in {0, i}
  BY <1>1, ToldSoFar, Zenon
<1>5. PICK x \in Messages : x = Message(c, task, d)
  <2>1. c \in Commands
    BY Zenon DEF Commands
  <2>2. Message(c, task, d) \in Messages
    BY <1>2, <2>1, MessageType, Zenon
  <2> QED BY <2>2, Zenon
<1>6. fromDev' = Append(fromDev, x) /\ x.cmd = c /\ x.call = task
  <2>1. x.cmd = c /\ x.call = task
    BY <1>5 DEF Message
  <2> QED BY <1>5, <2>1, Zenon DEF DevEnds
<1>7. c # "none"
  OBVIOUS
<1>8. ASSUME open PROVE /\ \A n \in Calls : Live(n) => Link(n)'
                        /\ ~\A n \in Calls : ~Live(n)
  <2>1. /\ Live(task) /\ Link(task) /\ final[task] = "none"
        /\ \A m \in Calls : Live(m) => m = task
    BY <1>8, Served, Zenon
  <2>2. PICK n \in Calls : n = task
    BY <1>2, Zenon
  <2>3. UNCHANGED <<calls, at, offset, size, got>>
    BY Zenon DEF clientVars
  <2>4. PICK r \in 0..Len(sent[n]) :
          /\ Follow(fromDev, calls[n], n, sent[n], "none", r)
          /\ Delivered(calls[n], got[n], sent[n], r)
          /\ Len(fromDev) + r = Total(sent[n], "none")
    BY <2>1, <2>2, Zenon DEF Link, Replies
  <2>5. Len(fromDev) + r = Len(sent[n]) /\ r \in Nat
    BY <1>2, <2>2, <2>4 DEF Total
  <2>6. Follow(Append(fromDev, x), calls[n], n, sent[n], c, r)
    <3>1. x.cmd = c /\ x.call = n /\ sent[n] \in Seq(Items)
      BY <1>2, <1>6, <2>2, Zenon
    <3> QED BY <1>2, <1>7, <2>4, <2>5, <3>1, FollowFinal
  <2>7. Len(Append(fromDev, x)) + r = Total(sent[n], c)
    BY <1>2, <1>7, <2>2, <2>5 DEF Total
  <2>8. Replies(n)'
    BY <1>3, <1>6, <2>2, <2>3, <2>4, <2>6, <2>7, Zenon DEF Replies
  <2>9. Requests(n)'
    BY <1>3, <1>7, <1>8, <2>2, <2>3, Zenon DEF Requests
  <2>10. at[n] \notin {"source", "write"}
    BY <1>8, <2>2
  <2>11. Link(n)'
    <3>1. final'[n] \in {"none"} \cup Finals(calls[n])
      BY <1>3, <1>8, <2>2, Zenon
    <3>2. calls[n] = "Push" /\ final'[n] = "OKAY" => stored[n] = Content(0, size[n])
      BY <1>3, <1>8, <2>2, Zenon
    <3>3. /\ at[n] = "pipe" => calls[n] \in Pulls
          /\ offset[n] <= size[n] /\ (at[n] \in {"reply", "pipe"} => offset[n] = size[n])
          /\ at[n] # "source"
      BY <2>1, <2>2, <2>10, Zenon DEF Link
    <3> QED BY <2>3, <2>8, <2>9, <2>10, <3>1, <3>2, <3>3, Zenon DEF Link
  <2> QED BY <2>1, <2>2, <2>11, Zenon
<1>9. \A m \in Calls \ {task} :
        sent'[m] = sent[m] /\ final'[m] = final[m] /\ stored'[m] = stored[m]
  BY <1>3, Zenon
<1> QED BY <1>1, <1>2, <1>4, <1>8, <1>9, DeviceFrame, Zenon

LEMMA OrderAnswers ==
    ASSUME TypeOK, Orderly, DevAnswers
    PROVE  Orderly'
<1>1. /\ devUp /\ task # Idle /\ calls[task] # "Push"
      /\ UNCHANGED clientVars /\ UNCHANGED <<toDev, devUp, sent, stored>>
  BY Zenon DEF DevAnswers
<1>2. \E c \in {"STAT", "DONE", "OKAY", "FAIL"} : \E d \in Datas :
        /\ DevEnds(c, d)
        /\ \/ calls[task] = "Stat" /\ c = "STAT"
           \/ calls[task] # "Stat" /\ c = "DONE"
           \/ c = "FAIL"
  <2>1. \A mode \in 0..1 : mode \in Items
    BY MaxItemsAssumption DEF Items
  <2>2. <<>> \in Datas /\ \A mode \in 0..1 : <<mode>> \in Datas
    BY <2>1, DataFacts, Zenon
  <2>3. "STAT" \in {"STAT", "DONE", "OKAY", "FAIL"} /\ "DONE" \in {"STAT", "DONE", "OKAY", "FAIL"}
        /\ "FAIL" \in {"STAT", "DONE", "OKAY", "FAIL"}
    BY Zenon
  <2> QED BY <2>2, <2>3, Zenon DEF DevAnswers
<1>3. PICK c \in {"STAT", "DONE", "OKAY", "FAIL"}, d \in Datas :
        /\ DevEnds(c, d)
        /\ \/ calls[task] = "Stat" /\ c = "STAT"
           \/ calls[task] # "Stat" /\ c = "DONE"
           \/ c = "FAIL"
  BY <1>2, Zenon
<1>4. Serving'
  BY <1>1, <1>3, ServingDevice, Zenon DEF DevEnds
<1>5. ASSUME open
      PROVE  /\ toDev' = <<>> /\ at[task] \in {"reply", "pipe"} /\ devUp' = devUp
             /\ c \in Finals(calls[task])
  <2>1. /\ Live(task) /\ Link(task) /\ Pending(task, toDev) /\ task \in Calls
    BY <1>1, <1>5, Served, Zenon
  <2>2. toDev = <<>>
    BY <1>1, <2>1, Zenon DEF Pending, Body
  <2>3. at[task] \in {"reply", "pipe"}
    <3>1. at[task] \in {"off", "source", "write", "reply", "pipe", "done"}
      BY <2>1, Zenon DEF TypeOK, CallsOK
    <3>2. at[task] \notin {"off", "done"} /\ at[task] \notin {"source", "write"}
      BY <1>1, <2>1, Zenon DEF Live, Link
    <3> QED BY <3>1, <3>2
  <2>4. c \in Finals(calls[task])
    BY <1>1, <1>3 DEF Finals
  <2> QED BY <1>1, <2>2, <2>3, <2>4, Zenon
<1> QED BY <1>1, <1>3, <1>4, <1>5, OrderDevEnds, Zenon

LEMMA ChunkedTail ==
    ASSUME NEW M, NEW q \in Seq(M), NEW l \in Nat, l >= 1, l <= Len(q), NEW n, NEW a, NEW b,
           Chunked(q, l, n, a, b)
    PROVE  \E c \in Items : /\ a \in Items /\ a <= c /\ Head(q) = Message("DATA", n, Content(a, c))
                            /\ Chunked(Tail(q), l - 1, n, c, b)
<1>1. PICK m \in [0..l -> Items] :
        /\ m[0] = a /\ m[l] = b
        /\ \A i \in 1..l : /\ m[i - 1] <= m[i]
                           /\ q[i] = Message("DATA", n, Content(m[i - 1], m[i]))
  BY Zenon DEF Chunked
<1>2. q # <<>> /\ Head(q) = q[1] /\ \A i \in 1..(l - 1) : Tail(q)[i] = q[i + 1]
  OBVIOUS
<1> DEFINE w == [i \in 0..(l - 1) |-> m[i + 1]]
<1>3. w \in [0..(l - 1) -> Items] /\ w[0] = m[1] /\ w[l - 1] = b /\ m[1] \in Items /\ a \in Items
  BY <1>1
<1>4. ASSUME NEW i \in 1..(l - 1)
      PROVE  w[i - 1] <= w[i] /\ Tail(q)[i] = Message("DATA", n, Content(w[i - 1], w[i]))
  <2>1. i + 1 \in 1..l /\ (i + 1) - 1 = i /\ w[i - 1] = m[i] /\ w[i] = m[i + 1]
    OBVIOUS
  <2>2. m[(i + 1) - 1] <= m[i + 1]
        /\ q[i + 1] = Message("DATA", n, Content(m[(i + 1) - 1], m[i + 1]))
    BY <1>1, <2>1, Zenon
  <2> QED BY <1>2, <2>1, <2>2, Zenon
<1> HIDE DEF w
<1>5. Chunked(Tail(q), l - 1, n, m[1], b)
  BY <1>3, <1>4, Zenon DEF Chunked
<1>6. a <= m[1] /\ q[1] = Message("DATA", n, Content(a, m[1]))
  <2>1. 1 \in 1..l /\ 1 - 1 = 0
    OBVIOUS
  <2> QED BY <1>1, <2>1, Zenon
<1> QED BY <1>2, <1>3, <1>5, <1>6, Zenon

LEMMA Joined ==
    ASSUME NEW M, NEW p \in Seq(M), NEW q \in Seq(M), NEW s \in Seq(M),
           Len(s) = Len(p) + Len(q),
           \A i \in 1..Len(p) : p[i] = s[i], \A i \in 1..Len(q) : q[i] = s[Len(p) + i]
    PROVE  p \o q = s
<1>0. Len(p) \in Nat /\ Len(q) \in Nat
  OBVIOUS
<1>1. p \o q \in Seq(M) /\ Len(p \o q) = Len(s)
  OBVIOUS
<1>2. ASSUME NEW i \in 1..Len(s) PROVE (p \o q)[i] = s[i]
  <2>1. CASE i <= Len(p)
    BY <2>1
  <2>2. CASE i > Len(p)
    <3>1. (p \o q)[i] = q[i - Len(p)] /\ i - Len(p) \in 1..Len(q) /\ Len(p) + (i - Len(p)) = i
      BY <1>0, <2>2
    <3> QED BY <3>1
  <2> QED BY <1>0, <2>1, <2>2
<1> QED BY <1>1, <1>2

LEMMA ContentMore ==
    ASSUME NEW a \in Items, NEW c \in Items, a <= c
    PROVE  /\ Content(0, a) \o Content(a, c) = Content(0, c)
           /\ Len(Content(0, c)) = c /\ Content(0, c) = Content(0, Len(Content(0, c)))
<1>0. a \in Nat /\ c \in Nat /\ c - a \in Nat /\ a + (c - a) = c
  BY MaxItemsAssumption DEF Items
<1>1. /\ Content(0, a) = [i \in 1..a |-> i] /\ Content(0, c) = [i \in 1..c |-> i]
  BY <1>0 DEF Content
<1>2. PICK p \in Seq(Nat) : p = Content(0, a) /\ Len(p) = a /\ \A i \in 1..a : p[i] = i
  BY <1>0, <1>1
<1>3. PICK s \in Seq(Nat) : s = Content(0, c) /\ Len(s) = c /\ \A i \in 1..c : s[i] = i
  BY <1>0, <1>1
<1>4. PICK l \in Nat : l = c - a
  BY <1>0
<1>5. PICK q \in Seq(Nat) : q = Content(a, c) /\ Len(q) = l /\ \A i \in 1..l : q[i] = a + i
  <2>1. \A i \in 1..l : a + i \in Nat
    BY <1>0
  <2>2. Content(a, c) = [i \in 1..l |-> a + i]
    BY <1>4, Zenon DEF Content
  <2>3. Content(a, c) \in [1..l -> Nat] /\ \A i \in 1..l : Content(a, c)[i] = a + i
    BY <2>1, <2>2, Zenon
  <2>4. \A f \in [1..l -> Nat] : f \in Seq(Nat) /\ Len(f) = l
    OBVIOUS
  <2> QED BY <2>3, <2>4, Zenon
<1>6. p \o q = s
  <2>1. Len(s) = Len(p) + Len(q)
    <3>1. a + l = c
      BY <1>0, <1>4
    <3> QED BY <1>2, <1>3, <1>5, <3>1, Zenon
  <2>2. ASSUME NEW i \in 1..Len(p) PROVE p[i] = s[i]
    BY <1>0, <1>2, <1>3
  <2>3. ASSUME NEW i \in 1..Len(q) PROVE q[i] = s[Len(p) + i]
    <3>1. i \in 1..l /\ a + i \in 1..c
      BY <1>0, <1>4, <1>5
    <3> QED BY <1>2, <1>3, <1>5, <3>1
  <2> QED BY <2>1, <2>2, <2>3, Joined, Zenon
<1>7. Content(0, a) \o Content(a, c) = Content(0, c)
  BY <1>2, <1>3, <1>5, <1>6, Zenon
<1>8. Len(Content(0, c)) = c
  BY <1>3, Zenon
<1> QED BY <1>7, <1>8, Zenon

LEMMA TailLast ==
    ASSUME NEW M, NEW q \in Seq(M), q # <<>>
    PROVE  /\ Len(q) = 1 => Tail(q) = <<>>
           /\ Len(q) # 1 => Tail(q) # <<>> /\ Tail(q)[Len(Tail(q))] = q[Len(q)]
<1>1. /\ Tail(q) \in Seq(M) /\ Len(Tail(q)) = Len(q) - 1 /\ Len(q) \in Nat /\ Len(q) > 0
      /\ \A i \in 1..Len(Tail(q)) : Tail(q)[i] = q[i + 1] /\ i + 1 \in 1..Len(q)
  BY HeadType, Zenon
<1>2. PICK t \in Seq(M) : t = Tail(q)
  BY <1>1, Zenon
<1>3. Len(t) = Len(q) - 1 /\ \A i \in 1..Len(t) : t[i] = q[i + 1]
  BY <1>1, <1>2, Zenon
<1>4. Len(q) = 1 => t = <<>>
  BY <1>3
<1>5. Len(q) # 1 => t # <<>> /\ Len(t) \in 1..Len(t) /\ Len(t) + 1 = Len(q)
  BY <1>1, <1>3
<1> QED BY <1>2, <1>3, <1>4, <1>5, Zenon

(* The next message of a pushed file is a chunk, or DONE after the last.   *)
LEMMA PushHead ==
    ASSUME NEW M, NEW q \in Seq(M), q # <<>>, NEW p, NEW n, NEW st, NEW b,
           Body("Push", p, n, st, b, q)
    PROVE  \/ /\ Head(q).cmd = "DONE" /\ p = "reply" /\ Tail(q) = <<>> /\ st = Content(0, b)
           \/ /\ Head(q).cmd = "DATA" /\ p # "source"
              /\ \E c \in Items : st \o Head(q).data = Content(0, c)
                                  /\ Body("Push", p, n, Content(0, c), b, Tail(q))
<1>0. /\ st = Content(0, Len(st)) /\ Len(st) \in Items /\ p # "source"
  BY Zenon DEF Body
<1>1. Len(q) \in Nat /\ Len(q) >= 1 /\ Len(q) - 1 \in Nat
  OBVIOUS
<1>2. ASSUME NEW l \in Nat, l >= 1, l <= Len(q), Chunked(q, l, n, Len(st), b)
      PROVE  /\ Head(q).cmd = "DATA"
             /\ \E c \in Items : /\ st \o Head(q).data = Content(0, c)
                                 /\ Content(0, c) = Content(0, Len(Content(0, c)))
                                 /\ Len(Content(0, c)) = c /\ Chunked(Tail(q), l - 1, n, c, b)
  <2>1. PICK c \in Items : /\ Len(st) <= c /\ Chunked(Tail(q), l - 1, n, c, b)
                           /\ Head(q) = Message("DATA", n, Content(Len(st), c))
    <3>1. PICK a : a = Len(st)
      BY Zenon
    <3>2. Chunked(q, l, n, a, b)
      BY <1>2, <3>1, Zenon
    <3>3. \E c \in Items : /\ a \in Items /\ a <= c /\ Head(q) = Message("DATA", n, Content(a, c))
                           /\ Chunked(Tail(q), l - 1, n, c, b)
      BY <1>2, <3>2, ChunkedTail
    <3> QED BY <3>1, <3>3, Zenon
  <2>2. Head(q).cmd = "DATA" /\ Head(q).data = Content(Len(st), c)
    BY <2>1 DEF Message
  <2>3. PICK a \in Items : a = Len(st) /\ a <= c
    BY <1>0, <2>1, Zenon
  <2>4. /\ Content(0, a) \o Content(a, c) = Content(0, c)
        /\ Len(Content(0, c)) = c /\ Content(0, c) = Content(0, Len(Content(0, c)))
    BY <2>3, ContentMore, Zenon
  <2>5. st \o Head(q).data = Content(0, c)
    BY <1>0, <2>2, <2>3, <2>4, Zenon
  <2> QED BY <2>1, <2>2, <2>4, <2>5, Zenon
<1>t. Tail(q) \in Seq(M) /\ Len(Tail(q)) = Len(q) - 1 /\ Head(q) = q[1]
  BY HeadType, Zenon
<1>3. CASE p # "reply"
  <2>1. Chunked(q, Len(q), n, Len(st), b)
    BY <1>3, Zenon DEF Body
  <2>2. PICK c \in Items : /\ st \o Head(q).data = Content(0, c)
                           /\ Content(0, c) = Content(0, Len(Content(0, c)))
                           /\ Len(Content(0, c)) = c /\ Chunked(Tail(q), Len(q) - 1, n, c, b)
    <3>1. Len(q) <= Len(q)
      BY <1>1
    <3> QED BY <1>1, <1>2, <2>1, <3>1, Zenon
  <2>3. Body("Push", p, n, Content(0, c), b, Tail(q))
    BY <1>0, <1>3, <1>t, <2>2, Zenon DEF Body
  <2>4. Head(q).cmd = "DATA"
    <3>1. Len(q) <= Len(q)
      BY <1>1
    <3> QED BY <1>1, <1>2, <2>1, <3>1, Zenon
  <2> QED BY <1>0, <2>2, <2>3, <2>4, Zenon
<1>4. CASE p = "reply"
  <2>1. Chunked(q, Len(q) - 1, n, Len(st), b) /\ q[Len(q)] = Done(n)
    BY <1>4, Zenon DEF Body
  <2>2. CASE Len(q) = 1
    <3>1. Head(q).cmd = "DONE"
      BY <1>t, <2>1, <2>2 DEF Done, Message
    <3>2. Tail(q) = <<>>
      BY <2>2, TailLast, Zenon
    <3>3. Len(st) = b
      <4>1. Len(q) - 1 = 0
        BY <2>2
      <4> QED BY <2>1, <4>1, Zenon DEF Chunked
    <3> QED BY <1>0, <1>4, <3>1, <3>2, <3>3, Zenon
  <2>3. CASE Len(q) # 1
    <3>1. Len(q) - 1 >= 1 /\ Len(q) - 1 <= Len(q) /\ (Len(q) - 1) - 1 = Len(Tail(q)) - 1
          /\ Len(Tail(q)) >= 1
      BY <1>1, <1>t, <2>3
    <3>2. Head(q).cmd = "DATA"
      BY <1>1, <1>2, <2>1, <3>1, Zenon
    <3>3. PICK c \in Items :
            /\ st \o Head(q).data = Content(0, c)
            /\ Content(0, c) = Content(0, Len(Content(0, c)))
            /\ Len(Content(0, c)) = c /\ Chunked(Tail(q), (Len(q) - 1) - 1, n, c, b)
      BY <1>1, <1>2, <2>1, <3>1, Zenon
    <3>4. Tail(q) # <<>> /\ Tail(q)[Len(Tail(q))] = Done(n)
      <4>1. Tail(q) # <<>> /\ Tail(q)[Len(Tail(q))] = q[Len(q)]
        BY <2>3, TailLast, Zenon
      <4> QED BY <2>1, <4>1, Zenon
    <3>5. Body("Push", p, n, Content(0, c), b, Tail(q))
      BY <1>0, <1>4, <3>1, <3>3, <3>4, Zenon DEF Body
    <3> QED BY <1>0, <3>2, <3>3, <3>5, Zenon
  <2> QED BY <2>2, <2>3, Zenon
<1> QED BY <1>3, <1>4, Zenon

LEMMA OrderStores ==
    ASSUME TypeOK, Orderly, DevStores
    PROVE  Orderly'
<1>1. /\ devUp /\ task # Idle /\ calls[task] = "Push" /\ toDev # <<>> /\ toDev' = Tail(toDev)
      /\ UNCHANGED clientVars /\ UNCHANGED <<devUp, sent>>
  BY Zenon DEF DevStores
<1>2. Unfinished(task) /\ toDev \in Seq(Messages)
  BY <1>1, Zenon DEF Orderly, Serving, TypeOK, WireOK
<1>3. /\ task \in Calls
      /\ calls[task] \in Pulls =>
           /\ Len(got[task]) <= Len(sent'[task])
           /\ \A i \in 1..Len(got[task]) : got[task][i] = sent'[task][i]
      /\ \A i \in 1..Len(sent'[task]) : sent'[task][i] \in {0, i}
  BY <1>1, <1>2, ToldSoFar, Zenon
<1>4. task' = task \/ task' = Idle
  BY Zenon DEF DevStores, DevEnds
<1>5. Serving'
  BY <1>1, <1>4, ServingDevice, Zenon
<1>6. ASSUME open
      PROVE  /\ Live(task) /\ Link(task) /\ final[task] = "none"
             /\ \A m \in Calls : Live(m) => m = task
             /\ Body("Push", at[task], task, stored[task], offset[task], toDev)
  BY <1>1, <1>6, Served, Zenon DEF Pending
<1>7. CASE /\ Head(toDev).cmd = "DATA"
           /\ stored' = [stored EXCEPT ![task] = @ \o Head(toDev).data]
           /\ UNCHANGED <<fromDev, task, final>>
  <2>1. stored'[task] = stored[task] \o Head(toDev).data
        /\ \A m \in Calls \ {task} : stored'[m] = stored[m]
    BY <1>3, <1>7, Zenon DEF TypeOK, DeviceOK
  <2>2. ASSUME open PROVE /\ \A n \in Calls : Live(n) => Link(n)'
                          /\ ~\A n \in Calls : ~Live(n)
    <3>1. PICK n \in Calls : n = task
      BY <1>3, Zenon
    <3>2. "DATA" # "DONE"
      OBVIOUS
    <3>3. PICK c \in Items : /\ stored[n] \o Head(toDev).data = Content(0, c)
                             /\ Body("Push", at[n], n, Content(0, c), offset[n], Tail(toDev))
      BY <1>1, <1>2, <1>6, <1>7, <2>2, <3>1, <3>2, PushHead, Zenon
    <3>4. UNCHANGED <<calls, at, offset, size, got>>
      BY <1>1, Zenon DEF clientVars
    <3>5. Link(n) /\ final[n] = "none" /\ calls[n] = "Push"
      BY <1>1, <1>6, <2>2, <3>1, Zenon
    <3>6. Replies(n)'
      BY <1>1, <1>7, <3>4, <3>5, Zenon DEF Link, Replies
    <3>7. Requests(n)'
      <4>1. stored'[n] = Content(0, c)
        BY <2>1, <3>1, <3>3, Zenon
      <4>2. Pending(n, toDev)'
        BY <1>1, <3>3, <3>4, <3>5, <4>1, Zenon DEF Pending
      <4> QED BY <1>7, <3>1, <3>5, <4>2, Zenon DEF Requests
    <3>8. final'[n] # "OKAY" /\ final' = final
      BY <1>7, <3>5
    <3>9. Link(n)'
      BY <1>1, <3>4, <3>5, <3>6, <3>7, <3>8, Zenon DEF Link
    <3> QED BY <1>6, <2>2, <3>1, <3>9, Zenon
  <2>3. \A m \in Calls \ {task} :
          sent'[m] = sent[m] /\ final'[m] = final[m] /\ stored'[m] = stored[m]
    BY <1>1, <1>7, <2>1, Zenon
  <2> QED BY <1>1, <1>2, <1>3, <1>5, <2>2, <2>3, DeviceFrame, Zenon
<1>8. CASE /\ Head(toDev).cmd = "DONE"
           /\ \E cmd \in {"OKAY", "FAIL"} : DevEnds(cmd, <<>>)
           /\ UNCHANGED stored
  <2>1. PICK c \in {"OKAY", "FAIL"} : DevEnds(c, <<>>)
    BY <1>8, Zenon
  <2>2. ASSUME open
        PROVE  /\ toDev' = <<>> /\ at[task] \in {"reply", "pipe"} /\ devUp' = devUp
               /\ c \in Finals(calls[task])
               /\ calls[task] = "Push" /\ c = "OKAY" => stored[task] = Content(0, size[task])
    <3>1. "DATA" # "DONE"
      OBVIOUS
    <3>2. Tail(toDev) = <<>> /\ at[task] = "reply" /\ stored[task] = Content(0, offset[task])
      BY <1>1, <1>2, <1>6, <1>8, <2>2, <3>1, PushHead, Zenon
    <3>3. offset[task] = size[task]
      BY <1>6, <2>2, <3>2, Zenon DEF Link
    <3>4. c \in Finals(calls[task])
      BY <1>1 DEF Finals
    <3> QED BY <1>1, <3>2, <3>3, <3>4, Zenon
  <2>3. c \in {"STAT", "DONE", "OKAY", "FAIL"} /\ <<>> \in Datas
    BY DataFacts, Zenon
  <2> QED BY <1>1, <1>5, <1>8, <2>1, <2>2, <2>3, OrderDevEnds, Zenon
<1> QED BY <1>7, <1>8, Zenon DEF DevStores

LEMMA OrderRejects ==
    ASSUME TypeOK, Orderly, DevRejects
    PROVE  Orderly'
<1>1. /\ devUp /\ task # Idle /\ calls[task] = "Push" /\ toDev # <<>> /\ DevEnds("FAIL", <<>>)
      /\ ~devUp' /\ UNCHANGED clientVars /\ UNCHANGED <<sent, stored>>
      /\ Head(toDev).cmd \notin {"DATA", "DONE"}
  BY Zenon DEF DevRejects
<1>2. toDev \in Seq(Messages)
  BY Zenon DEF TypeOK, WireOK
<1>3. ~open
  <2> SUFFICES ASSUME open PROVE FALSE
    BY Zenon
  <2>1. Body("Push", at[task], task, stored[task], offset[task], toDev)
    BY <1>1, Served, Zenon DEF Pending
  <2> QED BY <1>1, <1>2, <2>1, PushHead, Zenon
<1>4. Serving'
  BY <1>1, Zenon DEF Serving
<1>5. "FAIL" \in {"STAT", "DONE", "OKAY", "FAIL"} /\ <<>> \in Datas
  BY DataFacts, Zenon
<1> QED BY <1>1, <1>3, <1>4, <1>5, OrderDevEnds, Zenon

LEMMA Prefix ==
    ASSUME NEW M, NEW q \in Seq(M), NEW k \in 0..Len(q)
    PROVE  /\ Len(SubSeq(q, 1, k)) = k /\ \A i \in 1..k : SubSeq(q, 1, k)[i] = q[i]
           /\ 1..k \subseteq 1..Len(q)
           /\ q = <<>> => SubSeq(q, 1, k) = <<>>
<1>1. Len(q) \in Nat /\ k \in Nat /\ k <= Len(q)
  OBVIOUS
<1>2. Len(SubSeq(q, 1, k)) = k /\ \A i \in 1..k : SubSeq(q, 1, k)[i] = q[i]
  BY <1>1
<1>3. 1..k \subseteq 1..Len(q)
  BY <1>1
<1>4. q = <<>> => SubSeq(q, 1, k) = <<>>
  BY <1>1, <1>2
<1> QED BY <1>2, <1>3, <1>4, Zenon

LEMMA OrderLost ==
    ASSUME TypeOK, Orderly, DevLost
    PROVE  Orderly'
<1>1. /\ ~devUp' /\ UNCHANGED <<calls, at, offset, size, got, took, result, open>>
      /\ UNCHANGED <<task, sent, final, stored>>
  BY Zenon DEF DevLost, clientVars
<1>2. PICK k \in 0..Len(fromDev) : fromDev' = SubSeq(fromDev, 1, k)
  BY Zenon DEF DevLost
<1>3. fromDev \in Seq(Messages)
  BY Zenon DEF TypeOK, WireOK
<1>4. /\ Len(fromDev') = k /\ \A i \in 1..k : fromDev'[i] = fromDev[i]
      /\ 1..k \subseteq 1..Len(fromDev) /\ (fromDev = <<>> => fromDev' = <<>>)
  BY <1>2, <1>3, Prefix, Zenon
<1>5. Numbered' /\ OneLive' /\ OwnOnly' /\ Listed'
  BY <1>1, Zenon DEF Orderly, Numbered, Blank, OneLive, Live, OwnOnly, Listed
<1>6. Resting'
  BY <1>1, <1>4, Zenon DEF Orderly, Resting, Live, Quiet
<1>7. Serving'
  BY <1>1, Zenon DEF Serving
<1>8. AllTold'
  BY <1>1, Zenon DEF Orderly, AllTold, Told
<1>9. Linked'
  <2> SUFFICES ASSUME open, NEW m \in Calls, Live(m) PROVE Link(m)'
    BY <1>1, Zenon DEF Linked, Live
  <2>1. Link(m)
    BY Zenon DEF Orderly, Linked
  <2>2. PICK r \in 0..Len(sent[m]) : /\ Follow(fromDev, calls[m], m, sent[m], final[m], r)
                                     /\ Delivered(calls[m], got[m], sent[m], r)
    BY <2>1, Zenon DEF Link, Replies
  <2>3. Follow(fromDev', calls[m], m, sent[m], final[m], r)
    BY <1>4, <2>2, Zenon DEF Follow
  <2>4. Replies(m)'
    BY <1>1, <2>2, <2>3, Zenon DEF Replies
  <2> QED BY <1>1, <2>1, <2>4, Zenon DEF Link
<1> QED BY <1>5, <1>6, <1>7, <1>8, <1>9, Zenon DEF Orderly

-----------------------------------------------------------------------------
(* Every step.                                                             *)

LEMMA OrderNext ==
    ASSUME TypeOK, Orderly, ~abandoned', ~devUp => toDev = <<>>, [Next]_vars
    PROVE  Orderly'
<1>1. CASE UNCHANGED vars
  <2>1. /\ UNCHANGED <<calls, at, offset, size, got, took, result, open>>
        /\ UNCHANGED <<toDev, fromDev, devUp, task, sent, final, stored>>
    BY <1>1, Zenon DEF vars, clientVars, devVars
  <2> QED BY <2>1, OrderSame, Zenon
<1>2. ASSUME NEW k \in Kinds, Begin(k) \/ BeginFails(k)
      PROVE  Orderly'
  BY <1>2, OrderBegin, OrderBeginFails, Zenon
<1>3. ASSUME NEW n \in Calls, Step(n)
      PROVE  Orderly'
  <2>1. CASE SourceFails(n) \/ PipeClosed(n)
    BY <2>1, Zenon DEF SourceFails, PipeClosed
  <2>2. CASE ReadSource(n) \/ WriteChunk(n) \/ WriteDone(n) \/ WriteFails(n)
    BY <2>2, OrderSource, OrderChunk, OrderDone, OrderWriteFails, Zenon
  <2>3. CASE StatReply(n) \/ ReaddirEnds(n) \/ ReadFinalReply(n) \/ ReadDataEnds(n)
    BY <2>3, OrderEnds, Zenon
  <2>4. CASE ReaddirEntry(n) \/ ReadDataChunk(n)
    BY <2>4, OrderEntry, OrderData, Zenon
  <2>5. CASE UnexpectedReply(n) \/ ReadError(n)
    BY <2>5, NoneUnexpected, OrderReadError, Zenon
  <2> QED BY <1>3, <2>1, <2>2, <2>3, <2>4, <2>5, Zenon DEF Step
<1>4. ASSUME NEW n \in Calls, PipeRead(n)
      PROVE  Orderly'
  BY <1>4, OrderPipeRead, Zenon
<1>5. ASSUME NEW n \in Calls, CloseReader(n)
      PROVE  Orderly'
  <2>1. /\ UNCHANGED <<calls, at, offset, size, got, took, result, open>>
        /\ UNCHANGED <<toDev, fromDev, devUp, task, sent, final, stored>>
    BY <1>5, Zenon DEF CloseReader, devVars
  <2> QED BY <2>1, OrderSame, Zenon
<1>6. CASE Close
  BY <1>6, OrderClose, Zenon
<1>7. CASE DevStep \/ DevLost
  BY <1>7, OrderTake, OrderDevItem, OrderAnswers, OrderStores, OrderRejects, OrderLost, Zenon
     DEF DevStep
<1> QED BY <1>1, <1>2, <1>3, <1>4, <1>5, <1>6, <1>7, Zenon DEF Next

(* Once a reply is left behind it stays so.                                *)
LEMMA StaysAbandoned ==
    ASSUME [Next]_vars, abandoned
    PROVE  abandoned'
<1>1. CASE UNCHANGED vars
  BY <1>1, Zenon DEF vars, clientVars
<1>2. ASSUME NEW k \in Kinds, Begin(k) \/ BeginFails(k)
      PROVE  abandoned'
  BY <1>2, Zenon DEF Begin, BeginFails
<1>3. ASSUME NEW n \in Calls, Step(n) \/ PipeRead(n) \/ CloseReader(n)
      PROVE  abandoned'
  BY <1>3, Zenon DEF Step, ReadSource, SourceFails, WriteChunk, WriteDone, WriteFails, StatReply,
     ReaddirEntry, ReaddirEnds, ReadFinalReply, ReadDataChunk, ReadDataEnds, UnexpectedReply,
     ReadError, PipeClosed, PipeRead, CloseReader, Leave
<1>4. CASE Close
  BY <1>4, Zenon DEF Close
<1>5. CASE DevStep \/ DevLost
  BY <1>5, Zenon DEF DevStep, DevTake, DevItem, DevAnswers, DevStores, DevRejects, DevLost,
     clientVars
<1> QED BY <1>1, <1>2, <1>3, <1>4, <1>5, Zenon DEF Next

(* Nothing reaches a device that is gone.                                  *)
LEMMA NothingSent ==
    ASSUME [Next]_vars, ~devUp => toDev = <<>>
    PROVE  ~devUp' => toDev' = <<>>
<1>0. ASSUME NEW m, Send(m), devUp' = devUp
      PROVE  ~devUp' => toDev' = <<>>
  BY <1>0, Zenon DEF Send
<1>1. CASE UNCHANGED vars
  BY <1>1, Zenon DEF vars, devVars
<1>2. ASSUME NEW k \in Kinds, Begin(k) \/ BeginFails(k)
      PROVE  ~devUp' => toDev' = <<>>
  <2>1. CASE Begin(k)
    BY <1>0, <2>1, Zenon DEF Begin, devVars
  <2>2. CASE BeginFails(k)
    BY <2>2, Zenon DEF BeginFails, devVars
  <2> QED BY <1>2, <2>1, <2>2, Zenon
<1>3. ASSUME NEW n \in Calls, Step(n) \/ PipeRead(n) \/ CloseReader(n)
      PROVE  ~devUp' => toDev' = <<>>
  <2>1. CASE WriteChunk(n) \/ WriteDone(n)
    BY <1>0, <2>1, Zenon DEF WriteChunk, WriteDone, devVars
  <2>2. CASE \/ ReadSource(n) \/ SourceFails(n) \/ WriteFails(n) \/ PipeClosed(n) \/ CloseReader(n)
             \/ StatReply(n) \/ ReaddirEntry(n) \/ ReaddirEnds(n) \/ ReadFinalReply(n)
             \/ ReadDataChunk(n) \/ ReadDataEnds(n) \/ UnexpectedReply(n) \/ ReadError(n)
             \/ PipeRead(n)
    <3>1. UNCHANGED <<toDev, devUp>>
      BY <2>2, Zenon DEF ReadSource, SourceFails, WriteFails, StatReply,
         ReaddirEntry, ReaddirEnds, ReadFinalReply, ReadDataChunk, ReadDataEnds, UnexpectedReply,
         ReadError, PipeClosed, PipeRead, CloseReader, Leave, devVars
    <3> QED BY <3>1, Zenon
  <2> QED BY <1>3, <2>1, <2>2, Zenon DEF Step
<1>4. CASE Close
  BY <1>4, Zenon DEF Close, devVars
<1>5. CASE DevStep \/ DevLost
  BY <1>5, Zenon DEF DevStep, DevTake, DevItem, DevAnswers, DevStores, DevRejects, DevLost
<1> QED BY <1>1, <1>2, <1>3, <1>4, <1>5, Zenon DEF Next

LEMMA SyncStep == SyncInv /\ [Next]_vars => SyncInv'
<1> SUFFICES ASSUME SyncInv, [Next]_vars PROVE SyncInv'
  BY Zenon
<1>1. TypeOK'
  BY TypeStep, Zenon DEF SyncInv
<1>2. ~devUp' => toDev' = <<>>
  BY NothingSent, Zenon DEF SyncInv
<1>3. ~abandoned' => Orderly'
  BY StaysAbandoned, OrderNext, Zenon DEF SyncInv
<1> QED BY <1>1, <1>2, <1>3, Zenon DEF SyncInv

LEMMA SyncInit == Init => SyncInv
<1> SUFFICES ASSUME Init PROVE SyncInv
  BY Zenon
<1>1. Len(calls) = 0 /\ calls \in Seq(Kinds) /\ 0 <= MaxCalls
  BY MaxCallsAssumption DEF Init
<1>2. <<>> \in Seq(Items) /\ <<>> \in Seq(Messages) /\ 0 \in Items /\ Len(<<>>) = 0
  BY MaxItemsAssumption DEF Items
<1>e. 1..0 = {}
  OBVIOUS
<1>3. TypeOK
  <2>1. CallsOK
    <3>1. Len(calls) <= MaxCalls
      BY <1>1
    <3>2. /\ at \in [Calls -> {"off", "source", "write", "reply", "pipe", "done"}]
          /\ offset \in [Calls -> Items] /\ size \in [Calls -> Items]
          /\ got \in [Calls -> Seq(Items)]
          /\ took \in [Calls -> SUBSET Calls]
      BY <1>2, Zenon DEF Init
    <3>3. /\ result \in [Calls -> {"none", "ok", "error"}]
          /\ reader \in [Calls -> {"none", "open", "closed"}]
      BY Zenon DEF Init
    <3> QED BY <1>1, <3>1, <3>2, <3>3, Zenon DEF CallsOK
  <2>2. WireOK
    BY <1>2, Zenon DEF Init, WireOK
  <2>3. DeviceOK
    BY <1>2, Zenon DEF Init, DeviceOK
  <2> QED BY <2>1, <2>2, <2>3, Zenon DEF TypeOK
<1>4. Numbered
  <2>1. \A n \in Calls : ~(n <= 0)
    BY DEF Calls
  <2> QED BY <1>1, <2>1, Zenon DEF Init, Numbered, Blank
<1>5. \A n \in Calls : ~Live(n)
  BY Zenon DEF Init, Live
<1>6. OneLive /\ Linked
  BY <1>5, Zenon DEF OneLive, Linked
<1>7. OwnOnly
  <2>1. "none" # "ok"
    OBVIOUS
  <2> QED BY <2>1, Zenon DEF OwnOnly, Init
<1>8. Resting
  BY Zenon DEF Resting, Quiet, Init
<1>9. Serving /\ Listed /\ AllTold
  BY <1>1, <1>2, <1>e, Zenon DEF Serving, Listed, AllTold, Init
<1> QED BY <1>3, <1>4, <1>6, <1>7, <1>8, <1>9, Zenon DEF SyncInv, Orderly, Init

LEMMA SyncAlways == Spec => []SyncInv
BY SyncInit, SyncStep, PTL DEF Spec

LEMMA InvOwnReplies == SyncInv => OwnReplies
<1> SUFFICES ASSUME SyncInv PROVE OwnReplies
  BY Zenon
<1>1. TypeOK
  BY Zenon DEF SyncInv
<1>2. ASSUME ~abandoned
      PROVE  /\ \A n \in Calls : took[n] \subseteq {n}
             /\ (open /\ devUp /\ \A n \in 1..Len(calls) : at[n] = "done")
                  => toDev = <<>> /\ fromDev = <<>> /\ task = Idle
  <2>1. Orderly
    BY <1>2, Zenon DEF SyncInv
  <2>2. \A n \in Calls : took[n] \subseteq {n}
    BY <2>1, Zenon DEF Orderly, OwnOnly
  <2>3. ASSUME open, devUp, \A n \in 1..Len(calls) : at[n] = "done"
        PROVE  toDev = <<>> /\ fromDev = <<>> /\ task = Idle
    <3>1. ASSUME NEW n \in Calls PROVE ~Live(n)
      <4>1. CASE n <= Len(calls)
        <5>1. n \in 1..Len(calls)
          BY <1>1, <4>1 DEF Calls, TypeOK, CallsOK
        <5> QED BY <2>3, <5>1, Zenon DEF Live
      <4>2. CASE ~(n <= Len(calls))
        BY <2>1, <4>2, Zenon DEF Orderly, Numbered, Live
      <4> QED BY <4>1, <4>2, Zenon
    <3>2. Quiet
      BY <2>1, <2>3, <3>1, Zenon DEF Orderly, Resting
    <3> QED BY <2>3, <3>2, Zenon DEF Quiet
  <2> QED BY <2>2, <2>3, Zenon
<1> QED BY <1>1, <1>2, Zenon DEF OwnReplies

(* Two lists of which one agrees with the beginning of the other.          *)
LEMMA Agree ==
    ASSUME NEW M, NEW g \in Seq(M), NEW s \in Seq(M), Len(g) <= Len(s),
           \A i \in 1..Len(g) : g[i] = s[i]
    PROVE  /\ \E k \in 0..Len(s) : g = SubSeq(s, 1, k)
           /\ Len(g) = Len(s) => g = s
<1>1. Len(g) \in Nat /\ Len(s) \in Nat
  OBVIOUS
<1>2. Len(g) = Len(s) => g = s
  BY <1>1
<1>3. Len(g) \in 0..Len(s) /\ g = SubSeq(s, 1, Len(g))
  BY <1>1
<1> QED BY <1>2, <1>3, Zenon

LEMMA InvResultsTrue == SyncInv => ResultsTrue
<1> SUFFICES ASSUME SyncInv PROVE ResultsTrue
  BY Zenon
<1>1. ASSUME ~abandoned, NEW n \in 1..Len(calls) PROVE Told(n) /\ n \in Calls
  BY <1>1, CallsFacts, Zenon DEF SyncInv, Orderly, AllTold
<1>2. PullIntact
  <2> SUFFICES ASSUME NEW n \in 1..Len(calls), calls[n] \in Pulls, ~abandoned
               PROVE  /\ \E k \in 0..Len(sent[n]) : got[n] = SubSeq(sent[n], 1, k)
                      /\ (result[n] = "ok" /\ devUp) => final[n] = "DONE" /\ got[n] = sent[n]
    BY Zenon DEF PullIntact
  <2>1. n \in Calls /\ Told(n)
    BY <1>1, Zenon
  <2>2. got[n] \in Seq(Items) /\ sent[n] \in Seq(Items)
    BY <2>1, Zenon DEF SyncInv, TypeOK, CallsOK, DeviceOK
  <2>3. /\ Len(got[n]) <= Len(sent[n]) /\ \A i \in 1..Len(got[n]) : got[n][i] = sent[n][i]
        /\ (result[n] = "ok" /\ devUp) => final[n] = "DONE" /\ Len(got[n]) = Len(sent[n])
    BY <2>1, Zenon DEF Told
  <2>4. /\ \E k \in 0..Len(sent[n]) : got[n] = SubSeq(sent[n], 1, k)
        /\ Len(got[n]) = Len(sent[n]) => got[n] = sent[n]
    <3>1. PICK g \in Seq(Items), s \in Seq(Items) : g = got[n] /\ s = sent[n]
      BY <2>2, Zenon
    <3>2. Len(g) <= Len(s) /\ \A i \in 1..Len(g) : g[i] = s[i]
      BY <2>3, <3>1, Zenon
    <3>3. /\ \E k \in 0..Len(s) : g = SubSeq(s, 1, k)
          /\ Len(g) = Len(s) => g = s
      BY <3>2, Agree
    <3> QED BY <3>1, <3>3, Zenon
  <2> QED BY <2>3, <2>4, Zenon
<1>3. ListComplete
  BY <1>1, Zenon DEF ListComplete, Told
<1>4. PushStored
  BY <1>1, Zenon DEF PushStored, Told
<1> QED BY <1>2, <1>3, <1>4, Zenon DEF ResultsTrue

(* While no reply was left behind, each call reads the replies to its own  *)
(* request only, and between calls a session with both ends there has      *)
(* nothing under way: the methods of SyncService leave the connection at a *)
(* message boundary, however many calls were made, with files and          *)
(* directories of any length, whatever order the two ends ran in.          *)
THEOREM SyncBoundaries == Spec => []OwnReplies
BY SyncAlways, InvOwnReplies, PTL

(* While no reply was left behind, what Pull, ReadFile, Readdir and Push   *)
(* tell their callers is what happened on the device: a reader gets a      *)
(* prefix of the file, all of it if it ends without error while the device *)
(* is there; a list that is returned is complete; and a Push that succeeds *)
(* was acknowledged by a device that has the whole content, in order.      *)
THEOREM SyncResults == Spec => []ResultsTrue
BY SyncAlways, InvResultsTrue, PTL

=============================================================================
