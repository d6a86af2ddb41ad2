---------------------------- MODULE SyncService -----------------------------
(***************************************************************************)
(* A sync session with a device: adb/sync.go, as used by its callers and   *)
(* by adb/device_file.go.  One caller makes calls, numbered from 1; Stat,  *)
(* Readdir, Push and ReadFile run to their end before it goes on, while    *)
(* Pull returns a reader fed by a goroutine that goes on reading replies   *)
(* from the same connection.                                               *)
(*                                                                         *)
(* A request or reply is one message: its identifier, the call it belongs  *)
(* to and its content.  A reply is read in one step.  That is what happens *)
(* when one goroutine reads; when a Pull overlaps another call the code    *)
(* may also interleave inside a message, so the model then shows some of   *)
(* what can go wrong and not all of it.                                    *)
(***************************************************************************)
EXTENDS Naturals, Sequences

CONSTANTS
    MaxCalls,  \* calls made on the session
    MaxItems,  \* chunks of a file, entries of a directory
    ChunkMax   \* DATA_MAX_LENGTH, in items

ASSUME MaxCallsAssumption == MaxCalls \in Nat
ASSUME MaxItemsAssumption == MaxItems \in Nat \ {0}
ASSUME ChunkMaxAssumption == ChunkMax \in Nat \ {0}

VARIABLES
    calls,     \* the calls made so far
    at,        \* where the goroutine that executes each call is
    offset,    \* items of a pushed file already sent
    size,      \* its length
    got,       \* content a call has delivered
    took,      \* whose replies a call has read
    result,    \* what each call ends with
    reader,    \* the reader Pull returned: "none", "open", "closed"
    open,      \* SyncService.conn is open on this side
    toDev,     \* requests the device has not read
    fromDev,   \* replies not yet read
    devUp,     \* the device still serves the session
    task,      \* the request the device is serving
    sent,      \* content the device has sent for each call
    final,     \* the message that ended the device's reply to each call
    stored,    \* content the device has received for each call
    abandoned  \* a call was left with its reply unread

clientVars == <<calls, at, offset, size, got, took, result, reader, open, abandoned>>
devVars == <<devUp, task, sent, final, stored>>
vars == <<clientVars, toDev, fromDev, devVars>>

Calls == 1..MaxCalls
Kinds == {"Stat", "Readdir", "Push", "Pull", "ReadFile"}
Pulls == {"Pull", "ReadFile"}
Items == 0..MaxItems
Idle == 0

Message(cmd, n, data) == [cmd |-> cmd, call |-> n, data |-> data]

(* The identifier each call starts with. *)
Identifier(k) == CASE k = "Stat" -> "STAT"
                   [] k = "Readdir" -> "LIST"
                   [] k = "Push" -> "SEND"
                   [] k \in Pulls -> "RECV"

(* The call the caller is inside of: only Pull returns before its end.     *)
Busy == \E n \in 1..Len(calls) : calls[n] # "Pull" /\ at[n] # "done"

-----------------------------------------------------------------------------
(* Calls.  A write to a closed connection fails; one to a device that is   *)
(* gone fails or is lost.                                                  *)

Send(m) == toDev' = IF devUp THEN Append(toDev, m) ELSE toDev

Ends(n, r) ==
    /\ at' = [at EXCEPT ![n] = "done"]
    /\ result' = [result EXCEPT ![n] = r]

(* sendCommandWithArg, the first statement of every call.  Push and        *)
(* PushContent differ in where the content comes from.                     *)
Begin(k) ==
    LET n == Len(calls) + 1 IN
    /\ n \in Calls
    /\ ~Busy
    /\ open
    /\ calls' = Append(calls, k)
    /\ at' = [at EXCEPT ![n] = IF k = "Push" THEN "source" ELSE "reply"]
    /\ reader' = [reader EXCEPT ![n] = IF k = "Pull" THEN "open" ELSE "none"]
    /\ Send(Message(Identifier(k), n, <<>>))
    /\ abandoned' = (abandoned \/ \E i \in 1..Len(calls) : at[i] # "done")
    /\ UNCHANGED <<offset, size, got, took, result, open, fromDev, devVars>>

BeginFails(k) ==
    LET n == Len(calls) + 1 IN
    /\ n \in Calls
    /\ ~Busy
    /\ ~open \/ ~devUp
    /\ calls' = Append(calls, k)
    /\ Ends(n, "error")
    /\ UNCHANGED <<offset, size, got, took, reader, open, abandoned, toDev,
                   fromDev, devVars>>

(* io.ReadAll(reader) in Push; PushContent has the content already.        *)
ReadSource(n) ==
    /\ at[n] = "source"
    /\ \E l \in 0..MaxItems : size' = [size EXCEPT ![n] = l]
    /\ at' = [at EXCEPT ![n] = "write"]
    /\ UNCHANGED <<calls, offset, got, took, result, reader, open, abandoned,
                   toDev, fromDev, devVars>>

(* The reader failed: Push returns, with its SEND request outstanding.     *)
SourceFails(n) ==
    /\ at[n] = "source"
    /\ Ends(n, "error")
    /\ abandoned' = TRUE
    /\ UNCHANGED <<calls, offset, size, got, took, reader, open, toDev, fromDev,
                   devVars>>

(* writeData: a chunk, or DONE after the last one.                         *)
ChunkSize(n) == IF offset[n] + ChunkMax > size[n] THEN size[n] - offset[n] ELSE ChunkMax

Content(first, last) == [i \in 1..(last - first) |-> first + i]

WriteChunk(n) ==
    /\ at[n] = "write"
    /\ offset[n] < size[n]
    /\ open
    /\ Send(Message("DATA", n, Content(offset[n], offset[n] + ChunkSize(n))))
    /\ offset' = [offset EXCEPT ![n] = @ + ChunkSize(n)]
    /\ UNCHANGED <<calls, at, size, got, took, result, reader, open, abandoned,
                   fromDev, devVars>>

(* Mutant of WriteDone: does not wait for the final reply.                 *)
WriteDoneReturns(n) ==
    /\ at[n] = "write"
    /\ offset[n] >= size[n]
    /\ open
    /\ Send(Message("DONE", n, <<>>))
    /\ Ends(n, "ok")
    /\ UNCHANGED <<calls, offset, size, got, took, reader, open, abandoned,
                   fromDev, devVars>>

WriteDone(n) ==
    /\ at[n] = "write"
    /\ offset[n] >= size[n]
    /\ open
    /\ Send(Message("DONE", n, <<>>))
    /\ at' = [at EXCEPT ![n] = "reply"]
    /\ UNCHANGED <<calls, offset, size, got, took, result, reader, open, abandoned,
                   fromDev, devVars>>

WriteFails(n) ==
    /\ at[n] = "write"
    /\ ~open \/ ~devUp
    /\ Ends(n, "error")
    /\ UNCHANGED <<calls, offset, size, got, took, reader, open, abandoned, toDev,
                   fromDev, devVars>>

-----------------------------------------------------------------------------
(* Replies.                                                                *)

(* Whatever reads the connection for call n takes the next reply.          *)
Take(n) ==
    /\ at[n] = "reply"
    /\ open
    /\ fromDev # <<>>
    /\ fromDev' = Tail(fromDev)
    /\ took' = [took EXCEPT ![n] = @ \cup {Head(fromDev).call}]

Reply == Head(fromDev)

Continue(n) ==
    /\ got' = [got EXCEPT ![n] = @ \o Reply.data]
    /\ UNCHANGED result

Leave == UNCHANGED <<calls, offset, size, reader, open, abandoned, toDev, devVars>>

(* Stat: a mode of zero means there is no such file.                       *)
StatReply(n) ==
    /\ Take(n)
    /\ calls[n] = "Stat"
    /\ Reply.cmd \in {"STAT", "FAIL"}
    /\ Ends(n, IF Reply.cmd = "STAT" /\ Reply.data # <<0>> THEN "ok" ELSE "error")
    /\ UNCHANGED got
    /\ Leave

(* Item 0 is the entry "." or "..": Readdir leaves it out.                 *)
ReaddirEntry(n) ==
    /\ Take(n)
    /\ calls[n] = "Readdir"
    /\ Reply.cmd = "DENT"
    /\ got' = [got EXCEPT ![n] = IF Reply.data = <<0>> THEN @ ELSE @ \o Reply.data]
    /\ UNCHANGED <<at, result>>
    /\ Leave

ReaddirEnds(n) ==
    /\ Take(n)
    /\ calls[n] = "Readdir"
    /\ Reply.cmd \in {"DONE", "FAIL"}
    /\ Ends(n, IF Reply.cmd = "DONE" THEN "ok" ELSE "error")
    /\ UNCHANGED got
    /\ Leave

ReadFinalReply(n) ==
    /\ Take(n)
    /\ calls[n] = "Push"
    /\ Reply.cmd \in {"OKAY", "FAIL"}
    /\ Ends(n, IF Reply.cmd = "OKAY" THEN "ok" ELSE "error")
    /\ UNCHANGED got
    /\ Leave

(* readData, in the goroutine of Pull: content goes to the pipe, where it  *)
(* waits until it is read.                                                 *)
ReadDataChunk(n) ==
    /\ Take(n)
    /\ calls[n] \in Pulls
    /\ Reply.cmd = "DATA"
    /\ Continue(n)
    /\ at' = [at EXCEPT ![n] = "pipe"]
    /\ Leave

(* Mutants of ReadDataEnds: FAIL ends the file like DONE; DONE is skipped. *)
ReadDataIgnoresFail(n) ==
    /\ Take(n)
    /\ calls[n] \in Pulls
    /\ Reply.cmd \in {"DONE", "FAIL"}
    /\ Ends(n, "ok")
    /\ UNCHANGED got
    /\ Leave

ReadDataGoesOn(n) ==
    /\ Take(n)
    /\ calls[n] \in Pulls
    /\ Reply.cmd \in {"DONE", "FAIL"}
    /\ IF Reply.cmd = "FAIL" THEN Ends(n, "error") ELSE UNCHANGED <<at, result>>
    /\ UNCHANGED got
    /\ Leave

(* The goroutine closes the pipe: without an error after DONE.             *)
ReadDataEnds(n) ==
    /\ Take(n)
    /\ calls[n] \in Pulls
    /\ Reply.cmd \in {"DONE", "FAIL"}
    /\ Ends(n, IF Reply.cmd = "DONE" THEN "ok" ELSE "error")
    /\ UNCHANGED got
    /\ Leave

Expected(k) == CASE k = "Stat" -> {"STAT", "FAIL"}
                 [] k = "Readdir" -> {"DENT", "DONE", "FAIL"}
                 [] k = "Push" -> {"OKAY", "FAIL"}
                 [] k \in Pulls -> {"DATA", "DONE", "FAIL"}

(* Any other identifier is an error; what followed it is not read, and the *)
(* next four bytes are taken for an identifier.                            *)
UnexpectedReply(n) ==
    /\ at[n] = "reply"
    /\ open
    /\ fromDev # <<>>
    /\ Reply.cmd \notin Expected(calls[n])
    /\ took' = [took EXCEPT ![n] = @ \cup {Reply.call}]
    /\ fromDev' \in {Tail(fromDev), <<[Reply EXCEPT !.cmd = "rest"]>> \o Tail(fromDev)}
    /\ Ends(n, "error")
    /\ UNCHANGED got
    /\ Leave

(* The connection ends or is closed.  io.ReadFull gives io.EOF when not a  *)
(* byte of the field could be read.  The goroutine of Pull closes the pipe *)
(* with that error, and a pipe closed with io.EOF ends like a whole file.  *)
ReadError(n) ==
    /\ at[n] = "reply"
    /\ ~open \/ (~devUp /\ fromDev = <<>>)
    /\ \E r \in {"ok", "error"} :
         /\ r = "ok" => open /\ calls[n] \in Pulls
         /\ Ends(n, r)
    /\ UNCHANGED <<got, took, fromDev>>
    /\ Leave

(* The pipe's reader: ReadFile's io.ReadAll, or whoever called Pull.       *)
PipeRead(n) ==
    /\ at[n] = "pipe"
    /\ calls[n] = "ReadFile" \/ reader[n] = "open"
    /\ at' = [at EXCEPT ![n] = "reply"]
    /\ UNCHANGED <<got, took, fromDev, result>>
    /\ Leave

CloseReader(n) ==
    /\ reader[n] = "open"
    /\ reader' = [reader EXCEPT ![n] = "closed"]
    /\ UNCHANGED <<calls, at, offset, size, got, took, result, open, abandoned,
                   toDev, fromDev, devVars>>

(* Writing to a pipe whose reader is closed fails: readData returns with   *)
(* the rest of the reply unread.                                           *)
PipeClosed(n) ==
    /\ at[n] = "pipe"
    /\ reader[n] = "closed"
    /\ Ends(n, "error")
    /\ abandoned' = TRUE
    /\ UNCHANGED <<calls, offset, size, got, took, reader, open, toDev, fromDev,
                   devVars>>

Close ==
    /\ open
    /\ open' = FALSE
    /\ UNCHANGED <<calls, at, offset, size, got, took, result, reader, abandoned,
                   toDev, fromDev, devVars>>

-----------------------------------------------------------------------------
(* The device (external): serves one request at a time, in order.          *)

DevTake ==
    /\ devUp
    /\ task = Idle
    /\ toDev # <<>>
    /\ Head(toDev).cmd \notin {"DATA", "DONE"}
    /\ task' = Head(toDev).call
    /\ toDev' = Tail(toDev)
    /\ UNCHANGED <<clientVars, fromDev, devUp, sent, final, stored>>

DevItem ==
    /\ devUp
    /\ task # Idle
    /\ calls[task] \in Pulls \cup {"Readdir"}
    /\ Len(sent[task]) < MaxItems
    /\ \E e \in {0, Len(sent[task]) + 1} :
         /\ calls[task] \in Pulls => e # 0
         /\ sent' = [sent EXCEPT ![task] = Append(@, e)]
         /\ fromDev' = Append(fromDev,
              Message(IF calls[task] \in Pulls THEN "DATA" ELSE "DENT", task, <<e>>))
    /\ UNCHANGED <<clientVars, toDev, devUp, task, final, stored>>

DevEnds(cmd, data) ==
    /\ final' = [final EXCEPT ![task] = cmd]
    /\ fromDev' = Append(fromDev, Message(cmd, task, data))
    /\ task' = Idle

DevAnswers ==
    /\ devUp
    /\ task # Idle
    /\ calls[task] # "Push"
    /\ \/ calls[task] = "Stat" /\ \E mode \in 0..1 : DevEnds("STAT", <<mode>>)
       \/ calls[task] # "Stat" /\ DevEnds("DONE", <<>>)
       \/ DevEnds("FAIL", <<>>)
    /\ UNCHANGED <<clientVars, toDev, devUp, sent, stored>>

DevStores ==
    /\ devUp
    /\ task # Idle
    /\ calls[task] = "Push"
    /\ toDev # <<>>
    /\ toDev' = Tail(toDev)
    /\ \/ /\ Head(toDev).cmd = "DATA"
          /\ stored' = [stored EXCEPT ![task] = @ \o Head(toDev).data]
          /\ UNCHANGED <<fromDev, task, final>>
       \/ /\ Head(toDev).cmd = "DONE"
          /\ \E cmd \in {"OKAY", "FAIL"} : DevEnds(cmd, <<>>)
          /\ UNCHANGED stored
    /\ UNCHANGED <<clientVars, devUp, sent>>

(* A request in the middle of a pushed file: FAIL, and the session ends.   *)
DevRejects ==
    /\ devUp
    /\ task # Idle
    /\ calls[task] = "Push"
    /\ toDev # <<>>
    /\ Head(toDev).cmd \notin {"DATA", "DONE"}
    /\ DevEnds("FAIL", <<>>)
    /\ devUp' = FALSE
    /\ toDev' = <<>>
    /\ UNCHANGED <<clientVars, sent, stored>>

(* The connection is lost, and with it the replies still on their way.     *)
DevLost ==
    /\ devUp
    /\ devUp' = FALSE
    /\ toDev' = <<>>
    /\ \E k \in 0..Len(fromDev) : fromDev' = SubSeq(fromDev, 1, k)
    /\ UNCHANGED <<clientVars, task, sent, final, stored>>

-----------------------------------------------------------------------------
(* NewSyncService: the device has accepted "sync:".                        *)
Init ==
    /\ calls = <<>>
    /\ at = [n \in Calls |-> "off"]
    /\ offset = [n \in Calls |-> 0]
    /\ size = [n \in Calls |-> 0]
    /\ got = [n \in Calls |-> <<>>]
    /\ took = [n \in Calls |-> {}]
    /\ result = [n \in Calls |-> "none"]
    /\ reader = [n \in Calls |-> "none"]
    /\ open = TRUE
    /\ abandoned = FALSE
    /\ toDev = <<>>
    /\ fromDev = <<>>
    /\ devUp = TRUE
    /\ task = Idle
    /\ sent = [n \in Calls |-> <<>>]
    /\ final = [n \in Calls |-> "none"]
    /\ stored = [n \in Calls |-> <<>>]

(* What the call's own goroutine does, whoever made the call.              *)
Step(n) ==
    \/ ReadSource(n) \/ SourceFails(n)
    \/ WriteChunk(n) \/ WriteDone(n) \/ WriteFails(n)
    \/ StatReply(n) \/ ReaddirEntry(n) \/ ReaddirEnds(n) \/ ReadFinalReply(n)
    \/ ReadDataChunk(n) \/ ReadDataEnds(n)
    \/ UnexpectedReply(n) \/ ReadError(n)
    \/ PipeClosed(n)

DevStep == DevTake \/ DevItem \/ DevAnswers \/ DevStores \/ DevRejects

Next ==
    \/ \E k \in Kinds : Begin(k) \/ BeginFails(k)
    \/ \E n \in Calls : Step(n) \/ PipeRead(n) \/ CloseReader(n)
    \/ Close
    \/ DevStep \/ DevLost

Spec == Init /\ [][Next]_vars

(* Every goroutine that can run does; io.ReadAll in ReadFile keeps reading *)
(* and the device keeps serving until the session is lost.  Nothing is     *)
(* assumed of whoever holds the reader Pull returned.                      *)
FairSpec ==
    /\ Spec
    /\ \A n \in Calls : WF_vars(Step(n))
    /\ \A n \in Calls : WF_vars(PipeRead(n) /\ calls[n] = "ReadFile")
    /\ WF_vars(DevStep)

(* The calls of the sync service example in the repository's README, with  *)
(* its reader left alone until the end and a device that always answers;   *)
(* the file it reads twice has MaxItems chunks.                            *)
ReadmeCalls == <<"Readdir", "Pull", "ReadFile">>

ReadmeNext ==
    /\ Next
    /\ open' /\ devUp'
    /\ \E k \in 0..Len(ReadmeCalls) : calls' = SubSeq(ReadmeCalls, 1, k)
    /\ reader'[2] # "closed"
    /\ at[2] = "pipe" => at'[2] = "pipe"
    /\ \A n \in 2..3 : final'[n] # "none" => /\ final'[n] = "DONE"
                                               /\ Len(sent[n]) = MaxItems

ReadmeSpec == Init /\ [][ReadmeNext]_vars

-----------------------------------------------------------------------------
Commands == {"STAT", "LIST", "SEND", "RECV", "DENT", "DATA", "DONE", "OKAY",
             "FAIL", "rest"}

(* No message carries more than DATA_MAX_LENGTH (writeData).               *)
Datas == UNION {[1..l -> Items] : l \in 0..ChunkMax}
Messages == [cmd : Commands, call : Calls, data : Datas]

CallsOK ==
    /\ calls \in Seq(Kinds) /\ Len(calls) <= MaxCalls
    /\ at \in [Calls -> {"off", "source", "write", "reply", "pipe", "done"}]
    /\ offset \in [Calls -> Items] /\ size \in [Calls -> Items]
    /\ got \in [Calls -> Seq(Items)]
    /\ took \in [Calls -> SUBSET Calls]
    /\ result \in [Calls -> {"none", "ok", "error"}]
    /\ reader \in [Calls -> {"none", "open", "closed"}]

WireOK ==
    /\ toDev \in Seq(Messages) /\ fromDev \in Seq(Messages)
    /\ open \in BOOLEAN /\ devUp \in BOOLEAN /\ abandoned \in BOOLEAN

DeviceOK ==
    /\ task \in {Idle} \cup Calls
    /\ sent \in [Calls -> Seq(Items)]
    /\ final \in [Calls -> {"none", "STAT", "DONE", "OKAY", "FAIL"}]
    /\ stored \in [Calls -> Seq(Items)]

TypeOK == CallsOK /\ WireOK /\ DeviceOK

(* OwnReplies: while no call has left a reply behind, each call has read   *)
(* the replies to its own request and no others, however the calls before  *)
(* it ended: with success, with FAIL, or with a Pull whose reader was      *)
(* closed after the last chunk.  Between calls the session is at a message *)
(* boundary: if both ends are there, all requests are served and all       *)
(* replies read.  (And every variable keeps its type.)                     *)
OwnReplies ==
    /\ TypeOK
    /\ ~abandoned =>
         /\ \A n \in Calls : took[n] \subseteq {n}
         /\ (open /\ devUp /\ \A n \in 1..Len(calls) : at[n] = "done")
              => toDev = <<>> /\ fromDev = <<>> /\ task = Idle

(* PullIntact: what readData passes on is a prefix of the file, and while  *)
(* the device is there the reader ends without an error only after DONE,   *)
(* with the whole file.                                                    *)
PullIntact ==
    \A n \in 1..Len(calls) :
        (calls[n] \in Pulls /\ ~abandoned)
            => /\ \E k \in 0..Len(sent[n]) : got[n] = SubSeq(sent[n], 1, k)
               /\ (result[n] = "ok" /\ devUp) => final[n] = "DONE" /\ got[n] = sent[n]

(* The members of a set of numbers, in order.                              *)
Lists(q, K) ==
    /\ \A i, j \in 1..Len(q) : i < j => q[i] < q[j]
    /\ {q[i] : i \in 1..Len(q)} = K

(* The entries of n items that the device listed, but "." and "..".        *)
Entries(items, n) == {i \in 1..n : items[i] # 0}

(* ListComplete: a Readdir that succeeds returns every entry the device    *)
(* listed but "." and "..", in order; FAIL or a lost connection never      *)
(* makes a short list a success.                                           *)
ListComplete ==
    \A n \in 1..Len(calls) :
        (calls[n] = "Readdir" /\ result[n] = "ok" /\ ~abandoned)
            => final[n] = "DONE" /\ Lists(got[n], Entries(sent[n], Len(sent[n])))

(* PushStored: a Push that succeeds was acknowledged by the device, which  *)
(* has the content, whole and in order, in however many chunks writeData   *)
(* sent it.                                                                *)
PushStored ==
    \A n \in 1..Len(calls) :
        (calls[n] = "Push" /\ result[n] = "ok" /\ ~abandoned)
            => final[n] = "OKAY" /\ stored[n] = Content(0, size[n])

(* ResultsTrue: the outcome a caller of Pull, ReadFile, Readdir or Push    *)
(* sees is what happened on the device.                                    *)
ResultsTrue == PullIntact /\ ListComplete /\ PushStored

(* CallReturns: every call that blocks its caller returns, unless a reply  *)
(* was left behind: each request gets exactly the replies the code reads.  *)
CallReturns == (Busy /\ ~abandoned) ~> (~Busy \/ abandoned)

(* WholeFile: a ReadFile that succeeds returns the content of the file.    *)
WholeFile ==
    \A n \in 1..Len(calls) :
        (calls[n] = "ReadFile" /\ result[n] = "ok" /\ ~abandoned)
            => final[n] = "DONE" /\ got[n] = sent[n]

(* ReadFileReads: in the README's example ReadFile returns the file.       *)
ReadFileReads ==
    \A n \in 1..Len(calls) :
        (calls[n] = "ReadFile" /\ result[n] = "ok") => got[n] = Content(0, MaxItems)

=============================================================================
