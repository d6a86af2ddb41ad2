------------------------------ MODULE ShellV2 -------------------------------
(***************************************************************************)
(* A shell protocol v2 session and RunCommandV2Context, which waits for    *)
(* it: adb/device_shell_v2.go once the service has been opened.  The       *)
(* goroutines are the session's readLoop, the two that read stdout and     *)
(* stderr to the end, the one that watches the context, and the caller.    *)
(*                                                                         *)
(* The device sends frames; a frame of stdout or stderr is known by its    *)
(* number.  A stream's mutex is never held across a blocking call, except  *)
(* by cond.Wait, which releases it: a goroutine in cond.Wait goes on only  *)
(* after a Broadcast.                                                      *)
(***************************************************************************)
EXTENDS Naturals, Sequences

CONSTANT MaxFrames   \* frames the device sends

ASSUME MaxFramesAssumption == MaxFrames \in Nat

VARIABLES
    frames,    \* what the device has sent
    dev,       \* the device's end: "open", "eof", or "cut" inside a frame
    taken,     \* frames readLoop has read
    loop,      \* where readLoop is
    buf,       \* shellV2Stream.buf of each stream: numbers of frames
    closed,    \* shellV2Stream.closed
    rpc,       \* where the goroutine that reads each stream is
    got,       \* what it has read
    done,      \* session.done is closed
    gotExit,   \* session.gotExit
    exitCode,  \* session.exitCode
    err,       \* session.err # nil
    open,      \* the transport is open on this side
    cancelled, \* the context is cancelled
    watcher,   \* where the goroutine that watches the context is
    caller,    \* where RunCommandV2Context is
    result     \* what it returns: "none", "error" or "ok"

vars == <<frames, dev, taken, loop, buf, closed, rpc, got, done, gotExit,
          exitCode, err, open, cancelled, watcher, caller, result>>

sessionVars == <<loop, taken, buf, closed, rpc, got, done, gotExit, exitCode, err>>
callerVars == <<cancelled, watcher, caller, result>>

Streams == {"stdout", "stderr"}

(* data is 0 for an empty payload, else its first byte; a frame that is    *)
(* "huge" claims more than shellV2MaxPayload.                              *)
Frame == [id : Streams \cup {"exit"}, data : 0..1]
           \cup [id : {"other", "huge"}, data : {0}]

-----------------------------------------------------------------------------
(* The device.                                                             *)

DeviceSends ==
    /\ dev = "open"
    /\ Len(frames) < MaxFrames
    /\ \E f \in Frame : frames' = Append(frames, f)
    /\ UNCHANGED <<dev, open, sessionVars, callerVars>>

DeviceCloses ==
    /\ dev = "open"
    /\ dev' \in {"eof", "cut"}
    /\ UNCHANGED <<frames, open, sessionVars, callerVars>>

-----------------------------------------------------------------------------
(* readLoop with readShellV2Packet.                                        *)

(* cond.Broadcast: whoever waits on the stream looks at it again.          *)
Woken(s) == [rpc EXCEPT ![s] = IF @ = "wait" THEN "check" ELSE @]

(* shellV2Stream.write.                                                    *)
StreamWrite(s, n) ==
    /\ buf' = [buf EXCEPT ![s] = Append(@, n)]
    /\ rpc' = Woken(s)

(* Mutant of TakeOutput: waits until the stream has been read, like a pipe. *)
TakeWhenDrained ==
    /\ loop = "read"
    /\ open
    /\ taken < Len(frames)
    /\ frames[taken + 1].id \in Streams
    /\ taken' = taken + 1
    /\ buf[frames[taken + 1].id] = <<>>
    /\ IF frames[taken + 1].data = 0
         THEN UNCHANGED <<buf, rpc>>
         ELSE StreamWrite(frames[taken + 1].id, taken + 1)
    /\ UNCHANGED <<frames, dev, open, loop, closed, got, done, gotExit, exitCode,
                   err, callerVars>>

TakeOutput ==
    /\ loop = "read"
    /\ open
    /\ taken < Len(frames)
    /\ frames[taken + 1].id \in Streams
    /\ taken' = taken + 1
    /\ IF frames[taken + 1].data = 0
         THEN UNCHANGED <<buf, rpc>>
         ELSE StreamWrite(frames[taken + 1].id, taken + 1)
    /\ UNCHANGED <<frames, dev, open, loop, closed, got, done, gotExit, exitCode,
                   err, callerVars>>

TakeExit ==
    /\ loop = "read"
    /\ open
    /\ taken < Len(frames)
    /\ frames[taken + 1].id = "exit"
    /\ taken' = taken + 1
    /\ gotExit' = TRUE
    /\ exitCode' = IF frames[taken + 1].data > 0 THEN frames[taken + 1].data ELSE exitCode
    /\ loop' = "closeErr"
    /\ UNCHANGED <<frames, dev, open, buf, closed, rpc, got, done, err, callerVars>>

(* Frames with other ids are ignored; one that is too large is an error.   *)
TakeOther ==
    /\ loop = "read"
    /\ open
    /\ taken < Len(frames)
    /\ frames[taken + 1].id \in {"other", "huge"}
    /\ taken' = taken + 1
    /\ IF frames[taken + 1].id = "huge"
         THEN err' = TRUE /\ loop' = "closeErr"
         ELSE UNCHANGED <<err, loop>>
    /\ UNCHANGED <<frames, dev, open, buf, closed, rpc, got, done, gotExit,
                   exitCode, callerVars>>

(* The transport ends, is cut or has been closed here; only io.EOF is not  *)
(* kept as an error.                                                       *)
ReadError ==
    /\ loop = "read"
    /\ \/ ~open /\ err' = TRUE
       \/ open /\ taken = Len(frames) /\ dev # "open" /\ err' = (dev = "cut")
    /\ loop' = "closeErr"
    /\ UNCHANGED <<frames, dev, open, taken, buf, closed, rpc, got, done, gotExit,
                   exitCode, callerVars>>

(* Mutant of StreamClose: does not wake the reader.                        *)
StreamCloseQuiet(s) ==
    /\ closed' = [closed EXCEPT ![s] = TRUE]
    /\ UNCHANGED rpc

(* shellV2Stream.close.                                                    *)
StreamClose(s) ==
    /\ closed' = [closed EXCEPT ![s] = TRUE]
    /\ rpc' = Woken(s)

(* The deferred calls of readLoop, in the order they run.                  *)
LoopReturns ==
    /\ \/ /\ loop = "closeErr" /\ loop' = "closeOut"
          /\ StreamClose("stderr") /\ UNCHANGED <<open, done>>
       \/ /\ loop = "closeOut" /\ loop' = "closeTransport"
          /\ StreamClose("stdout") /\ UNCHANGED <<open, done>>
       \/ /\ loop = "closeTransport" /\ loop' = "closeDone"
          /\ open' = FALSE /\ UNCHANGED <<closed, rpc, done>>
       \/ /\ loop = "closeDone" /\ loop' = "exit"
          /\ done' = TRUE /\ UNCHANGED <<closed, rpc, open>>
    /\ UNCHANGED <<frames, dev, taken, buf, got, gotExit, exitCode, err, callerVars>>

ReadLoop == TakeOutput \/ TakeExit \/ TakeOther \/ ReadError \/ LoopReturns

-----------------------------------------------------------------------------
(* io.ReadAll on a stream.                                                 *)

(* Mutant of StreamRead: returns io.EOF on a closed stream that has data.  *)
StreamReadClosed(s) ==
    /\ rpc[s] = "check"
    /\ \/ /\ ~closed[s] /\ buf[s] # <<>>
          /\ \E n \in 1..Len(buf[s]) :
               /\ got' = [got EXCEPT ![s] = @ \o SubSeq(buf[s], 1, n)]
               /\ buf' = [buf EXCEPT ![s] = SubSeq(@, n + 1, Len(@))]
          /\ UNCHANGED rpc
       \/ /\ ~closed[s] /\ buf[s] = <<>>
          /\ rpc' = [rpc EXCEPT ![s] = "wait"]
          /\ UNCHANGED <<got, buf>>
       \/ /\ closed[s]
          /\ rpc' = [rpc EXCEPT ![s] = "returned"]
          /\ UNCHANGED <<got, buf>>
    /\ UNCHANGED <<frames, dev, open, taken, loop, closed, done, gotExit, exitCode,
                   err, callerVars>>

(* shellV2Stream.Read: take what there is, wait, or io.EOF.                *)
StreamRead(s) ==
    /\ rpc[s] = "check"
    /\ \/ /\ buf[s] # <<>>
          /\ \E n \in 1..Len(buf[s]) :
               /\ got' = [got EXCEPT ![s] = @ \o SubSeq(buf[s], 1, n)]
               /\ buf' = [buf EXCEPT ![s] = SubSeq(@, n + 1, Len(@))]
          /\ UNCHANGED rpc
       \/ /\ buf[s] = <<>> /\ ~closed[s]
          /\ rpc' = [rpc EXCEPT ![s] = "wait"]
          /\ UNCHANGED <<got, buf>>
       \/ /\ buf[s] = <<>> /\ closed[s]
          /\ rpc' = [rpc EXCEPT ![s] = "returned"]
          /\ UNCHANGED <<got, buf>>
    /\ UNCHANGED <<frames, dev, open, taken, loop, closed, done, gotExit, exitCode,
                   err, callerVars>>

-----------------------------------------------------------------------------
(* RunCommandV2Context.                                                    *)

Cancel ==
    /\ ~cancelled
    /\ cancelled' = TRUE
    /\ UNCHANGED <<frames, dev, open, sessionVars, watcher, caller, result>>

(* The goroutine that closes the session when the context is cancelled.    *)
Watch ==
    /\ watcher = "select"
    /\ \/ cancelled /\ open' = FALSE
       \/ done /\ UNCHANGED open
    /\ watcher' = "exit"
    /\ UNCHANGED <<frames, dev, sessionVars, cancelled, caller, result>>

(* <-stdoutCh, <-stderrCh, then session.Wait                               *)
Await ==
    /\ \/ caller = "stdout" /\ rpc["stdout"] = "returned" /\ caller' = "stderr"
       \/ caller = "stderr" /\ rpc["stderr"] = "returned" /\ caller' = "wait"
       \/ caller = "wait" /\ done /\ caller' = "finish"
    /\ UNCHANGED <<frames, dev, open, sessionVars, cancelled, watcher, result>>

(* Mutant of Finish: takes the end of the stream for success.              *)
FinishAnyway ==
    /\ caller = "finish"
    /\ result' = IF cancelled \/ err THEN "error" ELSE "ok"
    /\ open' = FALSE
    /\ caller' = "returned"
    /\ UNCHANGED <<frames, dev, sessionVars, cancelled, watcher>>

(* Look at ctx.Err() and at what Wait returned; close the session.         *)
Finish ==
    /\ caller = "finish"
    /\ result' = IF cancelled \/ err \/ ~gotExit THEN "error" ELSE "ok"
    /\ open' = FALSE
    /\ caller' = "returned"
    /\ UNCHANGED <<frames, dev, sessionVars, cancelled, watcher>>

Next ==
    \/ DeviceSends \/ DeviceCloses \/ ReadLoop
    \/ \E s \in Streams : StreamRead(s)
    \/ Cancel \/ Watch \/ Await \/ Finish

Init ==
    /\ frames = <<>>
    /\ dev = "open"
    /\ taken = 0
    /\ loop = "read"
    /\ buf = [s \in Streams |-> <<>>]
    /\ closed = [s \in Streams |-> FALSE]
    /\ rpc = [s \in Streams |-> "check"]
    /\ got = [s \in Streams |-> <<>>]
    /\ done = FALSE
    /\ gotExit = FALSE
    /\ exitCode = 0
    /\ err = FALSE
    /\ open = TRUE
    /\ cancelled = FALSE
    /\ watcher = "select"
    /\ caller = "stdout"
    /\ result = "none"

Spec == Init /\ [][Next]_vars

(* Every goroutine of RunCommandV2Context runs; the device need not act,   *)
(* and nobody need cancel.                                                 *)
FairSpec ==
    /\ Spec
    /\ WF_vars(ReadLoop)
    /\ \A s \in Streams : WF_vars(StreamRead(s))
    /\ WF_vars(Watch)
    /\ WF_vars(Await \/ Finish)

-----------------------------------------------------------------------------
(* Properties.                                                             *)

(* Every variable stays in its range; readLoop reads no more than was sent. *)
DeviceOK ==
    /\ frames \in Seq(Frame) /\ taken \in 0..Len(frames)
    /\ dev \in {"open", "eof", "cut"}
LoopOK ==
    /\ loop \in {"read", "closeErr", "closeOut", "closeTransport", "closeDone", "exit"}
    /\ done \in BOOLEAN /\ gotExit \in BOOLEAN /\ err \in BOOLEAN /\ open \in BOOLEAN
    /\ exitCode \in 0..1
StreamsOK ==
    /\ closed \in [Streams -> BOOLEAN]
    /\ rpc \in [Streams -> {"check", "wait", "returned"}]
    /\ buf \in [Streams -> Seq(Nat)] /\ got \in [Streams -> Seq(Nat)]
CallerOK ==
    /\ cancelled \in BOOLEAN
    /\ watcher \in {"select", "exit"}
    /\ caller \in {"stdout", "stderr", "wait", "finish", "returned"}
    /\ result \in {"none", "error", "ok"}
TypeOK == DeviceOK /\ LoopOK /\ StreamsOK /\ CallerOK

(* The frames read so far that carry output of stream s.                   *)
Output(s) == {k \in 1..taken : frames[k].id = s /\ frames[k].data > 0}

(* q has every number of K once, in ascending order.                       *)
Lists(q, K) ==
    /\ \A i, j \in 1..Len(q) : i < j => q[i] < q[j]
    /\ {q[i] : i \in 1..Len(q)} = K

(* Nothing is lost, repeated or mixed up between the streams: what was     *)
(* read from a stream and what is buffered is what the device wrote to it, *)
(* and a reader that saw io.EOF has all of it.  (And every variable keeps  *)
(* its type.)                                                              *)
StreamsIntact ==
    /\ TypeOK
    /\ \A s \in Streams :
         /\ Lists(got[s] \o buf[s], Output(s))
         /\ rpc[s] = "returned" => Lists(got[s], Output(s)) /\ loop # "read"

(* A result is what the device said: the last frame read is the exit of    *)
(* the command, the exit code is its, and both outputs are complete.       *)
ResultComplete ==
    result = "ok" =>
      /\ taken > 0 /\ frames[taken].id = "exit" /\ frames[taken].data = exitCode
      /\ \A s \in Streams : Lists(got[s], Output(s))

(* RunCommandV2Context returns once the command exits or the connection is *)
(* lost, and (device_shell_v2.go:313) once the context is cancelled, also  *)
(* when the device says nothing; then no goroutine is left behind.         *)
CommandReturns ==
    (cancelled \/ gotExit \/ dev # "open")
      ~> (caller = "returned" /\ loop = "exit" /\ watcher = "exit" /\ ~open)

(* device_shell_v2.go:56: nobody need consume stdout and stderr for the    *)
(* session to go on: readLoop waits for the device and for nothing else.   *)
NeverBlockedByReaders ==
    ENABLED ReadLoop
      \/ loop = "exit"
      \/ (loop = "read" /\ open /\ dev = "open" /\ taken = Len(frames))

=============================================================================
