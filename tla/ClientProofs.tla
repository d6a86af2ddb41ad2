---------------------------- MODULE ClientProofs ----------------------------
(***************************************************************************)
(* What the functions of the adb package that Client models promise, for   *)
(* every program and any number of calls.                                  *)
(*                                                                         *)
(* No function leaks its connection.  NothingLeaks is about a function     *)
(* that has returned, and so needs to be strengthened by what is left of   *)
(* the program while it runs: unless it hands its connection over, the     *)
(* step it has to take last closes it.                                     *)
(*                                                                         *)
(* Success is true and a reply is whole.  The inductive invariant follows  *)
(* the two sides of the stream: how far the function is in its program (j  *)
(* steps), how far the server is in answering it (a steps), what the       *)
(* server has sent (k times OKAY and then what t says), and how far the    *)
(* function has read it.  What this module shows of it rests on a few      *)
(* facts about finite sets (SetsCount), with which SessionProofs concludes *)
(* that SuccessTrue and ReplyWhole always hold.                            *)
(***************************************************************************)
EXTENDS Client, TLAPS

(* Zenon proves most leaves; those beyond it name the SMT solver.          *)
USE Zenon

Steps == {"dial", "watch", "send", "head", "reply", "raw", "close", "select",
          "accept", "status", "rest", "payload", "spawn", "collect", "copy", "decode",
          "message"}

(* The step that a program ends with.                                      *)
LastStep(p) == p[Len(p)]

Closes(p) == p \in Seq(Steps) /\ p # <<>> /\ LastStep(p) = "close"
KeepsOpen(p) ==
    p \in Seq(Steps) /\ p # <<>> /\ \A i \in 1..Len(p) : p[i] # "close"

(* What is left of the program of a function that does not hand its        *)
(* connection over ends by closing it, or by the message of a failure.     *)
EndsClosed ==
    ~Returned /\ ~Opens(call) => LastStep(prog) \in {"close", "message"}

ClientInv == prog \in Seq(Steps) /\ EndsClosed /\ NothingLeaks

-----------------------------------------------------------------------------
(* The programs.                                                           *)

LEMMA CallNames ==
    Calls = {"SendHostCommandContext", "TrackDevices",
             "TrackDevicesWithCallback", "executeTransportCommand",
             "executeTransportCommandWithResponse", "openTransportConnection",
             "OpenSocketContext", "Forward",
             "ForwardRemove", "Reverse",
             "ReverseRemove", "ListReverses",
             "Framebuffer", "ShellContext",
             "ShellV2WithOptionsContext", "RunCommandContext",
             "GetPackages", "Screencap",
             "installUsingAbbExec"}
BY DEF Calls, Program

(* What the functions run, the ones that some proof singles out by name.   *)
LEMMA HostProgram ==
    /\ Program["SendHostCommandContext"] = SendHostCommandContext
    /\ \E i \in 1..Len(SendHostCommandContext) : SendHostCommandContext[i] = "watch"
BY SMT DEF Program, SendHostCommandContext

LEMMA ShellV2Program ==
    /\ Program["ShellV2WithOptionsContext"] = ShellV2WithOptionsContext
    /\ Len(ShellV2WithOptionsContext) \in Nat
    /\ \A i \in 1..Len(ShellV2WithOptionsContext) :
          ShellV2WithOptionsContext[i] \notin {"payload", "rest", "collect"}
BY SMT DEF Program, ShellV2WithOptionsContext, TransportContext, SendCommand

LEMMA OtherPrograms ==
    ASSUME NEW c \in Calls, c # "SendHostCommandContext"
    PROVE  \/ Program[c] \in {TrackDevices, TrackDevicesWithCallback, Forward, ForwardRemove}
           \/ Program[c] \in {executeTransportCommand, executeTransportCommandWithResponse,
                             openTransportConnection, OpenSocketContext}
           \/ Program[c] \in {Reverse, ReverseRemove, ListReverses, Framebuffer}
           \/ Program[c] \in {ShellContext, ShellV2WithOptionsContext, RunCommandContext}
           \/ Program[c] \in {GetPackages, Screencap, installUsingAbbExec}
BY CallNames, SMT DEF Program

(* The functions that hand their connection over.                          *)
LEMMA OpeningPrograms ==
    /\ KeepsOpen(TrackDevices) /\ KeepsOpen(openTransportConnection)
    /\ KeepsOpen(OpenSocketContext) /\ KeepsOpen(ShellContext)
    /\ KeepsOpen(ShellV2WithOptionsContext)
BY SMT DEF KeepsOpen, Steps, TrackDevices, openTransportConnection, OpenSocketContext,
       ShellContext, ShellV2WithOptionsContext, TransportContext, SendCommand,
       ExecuteSimpleCommand

(* The functions that close it.                                            *)
LEMMA ClosingPrograms ==
    /\ Closes(SendHostCommandContext) /\ Closes(TrackDevicesWithCallback)
    /\ Closes(executeTransportCommand) /\ Closes(executeTransportCommandWithResponse)
    /\ Closes(Forward) /\ Closes(ForwardRemove) /\ Closes(Reverse)
    /\ Closes(ReverseRemove) /\ Closes(ListReverses) /\ Closes(Framebuffer)
    /\ Closes(RunCommandContext) /\ Closes(GetPackages) /\ Closes(Screencap)
    /\ Closes(installUsingAbbExec)
<1> USE DEF Closes, Steps, LastStep, TransportContext
<1>1. /\ Closes(SendHostCommandContext) /\ Closes(TrackDevicesWithCallback)
      /\ Closes(Forward) /\ Closes(ForwardRemove)
  BY SMT DEF SendHostCommandContext, TrackDevicesWithCallback, TrackDevices,
         Forward, ForwardRemove
<1>2. Closes(executeTransportCommand) /\ Closes(executeTransportCommandWithResponse)
  BY SMT DEF executeTransportCommand, executeTransportCommandWithResponse,
         ExecuteSimpleCommand, ExecuteCommandWithResponse
<1>3. /\ Closes(Reverse) /\ Closes(ReverseRemove) /\ Closes(ListReverses)
      /\ Closes(Framebuffer)
  BY SMT DEF Reverse, ReverseRemove, ListReverses, Framebuffer, SendCommand
<1>4. /\ Closes(RunCommandContext) /\ Closes(GetPackages) /\ Closes(Screencap)
  BY SMT DEF RunCommandContext, GetPackages, Screencap, ShellContext, SendCommand
<1>5. Closes(installUsingAbbExec)
  BY SMT DEF installUsingAbbExec
<1> QED BY <1>1, <1>2, <1>3, <1>4, <1>5

LEMMA Programs ==
    ASSUME NEW c \in Calls
    PROVE  Closes(Program[c]) \/ (KeepsOpen(Program[c]) /\ Opens(c))
<1>1. Closes(Program[c]) \/ KeepsOpen(Program[c])
  BY CallNames, OpeningPrograms, ClosingPrograms, SMT DEF Program
<1> QED BY <1>1 DEF KeepsOpen, Opens, HasStep

-----------------------------------------------------------------------------
(* What a step does to the program and the connection.                     *)

LEMMA AdvanceKeeps ==
    ASSUME ClientInv, ~Returned, Head(prog) \notin {"close", "message"},
           Advance, call' = call
    PROVE  ClientInv'
<1>1. /\ prog \in Seq(Steps) /\ Len(prog) \in Nat /\ Len(prog) > 0
      /\ prog' \in Seq(Steps) /\ Len(prog') = Len(prog) - 1 /\ prog' = Tail(prog)
  BY SMT DEF ClientInv, Returned, Advance
<1>2. CASE Len(prog) = 1
  <2>1. LastStep(prog) = Head(prog) /\ prog' = <<>> /\ res' = "ok"
    BY <1>1, <1>2, SMT DEF LastStep, Advance
  <2>2. Opens(call) /\ Opens(call)'
    BY <2>1 DEF ClientInv, EndsClosed, Opens, HasStep
  <2> QED BY <1>1, <2>1, <2>2 DEF ClientInv, EndsClosed, NothingLeaks, Returned
<1>3. CASE Len(prog) > 1
  <2>1. prog' # <<>> /\ LastStep(prog') = LastStep(prog)
    <3>1. prog' # <<>>
      <4>1. Len(prog') # 0 /\ Len(<<>>) = 0
        BY <1>1, <1>3, SMT
      <4> QED BY <4>1
    <3>2. Len(prog') \in 1..Len(prog') /\ Tail(prog)[Len(prog) - 1] = prog[Len(prog)]
      BY <1>1, <1>3, SMT
    <3> QED BY <1>1, <3>1, <3>2 DEF LastStep
  <2>2. Opens(call)' = Opens(call)
    BY DEF Opens, HasStep
  <2> QED BY <1>1, <2>1, <2>2 DEF ClientInv, EndsClosed, NothingLeaks, Returned
<1> QED BY <1>1, <1>2, <1>3, SMT

LEMMA FailKeeps ==
    ASSUME Fail PROVE ClientInv'
<1>1. prog' = <<>> /\ conn' # "open"
  BY DEF Fail
<1> QED BY <1>1, SMT DEF ClientInv, EndsClosed, NothingLeaks, Returned

LEMMA RedirectKeeps ==
    ASSUME prog' \in {<<"message">>, <<"raw", "close">>}
    PROVE  ClientInv'
<1>1. <<"message">> \in Seq(Steps) /\ <<"raw", "close">> \in Seq(Steps)
  BY SMT DEF Steps
<1>2. LastStep(<<"message">>) = "message" /\ LastStep(<<"raw", "close">>) = "close"
  BY DEF LastStep
<1>3. prog' \in Seq(Steps) /\ prog' # <<>> /\ LastStep(prog') \in {"close", "message"}
  <2>1. CASE prog' = <<"message">>
    BY <1>1, <1>2, <2>1
  <2>2. CASE prog' = <<"raw", "close">>
    BY <1>1, <1>2, <2>2
  <2> QED BY <2>1, <2>2
<1> QED BY <1>3 DEF ClientInv, EndsClosed, NothingLeaks, Returned

LEMMA StayKeeps ==
    ASSUME ClientInv, UNCHANGED <<prog, call, res>>, conn' = conn \/ conn' = "closed"
    PROVE  ClientInv'
<1>1. Opens(call)' = Opens(call)
  BY DEF Opens, HasStep
<1> QED BY <1>1 DEF ClientInv, EndsClosed, NothingLeaks, Returned

LEMMA CloseKeeps ==
    ASSUME ClientInv, Close
    PROVE  ClientInv'
<1>1. /\ prog \in Seq(Steps) /\ Len(prog) \in Nat /\ Len(prog) > 0
      /\ prog' \in Seq(Steps) /\ Len(prog') = Len(prog) - 1 /\ prog' = Tail(prog)
  BY SMT DEF ClientInv, Returned, Step, Close, Advance
<1>2. prog' # <<>> => LastStep(prog') = LastStep(prog)
  BY <1>1, SMT DEF LastStep
<1>3. Opens(call)' = Opens(call) /\ conn' = "closed"
  BY DEF Opens, HasStep, Close
<1>4. prog' # <<>> => prog # <<>>
  BY <1>1, SMT
<1> QED BY <1>1, <1>2, <1>3, <1>4 DEF ClientInv, EndsClosed, NothingLeaks, Returned

LEMMA BeginKeeps ==
    ASSUME NEW c \in Calls, NEW k, Begin(c, k)
    PROVE  ClientInv'
<1>1. prog' = Program[c] /\ call' = c /\ conn' = "none"
  BY DEF Begin
<1>2. Opens(call)' = Opens(c)
  BY <1>1 DEF Opens, HasStep
<1> QED BY <1>1, <1>2, Programs
        DEF ClientInv, EndsClosed, NothingLeaks, Closes, KeepsOpen, Returned

-----------------------------------------------------------------------------

LEMMA CallStepKeeps ==
    ASSUME ClientInv, CallStep
    PROVE  ClientInv'
<1> USE DEF Step
<1>1. CASE Dial
  BY <1>1, AdvanceKeeps, FailKeeps, StayKeeps DEF Dial
<1>2. CASE Watch
  BY <1>2, AdvanceKeeps DEF Watch
<1>3. CASE Send
  BY <1>3, AdvanceKeeps, FailKeeps DEF Send
<1>4. CASE ReadOnce
  BY <1>4, AdvanceKeeps, FailKeeps, RedirectKeeps DEF ReadOnce
<1>5. CASE ReadStatus
  BY <1>5, AdvanceKeeps, FailKeeps, RedirectKeeps DEF ReadStatus
<1>6. CASE Message
  BY <1>6, FailKeeps DEF Message
<1>7. CASE ReadPayload
  BY <1>7, AdvanceKeeps, FailKeeps DEF ReadPayload
<1>8. CASE ReadReply
  BY <1>8, AdvanceKeeps, FailKeeps, RedirectKeeps DEF ReadReply
<1>9. CASE ReadRaw
  BY <1>9, AdvanceKeeps, FailKeeps, StayKeeps DEF ReadRaw
<1>10. CASE ReadRest
  BY <1>10, AdvanceKeeps, FailKeeps, StayKeeps DEF ReadRest
<1>11. CASE Spawn
  BY <1>11, AdvanceKeeps DEF Spawn
<1>12. CASE Collect
  BY <1>12, AdvanceKeeps, FailKeeps DEF Collect
<1>13. CASE Close
  BY <1>13, CloseKeeps
<1>14. CASE Decode
  BY <1>14, AdvanceKeeps, FailKeeps DEF Decode
<1> QED BY <1>1, <1>2, <1>3, <1>4, <1>5, <1>6, <1>7, <1>8, <1>9, <1>10, <1>11, <1>12, <1>13,
        <1>14 DEF CallStep

LEMMA ClientStarts == ClientInit => ClientInv
<1> SUFFICES ASSUME ClientInit PROVE ClientInv
  OBVIOUS
<1>1. call \in Calls /\ prog = Program[call] /\ conn = "none"
  BY DEF ClientInit
<1> QED BY <1>1, Programs
        DEF ClientInv, EndsClosed, NothingLeaks, Closes, KeepsOpen, Returned

LEMMA ClientInductive == ClientInv /\ [ClientNext]_clientVars => ClientInv'
<1> SUFFICES ASSUME ClientInv, [ClientNext]_clientVars PROVE ClientInv'
  OBVIOUS
<1>1. CASE CallStep
  BY <1>1, CallStepKeeps
<1>2. CASE \/ Watcher \/ Reader \/ Cancel \/ DeadlinePasses
           \/ ServerStep \/ ServerHangs \/ ServerLost
  <2>1. UNCHANGED <<prog, call, res>> /\ (conn' = conn \/ conn' = "closed")
    BY <1>2 DEF Watcher, Reader, Cancel, DeadlinePasses, ServerStep, ServerStatus,
         ServerPayload, ServerSecondStatus, ServerOutput, Sends, ServerHangs,
         ServerLost, callVars, linkVars
  <2> QED BY <2>1, StayKeeps
<1>3. CASE \E c \in Calls : \E k \in Contexts(c) : Begin(c, k)
  BY <1>3, BeginKeeps
<1>4. CASE UNCHANGED clientVars
  BY <1>4, StayKeeps DEF clientVars, callVars, linkVars
<1> QED BY <1>1, <1>2, <1>3, <1>4 DEF ClientNext, ClientStep

(* Every function that returns has closed its connection, or succeeded and *)
(* handed it over, whatever the server, the network and the context do.    *)
THEOREM ConnectionsClosed == ClientSpec => []NothingLeaks
<1>1. ClientInv => NothingLeaks
  BY DEF ClientInv
<1> QED BY <1>1, ClientStarts, ClientInductive, PTL DEF ClientSpec

-----------------------------------------------------------------------------
(* What a function has read, against what it asked and was sent.           *)

(* What is left of a program after its first j steps, and how many of      *)
(* those read a status.                                                    *)
After(p, j) == SubSeq(p, j + 1, Len(p))
Asked(p, j) == Cardinality({i \in 1..j : p[i] \in StatusSteps})

(* The steps that read what follows the statuses, the steps that ask the   *)
(* server for more, and the steps that may follow a read.                  *)
ReadSteps == {"payload", "rest", "spawn"}
AskSteps == {"send", "copy"}
FinalSteps == {"collect", "decode", "close"}

(* w is part of s, from behind its first b units.                          *)
Window(w, s, b) ==
    /\ w \in Seq(Unit)
    /\ \A i \in 1..Len(w) : b + i <= Len(s) /\ w[i] = s[b + i]

Okay(n) == [f |-> "OKAY", n |-> n]

(* s is k times OKAY, and then nothing, a failure and its message, a       *)
(* payload with its length, or output.                                     *)
Told(s, k, t) ==
    /\ s \in Seq(Unit) /\ k \in Nat /\ Len(s) >= 2 * k
    /\ \A m \in 1..k : s[2 * m - 1] = Okay(1) /\ s[2 * m] = Okay(2)
    /\ CASE t = "none" -> Len(s) = 2 * k
         [] t = "fail" ->
              /\ Len(s) = 2 * k + 5
              /\ s[2 * k + 1] = [f |-> "FAIL", n |-> 1]
              /\ s[2 * k + 2] = [f |-> "FAIL", n |-> 2]
         [] t = "payload" ->
              /\ Len(s) >= 2 * k + 2
              /\ s[2 * k + 1] = [f |-> "len", n |-> Len(s) - (2 * k + 2)]
              /\ s[2 * k + 2].f = "len"
              /\ \A i \in (2 * k + 3)..Len(s) : s[i].f = "data"
         [] t = "output" -> \A i \in (2 * k + 1)..Len(s) : s[i].f = "data"
         [] OTHER -> FALSE

Lost == server \in {"gone", "reset"}

(* The server has answered the first a steps of a program p.               *)
HasSaid(p, a, k, t) ==
    /\ a \in 0..Len(p) /\ Told(sent, k, t)
    /\ ans = <<>> \/ (ans = After(p, a) /\ t = "none")
    /\ CASE t = "none" -> k = Asked(p, a)
         [] t = "fail" -> k < Asked(p, a)
         [] OTHER -> /\ k = Asked(p, a) /\ a > 0 /\ p[a] \in ReadSteps
                     /\ t = "payload" <=> p[a] = "payload"
                     /\ t = "output" => server # "up"

(* The function has taken the first j steps, and the server does not       *)
(* answer a step before it is asked to.                                    *)
Running(p, j) ==
    /\ j \in 0..Len(p) /\ prog = After(p, j)
    /\ res = IF j = Len(p) THEN "ok" ELSE "none"

NotAhead(p, j, a) == \A i \in (j + 1)..Len(p) : p[i] \in AskSteps => a < i

(* Of the stream s, u has been read after the first b units and w is there *)
(* to be read.                                                             *)
Stream(s, b, u, w, lost) ==
    /\ Window(u, s, b) /\ Window(w, s, b + Len(u))
    /\ lost \/ b + Len(u) + Len(w) = Len(s)

(* The stream is read in step with the program: a status for each step     *)
(* that reads one, and then what the reader of the output has taken.       *)
InStep(p, j, k) ==
    /\ \A i \in 1..j : p[i] \notin {"payload", "rest", "collect"}
    /\ Asked(p, j) <= k
    /\ Stream(sent, 2 * Asked(p, j), buf, wire, Lost)
    /\ buf = <<>> \/ (j < Len(p) /\ p[j + 1] \in {"rest", "collect"})
    /\ helper = "off" \/ (/\ helper \in {"reading", "error"}
                          /\ j < Len(p) /\ p[j + 1] = "collect")

(* It has been read to its end, or to the end of the connection.           *)
Offset(k, t) == IF t = "payload" THEN 2 * k + 2 ELSE 2 * k

ReadOut(p, j, k, t) ==
    /\ \/ helper = "ok" /\ j < Len(p) /\ p[j + 1] = "collect"
       \/ /\ helper \in {"off", "ok"}
          /\ \E i \in 1..j : p[i] \in {"payload", "rest", "collect"}
    /\ t # "fail" /\ Asked(p, j) = k
    /\ server = "up" => ans = <<>>
    /\ Window(buf, sent, Offset(k, t))
    /\ \/ Offset(k, t) + Len(buf) = Len(sent)
       \/ server = "gone" /\ \E i \in 1..Len(p) : p[i] \in {"rest", "collect"}

Followed(p, j, a, k, t) ==
    /\ Running(p, j) /\ HasSaid(p, a, k, t) /\ NotAhead(p, j, a)
    /\ InStep(p, j, k) \/ ReadOut(p, j, k, t)

Follows == \E j, a, k \in Nat : \E t : Followed(Program[call], j, a, k, t)

(* The same for a host command, whose status was not torn.                 *)
HostSays(k, t) ==
    /\ Told(sent, k, t) /\ t # "output"
    /\ t = "payload" => k = 1
    /\ server = "up" => k <= 1 /\ ~(k = 1 /\ t = "fail")
    /\ server = "up" /\ ans # <<>> =>
         /\ t = "none"
         /\ \/ k = 0 /\ ans = <<"head", "reply", "close">>
            \/ k = 1 /\ ans = <<"reply", "close">>

(* It has been asked and no answer read; the status has been read; the     *)
(* reply was not one with a length; all has been read.  No one but the     *)
(* watcher closes the connection under it.                                 *)
Held == conn = "open" \/ ctx = "done"

HostBefore ==
    /\ prog \in {SendHostCommandContext, Tail(SendHostCommandContext),
                 <<"send", "head", "reply", "close">>}
    /\ res = "none" /\ sent = <<>> /\ wire = <<>> /\ buf = <<>> /\ ans = <<>>

HostHead ==
    /\ prog = <<"head", "reply", "close">> /\ res = "none" /\ Held
    /\ buf = <<>> /\ Window(wire, sent, 0) /\ (Lost \/ 0 + Len(wire) = Len(sent))

HostReply(k) ==
    /\ prog = <<"reply", "close">> /\ res = "none" /\ Held /\ k > 0
    /\ buf = <<>> /\ Window(wire, sent, 2) /\ (Lost \/ 2 + Len(wire) = Len(sent))

HostRaw(k) ==
    /\ prog = <<"raw", "close">> /\ res = "none" /\ Held /\ k > 0 /\ server # "up"
    /\ Window(buf, sent, 4) /\ Window(wire, sent, 4 + Len(buf))
    /\ Lost \/ 4 + Len(buf) + Len(wire) >= Len(sent)

HostDone(k) ==
    /\ (prog = <<"close">> /\ res = "none") \/ (prog = <<>> /\ res = "ok")
    /\ k > 0 /\ (server = "up" => ans = <<>>)
    /\ Window(buf, sent, 4)
    /\ 4 + Len(buf) >= Len(sent) \/ Lost \/ deadline = "past"

HostFollowed(k, t) ==
    /\ helper \in {"off", "watching", "exit"} /\ k \in 0..2 /\ HostSays(k, t)
    /\ HostBefore \/ HostHead \/ HostReply(k) \/ HostRaw(k) \/ HostDone(k)

HostFollows == \E k \in 0..2 : \E t \in {"none", "fail", "payload"} : HostFollowed(k, t)

Failing == prog = <<"message">> \/ (prog = <<>> /\ res = "error")

Heard ==
    \/ Failing
    \/ Host(call) /\ torn
    \/ Host(call) /\ ~torn /\ HostFollows
    \/ ~Host(call) /\ Follows

-----------------------------------------------------------------------------
(* The programs of the functions that are not host commands: what follows  *)
(* the statuses is read once, and nothing is asked or read after it.       *)

Counts(p) ==
    /\ \A j \in 0..Len(p) : Asked(p, j) \in Nat
    /\ Asked(p, 0) = 0
    /\ \A j \in 0..Len(p) : j < Len(p) =>
         Asked(p, j + 1) = IF p[j + 1] \in StatusSteps THEN Asked(p, j) + 1
                           ELSE Asked(p, j)
    /\ \A i, j \in 0..Len(p) : i <= j =>
         /\ Asked(p, i) <= Asked(p, j)
         /\ (\A l \in (i + 1)..j : p[l] \notin StatusSteps) => Asked(p, i) = Asked(p, j)

Reads(p) ==
    /\ \A i \in 1..Len(p) : p[i] \in ReadSteps =>
         \A l \in (i + 1)..Len(p) : p[l] \in FinalSteps
    /\ \A i \in 1..Len(p) : p[i] = "spawn" => i < Len(p) /\ p[i + 1] = "collect"
    /\ \A i \in 1..Len(p) : p[i] = "collect" => i > 1 /\ p[i - 1] = "spawn"

Plain == Steps \ {"watch", "head", "reply", "raw", "message"}

Grammar(p) == p \in Seq(Plain) /\ Len(p) > 0 /\ Counts(p) /\ Reads(p)

(* Shown below (GrammarHolds).                                             *)
Grammatical == \A c \in Calls : ~Host(c) => Grammar(Program[c])

-----------------------------------------------------------------------------
(* Reading the stream.                                                     *)

LEMMA SameSeq ==
    ASSUME NEW u \in Seq(Unit), NEW w \in Seq(Unit), Len(u) = Len(w),
           \A i \in 1..Len(w) : u[i] = w[i]
    PROVE  u = w
BY SMT

LEMMA EmptyWindow ==
    ASSUME NEW s, NEW b
    PROVE  <<>> \in Seq(Unit) /\ Len(<<>>) = 0 /\ Window(<<>>, s, b)
BY SMT DEF Window

LEMMA WindowDrop ==
    ASSUME NEW w, NEW s, NEW b \in Nat, NEW n \in Nat, Window(w, s, b), n <= Len(w)
    PROVE  /\ Window(SubSeq(w, n + 1, Len(w)), s, b + n)
           /\ Len(SubSeq(w, n + 1, Len(w))) = Len(w) - n
<1>1. w \in Seq(Unit) /\ Len(w) \in Nat
  BY SMT DEF Window
<1> DEFINE d == SubSeq(w, n + 1, Len(w))
<1>2. /\ d \in Seq(Unit) /\ Len(d) = Len(w) - n
      /\ \A i \in 1..(Len(w) - n) : d[i] = w[n + i]
  BY <1>1, SMT
<1>3. \A i \in 1..(Len(w) - n) : n + i \in 1..Len(w) /\ b + (n + i) = (b + n) + i
  BY <1>1, SMT
<1> HIDE DEF d
<1>4. Window(d, s, b + n)
  BY <1>2, <1>3 DEF Window
<1> QED BY <1>2, <1>4 DEF d

LEMMA WindowTake ==
    ASSUME NEW w, NEW s, NEW b \in Nat, NEW n \in Nat, Window(w, s, b), n <= Len(w)
    PROVE  Window(SubSeq(w, 1, n), s, b) /\ Len(SubSeq(w, 1, n)) = n
<1>1. w \in Seq(Unit) /\ Len(w) \in Nat
  BY SMT DEF Window
<1> DEFINE d == SubSeq(w, 1, n)
<1>2. d \in Seq(Unit) /\ Len(d) = n /\ \A i \in 1..n : d[i] = w[i] /\ i \in 1..Len(w)
  BY <1>1, SMT
<1> HIDE DEF d
<1>3. ASSUME NEW i \in 1..Len(d) PROVE b + i <= Len(s) /\ d[i] = s[b + i]
  BY <1>1, <1>2 DEF Window
<1>4. Window(d, s, b)
  BY <1>2, <1>3 DEF Window
<1> QED BY <1>2, <1>4 DEF d

LEMMA WindowJoin ==
    ASSUME NEW u, NEW w, NEW s, NEW b \in Nat, Window(u, s, b), Window(w, s, b + Len(u))
    PROVE  Window(u \o w, s, b) /\ Len(u \o w) = Len(u) + Len(w)
<1>1. u \in Seq(Unit) /\ Len(u) \in Nat /\ w \in Seq(Unit) /\ Len(w) \in Nat
  BY SMT DEF Window
<1> DEFINE d == u \o w
<1>2. /\ d \in Seq(Unit) /\ Len(d) = Len(u) + Len(w)
      /\ \A i \in 1..Len(u) : d[i] = u[i]
      /\ \A i \in (Len(u) + 1)..(Len(u) + Len(w)) : d[i] = w[i - Len(u)]
  BY <1>1, SMT
<1> HIDE DEF d
<1>3. ASSUME NEW i \in 1..Len(d) PROVE b + i <= Len(s) /\ d[i] = s[b + i]
  <2>1. CASE i \in 1..Len(u)
    BY <1>2, <2>1 DEF Window
  <2>2. CASE i \notin 1..Len(u)
    <3>1. i \in (Len(u) + 1)..(Len(u) + Len(w)) /\ i - Len(u) \in 1..Len(w)
      BY <1>1, <1>2, <2>2, SMT
    <3>2. (b + Len(u)) + (i - Len(u)) = b + i
      BY <1>1, <3>1, SMT
    <3> QED BY <1>2, <3>1, <3>2 DEF Window
  <2> QED BY <2>1, <2>2
<1> QED BY <1>2, <1>3 DEF Window, d

(* The server sends more.                                                  *)
LEMMA WindowSent ==
    ASSUME NEW w, NEW s \in Seq(Unit), NEW m \in Seq(Unit), NEW b \in Nat,
           Window(w, s, b)
    PROVE  Window(w, s \o m, b)
<1>1. /\ Len(s \o m) = Len(s) + Len(m) /\ Len(s) \in Nat /\ Len(m) \in Nat
      /\ \A i \in 1..Len(s) : (s \o m)[i] = s[i]
  BY SMT
<1>2. w \in Seq(Unit) /\ Len(w) \in Nat
  BY SMT DEF Window
<1>3. ASSUME NEW i \in 1..Len(w) PROVE b + i <= Len(s \o m) /\ w[i] = (s \o m)[b + i]
  <2>1. b + i <= Len(s) /\ w[i] = s[b + i]
    BY DEF Window
  <2> QED BY <1>1, <1>2, <2>1, SMT
<1> QED BY <1>2, <1>3 DEF Window

Shifted(b, x, y, z, i) ==
    b + x = y =>
      /\ i \notin 1..x => /\ i \in (x + 1)..(x + z) /\ b + i \in (y + 1)..(y + z)
                          /\ i - x = (b + i) - y
      /\ b + i <= y + z

LEMMA Shift ==
    ASSUME NEW b \in Nat, NEW x \in Nat, NEW y \in Nat, NEW z \in Nat,
           NEW i \in 1..(x + z)
    PROVE  Shifted(b, x, y, z, i)
BY SMT DEF Shifted

LEMMA WindowArrives ==
    ASSUME NEW w, NEW s \in Seq(Unit), NEW m \in Seq(Unit), NEW b \in Nat,
           Window(w, s, b), b + Len(w) = Len(s)
    PROVE  Window(w \o m, s \o m, b) /\ Len(w \o m) = Len(w) + Len(m)
<1>1. w \in Seq(Unit) /\ Len(w) \in Nat /\ Len(s) \in Nat /\ Len(m) \in Nat
  BY SMT DEF Window
<1> DEFINE e == s \o m
           d == w \o m
<1>2. /\ e \in Seq(Unit) /\ Len(e) = Len(s) + Len(m)
      /\ \A i \in 1..Len(s) : e[i] = s[i]
      /\ \A i \in (Len(s) + 1)..(Len(s) + Len(m)) : e[i] = m[i - Len(s)]
  BY SMT
<1>3. /\ d \in Seq(Unit) /\ Len(d) = Len(w) + Len(m)
      /\ \A i \in 1..Len(w) : d[i] = w[i]
      /\ \A i \in (Len(w) + 1)..(Len(w) + Len(m)) : d[i] = m[i - Len(w)]
  BY <1>1, SMT
<1> HIDE DEF d, e
<1>4. ASSUME NEW i \in 1..Len(d) PROVE b + i <= Len(e) /\ d[i] = e[b + i]
  <2>a. i \in 1..(Len(w) + Len(m))
    BY <1>3, Zenon
  <2>c. Shifted(b, Len(w), Len(s), Len(m), i)
    BY <1>1, <2>a, Shift, Zenon
  <2>b. /\ i \notin 1..Len(w) => /\ i \in (Len(w) + 1)..(Len(w) + Len(m))
                                 /\ b + i \in (Len(s) + 1)..(Len(s) + Len(m))
                                 /\ i - Len(w) = (b + i) - Len(s)
        /\ b + i <= Len(s) + Len(m)
    BY <2>c, Zenon DEF Shifted
  <2>0. b + i <= Len(e)
    BY <1>2, <2>b, Zenon
  <2>1. CASE i \in 1..Len(w)
    <3>1. w[i] = s[b + i] /\ b + i <= Len(s)
      BY <2>1, Zenon DEF Window
    <3>2. b + i \in 1..Len(s)
      BY <1>1, <2>1, <3>1, SMT
    <3> QED BY <1>2, <1>3, <2>0, <2>1, <3>1, <3>2, Zenon
  <2>2. CASE i \notin 1..Len(w)
    <3>1. /\ i \in (Len(w) + 1)..(Len(w) + Len(m)) /\ i - Len(w) = (b + i) - Len(s)
          /\ b + i \in (Len(s) + 1)..(Len(s) + Len(m))
      BY <2>2, <2>b, Zenon
    <3>2. d[i] = m[i - Len(w)] /\ e[b + i] = m[(b + i) - Len(s)]
      BY <1>2, <1>3, <3>1, Zenon
    <3> QED BY <2>0, <3>1, <3>2, Zenon
  <2> QED BY <2>1, <2>2
<1>5. Window(d, e, b)
  BY <1>3, <1>4, Zenon DEF Window
<1> QED BY <1>3, <1>5 DEF d, e


-----------------------------------------------------------------------------
(* What the server sends.                                                  *)

Join(e, s, m) ==
    /\ e \in Seq(Unit) /\ Len(s) \in Nat /\ Len(m) \in Nat /\ Len(e) = Len(s) + Len(m)
    /\ \A i \in 1..Len(s) : e[i] = s[i]
    /\ \A i \in 1..Len(m) : e[Len(s) + i] = m[i]

LEMMA Joined ==
    ASSUME NEW s \in Seq(Unit), NEW m \in Seq(Unit)
    PROVE  Join(s \o m, s, m)
BY SMT DEF Join

LEMMA Messages ==
    /\ Status("OKAY") \in Seq(Unit) /\ Len(Status("OKAY")) = 2
    /\ Status("OKAY")[1] = Okay(1) /\ Status("OKAY")[2] = Okay(2)
    /\ Status("FAIL") \in Seq(Unit) /\ Len(Status("FAIL")) = 2
    /\ Status("FAIL")[1] = [f |-> "FAIL", n |-> 1]
    /\ Status("FAIL")[2] = [f |-> "FAIL", n |-> 2]
BY SMT DEF Status, Unit, Okay

LEMMA DataUnits ==
    ASSUME NEW n \in Nat
    PROVE  /\ Data(n) \in Seq(Unit) /\ Len(Data(n)) = n
           /\ \A i \in 1..n : Data(n)[i].f = "data"
<1>1. \A i \in 1..n : [f |-> "data", n |-> i] \in Unit
  BY SMT DEF Unit
<1>2. Data(n) \in [1..n -> Unit]
  BY <1>1 DEF Data
<1>3. Data(n) \in Seq(Unit) /\ Len(Data(n)) = n
  BY <1>2, SMT
<1>4. \A i \in 1..n : Data(n)[i].f = "data"
  BY DEF Data
<1> QED BY <1>3, <1>4

LEMMA PrefixedUnits ==
    ASSUME NEW n \in Nat
    PROVE  /\ Prefixed(n) \in Seq(Unit) /\ Len(Prefixed(n)) = n + 2
           /\ Prefixed(n)[1] = [f |-> "len", n |-> n] /\ Prefixed(n)[2].f = "len"
           /\ \A i \in 1..n : Prefixed(n)[2 + i].f = "data"
<1> DEFINE h == <<[f |-> "len", n |-> n], [f |-> "len", n |-> n]>>
           d == Data(n)
<1>1. /\ h \in Seq(Unit) /\ Len(h) = 2 /\ h[1] = [f |-> "len", n |-> n]
      /\ h[2] = [f |-> "len", n |-> n]
  BY SMT DEF Unit
<1>2. d \in Seq(Unit) /\ Len(d) = n /\ \A i \in 1..n : d[i].f = "data"
  BY DataUnits
<1>3. Prefixed(n) = h \o d
  BY DEF Prefixed
<1> HIDE DEF h, d
<1>4. PICK e : e = h \o d
  BY Zenon
<1>5. Join(e, h, d)
  BY <1>1, <1>2, <1>4, Joined, Zenon
<1>6. /\ e \in Seq(Unit) /\ Len(e) = n + 2 /\ e[1] = h[1] /\ e[2] = h[2]
      /\ \A i \in 1..n : e[2 + i] = d[i]
  BY <1>1, <1>2, <1>5, SMT DEF Join
<1> QED BY <1>1, <1>2, <1>3, <1>4, <1>6, SMT

LEMMA FailureUnits ==
    /\ Status("FAIL") \o Prefixed(1) \in Seq(Unit)
    /\ Len(Status("FAIL") \o Prefixed(1)) = 5
    /\ (Status("FAIL") \o Prefixed(1))[1] = [f |-> "FAIL", n |-> 1]
    /\ (Status("FAIL") \o Prefixed(1))[2] = [f |-> "FAIL", n |-> 2]
<1> DEFINE h == Status("FAIL")
           d == Prefixed(1)
<1>1. /\ h \in Seq(Unit) /\ Len(h) = 2
      /\ h[1] = [f |-> "FAIL", n |-> 1] /\ h[2] = [f |-> "FAIL", n |-> 2]
  BY Messages
<1>2. d \in Seq(Unit) /\ Len(d) = 3
  <2>1. d \in Seq(Unit) /\ Len(d) = 1 + 2
    BY PrefixedUnits, 1 \in Nat, Zenon
  <2> QED BY <2>1, SMT
<1> HIDE DEF h, d
<1>3. PICK e : e = h \o d
  BY Zenon
<1>4. Join(e, h, d)
  BY <1>1, <1>2, <1>3, Joined, Zenon
<1>5. e \in Seq(Unit) /\ Len(e) = 5 /\ e[1] = h[1] /\ e[2] = h[2]
  BY <1>1, <1>2, <1>4, SMT DEF Join
<1> QED BY <1>1, <1>3, <1>5, Zenon DEF h, d

LEMMA Kinds ==
    ASSUME NEW s, NEW k, NEW t, Told(s, k, t)
    PROVE  /\ s \in Seq(Unit) /\ Len(s) \in Nat /\ k \in Nat /\ Len(s) >= 2 * k
           /\ t \in {"none", "fail", "payload", "output"}
BY SMT DEF Told

LEMMA ToldNothing == Told(<<>>, 0, "none")
BY SMT DEF Told

(* A status, a failure, a payload, or output.                              *)
LEMMA ToldMore ==
    ASSUME NEW s, NEW k, Told(s, k, "none")
    PROVE  /\ Told(s \o Status("OKAY"), k + 1, "none")
           /\ Told(s \o (Status("FAIL") \o Prefixed(1)), k, "fail")
           /\ \A n \in Nat : Told(s \o Prefixed(n), k, "payload")
           /\ \A n \in Nat : Told(s \o Data(n), k, "output")
<1>1. s \in Seq(Unit) /\ k \in Nat /\ Len(s) = 2 * k
  BY DEF Told
<1>2. \A m \in 1..k : s[2 * m - 1] = Okay(1) /\ s[2 * m] = Okay(2)
  BY DEF Told
<1> DEFINE More(e, m) ==
             /\ e \in Seq(Unit) /\ Len(e) = 2 * k + Len(m) /\ Len(m) \in Nat
             /\ \A i \in 1..k : e[2 * i - 1] = Okay(1) /\ e[2 * i] = Okay(2)
             /\ \A i \in 1..Len(m) : e[2 * k + i] = m[i]
<1>3. ASSUME NEW m \in Seq(Unit), NEW e, e = s \o m
      PROVE  More(e, m)
  <2>1. /\ e \in Seq(Unit) /\ Len(e) = Len(s) + Len(m) /\ Len(m) \in Nat
        /\ \A i \in 1..Len(s) : e[i] = s[i]
        /\ \A i \in 1..Len(m) : e[Len(s) + i] = m[i]
    BY <1>1, <1>3, Joined, Zenon DEF Join
  <2>2. \A i \in 1..k : 2 * i - 1 \in 1..Len(s) /\ 2 * i \in 1..Len(s)
    BY <1>1, SMT
  <2>3. \A i \in 1..k : e[2 * i - 1] = Okay(1) /\ e[2 * i] = Okay(2)
    BY <1>2, <2>1, <2>2, Zenon
  <2> QED BY <1>1, <2>1, <2>3, Zenon
<1> HIDE DEF More
<1>4. Told(s \o Status("OKAY"), k + 1, "none")
  <2>1. PICK e : e = s \o Status("OKAY")
    BY Zenon
  <2>2. /\ e \in Seq(Unit) /\ Len(e) = 2 * k + 2
        /\ \A i \in 1..k : e[2 * i - 1] = Okay(1) /\ e[2 * i] = Okay(2)
        /\ e[2 * k + 1] = Okay(1) /\ e[2 * k + 2] = Okay(2)
    <3>1. /\ e \in Seq(Unit) /\ Len(e) = 2 * k + Len(Status("OKAY"))
          /\ \A i \in 1..k : e[2 * i - 1] = Okay(1) /\ e[2 * i] = Okay(2)
          /\ \A i \in 1..Len(Status("OKAY")) : e[2 * k + i] = Status("OKAY")[i]
      <4>1. More(e, Status("OKAY"))
        BY <1>3, <2>1, Messages, Zenon
      <4> QED BY <4>1, Zenon DEF More
    <3> QED BY <3>1, Messages, SMT
  <2>3. ASSUME NEW m \in 1..(k + 1) PROVE e[2 * m - 1] = Okay(1) /\ e[2 * m] = Okay(2)
    <3>1. CASE m \in 1..k
      BY <2>2, <3>1
    <3>2. CASE m = k + 1
      <4>1. 2 * m - 1 = 2 * k + 1 /\ 2 * m = 2 * k + 2
        BY <1>1, <3>2, SMT
      <4> QED BY <2>2, <4>1
    <3> QED BY <1>1, <3>1, <3>2, SMT
  <2>4. k + 1 \in Nat /\ Len(e) = 2 * (k + 1)
    BY <1>1, <2>2, SMT
  <2>5. Told(e, k + 1, "none")
    BY <2>2, <2>3, <2>4, SMT DEF Told
  <2> QED BY <2>1, <2>5
<1>5. Told(s \o (Status("FAIL") \o Prefixed(1)), k, "fail")
  <2>1. PICK m : m = Status("FAIL") \o Prefixed(1)
    BY Zenon
  <2>2. /\ m \in Seq(Unit) /\ Len(m) = 5
        /\ m[1] = [f |-> "FAIL", n |-> 1] /\ m[2] = [f |-> "FAIL", n |-> 2]
    BY <2>1, FailureUnits, Zenon
  <2>3. PICK e : e = s \o m
    BY Zenon
  <2>4. /\ e \in Seq(Unit) /\ Len(e) = 2 * k + Len(m)
        /\ \A i \in 1..k : e[2 * i - 1] = Okay(1) /\ e[2 * i] = Okay(2)
        /\ \A i \in 1..Len(m) : e[2 * k + i] = m[i]
    <3>1. More(e, m)
      BY <1>3, <2>2, <2>3, Zenon
    <3> QED BY <3>1, Zenon DEF More
  <2>5. /\ Len(e) = 2 * k + 5 /\ e[2 * k + 1] = m[1] /\ e[2 * k + 2] = m[2]
        /\ Len(e) >= 2 * k
    BY <1>1, <2>2, <2>4, SMT
  <2>6. Told(e, k, "fail")
    BY <1>1, <2>2, <2>4, <2>5, Zenon DEF Told
  <2> QED BY <2>1, <2>3, <2>6
<1>6. ASSUME NEW n \in Nat PROVE Told(s \o Prefixed(n), k, "payload")
  <2>1. PICK m : m = Prefixed(n)
    BY Zenon
  <2>2. /\ m \in Seq(Unit) /\ Len(m) = n + 2
        /\ m[1] = [f |-> "len", n |-> n] /\ m[2].f = "len"
        /\ \A i \in 1..n : m[2 + i].f = "data"
    BY <2>1, PrefixedUnits, SMT
  <2>3. PICK e : e = s \o m
    BY Zenon
  <2>4. /\ e \in Seq(Unit) /\ Len(e) = 2 * k + Len(m)
        /\ \A i \in 1..k : e[2 * i - 1] = Okay(1) /\ e[2 * i] = Okay(2)
        /\ \A i \in 1..Len(m) : e[2 * k + i] = m[i]
    <3>1. More(e, m)
      BY <1>3, <2>2, <2>3, Zenon
    <3> QED BY <3>1, Zenon DEF More
  <2>5. /\ Len(e) = 2 * k + (n + 2) /\ e[2 * k + 1] = m[1] /\ e[2 * k + 2] = m[2]
        /\ \A i \in (2 * k + 3)..Len(e) : /\ i - 2 * k \in 1..Len(m) /\ i - 2 * k - 2 \in 1..n
                                          /\ 2 * k + (i - 2 * k) = i
                                          /\ 2 + (i - 2 * k - 2) = i - 2 * k
    BY <1>1, <2>2, <2>4, SMT
  <2>6. \A i \in (2 * k + 3)..Len(e) : e[i].f = "data"
    <3> TAKE i \in (2 * k + 3)..Len(e)
    <3>1. e[i] = m[i - 2 * k] /\ m[i - 2 * k].f = "data"
      BY <2>2, <2>4, <2>5, SMT
    <3> QED BY <3>1
  <2>7. Len(e) - (2 * k + 2) = n /\ Len(e) >= 2 * k + 2 /\ Len(e) >= 2 * k
    BY <1>1, <2>5, SMT
  <2>8. Told(e, k, "payload")
    BY <1>1, <2>2, <2>4, <2>5, <2>6, <2>7 DEF Told
  <2> QED BY <2>1, <2>3, <2>8
<1>7. ASSUME NEW n \in Nat PROVE Told(s \o Data(n), k, "output")
  <2>1. PICK m : m = Data(n)
    BY Zenon
  <2>2. m \in Seq(Unit) /\ Len(m) = n /\ \A i \in 1..n : m[i].f = "data"
    BY <2>1, DataUnits, Zenon
  <2>3. PICK e : e = s \o m
    BY Zenon
  <2>4. /\ e \in Seq(Unit) /\ Len(e) = 2 * k + Len(m)
        /\ \A i \in 1..k : e[2 * i - 1] = Okay(1) /\ e[2 * i] = Okay(2)
        /\ \A i \in 1..Len(m) : e[2 * k + i] = m[i]
    <3>1. More(e, m)
      BY <1>3, <2>2, <2>3, Zenon
    <3> QED BY <3>1, Zenon DEF More
  <2>5. \A i \in (2 * k + 1)..Len(e) : i - 2 * k \in 1..n /\ 2 * k + (i - 2 * k) = i
    BY <1>1, <2>2, <2>4, SMT
  <2>6. \A i \in (2 * k + 1)..Len(e) : e[i].f = "data"
    BY <2>2, <2>4, <2>5, SMT
  <2>7. Len(e) >= 2 * k
    BY <1>1, <2>2, <2>4, SMT
  <2>8. Told(e, k, "output")
    BY <1>1, <2>4, <2>6, <2>7 DEF Told
  <2> QED BY <2>1, <2>3, <2>8
<1> QED BY <1>4, <1>5, <1>6, <1>7

-----------------------------------------------------------------------------
(* Where a function is in its program.                                     *)

LEMMA Suffix ==
    ASSUME NEW p \in Seq(Plain), NEW j \in 0..Len(p)
    PROVE  /\ After(p, j) \in Seq(Plain) /\ Len(After(p, j)) = Len(p) - j
           /\ After(p, j) = <<>> <=> j = Len(p)
           /\ j < Len(p) => /\ Head(After(p, j)) = p[j + 1]
                            /\ Tail(After(p, j)) = After(p, j + 1)
<1>1. After(p, j) \in Seq(Plain) /\ Len(After(p, j)) = Len(p) - j
  BY SMT DEF After
<1>2. After(p, j) = <<>> <=> j = Len(p)
  BY <1>1, SMT
<1>3. ASSUME j < Len(p)
      PROVE  Head(After(p, j)) = p[j + 1] /\ Tail(After(p, j)) = After(p, j + 1)
  BY <1>3, SMT DEF After
<1> QED BY <1>1, <1>2, <1>3

LEMMA AtStep ==
    ASSUME NEW p, Grammar(p), NEW j, Running(p, j), ~Returned
    PROVE  /\ j \in Nat /\ j < Len(p) /\ Len(p) \in Nat
           /\ Head(prog) = p[j + 1] /\ Head(prog) \in Plain
           /\ Tail(prog) = After(p, j + 1) /\ (Len(prog) = 1 <=> j + 1 = Len(p))
           /\ res = "none" /\ Asked(p, j) \in Nat
<1>1. p \in Seq(Plain) /\ j \in 0..Len(p) /\ prog = After(p, j) /\ Len(p) \in Nat
  BY SMT DEF Grammar, Running
<1>2. j # Len(p)
  BY <1>1, Suffix DEF Returned
<1>3. j \in Nat /\ j < Len(p) /\ j + 1 \in 1..Len(p)
  BY <1>1, <1>2, SMT
<1>4. /\ Head(prog) = p[j + 1] /\ Tail(prog) = After(p, j + 1)
      /\ Len(prog) = Len(p) - j
  <2>1. /\ Head(After(p, j)) = p[j + 1] /\ Tail(After(p, j)) = After(p, j + 1)
        /\ Len(After(p, j)) = Len(p) - j
    BY <1>1, <1>3, Suffix, Zenon
  <2> QED BY <1>1, <2>1, Zenon
<1>5. p[j + 1] \in Plain
  BY <1>1, <1>3, SMT
<1> QED BY <1>1, <1>2, <1>3, <1>4, <1>5, SMT DEF Running, Grammar, Counts

LEMMA Moves ==
    ASSUME NEW p, Grammar(p), NEW j, Running(p, j), ~Returned, Advance
    PROVE  Running(p, j + 1)'
<1>1. /\ j \in Nat /\ j < Len(p) /\ Len(p) \in Nat
      /\ Tail(prog) = After(p, j + 1) /\ (Len(prog) = 1 <=> j + 1 = Len(p))
      /\ res = "none"
  BY AtStep
<1>2. j + 1 \in 0..Len(p)
  BY <1>1, SMT
<1> QED BY <1>1, <1>2 DEF Running, Advance

(* Only a step that ends a function follows what has been read out.        *)
LEMMA ReadOutFinal ==
    ASSUME NEW p, Grammar(p), NEW j \in Nat, NEW k, NEW t, j < Len(p), ReadOut(p, j, k, t)
    PROVE  p[j + 1] \in FinalSteps
<1>1. CASE p[j + 1] = "collect"
  BY <1>1 DEF FinalSteps
<1>2. CASE \E i \in 1..j : p[i] \in {"payload", "rest", "collect"}
  <2>1. PICK i \in 1..j : p[i] \in {"payload", "rest", "collect"}
    BY <1>2
  <2>2. Len(p) \in Nat /\ i \in 1..Len(p) /\ j + 1 \in (i + 1)..Len(p)
    BY <2>1, SMT DEF Grammar
  <2>3. CASE p[i] \in ReadSteps
    BY <2>2, <2>3 DEF Grammar, Reads
  <2>4. CASE p[i] = "collect"
    <3>1. i > 1 /\ p[i - 1] = "spawn"
      BY <2>2, <2>4 DEF Grammar, Reads
    <3>2. i - 1 \in 1..Len(p) /\ j + 1 \in ((i - 1) + 1)..Len(p)
      BY <2>2, <3>1, SMT
    <3> QED BY <3>1, <3>2 DEF Grammar, Reads, ReadSteps
  <2> QED BY <2>1, <2>3, <2>4 DEF ReadSteps
<1> QED BY <1>1, <1>2 DEF ReadOut

LEMMA AskedStep ==
    ASSUME NEW p, Grammar(p), NEW j \in Nat, j < Len(p)
    PROVE  /\ Len(p) \in Nat /\ j \in 0..Len(p) /\ j + 1 \in 1..Len(p)
           /\ Asked(p, j) \in Nat
           /\ p[j + 1] \in StatusSteps => Asked(p, j + 1) = Asked(p, j) + 1
           /\ p[j + 1] \notin StatusSteps => Asked(p, j + 1) = Asked(p, j)
<1>1. Len(p) \in Nat /\ Counts(p)
  BY SMT DEF Grammar
<1>2. j \in 0..Len(p) /\ j + 1 \in 1..Len(p)
  BY <1>1, SMT
<1> QED BY <1>1, <1>2, Zenon DEF Counts

(* After the last status.                                                  *)
LEMMA AllAsked ==
    ASSUME NEW p, Grammar(p), NEW i \in 1..Len(p), p[i] \in ReadSteps,
           NEW j \in (i - 1)..Len(p), NEW l \in 0..Len(p)
    PROVE  Asked(p, l) <= Asked(p, j)
<1>1. Len(p) \in Nat /\ i \in Nat /\ j \in 0..Len(p)
  BY SMT DEF Grammar
<1>2. CASE l <= j
  BY <1>1, <1>2 DEF Grammar, Counts
<1>3. CASE l > j
  <2>1. ASSUME NEW x \in (j + 1)..l PROVE p[x] \notin StatusSteps
    <3>1. CASE x = i
      BY <3>1 DEF ReadSteps, StatusSteps
    <3>2. CASE x # i
      <4>1. x \in (i + 1)..Len(p)
        BY <1>1, <1>3, <3>2, SMT
      <4> QED BY <4>1 DEF Grammar, Reads, FinalSteps, StatusSteps
    <3> QED BY <3>1, <3>2
  <2>2. Asked(p, j) = Asked(p, l)
    BY <1>1, <1>3, <2>1, SMT DEF Grammar, Counts
  <2>3. Asked(p, l) \in Nat
    BY <1>1 DEF Grammar, Counts
  <2> QED BY <2>2, <2>3, SMT
<1> QED BY <1>1, <1>2, <1>3, SMT

-----------------------------------------------------------------------------
(* A step of a function that is not a host command.                        *)

(* The program goes on and reads nothing.                                  *)
LEMMA Passes ==
    ASSUME NEW p, Grammar(p), NEW j \in Nat, NEW k, NEW t, j < Len(p),
           InStep(p, j, k) \/ ReadOut(p, j, k, t),
           p[j + 1] \in {"dial", "send", "copy", "decode", "close"},
           UNCHANGED <<buf, wire, sent, server, helper>>,
           server = "up" /\ ans = <<>> => ans' = <<>>
    PROVE  InStep(p, j + 1, k)' \/ ReadOut(p, j + 1, k, t)'
<1>1. Asked(p, j + 1) = Asked(p, j) /\ Len(p) \in Nat /\ j \in 0..Len(p)
  <2>1. p[j + 1] \notin StatusSteps
    BY DEF StatusSteps
  <2> QED BY <2>1, AskedStep, Zenon
<1>2. CASE InStep(p, j, k)
  <2>1. p[j + 1] \notin {"payload", "rest", "collect"}
    OBVIOUS
  <2>2. \A i \in 1..(j + 1) : p[i] \notin {"payload", "rest", "collect"}
    BY <1>2, <2>1, SMT DEF InStep
  <2>3. buf = <<>> /\ helper = "off" /\ Asked(p, j) <= k
        /\ Stream(sent, 2 * Asked(p, j), buf, wire, Lost)
    BY <1>2, <2>1 DEF InStep
  <2>4. Stream(sent, 2 * Asked(p, j), buf, wire, Lost)'
    BY <2>3 DEF Stream, Lost
  <2> QED BY <1>1, <2>2, <2>3, <2>4 DEF InStep
<1>3. CASE ReadOut(p, j, k, t)
  <2>1. p[j + 1] # "collect"
    OBVIOUS
  <2>2. /\ helper \in {"off", "ok"}
        /\ \E i \in 1..(j + 1) : p[i] \in {"payload", "rest", "collect"}
    BY <1>3, <2>1, SMT DEF ReadOut
  <2> QED BY <1>1, <1>3, <2>2 DEF ReadOut
<1> QED BY <1>2, <1>3

LEMMA SameSaid ==
    ASSUME NEW p, NEW a, NEW k, NEW t, HasSaid(p, a, k, t), sent' = sent,
           ans' = ans \/ ans' = <<>>, server' = "up" => server = "up"
    PROVE  HasSaid(p, a, k, t)'
BY DEF HasSaid

LEMMA StillBehind ==
    ASSUME NEW p, Len(p) \in Nat, NEW j \in Nat, NEW a, NotAhead(p, j, a)
    PROVE  NotAhead(p, j + 1, a)
BY SMT DEF NotAhead

(* Dialling, decoding and closing.                                         *)
LEMMA QuietStep ==
    ASSUME NEW p, Grammar(p), NEW j \in Nat, NEW a \in Nat, NEW k \in Nat, NEW t,
           Followed(p, j, a, k, t), ~Returned,
           Head(prog) \in {"dial", "decode", "close"}, Advance,
           UNCHANGED <<buf, wire, sent, server, ans, helper>>
    PROVE  Followed(p, j + 1, a, k, t)'
<1>1. /\ Running(p, j) /\ HasSaid(p, a, k, t) /\ NotAhead(p, j, a)
      /\ InStep(p, j, k) \/ ReadOut(p, j, k, t)
  BY DEF Followed
<1>2. /\ j < Len(p) /\ Len(p) \in Nat
      /\ p[j + 1] \in {"dial", "send", "copy", "decode", "close"}
  BY <1>1, AtStep
<1>3. Running(p, j + 1)'
  BY <1>1, Moves
<1>4. HasSaid(p, a, k, t)'
  BY <1>1, SameSaid
<1>5. NotAhead(p, j + 1, a)'
  BY <1>1, <1>2, StillBehind DEF NotAhead
<1>6. InStep(p, j + 1, k)' \/ ReadOut(p, j + 1, k, t)'
  BY <1>1, <1>2, Passes
<1> QED BY <1>3, <1>4, <1>5, <1>6 DEF Followed

(* The last request has been answered, and the answer read, when the next  *)
(* is sent.                                                                *)
LEMMA AllAnswered ==
    ASSUME NEW p, Grammar(p), NEW j \in Nat, NEW a \in Nat, NEW k \in Nat, NEW t,
           j < Len(p), HasSaid(p, a, k, t), NotAhead(p, j, a), Asked(p, j) <= k,
           p[j + 1] \in AskSteps
    PROVE  t = "none" /\ k = Asked(p, j) /\ Asked(p, j + 1) = Asked(p, j)
<1>1. Len(p) \in Nat /\ j \in 0..Len(p) /\ a \in 0..Len(p) /\ j + 1 \in 1..Len(p)
  BY SMT DEF Grammar, HasSaid
<1>2. Asked(p, j + 1) = Asked(p, j) /\ Asked(p, j) \in Nat /\ Asked(p, a) \in Nat
  <2>1. p[j + 1] \notin StatusSteps
    BY DEF StatusSteps, AskSteps
  <2> QED BY <1>1, <2>1, AskedStep, Zenon DEF Grammar, Counts
<1>3. a <= j
  BY <1>1, SMT DEF NotAhead
<1>4. Asked(p, a) <= Asked(p, j)
  BY <1>1, <1>3 DEF Grammar, Counts
<1>5. t # "fail"
  BY <1>2, <1>4, SMT DEF HasSaid
<1>6. t \notin {"payload", "output"}
  <2>1. ASSUME a > 0, p[a] \in ReadSteps PROVE FALSE
    <3>1. a \in 1..Len(p) /\ j + 1 \in (a + 1)..Len(p)
      BY <1>1, <1>3, <2>1, SMT
    <3> QED BY <2>1, <3>1 DEF Grammar, Reads, FinalSteps, AskSteps
  <2> QED BY <2>1 DEF HasSaid
<1>7. t = "none"
  BY <1>5, <1>6, Kinds DEF HasSaid
<1> QED BY <1>2, <1>4, <1>7, SMT DEF HasSaid

LEMMA SendStep ==
    ASSUME NEW p, Grammar(p), NEW j \in Nat, NEW a \in Nat, NEW k \in Nat, NEW t,
           Followed(p, j, a, k, t), ~Returned, Head(prog) \in AskSteps, Advance,
           ans' = Tail(prog), UNCHANGED <<buf, wire, sent, server, helper>>
    PROVE  Followed(p, j + 1, j + 1, k, "none")'
<1>1. /\ Running(p, j) /\ HasSaid(p, a, k, t) /\ NotAhead(p, j, a)
      /\ InStep(p, j, k) \/ ReadOut(p, j, k, t)
  BY DEF Followed
<1>2. /\ j < Len(p) /\ Len(p) \in Nat /\ p[j + 1] \in AskSteps
      /\ Tail(prog) = After(p, j + 1) /\ j + 1 \in 0..Len(p) /\ Asked(p, j) \in Nat
  BY <1>1, AtStep, SMT
<1>3. ~ReadOut(p, j, k, t)
  BY <1>2, ReadOutFinal DEF AskSteps, FinalSteps
<1>4. InStep(p, j, k)
  BY <1>1, <1>3
<1>5. t = "none" /\ k = Asked(p, j) /\ Asked(p, j + 1) = Asked(p, j)
  BY <1>1, <1>2, <1>4, AllAnswered DEF InStep
<1>6. Running(p, j + 1)'
  BY <1>1, Moves
<1>7. HasSaid(p, j + 1, k, "none")'
  BY <1>1, <1>2, <1>5 DEF HasSaid
<1>8. NotAhead(p, j + 1, j + 1)'
  BY <1>2, SMT DEF NotAhead
<1>9. InStep(p, j + 1, k)'
  <2>1. p[j + 1] \notin {"payload", "rest", "collect"}
    BY <1>2 DEF AskSteps
  <2>2. \A i \in 1..(j + 1) : p[i] \notin {"payload", "rest", "collect"}
    BY <1>4, <2>1, SMT DEF InStep
  <2>3. buf = <<>> /\ helper = "off" /\ Stream(sent, 2 * Asked(p, j), buf, wire, Lost)
    BY <1>4, <2>1 DEF InStep
  <2>4. Stream(sent, 2 * Asked(p, j), buf, wire, Lost)'
    BY <2>3 DEF Stream, Lost
  <2> QED BY <1>2, <1>5, <2>2, <2>3, <2>4, SMT DEF InStep
<1> QED BY <1>6, <1>7, <1>8, <1>9 DEF Followed

(* Two steps of a program do not both read.                                *)
LEMMA OneRead ==
    ASSUME NEW p, Grammar(p), NEW i \in 1..Len(p), NEW l \in 1..Len(p),
           p[i] \in ReadSteps, p[l] \in ReadSteps
    PROVE  i = l
<1>1. Len(p) \in Nat /\ i \in Nat /\ l \in Nat
  BY SMT DEF Grammar
<1>2. ReadSteps \cap FinalSteps = {} /\ Reads(p)
  BY DEF Grammar, ReadSteps, FinalSteps
<1>3. ASSUME i < l PROVE FALSE
  <2>1. l \in (i + 1)..Len(p)
    BY <1>1, <1>3, SMT
  <2> QED BY <1>2, <2>1, Zenon DEF Reads
<1>4. ASSUME l < i PROVE FALSE
  <2>1. i \in (l + 1)..Len(p)
    BY <1>1, <1>4, SMT
  <2> QED BY <1>2, <2>1, Zenon DEF Reads
<1> QED BY <1>1, <1>3, <1>4, SMT

(* What is at the head of the stream when a status is to be read.          *)
LEMMA NextStatus ==
    ASSUME NEW p, Grammar(p), NEW j \in Nat, NEW a \in Nat, NEW k \in Nat, NEW t,
           j < Len(p), HasSaid(p, a, k, t), InStep(p, j, k), p[j + 1] \in StatusSteps,
           NEW n \in 1..2, Len(wire) >= n
    PROVE  /\ Asked(p, j) < k \/ t = "fail"
           /\ Asked(p, j) < k => Asked(p, j + 1) <= k /\ (n = 2 => Take(n) = Status("OKAY"))
           /\ ~(Asked(p, j) < k) /\ n = 2 => Take(n) = Status("FAIL")
           /\ n = 1 => Take(n) # Status("OKAY")
<1>1. /\ Len(p) \in Nat /\ j \in 0..Len(p) /\ Asked(p, j) \in Nat
      /\ Asked(p, j + 1) = Asked(p, j) + 1
  BY AskedStep
<1>2. /\ buf = <<>> /\ Asked(p, j) <= k
      /\ Stream(sent, 2 * Asked(p, j), buf, wire, Lost)
  BY DEF InStep, StatusSteps
<1>3. PICK r \in Nat : r = Asked(p, j)
  BY <1>1, Zenon
<1>4. Window(wire, sent, 2 * r)
  <2>1. Window(wire, sent, 2 * r + Len(<<>>))
    BY <1>2, <1>3, Zenon DEF Stream
  <2> QED BY <2>1, SMT
<1>5. /\ wire \in Seq(Unit) /\ Len(wire) \in Nat
      /\ \A i \in 1..Len(wire) : 2 * r + i <= Len(sent) /\ wire[i] = sent[2 * r + i]
  BY <1>4, SMT DEF Window
<1>6. wire[1] = sent[2 * r + 1] /\ 2 * r + 1 <= Len(sent)
  BY <1>5, SMT
<1>7. n = 2 => wire[2] = sent[2 * r + 2]
  BY <1>5, SMT
<1>8. Told(sent, k, t) /\ sent \in Seq(Unit) /\ Len(sent) \in Nat
  BY Kinds DEF HasSaid
<1>9. /\ Take(n) \in Seq(Unit) /\ Len(Take(n)) = n /\ Take(n)[1] = wire[1]
      /\ n = 2 => Take(n)[2] = wire[2]
  BY <1>5, SMT DEF Take
<1>10. ASSUME NEW x, n = 2, Take(n)[1] = x[1], Take(n)[2] = x[2], x \in Seq(Unit), Len(x) = 2
       PROVE  Take(n) = x
  BY <1>9, <1>10, SMT
<1>11. CASE r < k
  <2>1. sent[2 * r + 1] = Okay(1) /\ sent[2 * r + 2] = Okay(2)
    <3>1. r + 1 \in 1..k
      BY <1>11, SMT
    <3>2. \A m \in 1..k : sent[2 * m - 1] = Okay(1) /\ sent[2 * m] = Okay(2)
      BY <1>8, Zenon DEF Told
    <3>3. sent[2 * (r + 1) - 1] = Okay(1) /\ sent[2 * (r + 1)] = Okay(2)
      BY <3>1, <3>2, Zenon
    <3>4. 2 * (r + 1) - 1 = 2 * r + 1 /\ 2 * (r + 1) = 2 * r + 2
      BY SMT
    <3> QED BY <3>3, <3>4, Zenon
  <2>2. n = 2 => Take(n) = Status("OKAY")
    BY <1>6, <1>7, <1>9, <1>10, <2>1, Messages
  <2>3. n = 1 => Take(n) # Status("OKAY")
    BY <1>9, Messages, SMT
  <2> QED BY <1>1, <1>3, <1>11, <2>2, <2>3, SMT
<1>12. CASE r = k
  <2>1. t \notin {"payload", "output"}
    <3>1. ASSUME a > 0, p[a] \in ReadSteps, k = Asked(p, a) PROVE FALSE
      <4>1. a \in 1..Len(p) /\ a \in (a - 1)..Len(p) /\ j + 1 \in 0..Len(p)
        BY <1>1, <3>1, SMT DEF HasSaid
      <4>2. Asked(p, j + 1) <= Asked(p, a)
        BY <3>1, <4>1, AllAsked, Zenon
      <4> QED BY <1>1, <1>3, <1>12, <3>1, <4>2, SMT
    <3> QED BY <3>1 DEF HasSaid
  <2>2. t # "none"
    BY <1>6, <1>8, <1>12, SMT DEF Told
  <2>3. t = "fail"
    BY <1>8, <2>1, <2>2, Kinds
  <2>4. /\ sent[2 * r + 1] = [f |-> "FAIL", n |-> 1]
        /\ sent[2 * r + 2] = [f |-> "FAIL", n |-> 2]
    BY <1>8, <1>12, <2>3 DEF Told
  <2>5. n = 2 => Take(n) = Status("FAIL")
    BY <1>6, <1>7, <1>9, <1>10, <2>4, Messages
  <2>6. n = 1 => Take(n) # Status("OKAY")
    BY <1>9, Messages, SMT
  <2> QED BY <1>3, <1>12, <2>3, <2>5, <2>6, SMT
<1> QED BY <1>1, <1>2, <1>3, <1>11, <1>12, SMT

(* A status, or a length, has been read.                                   *)
LEMMA ReadTwo ==
    ASSUME NEW w, NEW s, NEW r \in Nat, Window(w, s, 2 * r), Len(w) >= 2
    PROVE  /\ Window(SubSeq(w, 2 + 1, Len(w)), s, 2 * r + 2)
           /\ Len(SubSeq(w, 2 + 1, Len(w))) = Len(w) - 2
<1>1. 2 * r \in Nat /\ 2 \in Nat /\ 2 <= Len(w)
  BY SMT DEF Window
<1> QED BY <1>1, WindowDrop, Zenon

LEMMA StatusStep ==
    ASSUME NEW p, Grammar(p), NEW j \in Nat, NEW a \in Nat, NEW k \in Nat, NEW t,
           Followed(p, j, a, k, t), ~Returned, Head(prog) \in StatusSteps,
           NEW n \in 1..2, Len(wire) >= n, Take(n) = Status("OKAY"),
           wire' = Drop(n), Advance, UNCHANGED <<buf, sent, server, ans, helper>>
    PROVE  Followed(p, j + 1, a, k, t)'
<1>1. /\ Running(p, j) /\ HasSaid(p, a, k, t) /\ NotAhead(p, j, a)
      /\ InStep(p, j, k) \/ ReadOut(p, j, k, t)
  BY DEF Followed
<1>2. /\ j < Len(p) /\ Len(p) \in Nat /\ p[j + 1] \in StatusSteps
      /\ Asked(p, j) \in Nat
  BY <1>1, AtStep
<1>3. ~ReadOut(p, j, k, t)
  BY <1>2, ReadOutFinal DEF StatusSteps, FinalSteps
<1>4. InStep(p, j, k)
  BY <1>1, <1>3
<1>5. Status("OKAY") # Status("FAIL")
  BY Messages, SMT DEF Okay
<1>6. n = 2 /\ Asked(p, j) < k /\ Asked(p, j + 1) <= k
  BY <1>1, <1>2, <1>4, <1>5, NextStatus, SMT
<1>7. Asked(p, j + 1) = Asked(p, j) + 1
  BY <1>2, AskedStep
<1>8. Running(p, j + 1)'
  BY <1>1, Moves
<1>9. HasSaid(p, a, k, t)'
  BY <1>1, SameSaid
<1>10. NotAhead(p, j + 1, a)'
  BY <1>1, <1>2, StillBehind DEF NotAhead
<1>11. InStep(p, j + 1, k)'
  <2>1. p[j + 1] \notin {"payload", "rest", "collect"}
    BY <1>2 DEF StatusSteps
  <2>2. \A i \in 1..(j + 1) : p[i] \notin {"payload", "rest", "collect"}
    BY <1>4, <2>1, SMT DEF InStep
  <2>3. buf = <<>> /\ helper = "off" /\ Stream(sent, 2 * Asked(p, j), buf, wire, Lost)
    BY <1>4, <2>1 DEF InStep
  <2>4. PICK r \in Nat : r = Asked(p, j)
    BY <1>2, Zenon
  <2>5. Stream(sent, 2 * r, <<>>, wire, Lost)
    BY <2>3, <2>4, Zenon
  <2>6. /\ Window(wire, sent, 2 * r) /\ Len(wire) \in Nat
        /\ Lost \/ 2 * r + Len(wire) = Len(sent)
    BY <2>5, SMT DEF Stream, Window
  <2>7. /\ Window(SubSeq(wire, 2 + 1, Len(wire)), sent, 2 * r + 2)
        /\ Len(SubSeq(wire, 2 + 1, Len(wire))) = Len(wire) - 2
    <3>1. Len(wire) >= 2
      BY <1>6
    <3> QED BY <2>6, <3>1, ReadTwo, Zenon
  <2>8. Window(wire', sent, 2 * r + 2) /\ Len(wire') = Len(wire) - 2
    BY <1>6, <2>7, Zenon DEF Drop
  <2>9. 2 * Asked(p, j + 1) = 2 * r + 2
    BY <1>7, <2>4, SMT
  <2>10. Stream(sent, 2 * r + 2, <<>>, wire', Lost)
    BY <2>6, <2>8, EmptyWindow, SMT DEF Stream
  <2>11. Stream(sent, 2 * Asked(p, j + 1), buf, wire, Lost)'
    BY <2>3, <2>9, <2>10 DEF Lost
  <2> QED BY <1>6, <2>2, <2>3, <2>11 DEF InStep
<1> QED BY <1>8, <1>9, <1>10, <1>11 DEF Followed

LEMMA WindowFits ==
    ASSUME NEW w, NEW s, NEW b \in Nat, Window(w, s, b), Len(w) > 0
    PROVE  Len(w) \in Nat /\ b + Len(w) <= Len(s)
BY SMT DEF Window

Body == SubSeq(wire, 3, Needed)

LEMMA PayloadStep ==
    ASSUME NEW p, Grammar(p), NEW j \in Nat, NEW a \in Nat, NEW k \in Nat, NEW t,
           Followed(p, j, a, k, t), ~Returned, Head(prog) = "payload",
           Len(wire) >= Needed, LengthOK, buf' = Body,
           Advance, UNCHANGED <<sent, server, ans, helper>>
    PROVE  Followed(p, j + 1, a, k, t)'
<1>1. /\ Running(p, j) /\ HasSaid(p, a, k, t) /\ NotAhead(p, j, a)
      /\ InStep(p, j, k) \/ ReadOut(p, j, k, t)
  BY DEF Followed
<1>2. /\ j < Len(p) /\ Len(p) \in Nat /\ p[j + 1] = "payload"
      /\ Asked(p, j) \in Nat
  BY <1>1, AtStep
<1>3. ~ReadOut(p, j, k, t)
  BY <1>2, ReadOutFinal DEF FinalSteps
<1>4. InStep(p, j, k)
  BY <1>1, <1>3
<1>5. Asked(p, j + 1) = Asked(p, j) /\ j + 1 \in 1..Len(p)
  <2>1. p[j + 1] \notin StatusSteps
    BY <1>2 DEF StatusSteps
  <2> QED BY <1>2, <2>1, AskedStep, Zenon
<1>6. buf = <<>> /\ helper = "off" /\ Stream(sent, 2 * Asked(p, j), buf, wire, Lost)
      /\ Asked(p, j) <= k
  BY <1>2, <1>4 DEF InStep
<1>7. PICK r \in Nat : r = Asked(p, j)
  BY <1>2, Zenon
<1>8. Window(wire, sent, 2 * r) /\ Len(wire) \in Nat /\ r <= k
  <2>1. Stream(sent, 2 * r, <<>>, wire, Lost)
    BY <1>6, <1>7, Zenon
  <2> QED BY <1>6, <1>7, <2>1, SMT DEF Stream, Window
<1>9. /\ Len(wire) >= 2 /\ wire[1].f = "len" /\ wire[1] = sent[2 * r + 1]
      /\ 2 * r + 1 <= Len(sent) /\ Needed = 2 + wire[1].n
  <2>1. Len(wire) >= 2 /\ wire[1].f = "len" /\ Needed = 2 + wire[1].n
    BY DEF LengthOK, Needed
  <2>2. 1 \in 1..Len(wire)
    BY <1>8, <2>1, SMT
  <2>3. 2 * r + 1 <= Len(sent) /\ wire[1] = sent[2 * r + 1]
    BY <1>8, <2>2, Zenon DEF Window
  <2> QED BY <2>1, <2>3, Zenon
<1>10. Told(sent, k, t) /\ Len(sent) \in Nat
  BY <1>1, Kinds DEF HasSaid
<1>11. r = k
  <2>1. ASSUME r < k PROVE FALSE
    <3>1. r + 1 \in 1..k /\ 2 * (r + 1) - 1 = 2 * r + 1
      BY <2>1, SMT
    <3>2. sent[2 * (r + 1) - 1] = Okay(1)
      BY <1>10, <3>1, Zenon DEF Told
    <3>3. sent[2 * r + 1].f = "OKAY"
      BY <3>1, <3>2, SMT DEF Okay
    <3> QED BY <1>9, <3>3
  <2> QED BY <1>8, <2>1, SMT
<1>12. t = "payload" /\ sent[2 * k + 1].n = Len(sent) - (2 * k + 2)
  <2>1. sent[2 * k + 1].f = "len" /\ 2 * k + 1 <= Len(sent)
    BY <1>9, <1>11
  <2>2. t # "none"
    BY <1>10, <2>1, SMT DEF Told
  <2>3. t # "fail"
    <3>1. t = "fail" => sent[2 * k + 1] = [f |-> "FAIL", n |-> 1]
      BY <1>10 DEF Told
    <3> QED BY <2>1, <3>1, SMT
  <2>4. t # "output"
    <3>1. 2 * k + 1 \in (2 * k + 1)..Len(sent)
      BY <1>10, <2>1, SMT
    <3> QED BY <1>10, <2>1, <3>1 DEF Told
  <2>5. t = "payload"
    BY <1>10, <2>2, <2>3, <2>4, Kinds
  <2> QED BY <1>10, <2>5, SMT DEF Told
<1>13. Needed = Len(wire) /\ 2 * k + Len(wire) = Len(sent)
  <2>1. 2 * r + Len(wire) <= Len(sent)
    BY <1>8, <1>9, WindowFits, SMT
  <2>2. Needed = 2 + (Len(sent) - (2 * k + 2))
    BY <1>9, <1>11, <1>12
  <2> QED BY <1>8, <1>10, <1>11, <2>1, <2>2, SMT
<1>14. Window(buf', sent, 2 * k + 2) /\ (2 * k + 2) + Len(buf') = Len(sent)
  <2>1. /\ Window(SubSeq(wire, 2 + 1, Len(wire)), sent, 2 * r + 2)
        /\ Len(SubSeq(wire, 2 + 1, Len(wire))) = Len(wire) - 2
    BY <1>8, <1>9, ReadTwo, Zenon
  <2>2. buf' = SubSeq(wire, 2 + 1, Len(wire))
    BY <1>13, SMT DEF Body
  <2>3. Window(buf', sent, 2 * k + 2) /\ Len(buf') = Len(wire) - 2
    BY <1>11, <2>1, <2>2, Zenon
  <2> QED BY <1>8, <1>13, <2>3, SMT
<1>15. Running(p, j + 1)'
  BY <1>1, Moves
<1>16. HasSaid(p, a, k, t)'
  BY <1>1, SameSaid
<1>17. NotAhead(p, j + 1, a)'
  BY <1>1, <1>2, StillBehind DEF NotAhead
<1>18. ReadOut(p, j + 1, k, t)'
  <2>1. \E i \in 1..(j + 1) : p[i] \in {"payload", "rest", "collect"}
    BY <1>2, SMT
  <2>2. ans = <<>>
    BY <1>1, <1>12 DEF HasSaid
  <2>3. Offset(k, t) = 2 * k + 2
    BY <1>12 DEF Offset
  <2>4. Asked(p, j + 1) = k
    BY <1>5, <1>7, <1>11
  <2>5. t # "fail" /\ helper' = "off" /\ ans' = <<>>
    BY <1>6, <1>12, <2>2
  <2>6. Window(buf, sent, Offset(k, t))' /\ (Offset(k, t) + Len(buf) = Len(sent))'
    BY <1>14, <2>3
  <2> QED BY <2>1, <2>4, <2>5, <2>6 DEF ReadOut
<1> QED BY <1>15, <1>16, <1>17, <1>18 DEF Followed

(* Everything that is there is read by io.ReadAll.                         *)
LEMMA TakesAll ==
    ASSUME NEW p, NEW j \in Nat, NEW k, InStep(p, j, k), Asked(p, j) \in Nat,
           j < Len(p), p[j + 1] \in {"rest", "collect"}, TakeAll,
           UNCHANGED <<sent, server, helper>>
    PROVE  InStep(p, j, k)'
<1>1. Stream(sent, 2 * Asked(p, j), buf, wire, Lost)
  BY DEF InStep
<1>2. PICK b \in Nat : b = 2 * Asked(p, j)
  <2>1. 2 * Asked(p, j) \in Nat
    BY SMT
  <2> QED BY <2>1, Zenon
<1>3. /\ Window(buf, sent, b) /\ Window(wire, sent, b + Len(buf))
      /\ Lost \/ b + Len(buf) + Len(wire) = Len(sent)
  BY <1>1, <1>2, Zenon DEF Stream
<1>4. Window(buf', sent, b) /\ Len(buf') = Len(buf) + Len(wire) /\ wire' = <<>>
  <2>1. buf' = buf \o wire /\ wire' = <<>>
    BY DEF TakeAll
  <2>2. Window(buf \o wire, sent, b) /\ Len(buf \o wire) = Len(buf) + Len(wire)
    BY <1>3, WindowJoin, Zenon
  <2> QED BY <2>1, <2>2, Zenon
<1>5. Len(buf) \in Nat /\ Len(wire) \in Nat /\ Len(wire') = 0
  BY <1>3, <1>4, SMT DEF Window
<1>6. Window(wire', sent, b + Len(buf'))
  BY <1>4, EmptyWindow, Zenon
<1>7. Lost \/ b + Len(buf') + Len(wire') = Len(sent)
  BY <1>3, <1>4, <1>5, SMT
<1>8. Stream(sent, 2 * Asked(p, j), buf, wire, Lost)'
  BY <1>2, <1>4, <1>6, <1>7 DEF Stream, Lost
<1> QED BY <1>8 DEF InStep

(* A program that reads to the end of the stream has read all that was     *)
(* sent, or what was left of it, when it gets there.                       *)
LEMMA ReadsOut ==
    ASSUME NEW p, Grammar(p), NEW j \in Nat, NEW a \in Nat, NEW k \in Nat, NEW t,
           j < Len(p), HasSaid(p, a, k, t), InStep(p, j, k),
           p[j + 1] \in {"rest", "collect"}, Len(wire) < 1, server \in {"done", "gone"}
    PROVE  /\ t # "fail" /\ Asked(p, j) = k /\ Asked(p, j + 1) = k
           /\ Window(buf, sent, Offset(k, t))
           /\ Offset(k, t) + Len(buf) = Len(sent) \/ server = "gone"
<1>1. /\ Len(p) \in Nat /\ j \in 0..Len(p) /\ j + 1 \in 1..Len(p)
      /\ Asked(p, j) \in Nat /\ a \in 0..Len(p)
  BY AskedStep DEF HasSaid
<1>2. Asked(p, j + 1) = Asked(p, j)
  <2>1. p[j + 1] \notin StatusSteps
    BY DEF StatusSteps
  <2> QED BY <2>1, AskedStep, Zenon
<1>3. PICK i \in 1..Len(p) : p[i] \in {"rest", "spawn"} /\ j \in (i - 1)..Len(p)
  <2>1. CASE p[j + 1] = "rest"
    BY <1>1, <2>1, SMT
  <2>2. CASE p[j + 1] = "collect"
    <3>1. j + 1 > 1 /\ p[(j + 1) - 1] = "spawn"
      BY <1>1, <2>2, Zenon DEF Grammar, Reads
    <3>2. j \in 1..Len(p) /\ (j + 1) - 1 = j /\ j \in (j - 1)..Len(p)
      BY <1>1, <3>1, SMT
    <3> QED BY <3>1, <3>2
  <2> QED BY <2>1, <2>2
<1>4. p[i] \in ReadSteps /\ p[i] # "payload"
  BY <1>3 DEF ReadSteps
<1>5. Asked(p, a) <= Asked(p, j) /\ Asked(p, j) <= k /\ Asked(p, a) \in Nat
  <2>1. Asked(p, a) <= Asked(p, j)
    BY <1>1, <1>3, <1>4, AllAsked
  <2>2. Asked(p, a) \in Nat
    BY <1>1, Zenon DEF Grammar, Counts
  <2> QED BY <2>1, <2>2 DEF InStep
<1>6. t # "fail" /\ k = Asked(p, a)
  <2>1. Asked(p, a) <= k
    BY <1>1, <1>5, SMT
  <2> QED BY <1>5, <2>1, SMT DEF HasSaid
<1>7. t # "payload"
  <2>1. t = "payload" => a > 0 /\ p[a] = "payload"
    BY DEF HasSaid
  <2>2. ASSUME a > 0, p[a] = "payload" PROVE FALSE
    <3>1. a \in 1..Len(p) /\ p[a] \in ReadSteps
      BY <1>1, <2>2, SMT DEF ReadSteps
    <3>2. i = a
      BY <1>4, <3>1, OneRead, Zenon
    <3> QED BY <1>4, <2>2, <3>2, Zenon
  <2> QED BY <2>1, <2>2
<1>8. Asked(p, j) = k
  BY <1>1, <1>5, <1>6, SMT
<1>9. Offset(k, t) = 2 * k
  BY <1>7 DEF Offset
<1>10. Stream(sent, 2 * k, buf, wire, Lost)
  BY <1>8, Zenon DEF InStep
<1>11. /\ Window(buf, sent, 2 * k) /\ Len(buf) \in Nat /\ Len(wire) = 0
       /\ Lost \/ 2 * k + Len(buf) + Len(wire) = Len(sent)
  BY <1>10, SMT DEF Stream, Window
<1>12. 2 * k + Len(buf) = Len(sent) \/ server = "gone"
  BY <1>11, SMT DEF Lost
<1> QED BY <1>2, <1>6, <1>8, <1>9, <1>11, <1>12

LEMMA RestEnds ==
    ASSUME NEW p, Grammar(p), NEW j \in Nat, NEW a \in Nat, NEW k \in Nat, NEW t,
           Followed(p, j, a, k, t), ~Returned, Head(prog) = "rest", AtEnd(1),
           Advance, UNCHANGED <<buf, wire, sent, server, ans, helper>>
    PROVE  Followed(p, j + 1, a, k, t)'
<1>1. /\ Running(p, j) /\ HasSaid(p, a, k, t) /\ NotAhead(p, j, a)
      /\ InStep(p, j, k) \/ ReadOut(p, j, k, t)
  BY DEF Followed
<1>2. /\ j < Len(p) /\ Len(p) \in Nat /\ p[j + 1] = "rest"
  BY <1>1, AtStep
<1>3. ~ReadOut(p, j, k, t)
  BY <1>2, ReadOutFinal DEF FinalSteps
<1>4. InStep(p, j, k)
  BY <1>1, <1>3
<1>5. Len(wire) < 1 /\ server \in {"done", "gone"} /\ helper = "off"
  BY <1>2, <1>4 DEF AtEnd, InStep
<1>6. /\ t # "fail" /\ Asked(p, j) = k /\ Asked(p, j + 1) = k
      /\ Window(buf, sent, Offset(k, t))
      /\ Offset(k, t) + Len(buf) = Len(sent) \/ server = "gone"
  BY <1>1, <1>2, <1>4, <1>5, ReadsOut
<1>7. /\ \E i \in 1..(j + 1) : p[i] \in {"payload", "rest", "collect"}
      /\ \E i \in 1..Len(p) : p[i] \in {"rest", "collect"}
  BY <1>2, SMT
<1>8. ReadOut(p, j + 1, k, t)'
  BY <1>5, <1>6, <1>7 DEF ReadOut
<1>9. Running(p, j + 1)'
  BY <1>1, Moves
<1>10. HasSaid(p, a, k, t)'
  BY <1>1, SameSaid
<1>11. NotAhead(p, j + 1, a)'
  BY <1>1, <1>2, StillBehind DEF NotAhead
<1> QED BY <1>8, <1>9, <1>10, <1>11 DEF Followed

(* The reader of readAllWithContext is started.                            *)
LEMMA SpawnStep ==
    ASSUME NEW p, Grammar(p), NEW j \in Nat, NEW a \in Nat, NEW k \in Nat, NEW t,
           Followed(p, j, a, k, t), ~Returned, Head(prog) = "spawn",
           helper' = "reading", Advance, UNCHANGED <<buf, wire, sent, server, ans>>
    PROVE  Followed(p, j + 1, a, k, t)'
<1>1. /\ Running(p, j) /\ HasSaid(p, a, k, t) /\ NotAhead(p, j, a)
      /\ InStep(p, j, k) \/ ReadOut(p, j, k, t)
  BY DEF Followed
<1>2. j < Len(p) /\ Len(p) \in Nat /\ p[j + 1] = "spawn"
  BY <1>1, AtStep
<1>3. ~ReadOut(p, j, k, t)
  BY <1>2, ReadOutFinal DEF FinalSteps
<1>4. InStep(p, j, k)
  BY <1>1, <1>3
<1>5. Asked(p, j + 1) = Asked(p, j) /\ j + 1 \in 1..Len(p)
  <2>1. p[j + 1] \notin StatusSteps
    BY <1>2 DEF StatusSteps
  <2> QED BY <1>2, <2>1, AskedStep, Zenon
<1>6. j + 1 < Len(p) /\ p[(j + 1) + 1] = "collect"
  BY <1>2, <1>5, Zenon DEF Grammar, Reads
<1>7. InStep(p, j + 1, k)'
  <2>1. p[j + 1] \notin {"payload", "rest", "collect"}
    BY <1>2
  <2>2. \A i \in 1..(j + 1) : p[i] \notin {"payload", "rest", "collect"}
    BY <1>4, <2>1, SMT DEF InStep
  <2>3. /\ buf = <<>> /\ Stream(sent, 2 * Asked(p, j), buf, wire, Lost)
        /\ Asked(p, j) <= k
    BY <1>4, <2>1 DEF InStep
  <2>4. Stream(sent, 2 * Asked(p, j), buf, wire, Lost)'
    BY <2>3 DEF Stream, Lost
  <2> QED BY <1>5, <1>6, <2>2, <2>3, <2>4 DEF InStep
<1>8. Running(p, j + 1)'
  BY <1>1, Moves
<1>9. HasSaid(p, a, k, t)'
  BY <1>1, SameSaid
<1>10. NotAhead(p, j + 1, a)'
  BY <1>1, <1>2, StillBehind DEF NotAhead
<1> QED BY <1>7, <1>8, <1>9, <1>10 DEF Followed

(* Its result is collected.                                                *)
LEMMA CollectStep ==
    ASSUME NEW p, Grammar(p), NEW j \in Nat, NEW a \in Nat, NEW k \in Nat, NEW t,
           Followed(p, j, a, k, t), ~Returned, Head(prog) = "collect", helper = "ok",
           Advance, UNCHANGED <<buf, wire, sent, server, ans, helper>>
    PROVE  Followed(p, j + 1, a, k, t)'
<1>1. /\ Running(p, j) /\ HasSaid(p, a, k, t) /\ NotAhead(p, j, a)
      /\ InStep(p, j, k) \/ ReadOut(p, j, k, t)
  BY DEF Followed
<1>2. j < Len(p) /\ Len(p) \in Nat /\ p[j + 1] = "collect"
  BY <1>1, AtStep
<1>3. ReadOut(p, j, k, t)
  BY <1>1 DEF InStep
<1>4. Asked(p, j + 1) = Asked(p, j)
  <2>1. p[j + 1] \notin StatusSteps
    BY <1>2 DEF StatusSteps
  <2> QED BY <1>2, <2>1, AskedStep, Zenon
<1>5. ReadOut(p, j + 1, k, t)'
  <2>1. \E i \in 1..(j + 1) : p[i] \in {"payload", "rest", "collect"}
    BY <1>2, SMT
  <2> QED BY <1>3, <1>4, <2>1 DEF ReadOut
<1>6. Running(p, j + 1)'
  BY <1>1, Moves
<1>7. HasSaid(p, a, k, t)'
  BY <1>1, SameSaid
<1>8. NotAhead(p, j + 1, a)'
  BY <1>1, <1>2, StillBehind DEF NotAhead
<1> QED BY <1>5, <1>6, <1>7, <1>8 DEF Followed

(* The function waits.                                                     *)
LEMMA StaysThere ==
    ASSUME NEW p, NEW j, NEW a, Running(p, j), NotAhead(p, j, a), UNCHANGED <<prog, res>>
    PROVE  Running(p, j)' /\ NotAhead(p, j, a)'
BY DEF Running, NotAhead

LEMMA ReaderStep ==
    ASSUME NEW p, Grammar(p), NEW j \in Nat, NEW a \in Nat, NEW k \in Nat, NEW t,
           Followed(p, j, a, k, t), Reader
    PROVE  Followed(p, j, a, k, t)'
<1>1. /\ Running(p, j) /\ HasSaid(p, a, k, t) /\ NotAhead(p, j, a)
      /\ InStep(p, j, k) \/ ReadOut(p, j, k, t)
  BY DEF Followed
<1>2. helper = "reading" /\ UNCHANGED <<prog, res, sent, server, ans>>
  BY DEF Reader, callVars, serverVars
<1>3. InStep(p, j, k) /\ j < Len(p) /\ p[j + 1] = "collect"
  BY <1>1, <1>2 DEF InStep, ReadOut
<1>4. Asked(p, j) \in Nat /\ j + 1 \in 1..Len(p)
  BY <1>3, AskedStep
<1>5. Running(p, j)' /\ NotAhead(p, j, a)'
  BY <1>1, <1>2, StaysThere
<1>6. HasSaid(p, a, k, t)'
  BY <1>1, <1>2, SameSaid
<1>7. CASE TakeAll /\ UNCHANGED helper
  <2>1. InStep(p, j, k)'
    BY <1>2, <1>3, <1>4, <1>7, TakesAll
  <2> QED BY <1>5, <1>6, <2>1 DEF Followed
<1>8. CASE AtEnd(1) /\ helper' = "ok" /\ UNCHANGED <<buf, wire>>
  <2>1. Len(wire) < 1 /\ server \in {"done", "gone"}
    BY <1>8 DEF AtEnd
  <2>2. /\ t # "fail" /\ Asked(p, j) = k
        /\ Window(buf, sent, Offset(k, t))
        /\ Offset(k, t) + Len(buf) = Len(sent) \/ server = "gone"
    BY <1>1, <1>3, <2>1, ReadsOut
  <2>3. \E i \in 1..Len(p) : p[i] \in {"rest", "collect"}
    BY <1>3, <1>4
  <2>4. ReadOut(p, j, k, t)'
    BY <1>2, <1>3, <1>8, <2>1, <2>2, <2>3 DEF ReadOut
  <2> QED BY <1>5, <1>6, <2>4 DEF Followed
<1>9. CASE NetError(1) /\ helper' = "error" /\ UNCHANGED <<buf, wire>>
  <2>1. Stream(sent, 2 * Asked(p, j), buf, wire, Lost)'
    BY <1>2, <1>3, <1>9 DEF InStep, Stream, Lost
  <2>2. InStep(p, j, k)'
    BY <1>3, <1>9, <2>1 DEF InStep
  <2> QED BY <1>5, <1>6, <2>2 DEF Followed
<1> QED BY <1>7, <1>8, <1>9 DEF Reader

-----------------------------------------------------------------------------
(* A step of the server.                                                   *)

(* What it is to answer.                                                   *)
LEMMA ToAnswer ==
    ASSUME NEW p, Grammar(p), NEW a, NEW k, NEW t, HasSaid(p, a, k, t), ans # <<>>
    PROVE  /\ a \in Nat /\ a < Len(p) /\ t = "none" /\ k = Asked(p, a)
           /\ Told(sent, k, "none") /\ k \in Nat
           /\ Head(ans) = p[a + 1] /\ Tail(ans) = After(p, a + 1)
<1>1. /\ a \in 0..Len(p) /\ t = "none" /\ k = Asked(p, a) /\ ans = After(p, a)
      /\ Told(sent, k, "none")
  BY DEF HasSaid
<1>2. p \in Seq(Plain) /\ Len(p) \in Nat
  BY SMT DEF Grammar
<1>3. After(p, a) = <<>> <=> a = Len(p)
  BY <1>1, <1>2, Suffix, Zenon
<1>4. a \in Nat /\ a < Len(p)
  <2>1. a # Len(p)
    BY <1>1, <1>3, Zenon
  <2> QED BY <1>1, <1>2, <2>1, SMT
<1>5. Head(After(p, a)) = p[a + 1] /\ Tail(After(p, a)) = After(p, a + 1)
  BY <1>1, <1>2, <1>4, Suffix, Zenon
<1>6. Head(ans) = p[a + 1] /\ Tail(ans) = After(p, a + 1)
  BY <1>1, <1>5, Zenon
<1>7. k \in Nat
  BY <1>1, Kinds, Zenon
<1> QED BY <1>1, <1>4, <1>6, <1>7

Sum(b, x, y, e) == b + x + y = e

LEMMA Sums ==
    ASSUME NEW b \in Nat, NEW x \in Nat, NEW y \in Nat, NEW z \in Nat, NEW e,
           Sum(b, x, y, e)
    PROVE  Sum(b, x, y + z, e + z)
BY SMT DEF Sum

LEMMA ServerSays ==
    ASSUME NEW p, Grammar(p), NEW j \in Nat, NEW a \in Nat, NEW k \in Nat, NEW t,
           NEW m \in Nat, NEW v, NEW units \in Seq(Unit),
           Followed(p, j, a, k, t), server = "up", ans # <<>>,
           wire' = wire \o units, sent' = sent \o units,
           UNCHANGED <<prog, res, buf, helper>>, server' \in {"up", "done"},
           k <= m, p[a + 1] \notin AskSteps, HasSaid(p, a + 1, m, v)'
    PROVE  Followed(p, j, a + 1, m, v)'
<1>1. /\ Running(p, j) /\ HasSaid(p, a, k, t) /\ NotAhead(p, j, a)
      /\ InStep(p, j, k) \/ ReadOut(p, j, k, t)
  BY DEF Followed
<1>2. InStep(p, j, k)
  BY <1>1 DEF ReadOut
<1>3. Running(p, j)' /\ NotAhead(p, j, a)'
  BY <1>1, StaysThere
<1>4. NotAhead(p, j, a + 1)'
  <2>1. Len(p) \in Nat
    BY SMT DEF Grammar
  <2>2. ASSUME NEW i \in (j + 1)..Len(p), p[i] \in AskSteps PROVE a + 1 < i
    <3>1. a < i /\ i \in Nat
      BY <1>1, <2>1, <2>2, SMT DEF NotAhead
    <3>2. i # a + 1
      BY <2>2, Zenon
    <3> QED BY <3>1, <3>2, SMT
  <2> QED BY <2>2 DEF NotAhead
<1>5. Stream(sent, 2 * Asked(p, j), buf, wire, Lost) /\ Asked(p, j) <= k
  BY <1>2 DEF InStep
<1>6. Asked(p, j) \in Nat
  BY <1>1, Zenon DEF Grammar, Counts, Running
<1>7. PICK b \in Nat : b = 2 * Asked(p, j)
  <2>1. 2 * Asked(p, j) \in Nat
    BY <1>6, SMT
  <2> QED BY <2>1, Zenon
<1>8. Stream(sent', b, buf', wire', FALSE)
  <2>1. Window(buf, sent, b) /\ Window(wire, sent, b + Len(buf))
    BY <1>5, <1>7, Zenon DEF Stream
  <2>2. b + Len(buf) + Len(wire) = Len(sent)
    BY <1>5, <1>7 DEF Stream, Lost
  <2>3. Len(buf) \in Nat /\ Len(wire) \in Nat /\ Len(units) \in Nat
    BY <2>1, SMT DEF Window
  <2>4. sent \in Seq(Unit)
    BY <1>1, Kinds, Zenon DEF HasSaid
  <2>5. Window(buf, sent \o units, b)
    BY <2>1, <2>4, WindowSent, Zenon
  <2>6. PICK c \in Nat : c = b + Len(buf)
    <3>1. b + Len(buf) \in Nat
      BY <2>3, SMT
    <3> QED BY <3>1, Zenon
  <2>7. c + Len(wire) = Len(sent) /\ Window(wire, sent, c)
    <3>1. c + Len(wire) = Len(sent)
      BY <2>2, <2>3, <2>6
    <3> QED BY <2>1, <2>6, <3>1, Zenon
  <2>8. /\ Window(wire \o units, sent \o units, c)
        /\ Len(wire \o units) = Len(wire) + Len(units)
    BY <2>4, <2>7, WindowArrives, Zenon
  <2>9. Len(sent \o units) = Len(sent) + Len(units)
    BY <2>4, Joined, Zenon DEF Join
  <2>10. Window(buf', sent', b) /\ Window(wire', sent', b + Len(buf'))
    BY <2>5, <2>6, <2>8, Zenon
  <2>11. Len(wire') = Len(wire) + Len(units) /\ Len(sent') = Len(sent) + Len(units)
    BY <2>8, <2>9, Zenon
  <2>12. b + Len(buf') + Len(wire') = Len(sent')
    <3>1. Sum(b, Len(buf), Len(wire), Len(sent))
      BY <2>2, Zenon DEF Sum
    <3>2. Sum(b, Len(buf), Len(wire) + Len(units), Len(sent) + Len(units))
      BY <2>3, <3>1, Sums, Zenon
    <3>3. Sum(b, Len(buf'), Len(wire'), Len(sent'))
      BY <2>11, <3>2, Zenon
    <3> QED BY <3>3, Zenon DEF Sum
  <2> QED BY <2>10, <2>12, Zenon DEF Stream
<1>9. InStep(p, j, m)'
  <2>1. Stream(sent, 2 * Asked(p, j), buf, wire, Lost)'
    BY <1>7, <1>8, Zenon DEF Stream
  <2>2. Asked(p, j) <= m
    BY <1>5, <1>6, SMT
  <2>3. /\ \A i \in 1..j : p[i] \notin {"payload", "rest", "collect"}
        /\ (buf = <<>> \/ (j < Len(p) /\ p[j + 1] \in {"rest", "collect"}))'
        /\ (helper = "off" \/ (/\ helper \in {"reading", "error"}
                               /\ j < Len(p) /\ p[j + 1] = "collect"))'
    BY <1>2, Zenon DEF InStep
  <2> QED BY <2>1, <2>2, <2>3, Zenon DEF InStep
<1> QED BY <1>3, <1>4, <1>9, Zenon DEF Followed

(* What the server says next follows what it has said.                     *)
LEMMA SaysMore ==
    ASSUME NEW p, Grammar(p), NEW a \in Nat, NEW k \in Nat, NEW m, NEW v,
           a < Len(p), Told(sent', m, v), k = Asked(p, a),
           \/ /\ p[a + 1] \in StatusSteps
              /\ \/ ans' = After(p, a + 1) /\ m = k + 1 /\ v = "none"
                 \/ ans' = <<>> /\ m = k /\ v = "fail"
           \/ p[a + 1] = "payload" /\ ans' = <<>> /\ m = k /\ v = "payload"
           \/ p[a + 1] \in {"rest", "spawn"} /\ ans' = <<>> /\ m = k /\ v = "output"
              /\ server' = "done"
    PROVE  HasSaid(p, a + 1, m, v)' /\ m \in Nat /\ k <= m /\ p[a + 1] \notin AskSteps
<1>1. /\ a + 1 \in 0..Len(p) /\ a + 1 > 0
      /\ p[a + 1] \in StatusSteps => Asked(p, a + 1) = k + 1
      /\ p[a + 1] \notin StatusSteps => Asked(p, a + 1) = k
  <2>1. /\ Len(p) \in Nat
        /\ p[a + 1] \in StatusSteps => Asked(p, a + 1) = Asked(p, a) + 1
        /\ p[a + 1] \notin StatusSteps => Asked(p, a + 1) = Asked(p, a)
    BY AskedStep, Zenon
  <2> QED BY <2>1, SMT
<1>2. /\ p[a + 1] = "payload" => p[a + 1] \notin StatusSteps /\ p[a + 1] \in ReadSteps
      /\ p[a + 1] \in {"rest", "spawn"} =>
           p[a + 1] \notin StatusSteps /\ p[a + 1] \in ReadSteps /\ p[a + 1] # "payload"
  BY DEF StatusSteps, ReadSteps
<1>3. p[a + 1] \notin AskSteps
  BY DEF StatusSteps, AskSteps
<1>4. CASE v = "none"
  BY <1>1, <1>3, <1>4, SMT DEF HasSaid
<1>5. CASE v = "fail"
  BY <1>1, <1>3, <1>5, SMT DEF HasSaid
<1>6. CASE v = "payload"
  BY <1>1, <1>2, <1>3, <1>6, SMT DEF HasSaid
<1>7. CASE v = "output"
  BY <1>1, <1>2, <1>3, <1>7, SMT DEF HasSaid
<1> QED BY <1>4, <1>5, <1>6, <1>7

LEMMA ServerFollowed ==
    ASSUME NEW p, Grammar(p), NEW j \in Nat, NEW a \in Nat, NEW k \in Nat, NEW t,
           Followed(p, j, a, k, t), ServerStep
    PROVE  \E m \in Nat : \E v : Followed(p, j, a + 1, m, v)'
<1>1. HasSaid(p, a, k, t)
  BY DEF Followed
<1>2. server = "up" /\ ans # <<>>
  BY DEF ServerStep, ServerStatus, ServerPayload, ServerSecondStatus, ServerOutput,
         Answering
<1>3. /\ a < Len(p) /\ k = Asked(p, a) /\ Told(sent, k, "none")
      /\ Head(ans) = p[a + 1] /\ Tail(ans) = After(p, a + 1)
  BY <1>1, <1>2, ToAnswer, Zenon
<1>4. ASSUME NEW units \in Seq(Unit), NEW left, NEW m, NEW v, Sends(units, left),
             Told(sent \o units, m, v), server' \in {"up", "done"},
             \/ /\ p[a + 1] \in StatusSteps
                /\ \/ left = After(p, a + 1) /\ m = k + 1 /\ v = "none"
                   \/ left = <<>> /\ m = k /\ v = "fail"
             \/ p[a + 1] = "payload" /\ left = <<>> /\ m = k /\ v = "payload"
             \/ p[a + 1] \in {"rest", "spawn"} /\ left = <<>> /\ m = k /\ v = "output"
                /\ server' = "done"
      PROVE  m \in Nat /\ Followed(p, j, a + 1, m, v)'
  <2>1. /\ wire' = wire \o units /\ sent' = sent \o units /\ ans' = left
        /\ UNCHANGED <<prog, res, buf, helper>>
    BY <1>4, Zenon DEF Sends, callVars, ctxVars
  <2>2. Told(sent', m, v)
    BY <1>4, <2>1, Zenon
  <2>3. HasSaid(p, a + 1, m, v)' /\ m \in Nat /\ k <= m /\ p[a + 1] \notin AskSteps
    BY <1>3, <1>4, <2>1, <2>2, SaysMore, Zenon
  <2> QED BY <1>2, <1>4, <2>1, <2>3, ServerSays, Zenon
<1>5. CASE ServerStatus
  <2>1. p[a + 1] \in StatusSteps /\ server' \in {"up", "done"}
    BY <1>2, <1>3, <1>5 DEF ServerStatus, Answering, StatusSteps
  <2>2. CASE Sends(Status("OKAY"), Tail(ans))
    <3>1. Told(sent \o Status("OKAY"), k + 1, "none") /\ Status("OKAY") \in Seq(Unit)
      BY <1>3, ToldMore, Messages, Zenon
    <3> QED BY <1>3, <1>4, <2>1, <2>2, <3>1, Zenon
  <2>3. CASE Sends(Status("FAIL") \o Prefixed(1), <<>>)
    <3>1. /\ Told(sent \o (Status("FAIL") \o Prefixed(1)), k, "fail")
          /\ Status("FAIL") \o Prefixed(1) \in Seq(Unit)
      BY <1>3, ToldMore, FailureUnits, Zenon
    <3> QED BY <1>3, <1>4, <2>1, <2>3, <3>1, Zenon
  <2> QED BY <1>5, <2>2, <2>3 DEF ServerStatus
<1>6. p[a + 1] \in Plain
  <2>1. p \in Seq(Plain) /\ a + 1 \in 1..Len(p)
    BY <1>3, SMT DEF Grammar
  <2> QED BY <2>1, SMT
<1>7. ~ServerSecondStatus
  BY <1>3, <1>6 DEF ServerSecondStatus, Answering, Plain
<1>8. CASE ServerPayload
  <2>1. p[a + 1] = "payload" /\ server' \in {"up", "done"}
    BY <1>2, <1>3, <1>6, <1>8 DEF ServerPayload, Answering, Plain
  <2>2. PICK n \in 0..MaxData : Sends(Prefixed(n), <<>>)
    BY <1>8 DEF ServerPayload
  <2>3. n \in Nat
    BY MaxDataAssumption, SMT
  <2>4. Told(sent \o Prefixed(n), k, "payload") /\ Prefixed(n) \in Seq(Unit)
    BY <1>3, <2>3, ToldMore, PrefixedUnits, Zenon
  <2> QED BY <1>4, <2>1, <2>2, <2>4, Zenon
<1>9. CASE ServerOutput
  <2>1. p[a + 1] \in {"rest", "spawn"} /\ server' = "done"
    BY <1>3, <1>9 DEF ServerOutput, Answering
  <2>2. PICK n \in 0..MaxData : Sends(Data(n), <<>>)
    BY <1>9 DEF ServerOutput
  <2>3. n \in Nat
    BY MaxDataAssumption, SMT
  <2>4. Told(sent \o Data(n), k, "output") /\ Data(n) \in Seq(Unit)
    BY <1>3, <2>3, ToldMore, DataUnits, Zenon
  <2>5. server' \in {"up", "done"}
    BY <2>1
  <2> QED BY <1>4, <2>1, <2>2, <2>4, <2>5, Zenon
<1> QED BY <1>5, <1>7, <1>8, <1>9 DEF ServerStep

(* The server hangs, or its end of the connection goes away.               *)
LEMMA ServerStops ==
    ASSUME NEW p, Grammar(p), NEW j \in Nat, NEW a \in Nat, NEW k \in Nat, NEW t,
           Followed(p, j, a, k, t), ServerHangs \/ ServerLost
    PROVE  Followed(p, j, a, k, t)'
<1>1. /\ Running(p, j) /\ HasSaid(p, a, k, t) /\ NotAhead(p, j, a)
      /\ InStep(p, j, k) \/ ReadOut(p, j, k, t)
  BY DEF Followed
<1>2. /\ UNCHANGED <<prog, res, buf, sent, helper>> /\ server' # "up"
      /\ ans' = ans \/ ans' = <<>>
      /\ server \in {"up", "done"}
  BY DEF ServerHangs, ServerLost, callVars, linkVars, ctxVars
<1>3. Running(p, j)' /\ NotAhead(p, j, a)'
  BY <1>1, <1>2, StaysThere
<1>4. HasSaid(p, a, k, t)'
  BY <1>1, <1>2, SameSaid
<1>5. CASE InStep(p, j, k)
  <2>1. PICK b : b = 2 * Asked(p, j)
    BY Zenon
  <2>2. b \in Nat
    <3>1. Asked(p, j) \in Nat
      BY <1>1, Zenon DEF Grammar, Counts, Running
    <3> QED BY <2>1, <3>1, SMT
  <2>3. Stream(sent, b, buf, wire, Lost)
    BY <1>5, <2>1, Zenon DEF InStep
  <2>4. Stream(sent, b, buf, wire, Lost)'
    <3>1. CASE ServerHangs
      <4>1. wire' = wire /\ ~Lost
        BY <3>1 DEF ServerHangs, linkVars, Lost
      <4> QED BY <1>2, <2>3, <4>1 DEF Stream
    <3>2. CASE ServerLost
      <4>1. PICK n \in 0..Len(wire) : wire' = SubSeq(wire, 1, n)
        BY <3>2 DEF ServerLost, Take
      <4>2. Lost'
        BY <3>2 DEF ServerLost, Lost
      <4>3. Window(buf, sent, b) /\ Window(wire, sent, b + Len(buf))
        BY <2>3, Zenon DEF Stream
      <4>4. b + Len(buf) \in Nat /\ n \in Nat /\ n <= Len(wire)
        BY <2>2, <4>1, <4>3, SMT DEF Window
      <4>5. Window(SubSeq(wire, 1, n), sent, b + Len(buf))
        BY <4>3, <4>4, WindowTake, Zenon
      <4> QED BY <1>2, <4>1, <4>2, <4>3, <4>5, Zenon DEF Stream
    <3> QED BY <3>1, <3>2
  <2>5. Stream(sent, 2 * Asked(p, j), buf, wire, Lost)'
    BY <2>1, <2>4, Zenon
  <2>6. InStep(p, j, k)'
    BY <1>2, <1>5, <2>5, Zenon DEF InStep
  <2> QED BY <1>3, <1>4, <2>6 DEF Followed
<1>6. CASE ReadOut(p, j, k, t)
  <2>1. Offset(k, t) + Len(buf) = Len(sent)
    BY <1>2, <1>6 DEF ReadOut
  <2>2. ReadOut(p, j, k, t)'
    BY <1>2, <1>6, <2>1 DEF ReadOut
  <2> QED BY <1>3, <1>4, <2>2 DEF Followed
<1> QED BY <1>1, <1>5, <1>6

(* Nothing that matters changes.                                           *)
LEMMA SameFollowed ==
    ASSUME NEW p, NEW j, NEW a, NEW k, NEW t, Followed(p, j, a, k, t),
           UNCHANGED <<prog, res, buf, wire, sent, ans, server, helper>>
    PROVE  Followed(p, j, a, k, t)'
<1>1. Running(p, j)' /\ NotAhead(p, j, a)'
  BY StaysThere DEF Followed
<1>2. HasSaid(p, a, k, t)'
  BY SameSaid DEF Followed
<1>3. CASE InStep(p, j, k)
  <2>1. InStep(p, j, k)'
    BY <1>3 DEF InStep, Stream, Lost
  <2> QED BY <1>1, <1>2, <2>1 DEF Followed
<1>4. CASE ReadOut(p, j, k, t)
  <2>1. ReadOut(p, j, k, t)'
    BY <1>4 DEF ReadOut
  <2> QED BY <1>1, <1>2, <2>1 DEF Followed
<1> QED BY <1>3, <1>4 DEF Followed

-----------------------------------------------------------------------------
(* Every step.                                                             *)

LEMMA Fails == Fail => Failing'
BY DEF Fail, Failing

(* A step of a function that is not a host command: it goes on in step     *)
(* with the server, or fails.                                              *)
LEMMA Heads ==
    /\ Dial => Step("dial")
    /\ Watch => Step("watch")
    /\ Send => Step("send") \/ Step("copy")
    /\ ReadOnce => Step("head") \/ Step("select")
    /\ ReadStatus => Step("status") \/ Step("accept")
    /\ Message => Step("message")
    /\ ReadPayload => Step("payload")
    /\ ReadReply => Step("reply")
    /\ ReadRaw => Step("raw")
    /\ ReadRest => Step("rest")
    /\ Decode => Step("decode")
    /\ Spawn => Step("spawn")
    /\ Collect => Step("collect")
    /\ Close => Step("close")
BY Zenon
   DEF Dial, Watch, Send, ReadOnce, ReadStatus, Message, ReadPayload, ReadReply, ReadRaw,
       ReadRest, Decode, Spawn, Collect, Close

LEMMA CallRuns == CallStep => ~Returned
<1>1. \A x : Step(x) => ~Returned
  BY DEF Step
<1> QED BY <1>1, Heads, Zenon DEF CallStep

LEMMA CallFollowed ==
    ASSUME NEW p, Grammar(p), NEW j \in Nat, NEW a \in Nat, NEW k \in Nat, NEW t,
           Followed(p, j, a, k, t), CallStep
    PROVE  Failing' \/ \E i, b, m \in Nat : \E v : Followed(p, i, b, m, v)'
<1> DEFINE Goal == Failing' \/ \E i, b, m \in Nat : \E v : Followed(p, i, b, m, v)'
<1>1. Running(p, j)
  BY DEF Followed
<1>2. ~Returned
  BY CallRuns
<1>3. Head(prog) \in Plain
  BY <1>1, <1>2, AtStep
<1>4. j + 1 \in Nat
  BY SMT
<1>5. ASSUME Followed(p, j + 1, a, k, t)' \/ Followed(p, j, a, k, t)'
      PROVE  Goal
  BY <1>4, <1>5, Zenon
<1>6. CASE Dial
  <2>1. CASE Advance
    <3>1. Followed(p, j + 1, a, k, t)'
      BY <1>2, <1>6, <2>1, QuietStep DEF Dial, Step, ctxVars, serverVars
    <3> QED BY <1>5, <3>1
  <2>2. CASE UNCHANGED <<prog, res>>
    <3>1. Followed(p, j, a, k, t)'
      BY <1>6, <2>2, SameFollowed DEF Dial, ctxVars, serverVars
    <3> QED BY <1>5, <3>1
  <2> QED BY <1>6, <2>1, <2>2, Fails DEF Dial
<1>7. CASE Send
  <2>1. CASE Advance
    <3>1. Head(prog) \in AskSteps /\ UNCHANGED <<buf, wire, sent, server, helper>>
      BY <1>7 DEF Send, Step, AskSteps, ctxVars
    <3>2. CASE ans' = Tail(prog)
      <4>1. Followed(p, j + 1, j + 1, k, "none")'
        BY <1>2, <2>1, <3>1, <3>2, SendStep
      <4> QED BY <1>4, <4>1, Zenon
    <3>3. CASE Fail
      BY <3>3, Fails
    <3> QED BY <1>7, <3>2, <3>3 DEF Send
  <2> QED BY <1>7, <2>1, Fails DEF Send
<1>8. CASE ReadOnce
  <2>1. Head(prog) = "select" /\ UNCHANGED <<buf, sent, server, ans, helper>>
    BY <1>3, <1>8 DEF ReadOnce, Step, Plain, ctxVars, serverVars
  <2>2. ASSUME NEW n \in 1..2, CanRead(n), wire' = Drop(n),
               IF Accepted(Take(n)) THEN Advance
               ELSE prog' = <<"message">> /\ UNCHANGED res
        PROVE  Goal
    <3>1. CASE Take(n) = Status("OKAY")
      <4>1. Accepted(Take(n)) /\ Len(wire) >= n /\ Head(prog) \in StatusSteps
        BY <2>1, <2>2, <3>1 DEF Accepted, Step, CanRead, StatusSteps
      <4>2. Followed(p, j + 1, a, k, t)'
        BY <1>2, <2>1, <2>2, <3>1, <4>1, StatusStep
      <4> QED BY <1>5, <4>2
    <3>2. CASE Take(n) # Status("OKAY")
      BY <2>1, <2>2, <3>2 DEF Accepted, Step, Failing
    <3> QED BY <3>1, <3>2
  <2> QED BY <1>8, <2>2, Fails DEF ReadOnce
<1>9. CASE ReadStatus
  <2>1. /\ Head(prog) \in {"status", "accept"}
        /\ UNCHANGED <<buf, sent, server, ans, helper>>
    BY <1>9 DEF ReadStatus, Step, ctxVars, serverVars
  <2>2. CASE CanRead(2) /\ wire' = Drop(2) /\ Advance /\ Take(2) # Status("FAIL")
    <3>1. Len(wire) >= 2 /\ Head(prog) \in StatusSteps /\ 2 \in 1..2
      BY <2>1, <2>2, SMT DEF CanRead, StatusSteps
    <3>2. j < Len(p) /\ p[j + 1] = Head(prog)
      BY <1>1, <1>2, AtStep
    <3>3. InStep(p, j, k) /\ HasSaid(p, a, k, t)
      <4>1. p[j + 1] \notin FinalSteps
        BY <2>1, <3>2 DEF FinalSteps
      <4> QED BY <3>2, <4>1, ReadOutFinal, Zenon DEF Followed
    <3>4. Take(2) = Status("OKAY")
      BY <2>2, <3>1, <3>2, <3>3, NextStatus
    <3>5. Followed(p, j + 1, a, k, t)'
      BY <1>2, <2>1, <2>2, <3>1, <3>4, StatusStep
    <3> QED BY <1>5, <3>5
  <2> QED BY <1>9, <2>2, Fails DEF ReadStatus, Failing
<1>10. CASE ReadPayload
  <2>1. /\ Head(prog) = "payload" /\ UNCHANGED <<sent, server, ans, helper>>
    BY <1>10 DEF ReadPayload, Step, ctxVars, serverVars
  <2>2. CASE CanRead(Needed) /\ LengthOK /\ buf' = SubSeq(wire, 3, Needed) /\ Advance
    <3>1. Len(wire) >= Needed /\ buf' = Body
      BY <2>2, Zenon DEF CanRead, Body
    <3>2. Followed(p, j + 1, a, k, t)'
      BY <1>2, <2>1, <2>2, <3>1, PayloadStep
    <3> QED BY <1>5, <3>2
  <2> QED BY <1>10, <2>2, Fails DEF ReadPayload
<1>11. CASE ReadRest
  <2>1. /\ Head(prog) = "rest" /\ UNCHANGED <<sent, server, ans, helper>>
    BY <1>11 DEF ReadRest, Step, ctxVars, serverVars
  <2>2. CASE TakeAll /\ UNCHANGED <<prog, res>>
    <3>1. j < Len(p) /\ p[j + 1] = "rest" /\ Asked(p, j) \in Nat
      BY <1>1, <1>2, <2>1, AtStep
    <3>2. InStep(p, j, k) /\ HasSaid(p, a, k, t) /\ NotAhead(p, j, a)
      <4>1. p[j + 1] \notin FinalSteps
        BY <3>1 DEF FinalSteps
      <4> QED BY <3>1, <4>1, ReadOutFinal, Zenon DEF Followed
    <3>3. InStep(p, j, k)'
      BY <2>1, <2>2, <3>1, <3>2, TakesAll
    <3>4. Running(p, j)' /\ NotAhead(p, j, a)'
      BY <1>1, <2>2, <3>2, StaysThere
    <3>5. HasSaid(p, a, k, t)'
      BY <2>1, <3>2, SameSaid
    <3>6. Followed(p, j, a, k, t)'
      BY <3>3, <3>4, <3>5 DEF Followed
    <3> QED BY <1>5, <3>6
  <2>3. CASE AtEnd(1) /\ Advance /\ UNCHANGED <<buf, wire>>
    <3>1. Followed(p, j + 1, a, k, t)'
      BY <1>2, <2>1, <2>3, RestEnds
    <3> QED BY <1>5, <3>1
  <2> QED BY <1>11, <2>2, <2>3, Fails DEF ReadRest
<1>12. CASE Decode
  <2>1. CASE Advance
    <3>1. Followed(p, j + 1, a, k, t)'
      BY <1>2, <1>12, <2>1, QuietStep DEF Decode, Step, ctxVars, serverVars
    <3> QED BY <1>5, <3>1
  <2> QED BY <1>12, <2>1, Fails DEF Decode
<1>13. CASE Spawn
  <2>1. Followed(p, j + 1, a, k, t)'
    BY <1>2, <1>13, SpawnStep DEF Spawn, Step, linkVars, serverVars
  <2> QED BY <1>5, <2>1
<1>14. CASE Collect
  <2>1. CASE helper = "ok" /\ Advance
    <3>1. Followed(p, j + 1, a, k, t)'
      BY <1>2, <1>14, <2>1, CollectStep DEF Collect, Step, ctxVars, serverVars
    <3> QED BY <1>5, <3>1
  <2> QED BY <1>14, <2>1, Fails DEF Collect
<1>15. CASE Close
  <2>1. Followed(p, j + 1, a, k, t)'
    BY <1>2, <1>15, QuietStep DEF Close, Step, ctxVars, serverVars
  <2> QED BY <1>5, <2>1
<1>16. ~Watch /\ ~Message /\ ~ReadReply /\ ~ReadRaw
  BY <1>3 DEF Watch, Message, ReadReply, ReadRaw, Step, Plain
<1> QED BY <1>6, <1>7, <1>8, <1>9, <1>10, <1>11, <1>12, <1>13, <1>14, <1>15, <1>16
        DEF CallStep

-----------------------------------------------------------------------------
(* A host command.                                                         *)

LEMMA HostSaid ==
    ASSUME NEW k \in 0..2, NEW t, HostSays(k, t)
    PROVE  /\ sent \in Seq(Unit) /\ Len(sent) \in Nat /\ Told(sent, k, t)
           /\ t \in {"none", "fail", "payload"}
           /\ sent = <<>> => k = 0 /\ t = "none"
           /\ k > 0 => sent[1] = Okay(1) /\ sent[2] = Okay(2) /\ Len(sent) >= 2
           /\ k = 0 /\ Len(sent) > 0 => /\ sent[1] = [f |-> "FAIL", n |-> 1]
                                        /\ sent[2] = [f |-> "FAIL", n |-> 2]
           /\ k > 0 /\ Len(sent) > 2 /\ (sent[3].f = "len" \/ server = "up") =>
                t = "payload" /\ sent[3] = [f |-> "len", n |-> Len(sent) - 4]
<1>1. Told(sent, k, t) /\ t # "output" /\ (t = "payload" => k = 1)
      /\ (server = "up" => k <= 1 /\ ~(k = 1 /\ t = "fail"))
  BY DEF HostSays
<1>2. /\ sent \in Seq(Unit) /\ Len(sent) \in Nat /\ t \in {"none", "fail", "payload"}
      /\ Len(sent) >= 2 * k
  BY <1>1, Kinds
<1>3. \A m \in 1..k : sent[2 * m - 1] = Okay(1) /\ sent[2 * m] = Okay(2)
  BY <1>1, Zenon DEF Told
<1>4. /\ t = "none" => Len(sent) = 2 * k
      /\ t = "payload" => Len(sent) >= 2 * k + 2
      /\ t = "fail" => Len(sent) = 2 * k + 5
  BY <1>1, <1>2 DEF Told
<1>5. t = "fail" => /\ sent[2 * k + 1] = [f |-> "FAIL", n |-> 1]
                    /\ sent[2 * k + 2] = [f |-> "FAIL", n |-> 2]
  BY <1>1, Zenon DEF Told
<1>6. t = "payload" => sent[2 * k + 1] = [f |-> "len", n |-> Len(sent) - (2 * k + 2)]
  BY <1>1 DEF Told
<1>7. sent = <<>> => k = 0 /\ t = "none"
  BY <1>2, <1>4, SMT
<1>8. k > 0 => sent[1] = Okay(1) /\ sent[2] = Okay(2) /\ Len(sent) >= 2
  <2>1. k > 0 => 1 \in 1..k
    BY SMT
  <2>2. k > 0 => sent[2 * 1 - 1] = Okay(1) /\ sent[2 * 1] = Okay(2)
    BY <1>3, <2>1, Zenon
  <2>3. 2 * 1 - 1 = 1 /\ 2 * 1 = 2
    BY SMT
  <2>4. k > 0 => sent[1] = Okay(1) /\ sent[2] = Okay(2)
    BY <2>2, <2>3, Zenon
  <2> QED BY <1>2, <2>4, SMT
<1>9. k = 0 /\ Len(sent) > 0 => /\ sent[1] = [f |-> "FAIL", n |-> 1]
                                /\ sent[2] = [f |-> "FAIL", n |-> 2]
  <2>1. k = 0 /\ Len(sent) > 0 => t = "fail"
    BY <1>1, <1>2, <1>4, SMT
  <2>2. k = 0 => 2 * k + 1 = 1 /\ 2 * k + 2 = 2
    BY SMT
  <2> QED BY <1>5, <2>1, <2>2, Zenon
<1>10. ASSUME k > 0, Len(sent) > 2, sent[3].f = "len" \/ server = "up"
       PROVE  t = "payload" /\ sent[3] = [f |-> "len", n |-> Len(sent) - 4]
  <2>1. k = 1
    <3>1. ASSUME k = 2 PROVE FALSE
      <4>1. 2 \in 1..k /\ 2 * 2 - 1 = 3
        BY <3>1, SMT
      <4>2. sent[2 * 2 - 1] = Okay(1)
        BY <1>3, <4>1, Zenon
      <4>3. sent[3].f = "OKAY"
        BY <4>1, <4>2, SMT DEF Okay
      <4> QED BY <1>1, <1>10, <3>1, <4>3, SMT
    <3> QED BY <1>10, <3>1, SMT
  <2>2. 2 * k + 1 = 3 /\ 2 * k + 2 = 4
    BY <2>1, SMT
  <2>3. t # "none"
    <3>1. t = "none" => Len(sent) = 2
      BY <1>4, <2>1, SMT
    <3>2. Len(sent) \in Nat /\ Len(sent) > 2
      BY <1>2, <1>10
    <3>3. ~(2 > 2)
      BY SMT
    <3> QED BY <3>1, <3>2, <3>3, Zenon
  <2>4. t # "fail"
    <3>1. ASSUME t = "fail" PROVE FALSE
      <4>1. sent[3].f = "FAIL"
        BY <1>5, <2>2, <3>1, SMT
      <4> QED BY <1>1, <1>10, <2>1, <3>1, <4>1
    <3> QED BY <3>1
  <2>5. t = "payload"
    BY <1>2, <2>3, <2>4
  <2> QED BY <1>6, <2>2, <2>5
<1> QED BY <1>1, <1>2, <1>7, <1>8, <1>9, <1>10

(* The status of a host command, read in one piece.                        *)
LEMMA HostStatus ==
    ASSUME NEW k \in 0..2, NEW t, HostSays(k, t), HostHead, Len(wire) >= 2,
           Take(2) # Status("FAIL")
    PROVE  /\ k > 0 /\ Window(Drop(2), sent, 2)
           /\ Lost \/ 2 + Len(Drop(2)) = Len(sent)
<1>1. Window(wire, sent, 0) /\ (Lost \/ 0 + Len(wire) = Len(sent))
  BY DEF HostHead
<1>2. /\ wire \in Seq(Unit) /\ Len(wire) \in Nat
      /\ \A i \in 1..Len(wire) : 0 + i <= Len(sent) /\ wire[i] = sent[0 + i]
  BY <1>1, SMT DEF Window
<1>3. wire[1] = sent[1] /\ wire[2] = sent[2] /\ Len(sent) > 0
  <2>1. 1 \in 1..Len(wire) /\ 2 \in 1..Len(wire) /\ 0 + 1 = 1 /\ 0 + 2 = 2
    BY <1>2, SMT
  <2>2. 0 + 1 <= Len(sent) /\ wire[1] = sent[0 + 1] /\ wire[2] = sent[0 + 2]
    BY <1>2, <2>1, Zenon
  <2>3. Len(sent) \in Nat
    BY HostSaid
  <2> QED BY <2>1, <2>2, <2>3, SMT
<1>4. k > 0
  <2>1. ASSUME k = 0 PROVE FALSE
    <3>1. wire[1] = [f |-> "FAIL", n |-> 1] /\ wire[2] = [f |-> "FAIL", n |-> 2]
      BY <1>3, <2>1, HostSaid
    <3>2. Take(2) = Status("FAIL")
      <4>1. /\ Take(2) \in Seq(Unit) /\ Len(Take(2)) = 2
            /\ Take(2)[1] = wire[1] /\ Take(2)[2] = wire[2]
        BY <1>2, SMT DEF Take
      <4> QED BY <3>1, <4>1, Messages, SMT
    <3> QED BY <3>2
  <2> QED BY <2>1, SMT
<1>5. /\ Window(SubSeq(wire, 2 + 1, Len(wire)), sent, 2 * 0 + 2)
      /\ Len(SubSeq(wire, 2 + 1, Len(wire))) = Len(wire) - 2
  <2>1. 0 \in Nat /\ 2 * 0 = 0
    BY SMT
  <2>2. Window(wire, sent, 2 * 0)
    BY <1>1, <2>1
  <2> QED BY <2>1, <2>2, ReadTwo, Zenon
<1>6. Window(Drop(2), sent, 2 * 0 + 2) /\ Len(Drop(2)) = Len(wire) - 2
  BY <1>5, Zenon DEF Drop
<1>7. 2 * 0 + 2 = 2
  BY SMT
<1>8. Window(Drop(2), sent, 2)
  BY <1>6, <1>7, Zenon
<1> QED BY <1>1, <1>2, <1>4, <1>6, <1>8, SMT

(* The reply has a length.                                                 *)
LEMMA HostLength ==
    ASSUME NEW k \in 0..2, NEW t, HostSays(k, t), HostReply(k)
    PROVE  /\ Len(wire) \in Nat
           /\ LengthOK => t = "payload" /\ Needed = Len(sent) - 2
           /\ Len(wire) >= 2 /\ ~LengthOK => server # "up"
<1>1. Window(wire, sent, 2) /\ k > 0
  BY DEF HostReply
<1>2. Len(wire) \in Nat /\ Len(sent) \in Nat
  BY <1>1, HostSaid, SMT DEF Window
<1>3. ASSUME Len(wire) >= 2 PROVE wire[1] = sent[3] /\ Len(sent) > 2
  <2>1. 1 \in 1..Len(wire) /\ 2 + 1 = 3
    BY <1>2, <1>3, SMT
  <2>2. 2 + 1 <= Len(sent) /\ wire[1] = sent[2 + 1]
    BY <1>1, <2>1, Zenon DEF Window
  <2> QED BY <1>2, <2>1, <2>2, SMT
<1>4. ASSUME LengthOK PROVE t = "payload" /\ Needed = Len(sent) - 2
  <2>1. Len(wire) >= 2 /\ wire[1].f = "len" /\ Needed = 2 + wire[1].n
    BY <1>4 DEF LengthOK, Needed
  <2>2. t = "payload" /\ wire[1] = [f |-> "len", n |-> Len(sent) - 4]
    <3>1. wire[1] = sent[3] /\ Len(sent) > 2 /\ sent[3].f = "len"
      BY <1>3, <2>1
    <3> QED BY <1>1, <3>1, HostSaid, Zenon
  <2>3. wire[1].n = Len(sent) - 4
    BY <2>2, SMT
  <2> QED BY <1>2, <2>1, <2>2, <2>3, SMT
<1>5. ASSUME Len(wire) >= 2, ~LengthOK, server = "up" PROVE FALSE
  <2>1. wire[1] = sent[3] /\ Len(sent) > 2
    BY <1>3, <1>5
  <2>2. sent[3] = [f |-> "len", n |-> Len(sent) - 4]
    BY <1>1, <1>5, <2>1, HostSaid, Zenon
  <2>3. wire[1].f = "len"
    BY <2>1, <2>2, SMT
  <2> QED BY <1>5, <2>3 DEF LengthOK
<1> QED BY <1>2, <1>4, <1>5

LEMMA SameHostSays ==
    ASSUME NEW k, NEW t, HostSays(k, t), sent' = sent, ans' = ans \/ ans' = <<>>,
           server' = "up" => server = "up"
    PROVE  HostSays(k, t)'
BY DEF HostSays

(* The steps of SendHostCommandContext.                                    *)
LEMMA HostSteps ==
    /\ SendHostCommandContext = <<"dial", "watch", "send", "head", "reply", "close">>
    /\ Head(SendHostCommandContext) = "dial"
    /\ Head(Tail(SendHostCommandContext)) = "watch"
    /\ Tail(Tail(SendHostCommandContext)) = <<"send", "head", "reply", "close">>
    /\ Len(SendHostCommandContext) # 1 /\ Len(Tail(SendHostCommandContext)) # 1
BY SMT DEF SendHostCommandContext

LEMMA HostOpens ==
    ASSUME NEW k \in 0..2, NEW t, HostFollowed(k, t), HostBefore, CallStep
    PROVE  Failing' \/ HostFollowed(k, t)'
<1>1. /\ helper \in {"off", "watching", "exit"} /\ HostSays(k, t)
      /\ res = "none" /\ sent = <<>> /\ wire = <<>> /\ buf = <<>> /\ ans = <<>>
      /\ prog \in {SendHostCommandContext, Tail(SendHostCommandContext),
                   <<"send", "head", "reply", "close">>}
  BY DEF HostFollowed, HostBefore
<1>2. Head(prog) \in {"dial", "watch", "send"} /\ ~Returned
  <2>1. Head(<<"send", "head", "reply", "close">>) = "send"
    BY SMT
  <2> QED BY <1>1, <2>1, HostSteps, CallRuns
<1>3. CASE Dial
  <2>1. Head(prog) = "dial" /\ UNCHANGED <<wire, buf, helper, server, ans, sent>>
    BY <1>3 DEF Dial, Step, ctxVars, serverVars
  <2>2. prog = SendHostCommandContext
    <3>1. Head(<<"send", "head", "reply", "close">>) = "send"
      BY SMT
    <3> QED BY <1>1, <2>1, <3>1, HostSteps
  <2>3. Failing' \/ (/\ prog' \in {SendHostCommandContext, Tail(SendHostCommandContext)}
                     /\ res' = "none")
    <3>1. CASE Advance
      BY <1>1, <2>2, <3>1, HostSteps DEF Advance
    <3>2. CASE UNCHANGED <<prog, res>>
      BY <1>1, <2>2, <3>2
    <3> QED BY <1>3, <3>1, <3>2, Fails DEF Dial
  <2>4. HostSays(k, t)'
    BY <1>1, <2>1, SameHostSays
  <2> QED BY <1>1, <2>1, <2>3, <2>4 DEF HostFollowed, HostBefore
<1>4. CASE Watch
  <2>1. /\ Head(prog) = "watch" /\ UNCHANGED <<wire, buf, server, ans, sent>>
        /\ helper' \in {helper, "watching"} /\ Advance
    BY <1>4 DEF Watch, Step, linkVars, serverVars
  <2>2. prog = Tail(SendHostCommandContext)
    <3>1. Head(<<"send", "head", "reply", "close">>) = "send"
      BY SMT
    <3> QED BY <1>1, <2>1, <3>1, HostSteps
  <2>3. prog' = <<"send", "head", "reply", "close">> /\ res' = "none"
    BY <1>1, <2>1, <2>2, HostSteps DEF Advance
  <2>4. HostSays(k, t)'
    BY <1>1, <2>1, SameHostSays
  <2> QED BY <1>1, <2>1, <2>3, <2>4 DEF HostFollowed, HostBefore
<1>5. CASE Send
  <2>1. /\ Head(prog) \in {"send", "copy"}
        /\ UNCHANGED <<wire, buf, helper, server, sent>>
    BY <1>5 DEF Send, Step, ctxVars
  <2>2. prog = <<"send", "head", "reply", "close">>
    BY <1>1, <2>1, HostSteps
  <2>3. /\ Tail(prog) = <<"head", "reply", "close">> /\ Len(prog) # 1
    BY <2>2, SMT
  <2>4. CASE conn = "open" /\ Advance /\ ans' = Tail(prog) /\ UNCHANGED conn
    <3>1. /\ prog' = <<"head", "reply", "close">> /\ res' = "none" /\ conn' = "open"
          /\ ans' = <<"head", "reply", "close">>
      BY <1>1, <2>3, <2>4 DEF Advance
    <3>2. HostHead'
      <4>1. Window(wire, sent, 0)' /\ 0 + Len(wire') = Len(sent')
        BY <1>1, <2>1, EmptyWindow, SMT
      <4> QED BY <1>1, <2>1, <3>1, <4>1 DEF HostHead, Held
    <3>3. k = 0 /\ t = "none"
      BY <1>1, HostSaid
    <3>4. HostSays(k, t)'
      BY <1>1, <2>1, <3>1, <3>3 DEF HostSays
    <3> QED BY <1>1, <2>1, <3>2, <3>4 DEF HostFollowed
  <2> QED BY <1>5, <2>4, Fails DEF Send
<1> QED BY <1>2, <1>3, <1>4, <1>5, Heads DEF CallStep, Step

(* What a host command does when it is not before its request.             *)
LEMMA HostNext ==
    ASSUME NEW k, CallStep, ~HostBefore,
           HostHead \/ HostReply(k) \/ HostRaw(k) \/ HostDone(k)
    PROVE  \/ HostHead /\ ReadOnce /\ Step("head")
           \/ HostReply(k) /\ ReadReply
           \/ HostRaw(k) /\ ReadRaw
           \/ HostDone(k) /\ Close
<1>1. ~Returned
  BY CallRuns
<1>2. /\ Head(<<"head", "reply", "close">>) = "head" /\ Head(<<"reply", "close">>) = "reply"
      /\ Head(<<"raw", "close">>) = "raw" /\ Head(<<"close">>) = "close"
  BY SMT
<1>3. \/ HostHead /\ Head(prog) = "head"
      \/ HostReply(k) /\ Head(prog) = "reply"
      \/ HostRaw(k) /\ Head(prog) = "raw"
      \/ HostDone(k) /\ Head(prog) = "close"
  BY <1>1, <1>2 DEF HostHead, HostReply, HostRaw, HostDone, Returned
<1> QED BY <1>1, <1>3, Heads DEF CallStep, Step

(* The status.                                                             *)
LEMMA HostReadsStatus ==
    ASSUME NEW k \in 0..2, NEW t, HostFollowed(k, t), HostHead, ~torn, ReadOnce,
           Step("head")
    PROVE  Failing' \/ torn' \/ (~torn' /\ HostFollowed(k, t)')
<1>1. /\ helper \in {"off", "watching", "exit"} /\ HostSays(k, t)
      /\ prog = <<"head", "reply", "close">> /\ res = "none" /\ buf = <<>>
  BY DEF HostFollowed, HostHead
<1>2. UNCHANGED <<buf, ctx, helper, server, ans, sent>>
  BY DEF ReadOnce, ctxVars, serverVars
<1>3. HostSays(k, t)'
  BY <1>1, <1>2, SameHostSays
<1>4. CASE (AtEnd(1) \/ NetError(1)) /\ Fail
  BY <1>4, Fails
<1>5. ASSUME NEW n \in 1..2, CanRead(n), wire' = Drop(n), torn' = (torn \/ n = 1),
             IF Accepted(Take(n)) THEN Advance
             ELSE prog' = <<"message">> /\ UNCHANGED res,
             UNCHANGED conn
      PROVE  Failing' \/ torn' \/ (~torn' /\ HostFollowed(k, t)')
  <2>1. CASE n = 1
    BY <1>5, <2>1, Zenon
  <2>2. CASE n = 2 /\ Take(2) = Status("FAIL")
    BY <1>5, <2>2 DEF Accepted, Failing
  <2>3. CASE n = 2 /\ Take(2) # Status("FAIL")
    <3>1. Len(wire) >= 2 /\ conn = "open" /\ conn' = "open" /\ ~torn'
      <4>1. 2 # 1
        BY SMT
      <4> QED BY <1>5, <2>3, <4>1, Zenon DEF CanRead
    <3>2. /\ k > 0 /\ Window(Drop(2), sent, 2)
          /\ Lost \/ 2 + Len(Drop(2)) = Len(sent)
      BY <1>1, <2>3, <3>1, HostStatus
    <3>3. prog' = <<"reply", "close">> /\ res' = "none"
      <4>1. Advance
        BY <1>5, <2>3 DEF Accepted
      <4>2. Tail(prog) = <<"reply", "close">> /\ Len(prog) # 1
        BY <1>1, SMT
      <4> QED BY <1>1, <4>1, <4>2 DEF Advance
    <3>4. wire' = Drop(2)
      BY <1>5, <2>3
    <3>5. HostReply(k)'
      <4>1. /\ Window(wire', sent', 2) /\ (Lost' \/ 2 + Len(wire') = Len(sent'))
        BY <1>2, <3>2, <3>4 DEF Lost
      <4> QED BY <1>1, <1>2, <3>1, <3>2, <3>3, <4>1 DEF HostReply, Held
    <3> QED BY <1>1, <1>2, <1>3, <3>1, <3>5 DEF HostFollowed
  <2> QED BY <2>1, <2>2, <2>3, SMT
<1> QED BY <1>4, <1>5, Zenon DEF ReadOnce

(* The reply, if it has a length and is all there, or what is left of it.  *)
LEMMA HostReadsReply ==
    ASSUME NEW k \in 0..2, NEW t, HostFollowed(k, t), HostReply(k), ReadReply
    PROVE  Failing' \/ HostFollowed(k, t)'
<1>1. /\ helper \in {"off", "watching", "exit"} /\ HostSays(k, t)
      /\ prog = <<"reply", "close">> /\ res = "none" /\ buf = <<>> /\ k > 0
      /\ Window(wire, sent, 2) /\ (Lost \/ 2 + Len(wire) = Len(sent))
  BY DEF HostFollowed, HostReply
<1>2. UNCHANGED <<deadline, helper, server, ans, sent>>
  BY DEF ReadReply, ctxVars, serverVars
<1>3. HostSays(k, t)'
  BY <1>1, <1>2, SameHostSays
<1>4. /\ Len(wire) \in Nat /\ Len(sent) \in Nat
      /\ LengthOK => t = "payload" /\ Needed = Len(sent) - 2
      /\ Len(wire) >= 2 /\ ~LengthOK => server # "up"
  BY <1>1, HostLength, HostSaid
<1>5. ASSUME Len(wire) >= 2
      PROVE  /\ Window(SubSeq(wire, 2 + 1, Len(wire)), sent, 4)
             /\ Len(SubSeq(wire, 2 + 1, Len(wire))) = Len(wire) - 2
  <2>1. 2 * 1 = 2 /\ 2 * 1 + 2 = 4 /\ 1 \in Nat
    BY SMT
  <2>2. Window(wire, sent, 2 * 1)
    BY <1>1, <2>1
  <2>3. /\ Window(SubSeq(wire, 2 + 1, Len(wire)), sent, 2 * 1 + 2)
        /\ Len(SubSeq(wire, 2 + 1, Len(wire))) = Len(wire) - 2
    BY <1>5, <2>1, <2>2, ReadTwo, Zenon
  <2> QED BY <2>1, <2>3, Zenon
<1>6. CASE CanRead(Needed) /\ LengthOK /\ buf' = SubSeq(wire, 3, Needed) /\ Advance
  <2>1. Len(wire) >= Needed /\ Len(wire) >= 2 /\ Needed = Len(sent) - 2 /\ t = "payload"
    BY <1>4, <1>6 DEF CanRead, LengthOK
  <2>2. 2 + Len(wire) <= Len(sent)
    BY <1>1, <1>4, <2>1, WindowFits, SMT
  <2>3. Needed = Len(wire)
    BY <1>4, <2>1, <2>2, SMT
  <2>4. buf' = SubSeq(wire, 2 + 1, Len(wire))
    BY <1>6, <2>3, SMT
  <2>5. Window(buf', sent, 4) /\ Len(buf') = Len(wire) - 2
    BY <1>5, <2>1, <2>4, Zenon
  <2>6. 4 + Len(buf') >= Len(sent)
    BY <1>4, <2>1, <2>3, <2>5, SMT
  <2>7. prog' = <<"close">> /\ res' = "none"
    BY <1>1, <1>6, SMT DEF Advance
  <2>8. server = "up" => ans = <<>>
    BY <1>1, <2>1 DEF HostSays
  <2>9. HostDone(k)'
    BY <1>1, <1>2, <2>5, <2>6, <2>7, <2>8 DEF HostDone
  <2> QED BY <1>1, <1>2, <1>3, <2>9 DEF HostFollowed
<1>7. CASE NetError(Needed) /\ Fail
  BY <1>7, Fails
<1>8. CASE /\ (CanRead(2) /\ ~LengthOK) \/ AtEnd(Needed)
           /\ wire' = IF LengthOK THEN <<>> ELSE Drop(2)
           /\ prog' = <<"raw", "close">>
           /\ UNCHANGED <<res, buf, conn>>
  <2>1. conn' = "open" /\ server # "up"
    BY <1>4, <1>8 DEF CanRead, AtEnd
  <2>2. CASE LengthOK
    <3>1. Lost
      <4>1. Len(wire) < Len(sent) - 2
        BY <1>4, <1>8, <2>2 DEF AtEnd
      <4> QED BY <1>1, <1>4, <4>1, SMT
    <3>2. wire' = <<>> /\ buf' = <<>>
      BY <1>1, <1>8, <2>2
    <3>3. Window(buf', sent, 4) /\ Window(wire', sent, 4 + Len(buf'))
      BY <3>2, EmptyWindow
    <3>4. HostRaw(k)'
      BY <1>1, <1>2, <1>8, <2>1, <3>1, <3>3 DEF HostRaw, Held, Lost
    <3> QED BY <1>1, <1>2, <1>3, <3>4 DEF HostFollowed
  <2>3. CASE ~LengthOK
    <3>1. wire' = SubSeq(wire, 2 + 1, Len(wire)) /\ buf' = <<>>
      BY <1>1, <1>8, <2>3 DEF Drop
    <3>2. /\ Window(wire', sent, 4)
          /\ Len(wire') = IF Len(wire) >= 2 THEN Len(wire) - 2 ELSE 0
      <4>1. CASE Len(wire) >= 2
        BY <1>5, <3>1, <4>1
      <4>2. CASE ~(Len(wire) >= 2)
        <5>1. wire \in Seq(Unit)
          BY <1>1 DEF Window
        <5>2. SubSeq(wire, 2 + 1, Len(wire)) = <<>>
          BY <1>4, <4>2, <5>1, SMT
        <5>3. wire' = <<>>
          BY <3>1, <5>2
        <5> QED BY <4>2, <5>3, EmptyWindow
      <4> QED BY <4>1, <4>2
    <3>3. Window(buf', sent, 4) /\ Len(buf') = 0
      BY <3>1, EmptyWindow
    <3>4. Window(wire', sent, 4 + Len(buf'))
      BY <3>2, <3>3, SMT
    <3>5. Lost \/ 4 + Len(buf') + Len(wire') >= Len(sent)
      BY <1>1, <1>4, <3>2, <3>3, SMT
    <3>6. HostRaw(k)'
      BY <1>1, <1>2, <1>8, <2>1, <3>3, <3>4, <3>5 DEF HostRaw, Held, Lost
    <3> QED BY <1>1, <1>2, <1>3, <3>6 DEF HostFollowed
  <2> QED BY <2>2, <2>3
<1> QED BY <1>6, <1>7, <1>8 DEF ReadReply

(* What is left of it.                                                     *)
LEMMA HostReadsRaw ==
    ASSUME NEW k \in 0..2, NEW t, HostFollowed(k, t), HostRaw(k), ReadRaw
    PROVE  Failing' \/ HostFollowed(k, t)'
<1>1. /\ helper \in {"off", "watching", "exit"} /\ HostSays(k, t)
      /\ prog = <<"raw", "close">> /\ res = "none" /\ Held /\ k > 0 /\ server # "up"
      /\ Window(buf, sent, 4) /\ Window(wire, sent, 4 + Len(buf))
      /\ Lost \/ 4 + Len(buf) + Len(wire) >= Len(sent)
  BY DEF HostFollowed, HostRaw
<1>2. UNCHANGED <<ctx, deadline, helper, server, ans, sent>>
  BY DEF ReadRaw, ctxVars, serverVars
<1>3. HostSays(k, t)'
  BY <1>1, <1>2, SameHostSays
<1>4. Len(buf) \in Nat /\ Len(wire) \in Nat /\ Len(sent) \in Nat
  BY <1>1, HostSaid, SMT DEF Window
<1>5. CASE TakeAll /\ UNCHANGED <<prog, res, conn>>
  <2>1. Window(buf', sent, 4) /\ Len(buf') = Len(buf) + Len(wire) /\ wire' = <<>>
    <3>1. buf' = buf \o wire /\ wire' = <<>>
      BY <1>5 DEF TakeAll
    <3>2. Window(buf \o wire, sent, 4) /\ Len(buf \o wire) = Len(buf) + Len(wire)
      BY <1>1, 4 \in Nat, WindowJoin, Zenon
    <3> QED BY <3>1, <3>2, Zenon
  <2>2. Len(wire') = 0 /\ Window(wire', sent, 4 + Len(buf'))
    BY <2>1, EmptyWindow
  <2>3. Lost \/ 4 + Len(buf') + Len(wire') >= Len(sent)
    BY <1>1, <1>4, <2>1, <2>2, SMT
  <2>4. HostRaw(k)'
    BY <1>1, <1>2, <1>5, <2>1, <2>2, <2>3 DEF HostRaw, Held, Lost
  <2> QED BY <1>1, <1>2, <1>3, <2>4 DEF HostFollowed
<1>6. CASE /\ AtEnd(1) \/ NetError(1)
           /\ IF ctx = "done" THEN Fail ELSE Advance /\ UNCHANGED conn
           /\ UNCHANGED <<buf, wire>>
  <2>1. CASE ctx = "done"
    BY <1>6, <2>1, Fails
  <2>2. CASE ctx # "done"
    <3>1. conn = "open"
      BY <1>1, <2>2 DEF Held
    <3>2. 4 + Len(buf) >= Len(sent) \/ Lost \/ deadline = "past"
      BY <1>1, <1>4, <1>6, <3>1, SMT DEF AtEnd, NetError, Lost
    <3>3. prog' = <<"close">> /\ res' = "none"
      BY <1>1, <1>6, <2>2, SMT DEF Advance
    <3>4. HostDone(k)'
      BY <1>1, <1>2, <1>6, <3>2, <3>3 DEF HostDone, Lost
    <3> QED BY <1>1, <1>2, <1>3, <3>4 DEF HostFollowed
  <2> QED BY <2>1, <2>2
<1> QED BY <1>5, <1>6 DEF ReadRaw

LEMMA HostCloses ==
    ASSUME NEW k \in 0..2, NEW t, HostFollowed(k, t), HostDone(k), Close
    PROVE  HostFollowed(k, t)'
<1>1. /\ helper \in {"off", "watching", "exit"} /\ HostSays(k, t)
      /\ k > 0 /\ (server = "up" => ans = <<>>) /\ Window(buf, sent, 4)
      /\ 4 + Len(buf) >= Len(sent) \/ Lost \/ deadline = "past"
  BY DEF HostFollowed, HostDone
<1>2. /\ UNCHANGED <<buf, deadline, helper, server, ans, sent>>
      /\ prog # <<>> /\ Advance
  BY DEF Close, Step, Returned, ctxVars, serverVars
<1>3. HostSays(k, t)'
  BY <1>1, <1>2, SameHostSays
<1>4. prog' = <<>> /\ res' = "ok"
  <2>1. prog = <<"close">>
    BY <1>2 DEF HostDone
  <2> QED BY <1>2, <2>1, SMT DEF Advance
<1>5. HostDone(k)'
  BY <1>1, <1>2, <1>4 DEF HostDone, Lost
<1> QED BY <1>1, <1>2, <1>3, <1>5 DEF HostFollowed

LEMMA HostCallStep ==
    ASSUME NEW k \in 0..2, NEW t, HostFollowed(k, t), ~torn, CallStep
    PROVE  Failing' \/ torn' \/ (~torn' /\ HostFollowed(k, t)')
<1>1. ReadOnce \/ torn' = torn
  BY Zenon DEF CallStep, Dial, Watch, Send, ReadStatus, Message, ReadPayload, ReadReply,
     ReadRaw, ReadRest, Decode, Spawn, Collect, Close, linkVars
<1>2. CASE HostBefore
  <2>1. Failing' \/ HostFollowed(k, t)'
    BY <1>2, HostOpens
  <2> QED BY <2>1, Zenon
<1>3. CASE ~HostBefore
  <2>1. HostHead \/ HostReply(k) \/ HostRaw(k) \/ HostDone(k)
    BY <1>3, Zenon DEF HostFollowed
  <2>2. \/ HostHead /\ ReadOnce /\ Step("head")
        \/ HostReply(k) /\ ReadReply
        \/ HostRaw(k) /\ ReadRaw
        \/ HostDone(k) /\ Close
    BY <1>3, <2>1, HostNext, Zenon
  <2> QED BY <2>2, HostReadsStatus, HostReadsReply, HostReadsRaw, HostCloses, Zenon
<1> QED BY <1>2, <1>3

(* The watcher, the context and the timer.                                 *)
LEMMA HostInterrupted ==
    ASSUME NEW k \in 0..2, NEW t, HostFollowed(k, t),
           Watcher \/ Cancel \/ DeadlinePasses
    PROVE  HostFollowed(k, t)'
<1>1. /\ UNCHANGED <<prog, res, buf, wire, server, ans, sent>>
      /\ helper' \in {helper, "exit"} /\ (deadline = "past" => deadline' = "past")
      /\ Held => Held'
  BY DEF Watcher, Cancel, DeadlinePasses, callVars, linkVars, serverVars, Held
<1>2. HostSays(k, t)' /\ helper' \in {"off", "watching", "exit"}
  BY <1>1, SameHostSays DEF HostFollowed
<1>3. CASE HostBefore
  <2>1. HostBefore'
    BY <1>1, <1>3, Zenon DEF HostBefore
  <2> QED BY <1>2, <2>1 DEF HostFollowed
<1>4. CASE HostHead
  <2>1. HostHead'
    BY <1>1, <1>4 DEF HostHead, Lost
  <2> QED BY <1>2, <2>1 DEF HostFollowed
<1>5. CASE HostReply(k)
  <2>1. HostReply(k)'
    BY <1>1, <1>5 DEF HostReply, Lost
  <2> QED BY <1>2, <2>1 DEF HostFollowed
<1>6. CASE HostRaw(k)
  <2>1. HostRaw(k)'
    BY <1>1, <1>6 DEF HostRaw, Lost
  <2> QED BY <1>2, <2>1 DEF HostFollowed
<1>7. CASE HostDone(k)
  <2>1. HostDone(k)'
    BY <1>1, <1>7 DEF HostDone, Lost
  <2> QED BY <1>2, <2>1 DEF HostFollowed
<1> QED BY <1>3, <1>4, <1>5, <1>6, <1>7 DEF HostFollowed

(* The server answers.                                                     *)
LEMMA HostHears ==
    ASSUME NEW k \in 0..2, NEW t, HostFollowed(k, t), server = "up", ans # <<>>,
           NEW units \in Seq(Unit), NEW m \in 0..2, NEW v, k <= m,
           wire' = wire \o units, sent' = sent \o units,
           UNCHANGED <<prog, res, buf, helper, conn, ctx>>, HostSays(m, v)'
    PROVE  HostFollowed(m, v)'
<1>1. HostHead \/ HostReply(k)
  BY DEF HostFollowed, HostBefore, HostRaw, HostDone
<1>2. ~Lost /\ Len(units) \in Nat /\ sent \in Seq(Unit) /\ Len(sent) \in Nat
  BY HostSaid, SMT DEF Lost, HostFollowed
<1>3. Held' = Held
  BY DEF Held
<1>4. ASSUME NEW b \in Nat, Window(wire, sent, b), b + Len(wire) = Len(sent)
      PROVE  Window(wire', sent', b) /\ b + Len(wire') = Len(sent')
  <2>1. Len(wire) \in Nat
    BY <1>4, SMT DEF Window
  <2>2. Window(wire', sent', b) /\ Len(wire') = Len(wire) + Len(units)
    BY <1>2, <1>4, WindowArrives, Zenon
  <2>3. Len(sent') = Len(sent) + Len(units)
    BY <1>2, Joined, Zenon DEF Join
  <2>4. 0 \in Nat /\ Sum(0, b, Len(wire), Len(sent))
    BY <1>4, <2>1, SMT DEF Sum
  <2>5. Sum(0, b, Len(wire) + Len(units), Len(sent) + Len(units))
    BY <1>2, <2>1, <2>4, Sums, Zenon
  <2>6. Sum(0, b, Len(wire'), Len(sent'))
    BY <2>2, <2>3, <2>5, Zenon
  <2>7. ASSUME NEW x, NEW y \in Nat, Sum(0, b, y, x) PROVE b + y = x
    BY <2>7, SMT DEF Sum
  <2>8. Len(wire') \in Nat
    BY <2>2, SMT DEF Window
  <2> QED BY <2>2, <2>6, <2>7, <2>8, Zenon
<1>5. CASE HostHead
  <2>1. 0 \in Nat /\ Window(wire, sent, 0) /\ 0 + Len(wire) = Len(sent)
    BY <1>2, <1>5 DEF HostHead
  <2>2. Window(wire', sent', 0) /\ 0 + Len(wire') = Len(sent')
    BY <1>4, <2>1, Zenon
  <2>3. HostHead'
    BY <1>3, <1>5, <2>2, Zenon DEF HostHead
  <2> QED BY <2>3, Zenon DEF HostFollowed
<1>6. CASE HostReply(k)
  <2>1. 2 \in Nat /\ Window(wire, sent, 2) /\ 2 + Len(wire) = Len(sent)
    BY <1>2, <1>6 DEF HostReply
  <2>2. Window(wire', sent', 2) /\ 2 + Len(wire') = Len(sent')
    BY <1>4, <2>1, Zenon
  <2>3. m > 0
    BY <1>6, SMT DEF HostReply
  <2>4. HostReply(m)'
    BY <1>3, <1>6, <2>2, <2>3, Zenon DEF HostReply
  <2> QED BY <2>4, Zenon DEF HostFollowed
<1> QED BY <1>1, <1>5, <1>6

LEMMA HostServerStep ==
    ASSUME NEW k \in 0..2, NEW t, HostFollowed(k, t), ServerStep
    PROVE  \E m \in 0..2 : \E v \in {"none", "fail", "payload"} : HostFollowed(m, v)'
<1>1. server = "up" /\ ans # <<>>
  BY DEF ServerStep, ServerStatus, ServerPayload, ServerSecondStatus, ServerOutput,
         Answering
<1>2. /\ t = "none" /\ Told(sent, k, "none")
      /\ \/ k = 0 /\ ans = <<"head", "reply", "close">>
         \/ k = 1 /\ ans = <<"reply", "close">>
  BY <1>1 DEF HostFollowed, HostSays
<1>3. /\ k = 0 => Head(ans) = "head" /\ Tail(ans) = <<"reply", "close">>
      /\ k = 1 => Head(ans) = "reply"
  <2>1. CASE k = 0
    <3>1. ans = <<"head", "reply", "close">>
      BY <1>2, <2>1, SMT
    <3>2. Head(<<"head", "reply", "close">>) = "head"
      BY SMT
    <3>3. Tail(<<"head", "reply", "close">>) = <<"reply", "close">>
      BY SMT
    <3>4. k # 1
      BY <2>1, SMT
    <3> QED BY <2>1, <3>1, <3>2, <3>3, <3>4, Zenon
  <2>2. CASE k = 1
    BY <1>2, <2>2, SMT
  <2> QED BY <2>1, <2>2
<1>4. ASSUME NEW units \in Seq(Unit), NEW left, NEW m \in 0..2,
             NEW v \in {"none", "fail", "payload"}, Sends(units, left),
             Told(sent \o units, m, v), k <= m,
             v = "payload" => m = 1,
             server' = "up" => m <= 1 /\ ~(m = 1 /\ v = "fail"),
             left = <<>> \/ (m = 1 /\ v = "none" /\ left = <<"reply", "close">>)
      PROVE  HostFollowed(m, v)'
  <2>1. /\ wire' = wire \o units /\ sent' = sent \o units /\ ans' = left
        /\ UNCHANGED <<prog, res, buf, helper, conn, ctx>>
    BY <1>4, Zenon DEF Sends, callVars, ctxVars
  <2>2. Told(sent', m, v)
    BY <1>4, <2>1, Zenon
  <2>3. v # "output"
    BY <1>4
  <2>4. HostSays(m, v)'
    BY <1>4, <2>1, <2>2, <2>3, Zenon DEF HostSays
  <2> QED BY <1>1, <1>4, <2>1, <2>4, HostHears, Zenon
<1>5. CASE ServerStatus
  <2>1. k = 0
    BY <1>2, <1>3, <1>5 DEF ServerStatus, Answering
  <2>2. CASE Sends(Status("OKAY"), Tail(ans))
    <3>1. Told(sent \o Status("OKAY"), k + 1, "none") /\ Status("OKAY") \in Seq(Unit)
      BY <1>2, ToldMore, Messages, Zenon
    <3>2. /\ k + 1 = 1 /\ 1 \in 0..2 /\ 1 <= 1 /\ k <= 1
      BY <2>1, SMT
    <3>3. Told(sent \o Status("OKAY"), 1, "none")
      BY <3>1, <3>2, Zenon
    <3>4. Sends(Status("OKAY"), <<"reply", "close">>)
      <4>1. Tail(ans) = <<"reply", "close">>
        BY <1>3, <2>1
      <4> QED BY <2>2, <4>1, Zenon
    <3>5. "none" # "payload" /\ "none" # "fail"
      OBVIOUS
    <3>6. HostFollowed(1, "none")'
      BY <1>4, <3>1, <3>2, <3>3, <3>4, <3>5, Zenon
    <3> QED BY <3>2, <3>6, Zenon
  <2>3. CASE Sends(Status("FAIL") \o Prefixed(1), <<>>)
    <3>1. /\ Told(sent \o (Status("FAIL") \o Prefixed(1)), k, "fail")
          /\ Status("FAIL") \o Prefixed(1) \in Seq(Unit)
      BY <1>2, ToldMore, FailureUnits, Zenon
    <3>2. k <= 1 /\ k # 1 /\ k <= k /\ "fail" # "payload"
      BY <2>1, SMT
    <3>3. HostFollowed(k, "fail")'
      BY <1>4, <2>3, <3>1, <3>2, Zenon
    <3> QED BY <3>3, Zenon
  <2> QED BY <1>5, <2>2, <2>3 DEF ServerStatus
<1>6. CASE ServerPayload
  <2>1. k = 1
    BY <1>2, <1>3, <1>6 DEF ServerPayload, Answering
  <2>2. PICK n \in 0..MaxData : Sends(Prefixed(n), <<>>)
    BY <1>6 DEF ServerPayload
  <2>3. n \in Nat
    BY MaxDataAssumption, SMT
  <2>4. Told(sent \o Prefixed(n), k, "payload") /\ Prefixed(n) \in Seq(Unit)
    BY <1>2, <2>3, ToldMore, PrefixedUnits, Zenon
  <2>5. k <= 1 /\ k <= k /\ "fail" # "payload"
    BY <2>1, SMT
  <2>6. HostFollowed(k, "payload")'
    BY <1>4, <2>1, <2>2, <2>4, <2>5, Zenon
  <2> QED BY <2>6, Zenon
<1>7. CASE ServerSecondStatus
  <2>1. k = 1 /\ server' # "up" /\ k <= k
    BY <1>2, <1>3, <1>7, SMT DEF ServerSecondStatus, Answering
  <2>2. CASE Sends(<<>>, <<>>)
    <3>1. sent \in Seq(Unit) /\ <<>> \in Seq(Unit)
      BY <1>2, Kinds, SMT
    <3>2. sent \o <<>> = sent
      BY <3>1, SMT
    <3>3. Told(sent \o <<>>, k, "none")
      BY <1>2, <3>2
    <3>4. "none" # "payload"
      OBVIOUS
    <3>5. HostFollowed(k, "none")'
      BY <1>4, <2>1, <2>2, <3>1, <3>3, <3>4, Zenon
    <3> QED BY <3>5, Zenon
  <2>3. CASE Sends(Status("OKAY"), <<>>)
    <3>1. Told(sent \o Status("OKAY"), k + 1, "none") /\ Status("OKAY") \in Seq(Unit)
      BY <1>2, ToldMore, Messages, Zenon
    <3>2. /\ k + 1 \in 0..2 /\ k <= k + 1 /\ "none" # "payload"
      BY <2>1, SMT
    <3>3. HostFollowed(k + 1, "none")'
      BY <1>4, <2>1, <2>3, <3>1, <3>2, Zenon
    <3> QED BY <3>2, <3>3, Zenon
  <2>4. CASE Sends(Status("FAIL") \o Prefixed(1), <<>>)
    <3>1. /\ Told(sent \o (Status("FAIL") \o Prefixed(1)), k, "fail")
          /\ Status("FAIL") \o Prefixed(1) \in Seq(Unit)
      BY <1>2, ToldMore, FailureUnits, Zenon
    <3>2. "fail" # "payload"
      OBVIOUS
    <3>3. HostFollowed(k, "fail")'
      BY <1>4, <2>1, <2>4, <3>1, <3>2, Zenon
    <3> QED BY <3>3, Zenon
  <2> QED BY <1>7, <2>2, <2>3, <2>4, Zenon DEF ServerSecondStatus
<1>8. ~ServerOutput
  BY <1>2, <1>3 DEF ServerOutput, Answering
<1> QED BY <1>5, <1>6, <1>7, <1>8 DEF ServerStep

(* The server stops.                                                       *)
LEMMA HostStops ==
    ASSUME NEW k \in 0..2, NEW t, HostFollowed(k, t), ServerHangs \/ ServerLost
    PROVE  HostFollowed(k, t)'
<1>1. /\ UNCHANGED <<prog, res, buf, sent, helper, conn, ctx, deadline>>
      /\ server' # "up" /\ server \in {"up", "done"}
      /\ ans' = ans \/ ans' = <<>>
      /\ Held' = Held
  BY DEF ServerHangs, ServerLost, callVars, linkVars, ctxVars, Held
<1>2. HostSays(k, t)' /\ helper' \in {"off", "watching", "exit"}
  BY <1>1, SameHostSays DEF HostFollowed
<1>3. (wire' = wire /\ server = "up") \/ Lost'
  BY DEF ServerHangs, ServerLost, linkVars, Lost
<1>4. ASSUME NEW b \in Nat, Window(wire, sent, b) PROVE Window(wire', sent', b)
  <2>1. CASE wire' = wire
    BY <1>1, <1>4, <2>1
  <2>2. CASE ServerLost
    <3>1. PICK n \in 0..Len(wire) : wire' = SubSeq(wire, 1, n)
      BY <2>2 DEF ServerLost, Take
    <3>2. n \in Nat /\ n <= Len(wire)
      BY <1>4, <3>1, SMT DEF Window
    <3>3. Window(SubSeq(wire, 1, n), sent, b)
      BY <1>4, <3>2, WindowTake, Zenon
    <3> QED BY <1>1, <3>1, <3>3, Zenon
  <2> QED BY <2>1, <2>2 DEF ServerHangs, linkVars
<1>5. ~Lost
  BY <1>1 DEF Lost
<1>6. CASE HostBefore
  <2>1. wire' = <<>>
    <3>1. wire = <<>> /\ Len(wire) = 0
      BY <1>6 DEF HostBefore
    <3>2. CASE ServerLost
      <4>1. PICK n \in 0..Len(wire) : wire' = SubSeq(wire, 1, n)
        BY <3>2 DEF ServerLost, Take
      <4> QED BY <3>1, <4>1, SMT
    <3> QED BY <3>1, <3>2 DEF ServerHangs, linkVars
  <2>2. HostBefore'
    BY <1>1, <1>6, <2>1, Zenon DEF HostBefore
  <2> QED BY <1>2, <2>2 DEF HostFollowed
<1>7. CASE HostHead
  <2>1. Window(wire', sent', 0)
    BY <1>4, <1>7, 0 \in Nat, Zenon DEF HostHead
  <2>2. HostHead'
    BY <1>1, <1>3, <1>7, <2>1 DEF HostHead, Lost
  <2> QED BY <1>2, <2>2 DEF HostFollowed
<1>8. CASE HostReply(k)
  <2>1. Window(wire', sent', 2)
    BY <1>4, <1>8, 2 \in Nat, Zenon DEF HostReply
  <2>2. HostReply(k)'
    BY <1>1, <1>3, <1>8, <2>1 DEF HostReply, Lost
  <2> QED BY <1>2, <2>2 DEF HostFollowed
<1>9. CASE HostRaw(k)
  <2>1. Window(wire, sent, 4 + Len(buf)) /\ Window(buf, sent, 4) /\ server # "up"
    BY <1>9 DEF HostRaw
  <2>2. 4 + Len(buf) \in Nat
    BY <2>1, SMT DEF Window
  <2>3. Window(wire', sent', 4 + Len(buf)) /\ Lost'
    BY <1>3, <1>4, <2>1, <2>2, Zenon
  <2>4. HostRaw(k)'
    BY <1>1, <1>9, <2>1, <2>3 DEF HostRaw
  <2> QED BY <1>2, <2>4 DEF HostFollowed
<1>10. CASE HostDone(k)
  <2>1. HostDone(k)'
    BY <1>1, <1>3, <1>5, <1>10 DEF HostDone
  <2> QED BY <1>2, <2>1 DEF HostFollowed
<1> QED BY <1>6, <1>7, <1>8, <1>9, <1>10 DEF HostFollowed

-----------------------------------------------------------------------------
(* All functions.                                                          *)

LEMMA PlainPrograms ==
    ASSUME NEW c \in Calls, c # "SendHostCommandContext"
    PROVE  Program[c] \in Seq(Plain) /\ Len(Program[c]) > 0 /\ Reads(Program[c])
<1> DEFINE Reading(p) == p \in Seq(Plain) /\ Len(p) > 0 /\ Reads(p)
<1> USE DEF Reads, Plain, Steps, ReadSteps, FinalSteps, TransportContext, SendCommand
<1>1. Reading(TrackDevices) /\ Reading(Forward) /\ Reading(ForwardRemove)
  BY SMT DEF TrackDevices, Forward, ForwardRemove
<1>2. Reading(TrackDevicesWithCallback)
  BY SMT DEF TrackDevices, TrackDevicesWithCallback
<1>3. Reading(executeTransportCommand)
  BY SMT DEF executeTransportCommand, ExecuteSimpleCommand
<1>4. Reading(executeTransportCommandWithResponse)
  BY SMT DEF executeTransportCommandWithResponse, ExecuteCommandWithResponse
<1>5. Reading(openTransportConnection) /\ Reading(OpenSocketContext)
  BY SMT DEF openTransportConnection, OpenSocketContext, ExecuteSimpleCommand
<1>6. Reading(Reverse)
  BY SMT DEF Reverse
<1>7. Reading(ReverseRemove)
  BY SMT DEF ReverseRemove
<1>8. Reading(ListReverses)
  BY SMT DEF ListReverses
<1>9. Reading(Framebuffer)
  BY SMT DEF Framebuffer
<1>10. Reading(ShellContext) /\ Reading(ShellV2WithOptionsContext)
  BY SMT DEF ShellContext, ShellV2WithOptionsContext
<1>11. Reading(RunCommandContext)
  BY SMT DEF RunCommandContext, ShellContext
<1>12. Reading(GetPackages)
  BY SMT DEF GetPackages, ShellContext
<1>13. Reading(Screencap)
  BY SMT DEF Screencap, ShellContext
<1>14. Reading(installUsingAbbExec)
  BY SMT DEF installUsingAbbExec
<1> HIDE DEF Reading, Reads, Plain, Steps, ReadSteps, FinalSteps, TransportContext, SendCommand
<1>15. Reading(Program[c])
  BY <1>1, <1>2, <1>3, <1>4, <1>5, <1>6, <1>7, <1>8, <1>9, <1>10, <1>11, <1>12, <1>13,
     <1>14, OtherPrograms
<1> QED BY <1>15 DEF Reading

LEMMA HostCall ==
    ASSUME NEW c \in Calls
    PROVE  /\ Host(c) <=> c = "SendHostCommandContext"
           /\ Host(c) => Program[c] = SendHostCommandContext
<1>1. /\ Host("SendHostCommandContext")
      /\ Program["SendHostCommandContext"] = SendHostCommandContext
  BY HostProgram DEF Host, HasStep
<1>2. ASSUME c # "SendHostCommandContext" PROVE ~Host(c)
  <2>1. Program[c] \in Seq(Plain)
    BY <1>2, PlainPrograms
  <2>2. "watch" \notin Plain
    BY DEF Plain
  <2>3. ASSUME NEW p \in Seq(Plain), NEW i \in 1..Len(p), p[i] = "watch" PROVE FALSE
    BY <2>2, <2>3, SMT
  <2> QED BY <2>1, <2>3, Zenon DEF Host, HasStep
<1> QED BY <1>1, <1>2

(* A call that has just begun.                                             *)
Fresh ==
    /\ call \in Calls /\ prog = Program[call] /\ res = "none"
    /\ wire = <<>> /\ buf = <<>> /\ torn = FALSE /\ helper = "off"
    /\ server = "up" /\ ans = <<>> /\ sent = <<>>

HeardInv == call \in Calls /\ Heard

LEMMA FreshFollowed ==
    ASSUME NEW p, Grammar(p), prog = p, res = "none", wire = <<>>, buf = <<>>,
           helper = "off", server = "up", ans = <<>>, sent = <<>>
    PROVE  Followed(p, 0, 0, 0, "none")
<1>1. p \in Seq(Plain) /\ Len(p) \in Nat /\ Len(p) > 0 /\ Asked(p, 0) = 0
  BY SMT DEF Grammar, Counts
<1>2. Running(p, 0)
  <2>1. After(p, 0) = p
    BY <1>1, SMT DEF After
  <2> QED BY <1>1, <2>1, SMT DEF Running
<1>3. HasSaid(p, 0, 0, "none")
  BY <1>1, ToldNothing, SMT DEF HasSaid
<1>4. NotAhead(p, 0, 0)
  BY <1>1, SMT DEF NotAhead
<1>5. InStep(p, 0, 0)
  <2>1. Stream(<<>>, 2 * 0, <<>>, <<>>, Lost)
    BY EmptyWindow, SMT DEF Stream
  <2>2. Stream(sent, 2 * Asked(p, 0), buf, wire, Lost)
    BY <1>1, <2>1
  <2> QED BY <1>1, <2>2, SMT DEF InStep
<1> QED BY <1>2, <1>3, <1>4, <1>5 DEF Followed

LEMMA FreshHost ==
    ASSUME prog = SendHostCommandContext, res = "none", wire = <<>>, buf = <<>>,
           helper = "off", server = "up", ans = <<>>, sent = <<>>
    PROVE  HostFollows
<1>1. HostBefore
  BY DEF HostBefore
<1>2. HostSays(0, "none")
  BY ToldNothing, SMT DEF HostSays
<1>3. HostFollowed(0, "none")
  BY <1>1, <1>2, SMT DEF HostFollowed
<1> QED BY <1>3, SMT DEF HostFollows

LEMMA FreshHeard == Grammatical /\ Fresh => HeardInv
<1> SUFFICES ASSUME Grammatical, Fresh PROVE HeardInv
  OBVIOUS
<1>1. CASE Host(call)
  <2>1. prog = SendHostCommandContext
    BY <1>1, HostCall, Zenon DEF Fresh
  <2>2. HostFollows /\ ~torn
    BY <2>1, FreshHost DEF Fresh
  <2> QED BY <1>1, <2>2, Zenon DEF HeardInv, Heard, Fresh
<1>2. CASE ~Host(call)
  <2>1. Grammar(Program[call])
    BY <1>2, Zenon DEF Grammatical, Fresh
  <2>2. Followed(Program[call], 0, 0, 0, "none")
    BY <2>1, FreshFollowed DEF Fresh
  <2>3. Follows
    BY <2>2, 0 \in Nat, Zenon DEF Follows
  <2> QED BY <1>2, <2>3, Zenon DEF HeardInv, Heard, Fresh
<1> QED BY <1>1, <1>2

LEMMA BeginHeard ==
    ASSUME Grammatical, NEW c \in Calls, NEW k, Begin(c, k)
    PROVE  HeardInv'
<1>1. Fresh'
  BY Zenon DEF Begin, Fresh
<1> QED BY <1>1, FreshHeard, PTL

(* Who changes what: only Begin changes the call, only a step of the       *)
(* function changes prog, res and torn, and torn is never reset.           *)
LEMMA Untouched ==
    ASSUME Watcher \/ Reader \/ Cancel \/ DeadlinePasses \/ ServerStep \/ ServerHangs
             \/ ServerLost
    PROVE  UNCHANGED <<call, prog, res, torn>>
BY Zenon DEF Watcher, Reader, Cancel, DeadlinePasses, ServerStep, ServerStatus,
   ServerPayload, ServerSecondStatus, ServerOutput, Sends, ServerHangs, ServerLost,
   callVars, linkVars, serverVars

LEMMA CallKept ==
    ASSUME CallStep
    PROVE  call' = call /\ (torn => torn')
<1>1. ASSUME ReadOnce PROVE call' = call /\ (torn => torn')
  <2>1. call' = call
    BY <1>1, Zenon DEF ReadOnce
  <2>2. ASSUME torn PROVE torn'
    <3>1. CASE UNCHANGED torn
      BY <2>2, <3>1, Zenon
    <3>2. CASE ~UNCHANGED torn
      <4>1. PICK n \in 1..2 : torn' = (torn \/ n = 1)
        BY <1>1, <3>2, Zenon DEF ReadOnce
      <4> QED BY <2>2, <4>1, Zenon
    <3> QED BY <3>1, <3>2
  <2> QED BY <2>1, <2>2
<1>2. ASSUME CallStep, ~ReadOnce PROVE UNCHANGED <<call, torn>>
  BY <1>2, Zenon DEF CallStep, Dial, Watch, Send, ReadStatus, Message, ReadPayload, ReadReply,
     ReadRaw, ReadRest, Decode, Spawn, Collect, Close, linkVars
<1>3. CASE ReadOnce
  BY <1>1, <1>3, Zenon
<1>4. CASE ~ReadOnce
  <2>1. call' = call /\ torn' = torn
    BY <1>2, <1>4, Zenon
  <2> QED BY <2>1
<1> QED BY <1>3, <1>4, Zenon

LEMMA FailingStays ==
    ASSUME Failing, ClientStep
    PROVE  Failing'
<1>1. CASE CallStep
  <2>1. prog = <<"message">>
    BY <1>1, CallRuns DEF Failing, Returned
  <2>2. Head(prog) = "message"
    BY <2>1, SMT
  <2>3. Message
    BY <1>1, <2>2, Heads DEF CallStep, Step
  <2> QED BY <2>3, Fails DEF Message
<1>2. CASE ~CallStep
  <2>1. UNCHANGED <<call, prog, res, torn>>
    BY <1>2, Untouched, Zenon DEF ClientStep
  <2> QED BY <2>1, Zenon DEF Failing
<1> QED BY <1>1, <1>2

LEMMA HostFollowsStep ==
    ASSUME HostFollows, ~torn, ClientStep
    PROVE  Failing' \/ torn' \/ (~torn' /\ HostFollows')
<1>1. PICK k \in 0..2, t \in {"none", "fail", "payload"} : HostFollowed(k, t)
  BY Zenon DEF HostFollows
<1>2. ASSUME NEW m \in 0..2, NEW v \in {"none", "fail", "payload"}, HostFollowed(m, v)'
      PROVE  HostFollows'
  BY <1>2, Zenon DEF HostFollows
<1>3. CASE CallStep
  BY <1>1, <1>2, <1>3, HostCallStep, Zenon
<1>4. CASE ~CallStep
  <2>1. torn' = torn
    BY <1>4, Untouched, Zenon DEF ClientStep
  <2>2. ~Reader
    BY <1>1 DEF HostFollowed, Reader
  <2>3. CASE Watcher \/ Cancel \/ DeadlinePasses
    BY <1>1, <1>2, <2>1, <2>3, HostInterrupted, Zenon
  <2>4. CASE ServerStep
    <3>1. PICK m \in 0..2, v \in {"none", "fail", "payload"} : HostFollowed(m, v)'
      BY <1>1, <2>4, HostServerStep, Zenon
    <3> QED BY <1>2, <2>1, <3>1, Zenon
  <2>5. CASE ServerHangs \/ ServerLost
    BY <1>1, <1>2, <2>1, <2>5, HostStops, Zenon
  <2> QED BY <1>4, <2>2, <2>3, <2>4, <2>5, Zenon DEF ClientStep
<1> QED BY <1>3, <1>4

LEMMA FollowsStep ==
    ASSUME Grammar(Program[call]), Follows, ClientStep, call' = call
    PROVE  Failing' \/ Follows'
<1>1. PICK j \in Nat, a \in Nat, k \in Nat : \E t : Followed(Program[call], j, a, k, t)
  BY Zenon DEF Follows
<1>2. PICK t : Followed(Program[call], j, a, k, t)
  BY <1>1
<1>3. ASSUME NEW i \in Nat, NEW b \in Nat, NEW m \in Nat, NEW v,
             Followed(Program[call], i, b, m, v)'
      PROVE  Follows'
  BY <1>3, Zenon DEF Follows
<1> HIDE DEF Followed
<1>4. PICK p : p = Program[call]
  BY Zenon
<1>5. Grammar(p) /\ Followed(p, j, a, k, t)
  BY <1>2, <1>4, Zenon
<1>6. ASSUME NEW i \in Nat, NEW b \in Nat, NEW m \in Nat, NEW v, Followed(p, i, b, m, v)'
      PROVE  Follows'
  <2>1. p = (Program[call])'
    BY <1>4, Zenon
  <2> QED BY <1>6, <2>1, Zenon DEF Follows
<1>7. CASE CallStep
  <2>1. Failing' \/ \E i, b, m \in Nat : \E v : Followed(p, i, b, m, v)'
    BY <1>5, <1>7, CallFollowed, Zenon
  <2> QED BY <1>6, <2>1, Zenon
<1>8. CASE ServerStep
  <2>1. \E m \in Nat : \E v : Followed(p, j, a + 1, m, v)'
    BY <1>5, <1>8, ServerFollowed, Zenon
  <2>2. a + 1 \in Nat
    BY SMT
  <2> QED BY <1>6, <2>1, <2>2, Zenon
<1>9. CASE Reader
  <2>1. Followed(p, j, a, k, t)'
    BY <1>5, <1>9, ReaderStep
  <2> QED BY <1>6, <2>1
<1>10. CASE ServerHangs \/ ServerLost
  <2>1. Followed(p, j, a, k, t)'
    BY <1>5, <1>10, ServerStops
  <2> QED BY <1>6, <2>1
<1>11. CASE Cancel \/ DeadlinePasses
  <2>1. UNCHANGED <<prog, res, buf, wire, sent, ans, server, helper>>
    BY <1>11, Zenon DEF Cancel, DeadlinePasses, callVars, linkVars, serverVars
  <2>2. Followed(p, j, a, k, t)'
    BY <1>5, <2>1, SameFollowed
  <2> QED BY <1>6, <2>2
<1>12. ~Watcher
  BY <1>5 DEF Followed, InStep, ReadOut, Watcher
<1> QED BY <1>7, <1>8, <1>9, <1>10, <1>11, <1>12, Zenon DEF ClientStep

LEMMA HeardStep ==
    ASSUME Grammatical, HeardInv, [ClientNext]_clientVars
    PROVE  HeardInv'
<1>1. CASE ClientStep
  <2>1. call' = call /\ (torn => torn')
    <3>1. CASE CallStep
      BY <3>1, CallKept
    <3>2. CASE ~CallStep
      <4>1. call' = call /\ torn' = torn
        BY <1>1, <3>2, Untouched, Zenon DEF ClientStep
      <4> QED BY <4>1
    <3> QED BY <3>1, <3>2
  <2>2. call' \in Calls /\ (Host(call)' <=> Host(call))
    BY <2>1, Zenon DEF HeardInv
  <2>3. Heard'
    <3>1. CASE Failing
      BY <1>1, <3>1, FailingStays, Zenon DEF Heard
    <3>2. CASE Host(call) /\ torn
      BY <2>1, <2>2, <3>2, Zenon DEF Heard
    <3>3. CASE Host(call) /\ ~torn /\ HostFollows
      BY <1>1, <2>2, <3>3, HostFollowsStep, Zenon DEF Heard
    <3>4. CASE ~Host(call) /\ Follows
      <4>1. Grammar(Program[call])
        BY <3>4, Zenon DEF Grammatical, HeardInv
      <4>2. Failing' \/ Follows'
        BY <1>1, <2>1, <3>4, <4>1, FollowsStep, Zenon
      <4> QED BY <2>2, <3>4, <4>2, Zenon DEF Heard
    <3> QED BY <3>1, <3>2, <3>3, <3>4, Zenon DEF HeardInv, Heard
  <2> QED BY <2>2, <2>3, Zenon DEF HeardInv
<1>2. CASE \E c \in Calls : \E k \in Contexts(c) : Begin(c, k)
  BY <1>2, BeginHeard, Zenon
<1>3. CASE UNCHANGED clientVars
  <2>1. /\ UNCHANGED <<call, prog, res, torn, conn, wire, buf, ctx, deadline, helper>>
        /\ UNCHANGED <<server, ans, sent>>
    BY <1>3, Zenon DEF clientVars, callVars, linkVars, ctxVars, serverVars
  <2>2. HostFollows => HostFollows'
    <3> SUFFICES ASSUME NEW k \in 0..2, NEW t \in {"none", "fail", "payload"},
                        HostFollowed(k, t)
                 PROVE  HostFollowed(k, t)'
      BY Zenon DEF HostFollows
    <3>1. HostSays(k, t)' /\ helper' \in {"off", "watching", "exit"}
      BY <2>1, SameHostSays DEF HostFollowed
    <3>2. HostBefore => HostBefore'
      BY <2>1, Zenon DEF HostBefore
    <3>3. HostHead => HostHead'
      BY <2>1, Zenon DEF HostHead, Held, Lost
    <3>4. HostReply(k) => HostReply(k)'
      BY <2>1, Zenon DEF HostReply, Held, Lost
    <3>5. HostRaw(k) => HostRaw(k)'
      BY <2>1, Zenon DEF HostRaw, Held, Lost
    <3>6. HostDone(k) => HostDone(k)'
      BY <2>1, Zenon DEF HostDone, Lost
    <3> QED BY <3>1, <3>2, <3>3, <3>4, <3>5, <3>6, Zenon DEF HostFollowed
  <2>3. Follows => Follows'
    <3> SUFFICES ASSUME NEW j \in Nat, NEW a \in Nat, NEW k \in Nat, NEW t,
                        Followed(Program[call], j, a, k, t)
                 PROVE  Follows'
      BY Zenon DEF Follows
    <3>1. PICK p : p = Program[call]
      BY Zenon
    <3>2. Followed(p, j, a, k, t)'
      BY <2>1, <3>1, SameFollowed
    <3>3. p = (Program[call])'
      BY <2>1, <3>1, Zenon
    <3> QED BY <3>2, <3>3, Zenon DEF Follows
  <2>4. call' = call /\ torn' = torn /\ (Failing <=> Failing')
    BY <2>1, Zenon DEF Failing
  <2>5. Host(call)' <=> Host(call)
    BY <2>4, Zenon
  <2>6. Heard'
    BY <2>2, <2>3, <2>4, <2>5 DEF Heard, HeardInv
  <2> QED BY <2>4, <2>6 DEF HeardInv
<1> QED BY <1>1, <1>2, <1>3, Zenon DEF ClientNext

-----------------------------------------------------------------------------
(* What a success means.                                                   *)

(* A function that has succeeded has returned.                             *)
Ended == prog \in Seq(Steps) /\ (res = "ok" => Returned)

LEMMA OkStep ==
    ASSUME Ended, CallStep
    PROVE  res' = "ok" => prog' = <<>>
<1>1. prog # <<>> /\ res # "ok" /\ prog \in Seq(Steps)
  BY CallRuns DEF Ended, Returned
<1>2. res' = res \/ res' = "error" \/ Advance
  BY Zenon DEF CallStep, Dial, Watch, Send, ReadOnce, ReadStatus, Message, ReadPayload,
     ReadReply, ReadRaw, ReadRest, Decode, Spawn, Collect, Close, Fail
<1>3. ASSUME Advance, res' = "ok" PROVE prog' = <<>>
  BY <1>1, <1>3, SMT DEF Advance
<1>4. res' = res \/ res' = "error" => res' # "ok"
  BY <1>1
<1> QED BY <1>2, <1>3, <1>4, Zenon

(* A function that is no host command, and that has succeeded: all that it *)
(* asked was answered OKAY, and it has all of the reply.                   *)
Succeeded(k, t) ==
    LET p == Program[call] IN
    /\ k = Asked(p, Len(p)) /\ t \in {"none", "payload", "output"} /\ Told(sent, k, t)
    /\ Window(buf, sent, Offset(k, t))
    /\ Offset(k, t) + Len(buf) = Len(sent) \/ CutShort

LEMMA PlainSuccess ==
    ASSUME Grammatical, HeardInv, Ended, res = "ok", ~Host(call)
    PROVE  \E k \in Nat : \E t : Succeeded(k, t)
<1>1. PICK p : p = Program[call]
  BY Zenon
<1>2. Grammar(p) /\ Follows
  <2>1. ~Failing
    BY SMT DEF Failing, Ended, Returned
  <2> QED BY <1>1, <2>1, Zenon DEF HeardInv, Heard, Grammatical
<1>3. PICK j \in Nat, a \in Nat, k \in Nat : \E t : Followed(p, j, a, k, t)
  BY <1>1, <1>2, Zenon DEF Follows
<1>4. PICK t : Followed(p, j, a, k, t)
  BY <1>3
<1>5. j = Len(p) /\ Len(p) \in Nat
  BY <1>2, <1>4 DEF Followed, Running, Grammar
<1>6. a \in 0..Len(p) /\ Asked(p, a) \in Nat /\ Asked(p, a) <= Asked(p, Len(p))
  <2>1. a \in 0..Len(p)
    BY <1>4 DEF Followed, HasSaid
  <2> QED BY <1>2, <1>5, <2>1, SMT DEF Grammar, Counts
<1>7. Told(sent, k, t) /\ Asked(p, Len(p)) \in Nat
  BY <1>2, <1>4, <1>5, SMT DEF Followed, HasSaid, Grammar, Counts
<1>8. t \in {"none", "fail", "payload", "output"} /\ sent \in Seq(Unit) /\ Len(sent) \in Nat
  BY <1>7, Kinds
<1>9. /\ t = "fail" => k < Asked(p, a)
      /\ t # "fail" => k = Asked(p, a)
  BY <1>4, <1>8 DEF Followed, HasSaid
<1>10. t # "fail" /\ k = Asked(p, Len(p))
  <2>1. Asked(p, Len(p)) <= k
    BY <1>4, <1>5, <1>7, SMT DEF Followed, InStep, ReadOut
  <2> QED BY <1>6, <1>7, <1>9, <2>1, SMT
<1>11. /\ Window(buf, sent, Offset(k, t))
       /\ Offset(k, t) + Len(buf) = Len(sent) \/ CutShort
  <2>1. CASE InStep(p, j, k)
    <3>1. /\ \A i \in 1..Len(p) : p[i] \notin {"payload", "rest", "collect"}
          /\ buf = <<>>
      BY <1>5, <2>1, SMT DEF InStep
    <3>2. t \in {"none", "fail"}
      <4> SUFFICES ASSUME t \notin {"none", "fail"} PROVE FALSE
        OBVIOUS
      <4>1. a > 0 /\ p[a] \in ReadSteps
        BY <1>4 DEF Followed, HasSaid
      <4>2. a \in 1..Len(p)
        BY <1>6, <4>1, SMT
      <4>3. p[a] = "spawn"
        BY <3>1, <4>1, <4>2 DEF ReadSteps
      <4>4. a < Len(p) /\ p[a + 1] = "collect"
        BY <1>2, <4>2, <4>3 DEF Grammar, Reads
      <4>5. a + 1 \in 1..Len(p)
        BY <1>5, <4>2, <4>4, SMT
      <4> QED BY <3>1, <4>4, <4>5
    <3>3. Len(sent) = 2 * k /\ Offset(k, t) = 2 * k
      BY <1>7, <1>10, <3>2 DEF Told, Offset
    <3>4. Window(<<>>, sent, Offset(k, t))
      BY EmptyWindow
    <3> QED BY <1>8, <3>1, <3>3, <3>4, SMT
  <2>2. CASE ReadOut(p, j, k, t)
    <3>1. /\ Window(buf, sent, Offset(k, t))
          /\ \/ Offset(k, t) + Len(buf) = Len(sent)
             \/ server = "gone" /\ \E i \in 1..Len(p) : p[i] \in {"rest", "collect"}
      BY <2>2, Zenon DEF ReadOut
    <3>2. (\E i \in 1..Len(p) : p[i] \in {"rest", "collect"}) => Streams(call)
      BY <1>1 DEF Streams, HasStep
    <3> QED BY <3>1, <3>2, Zenon DEF CutShort
  <2> QED BY <1>4, <2>1, <2>2, Zenon DEF Followed
<1>12. t \in {"none", "payload", "output"}
  BY <1>8, <1>10
<1>13. Succeeded(k, t)
  BY <1>1, <1>7, <1>10, <1>11, <1>12, Zenon DEF Succeeded
<1> QED BY <1>13, Zenon

(* A host command that has succeeded.                                      *)
LEMMA HostSuccess ==
    ASSUME HeardInv, Ended, res = "ok", Host(call), ~torn
    PROVE  /\ sent \in Seq(Unit) /\ Len(sent) >= 2 /\ sent[1].f = "OKAY"
           /\ Window(buf, sent, 4)
           /\ 4 + Len(buf) >= Len(sent) \/ CutShort
           /\ Refused => Len(sent) > 4
           /\ ~Refused => \E k \in Nat : \E t \in {"none", "payload"} :
                Told(sent, k, t) /\ (Offset(k, t) = 4 \/ (Offset(k, t) = 2 /\ Len(sent) = 2))
<1>1. prog = <<>>
  BY DEF Ended, Returned
<1>2. HostFollows
  <2>1. ~Failing
    BY <1>1 DEF Failing
  <2> QED BY <2>1, Zenon DEF HeardInv, Heard
<1>3. PICK k \in 0..2, t \in {"none", "fail", "payload"} : HostFollowed(k, t)
  BY <1>2, Zenon DEF HostFollows
<1>4. HostSays(k, t) /\ HostDone(k)
  <2>1. /\ prog # <<"head", "reply", "close">> /\ prog # <<"reply", "close">>
        /\ prog # <<"raw", "close">> /\ prog # <<"send", "head", "reply", "close">>
    BY <1>1
  <2>2. res # "none"
    OBVIOUS
  <2> QED BY <1>3, <2>1, <2>2, Zenon DEF HostFollowed, HostBefore, HostHead, HostReply, HostRaw
<1>5. k > 0 /\ Window(buf, sent, 4)
  BY <1>4, Zenon DEF HostDone
<1>6. 4 + Len(buf) >= Len(sent) \/ CutShort
  BY <1>4, Zenon DEF HostDone, CutShort, Lost
<1>7. sent \in Seq(Unit) /\ Len(sent) \in Nat /\ Len(sent) >= 2 /\ sent[1] = Okay(1)
  BY <1>4, <1>5, HostSaid
<1>8. ASSUME Len(sent) <= 4, NEW i \in 1..Len(sent) PROVE sent[i].f # "FAIL"
  <2>1. Told(sent, k, t)
    BY <1>4 DEF HostSays
  <2>2. t # "fail"
    BY <1>5, <1>7, <1>8, <2>1, SMT DEF Told
  <2>3. k = 1 \/ k = 2
    BY <1>5, SMT
  <2>4. sent[1] = Okay(1) /\ sent[2] = Okay(2)
    BY <1>4, <1>5, HostSaid
  <2>5. CASE k = 2
    <3>1. sent[3] = Okay(1) /\ sent[4] = Okay(2)
      BY <2>1, <2>5, SMT DEF Told
    <3> QED BY <1>7, <1>8, <2>4, <3>1, SMT DEF Okay
  <2>6. CASE k = 1 /\ t = "none"
    <3>1. Len(sent) = 2
      BY <2>1, <2>6, SMT DEF Told
    <3> QED BY <2>4, <3>1, SMT DEF Okay
  <2>7. CASE k = 1 /\ t = "payload"
    <3>1. /\ sent[3].f = "len" /\ sent[4].f = "len"
          /\ \A l \in 5..Len(sent) : sent[l].f = "data"
      BY <2>1, <2>7, SMT DEF Told
    <3> QED BY <1>7, <1>8, <2>4, <3>1, SMT DEF Okay
  <2> QED BY <2>2, <2>3, <2>5, <2>6, <2>7
<1>9. Refused => Len(sent) > 4
  <2>1. ~(Len(sent) > 4) => Len(sent) <= 4
    BY <1>7, SMT
  <2> QED BY <1>8, <2>1 DEF Refused
<1>10. ASSUME ~Refused
       PROVE  \E m \in Nat : \E u \in {"none", "payload"} :
                Told(sent, m, u) /\ (Offset(m, u) = 4 \/ (Offset(m, u) = 2 /\ Len(sent) = 2))
  <2>1. Told(sent, k, t) /\ (t = "payload" => k = 1) /\ k \in Nat
    BY <1>4, SMT DEF HostSays
  <2>2. t # "fail"
    <3> SUFFICES ASSUME t = "fail" PROVE FALSE
      OBVIOUS
    <3>1. 2 * k + 1 \in 1..Len(sent) /\ sent[2 * k + 1].f = "FAIL"
      BY <2>1, SMT DEF Told
    <3> QED BY <1>10, <3>1 DEF Refused
  <2>3. Offset(k, t) = 4 \/ (Offset(k, t) = 2 /\ Len(sent) = 2)
    <3>1. t = "none" => Len(sent) = 2 * k
      BY <2>1, SMT DEF Told
    <3>2. k = 1 \/ k = 2
      BY <1>5, SMT
    <3>3. CASE t = "none"
      BY <3>1, <3>2, <3>3, SMT DEF Offset
    <3>4. CASE t = "payload"
      BY <2>1, <3>4, SMT DEF Offset
    <3> QED BY <2>2, <3>3, <3>4
  <2> QED BY <2>1, <2>2, <2>3
<1>11. sent[1].f = "OKAY"
  BY <1>7, SMT DEF Okay
<1> QED BY <1>5, <1>6, <1>7, <1>9, <1>10, <1>11

-----------------------------------------------------------------------------
(* All of it, as an invariant of Client.                                   *)

ReplyInv == ClientInv /\ HeardInv /\ Ended

LEMMA ReplyStarts == Grammatical /\ ClientInit => ReplyInv
<1> SUFFICES ASSUME Grammatical, ClientInit PROVE ReplyInv
  OBVIOUS
<1>1. ClientInv
  BY ClientStarts
<1>2. Fresh
  BY Zenon DEF ClientInit, Fresh
<1>3. HeardInv
  BY <1>2, FreshHeard
<1>4. Ended
  BY <1>1, <1>2 DEF ClientInv, Fresh, Ended
<1> QED BY <1>1, <1>3, <1>4 DEF ReplyInv

LEMMA ReplyStep ==
    ASSUME Grammatical, ReplyInv, [ClientNext]_clientVars
    PROVE  ReplyInv'
<1>1. ClientInv' /\ prog' \in Seq(Steps)
  <2>1. ClientInv'
    BY ClientInductive DEF ReplyInv
  <2> QED BY <2>1 DEF ClientInv
<1>2. HeardInv'
  BY HeardStep DEF ReplyInv
<1>3. res' = "ok" => prog' = <<>>
  <2>1. CASE CallStep
    BY <2>1, OkStep DEF ReplyInv
  <2>2. CASE UNCHANGED <<prog, res>>
    BY <2>2 DEF ReplyInv, Ended, Returned
  <2>3. CASE \E c \in Calls : \E k \in Contexts(c) : Begin(c, k)
    BY <2>3 DEF Begin
  <2>4. ClientStep /\ ~CallStep => UNCHANGED <<prog, res>>
    BY Untouched, Zenon DEF ClientStep
  <2>5. UNCHANGED clientVars => UNCHANGED <<prog, res>>
    BY Zenon DEF clientVars, callVars
  <2> QED BY <2>1, <2>2, <2>3, <2>4, <2>5, Zenon DEF ClientNext
<1> QED BY <1>1, <1>2, <1>3 DEF ReplyInv, Ended, Returned

-----------------------------------------------------------------------------
(* While the session of a shell is in use.                                 *)

LEMMA StillFollowed ==
    ASSUME NEW p, NEW j, NEW a, NEW k, NEW t, Followed(p, j, a, k, t), Len(p) \in Nat,
           \A i \in 1..Len(p) : p[i] \notin {"payload", "rest", "collect"},
           UNCHANGED <<prog, res, buf, wire, sent, ans, helper>>,
           Lost => Lost', server' = "up" => server = "up"
    PROVE  Followed(p, j, a, k, t)'
<1>1. Running(p, j)' /\ NotAhead(p, j, a)'
  BY StaysThere DEF Followed
<1>2. HasSaid(p, a, k, t)'
  BY SameSaid DEF Followed
<1>3. InStep(p, j, k)
  <2>1. j \in 0..Len(p)
    BY DEF Followed, Running
  <2>2. ~ReadOut(p, j, k, t)
    <3>1. \A i \in 1..j : i \in 1..Len(p)
      BY <2>1, SMT
    <3>2. j < Len(p) => j + 1 \in 1..Len(p)
      BY <2>1, SMT
    <3> QED BY <3>1, <3>2 DEF ReadOut
  <2> QED BY <2>2 DEF Followed
<1>4. InStep(p, j, k)'
  <2>1. PICK b : b = 2 * Asked(p, j)
    BY Zenon
  <2>2. Stream(sent, b, buf, wire, Lost)
    BY <1>3, <2>1, Zenon DEF InStep
  <2>3. Stream(sent, b, buf, wire, Lost)'
    BY <2>2, Zenon DEF Stream
  <2>4. Stream(sent, 2 * Asked(p, j), buf, wire, Lost)'
    BY <2>1, <2>3, Zenon
  <2> QED BY <1>3, <2>4, Zenon DEF InStep
<1> QED BY <1>1, <1>2, <1>4, Zenon DEF Followed

-----------------------------------------------------------------------------
(* Counting.                                                               *)

(* f numbers the elements of S from 1 to n.                                *)
Numbers(f, n, S) ==
    /\ f \in [1..n -> S]
    /\ \A a, b \in 1..n : f[a] = f[b] => a = b
    /\ \A x \in S : \E a \in 1..n : f[a] = x

(* What is used of finite sets and their cardinality.  All of it is in the *)
(* library, which SessionProofs cites at its end (SetsAreCounted).         *)
SetsCount ==
    /\ IsFiniteSet({}) /\ Cardinality({}) = 0
    /\ \A S, x : IsFiniteSet(S) /\ x \notin S =>
         IsFiniteSet(S \cup {x}) /\ Cardinality(S \cup {x}) = Cardinality(S) + 1
    /\ \A S, T : IsFiniteSet(T) /\ S \subseteq T =>
         IsFiniteSet(S) /\ Cardinality(S) \in Nat /\ Cardinality(S) <= Cardinality(T)
    /\ \A n \in Nat : IsFiniteSet(1..n) /\ Cardinality(1..n) = n
    /\ \A S, n, f : n \in Nat /\ Numbers(f, n, S) => Cardinality(S) = n

LEMMA AskedFinite ==
    ASSUME SetsCount, NEW p, NEW j \in Nat
    PROVE  /\ IsFiniteSet({i \in 1..j : p[i] \in StatusSteps})
           /\ Asked(p, j) \in Nat
<1>1. IsFiniteSet(1..j)
  BY DEF SetsCount
<1>2. {i \in 1..j : p[i] \in StatusSteps} \subseteq 1..j
  OBVIOUS
<1> QED BY <1>1, <1>2 DEF SetsCount, Asked

LEMMA AskedNone == ASSUME SetsCount, NEW p PROVE Asked(p, 0) = 0
<1>1. {i \in 1..0 : p[i] \in StatusSteps} = {}
  BY SMT
<1> QED BY <1>1 DEF SetsCount, Asked

LEMMA AskedNext ==
    ASSUME SetsCount, NEW p, NEW j \in Nat
    PROVE  Asked(p, j + 1) = IF p[j + 1] \in StatusSteps THEN Asked(p, j) + 1
                             ELSE Asked(p, j)
<1> DEFINE S(n) == {i \in 1..n : p[i] \in StatusSteps}
<1>1. /\ Asked(p, j) = Cardinality(S(j)) /\ IsFiniteSet(S(j))
      /\ Asked(p, j + 1) = Cardinality(S(j + 1))
  BY AskedFinite DEF Asked
<1>2. CASE p[j + 1] \in StatusSteps
  <2>1. S(j + 1) = S(j) \cup {j + 1} /\ j + 1 \notin S(j)
    BY <1>2, SMT
  <2>2. Cardinality(S(j) \cup {j + 1}) = Cardinality(S(j)) + 1
    <3> HIDE DEF S
    <3> QED BY <1>1, <2>1 DEF SetsCount
  <2> QED BY <1>1, <1>2, <2>1, <2>2
<1>3. CASE p[j + 1] \notin StatusSteps
  <2>1. S(j + 1) = S(j)
    BY <1>3, SMT
  <2> QED BY <1>1, <1>3, <2>1
<1> QED BY <1>2, <1>3

LEMMA AskedGrows ==
    ASSUME SetsCount, NEW p, NEW i \in Nat, NEW j \in Nat, i <= j
    PROVE  Asked(p, i) <= Asked(p, j)
<1> DEFINE S(n) == {l \in 1..n : p[l] \in StatusSteps}
<1>1. S(i) \subseteq S(j)
  BY SMT
<1>2. /\ Asked(p, i) = Cardinality(S(i)) /\ Asked(p, j) = Cardinality(S(j))
      /\ IsFiniteSet(S(j))
  BY AskedFinite DEF Asked
<1>3. Cardinality(S(i)) <= Cardinality(S(j))
  <2> HIDE DEF S
  <2> QED BY <1>1, <1>2 DEF SetsCount
<1> QED BY <1>2, <1>3

LEMMA AskedSame ==
    ASSUME NEW p, NEW i \in Nat, NEW j \in Nat, i <= j,
           \A l \in (i + 1)..j : p[l] \notin StatusSteps
    PROVE  Asked(p, i) = Asked(p, j)
<1> DEFINE S(n) == {l \in 1..n : p[l] \in StatusSteps}
<1>1. S(i) = S(j)
  BY SMT
<1> QED BY <1>1 DEF Asked

LEMMA ProgramsCount ==
    ASSUME SetsCount, NEW p \in Seq(Plain)
    PROVE  Counts(p)
<1>1. Len(p) \in Nat /\ \A j \in 0..Len(p) : j \in Nat
  BY SMT
<1>2. \A j \in 0..Len(p) : Asked(p, j) \in Nat
  BY <1>1, AskedFinite, Zenon
<1>3. \A j \in 0..Len(p) : Asked(p, j + 1) = IF p[j + 1] \in StatusSteps THEN Asked(p, j) + 1
                                             ELSE Asked(p, j)
  BY <1>1, AskedNext, Zenon
<1>4. \A i, j \in 0..Len(p) : i <= j => Asked(p, i) <= Asked(p, j)
  BY <1>1, AskedGrows, Zenon
<1>5. \A i, j \in 0..Len(p) : i <= j /\ (\A l \in (i + 1)..j : p[l] \notin StatusSteps)
                                => Asked(p, i) = Asked(p, j)
  BY <1>1, AskedSame, Zenon
<1> QED BY <1>2, <1>3, <1>4, <1>5, AskedNone, Zenon DEF Counts

LEMMA GrammarHolds == SetsCount => Grammatical
<1> SUFFICES ASSUME SetsCount, NEW c \in Calls, ~Host(c) PROVE Grammar(Program[c])
  BY Zenon DEF Grammatical
<1>1. c # "SendHostCommandContext"
  BY HostCall, Zenon
<1> QED BY <1>1, PlainPrograms, ProgramsCount, Zenon DEF Grammar

(* The statuses of a stream, and what is not data.                         *)
LEMMA InPairs ==
    ASSUME NEW k \in Nat, NEW i \in 1..(2 * k)
    PROVE  \E m \in 1..k : i = 2 * m - 1 \/ i = 2 * m
<1>1. (i + 1) \div 2 \in 1..k
  BY SMT
<1>2. i = 2 * ((i + 1) \div 2) - 1 \/ i = 2 * ((i + 1) \div 2)
  BY SMT
<1> QED BY <1>1, <1>2

LEMMA OkaysCount ==
    ASSUME SetsCount, NEW s, NEW k \in Nat, NEW t \in {"none", "payload", "output"},
           Told(s, k, t)
    PROVE  /\ Cardinality({i \in 1..Len(s) : s[i].f = "OKAY" /\ s[i].n = 1}) = k
           /\ \A i \in 1..Len(s) : s[i].f # "FAIL"
           /\ Cardinality({i \in 1..Len(s) : s[i].f # "data"}) = Offset(k, t)
<1> DEFINE O == {i \in 1..Len(s) : s[i].f = "OKAY" /\ s[i].n = 1}
           D == {i \in 1..Len(s) : s[i].f # "data"}
<1>1. Len(s) \in Nat /\ Len(s) >= 2 * k /\ Offset(k, t) \in Nat /\ Len(s) >= Offset(k, t)
  BY SMT DEF Told, Offset
<1>2. \A m \in 1..k : s[2 * m - 1] = Okay(1) /\ s[2 * m] = Okay(2)
  BY DEF Told
<1>3. \A i \in (2 * k + 1)..Offset(k, t) : s[i].f = "len"
  BY SMT DEF Told, Offset
<1>4. \A i \in (Offset(k, t) + 1)..Len(s) : s[i].f = "data"
  BY SMT DEF Told, Offset
<1>5. \A i \in 1..(2 * k) : s[i].f = "OKAY" /\ (s[i].n = 1 => \E m \in 1..k : i = 2 * m - 1)
  <2> SUFFICES ASSUME NEW i \in 1..(2 * k)
               PROVE  s[i].f = "OKAY" /\ (s[i].n = 1 => \E m \in 1..k : i = 2 * m - 1)
    OBVIOUS
  <2>1. PICK m \in 1..k : i = 2 * m - 1 \/ i = 2 * m
    BY InPairs, Zenon
  <2>2. CASE i = 2 * m - 1
    <3>1. s[i] = Okay(1)
      BY <1>2, <2>2, Zenon
    <3>2. s[i].f = "OKAY"
      BY <3>1, SMT DEF Okay
    <3> QED BY <2>2, <3>2
  <2>3. CASE i = 2 * m
    <3>1. s[i] = Okay(2)
      BY <1>2, <2>3, Zenon
    <3> QED BY <3>1, SMT DEF Okay
  <2> QED BY <2>1, <2>2, <2>3
<1>6. \A i \in 1..Len(s) : \/ i \in 1..(2 * k) \/ i \in (2 * k + 1)..Offset(k, t)
                           \/ i \in (Offset(k, t) + 1)..Len(s)
  BY <1>1, SMT
<1>7. \A i \in 1..Len(s) : s[i].f # "FAIL"
  BY <1>3, <1>4, <1>5, <1>6
<1>8. D = 1..Offset(k, t)
  BY <1>1, <1>3, <1>4, <1>5, <1>6, SMT DEF Offset
<1>9. O = {2 * m - 1 : m \in 1..k}
  <2>1. ASSUME NEW i \in O PROVE i \in {2 * m - 1 : m \in 1..k}
    <3>1. i \in 1..Len(s) /\ s[i].f = "OKAY" /\ s[i].n = 1
      OBVIOUS
    <3> HIDE DEF O
    <3>2. i \in 1..(2 * k)
      BY <1>3, <1>4, <1>6, <3>1
    <3>3. PICK m \in 1..k : i = 2 * m - 1
      BY <1>5, <3>1, <3>2, Zenon
    <3> QED BY <3>3
  <2>2. ASSUME NEW m \in 1..k PROVE 2 * m - 1 \in O
    <3>1. 2 * m - 1 \in 1..Len(s)
      BY <1>1, SMT
    <3>2. s[2 * m - 1].f = "OKAY" /\ s[2 * m - 1].n = 1
      <4>1. s[2 * m - 1] = Okay(1)
        BY <1>2, Zenon
      <4> QED BY <4>1, SMT DEF Okay
    <3> QED BY <3>1, <3>2, Zenon
  <2> HIDE DEF O
  <2> QED BY <2>1, <2>2
<1> HIDE DEF O, D
<1>10. Cardinality(O) = k
  <2> DEFINE f == [m \in 1..k |-> 2 * m - 1]
  <2>1. f \in [1..k -> O]
    BY <1>9
  <2>2. \A a, b \in 1..k : f[a] = f[b] => a = b
    BY SMT
  <2>3. \A i \in O : \E a \in 1..k : f[a] = i
    BY <1>9
  <2> HIDE DEF f
  <2>4. Numbers(f, k, O)
    BY <2>1, <2>2, <2>3, Zenon DEF Numbers
  <2> QED BY <2>4, Zenon DEF SetsCount
<1>11. Cardinality(D) = Offset(k, t)
  BY <1>1, <1>8, Zenon DEF SetsCount
<1> QED BY <1>7, <1>10, <1>11, Zenon DEF O, D

-----------------------------------------------------------------------------
(* The properties.                                                         *)

LEMMA SuccessSays == SetsCount /\ ReplyInv => SuccessTrue
<1> SUFFICES ASSUME SetsCount, ReplyInv, res = "ok"
             PROVE  IF Host(call)
                      THEN \/ torn
                           \/ /\ sent[1].f = "OKAY"
                              /\ Refused => buf # <<>> \/ CutShort
                      ELSE /\ ~Refused
                           /\ Count(sent, LAMBDA u : u.f = "OKAY" /\ u.n = 1)
                                = Count(Program[call], LAMBDA s : s \in StatusSteps)
  BY DEF SuccessTrue
<1>1. CASE Host(call)
  <2> SUFFICES ASSUME ~torn PROVE sent[1].f = "OKAY" /\ (Refused => buf # <<>> \/ CutShort)
    BY <1>1
  <2>1. /\ sent \in Seq(Unit) /\ sent[1].f = "OKAY" /\ (Refused => Len(sent) > 4)
        /\ 4 + Len(buf) >= Len(sent) \/ CutShort
    BY <1>1, HostSuccess DEF ReplyInv
  <2>2. buf = <<>> /\ Len(sent) > 4 => ~(4 + Len(buf) >= Len(sent))
    BY <2>1, SMT
  <2> QED BY <2>1, <2>2
<1>2. CASE ~Host(call)
  <2>1. PICK k \in Nat : \E t : Succeeded(k, t)
    BY <1>2, GrammarHolds, PlainSuccess, Zenon DEF ReplyInv
  <2>2. PICK t : Succeeded(k, t)
    BY <2>1
  <2>3. /\ k = Asked(Program[call], Len(Program[call]))
        /\ t \in {"none", "payload", "output"} /\ Told(sent, k, t)
    BY <2>2, Zenon DEF Succeeded
  <2>4. ~Refused /\ Count(sent, LAMBDA u : u.f = "OKAY" /\ u.n = 1) = k
    BY <2>3, OkaysCount, Zenon DEF Count, Refused
  <2>5. Count(Program[call], LAMBDA s : s \in StatusSteps) = k
    BY <2>3, Zenon DEF Count, Asked
  <2> QED BY <1>2, <2>4, <2>5, Zenon
<1> QED BY <1>1, <1>2

(* What has been read is the beginning of what was sent behind the first b *)
(* units, and all of it if the lengths say so.                             *)
LEMMA WindowReads ==
    ASSUME NEW s \in Seq(Unit), NEW b \in Nat, NEW w, Window(w, s, b)
    PROVE  /\ w = SubSeq(SubSeq(s, b + 1, Len(s)), 1, Len(w))
           /\ b + Len(w) >= Len(s) => w = SubSeq(s, b + 1, Len(s))
<1>1. /\ w \in Seq(Unit) /\ Len(w) \in Nat /\ Len(s) \in Nat
      /\ \A i \in 1..Len(w) : b + i <= Len(s) /\ w[i] = s[b + i]
  BY SMT DEF Window
<1>2. PICK r : r = SubSeq(s, b + 1, Len(s))
  BY Zenon
<1>3. CASE Len(w) = 0
  <2>1. w = <<>>
    BY <1>1, <1>3, SMT
  <2>2. SubSeq(r, 1, Len(w)) = <<>>
    BY <1>2, <1>3, SMT
  <2>3. b >= Len(s) => r = <<>>
    BY <1>1, <1>2, SMT
  <2> QED BY <1>1, <1>2, <1>3, <2>1, <2>2, <2>3, SMT
<1>4. CASE Len(w) > 0
  <2>1. b + Len(w) <= Len(s)
    BY <1>1, <1>4, SMT
  <2>2. /\ r \in Seq(Unit) /\ Len(r) = Len(s) - b
        /\ \A i \in 1..Len(r) : r[i] = s[b + i]
    BY <1>1, <1>2, <1>4, <2>1, SMT
  <2>3. PICK q : q = SubSeq(r, 1, Len(w))
    BY Zenon
  <2>4. Len(w) <= Len(r)
    BY <1>1, <2>1, <2>2, SMT
  <2>5. /\ q \in Seq(Unit) /\ Len(q) = Len(w)
        /\ \A i \in 1..Len(q) : q[i] = r[i]
    BY <1>1, <2>2, <2>3, <2>4, SMT
  <2>6. \A i \in 1..Len(w) : q[i] = w[i]
    BY <1>1, <2>2, <2>4, <2>5, SMT
  <2>7. q = w
    BY <1>1, <2>5, <2>6, SameSeq
  <2>8. b + Len(w) >= Len(s) => r = w
    <3> SUFFICES ASSUME b + Len(w) >= Len(s) PROVE r = w
      OBVIOUS
    <3>1. Len(r) = Len(w)
      BY <1>1, <2>1, <2>2, SMT
    <3>2. \A i \in 1..Len(w) : r[i] = w[i]
      BY <1>1, <2>2, <3>1
    <3> QED BY <1>1, <2>2, <3>1, <3>2, SameSeq
  <2> QED BY <1>2, <2>3, <2>7, <2>8
<1> QED BY <1>1, <1>3, <1>4, SMT

LEMMA ReplySays == SetsCount /\ ReplyInv => ReplyWhole
<1> SUFFICES ASSUME SetsCount, ReplyInv, res = "ok", ~torn
             PROVE  buf = SubSeq(Reply, 1, Len(buf)) /\ (buf = Reply \/ CutShort)
  BY Zenon DEF ReplyWhole
<1>1. PICK b \in Nat : /\ b = Overhead /\ Window(buf, sent, b) /\ sent \in Seq(Unit)
                       /\ b + Len(buf) >= Len(sent) \/ CutShort
  <2>1. CASE Host(call)
    <3>1. /\ Window(buf, sent, 4) /\ sent \in Seq(Unit)
          /\ 4 + Len(buf) >= Len(sent) \/ CutShort
      BY <2>1, HostSuccess, Zenon DEF ReplyInv
    <3>2. CASE Overhead = 4
      <4>1. 4 \in Nat
        BY SMT
      <4> QED BY <3>1, <3>2, <4>1, Zenon
    <3>3. CASE Overhead # 4
      <4>1. ~Refused
        BY <3>3 DEF Overhead
      <4>2. PICK k \in Nat, t \in {"none", "payload"} :
              Told(sent, k, t) /\ (Offset(k, t) = 4 \/ (Offset(k, t) = 2 /\ Len(sent) = 2))
        BY <2>1, <4>1, HostSuccess, Zenon DEF ReplyInv
      <4>3. Overhead = Offset(k, t)
        BY <4>1, <4>2, OkaysCount, Zenon DEF Count, Overhead
      <4>4. Overhead = 2 /\ Len(sent) = 2
        BY <3>3, <4>2, <4>3
      <4>5. Window(buf, sent, 2) /\ 2 + Len(buf) >= Len(sent) /\ 2 \in Nat
        BY <3>1, <4>4, SMT DEF Window
      <4> QED BY <3>1, <4>4, <4>5, Zenon
    <3> QED BY <3>2, <3>3
  <2>2. CASE ~Host(call)
    <3>1. PICK k \in Nat : \E t : Succeeded(k, t)
      BY <2>2, GrammarHolds, PlainSuccess, Zenon DEF ReplyInv
    <3>2. PICK t : Succeeded(k, t)
      BY <3>1
    <3>3. /\ t \in {"none", "payload", "output"} /\ Told(sent, k, t)
          /\ Window(buf, sent, Offset(k, t))
          /\ Offset(k, t) + Len(buf) = Len(sent) \/ CutShort
      BY <3>2, Zenon DEF Succeeded
    <3>4. Overhead = Offset(k, t)
      BY <3>3, OkaysCount, Zenon DEF Count, Overhead, Refused
    <3>5. Offset(k, t) \in Nat /\ sent \in Seq(Unit) /\ Len(sent) \in Nat
      BY <3>3, Kinds, SMT DEF Offset
    <3>6. Offset(k, t) + Len(buf) >= Len(sent) \/ CutShort
      BY <3>3, <3>5, SMT
    <3> QED BY <3>3, <3>4, <3>5, <3>6, Zenon
  <2> QED BY <2>1, <2>2
<1>2. Reply = SubSeq(sent, b + 1, Len(sent))
  BY <1>1, Zenon DEF Reply
<1>3. /\ buf = SubSeq(SubSeq(sent, b + 1, Len(sent)), 1, Len(buf))
      /\ b + Len(buf) >= Len(sent) => buf = SubSeq(sent, b + 1, Len(sent))
  <2>1. Window(buf, sent, b) /\ sent \in Seq(Unit)
    BY <1>1
  <2>2. ASSUME NEW s \in Seq(Unit), NEW w, Window(w, s, b)
        PROVE  /\ w = SubSeq(SubSeq(s, b + 1, Len(s)), 1, Len(w))
               /\ b + Len(w) >= Len(s) => w = SubSeq(s, b + 1, Len(s))
    BY <2>2, WindowReads, Zenon
  <2> QED BY <2>1, <2>2, Zenon
<1> QED BY <1>1, <1>2, <1>3, Zenon

=============================================================================
