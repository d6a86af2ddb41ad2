------------------------------- MODULE Client -------------------------------
(***************************************************************************)
(* One call of the adb package: a conversation with the adb server over a  *)
(* connection of its own.  adb/connection.go, client.go, client_commands.go,*)
(* device_transport.go, device_forward.go, device_shell.go and the opening *)
(* half of device_screen.go, device_network.go and device_shell_v2.go.     *)
(*                                                                         *)
(* A function of the package is a program: the sequence of things it does  *)
(* to its connection when nothing goes wrong.  prog is what is left of it. *)
(* A step that goes wrong closes the connection, whether by defer or on    *)
(* the error path, and returns an error.  A second goroutine closes the    *)
(* connection of a host command when its context is done, or reads the     *)
(* output of a command for a caller that selects on the context.           *)
(*                                                                         *)
(* Four bytes of the protocol (a status or a length) are two units, so     *)
(* that one Read can return half of them; a payload has up to MaxData.     *)
(***************************************************************************)
EXTENDS Naturals, Sequences, FiniteSets

CONSTANT MaxData   \* units of a payload

ASSUME MaxDataAssumption == MaxData \in Nat

VARIABLES
    call,      \* the function
    prog,      \* the steps it has still to take; empty when it has returned
    res,       \* "none", or what it returned: "ok" or "error"
    tries,     \* times the dial has failed
    conn,      \* its end of the connection: "none", "open" or "closed"
    wire,      \* units that have arrived and are not read
    buf,       \* the payload it has read
    torn,      \* one Read returned half of a status
    ctx,       \* its context: "background", "live" or "done"
    deadline,  \* the deadline of the connection: "off", "set" or "past"
    helper,    \* the second goroutine
    server,    \* "up", "silent", "done", or "gone" or "reset" in mid-answer
    ans,       \* what the server has still to answer
    sent       \* every unit it has sent

callVars == <<call, prog, res, tries>>
linkVars == <<conn, wire, buf, torn>>
ctxVars == <<ctx, deadline, helper>>
serverVars == <<server, ans, sent>>
clientVars == <<callVars, linkVars, ctxVars, serverVars>>

-----------------------------------------------------------------------------
(* The programs.                                                           *)

SendHostCommandContext == <<"dial", "watch", "send", "head", "reply", "close">>
TrackDevices == <<"dial", "send", "select">>
TrackDevicesWithCallback == TrackDevices \o <<"rest", "close">>

TransportContext == <<"dial", "send", "select">>
SendCommand == <<"send", "status">>
ExecuteSimpleCommand == <<"send", "accept">>
ExecuteCommandWithResponse == <<"send", "accept", "rest">>

executeTransportCommand == TransportContext \o ExecuteSimpleCommand \o <<"close">>
executeTransportCommandWithResponse ==
    TransportContext \o ExecuteCommandWithResponse \o <<"close">>
openTransportConnection == TransportContext \o ExecuteSimpleCommand
OpenSocketContext == TransportContext \o ExecuteSimpleCommand

Forward == <<"dial", "send", "status", "status", "close">>
ForwardRemove == <<"dial", "send", "status", "status", "close">>
Reverse == TransportContext \o SendCommand \o <<"status", "close">>
ReverseRemove == TransportContext \o <<"send", "status", "status", "close">>
ListReverses == TransportContext \o SendCommand \o <<"payload", "close">>

(* The header of a framebuffer gives the size of what follows, as a length *)
(* prefix does; each is read in full.                                      *)
Framebuffer == TransportContext \o SendCommand \o <<"payload", "close">>

ShellContext == TransportContext \o SendCommand
ShellV2WithOptionsContext == TransportContext \o SendCommand
RunCommandContext == ShellContext \o <<"spawn", "collect", "close">>
GetPackages == ShellContext \o <<"rest", "close">>
Screencap == ShellContext \o <<"rest", "decode", "close">>
installUsingAbbExec ==
    TransportContext \o <<"send", "select", "copy", "rest", "close">>

Program ==
    [SendHostCommandContext |-> SendHostCommandContext,
     TrackDevices |-> TrackDevices,
     TrackDevicesWithCallback |-> TrackDevicesWithCallback,
     executeTransportCommand |-> executeTransportCommand,
     executeTransportCommandWithResponse |-> executeTransportCommandWithResponse,
     openTransportConnection |-> openTransportConnection,
     OpenSocketContext |-> OpenSocketContext,
     Forward |-> Forward,
     ForwardRemove |-> ForwardRemove,
     Reverse |-> Reverse,
     ReverseRemove |-> ReverseRemove,
     ListReverses |-> ListReverses,
     Framebuffer |-> Framebuffer,
     ShellContext |-> ShellContext,
     ShellV2WithOptionsContext |-> ShellV2WithOptionsContext,
     RunCommandContext |-> RunCommandContext,
     GetPackages |-> GetPackages,
     Screencap |-> Screencap,
     installUsingAbbExec |-> installUsingAbbExec]

Calls == DOMAIN Program
HasStep(c, s) == \E i \in 1..Len(Program[c]) : Program[c][i] = s

Host(c) == HasStep(c, "watch")                  \* bound by its context throughout
Streams(c) == HasStep(c, "rest") \/ HasStep(c, "collect")   \* reads to the end
Opens(c) == ~HasStep(c, "close")                \* hands its connection over
TakesContext(c) ==
    c \in {"SendHostCommandContext", "OpenSocketContext", "ShellContext",
           "ShellV2WithOptionsContext", "RunCommandContext"}

-----------------------------------------------------------------------------
(* What is on the wire.                                                    *)

Unit == [f : {"OKAY", "FAIL", "len", "data"}, n : Nat]

Status(s) == <<[f |-> s, n |-> 1], [f |-> s, n |-> 2]>>
Data(n) == [i \in 1..n |-> [f |-> "data", n |-> i]]
Prefixed(n) == <<[f |-> "len", n |-> n], [f |-> "len", n |-> n]>> \o Data(n)

Take(n) == SubSeq(wire, 1, n)
Drop(n) == SubSeq(wire, n + 1, Len(wire))

(* The outcomes of reading n units: they are there, the stream ends before *)
(* them (io.EOF or io.ErrUnexpectedEOF), or a net.Error.                   *)
CanRead(n) == conn = "open" /\ deadline # "past" /\ Len(wire) >= n
AtEnd(n) == /\ conn = "open" /\ deadline # "past" /\ Len(wire) < n
            /\ server \in {"done", "gone"}
NetError(n) == \/ conn # "open" \/ deadline = "past"
               \/ server = "reset" /\ Len(wire) < n

(* readLengthPrefixed: what it needs, and whether parseHexInt accepts it.  *)
LengthOK == Len(wire) >= 2 /\ wire[1].f = "len"
Needed == IF LengthOK THEN 2 + wire[1].n ELSE 2

-----------------------------------------------------------------------------
(* The steps of the function.                                              *)

Returned == prog = <<>>
Step(s) == ~Returned /\ Head(prog) = s

Advance ==
    /\ prog' = Tail(prog)
    /\ res' = IF Len(prog) = 1 THEN "ok" ELSE res

(* Mutant of Fail: an error path that does not close the connection.       *)
FailOpen ==
    /\ prog' = <<>>
    /\ res' = "error"
    /\ UNCHANGED conn

Fail ==
    /\ prog' = <<>>
    /\ res' = "error"
    /\ conn' = IF conn = "open" THEN "closed" ELSE conn

(* Dial the server; if that fails, run adb start-server and dial again.    *)
Dial ==
    /\ Step("dial")
    /\ \/ /\ ctx # "done"
          /\ conn' = "open"
          /\ Advance /\ UNCHANGED tries
       \/ /\ IF tries = 0 THEN UNCHANGED <<prog, res, conn>> ELSE Fail
          /\ tries' = tries + 1
    /\ UNCHANGED <<call, wire, buf, torn, ctxVars, serverVars>>

(* Start the watcher and set the deadline of the connection.               *)
Watch ==
    /\ Step("watch")
    /\ IF ctx = "background"
         THEN UNCHANGED <<helper, deadline>>
         ELSE helper' = "watching" /\ deadline' \in {"off", "set"}
    /\ Advance
    /\ UNCHANGED <<call, tries, linkVars, ctx, serverVars>>

(* Write a request, or stream a file, which may turn out to be unreadable.  *)
Send ==
    /\ Step("send") \/ Step("copy")
    /\ \/ /\ conn = "open" /\ deadline # "past"
          /\ Advance
          /\ ans' = Tail(prog)
          /\ UNCHANGED conn
       \/ /\ \/ conn # "open" \/ deadline = "past"
             \/ server \in {"gone", "reset"} \/ Step("copy")
          /\ Fail
          /\ UNCHANGED ans
    /\ UNCHANGED <<call, tries, wire, buf, torn, ctxVars, server, sent>>

(* SendHostCommandContext takes anything but FAIL for success; the others  *)
(* that use sendADBCommand take nothing but OKAY.                          *)
Accepted(s) == IF Step("head") THEN s # Status("FAIL") ELSE s = Status("OKAY")

(* sendADBCommand: one Read returns the status, or half of it.             *)
ReadOnce ==
    /\ Step("head") \/ Step("select")
    /\ \/ \E n \in 1..2 :
            /\ CanRead(n)
            /\ wire' = Drop(n)
            /\ torn' = (torn \/ n = 1)
            /\ IF Accepted(Take(n)) THEN Advance
               ELSE prog' = <<"message">> /\ UNCHANGED res
            /\ UNCHANGED conn
       \/ (AtEnd(1) \/ NetError(1)) /\ Fail /\ UNCHANGED <<wire, torn>>
    /\ UNCHANGED <<call, tries, buf, ctxVars, serverVars>>

(* Mutant of ReadStatus: takes a FAIL for an answer.                       *)
ReadStatusAny ==
    /\ Step("status") \/ Step("accept")
    /\ \/ CanRead(2) /\ wire' = Drop(2) /\ Advance /\ UNCHANGED conn
       \/ (AtEnd(2) \/ NetError(2)) /\ Fail /\ UNCHANGED wire
    /\ UNCHANGED <<call, tries, buf, torn, ctxVars, serverVars>>

(* Transport.ReadStatus, and the caller's test of what it returns.         *)
ReadStatus ==
    /\ Step("status") \/ Step("accept")
    /\ \/ /\ CanRead(2)
          /\ wire' = Drop(2)
          /\ IF Take(2) = Status("FAIL")
               THEN prog' = <<"message">> /\ UNCHANGED <<res, conn>>
               ELSE IF Step("accept") \/ Take(2) = Status("OKAY")
                      THEN Advance /\ UNCHANGED conn ELSE Fail
       \/ (AtEnd(2) \/ NetError(2)) /\ Fail /\ UNCHANGED wire
    /\ UNCHANGED <<call, tries, buf, torn, ctxVars, serverVars>>

(* Read the message of a failure, whether or not it comes, and return it.  *)
Message ==
    /\ Step("message")
    /\ CanRead(Needed) \/ AtEnd(Needed) \/ NetError(Needed)
    /\ Fail
    /\ UNCHANGED <<call, tries, wire, buf, torn, ctxVars, serverVars>>

(* A payload of known length, or an error.                                 *)
ReadPayload ==
    /\ Step("payload")
    /\ \/ /\ CanRead(Needed) /\ LengthOK
          /\ buf' = SubSeq(wire, 3, Needed) /\ wire' = Drop(Needed)
          /\ Advance /\ UNCHANGED conn
       \/ /\ (CanRead(2) /\ ~LengthOK) \/ AtEnd(Needed) \/ NetError(Needed)
          /\ Fail /\ UNCHANGED <<buf, wire>>
    /\ UNCHANGED <<call, tries, torn, ctxVars, serverVars>>

(* SendHostCommandContext reads its reply: only a net.Error is returned;   *)
(* any other error falls through to reading what is left.                  *)
ReadReply ==
    /\ Step("reply")
    /\ \/ /\ CanRead(Needed) /\ LengthOK
          /\ buf' = SubSeq(wire, 3, Needed) /\ wire' = Drop(Needed)
          /\ Advance /\ UNCHANGED conn
       \/ NetError(Needed) /\ Fail /\ UNCHANGED <<buf, wire>>
       \/ /\ (CanRead(2) /\ ~LengthOK) \/ AtEnd(Needed)
          /\ wire' = IF LengthOK THEN <<>> ELSE Drop(2)
          /\ prog' = <<"raw", "close">>
          /\ UNCHANGED <<res, buf, conn>>
    /\ UNCHANGED <<call, tries, torn, ctxVars, serverVars>>

(* io.ReadAll takes what is there.                                         *)
TakeAll ==
    /\ CanRead(1)
    /\ buf' = buf \o wire
    /\ wire' = <<>>

(* rest, _ := io.ReadAll(conn): no error but the context's is looked at.   *)
ReadRaw ==
    /\ Step("raw")
    /\ \/ TakeAll /\ UNCHANGED <<prog, res, conn>>
       \/ /\ AtEnd(1) \/ NetError(1)
          /\ IF ctx = "done" THEN Fail ELSE Advance /\ UNCHANGED conn
          /\ UNCHANGED <<buf, wire>>
    /\ UNCHANGED <<call, tries, torn, ctxVars, serverVars>>

(* Mutant of ReadRest: ignores the error of io.ReadAll.                    *)
ReadRestAny ==
    /\ Step("rest")
    /\ \/ TakeAll /\ UNCHANGED <<prog, res>>
       \/ (AtEnd(1) \/ NetError(1)) /\ Advance /\ UNCHANGED <<buf, wire>>
    /\ UNCHANGED <<call, tries, conn, torn, ctxVars, serverVars>>

ReadRest ==
    /\ Step("rest")
    /\ \/ TakeAll /\ UNCHANGED <<prog, res, conn>>
       \/ AtEnd(1) /\ Advance /\ UNCHANGED <<buf, wire, conn>>
       \/ NetError(1) /\ Fail /\ UNCHANGED <<buf, wire>>
    /\ UNCHANGED <<call, tries, torn, ctxVars, serverVars>>

(* image.Decode.                                                           *)
Decode ==
    /\ Step("decode")
    /\ \/ Advance /\ UNCHANGED conn
       \/ Fail
    /\ UNCHANGED <<call, tries, wire, buf, torn, ctxVars, serverVars>>

(* readAllWithContext: start the reader, then select on it and the context. *)
Spawn ==
    /\ Step("spawn")
    /\ helper' = "reading"
    /\ Advance
    /\ UNCHANGED <<call, tries, linkVars, ctx, deadline, serverVars>>

(* Mutant of Collect: does not look at the context.                        *)
CollectOnly ==
    /\ Step("collect")
    /\ \/ helper = "ok" /\ Advance /\ UNCHANGED conn
       \/ helper = "error" /\ Fail
    /\ UNCHANGED <<call, tries, wire, buf, torn, ctxVars, serverVars>>

Collect ==
    /\ Step("collect")
    /\ \/ ctx = "done" /\ Fail
       \/ helper = "ok" /\ Advance /\ UNCHANGED conn
       \/ helper = "error" /\ Fail
    /\ UNCHANGED <<call, tries, wire, buf, torn, ctxVars, serverVars>>

Close ==
    /\ Step("close")
    /\ conn' = "closed"
    /\ Advance
    /\ UNCHANGED <<call, tries, wire, buf, torn, ctxVars, serverVars>>

CallStep ==
    \/ Dial \/ Watch \/ Send \/ ReadOnce \/ ReadStatus \/ Message
    \/ ReadPayload \/ ReadReply \/ ReadRaw \/ ReadRest \/ Decode \/ Spawn
    \/ Collect \/ Close

-----------------------------------------------------------------------------
(* The second goroutine, and the context.                                  *)

(* The goroutine of a host command: <-ctx.Done(), then conn.Close.         *)
Watcher ==
    /\ helper = "watching" /\ ctx = "done"
    /\ helper' = "exit"
    /\ conn' = "closed"
    /\ UNCHANGED <<callVars, wire, buf, torn, ctx, deadline, serverVars>>

(* io.ReadAll in readAllWithContext; the result goes to a buffered channel. *)
Reader ==
    /\ helper = "reading"
    /\ \/ TakeAll /\ UNCHANGED helper
       \/ AtEnd(1) /\ helper' = "ok" /\ UNCHANGED <<buf, wire>>
       \/ NetError(1) /\ helper' = "error" /\ UNCHANGED <<buf, wire>>
    /\ UNCHANGED <<callVars, conn, torn, ctx, deadline, serverVars>>

Cancel ==
    /\ ctx = "live"
    /\ ctx' = "done"
    /\ UNCHANGED <<callVars, linkVars, deadline, helper, serverVars>>

(* The timer of the connection and the timer of the context are not the    *)
(* same: either may fire first.                                            *)
DeadlinePasses ==
    /\ deadline = "set"
    /\ deadline' = "past"
    /\ UNCHANGED <<callVars, linkVars, ctx, helper, serverVars>>

ContextExpires == deadline = "past" /\ Cancel

-----------------------------------------------------------------------------
(* The adb server.                                                         *)

Sends(units, left) ==
    /\ wire' = wire \o units
    /\ sent' = sent \o units
    /\ ans' = left
    /\ UNCHANGED <<callVars, conn, buf, torn, ctxVars>>

Answering(steps) == server = "up" /\ ans # <<>> /\ Head(ans) \in steps

ServerStatus ==
    /\ Answering({"head", "select", "status", "accept"})
    /\ \/ Sends(Status("OKAY"), Tail(ans))
       \/ Sends(Status("FAIL") \o Prefixed(1), <<>>)
    /\ UNCHANGED server

(* A payload, with its length.                                             *)
ServerPayload ==
    /\ Answering({"payload", "reply"})
    /\ \E n \in 0..MaxData : Sends(Prefixed(n), <<>>)
    /\ UNCHANGED server

(* A host service may also close without a payload (host:kill), or say in  *)
(* a second status how a wait ended.                                       *)
ServerSecondStatus ==
    /\ Answering({"reply"})
    /\ \E more \in {<<>>, Status("OKAY"), Status("FAIL") \o Prefixed(1)} :
         Sends(more, <<>>)
    /\ server' = "done"

(* Output, up to the end of the stream.                                    *)
ServerOutput ==
    /\ Answering({"rest", "spawn"})
    /\ \E n \in 0..MaxData : Sends(Data(n), <<>>)
    /\ server' = "done"

ServerStep == ServerStatus \/ ServerPayload \/ ServerSecondStatus \/ ServerOutput

(* The server answers no more, or its end of the connection goes away and  *)
(* takes with it any part of what is under way.                            *)
ServerHangs ==
    /\ server = "up" /\ ~Returned
    /\ server' = "silent"
    /\ UNCHANGED <<callVars, linkVars, ctxVars, ans, sent>>

ServerLost ==
    /\ server \in {"up", "done"} /\ conn = "open"
    /\ server' \in {"gone", "reset"}
    /\ \E n \in 0..Len(wire) : wire' = Take(n)
    /\ ans' = <<>>
    /\ UNCHANGED <<callVars, conn, buf, torn, ctxVars, sent>>

ClientStep ==
    \/ CallStep \/ Watcher \/ Reader \/ Cancel \/ DeadlinePasses
    \/ ServerStep \/ ServerHangs \/ ServerLost

(* The context of a function that takes none is context.Background().      *)
Contexts(c) == IF TakesContext(c) THEN {"background", "live"} ELSE {"background"}

(* The next call, on a connection of its own.                              *)
Begin(c, k) ==
    /\ Returned
    /\ call' = c /\ prog' = Program[c] /\ res' = "none" /\ tries' = 0
    /\ conn' = "none" /\ wire' = <<>> /\ buf' = <<>> /\ torn' = FALSE
    /\ ctx' = k /\ deadline' = "off" /\ helper' = "off"
    /\ server' = "up" /\ ans' = <<>> /\ sent' = <<>>

ClientInit ==
    /\ call \in Calls /\ ctx \in Contexts(call)
    /\ prog = Program[call] /\ res = "none" /\ tries = 0
    /\ conn = "none" /\ wire = <<>> /\ buf = <<>> /\ torn = FALSE
    /\ deadline = "off" /\ helper = "off"
    /\ server = "up" /\ ans = <<>> /\ sent = <<>>

ClientNext == ClientStep \/ \E c \in Calls : \E k \in Contexts(c) : Begin(c, k)

ClientSpec == ClientInit /\ [][ClientNext]_clientVars

-----------------------------------------------------------------------------
(* Properties.                                                             *)

StatusSteps == {"head", "select", "status", "accept"}
Count(seq, P(_)) == Cardinality({i \in 1..Len(seq) : P(seq[i])})

Refused == \E i \in 1..Len(sent) : sent[i].f = "FAIL"

(* What the server sent after the statuses and the length.  A host command *)
(* that was told FAIL in a second status takes it for a length that does   *)
(* not parse, and what follows it, the length and the message of the       *)
(* failure, for the reply.                                                 *)
Overhead == IF Refused THEN 4 ELSE Count(sent, LAMBDA u : u.f # "data")
Reply == SubSeq(sent, Overhead + 1, Len(sent))

(* Where a success may come with less: the connection was lost and the     *)
(* function takes the end of the stream for the end of the reply, or the   *)
(* deadline of the connection passed before that of the context.           *)
CutShort ==
    \/ Host(call) /\ (server \in {"gone", "reset"} \/ deadline = "past")
    \/ Streams(call) /\ server = "gone"

(* Success is what the server said: it answered OKAY to everything that    *)
(* was asked.  A host command has two exceptions.  Its status may have     *)
(* come in two pieces, because sendADBCommand reads it once and            *)
(* SendHostCommandContext takes half a FAIL for success.  And a FAIL in a  *)
(* second status is a success too, which shows only in its payload: that   *)
(* is not empty, unless it was cut short.                                  *)
SuccessTrue ==
    res = "ok" =>
      IF Host(call)
        THEN \/ torn
             \/ /\ sent[1].f = "OKAY"
                /\ Refused => buf # <<>> \/ CutShort
        ELSE /\ ~Refused
             /\ Count(sent, LAMBDA u : u.f = "OKAY" /\ u.n = 1)
                  = Count(Program[call], LAMBDA s : s \in StatusSteps)

(* A payload is the reply and nothing else: no status and no length in its *)
(* place, no byte of it skipped; and it is all of the reply, unless it was *)
(* cut short.  In particular no cancelled read is returned as a success.   *)
(* The payload of a host command that was refused in a second status is    *)
(* all that came behind this status.  Nothing is said of a host command    *)
(* whose status came in two pieces: it reads on from the second piece.     *)
ReplyWhole ==
    res = "ok" /\ ~torn =>
      /\ buf = SubSeq(Reply, 1, Len(buf))
      /\ buf = Reply \/ CutShort

(* A function that has returned has closed its connection, on every path,  *)
(* unless it succeeded and its caller has the connection now.              *)
NothingLeaks == Returned /\ conn = "open" => res = "ok" /\ Opens(call)

(* Once its context is done a host command returns, whatever the server    *)
(* does, and so does a command whose output is being read; and the second  *)
(* goroutine ends.  (Another call has another context.)                    *)
ContextReturns ==
    (ctx = "done" /\ (Host(call) \/ Step("collect")))
      ~> ((Returned \/ ctx # "done") /\ helper \notin {"watching", "reading"})

(* client_commands.go:48 "Network errors (timeout, connection closed)      *)
(* should propagate": a host command whose connection was closed before    *)
(* the reply was complete returns an error.                                *)
ClosedPropagates ==
    Host(call) /\ res = "ok" /\ ~torn => server \notin {"gone", "reset"} \/ buf = Reply

=============================================================================
