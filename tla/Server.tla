------------------------------- MODULE Server -------------------------------
(***************************************************************************)
(* The life of a bridge: tcpusb/server.go as tcpusb/bridge.go runs it.     *)
(* StartWithServer runs Listen in a goroutine of its own, each accepted    *)
(* connection runs Socket.Start in another, and any number of callers may  *)
(* call Close.  A connection is seen here only as far as Server sees it:   *)
(* it runs until its peer leaves, its protocol fails or Socket.End closes  *)
(* it (Bridge.tla has the inside).                                         *)
(*                                                                         *)
(* Server.mu is never held across a blocking call: each critical section   *)
(* is one step.  connections is kept as a set; the slice's order only      *)
(* decides which connection Close ends first.                              *)
(***************************************************************************)
EXTENDS Naturals, FiniteSets

CONSTANTS
    Conn,      \* the TCP connections clients make
    Caller     \* the goroutines that call Close

VARIABLES
    lpc,         \* where Listen is
    spc,         \* where the goroutine of each accepted connection is
    cpc,         \* where each caller of Close is
    closed,      \* Server.closed
    listener,    \* Server.listener # nil
    sock,        \* the listening socket: "none", "open" or "closed"
    connections, \* Server.connections
    accepted,    \* the connection Listen is working on, as a set
    pending,     \* connections in the backlog of the listening socket
    ended,       \* Socket.ended of each connection
    connOpen,    \* conn.Close has not been called
    toEnd,       \* the copy of connections Close has still to go through
    ending,      \* the connection each caller of Close is ending, as a set
    found        \* the listener each caller of Close found is not nil

vars == <<lpc, spc, cpc, closed, listener, sock, connections, accepted,
          pending, ended, connOpen, toEnd, ending, found>>

-----------------------------------------------------------------------------
(* Server.Listen.                                                          *)

NetListen ==
    /\ lpc = "bind"
    /\ \/ lpc' = "store" /\ sock' = "open"
       \/ lpc' = "error" /\ UNCHANGED sock
    /\ UNCHANGED <<spc, cpc, closed, listener, connections, accepted, pending,
                   ended, connOpen, toEnd, ending, found>>

StoreListener ==
    /\ lpc = "store"
    /\ listener' = TRUE
    /\ lpc' = "accept"
    /\ UNCHANGED <<spc, cpc, closed, sock, connections, accepted, pending,
                   ended, connOpen, toEnd, ending, found>>

Accept ==
    /\ lpc = "accept"
    /\ sock = "open"
    /\ \E c \in pending : accepted' = {c} /\ pending' = pending \ {c}
    /\ lpc' = "track"
    /\ UNCHANGED <<spc, cpc, closed, listener, sock, connections, ended,
                   connOpen, toEnd, ending, found>>

(* Accept fails for good on a closed listener; other errors are transient. *)
AcceptError ==
    /\ lpc = "accept"
    /\ lpc' = "failed"
    /\ UNCHANGED <<spc, cpc, closed, listener, sock, connections, accepted,
                   pending, ended, connOpen, toEnd, ending, found>>

(* Mutant of CheckClosed: returns on every Accept error.                   *)
ReturnOnError ==
    /\ lpc = "failed"
    /\ lpc' = "done"
    /\ UNCHANGED <<spc, cpc, closed, listener, sock, connections, accepted,
                   pending, ended, connOpen, toEnd, ending, found>>

CheckClosed ==
    /\ lpc = "failed"
    /\ lpc' = IF closed THEN "done" ELSE "accept"
    /\ UNCHANGED <<spc, cpc, closed, listener, sock, connections, accepted,
                   pending, ended, connOpen, toEnd, ending, found>>

(* NewSocket, append to connections, and start the goroutine.              *)
Track ==
    /\ lpc = "track"
    /\ connections' = connections \cup accepted
    /\ spc' = [c \in Conn |-> IF c \in accepted THEN "run" ELSE spc[c]]
    /\ accepted' = {}
    /\ lpc' = "accept"
    /\ UNCHANGED <<cpc, closed, listener, sock, pending, ended, connOpen,
                   toEnd, ending, found>>

-----------------------------------------------------------------------------
(* The goroutine of connection c: Socket.Start with its deferred End, then *)
(* the deferred function of Listen.                                        *)

(* Mutant of StartReturns: the deferred End does not look at ended.        *)
StartAlwaysEnds(c) ==
    /\ spc[c] = "run"
    /\ spc' = [spc EXCEPT ![c] = "closing"]
    /\ ended' = [ended EXCEPT ![c] = TRUE]
    /\ UNCHANGED <<lpc, cpc, closed, listener, sock, connections, accepted,
                   pending, connOpen, toEnd, ending, found>>

(* Start returns when the connection is closed, by Close or by the peer,   *)
(* or on a packet that the socket refuses.                                 *)
StartReturns(c) ==
    /\ spc[c] = "run"
    /\ spc' = [spc EXCEPT ![c] = IF ended[c] THEN "untrack" ELSE "closing"]
    /\ ended' = [ended EXCEPT ![c] = TRUE]
    /\ UNCHANGED <<lpc, cpc, closed, listener, sock, connections, accepted,
                   pending, connOpen, toEnd, ending, found>>

(* The rest of that End.  It comes to conn.Close only after services.End,  *)
(* which may wait for ever (Bridge.tla): the step need not happen.         *)
StartEnds(c) ==
    /\ spc[c] = "closing"
    /\ spc' = [spc EXCEPT ![c] = "untrack"]
    /\ connOpen' = [connOpen EXCEPT ![c] = FALSE]
    /\ UNCHANGED <<lpc, cpc, closed, listener, sock, connections, accepted,
                   pending, ended, toEnd, ending, found>>

(* Mutant of Untrack: the goroutine returns without the deferred removal.  *)
UntrackNot(c) ==
    /\ spc[c] = "untrack"
    /\ spc' = [spc EXCEPT ![c] = "exit"]
    /\ UNCHANGED <<lpc, cpc, closed, listener, sock, connections, accepted,
                   pending, ended, connOpen, toEnd, ending, found>>

Untrack(c) ==
    /\ spc[c] = "untrack"
    /\ spc' = [spc EXCEPT ![c] = "exit"]
    /\ connections' = IF closed THEN connections ELSE connections \ {c}
    /\ UNCHANGED <<lpc, cpc, closed, listener, sock, accepted, pending, ended,
                   connOpen, toEnd, ending, found>>

-----------------------------------------------------------------------------
(* Server.Close, called by k.                                              *)

(* Mutant of CloseLock: clears connections before it copies them.          *)
CloseForgets(k) ==
    /\ cpc[k] = "idle"
    /\ closed' = TRUE
    /\ connections' = {}
    /\ found' = [found EXCEPT ![k] = listener]
    /\ cpc' = [cpc EXCEPT ![k] = IF closed THEN "done" ELSE "endNext"]
    /\ UNCHANGED <<lpc, spc, listener, sock, accepted, pending, ended, connOpen,
                   toEnd, ending>>

CloseLock(k) ==
    /\ cpc[k] = "idle"
    /\ IF closed
         THEN /\ cpc' = [cpc EXCEPT ![k] = "done"]
              /\ UNCHANGED <<closed, connections, toEnd, found>>
         ELSE /\ cpc' = [cpc EXCEPT ![k] = "endNext"]
              /\ closed' = TRUE
              /\ toEnd' = [toEnd EXCEPT ![k] = connections]
              /\ connections' = {}
              /\ found' = [found EXCEPT ![k] = listener]
    /\ UNCHANGED <<lpc, spc, listener, sock, accepted, pending, ended, connOpen,
                   ending>>

(* Mutant of EndNext: leaves the loop at a connection that has ended.      *)
EndNextReturns(k) ==
    /\ cpc[k] = "endNext"
    /\ \E c \in toEnd[k] :
         /\ toEnd' = [toEnd EXCEPT ![k] = IF ended[c] THEN {} ELSE @ \ {c}]
         /\ ending' = [ending EXCEPT ![k] = IF ended[c] THEN {} ELSE {c}]
         /\ cpc' = [cpc EXCEPT ![k] = IF ended[c] THEN "endNext" ELSE "closing"]
         /\ ended' = [ended EXCEPT ![c] = TRUE]
    /\ UNCHANGED <<lpc, spc, closed, listener, sock, connections, accepted,
                   pending, connOpen, found>>

(* conn.End() for the next connection, in two steps as in Start.           *)
EndNext(k) ==
    /\ cpc[k] = "endNext"
    /\ \E c \in toEnd[k] :
         /\ toEnd' = [toEnd EXCEPT ![k] = @ \ {c}]
         /\ ending' = [ending EXCEPT ![k] = IF ended[c] THEN {} ELSE {c}]
         /\ cpc' = [cpc EXCEPT ![k] = IF ended[c] THEN "endNext" ELSE "closing"]
         /\ ended' = [ended EXCEPT ![c] = TRUE]
    /\ UNCHANGED <<lpc, spc, closed, listener, sock, connections, accepted,
                   pending, connOpen, found>>

(* The rest of that End; like StartEnds, it need not happen.               *)
EndCloses(k) ==
    /\ cpc[k] = "closing"
    /\ cpc' = [cpc EXCEPT ![k] = "endNext"]
    /\ connOpen' = [c \in Conn |-> c \notin ending[k] /\ connOpen[c]]
    /\ ending' = [ending EXCEPT ![k] = {}]
    /\ UNCHANGED <<lpc, spc, closed, listener, sock, connections, accepted,
                   pending, ended, toEnd, found>>

CloseListener(k) ==
    /\ cpc[k] = "endNext"
    /\ toEnd[k] = {}
    /\ cpc' = [cpc EXCEPT ![k] = "done"]
    /\ sock' = IF found[k] THEN "closed" ELSE sock
    /\ pending' = IF found[k] THEN {} ELSE pending
    /\ UNCHANGED <<lpc, spc, closed, listener, connections, accepted, ended,
                   connOpen, toEnd, ending, found>>

-----------------------------------------------------------------------------
(* A client connects: the kernel queues the connection.                    *)
Connect(c) ==
    /\ sock = "open"
    /\ spc[c] = "off"
    /\ c \notin pending \cup accepted
    /\ pending' = pending \cup {c}
    /\ UNCHANGED <<lpc, spc, cpc, closed, listener, sock, connections, accepted,
                   ended, connOpen, toEnd, ending, found>>

Listen == NetListen \/ StoreListener \/ Accept \/ CheckClosed \/ Track

CloseStep(k) == CloseLock(k) \/ EndNext(k) \/ EndCloses(k) \/ CloseListener(k)

(* Nothing is left to do: every goroutine has returned.                    *)
Stopped ==
    /\ lpc \in {"done", "error"}
    /\ \A c \in Conn : spc[c] \in {"off", "exit"}
    /\ \A k \in Caller : cpc[k] \in {"idle", "done"}

Next ==
    \/ Listen \/ AcceptError
    \/ \E c \in Conn : StartReturns(c) \/ StartEnds(c) \/ Untrack(c) \/ Connect(c)
    \/ \E k \in Caller : CloseStep(k)
    \/ Stopped /\ UNCHANGED vars

Init ==
    /\ lpc = "bind"
    /\ spc = [c \in Conn |-> "off"]
    /\ cpc = [k \in Caller |-> "idle"]
    /\ closed = FALSE
    /\ listener = FALSE
    /\ sock = "none"
    /\ connections = {}
    /\ accepted = {}
    /\ pending = {}
    /\ ended = [c \in Conn |-> FALSE]
    /\ connOpen = [c \in Conn |-> TRUE]
    /\ toEnd = [k \in Caller |-> {}]
    /\ ending = [k \in Caller |-> {}]
    /\ found = [k \in Caller |-> FALSE]

Spec == Init /\ [][Next]_vars

(* The goroutines run.  Accept fails for certain only on a closed          *)
(* listener, and its other errors pass: on an open one it does not fail    *)
(* for ever.  Start is certain to return only on a closed connection.      *)
(* Nobody need call Close, and a Socket.End that has to end services need  *)
(* not return (StartEnds, EndCloses).                                      *)
FairSpec ==
    /\ Spec
    /\ WF_vars(Listen)
    /\ SF_vars(Accept)
    /\ WF_vars(sock = "closed" /\ AcceptError)
    /\ \A c \in Conn : /\ WF_vars(~connOpen[c] /\ StartReturns(c))
                       /\ WF_vars(Untrack(c))
    /\ \A k \in Caller : WF_vars(EndNext(k) \/ CloseListener(k))

-----------------------------------------------------------------------------
(* Properties.                                                             *)

(* Every variable stays in its range; Listen works on one connection at a  *)
(* time, from Accept until it has handed it to its goroutine.              *)
TypeOK ==
    /\ lpc \in {"bind", "store", "accept", "failed", "track", "done", "error"}
    /\ spc \in [Conn -> {"off", "run", "closing", "untrack", "exit"}]
    /\ cpc \in [Caller -> {"idle", "endNext", "closing", "done"}]
    /\ closed \in BOOLEAN /\ listener \in BOOLEAN
    /\ sock \in {"none", "open", "closed"}
    /\ connections \subseteq Conn /\ accepted \subseteq Conn /\ pending \subseteq Conn
    /\ ended \in [Conn -> BOOLEAN] /\ connOpen \in [Conn -> BOOLEAN]
    /\ toEnd \in [Caller -> SUBSET Conn]
    /\ ending \in [Caller -> SUBSET Conn]
    /\ found \in [Caller -> BOOLEAN]
    /\ \A c, d \in accepted : c = d
    /\ accepted # {} <=> lpc = "track"

(* Until Close, Server.connections holds exactly the connections whose     *)
(* goroutine has not left: Close misses none of them and none is kept      *)
(* after it is gone.                                                       *)
TracksRunning ==
    ~closed => connections = {c \in Conn : spc[c] \notin {"off", "exit"}}

(* After Close, a connection is open only while some goroutine is bound to *)
(* close it (a caller of Close that has not come to it or is ending it, or *)
(* its own), except one that Listen appended after Close took its copy.    *)
NoneForgotten ==
    \A c \in Conn :
      closed /\ connOpen[c] /\ spc[c] # "off" =>
        \/ c \in connections
        \/ \E k \in Caller : c \in toEnd[k] \cup ending[k]
        \/ spc[c] = "closing"

(* Only one goroutine closes a connection: conn.Close runs once.           *)
ClosedOnce ==
    \A c \in Conn :
      /\ \A k \in Caller : c \in ending[k] =>
           /\ connOpen[c]
           /\ spc[c] # "closing"
           /\ \A m \in Caller : c \in ending[m] => m = k
      /\ spc[c] = "closing" => connOpen[c]

(* A client in the backlog gets its goroutine, whatever transient errors   *)
(* Accept returns before or between, unless the server is closed.          *)
BacklogServed ==
    \A c \in Conn : c \in pending ~> (spc[c] # "off" \/ closed)

(* Close waits in the End of one connection for ever.                      *)
CloseBlocks == \E k \in Caller : cpc[k] = "closing"

(* A Close that finds the listener stops Listen, and every connection that *)
(* it finds is closed and its goroutine leaves.  Only a Socket.End that    *)
(* never returns prevents it: one that Close itself is in leaves the       *)
(* listener and the connections after it open, one that the connection's   *)
(* own goroutine is in leaves just this connection open.                   *)
CloseStops ==
    /\ (\E k \in Caller : found[k]) ~> (lpc = "done" \/ []CloseBlocks)
    /\ \A c \in Conn : (closed /\ \E k \in Caller : c \in toEnd[k])
                         ~> \/ spc[c] = "exit" /\ ~connOpen[c]
                            \/ [](spc[c] = "closing")
                            \/ []CloseBlocks

-----------------------------------------------------------------------------
(* docs/USAGE.md:197 says of Server.Close that it closes the server and    *)
(* all connections.                                                        *)

(* After Close the server does not listen any more.                        *)
CloseStopsListening == closed ~> [](sock # "open")

(* After a Close that finds the listener, every accepted connection ends.  *)
CloseEndsConnections ==
    (\E k \in Caller : found[k]) ~> \A c \in Conn : spc[c] # "off" => ended[c]

=============================================================================
