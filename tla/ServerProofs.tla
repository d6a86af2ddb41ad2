---------------------------- MODULE ServerProofs ----------------------------
(***************************************************************************)
(* The safety properties of Server, for any connections and any callers of *)
(* Close.  Bookkeeping strengthens them to an inductive invariant: a       *)
(* connection that is ended but still open has exactly one goroutine about *)
(* to close it, and one that runs is not yet ended or is on its way out.   *)
(***************************************************************************)
EXTENDS Server, TLAPS

(* Zenon proves most leaves; those beyond it name the SMT solver.          *)
USE Zenon

(* c is ended but some goroutine has still to call conn.Close.             *)
Closing(c) == spc[c] = "closing" \/ \E k \in Caller : c \in ending[k]

Book(c) ==
    /\ spc[c] = "off" => ~ended[c] /\ connOpen[c]
    /\ c \in pending \cup accepted => spc[c] = "off"
    /\ spc[c] \in {"closing", "untrack", "exit"} => ended[c]
    /\ ~ended[c] => connOpen[c]
    /\ ended[c] /\ connOpen[c] <=> Closing(c)
    /\ closed /\ ~ended[c] /\ spc[c] # "off" =>
         c \in connections \/ \E k \in Caller : c \in toEnd[k]
    /\ \A k \in Caller : c \in toEnd[k] => spc[c] # "off"

Bookkeeping ==
    /\ \A c \in Conn : Book(c)
    /\ pending \cap accepted = {}
    /\ \A k \in Caller : cpc[k] # "closing" => ending[k] = {}

Inv == TypeOK /\ Bookkeeping /\ TracksRunning /\ ClosedOnce

(* Every step keeps the types.                                             *)
LEMMA TypeNext == TypeOK /\ [Next]_vars => TypeOK'
<1> SUFFICES ASSUME TypeOK, [Next]_vars PROVE TypeOK'
  OBVIOUS
<1> USE DEF TypeOK
<1>1. CASE NetListen
  BY <1>1 DEF NetListen
<1>2. CASE StoreListener
  BY <1>2 DEF StoreListener
<1>3. CASE Accept
  BY <1>3 DEF Accept
<1>4. CASE AcceptError
  BY <1>4 DEF AcceptError
<1>5. CASE CheckClosed
  BY <1>5 DEF CheckClosed
<1>6. CASE Track
  BY <1>6 DEF Track
<1>7. ASSUME NEW c \in Conn, StartReturns(c) PROVE TypeOK'
  BY <1>7 DEF StartReturns
<1>8. ASSUME NEW c \in Conn, StartEnds(c) PROVE TypeOK'
  BY <1>8 DEF StartEnds
<1>9. ASSUME NEW c \in Conn, Untrack(c) PROVE TypeOK'
  BY <1>9 DEF Untrack
<1>10. ASSUME NEW c \in Conn, Connect(c) PROVE TypeOK'
  BY <1>10 DEF Connect
<1>11. ASSUME NEW k \in Caller, CloseLock(k) PROVE TypeOK'
  <2>1. CASE closed
    BY <1>11, <2>1 DEF CloseLock
  <2>2. CASE ~closed
    <3>1. found' \in [Caller -> BOOLEAN]
      BY <1>11, <2>2 DEF CloseLock
    <3> QED
      BY <1>11, <2>2, <3>1, SMT DEF CloseLock
  <2> QED
    BY <2>1, <2>2
<1>12. ASSUME NEW k \in Caller, EndNext(k) PROVE TypeOK'
  BY <1>12, SMT DEF EndNext
<1>13. ASSUME NEW k \in Caller, EndCloses(k) PROVE TypeOK'
  BY <1>13 DEF EndCloses
<1>14. ASSUME NEW k \in Caller, CloseListener(k) PROVE TypeOK'
  BY <1>14 DEF CloseListener
<1>15. CASE UNCHANGED vars
  BY <1>15 DEF vars
<1> QED
  BY <1>1, <1>2, <1>3, <1>4, <1>5, <1>6, <1>7, <1>8, <1>9, <1>10, <1>11,
     <1>12, <1>13, <1>14, <1>15 DEF Next, Listen, CloseStep

(* Steps of Listen and of clients leave every End as it is.                *)
LEMMA ListenStep ==
    ASSUME Inv, TypeOK',
           NetListen \/ StoreListener \/ Accept \/ AcceptError \/ CheckClosed
             \/ Track \/ \E c \in Conn : Connect(c)
    PROVE  Inv'
<1>1. UNCHANGED <<ended, connOpen, toEnd, ending, closed, cpc>>
  BY DEF NetListen, StoreListener, Accept, AcceptError, CheckClosed, Track, Connect
<1>2. CASE Track
  <2>1. \A c \in accepted : spc[c] = "off" /\ spc'[c] = "run" /\ c \in connections'
    BY <1>2 DEF Track, Inv, TypeOK, Bookkeeping, Book
  <2>2. \A c \in Conn : c \notin accepted => /\ spc'[c] = spc[c]
                                             /\ c \in connections' <=> c \in connections
    BY <1>2 DEF Track, Inv, TypeOK
  <2>3. accepted' = {} /\ pending' = pending
    BY <1>2 DEF Track
  <2>4. \A c \in Conn : Closing(c)' <=> Closing(c)
    BY <1>1, <2>1, <2>2 DEF Closing
  <2>5. Bookkeeping'
    BY <1>1, <2>1, <2>2, <2>3, <2>4 DEF Bookkeeping, Book, Inv
  <2>6. TracksRunning'
    BY <1>1, <2>1, <2>2, SMT DEF TracksRunning, Inv, TypeOK
  <2>7. ClosedOnce'
    BY <1>1, <2>1, <2>2 DEF ClosedOnce, Inv
  <2> QED
    BY <2>5, <2>6, <2>7 DEF Inv
<1>3. CASE ~Track
  <2>1. UNCHANGED <<spc, connections>>
    BY <1>3 DEF NetListen, StoreListener, Accept, AcceptError, CheckClosed, Connect
  <2>2. \A c \in Conn : Closing(c)' <=> Closing(c)
    BY <1>1, <2>1 DEF Closing
  <2>3. /\ \A c \in Conn : c \in pending' \cup accepted' => spc[c] = "off"
        /\ pending' \cap accepted' = {}
    BY <1>3, SMT DEF Inv, TypeOK, Bookkeeping, Book, NetListen, StoreListener, Accept,
                AcceptError, CheckClosed, Connect
  <2> QED
    BY <1>1, <2>1, <2>2, <2>3 DEF Inv, Bookkeeping, Book, TracksRunning, ClosedOnce
<1> QED
  BY <1>2, <1>3

(* Start's own End: it closes the connection only if it found ended unset. *)
LEMMA StartStep ==
    ASSUME Inv, TypeOK', NEW c \in Conn,
           StartReturns(c) \/ StartEnds(c) \/ Untrack(c)
    PROVE  Inv'
<1>1. UNCHANGED <<accepted, pending, toEnd, ending, closed, cpc>>
  BY DEF StartReturns, StartEnds, Untrack
<1>2. \A d \in Conn \ {c} : /\ spc'[d] = spc[d]
                            /\ ended'[d] = ended[d]
                            /\ connOpen'[d] = connOpen[d]
                            /\ d \in connections' <=> d \in connections
  BY SMT DEF StartReturns, StartEnds, Untrack, Inv, TypeOK
<1>3. \A d \in Conn \ {c} : Closing(d)' <=> Closing(d)
  BY <1>1, <1>2 DEF Closing
<1>4. spc[c] # "off" /\ spc'[c] # "off" /\ c \notin pending \cup accepted
  BY SMT DEF StartReturns, StartEnds, Untrack, Inv, TypeOK, Bookkeeping, Book
<1>5. CASE StartReturns(c)
  <2>1. /\ spc[c] = "run" /\ ended'[c] /\ connOpen' = connOpen
        /\ connections' = connections
        /\ spc'[c] = IF ended[c] THEN "untrack" ELSE "closing"
    BY <1>5, SMT DEF StartReturns, Inv, TypeOK
  <2>2. connOpen'[c] <=> Closing(c)'
    BY <1>1, <2>1 DEF Closing, Inv, Bookkeeping, Book
  <2>3. Bookkeeping'
    BY <1>1, <1>2, <1>3, <1>4, <2>1, <2>2, SMT DEF Bookkeeping, Book, Inv
  <2>4. TracksRunning' /\ ClosedOnce'
    BY <1>1, <1>2, <2>1, SMT DEF TracksRunning, ClosedOnce, Closing, Bookkeeping, Book, Inv
  <2> QED
    BY <2>3, <2>4 DEF Inv
<1>6. CASE StartEnds(c)
  <2>1. /\ spc[c] = "closing" /\ spc'[c] = "untrack" /\ ended' = ended
        /\ ~connOpen'[c] /\ connections' = connections
    BY <1>6, SMT DEF StartEnds, Inv, TypeOK
  <2>2. ended[c] /\ \A k \in Caller : c \notin ending[k]
    BY <2>1 DEF Inv, Bookkeeping, Book, ClosedOnce
  <2>3. ~Closing(c)'
    BY <1>1, <2>1, <2>2 DEF Closing
  <2>4. Bookkeeping'
    BY <1>1, <1>2, <1>3, <1>4, <2>1, <2>2, <2>3 DEF Bookkeeping, Book, Inv
  <2>5. TracksRunning' /\ ClosedOnce'
    BY <1>1, <1>2, <2>1, <2>2 DEF TracksRunning, ClosedOnce, Inv
  <2> QED
    BY <2>4, <2>5 DEF Inv
<1>7. CASE Untrack(c)
  <2>1. /\ spc[c] = "untrack" /\ spc'[c] = "exit" /\ UNCHANGED <<ended, connOpen>>
        /\ c \in connections' => closed
    BY <1>7, SMT DEF Untrack, Inv, TypeOK
  <2>2. Closing(c)' <=> Closing(c)
    BY <1>1, <2>1 DEF Closing
  <2>3. Bookkeeping'
    BY <1>1, <1>2, <1>3, <1>4, <2>1, <2>2 DEF Bookkeeping, Book, Inv
  <2>4. TracksRunning' /\ ClosedOnce'
    BY <1>1, <1>2, <2>1, SMT DEF TracksRunning, ClosedOnce, Inv, TypeOK
  <2> QED
    BY <2>3, <2>4 DEF Inv
<1> QED
  BY <1>5, <1>6, <1>7

(* The first Close copies every connection that runs; each End it calls    *)
(* closes the connection only if it found ended unset.                     *)
LEMMA CloseStepKeeps ==
    ASSUME Inv, TypeOK', NEW k \in Caller, CloseStep(k)
    PROVE  Inv'
<1>1. UNCHANGED <<spc, accepted>>
  BY DEF CloseStep, CloseLock, EndNext, EndCloses, CloseListener
<1>2. CASE CloseLock(k)
  <2>1. UNCHANGED <<ended, connOpen, ending, pending>>
    BY <1>2 DEF CloseLock
  <2>2. \A c \in Conn : Closing(c)' <=> Closing(c)
    BY <1>1, <2>1 DEF Closing
  <2>3. \A m \in Caller : cpc'[m] # "closing" => ending[m] = {}
    BY <1>2, SMT DEF CloseLock, Inv, TypeOK, Bookkeeping
  <2>4. CASE closed
    BY <1>1, <1>2, <2>1, <2>2, <2>3, <2>4
       DEF CloseLock, Inv, Bookkeeping, Book, TracksRunning, ClosedOnce
  <2>5. CASE ~closed
    <3>1. closed' /\ toEnd'[k] = connections
          /\ \A m \in Caller \ {k} : toEnd'[m] = toEnd[m]
      BY <1>2, <2>5, SMT DEF CloseLock, Inv, TypeOK
    <3>2. \A c \in Conn : c \in connections <=> spc[c] \notin {"off", "exit"}
      BY <2>5 DEF Inv, TracksRunning
    <3>3. \A c \in Conn : Book(c)'
      BY <1>1, <2>1, <2>2, <3>1, <3>2 DEF Inv, Bookkeeping, Book
    <3> QED
      BY <1>1, <2>1, <2>3, <3>1, <3>3 DEF Inv, Bookkeeping, TracksRunning, ClosedOnce
  <2> QED
    BY <2>4, <2>5
<1>3. CASE EndNext(k)
  <2>1. PICK c \in toEnd[k] :
          /\ toEnd' = [toEnd EXCEPT ![k] = @ \ {c}]
          /\ ending' = [ending EXCEPT ![k] = IF ended[c] THEN {} ELSE {c}]
          /\ cpc' = [cpc EXCEPT ![k] = IF ended[c] THEN "endNext" ELSE "closing"]
          /\ ended' = [ended EXCEPT ![c] = TRUE]
    BY <1>3 DEF EndNext
  <2>2. /\ UNCHANGED <<closed, connections, pending, connOpen>>
        /\ cpc[k] = "endNext" /\ ending[k] = {}
    BY <1>3 DEF EndNext, Inv, Bookkeeping
  <2>3. c \in Conn /\ spc[c] # "off" /\ c \notin pending \cup accepted
    BY DEF Inv, TypeOK, Bookkeeping, Book
  <2>4. /\ ending'[k] = IF ended[c] THEN {} ELSE {c}
        /\ \A m \in Caller \ {k} : ending'[m] = ending[m] /\ toEnd'[m] = toEnd[m]
                                   /\ cpc'[m] = cpc[m]
        /\ toEnd'[k] = toEnd[k] \ {c}
        /\ ended'[c] /\ \A d \in Conn \ {c} : ended'[d] = ended[d]
        /\ cpc'[k] = IF ended[c] THEN "endNext" ELSE "closing"
    BY <2>1, <2>3, SMT DEF Inv, TypeOK
  <2>5. \A d \in Conn \ {c} : Closing(d)' <=> Closing(d)
    BY <1>1, <2>2, <2>4 DEF Closing
  <2>6. connOpen[c] <=> Closing(c)'
    BY <1>1, <2>2, <2>3, <2>4 DEF Closing, Inv, Bookkeeping, Book
  <2>7. \A d \in Conn : Book(d)'
    BY <1>1, <2>2, <2>3, <2>4, <2>5, <2>6, SMT DEF Inv, Bookkeeping, Book
  <2>8. ClosedOnce'
    <3>1. ~ended[c] => /\ connOpen[c] /\ spc[c] # "closing"
                       /\ \A m \in Caller : c \notin ending[m]
      BY <2>3 DEF Inv, Bookkeeping, Book, Closing
    <3> QED
      BY <1>1, <2>2, <2>4, <3>1, SMT DEF Inv, ClosedOnce
  <2> QED
    BY <1>1, <2>2, <2>4, <2>7, <2>8 DEF Inv, Bookkeeping, TracksRunning
<1>4. CASE EndCloses(k)
  <2>1. /\ UNCHANGED <<closed, connections, pending, ended, toEnd>>
        /\ ending'[k] = {}
        /\ \A m \in Caller \ {k} : ending'[m] = ending[m] /\ cpc'[m] = cpc[m]
        /\ \A c \in Conn : connOpen'[c] <=> (c \notin ending[k] /\ connOpen[c])
    BY <1>4, ZenonT(60) DEF EndCloses, Inv, TypeOK
  <2>2. \A c \in ending[k] : /\ c \in Conn /\ ended[c] /\ ~Closing(c)'
                             /\ \A m \in Caller \ {k} : c \notin ending[m]
                             /\ spc[c] # "off"
    BY <1>1, <2>1, SMT DEF Closing, Inv, TypeOK, Bookkeeping, Book, ClosedOnce
  <2>3. \A c \in Conn \ ending[k] : Closing(c)' <=> Closing(c)
    BY <1>1, <2>1 DEF Closing
  <2>4. \A c \in Conn : Book(c)'
    BY <1>1, <2>1, <2>2, <2>3 DEF Inv, Bookkeeping, Book
  <2>5. ClosedOnce'
    BY <1>1, <2>1, <2>2 DEF Inv, ClosedOnce
  <2> QED
    BY <1>1, <2>1, <2>4, <2>5 DEF Inv, Bookkeeping, TracksRunning
<1>5. CASE CloseListener(k)
  <2>1. /\ UNCHANGED <<closed, connections, ended, connOpen, toEnd, ending>>
        /\ pending' \subseteq pending
        /\ \A m \in Caller : cpc'[m] # "closing" => ending[m] = {}
    BY <1>5 DEF CloseListener, Inv, TypeOK, Bookkeeping
  <2>2. \A c \in Conn : Closing(c)' <=> Closing(c)
    BY <1>1, <2>1 DEF Closing
  <2> QED
    BY <1>1, <2>1, <2>2 DEF Inv, Bookkeeping, Book, TracksRunning, ClosedOnce
<1> QED
  BY <1>2, <1>3, <1>4, <1>5 DEF CloseStep

(* Inv is inductive.                                                       *)
LEMMA InvInductive == Spec => []Inv
<1>1. Init => Inv
  BY ZenonT(60) DEF Init, Inv, TypeOK, Bookkeeping, Book, Closing, TracksRunning, ClosedOnce
<1>2. Inv /\ [Next]_vars => Inv'
  <2> SUFFICES ASSUME Inv, [Next]_vars PROVE Inv'
    OBVIOUS
  <2>1. TypeOK'
    BY TypeNext DEF Inv
  <2>2. CASE UNCHANGED vars
    BY <2>2, SMT DEF vars, Inv, TypeOK, Bookkeeping, Book, Closing, TracksRunning, ClosedOnce
  <2> QED
    BY <2>1, <2>2, ListenStep, StartStep, CloseStepKeeps DEF Next, Listen
<1> QED
  BY <1>1, <1>2, PTL DEF Spec

(* Server.connections is exact until Close, for any number of connections  *)
(* and of callers of Close.                                                *)
THEOREM TracksConnections == Spec => []TracksRunning
<1>1. Inv => TracksRunning
  BY DEF Inv
<1> QED
  BY <1>1, InvInductive, PTL

(* After Close no connection is left without a goroutine that will close   *)
(* it, but for those that Listen appends afterwards.                       *)
THEOREM CloseForgetsNone == Spec => []NoneForgotten
<1>1. Inv => NoneForgotten
  BY DEF Inv, Bookkeeping, Book, Closing, NoneForgotten
<1> QED
  BY <1>1, InvInductive, PTL

(* However the Ends of Start and of Close interleave, one of them closes   *)
(* the connection.                                                         *)
THEOREM OneEndCloses == Spec => []ClosedOnce
<1>1. Inv => ClosedOnce
  BY DEF Inv
<1> QED
  BY <1>1, InvInductive, PTL

=============================================================================
