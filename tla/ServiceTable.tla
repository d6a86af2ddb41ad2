---------------------------- MODULE ServiceTable ----------------------------
(***************************************************************************)
(* How a connection names its services: tcpusb/rolling_counter.go and      *)
(* tcpusb/service_map.go as Socket.handleOpenPacket, the goroutines of the *)
(* services and Socket.End use them.  Ids wrap around, so an OPEN may draw *)
(* the id of a service that is still in the map.  What a service does      *)
(* while it is open is in Bridge.tla.                                      *)
(***************************************************************************)
EXTENDS Naturals, FiniteSets, Sequences

CONSTANTS
    Service,   \* the services the client opens, one per OPEN
    MaxID,     \* max of the RollingCounter, UINT32_MAX in the code
    None       \* no entry in the map

ASSUME MaxIDAssumption == MaxID \in Nat \ {0}
ASSUME NoneAssumption == None \notin Service

VARIABLES
    now,       \* RollingCounter.now
    services,  \* ServiceMap.services: the service under each id, or None
    count,     \* ServiceMap.count
    localID,   \* Service.localID of each service, 0 before it has one
    spc,       \* where each service is
    reader,    \* where Socket.Start is
    ended,     \* Socket.ended
    closer,    \* where the goroutine that calls Socket.End is
    drawn      \* the last ids the counter returned

vars == <<now, services, count, localID, spc, reader, ended, closer, drawn>>

ID == 1..MaxID

-----------------------------------------------------------------------------
(* RollingCounter.Next.                                                    *)

(* Mutant of NextID: skips a value at the wrap.                            *)
NextEarly(n) == IF n + 1 >= MaxID THEN 1 ELSE n + 1

NextID(n) == IF n >= MaxID THEN 1 ELSE n + 1

-----------------------------------------------------------------------------
(* Socket.Start: handle looks at s.ended, then handleOpenPacket draws an   *)
(* id, inserts the service and starts its goroutine.                       *)

Handle ==
    /\ reader = "read"
    /\ ~ended
    /\ \E s \in Service : spc[s] = "new"
    /\ reader' = "open"
    /\ UNCHANGED <<now, services, count, localID, spc, ended, closer, drawn>>

(* s.remoteID.Next(); an OPEN without a name fails after it drew its id.   *)
DrawID(s) ==
    /\ reader = "open"
    /\ spc[s] = "new"
    /\ now' = NextID(now)
    /\ drawn' = SubSeq(<<now'>> \o drawn, 1, IF Len(drawn) < MaxID THEN Len(drawn) + 1 ELSE MaxID)
    /\ \/ /\ reader' = "insert"
          /\ localID' = [localID EXCEPT ![s] = now']
          /\ spc' = [spc EXCEPT ![s] = "named"]
       \/ /\ reader' = "end"
          /\ UNCHANGED <<localID, spc>>
    /\ UNCHANGED <<services, count, ended, closer>>

(* Mutant of Insert: replaces the service that is in the map.              *)
InsertOver(s) ==
    /\ reader = "insert"
    /\ spc[s] = "named"
    /\ services' = [services EXCEPT ![localID[s]] = s]
    /\ count' = count + 1
    /\ spc' = [spc EXCEPT ![s] = "live"]
    /\ reader' = "read"
    /\ UNCHANGED <<now, localID, ended, closer, drawn>>

(* ServiceMap.Insert; ErrServiceExists makes Start return.                 *)
Insert(s) ==
    /\ reader = "insert"
    /\ spc[s] = "named"
    /\ IF services[localID[s]] # None
         THEN /\ spc' = [spc EXCEPT ![s] = "refused"]
              /\ reader' = "end"
              /\ UNCHANGED <<services, count>>
         ELSE /\ services' = [services EXCEPT ![localID[s]] = s]
              /\ count' = count + 1
              /\ spc' = [spc EXCEPT ![s] = "live"]
              /\ reader' = "read"
    /\ UNCHANGED <<now, localID, ended, closer, drawn>>

(* The client leaves, or sends what the socket refuses.                    *)
StartReturns ==
    /\ reader = "read"
    /\ reader' = "end"
    /\ UNCHANGED <<now, services, count, localID, spc, ended, closer, drawn>>

-----------------------------------------------------------------------------
(* Mutant of Remove: counts a removal also when the map has no entry.      *)
RemoveCounts(s) ==
    /\ spc[s] = "live"
    /\ services' = [services EXCEPT ![localID[s]] = None]
    /\ count' = count - 1
    /\ spc' = [spc EXCEPT ![s] = "removed"]
    /\ UNCHANGED <<now, localID, reader, ended, closer, drawn>>

(* ServiceMap.Remove, when the goroutine of s returns: drops whatever the  *)
(* map holds under the id of s.                                            *)
Remove(s) ==
    /\ spc[s] = "live"
    /\ services' = [services EXCEPT ![localID[s]] = None]
    /\ count' = IF services[localID[s]] # None THEN count - 1 ELSE count
    /\ spc' = [spc EXCEPT ![s] = "removed"]
    /\ UNCHANGED <<now, localID, reader, ended, closer, drawn>>

-----------------------------------------------------------------------------
(* Socket.End sets s.ended, and ServiceMap.End then ends the services and  *)
(* empties the map, by Reader when Start returns or by Closer.             *)

EndClears ==
    /\ services' = [i \in ID |-> None]
    /\ count' = 0

ReaderEnds ==
    /\ reader = "end"
    /\ reader' = IF ended THEN "done" ELSE "mapEnd"
    /\ ended' = TRUE
    /\ UNCHANGED <<now, services, count, localID, spc, closer, drawn>>

ReaderMapEnd ==
    /\ reader = "mapEnd"
    /\ EndClears
    /\ reader' = "done"
    /\ UNCHANGED <<now, localID, spc, ended, closer, drawn>>

CloserEnds ==
    /\ closer = "idle"
    /\ closer' = IF ended THEN "done" ELSE "mapEnd"
    /\ ended' = TRUE
    /\ UNCHANGED <<now, services, count, localID, spc, reader, drawn>>

CloserMapEnd ==
    /\ closer = "mapEnd"
    /\ EndClears
    /\ closer' = "done"
    /\ UNCHANGED <<now, localID, spc, reader, ended, drawn>>

Next ==
    \/ Handle \/ StartReturns \/ ReaderEnds \/ ReaderMapEnd
    \/ CloserEnds \/ CloserMapEnd
    \/ \E s \in Service : DrawID(s) \/ Insert(s) \/ Remove(s)

Init ==
    /\ now = 1
    /\ services = [i \in ID |-> None]
    /\ count = 0
    /\ localID = [s \in Service |-> 0]
    /\ spc = [s \in Service |-> "new"]
    /\ reader = "read"
    /\ ended = FALSE
    /\ closer = "idle"
    /\ drawn = <<>>

Spec == Init /\ [][Next]_vars

-----------------------------------------------------------------------------
(* Properties.                                                             *)

(* Every variable stays in its range.  A service that has an id never has  *)
(* zero, which on the wire stands for a failed open (service.go:65).       *)
TypeOK ==
    /\ now \in ID
    /\ services \in [ID -> Service \cup {None}]
    /\ count \in Nat
    /\ localID \in [Service -> 0..MaxID]
    /\ spc \in [Service -> {"new", "named", "refused", "live", "removed"}]
    /\ reader \in {"read", "open", "insert", "end", "mapEnd", "done"}
    /\ ended \in BOOLEAN
    /\ closer \in {"idle", "mapEnd", "done"}
    /\ drawn \in Seq(ID)
    /\ \A s \in Service : spc[s] # "new" => localID[s] \in ID

(* Until the socket ends, the map holds exactly the live services, each    *)
(* under its own id: no two of them share one, a packet reaches the        *)
(* service it names, and Remove drops the service it is called for, also   *)
(* after the ids have wrapped around.                                      *)
OwnEntry ==
    ~ended =>
      /\ \A s \in Service : spc[s] = "live" => services[localID[s]] = s
      /\ \A i \in ID : services[i] # None =>
           spc[services[i]] = "live" /\ localID[services[i]] = i

(* ServiceMap.count is the number of services in the map, through every    *)
(* order of Insert, Remove and End.                                        *)
CountExact == count = Cardinality({i \in ID : services[i] # None})

(* The counter returns every id once before it returns one again.          *)
NoEarlyReuse == \A m, n \in 1..Len(drawn) : drawn[m] = drawn[n] => m = n

=============================================================================
