------------------------- MODULE ServiceTableProofs -------------------------
(***************************************************************************)
(* The invariants of ServiceTable for any set of services and any size of  *)
(* the id space: TypeOK and OwnEntry are inductive together, and so is     *)
(* CountExact on top of them.                                              *)
(***************************************************************************)
EXTENDS ServiceTable, FiniteSetTheorems, TLAPS

(* The counter stays within the ids, so it never returns zero.             *)
LEMMA NextInRange == \A n \in ID : NextID(n) \in ID
BY MaxIDAssumption DEF NextID, ID

(* Keeping only the newest of the drawn ids leaves a sequence of ids.      *)
LEMMA DrawnType ==
    ASSUME NEW d \in Seq(ID), NEW x \in ID
    PROVE  SubSeq(<<x>> \o d, 1, IF Len(d) < MaxID THEN Len(d) + 1 ELSE MaxID) \in Seq(ID)
<1>1. <<x>> \o d \in Seq(ID) /\ Len(<<x>> \o d) = Len(d) + 1
  OBVIOUS
<1>2. (IF Len(d) < MaxID THEN Len(d) + 1 ELSE MaxID) \in 1..(Len(d) + 1)
  BY MaxIDAssumption
<1> QED
  BY <1>1, <1>2

(* The ids in use.                                                         *)
Used == {i \in ID : services[i] # None}

(* There are finitely many ids in use.                                     *)
LEMMA UsedFinite == IsFiniteSet(Used) /\ Cardinality(Used) \in Nat
<1>1. IsFiniteSet(ID)
  BY FS_Interval, MaxIDAssumption DEF ID
<1> QED
  BY <1>1, FS_Subset, FS_CardinalityType DEF Used

(* The map is emptied only after the socket has ended.                     *)
EndedFirst == reader = "mapEnd" \/ closer = "mapEnd" => ended

Inv == TypeOK /\ OwnEntry /\ CountExact /\ EndedFirst

(* A step that leaves the map alone keeps CountExact.                      *)
LEMMA CountSame ==
    ASSUME CountExact, UNCHANGED <<services, count>>
    PROVE  CountExact'
BY DEF CountExact

(* Emptying the map resets count.                                          *)
LEMMA CountCleared ==
    ASSUME EndClears
    PROVE  CountExact' /\ count' \in Nat
<1>1. {i \in ID : services'[i] # None} = {}
  BY DEF EndClears
<1> QED
  BY <1>1, FS_EmptySet DEF EndClears, CountExact

(* Insert counts the entry it adds.                                        *)
LEMMA CountInsert ==
    ASSUME TypeOK, CountExact, NEW s \in Service, Insert(s)
    PROVE  CountExact' /\ count' \in Nat
<1>1. CASE services[localID[s]] # None
  BY <1>1, CountSame DEF Insert, TypeOK
<1>2. CASE services[localID[s]] = None
  <2>1. localID[s] \in ID /\ localID[s] \notin Used
    BY <1>2 DEF Insert, TypeOK, Used
  <2>2. services' = [services EXCEPT ![localID[s]] = s] /\ count' = count + 1
    BY <1>2 DEF Insert
  <2>3. {i \in ID : services'[i] # None} = Used \cup {localID[s]}
    BY <2>1, <2>2, NoneAssumption DEF Used, TypeOK
  <2>4. Cardinality(Used \cup {localID[s]}) = Cardinality(Used) + 1
    <3>1. IsFiniteSet(Used)
      BY UsedFinite
    <3> QED
      BY <2>1, <3>1, FS_AddElement, Zenon
  <2>5. count = Cardinality(Used)
    BY DEF CountExact, Used
  <2>6. count' = Cardinality({i \in ID : services'[i] # None}) /\ count' \in Nat
    BY <2>2, <2>3, <2>4, <2>5, UsedFinite
  <2> QED
    BY <2>6 DEF CountExact
<1> QED
  BY <1>1, <1>2

(* Remove counts the entry it drops, if there is one.                      *)
LEMMA CountRemove ==
    ASSUME TypeOK, CountExact, NEW s \in Service, Remove(s)
    PROVE  CountExact' /\ count' \in Nat
<1>1. localID[s] \in ID /\ services' = [services EXCEPT ![localID[s]] = None]
  BY DEF Remove, TypeOK
<1>2. {i \in ID : services'[i] # None} = Used \ {localID[s]}
  BY <1>1 DEF Used, TypeOK
<1>3. CASE services[localID[s]] # None
  <2>1. localID[s] \in Used
    BY <1>1, <1>3 DEF Used
  <2>2. /\ IsFiniteSet(Used \ {localID[s]})
        /\ Cardinality(Used \ {localID[s]}) = Cardinality(Used) - 1
    BY <2>1, UsedFinite, FS_RemoveElement
  <2>3. Cardinality(Used \ {localID[s]}) \in Nat
    BY <2>2, FS_CardinalityType
  <2> QED
    BY <1>2, <1>3, <2>2, <2>3, Zenon DEF Remove, CountExact, Used
<1>4. CASE services[localID[s]] = None
  <2>1. Used \ {localID[s]} = Used
    BY <1>4 DEF Used
  <2> QED
    BY <1>2, <1>4, <2>1, UsedFinite DEF Remove, CountExact, Used
<1> QED
  BY <1>3, <1>4

(* Every step keeps the types and the count.                               *)
LEMMA TypeNext == TypeOK /\ CountExact /\ [Next]_vars => TypeOK' /\ CountExact'
<1> SUFFICES ASSUME TypeOK, CountExact, [Next]_vars PROVE TypeOK' /\ CountExact'
  OBVIOUS
<1>1. CASE Handle \/ StartReturns \/ ReaderEnds \/ CloserEnds
  BY <1>1, CountSame, Zenon DEF TypeOK, Handle, StartReturns, ReaderEnds, CloserEnds
<1>2. CASE ReaderMapEnd \/ CloserMapEnd
  BY <1>2, CountCleared DEF TypeOK, ReaderMapEnd, CloserMapEnd, EndClears
<1>3. ASSUME NEW s \in Service, DrawID(s) PROVE TypeOK' /\ CountExact'
  <2>1. now' \in ID
    BY <1>3, NextInRange DEF DrawID, TypeOK
  <2>2. drawn' \in Seq(ID)
    BY <1>3, <2>1, DrawnType DEF DrawID, TypeOK
  <2>3. ID \subseteq 0..MaxID
    BY MaxIDAssumption DEF ID
  <2>4. /\ localID' \in [Service -> 0..MaxID]
        /\ \A t \in Service : spc'[t] # "new" => localID'[t] \in ID
    BY <1>3, <2>1, <2>3, Zenon DEF DrawID, TypeOK
  <2>5. UNCHANGED <<services, count, ended, closer>>
    BY <1>3 DEF DrawID
  <2>6. /\ spc' \in [Service -> {"new", "named", "refused", "live", "removed"}]
        /\ reader' \in {"insert", "end"}
    BY <1>3, Zenon DEF DrawID, TypeOK
  <2> QED
    BY <2>1, <2>2, <2>4, <2>5, <2>6, CountSame DEF TypeOK
<1>4. ASSUME NEW s \in Service, Insert(s) PROVE TypeOK' /\ CountExact'
  BY <1>4, CountInsert, SMTT(60) DEF TypeOK, Insert
<1>5. ASSUME NEW s \in Service, Remove(s) PROVE TypeOK' /\ CountExact'
  BY <1>5, CountRemove, Zenon DEF TypeOK, Remove
<1>6. CASE UNCHANGED vars
  BY <1>6, CountSame DEF TypeOK, vars
<1> QED
  BY <1>1, <1>2, <1>3, <1>4, <1>5, <1>6 DEF Next

(* Every step keeps the entries apart.                                     *)
LEMMA EntryNext == Inv /\ [Next]_vars => OwnEntry' /\ EndedFirst'
<1> SUFFICES ASSUME Inv, [Next]_vars PROVE OwnEntry' /\ EndedFirst'
  OBVIOUS
<1> USE DEF Inv
<1>1. CASE Handle \/ StartReturns \/ ReaderEnds \/ CloserEnds \/ UNCHANGED vars
  BY <1>1 DEF OwnEntry, EndedFirst, TypeOK, Handle, StartReturns, ReaderEnds,
              CloserEnds, vars
<1>2. CASE ReaderMapEnd \/ CloserMapEnd
  BY <1>2 DEF OwnEntry, EndedFirst, TypeOK, ReaderMapEnd, CloserMapEnd
<1>3. ASSUME NEW s \in Service, DrawID(s) PROVE OwnEntry' /\ EndedFirst'
  <2>1. /\ UNCHANGED <<services, ended, closer>> /\ reader' \in {"insert", "end"}
        /\ spc[s] = "new" /\ spc'[s] # "live"
        /\ \A t \in Service \ {s} : spc'[t] = spc[t] /\ localID'[t] = localID[t]
    BY <1>3 DEF DrawID, TypeOK
  <2> QED
    BY <2>1, NoneAssumption DEF OwnEntry, EndedFirst, TypeOK
<1>4. ASSUME NEW s \in Service, Insert(s) PROVE OwnEntry' /\ EndedFirst'
  <2>1. /\ UNCHANGED <<localID, ended, closer>> /\ reader' \in {"read", "end"}
        /\ spc[s] = "named" /\ localID[s] \in ID
        /\ \A t \in Service \ {s} : spc'[t] = spc[t]
    BY <1>4 DEF Insert, TypeOK
  <2>2. CASE services[localID[s]] # None
    <3>1. services' = services /\ spc'[s] = "refused"
      BY <1>4, <2>2 DEF Insert, TypeOK
    <3> QED
      BY <2>1, <3>1, NoneAssumption DEF OwnEntry, EndedFirst, TypeOK
  <2>3. CASE services[localID[s]] = None
    <3>1. /\ services'[localID[s]] = s /\ spc'[s] = "live"
          /\ \A i \in ID \ {localID[s]} : services'[i] = services[i]
      BY <1>4, <2>1, <2>3 DEF Insert, TypeOK
    <3> QED
      BY <2>1, <2>3, <3>1, NoneAssumption DEF OwnEntry, EndedFirst, TypeOK
  <2> QED
    BY <2>2, <2>3
<1>5. ASSUME NEW s \in Service, Remove(s) PROVE OwnEntry' /\ EndedFirst'
  <2>1. /\ UNCHANGED <<localID, ended, closer, reader>>
        /\ spc[s] = "live" /\ spc'[s] = "removed" /\ localID[s] \in ID
        /\ \A t \in Service \ {s} : spc'[t] = spc[t]
        /\ services'[localID[s]] = None
        /\ \A i \in ID \ {localID[s]} : services'[i] = services[i]
    BY <1>5 DEF Remove, TypeOK
  <2> QED
    BY <2>1, NoneAssumption, SMTT(60) DEF OwnEntry, EndedFirst, TypeOK
<1> QED
  BY <1>1, <1>2, <1>3, <1>4, <1>5 DEF Next

(* Inv is inductive.                                                       *)
LEMMA InvInductive == Spec => []Inv
<1>1. Init => Inv
  <2> SUFFICES ASSUME Init PROVE Inv
    OBVIOUS
  <2>1. Used = {}
    BY DEF Init, Used
  <2>2. CountExact
    BY <2>1, FS_EmptySet, SMTT(60) DEF Init, CountExact, Used
  <2>3. 1 \in ID /\ 0 \in 0..MaxID /\ <<>> \in Seq(ID)
    BY MaxIDAssumption DEF ID
  <2>4. TypeOK
    BY <2>3, Zenon DEF Init, TypeOK
  <2> QED
    BY <2>2, <2>4 DEF Init, Inv, OwnEntry, EndedFirst
<1>2. Inv /\ [Next]_vars => Inv'
  BY TypeNext, EntryNext DEF Inv
<1> QED
  BY <1>1, <1>2, PTL DEF Spec

(* Whatever the size of the id space, no id is zero and every variable     *)
(* stays in its range.                                                     *)
THEOREM IdsNeverZero == Spec => []TypeOK
<1>1. Inv => TypeOK
  BY DEF Inv
<1> QED
  BY <1>1, InvInductive, PTL

(* Until the socket ends a service is found under its own id, however      *)
(* often the ids have wrapped around.                                      *)
THEOREM EntriesApart == Spec => []OwnEntry
<1>1. Inv => OwnEntry
  BY DEF Inv
<1> QED
  BY <1>1, InvInductive, PTL

(* count is exact through every order of Insert, Remove and End.           *)
THEOREM CountCorrect == Spec => []CountExact
<1>1. Inv => CountExact
  BY DEF Inv
<1> QED
  BY <1>1, InvInductive, PTL

-----------------------------------------------------------------------------
(* The rolling counter.                                                    *)

(* The k-th id back from n, around the wrap.                               *)
Back(n, k) == IF k <= n THEN n - k + 1 ELSE n - k + 1 + MaxID

(* The ids drawn last are the last values of the counter, newest first,    *)
(* and there are at most as many as there are ids.                         *)
DrawnBack ==
    /\ now \in ID
    /\ drawn \in Seq(ID)
    /\ Len(drawn) <= MaxID
    /\ \A k \in 1..Len(drawn) : drawn[k] = Back(now, k)

(* The values before the counter moves on are those before it, one further *)
(* back, also at the wrap.                                                 *)
LEMMA BackShifts ==
    ASSUME NEW n \in ID, NEW k \in 1..MaxID, k < MaxID
    PROVE  Back(NextID(n), 1) = NextID(n) /\ Back(NextID(n), k + 1) = Back(n, k)
BY MaxIDAssumption DEF Back, NextID, ID

(* Within one turn of the counter no value comes back.                     *)
LEMMA BackInjective ==
    ASSUME NEW n \in ID, NEW k \in 1..MaxID, NEW m \in 1..MaxID, Back(n, k) = Back(n, m)
    PROVE  k = m
BY MaxIDAssumption DEF Back, ID

LEMMA DrawKeeps ==
    ASSUME DrawnBack, NEW s \in Service, DrawID(s)
    PROVE  DrawnBack'
<1> DEFINE d == <<now'>> \o drawn
           l == IF Len(drawn) < MaxID THEN Len(drawn) + 1 ELSE MaxID
<1>1. now \in ID /\ now' = NextID(now) /\ now' \in ID /\ drawn' = SubSeq(d, 1, l)
  BY NextInRange DEF DrawID, DrawnBack
<1>2. drawn \in Seq(ID) /\ Len(drawn) \in Nat /\ Len(drawn) <= MaxID
  BY DEF DrawnBack
<1>3. d \in Seq(ID) /\ Len(d) = Len(drawn) + 1 /\ d[1] = now'
      /\ \A k \in 1..Len(drawn) : d[k + 1] = drawn[k]
  BY <1>1, <1>2
<1>4. l \in 1..MaxID /\ l <= Len(drawn) + 1
  BY <1>2, MaxIDAssumption
<1>5. drawn' \in Seq(ID) /\ Len(drawn') = l /\ \A k \in 1..l : drawn'[k] = d[k]
  BY <1>1, <1>3, <1>4
<1>6. ASSUME NEW k \in 1..l PROVE drawn'[k] = Back(now', k)
  <2>1. CASE k = 1
    BY <1>1, <1>3, <1>5, <2>1, MaxIDAssumption DEF Back, ID
  <2>2. CASE k # 1
    <3>1. k - 1 \in 1..Len(drawn) /\ k - 1 \in 1..MaxID /\ k - 1 < MaxID /\ (k - 1) + 1 = k
      BY <1>2, <1>4, <2>2, MaxIDAssumption
    <3>2. drawn'[k] = drawn[k - 1]
      BY <1>3, <1>5, <3>1
    <3>3. Back(now', k) = Back(now, k - 1)
      BY <1>1, <3>1, BackShifts
    <3>4. drawn[k - 1] = Back(now, k - 1)
      BY <3>1 DEF DrawnBack
    <3> QED
      BY <3>2, <3>3, <3>4
  <2> QED
    BY <2>1, <2>2
<1> QED
  BY <1>1, <1>4, <1>5, <1>6, MaxIDAssumption DEF DrawnBack

(* RollingCounter returns every id once before it returns one again, for   *)
(* any size of the id space: an id is reused only after all others.        *)
THEOREM RollsOver == Spec => []NoEarlyReuse
<1>1. Init => DrawnBack
  BY MaxIDAssumption DEF Init, DrawnBack, ID
<1>2. DrawnBack /\ [Next]_vars => DrawnBack'
  <2> SUFFICES ASSUME DrawnBack, [Next]_vars PROVE DrawnBack'
    OBVIOUS
  <2>1. CASE \E s \in Service : DrawID(s)
    BY <2>1, DrawKeeps
  <2>2. CASE ~\E s \in Service : DrawID(s)
    <3>1. UNCHANGED <<now, drawn>>
      BY <2>2 DEF Next, Handle, StartReturns, ReaderEnds, ReaderMapEnd, CloserEnds,
                  CloserMapEnd, Insert, Remove, vars
    <3> QED
      BY <3>1 DEF DrawnBack
  <2> QED
    BY <2>1, <2>2
<1>3. DrawnBack => NoEarlyReuse
  <2> SUFFICES ASSUME DrawnBack, NEW m \in 1..Len(drawn), NEW n \in 1..Len(drawn),
                      drawn[m] = drawn[n]
               PROVE  m = n
    BY DEF NoEarlyReuse
  <2>1. m \in 1..MaxID /\ n \in 1..MaxID /\ Back(now, m) = Back(now, n) /\ now \in ID
    BY MaxIDAssumption DEF DrawnBack
  <2> QED
    BY <2>1, BackInjective
<1> QED
  BY <1>1, <1>2, <1>3, PTL DEF Spec

=============================================================================
