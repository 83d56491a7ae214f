------------------------ MODULE ResourceGovernor_proofs ------------------------
(***************************************************************************)
(* Proofs about ResourceGovernor for every finite set of calls, every set  *)
(* of lanes, every limits and every assignment of priorities.              *)
(***************************************************************************)
EXTENDS ResourceGovernor, FiniteSetTheorems, TLAPS

Status == {"idle", "queued", "running"}
RunningOn(st, lane) == {c \in CallsOn(lane) : st[c] = "running"}

\* Every part of a lane's calls is finite.
LEMMA LanePartsAreFinite ==
  ASSUME NEW lane, NEW S \in SUBSET CallsOn(lane)
  PROVE  IsFiniteSet(S) /\ Cardinality(S) \in Nat
<1>1. IsFiniteSet(Calls) /\ S \in SUBSET Calls
  BY GovernorAssumption DEF CallsOn
<1>2. IsFiniteSet(S)
  BY <1>1, FS_Subset
<1> QED
  BY <1>2, FS_CardinalityType

\* A normalised limit is a positive natural number.
LEMMA NormalizedLimits ==
  ASSUME NEW raw \in [Lanes -> RawLimits]
  PROVE  [l \in Lanes |-> normalizeLimit(raw[l], DefaultLimit[l])]
           \in [Lanes -> Nat \ {0}]
<1>1. ASSUME NEW l \in Lanes
      PROVE  normalizeLimit(raw[l], DefaultLimit[l]) \in Nat \ {0}
  <2>1. DefaultLimit[l] \in Nat \ {0}
    BY GovernorAssumption
  <2>2. raw[l] = Unstated \/ raw[l] \in Int
    BY GovernorAssumption
  <2>3. CASE raw[l] = Unstated
    BY <2>1, <2>3 DEF normalizeLimit
  <2>4. CASE raw[l] # Unstated /\ raw[l] \in Int
    BY <2>4 DEF normalizeLimit
  <2> QED
    BY <2>2, <2>3, <2>4
<1> QED
  BY <1>1

\* What drain() has done once it has granted the calls of a set.
DrainResult(granted, lanes, st, used, lim, ord) ==
  /\ granted \in SUBSET {c \in Calls : st[c] = "queued" /\ LaneOf[c] \in lanes}
  /\ status' = [c \in Calls |-> IF c \in granted THEN "running" ELSE st[c]]
  /\ status' \in [Calls -> Status]
  /\ active' \in [Lanes -> Nat]
  /\ older' \in [Calls -> SUBSET Calls]
  /\ \A l \in Lanes : active'[l] = used[l] + Cardinality(granted \cap CallsOn(l))
  /\ \A l \in Lanes : granted \cap CallsOn(l) # {} => active'[l] <= lim[l]
  /\ \A l \in lanes : active'[l] < lim[l] => Waiting(status', l) = {}
  /\ \A l \in lanes : \A c \in granted \cap CallsOn(l) :
       \A w \in Waiting(st, l) \ granted : ~ Precedes(w, c, ord)

\* drain() moves queued calls to running, counts each one it moves, and stops
\* only when the lane is full or its queue is empty.
LEMMA DrainEffect ==
  ASSUME NEW lanes \in SUBSET Lanes,
         NEW st \in [Calls -> Status],
         NEW used \in [Lanes -> Nat],
         NEW lim \in [Lanes -> Nat \ {0}],
         NEW ord \in [Calls -> SUBSET Calls],
         Drain(lanes, st, used, lim, ord)
  PROVE  \E granted \in SUBSET Calls : DrainResult(granted, lanes, st, used, lim, ord)
<1>1. PICK granted \in SUBSET UNION {Waiting(st, l) : l \in lanes} :
        /\ \A l \in lanes :
             /\ Cardinality(granted \cap CallsOn(l)) =
                  Lesser(Free(used, lim, l), Cardinality(Waiting(st, l)))
             /\ \A c \in granted \cap CallsOn(l), w \in Waiting(st, l) \ granted :
                  ~ Precedes(w, c, ord)
        /\ status' = [c \in Calls |-> IF c \in granted THEN "running" ELSE st[c]]
        /\ active' = [l \in Lanes |-> used[l] + Cardinality(granted \cap CallsOn(l))]
        /\ older' = Reordered(status', ord)
  BY DEF Drain
<1>2. granted \in SUBSET {c \in Calls : st[c] = "queued" /\ LaneOf[c] \in lanes}
  BY <1>1 DEF Waiting, CallsOn
<1>3. status' \in [Calls -> Status]
  BY <1>1 DEF Status
<1>4. \A l \in Lanes : Cardinality(granted \cap CallsOn(l)) \in Nat
  BY LanePartsAreFinite
<1>5. active' \in [Lanes -> Nat]
  BY <1>1, <1>4
<1>6. older' \in [Calls -> SUBSET Calls]
  BY <1>1 DEF Reordered
<1>7. ASSUME NEW l \in Lanes, granted \cap CallsOn(l) # {}
      PROVE  active'[l] <= lim[l]
  <2>1. l \in lanes
    BY <1>2, <1>7 DEF CallsOn
  <2>2. Cardinality(Waiting(st, l)) \in Nat
    BY LanePartsAreFinite DEF Waiting
  <2>3. Cardinality(granted \cap CallsOn(l)) <= Free(used, lim, l)
    BY <1>1, <2>1, <2>2 DEF Lesser, Free
  <2>4. Cardinality(granted \cap CallsOn(l)) # 0
    BY <1>7, LanePartsAreFinite, FS_EmptySet
  <2> QED
    BY <1>1, <1>4, <2>3, <2>4 DEF Free
<1>8. ASSUME NEW l \in lanes, active'[l] < lim[l]
      PROVE  Waiting(status', l) = {}
  <2>1. IsFiniteSet(Waiting(st, l)) /\ Cardinality(Waiting(st, l)) \in Nat
    BY LanePartsAreFinite DEF Waiting
  <2>2. Cardinality(granted \cap CallsOn(l)) = Cardinality(Waiting(st, l))
    BY <1>1, <1>4, <1>8, <2>1 DEF Lesser, Free
  <2>3. granted \cap CallsOn(l) \in SUBSET Waiting(st, l)
    BY <1>2 DEF Waiting, CallsOn
  <2>4. granted \cap CallsOn(l) = Waiting(st, l)
    BY <2>1, <2>2, <2>3, FS_Subset
  <2> QED
    BY <1>1, <2>4 DEF Waiting, CallsOn
<1> QED
  BY <1>1, <1>2, <1>3, <1>5, <1>6, <1>7, <1>8 DEF DrainResult

-----------------------------------------------------------------------------
\* Each variable keeps its type: in particular a limit is never zero and the
\* counter of permits never negative, whatever updateLimits() is given.
LEMMA TypeInit == Init => TypeOK
<1> SUFFICES ASSUME Init PROVE TypeOK
  OBVIOUS
<1>1. limit \in [Lanes -> Nat \ {0}]
  BY NormalizedLimits DEF Init
<1> QED
  BY <1>1 DEF Init, TypeOK

\* No handler takes a variable out of its type.
LEMMA TypeStep == TypeOK /\ [Next]_vars => TypeOK'
<1> SUFFICES ASSUME TypeOK, [Next]_vars PROVE TypeOK'
  OBVIOUS
<1> USE DEF TypeOK
<1>0. ASSUME NEW c \in Calls PROVE LaneOf[c] \in Lanes
  BY GovernorAssumption
<1>1. ASSUME NEW c \in Calls, AcquireAtOnce(c) PROVE TypeOK'
  BY <1>0, <1>1 DEF AcquireAtOnce
<1>2. ASSUME NEW c \in Calls, Enqueue(c) PROVE TypeOK'
  <2> DEFINE st == [status EXCEPT ![c] = "queued"]
             arrived == [older EXCEPT ![c] = Waiting(status, LaneOf[c])]
  <2>1. st \in [Calls -> Status] /\ arrived \in [Calls -> SUBSET Calls]
    BY DEF Status, Waiting, CallsOn
  <2>2. Drain({LaneOf[c]}, st, active, limit, arrived)
    BY <1>2 DEF Enqueue
  <2> HIDE DEF st, arrived
  <2> QED
    BY <1>0, <1>2, <2>1, <2>2, DrainEffect DEF DrainResult, Enqueue, Status
<1>3. ASSUME NEW c \in Calls, Finish(c) PROVE TypeOK'
  <2> DEFINE st == [status EXCEPT ![c] = "idle"]
             used == [active EXCEPT ![LaneOf[c]] = IF @ > 0 THEN @ - 1 ELSE 0]
  <2>1. st \in [Calls -> Status] /\ used \in [Lanes -> Nat]
    <3>1. active[LaneOf[c]] \in Nat
      BY <1>0
    <3>2. (IF active[LaneOf[c]] > 0 THEN active[LaneOf[c]] - 1 ELSE 0) \in Nat
      BY <3>1
    <3> QED
      BY <3>2 DEF Status
  <2>2. Drain({LaneOf[c]}, st, used, limit, older)
    BY <1>3 DEF Finish
  <2> HIDE DEF st, used
  <2> QED
    BY <1>0, <1>3, <2>1, <2>2, DrainEffect DEF DrainResult, Finish, Status
<1>4. ASSUME NEW c \in Calls, Abort(c) PROVE TypeOK'
  BY <1>4 DEF Abort, Reordered
<1>5. ASSUME NEW raw \in [Lanes -> RawLimits], updateLimits(raw) PROVE TypeOK'
  <2> DEFINE lim == [l \in Lanes |-> normalizeLimit(raw[l], DefaultLimit[l])]
  <2>1. lim \in [Lanes -> Nat \ {0}]
    BY NormalizedLimits
  <2>2. limit' = lim /\ Drain(Lanes, status, active, lim, older)
    BY <1>5 DEF updateLimits
  <2> HIDE DEF lim
  <2> QED
    BY <1>5, <2>1, <2>2, DrainEffect DEF DrainResult, updateLimits, Status
<1>6. ASSUME dispose PROVE TypeOK'
  BY <1>6 DEF dispose, Reordered
<1>7. CASE UNCHANGED vars
  BY <1>7 DEF vars
<1> QED
  BY <1>1, <1>2, <1>3, <1>4, <1>5, <1>6, <1>7 DEF Next

\* Every reachable state of the governor is well typed.
THEOREM TypeCorrect == Spec => []TypeOK
  BY TypeInit, TypeStep, PTL DEF Spec

-----------------------------------------------------------------------------
\* One step of drain() keeps the counter equal to the number of holders.
LEMMA DrainConserves ==
  ASSUME NEW lanes \in SUBSET Lanes,
         NEW st \in [Calls -> Status],
         NEW used \in [Lanes -> Nat],
         NEW lim \in [Lanes -> Nat \ {0}],
         NEW ord \in [Calls -> SUBSET Calls],
         Drain(lanes, st, used, lim, ord),
         \A l \in Lanes : used[l] = Cardinality(RunningOn(st, l))
  PROVE  PermitConservation'
<1>1. PICK granted \in SUBSET {c \in Calls : st[c] = "queued" /\ LaneOf[c] \in lanes} :
        /\ status' = [c \in Calls |-> IF c \in granted THEN "running" ELSE st[c]]
        /\ \A l \in Lanes :
             active'[l] = used[l] + Cardinality(granted \cap CallsOn(l))
  <2>1. PICK granted \in SUBSET Calls : DrainResult(granted, lanes, st, used, lim, ord)
    BY DrainEffect
  <2> QED
    BY <2>1 DEF DrainResult
<1>2. ASSUME NEW l \in Lanes
      PROVE  active'[l] = Cardinality(Holders(l)')
  <2>1. Holders(l)' = RunningOn(st, l) \cup (granted \cap CallsOn(l))
    BY <1>1 DEF Holders, RunningOn, CallsOn
  <2>2. RunningOn(st, l) \cap (granted \cap CallsOn(l)) = {}
    BY <1>1 DEF RunningOn
  <2>3. /\ IsFiniteSet(RunningOn(st, l))
        /\ Cardinality(RunningOn(st, l)) \in Nat
        /\ IsFiniteSet(granted \cap CallsOn(l))
        /\ Cardinality(granted \cap CallsOn(l)) \in Nat
    BY LanePartsAreFinite DEF RunningOn
  <2>4. Cardinality(Holders(l)') =
          Cardinality(RunningOn(st, l)) + Cardinality(granted \cap CallsOn(l))
    <3> DEFINE A == RunningOn(st, l)
               B == granted \cap CallsOn(l)
    <3>1. IsFiniteSet(A) /\ IsFiniteSet(B) /\ A \cap B = {}
      BY <2>2, <2>3
    <3> HIDE DEF A, B
    <3>2. Cardinality(A \cup B) = Cardinality(A) + Cardinality(B) - Cardinality({})
      BY <3>1, FS_Union
    <3> USE DEF A, B
    <3>3. Cardinality({}) = 0
      BY FS_EmptySet
    <3> QED
      BY <2>1, <2>3, <3>2, <3>3
  <2> QED
    BY <1>1, <2>4
<1> QED
  BY <1>2 DEF PermitConservation

\* No handler separates the counter of a lane from the tasks it counts.
LEMMA ConservationStep == TypeOK /\ PermitConservation /\ [Next]_vars => PermitConservation'
<1> SUFFICES ASSUME TypeOK, PermitConservation, [Next]_vars PROVE PermitConservation'
  OBVIOUS
<1>0. /\ \A c \in Calls : LaneOf[c] \in Lanes
      /\ \A l \in Lanes : active[l] = Cardinality(RunningOn(status, l))
      /\ \A l \in Lanes : IsFiniteSet(RunningOn(status, l))
  BY GovernorAssumption, LanePartsAreFinite
  DEF PermitConservation, Holders, RunningOn
<1>a. ASSUME NEW l \in Lanes PROVE Holders(l)' = RunningOn(status', l)
  BY DEF Holders, RunningOn, CallsOn
<1>1. ASSUME NEW c \in Calls, AcquireAtOnce(c) PROVE PermitConservation'
  <2>1. /\ active' = [active EXCEPT ![LaneOf[c]] = @ + 1]
        /\ status' = [status EXCEPT ![c] = "running"]
        /\ status[c] # "running"
    BY <1>1 DEF AcquireAtOnce, CanCall
  <2>2. ASSUME NEW l \in Lanes PROVE active'[l] = Cardinality(Holders(l)')
    <3>1. CASE l = LaneOf[c]
      <4>1. RunningOn(status', l) = RunningOn(status, l) \cup {c}
        BY <2>1, <3>1 DEF RunningOn, CallsOn, TypeOK
      <4>2. c \notin RunningOn(status, l)
        BY <2>1 DEF RunningOn
      <4>3. active'[l] = active[l] + 1
        BY <2>1, <3>1 DEF TypeOK
      <4> QED
        BY <1>0, <1>a, <4>1, <4>2, <4>3, FS_AddElement
    <3>2. CASE l # LaneOf[c]
      <4>1. RunningOn(status', l) = RunningOn(status, l)
        BY <2>1, <3>2 DEF RunningOn, CallsOn, TypeOK
      <4> QED
        BY <1>0, <1>a, <2>1, <3>2, <4>1 DEF TypeOK
    <3> QED
      BY <3>1, <3>2
  <2> QED
    BY <2>2 DEF PermitConservation
<1>2. ASSUME NEW c \in Calls, Enqueue(c) PROVE PermitConservation'
  <2> DEFINE st == [status EXCEPT ![c] = "queued"]
             arrived == [older EXCEPT ![c] = Waiting(status, LaneOf[c])]
  <2>1. st \in [Calls -> Status] /\ arrived \in [Calls -> SUBSET Calls]
    BY DEF Status, Waiting, CallsOn, TypeOK
  <2>2. Drain({LaneOf[c]}, st, active, limit, arrived)
    BY <1>2 DEF Enqueue
  <2>3. \A l \in Lanes : RunningOn(st, l) = RunningOn(status, l)
    BY <1>2 DEF Enqueue, CanCall, RunningOn, CallsOn, TypeOK
  <2> HIDE DEF st, arrived
  <2> QED
    BY <1>0, <2>1, <2>2, <2>3, DrainConserves DEF TypeOK
<1>3. ASSUME NEW c \in Calls, Finish(c) PROVE PermitConservation'
  <2> DEFINE st == [status EXCEPT ![c] = "idle"]
             lane == LaneOf[c]
             used == [active EXCEPT ![lane] = IF @ > 0 THEN @ - 1 ELSE 0]
  <2>1. Drain({lane}, st, used, limit, older) /\ status[c] = "running"
    BY <1>3 DEF Finish
  <2>2. RunningOn(st, lane) = RunningOn(status, lane) \ {c}
    BY DEF RunningOn, CallsOn, TypeOK
  <2>3. c \in RunningOn(status, lane)
    BY <2>1 DEF RunningOn, CallsOn
  <2>4. Cardinality(RunningOn(st, lane)) = active[lane] - 1 /\ active[lane] > 0
    <3>1. Cardinality(RunningOn(st, lane)) = active[lane] - 1
      BY <1>0, <2>2, <2>3, FS_RemoveElement
    <3>2. Cardinality(RunningOn(st, lane)) \in Nat
      BY LanePartsAreFinite DEF RunningOn
    <3> QED
      BY <1>0, <3>1, <3>2 DEF TypeOK
  <2>5. ASSUME NEW l \in Lanes, l # lane
        PROVE  RunningOn(st, l) = RunningOn(status, l)
    BY <2>5 DEF RunningOn, CallsOn, TypeOK
  <2>6. used = [active EXCEPT ![lane] = active[lane] - 1]
    BY <2>4
  <2>7. \A l \in Lanes : used[l] = Cardinality(RunningOn(st, l))
    BY <1>0, <2>4, <2>5, <2>6 DEF TypeOK
  <2>8. st \in [Calls -> Status] /\ used \in [Lanes -> Nat]
    BY <1>0, <2>4, <2>6 DEF Status, TypeOK
  <2>9. {lane} \in SUBSET Lanes
    BY <1>0
  <2> HIDE DEF st, used, lane
  <2> QED
    BY <2>1, <2>7, <2>8, <2>9, DrainConserves DEF TypeOK
<1>4. ASSUME NEW c \in Calls, Abort(c) PROVE PermitConservation'
  <2>1. \A l \in Lanes : RunningOn(status', l) = RunningOn(status, l)
    BY <1>4 DEF Abort, RunningOn, CallsOn, TypeOK
  <2>2. active' = active
    BY <1>4 DEF Abort
  <2> QED
    BY <1>0, <1>a, <2>1, <2>2 DEF PermitConservation
<1>5. ASSUME NEW raw \in [Lanes -> RawLimits], updateLimits(raw) PROVE PermitConservation'
  <2> DEFINE lim == [l \in Lanes |-> normalizeLimit(raw[l], DefaultLimit[l])]
  <2>1. lim \in [Lanes -> Nat \ {0}]
    BY NormalizedLimits
  <2>2. Drain(Lanes, status, active, lim, older)
    BY <1>5 DEF updateLimits
  <2> HIDE DEF lim
  <2> QED
    BY <1>0, <2>1, <2>2, DrainConserves DEF TypeOK, Status
<1>6. ASSUME dispose PROVE PermitConservation'
  <2>1. \A l \in Lanes : RunningOn(status', l) = RunningOn(status, l)
    BY <1>6 DEF dispose, RunningOn, CallsOn, TypeOK
  <2> QED
    BY <1>0, <1>a, <1>6, <2>1 DEF PermitConservation, dispose
<1>7. CASE UNCHANGED vars
  BY <1>7 DEF vars, PermitConservation, Holders
<1> QED
  BY <1>1, <1>2, <1>3, <1>4, <1>5, <1>6, <1>7 DEF Next

\* No permit is ever lost or returned twice: in every reachable state the
\* counter of each lane is the number of its tasks that hold a permit.
THEOREM PermitsAreConserved == Spec => []PermitConservation
<1>1. Init => PermitConservation
  <2> SUFFICES ASSUME Init, NEW l \in Lanes PROVE active[l] = Cardinality(Holders(l))
    BY DEF PermitConservation
  <2>1. Holders(l) = {} /\ active[l] = 0
    BY DEF Init, Holders, CallsOn
  <2> QED
    BY <2>1, FS_EmptySet
<1> QED
  BY <1>1, TypeCorrect, ConservationStep, PTL DEF Spec

-----------------------------------------------------------------------------
\* A lane that is not drained keeps its queue and its counter.
LEMMA DrainElsewhere ==
  ASSUME NEW lanes, NEW granted, NEW st \in [Calls -> Status], NEW used, NEW lim, NEW ord,
         DrainResult(granted, lanes, st, used, lim, ord),
         NEW l \in Lanes, l \notin lanes, used[l] \in Nat
  PROVE  /\ active'[l] = used[l]
         /\ Waiting(status', l) = Waiting(st, l)
<1>1. granted \cap CallsOn(l) = {}
  BY DEF DrainResult, CallsOn
<1>2. active'[l] = used[l] + Cardinality({})
  BY <1>1 DEF DrainResult
<1>3. Waiting(status', l) = Waiting(st, l)
  BY <1>1 DEF DrainResult, Waiting, CallsOn
<1> QED
  BY <1>2, <1>3, FS_EmptySet

\* No handler leaves a waiter on a lane with a permit free.
LEMMA WakeupStep == TypeOK /\ NoLostWakeup /\ [Next]_vars => NoLostWakeup'
<1> SUFFICES ASSUME TypeOK, NoLostWakeup, [Next]_vars PROVE NoLostWakeup'
  OBVIOUS
<1>0. \A c \in Calls : LaneOf[c] \in Lanes
  BY GovernorAssumption
<1> DEFINE Good(l) == active'[l] < limit'[l] => Waiting(status', l) = {}
<1>a. (\A l \in Lanes : Good(l)) => NoLostWakeup'
  BY DEF NoLostWakeup, Waiting, CallsOn
<1>1. ASSUME NEW c \in Calls, AcquireAtOnce(c), NEW l \in Lanes PROVE Good(l)
  <2>1. Waiting(status', l) \in SUBSET Waiting(status, l)
    BY <1>1 DEF AcquireAtOnce, Waiting, CallsOn, TypeOK
  <2>2. limit' = limit /\ active'[l] >= active[l]
    BY <1>0, <1>1 DEF AcquireAtOnce, TypeOK
  <2>3. active[l] < limit[l] => Waiting(status, l) = {}
    BY DEF NoLostWakeup
  <2>4. active'[l] < limit'[l] => active[l] < limit[l]
    <3>1. active' \in [Lanes -> Nat]
      BY <1>0, <1>1 DEF AcquireAtOnce, TypeOK
    <3> QED
      BY <2>2, <3>1 DEF TypeOK
  <2> QED
    BY <2>1, <2>3, <2>4
<1>2. ASSUME NEW c \in Calls, Enqueue(c), NEW l \in Lanes PROVE Good(l)
  <2> DEFINE lane == LaneOf[c]
             st == [status EXCEPT ![c] = "queued"]
             arrived == [older EXCEPT ![c] = Waiting(status, lane)]
  <2>1. st \in [Calls -> Status] /\ arrived \in [Calls -> SUBSET Calls]
    BY DEF Status, Waiting, CallsOn, TypeOK
  <2>2. Drain({lane}, st, active, limit, arrived) /\ limit' = limit
    BY <1>2 DEF Enqueue
  <2>3. {lane} \in SUBSET Lanes
    BY <1>0
  <2>4. l # lane => Waiting(st, l) = Waiting(status, l)
    BY DEF Waiting, CallsOn, TypeOK
  <2> HIDE DEF st, arrived, lane
  <2>5. PICK granted \in SUBSET Calls : DrainResult(granted, {lane}, st, active, limit, arrived)
    BY <2>1, <2>2, <2>3, DrainEffect DEF TypeOK
  <2>6. CASE l = lane
    BY <2>2, <2>5, <2>6 DEF DrainResult
  <2>7. CASE l # lane
    <3>1. active[l] \in Nat /\ l \notin {lane}
      BY <2>7 DEF TypeOK
    <3>2. active'[l] = active[l] /\ Waiting(status', l) = Waiting(st, l)
      BY <2>1, <2>5, <3>1, DrainElsewhere
    <3> QED
      BY <2>2, <2>4, <2>7, <3>2 DEF NoLostWakeup
  <2> QED
    BY <2>6, <2>7
<1>3. ASSUME NEW c \in Calls, Finish(c), NEW l \in Lanes PROVE Good(l)
  <2> DEFINE lane == LaneOf[c]
             st == [status EXCEPT ![c] = "idle"]
             used == [active EXCEPT ![lane] = IF @ > 0 THEN @ - 1 ELSE 0]
  <2>1. st \in [Calls -> Status] /\ used \in [Lanes -> Nat]
    <3>1. active[lane] \in Nat
      BY <1>0 DEF TypeOK
    <3>2. (IF active[lane] > 0 THEN active[lane] - 1 ELSE 0) \in Nat
      BY <3>1
    <3> QED
      BY <3>2 DEF Status, TypeOK
  <2>2. Drain({lane}, st, used, limit, older) /\ limit' = limit
    BY <1>3 DEF Finish
  <2>3. {lane} \in SUBSET Lanes
    BY <1>0
  <2>4. l # lane => Waiting(st, l) = Waiting(status, l) /\ used[l] = active[l]
    BY DEF Waiting, CallsOn, TypeOK
  <2> HIDE DEF st, used, lane
  <2>5. PICK granted \in SUBSET Calls : DrainResult(granted, {lane}, st, used, limit, older)
    BY <2>1, <2>2, <2>3, DrainEffect DEF TypeOK
  <2>6. CASE l = lane
    BY <2>2, <2>5, <2>6 DEF DrainResult
  <2>7. CASE l # lane
    <3>1. active'[l] = used[l] /\ Waiting(status', l) = Waiting(st, l)
      BY <2>1, <2>5, <2>7, DrainElsewhere
    <3> QED
      BY <2>2, <2>4, <2>7, <3>1 DEF NoLostWakeup
  <2> QED
    BY <2>6, <2>7
<1>4. ASSUME NEW c \in Calls, Abort(c), NEW l \in Lanes PROVE Good(l)
  <2>1. Waiting(status', l) \in SUBSET Waiting(status, l)
    BY <1>4 DEF Abort, Waiting, CallsOn, TypeOK
  <2> QED
    BY <1>4, <2>1 DEF Abort, NoLostWakeup
<1>5. ASSUME NEW raw \in [Lanes -> RawLimits], updateLimits(raw), NEW l \in Lanes
      PROVE  Good(l)
  <2> DEFINE lim == [k \in Lanes |-> normalizeLimit(raw[k], DefaultLimit[k])]
  <2>1. lim \in [Lanes -> Nat \ {0}]
    BY NormalizedLimits
  <2>2. Drain(Lanes, status, active, lim, older) /\ limit' = lim
    BY <1>5 DEF updateLimits
  <2> HIDE DEF lim
  <2>3. PICK granted \in SUBSET Calls : DrainResult(granted, Lanes, status, active, lim, older)
    BY <2>1, <2>2, DrainEffect DEF TypeOK, Status
  <2> QED
    BY <2>2, <2>3 DEF DrainResult
<1>6. ASSUME dispose, NEW l \in Lanes PROVE Good(l)
  BY <1>6 DEF dispose, Waiting, CallsOn, TypeOK
<1>7. CASE UNCHANGED vars
  BY <1>7 DEF vars, NoLostWakeup, Waiting
<1> HIDE DEF Good
<1>8. CASE Next
  BY <1>1, <1>2, <1>3, <1>4, <1>5, <1>6, <1>8, <1>a DEF Next
<1> QED
  BY <1>7, <1>8

\* No wakeup is lost: in every reachable state a lane with a permit free has an
\* empty queue, whatever releases, aborts and limit changes came before.
THEOREM NoWakeupIsLost == Spec => []NoLostWakeup
<1>1. Init => NoLostWakeup
  BY DEF Init, NoLostWakeup, Waiting, CallsOn
<1> QED
  BY <1>1, TypeCorrect, WakeupStep, PTL DEF Spec

-----------------------------------------------------------------------------
\* Signals that have fired and are remembered belong to running tasks, and a
\* disposed governor has nobody queued.  Without the first half, which says of
\* idle calls what NoDeadWaiter does not, a call could join the queue aborted.
NobodyWaitsInVain ==
  /\ \A c \in aborted : status[c] = "running"
  /\ disposed => \A c \in Calls : status[c] # "queued"

\* No handler leaves a waiter that nobody would ever settle.
LEMMA DeadWaiterStep ==
  TypeOK /\ NobodyWaitsInVain /\ [Next]_vars => NobodyWaitsInVain'
<1> SUFFICES ASSUME TypeOK, NobodyWaitsInVain, [Next]_vars PROVE NobodyWaitsInVain'
  OBVIOUS
<1>0. \A c \in Calls : LaneOf[c] \in Lanes
  BY GovernorAssumption
<1>1. ASSUME NEW c \in Calls, AcquireAtOnce(c) PROVE NobodyWaitsInVain'
  BY <1>1 DEF AcquireAtOnce, CanCall, NobodyWaitsInVain, TypeOK
<1>2. ASSUME NEW c \in Calls, Enqueue(c) PROVE NobodyWaitsInVain'
  <2> DEFINE st == [status EXCEPT ![c] = "queued"]
             arrived == [older EXCEPT ![c] = Waiting(status, LaneOf[c])]
  <2>1. st \in [Calls -> Status] /\ arrived \in [Calls -> SUBSET Calls]
    BY DEF Status, Waiting, CallsOn, TypeOK
  <2>2. Drain({LaneOf[c]}, st, active, limit, arrived)
    BY <1>2 DEF Enqueue
  <2>3. aborted' = aborted /\ disposed' = FALSE /\ status[c] = "idle"
    BY <1>2 DEF Enqueue, CanCall, TypeOK
  <2>4. \A x \in aborted : st[x] = "running"
    BY <2>3 DEF NobodyWaitsInVain, TypeOK
  <2> HIDE DEF st, arrived
  <2>5. PICK granted \in SUBSET Calls :
          DrainResult(granted, {LaneOf[c]}, st, active, limit, arrived)
    BY <1>0, <2>1, <2>2, DrainEffect DEF TypeOK
  <2> QED
    BY <2>3, <2>4, <2>5 DEF DrainResult, NobodyWaitsInVain, TypeOK
<1>3. ASSUME NEW c \in Calls, Finish(c) PROVE NobodyWaitsInVain'
  <2> DEFINE st == [status EXCEPT ![c] = "idle"]
             used == [active EXCEPT ![LaneOf[c]] = IF @ > 0 THEN @ - 1 ELSE 0]
  <2>1. st \in [Calls -> Status] /\ used \in [Lanes -> Nat]
    <3>1. active[LaneOf[c]] \in Nat
      BY <1>0 DEF TypeOK
    <3>2. (IF active[LaneOf[c]] > 0 THEN active[LaneOf[c]] - 1 ELSE 0) \in Nat
      BY <3>1
    <3> QED
      BY <3>2 DEF Status, TypeOK
  <2>2. Drain({LaneOf[c]}, st, used, limit, older)
    BY <1>3 DEF Finish
  <2>3. aborted' = aborted \ {c} /\ disposed' = disposed
    BY <1>3 DEF Finish
  <2>4. /\ \A x \in aborted' : st[x] = "running"
        /\ disposed => \A x \in Calls : st[x] # "queued"
    BY <2>3 DEF NobodyWaitsInVain, TypeOK
  <2> HIDE DEF st, used
  <2>5. PICK granted \in SUBSET Calls :
          DrainResult(granted, {LaneOf[c]}, st, used, limit, older)
    BY <1>0, <2>1, <2>2, DrainEffect DEF TypeOK
  <2> QED
    BY <2>3, <2>4, <2>5 DEF DrainResult, NobodyWaitsInVain, TypeOK
<1>4. ASSUME NEW c \in Calls, Abort(c) PROVE NobodyWaitsInVain'
  BY <1>4 DEF Abort, NobodyWaitsInVain, TypeOK
<1>5. ASSUME NEW raw \in [Lanes -> RawLimits], updateLimits(raw) PROVE NobodyWaitsInVain'
  <2> DEFINE lim == [l \in Lanes |-> normalizeLimit(raw[l], DefaultLimit[l])]
  <2>1. lim \in [Lanes -> Nat \ {0}]
    BY NormalizedLimits
  <2>2. Drain(Lanes, status, active, lim, older)
    BY <1>5 DEF updateLimits
  <2> HIDE DEF lim
  <2>3. PICK granted \in SUBSET Calls : DrainResult(granted, Lanes, status, active, lim, older)
    BY <2>1, <2>2, DrainEffect DEF TypeOK, Status
  <2> QED
    BY <1>5, <2>3 DEF updateLimits, DrainResult, NobodyWaitsInVain, TypeOK
<1>6. ASSUME dispose PROVE NobodyWaitsInVain'
  BY <1>6 DEF dispose, NobodyWaitsInVain, TypeOK
<1>7. CASE UNCHANGED vars
  BY <1>7 DEF vars, NobodyWaitsInVain
<1> QED
  BY <1>1, <1>2, <1>3, <1>4, <1>5, <1>6, <1>7 DEF Next

\* Nobody waits in vain: in every reachable state the signal of a queued call
\* has not fired and the governor it waits for has not been disposed.
THEOREM NoWaiterIsDead == Spec => []NoDeadWaiter
<1>1. Init => NobodyWaitsInVain
  BY DEF Init, NobodyWaitsInVain
<1>2. NobodyWaitsInVain => NoDeadWaiter
  BY DEF NobodyWaitsInVain, NoDeadWaiter
<1> QED
  BY <1>1, <1>2, TypeCorrect, DeadWaiterStep, PTL DEF Spec

-----------------------------------------------------------------------------
\* The weights of priorities can be compared.
LEMMA WeightsAreNumbers == ASSUME NEW c \in Calls PROVE Weight(c) \in Nat
  BY GovernorAssumption DEF Weight, PRIORITY_WEIGHT

\* The part of NoOvertaking that is about one call.
Overtakes(c) ==
  /\ status[c] # "running" /\ status'[c] = "running"
  /\ \E w \in CallsOn(LaneOf[c]) :
       /\ status[w] = "queued" /\ status'[w] = "queued"
       /\ ~ (Weight(w) > Weight(c))
       /\ ~ (Weight(w) = Weight(c) /\ status[c] = "queued" /\ w \notin older[c])

\* Whoever drain() grants was queued, and precedes whoever stays queued.
LEMMA DrainKeepsOrder ==
  ASSUME NEW lanes \in SUBSET Lanes,
         NEW st \in [Calls -> Status],
         NEW used \in [Lanes -> Nat],
         NEW lim \in [Lanes -> Nat \ {0}],
         NEW ord \in [Calls -> SUBSET Calls],
         Drain(lanes, st, used, lim, ord),
         NEW c \in Calls, st[c] # "running", status'[c] = "running",
         NEW w \in CallsOn(LaneOf[c]), st[w] = "queued", status'[w] = "queued"
  PROVE  /\ st[c] = "queued"
         /\ \/ Weight(w) > Weight(c)
            \/ Weight(w) = Weight(c) /\ w \notin ord[c]
<1>1. PICK granted \in SUBSET Calls : DrainResult(granted, lanes, st, used, lim, ord)
  BY DrainEffect
<1>2. c \in granted /\ st[c] = "queued" /\ LaneOf[c] \in lanes
  BY <1>1 DEF DrainResult
<1>3. w \in Waiting(st, LaneOf[c]) \ granted /\ c \in granted \cap CallsOn(LaneOf[c])
  BY <1>1, <1>2 DEF DrainResult, Waiting, CallsOn
<1>4. ~ Precedes(w, c, ord)
  BY <1>1, <1>2, <1>3 DEF DrainResult
<1>5. Weight(w) \in Nat /\ Weight(c) \in Nat
  BY WeightsAreNumbers DEF CallsOn
<1> QED
  BY <1>2, <1>4, <1>5 DEF Precedes

\* No handler grants a permit past a waiter that comes first.
LEMMA OrderStep == TypeOK /\ [Next]_vars => \A c \in Calls : ~ Overtakes(c)
<1> SUFFICES ASSUME TypeOK, [Next]_vars,
                    NEW c \in Calls, status[c] # "running", status'[c] = "running",
                    NEW w \in CallsOn(LaneOf[c]),
                    status[w] = "queued", status'[w] = "queued"
             PROVE  \/ Weight(w) > Weight(c)
                    \/ Weight(w) = Weight(c) /\ status[c] = "queued" /\ w \notin older[c]
  BY DEF Overtakes
<1>0. /\ \A x \in Calls : LaneOf[x] \in Lanes
      /\ w \in Calls /\ LaneOf[w] = LaneOf[c]
  BY GovernorAssumption DEF CallsOn
<1>1. ASSUME NEW d \in Calls, AcquireAtOnce(d) PROVE FALSE
  <2>1. d = c
    BY <1>1 DEF AcquireAtOnce, TypeOK
  <2> QED
    BY <1>0, <1>1, <2>1 DEF AcquireAtOnce, Waiting
<1>2. CASE \E d \in Calls : Enqueue(d)
  <2>0. PICK d \in Calls : Enqueue(d)
    BY <1>2
  <2> DEFINE st == [status EXCEPT ![d] = "queued"]
             arrived == [older EXCEPT ![d] = Waiting(status, LaneOf[d])]
  <2>1. st \in [Calls -> Status] /\ arrived \in [Calls -> SUBSET Calls]
    BY DEF Status, Waiting, CallsOn, TypeOK
  <2>2. Drain({LaneOf[d]}, st, active, limit, arrived) /\ status[d] = "idle"
    BY <2>0 DEF Enqueue, CanCall
  <2>3. st[c] # "running" /\ st[w] = "queued"
    BY <1>0 DEF TypeOK
  <2>4. IF c = d THEN w \in arrived[c] ELSE arrived[c] = older[c] /\ st[c] = status[c]
    BY <1>0 DEF Waiting, CallsOn, TypeOK
  <2>5. {LaneOf[d]} \in SUBSET Lanes
    BY <1>0
  <2> HIDE DEF st, arrived
  <2>6. /\ st[c] = "queued"
        /\ \/ Weight(w) > Weight(c)
           \/ Weight(w) = Weight(c) /\ w \notin arrived[c]
    BY <2>1, <2>2, <2>3, <2>5, DrainKeepsOrder DEF TypeOK
  <2> QED
    BY <2>4, <2>6
<1>3. CASE \E d \in Calls : Finish(d)
  <2>0. PICK d \in Calls : Finish(d)
    BY <1>3
  <2> DEFINE st == [status EXCEPT ![d] = "idle"]
             used == [active EXCEPT ![LaneOf[d]] = IF @ > 0 THEN @ - 1 ELSE 0]
  <2>1. st \in [Calls -> Status] /\ used \in [Lanes -> Nat]
    <3>1. active[LaneOf[d]] \in Nat
      BY <1>0 DEF TypeOK
    <3>2. (IF active[LaneOf[d]] > 0 THEN active[LaneOf[d]] - 1 ELSE 0) \in Nat
      BY <3>1
    <3> QED
      BY <3>2 DEF Status, TypeOK
  <2>2. Drain({LaneOf[d]}, st, used, limit, older) /\ status[d] = "running"
    BY <2>0 DEF Finish
  <2>3. st[c] = status[c] /\ st[w] = status[w]
    BY <1>0, <2>2 DEF TypeOK
  <2>4. {LaneOf[d]} \in SUBSET Lanes
    BY <1>0
  <2>5. /\ st[c] # "running" /\ st[w] = "queued"
        /\ limit \in [Lanes -> Nat \ {0}] /\ older \in [Calls -> SUBSET Calls]
    BY <2>3 DEF TypeOK
  <2> HIDE DEF st, used
  <2>6. /\ st[c] = "queued"
        /\ \/ Weight(w) > Weight(c)
           \/ Weight(w) = Weight(c) /\ w \notin older[c]
    BY <2>1, <2>2, <2>4, <2>5, DrainKeepsOrder
  <2> QED
    BY <2>3, <2>6
<1>4. ASSUME NEW d \in Calls, Abort(d) PROVE FALSE
  BY <1>4 DEF Abort, TypeOK
<1>5. CASE \E raw \in [Lanes -> RawLimits] : updateLimits(raw)
  <2>0. PICK raw \in [Lanes -> RawLimits] : updateLimits(raw)
    BY <1>5
  <2> DEFINE lim == [l \in Lanes |-> normalizeLimit(raw[l], DefaultLimit[l])]
  <2>1. lim \in [Lanes -> Nat \ {0}]
    BY NormalizedLimits
  <2>2. Drain(Lanes, status, active, lim, older)
    BY <2>0 DEF updateLimits
  <2> HIDE DEF lim
  <2> QED
    BY <2>1, <2>2, DrainKeepsOrder DEF TypeOK, Status
<1>6. ASSUME dispose PROVE FALSE
  BY <1>6 DEF dispose, TypeOK
<1>7. ASSUME UNCHANGED vars PROVE FALSE
  BY <1>7 DEF vars
<1> QED
  BY <1>1, <1>2, <1>3, <1>4, <1>5, <1>6, <1>7 DEF Next

\* No step of the governor hands a permit past a waiter of higher priority, or
\* of the same priority and longer standing.
THEOREM NobodyIsOvertaken == Spec => NoOvertaking
<1>1. TypeOK /\ [Next]_vars =>
        \A c \in Calls :
          (status[c] # "running" /\ status'[c] = "running") =>
            \A w \in CallsOn(LaneOf[c]) :
              (status[w] = "queued" /\ status'[w] = "queued") =>
                \/ Weight(w) > Weight(c)
                \/ Weight(w) = Weight(c) /\ status[c] = "queued" /\ w \notin older[c]
  BY OrderStep DEF Overtakes
<1> QED
  BY <1>1, TypeCorrect, PTL DEF Spec, NoOvertaking

-----------------------------------------------------------------------------
\* PermitPool counts as this module does.
LEMMA PoolCounts == ASSUME NEW S PROVE Pool!Cardinality(S) = Cardinality(S)
  BY DEF Pool!Cardinality, Cardinality, Pool!IsFiniteSet, IsFiniteSet

\* The abstract pool's holders when the calls stand as st says.
RunningIn(st) == {c \in Calls : st[c] = "running"}
Running == RunningIn(status)

\* What drain() grants fits the pool: on a lane that gets a permit, those who
\* hold one afterwards are no more than the limit.
LEMMA DrainFitsPool ==
  ASSUME NEW lanes \in SUBSET Lanes,
         NEW st \in [Calls -> Status],
         NEW used \in [Lanes -> Nat],
         NEW lim \in [Lanes -> Nat \ {0}],
         NEW ord \in [Calls -> SUBSET Calls],
         Drain(lanes, st, used, lim, ord),
         PermitConservation'
  PROVE  \E granted \in SUBSET Calls :
           /\ Pool!GrantWithin(RunningIn(st), granted, lim)
           /\ Running' = RunningIn(st) \cup granted
<1>1. PICK granted \in SUBSET Calls : DrainResult(granted, lanes, st, used, lim, ord)
  BY DrainEffect
<1>2. Running' = RunningIn(st) \cup granted
  BY <1>1 DEF DrainResult, Running, RunningIn
<1>3. ASSUME NEW l \in Lanes, Pool!On(granted, l) # {}
      PROVE  Cardinality(Pool!On(RunningIn(st) \cup granted, l)) <= lim[l]
  <2>1. granted \cap CallsOn(l) # {}
    BY <1>3 DEF Pool!On, CallsOn
  <2>2. active'[l] <= lim[l]
    BY <1>1, <2>1 DEF DrainResult
  <2>3. Pool!On(RunningIn(st) \cup granted, l) = Holders(l)'
    BY <1>2 DEF Pool!On, Holders, CallsOn, Running, RunningIn
  <2> QED
    BY <2>2, <2>3 DEF PermitConservation
<1> QED
  BY <1>2, <1>3, PoolCounts DEF Pool!GrantWithin

\* Every handler grants, returns or resizes in the abstract pool, or does
\* nothing there.
LEMMA PoolStep ==
  /\ TypeOK /\ TypeOK'
  /\ PermitConservation /\ PermitConservation'
  /\ [Next]_vars
  => [Pool!Next]_(Pool!PoolVars)
<1> SUFFICES ASSUME TypeOK, TypeOK', PermitConservation, PermitConservation', [Next]_vars
             PROVE  [Pool!Next]_(Pool!PoolVars)
  OBVIOUS
<1>0. \A c \in Calls : LaneOf[c] \in Lanes
  BY GovernorAssumption
<1>1. ASSUME NEW c \in Calls, AcquireAtOnce(c) PROVE Pool!Grant
  <2>1. Running' = Running \cup {c} /\ limit' = limit
    BY <1>1 DEF AcquireAtOnce, Running, RunningIn, TypeOK
  <2>2. ASSUME NEW l \in Lanes, Pool!On({c}, l) # {}
        PROVE  Cardinality(Pool!On(Running \cup {c}, l)) <= limit[l]
    <3>1. l = LaneOf[c]
      BY <2>2 DEF Pool!On
    <3>2. active'[l] <= limit[l]
      BY <1>1, <3>1 DEF AcquireAtOnce, TypeOK
    <3>3. Pool!On(Running \cup {c}, l) = Holders(l)'
      BY <2>1 DEF Pool!On, Holders, CallsOn, Running, RunningIn
    <3> QED
      BY <3>2, <3>3 DEF PermitConservation
  <2>3. Pool!GrantWithin(Running, {c}, limit)
    BY <2>2, PoolCounts DEF Pool!GrantWithin
  <2> QED
    BY <2>1, <2>3 DEF Pool!Grant, Running, RunningIn
<1>2. ASSUME NEW c \in Calls, Enqueue(c) PROVE Pool!Grant
  <2> DEFINE st == [status EXCEPT ![c] = "queued"]
             arrived == [older EXCEPT ![c] = Waiting(status, LaneOf[c])]
  <2>1. st \in [Calls -> Status] /\ arrived \in [Calls -> SUBSET Calls]
    BY DEF Status, Waiting, CallsOn, TypeOK
  <2>2. Drain({LaneOf[c]}, st, active, limit, arrived) /\ limit' = limit
    BY <1>2 DEF Enqueue
  <2>3. Running = RunningIn(st)
    BY <1>2 DEF Enqueue, CanCall, Running, RunningIn, TypeOK
  <2>4. {LaneOf[c]} \in SUBSET Lanes
    BY <1>0
  <2> HIDE DEF st, arrived
  <2>5. \E granted \in SUBSET Calls :
          Pool!GrantWithin(Running, granted, limit) /\ Running' = Running \cup granted
    BY <2>1, <2>2, <2>3, <2>4, DrainFitsPool DEF TypeOK
  <2> QED
    BY <2>2, <2>5 DEF Pool!Grant, Running, RunningIn
<1>3. ASSUME NEW c \in Calls, Finish(c) PROVE Pool!Return(c)
  <2> DEFINE st == [status EXCEPT ![c] = "idle"]
             used == [active EXCEPT ![LaneOf[c]] = IF @ > 0 THEN @ - 1 ELSE 0]
  <2>1. st \in [Calls -> Status] /\ used \in [Lanes -> Nat]
    <3>1. active[LaneOf[c]] \in Nat
      BY <1>0 DEF TypeOK
    <3>2. (IF active[LaneOf[c]] > 0 THEN active[LaneOf[c]] - 1 ELSE 0) \in Nat
      BY <3>1
    <3> QED
      BY <3>2 DEF Status, TypeOK
  <2>2. Drain({LaneOf[c]}, st, used, limit, older) /\ limit' = limit /\ c \in Running
    BY <1>3 DEF Finish, Running, RunningIn
  <2>3. Running \ {c} = RunningIn(st)
    BY DEF Running, RunningIn, TypeOK
  <2>4. {LaneOf[c]} \in SUBSET Lanes
    BY <1>0
  <2> HIDE DEF st, used
  <2>5. \E granted \in SUBSET Calls :
          Pool!GrantWithin(RunningIn(st), granted, limit) /\ Running' = RunningIn(st) \cup granted
    BY <2>1, <2>2, <2>4, DrainFitsPool DEF TypeOK
  <2>6. \E granted \in SUBSET Calls :
          /\ Pool!GrantWithin(Running \ {c}, granted, limit)
          /\ Running' = (Running \ {c}) \cup granted
    BY <2>3, <2>5
  <2> QED
    BY <2>2, <2>6 DEF Pool!Return, Running, RunningIn
<1>4. ASSUME NEW c \in Calls, Abort(c) PROVE UNCHANGED Pool!PoolVars
  BY <1>4 DEF Abort, Pool!PoolVars, TypeOK
<1>5. ASSUME NEW raw \in [Lanes -> RawLimits], updateLimits(raw) PROVE Pool!Resize
  <2> DEFINE lim == [l \in Lanes |-> normalizeLimit(raw[l], DefaultLimit[l])]
  <2>1. lim \in [Lanes -> Nat \ {0}]
    BY NormalizedLimits
  <2>2. Drain(Lanes, status, active, lim, older) /\ limit' = lim
    BY <1>5 DEF updateLimits
  <2> HIDE DEF lim
  <2>3. \E granted \in SUBSET Calls :
          Pool!GrantWithin(Running, granted, lim) /\ Running' = Running \cup granted
    BY <2>1, <2>2, DrainFitsPool DEF TypeOK, Status, Running
  <2> QED
    BY <2>1, <2>2, <2>3 DEF Pool!Resize, Running, RunningIn
<1>6. ASSUME dispose PROVE UNCHANGED Pool!PoolVars
  BY <1>6 DEF dispose, Pool!PoolVars, TypeOK
<1>7. CASE UNCHANGED vars
  BY <1>7 DEF vars, Pool!PoolVars
<1> QED
  BY <1>1, <1>2, <1>3, <1>4, <1>5, <1>6, <1>7 DEF Next, Pool!Next

\* The governor implements the pool of permits: no permit is handed out beyond
\* the limit in force, whatever happens to queues, signals and limits.
THEOREM GovernorImplementsPool == Spec => ImplementsPermitPool
<1>1. Init => Pool!Init
  BY TypeInit DEF Init, TypeOK, Pool!Init
<1>2. TypeOK /\ TypeOK' /\ PermitConservation /\ PermitConservation' /\ [Next]_vars
        => [Pool!Next]_(Pool!PoolVars)
  BY PoolStep
<1> QED
  BY <1>1, <1>2, TypeCorrect, PermitsAreConserved, PTL
  DEF Spec, ImplementsPermitPool, Pool!Spec

=============================================================================
