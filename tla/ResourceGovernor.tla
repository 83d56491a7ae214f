--------------------------- MODULE ResourceGovernor ---------------------------
(***************************************************************************)
(* RuntimeResourceGovernor (core/runtime-resource-governor.ts): the gate   *)
(* every LLM request, tool call and CPU-heavy job of the runtime passes.   *)
(* Each lane hands out at most limits[lane] permits at a time, keeps the   *)
(* callers it cannot serve in a priority queue, and serves that queue      *)
(* whenever a permit comes back or the limits are raised.                  *)
(*                                                                         *)
(* A call of run() occupies one element of Calls; the element is used      *)
(* again for a later call once the first has settled, so any number of     *)
(* calls may arrive in turn.  JavaScript runs each handler to completion,  *)
(* so one handler is one action.                                           *)
(***************************************************************************)
EXTENDS Integers, FiniteSets

CONSTANTS
  Calls,          \* concurrent calls of run()
  Lanes,          \* 'llm', 'tool', 'cpu'
  LaneOf,         \* the lane each call asks for
  PriorityOf,     \* the priority each call states, or Unstated
  RawLimits,      \* the values a configuration may give as a limit
  DefaultLimit,   \* DEFAULT_LIMITS
  Unstated        \* a field the caller left undefined

ASSUME GovernorAssumption ==
  /\ IsFiniteSet(Calls)
  /\ LaneOf \in [Calls -> Lanes]
  /\ DefaultLimit \in [Lanes -> Nat \ {0}]
  /\ PriorityOf \in
       [Calls -> {"interactive", "recovery", "workflow", "scheduler", Unstated}]
  /\ Unstated \notin Int
  /\ Unstated \notin {"interactive", "recovery", "workflow", "scheduler"}
  /\ RawLimits \subseteq Int \cup {Unstated}

VARIABLES
  limit,      \* limits: permits a lane may have out
  active,     \* active: the counter of permits out, per lane
  status,     \* where each call stands: idle, queued or running its task
  older,      \* the queued calls whose sequence number is below this call's
  aborted,    \* calls whose AbortSignal has fired
  disposed    \* dispose() has run

vars == <<limit, active, status, older, aborted, disposed>>

-----------------------------------------------------------------------------
PRIORITY_WEIGHT ==
  [interactive |-> 0, recovery |-> 1, workflow |-> 2, scheduler |-> 3]

Weight(c) ==
  IF PriorityOf[c] = Unstated THEN PRIORITY_WEIGHT["workflow"]
                              ELSE PRIORITY_WEIGHT[PriorityOf[c]]

\* Fractions and non-finite numbers are abstracted to the integer they floor
\* to and to Unstated.
normalizeLimitIgnoringZero(raw, fallback) ==
  IF raw = Unstated THEN fallback ELSE raw

normalizeLimit(raw, fallback) ==
  IF raw = Unstated THEN fallback
  ELSE IF raw < 1 THEN 1 ELSE raw

CallsOn(lane) == {c \in Calls : LaneOf[c] = lane}
Holders(lane) == {c \in CallsOn(lane) : status[c] = "running"}

\* waiters[lane] when the calls stand as st says.
Waiting(st, lane) == {c \in CallsOn(lane) : st[c] = "queued"}

\* The comparison of the sort in drain(): by weight, then by sequence number.
PrecedesByArrival(first, second, ord) == first \in ord[second]

Precedes(first, second, ord) ==
  \/ Weight(first) < Weight(second)
  \/ Weight(first) = Weight(second) /\ first \in ord[second]

\* The order among those still queued.
Reordered(st, ord) ==
  [c \in Calls |-> {x \in ord[c] : st[c] = "queued" /\ st[x] = "queued"}]

Lesser(m, n) == IF m < n THEN m ELSE n
Free(used, lim, lane) == IF used[lane] < lim[lane] THEN lim[lane] - used[lane] ELSE 0

(***************************************************************************)
(* drain(lane) for every lane of a set, from the statuses st, the counters *)
(* used, the limits lim and the arrival order ord: the loop takes the head *)
(* of the sorted queue while a permit is free, so the calls it grants are  *)
(* the first Free(lane) of the queue, or all of it.  Its test of an        *)
(* already aborted signal is never met: see NoDeadWaiter.                  *)
(***************************************************************************)
DrainInAnyOrder(lanes, st, used, lim, ord) ==
  \E granted \in SUBSET UNION {Waiting(st, l) : l \in lanes} :
    /\ \A l \in lanes :
         Cardinality(granted \cap CallsOn(l)) =
           Lesser(Free(used, lim, l), Cardinality(Waiting(st, l)))
    /\ status' = [c \in Calls |-> IF c \in granted THEN "running" ELSE st[c]]
    /\ active' = [l \in Lanes |-> used[l] + Cardinality(granted \cap CallsOn(l))]
    /\ older' = Reordered(status', ord)

Drain(lanes, st, used, lim, ord) ==
  \E granted \in SUBSET UNION {Waiting(st, l) : l \in lanes} :
    /\ \A l \in lanes :
         /\ Cardinality(granted \cap CallsOn(l)) =
              Lesser(Free(used, lim, l), Cardinality(Waiting(st, l)))
         /\ \A c \in granted \cap CallsOn(l), w \in Waiting(st, l) \ granted :
              ~ Precedes(w, c, ord)
    /\ status' = [c \in Calls |-> IF c \in granted THEN "running" ELSE st[c]]
    /\ active' = [l \in Lanes |-> used[l] + Cardinality(granted \cap CallsOn(l))]
    /\ older' = Reordered(status', ord)

-----------------------------------------------------------------------------
Init ==
  /\ \E raw \in [Lanes -> RawLimits] :
       limit = [l \in Lanes |-> normalizeLimit(raw[l], DefaultLimit[l])]
  /\ active = [l \in Lanes |-> 0]
  /\ status = [c \in Calls |-> "idle"]
  /\ older = [c \in Calls |-> {}]
  /\ aborted = {}
  /\ disposed = FALSE

\* acquire() refuses a call on a disposed governor or with a fired signal and
\* changes nothing; such a call leaves its element idle.
CanCall(c) == status[c] = "idle" /\ ~disposed

\* acquire() with a permit free and nobody waiting: the task starts at once.
AcquireAtOnce(c) ==
  /\ CanCall(c)
  /\ active[LaneOf[c]] < limit[LaneOf[c]]
  /\ Waiting(status, LaneOf[c]) = {}
  /\ active' = [active EXCEPT ![LaneOf[c]] = @ + 1]
  /\ status' = [status EXCEPT ![c] = "running"]
  /\ UNCHANGED <<limit, older, aborted, disposed>>

\* acquire() otherwise: a waiter with the next sequence number is pushed, and
\* the lane drained.
Enqueue(c) ==
  LET lane == LaneOf[c]
      arrived == [older EXCEPT ![c] = Waiting(status, lane)]
  IN  /\ CanCall(c)
      /\ active[lane] >= limit[lane] \/ Waiting(status, lane) # {}
      /\ Drain({lane}, [status EXCEPT ![c] = "queued"], active, limit, arrived)
      /\ UNCHANGED <<limit, aborted, disposed>>

\* The task settles, either way: the finally block of run() releases the lane.
FinishWithoutDrain(c) ==
  /\ status[c] = "running"
  /\ aborted' = aborted \ {c}
  /\ status' = [status EXCEPT ![c] = "idle"]
  /\ active' = [active EXCEPT ![LaneOf[c]] = IF @ > 0 THEN @ - 1 ELSE 0]
  /\ UNCHANGED <<limit, older, disposed>>

FinishUnlessAborted(c) ==
  LET lane == LaneOf[c]
      used == [active EXCEPT ![lane] = IF c \notin aborted THEN @ - 1 ELSE @]
  IN  /\ status[c] = "running"
      /\ aborted' = aborted \ {c}
      /\ Drain({lane}, [status EXCEPT ![c] = "idle"], used, limit, older)
      /\ UNCHANGED <<limit, disposed>>

FinishReleasingTwice(c) ==
  LET lane == LaneOf[c]
      used == [active EXCEPT ![lane] = IF @ > 1 THEN @ - 2 ELSE 0]
  IN  /\ status[c] = "running"
      /\ aborted' = aborted \ {c}
      /\ Drain({lane}, [status EXCEPT ![c] = "idle"], used, limit, older)
      /\ UNCHANGED <<limit, disposed>>

Finish(c) ==
  LET lane == LaneOf[c]
      used == [active EXCEPT ![lane] = IF @ > 0 THEN @ - 1 ELSE 0]
  IN  /\ status[c] = "running"
      /\ aborted' = aborted \ {c}
      /\ Drain({lane}, [status EXCEPT ![c] = "idle"], used, limit, older)
      /\ UNCHANGED <<limit, disposed>>

\* The caller's signal fires.  A queued call leaves the queue and is rejected;
\* a running one keeps its permit until its task settles.
Abort(c) ==
  /\ status[c] # "idle" /\ c \notin aborted
  /\ \/ /\ status[c] = "queued"
        /\ status' = [status EXCEPT ![c] = "idle"]
        /\ older' = Reordered(status', older)
        /\ UNCHANGED aborted
     \/ /\ status[c] = "running"
        /\ aborted' = aborted \cup {c}
        /\ UNCHANGED <<status, older>>
  /\ UNCHANGED <<limit, active, disposed>>

\* updateLimits(): every lane gets its new limit, then every lane is drained.
updateLimits(raw) ==
  LET lim == [l \in Lanes |-> normalizeLimit(raw[l], DefaultLimit[l])]
  IN  /\ limit' = lim
      /\ Drain(Lanes, status, active, lim, older)
      /\ UNCHANGED <<aborted, disposed>>

\* dispose(): whoever waits is rejected; permits out stay out until released.
dispose ==
  /\ disposed' = TRUE
  /\ status' = [c \in Calls |-> IF status[c] = "queued" THEN "idle" ELSE status[c]]
  /\ older' = Reordered(status', older)
  /\ UNCHANGED <<limit, active, aborted>>

Next ==
  \/ \E c \in Calls : AcquireAtOnce(c) \/ Enqueue(c) \/ Finish(c) \/ Abort(c)
  \/ \E raw \in [Lanes -> RawLimits] : updateLimits(raw)
  \/ dispose

\* Tasks settle: the executors behind the permits carry timeouts of their own.
Spec == Init /\ [][Next]_vars
FairSpec == Spec /\ \A c \in Calls : WF_vars(Finish(c))

-----------------------------------------------------------------------------
TypeOK ==
  /\ limit \in [Lanes -> Nat \ {0}]
  /\ active \in [Lanes -> Nat]
  /\ status \in [Calls -> {"idle", "queued", "running"}]
  /\ older \in [Calls -> SUBSET Calls]
  /\ aborted \subseteq Calls
  /\ disposed \in BOOLEAN

\* The counter that acquire, drain and release move separately (lines 113, 133,
\* 153) always equals the number of tasks that hold a permit: none is lost or
\* returned twice, on whichever path a call got in.
PermitConservation ==
  \A l \in Lanes : active[l] = Cardinality(Holders(l))

\* Nobody waits on a lane that has a permit free: every path that frees one or
\* raises a limit also drains the queue (lines 89, 128, 134).
NoLostWakeup ==
  \A l \in Lanes : active[l] < limit[l] => Waiting(status, l) = {}

\* A call whose signal has fired is not left in the queue to be granted later
\* (the listener of lines 118-126), and a disposed governor keeps no waiter
\* that would never be settled (lines 95-101).
NoDeadWaiter ==
  \A c \in Calls : status[c] = "queued" => c \notin aborted /\ ~disposed

\* Whoever gets a permit leaves no waiter behind that the order of drain()
\* puts first: newcomers do not pass the queue (line 112) and the queue is
\* served by priority, then by arrival (lines 139-143).
NoOvertaking ==
  [][\A c \in Calls :
       (status[c] # "running" /\ status'[c] = "running") =>
         \A w \in CallsOn(LaneOf[c]) :
           (status[w] = "queued" /\ status'[w] = "queued") =>
             \/ Weight(w) > Weight(c)
             \/ Weight(w) = Weight(c) /\ status[c] = "queued" /\ w \notin older[c]]_vars

\* With its queue, counters and signals hidden, the governor is a counting
\* semaphore per lane whose limit may change at any time: a permit is never
\* handed out beyond the limit in force at that moment, though permits already
\* out may exceed a limit that was lowered.
Pool == INSTANCE PermitPool
  WITH holders <- {c \in Calls : status[c] = "running"}

ImplementsPermitPool == Pool!Spec

\* An interactive call that has to wait is granted or rejected in the end,
\* however many calls of lower priority keep arriving on its lane.
InteractiveCallsAreServed ==
  \A c \in Calls :
    PriorityOf[c] = "interactive" =>
      (status[c] = "queued") ~> (status[c] # "queued")

=============================================================================
