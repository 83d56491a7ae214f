----------------------- MODULE AgentKernelService_proofs -----------------------
(***************************************************************************)
(* Proofs about AgentKernelService for any runs, any bounds on their steps *)
(* and any set of runs that are hit during a save: that system calls are   *)
(* executed once, that records match live runs, that no run is left        *)
(* without a pump to come, that no run vanishes without an outcome, and    *)
(* that dispose() leaves nothing behind.                                   *)
(***************************************************************************)
EXTENDS AgentKernelService, TLAPS

IsFinished(s) == isTerminalProcessStatus(s.status)

\* What the table may hold of run r.
Image(r) ==
  {s \in Snapshot :
     /\ ~ s.delayed
     /\ s.runs <= Limit[r] /\ (~ IsFinished(s) => s.runs < Limit[r])
     /\ s.status = "waiting" <=> s.call # NoCall
     /\ s.call # NoCall => s.call = s.runs}

AtWorkOn(r, stages) == pump.stage \in stages /\ r \in pump.runs
Begun == started \ queued
Unhit == RunIds \ HitDuringSave

ServiceIsTyped ==
  /\ TypeOK
  /\ \A r \in RunIds : Alive(r) => proc[r] \in Image(r) /\ r \in Begun

\* Nothing is known of a run that has not begun.
NewRunsAreNew ==
  \A r \in RunIds \ Begun :
    /\ rec[r] = "none" /\ worker[r].phase = "none"
    /\ \A call \in 1..MaxRuns : executions[r][call] = 0

\* A snapshot captured is that of the table, but for calls answered since.
PumpIsSound ==
  /\ pump.runs \subseteq Begun
  /\ pump.stage \notin {"archive", "remove"} => pump.todo = {}
  /\ pump.stage # "save" => pump.next = NoSnapshot
  /\ \A d, e \in pump.todo : d.run = e.run => d = e
  /\ \A e \in pump.todo :
       /\ e.run \in Begun
       /\ Alive(e.run) =>
            \/ proc[e.run].status = e.status
            \/ proc[e.run].status = "ready" /\ e.status = "waiting"

\* A run is running just while the pump awaits its step, unless it has been
\* removed; and while its save is awaited the table holds what is saved.
StepsAreSound ==
  \A r \in RunIds :
    /\ proc[r].status = "running" => AtWorkOn(r, {"step"})
    /\ AtWorkOn(r, {"step"}) /\ Alive(r) => proc[r].status = "running"
    /\ AtWorkOn(r, {"step", "save"}) => pump.runs = {r}
    /\ AtWorkOn(r, {"save"}) =>
         /\ pump.next # NoSnapshot => pump.next \in Image(r) /\ pump.next.status # "running"
         /\ Alive(r) => IF pump.next # NoSnapshot THEN proc[r] = pump.next
                                                  ELSE proc[r].status = "error"

\* A reconciliation looks at every run that has ended.
FinishedIsTodo ==
  pump.stage \in {"archive", "remove", "end", "idle"} =>
    \A r \in RunIds : IsFinished(proc[r]) =>
      AtWorkOn(r, {"archive"}) \/ \E e \in pump.todo : e.run = r

ArchivedIsRecorded ==
  \A r \in RunIds : AtWorkOn(r, {"archive"}) => rec[r] \in {"done", "error"}

\* The call a worker executes is the one its run waits for, unless that is gone.
WorkersAreSound ==
  \A r \in RunIds :
    /\ r \in active => worker[r].phase # "none"
    /\ worker[r].phase = "executing" =>
         /\ ~ AtWorkOn(r, {"step", "save"})
         /\ Alive(r) => proc[r].status = "waiting" /\ proc[r].call = worker[r].call
    /\ worker[r].phase = "saving" /\ Alive(r) =>
         proc[r].status = "ready" \/ AtWorkOn(r, {"step", "save"})

OpsAreSound == \A op \in ops : op[2] \in Begun

\* A run that is not hit during its save does not come back.
GoneStaysGone ==
  \A r \in Unhit :
    /\ AtWorkOn(r, {"save"}) => Alive(r)
    /\ <<"abort", r>> \in ops \/ <<"shutdown", r>> \in ops => ~ Alive(r)

\* The calls of later steps have not been executed, nor has the one that a run
\* waits for unless its worker is at it.
CallsAreCounted ==
  \A r \in Unhit :
    /\ \A call \in 1..MaxRuns : executions[r][call] <= 1
    /\ Alive(r) => \A call \in 1..MaxRuns : call > proc[r].runs => executions[r][call] = 0
    /\ proc[r].status = "waiting" /\ ~ (r \in active /\ worker[r].phase = "executing") =>
         executions[r][proc[r].call] = 0

DisposalIsSound ==
  /\ Disposed => ~ timer
  /\ service \in {"closing", "closed"} => AliveRuns = {} /\ pump.stage = "idle"

\* The inductive invariant.
ServiceIsSound ==
  /\ ServiceIsTyped /\ NewRunsAreNew
  /\ PumpIsSound /\ StepsAreSound /\ FinishedIsTodo /\ ArchivedIsRecorded
  /\ WorkersAreSound /\ OpsAreSound /\ GoneStaysGone /\ CallsAreCounted
  /\ RecordsMatchLiveRuns /\ PumpIsArmed /\ DisposalIsSound

-----------------------------------------------------------------------------
LEMMA NoSnapshotIsNone ==
  /\ NoSnapshot.status = "none" /\ ~ IsFinished(NoSnapshot) /\ ~ isRunnable(NoSnapshot)
  /\ \A r \in RunIds : \A s \in Image(r) :
       s # NoSnapshot /\ s.status \in ProcessStatus /\ s.runs \in 0..MaxRuns /\ s.call \in 0..MaxRuns
BY DEF NoSnapshot, Image, Snapshot, ProcessStatus, IsFinished, isTerminalProcessStatus,
       isRunnable, isRunnableProcessStatus

LEMMA LimitsAreBounded == \A r \in RunIds : Limit[r] \in Nat /\ 2 <= Limit[r] /\ Limit[r] <= MaxRuns
BY ServiceAssumption

\* What the operations of the kernel make of the snapshot of a run.
LEMMA CreatedIsImage ==
  ASSUME NEW r \in RunIds
  PROVE  Created \in Image(r) /\ Created.status = "ready" /\ Created.runs = 0
BY LimitsAreBounded, ServiceAssumption
   DEF Created, Image, Snapshot, ProcessStatus, NoCall, IsFinished, isTerminalProcessStatus

LEMMA MarkedIsImage ==
  ASSUME NEW r \in RunIds, NEW s \in Image(r), isRunnable(s)
  PROVE  /\ MarkedRunning(s) \in Image(r) /\ MarkedRunning(s).status = "running"
         /\ MarkedRunning(s).runs = s.runs
         /\ s.status \in {"ready", "running"}
BY LimitsAreBounded, ServiceAssumption
   DEF MarkedRunning, isRunnable, isRunnableProcessStatus, Image, Snapshot, ProcessStatus,
       NoCall, IsFinished, isTerminalProcessStatus

LEMMA StepAppliedIsImage ==
  ASSUME NEW r \in RunIds, NEW s \in Image(r), s.runs < Limit[r],
         NEW signal \in {"YIELD", "WAITING_SYSCALL", "SUSPENDED", "DONE", "ERROR"},
         s.runs + 1 = Limit[r] => signal \in {"DONE", "ERROR"}
  PROVE  /\ StepApplied(s, s, signal) \in Image(r)
         /\ StepApplied(s, s, signal).status # "running"
         /\ StepApplied(s, s, signal).runs = s.runs + 1
<1> DEFINE t == StepApplied(s, s, signal)
<1>1. s \in Snapshot /\ s.runs \in Nat /\ s.retries \in 0..MaxRuns
  BY ServiceAssumption DEF Image, Snapshot
<1>2. s.runs + 1 \in 1..MaxRuns /\ s.runs + 1 <= Limit[r] /\ Limit[r] \in Nat
  BY <1>1, LimitsAreBounded, ServiceAssumption
<1>3. /\ t.status = deriveProcessStatusForSignal(signal)
      /\ t.runs = s.runs + 1 /\ t.retries = s.retries /\ t.result = NoCall
      /\ t.call = IF signal = "WAITING_SYSCALL" THEN s.runs + 1 ELSE NoCall
      /\ t.delayed = FALSE
  BY DEF StepApplied
<1>4. /\ deriveProcessStatusForSignal(signal) \in ProcessStatus \ {"running"}
      /\ deriveProcessStatusForSignal(signal) = "waiting" <=> signal = "WAITING_SYSCALL"
      /\ deriveProcessStatusForSignal(signal) \notin {"done", "error"} =>
           signal \notin {"DONE", "ERROR"}
  BY DEF deriveProcessStatusForSignal, ProcessStatus
<1>5. t \in Snapshot
  BY <1>1, <1>2, <1>4, ServiceAssumption DEF StepApplied, Snapshot, NoCall
<1>6. s.runs + 1 # NoCall /\ (signal \notin {"DONE", "ERROR"} => s.runs + 1 < Limit[r])
  BY <1>1, <1>2 DEF NoCall
<1> QED
  BY <1>2, <1>3, <1>4, <1>5, <1>6 DEF Image, IsFinished, isTerminalProcessStatus

LEMMA StepCrashedIsImage ==
  ASSUME NEW r \in RunIds, NEW s \in Image(r), s.runs < Limit[r]
  PROVE  /\ StepCrashed(s, s) \in Image(r) /\ StepCrashed(s, s).status = "error"
         /\ StepCrashed(s, s).runs = s.runs + 1
<1> DEFINE t == StepCrashed(s, s)
<1>1. s \in Snapshot /\ s.runs \in Nat /\ ~ s.delayed
  BY ServiceAssumption DEF Image, Snapshot
<1>2. s.runs + 1 \in 0..MaxRuns /\ s.runs + 1 <= Limit[r] /\ Limit[r] \in Nat
  BY <1>1, LimitsAreBounded, ServiceAssumption
<1>3. /\ t.status = "error" /\ t.runs = s.runs + 1 /\ t.call = NoCall /\ t.delayed = s.delayed
  BY DEF StepCrashed
<1>4. t \in Snapshot
  BY <1>1, <1>2, ServiceAssumption DEF StepCrashed, Snapshot, NoCall, ProcessStatus
<1> QED
  BY <1>1, <1>2, <1>3, <1>4 DEF Image, IsFinished, isTerminalProcessStatus

LEMMA ResumedIsImage ==
  ASSUME NEW r \in RunIds, NEW s \in Image(r), s.status = "suspended"
  PROVE  /\ Resumed(s) \in Image(r) /\ Resumed(s).status = "ready" /\ Resumed(s).runs = s.runs
BY LimitsAreBounded, ServiceAssumption
   DEF Resumed, Image, Snapshot, ProcessStatus, NoCall, IsFinished, isTerminalProcessStatus

LEMMA ResolvedIsImage ==
  ASSUME NEW r \in RunIds, NEW s \in Image(r), s.status = "waiting"
  PROVE  /\ Resolved(s, s.call) \in Image(r) /\ Resolved(s, s.call).status = "ready"
         /\ Resolved(s, s.call).runs = s.runs
<1> DEFINE t == Resolved(s, s.call)
<1>1. /\ s \in Snapshot /\ s.runs <= Limit[r] /\ s.runs < Limit[r]
      /\ s.call \in 0..MaxRuns
  BY DEF Image, Snapshot, IsFinished, isTerminalProcessStatus
<1>2. /\ t.status = "ready" /\ t.runs = s.runs /\ t.call = NoCall
      /\ t.delayed = FALSE
  BY <1>1 DEF Resolved, Snapshot
<1>3. 0 \in 0..MaxRuns
  BY ServiceAssumption
<1>4. t \in Snapshot
  BY <1>1, <1>3 DEF Resolved, Snapshot, ProcessStatus, NoCall
<1> QED
  BY <1>1, <1>2, <1>4 DEF Image, IsFinished, isTerminalProcessStatus

LEMMA RestorableIsImage ==
  ASSUME NEW r \in RunIds, NEW s \in Restorable, s # NoSnapshot
  PROVE  s \in Image(r) /\ s.status \in {"ready", "waiting", "suspended", "done"}
         /\ s.runs = 1
<1>1. Created \in Image(r) /\ Created.runs = 0 /\ 1 < Limit[r] /\ Limit[r] \in Nat
  BY CreatedIsImage, LimitsAreBounded
<1>2. ASSUME NEW signal \in {"WAITING_SYSCALL", "SUSPENDED", "DONE"}
      PROVE  /\ StepApplied(Created, Created, signal) \in Image(r)
             /\ StepApplied(Created, Created, signal).runs = 1
  <2>1. Created.runs < Limit[r] /\ Created.runs + 1 # Limit[r]
    BY <1>1
  <2> QED
    BY <1>1, <2>1, StepAppliedIsImage
<1>3. \A signal \in {"WAITING_SYSCALL", "SUSPENDED", "DONE"} :
        StepApplied(Created, Created, signal).status = deriveProcessStatusForSignal(signal)
  BY DEF StepApplied
<1>4. /\ deriveProcessStatusForSignal("SUSPENDED") = "suspended"
      /\ deriveProcessStatusForSignal("WAITING_SYSCALL") = "waiting"
      /\ deriveProcessStatusForSignal("DONE") = "done"
  BY DEF deriveProcessStatusForSignal
<1> QED
  BY <1>2, <1>3, <1>4, ResumedIsImage DEF Restorable

\* What is known of the table by its type.
LEMMA TableIsTyped ==
  ASSUME ServiceIsTyped, NEW r \in RunIds
  PROVE  /\ Alive(r) <=> proc[r].status # "none"
         /\ Alive(r) => proc[r] \in Image(r) /\ proc[r].status \in ProcessStatus /\ r \in Begun
         /\ proc[r].status \in ProcessStatus \cup {"none"}
         /\ IsFinished(proc[r]) <=> proc[r].status \in {"done", "error"}
BY NoSnapshotIsNone DEF ServiceIsTyped, Alive, ProcessStatus, IsFinished, isTerminalProcessStatus

-----------------------------------------------------------------------------
Stages == {"idle", "archive", "remove", "fire", "tick", "step", "save", "again", "end"}
Pumps == [stage : Stages, round : 1..2, todo : SUBSET Entry, runs : SUBSET RunIds,
          next : Maybe(Snapshot)]

\* What a reconciliation makes of the pump, the records and the waiters.
LEMMA ReconcileEffect ==
  ASSUME TypeOK, NEW todo \in SUBSET Entry, NEW round \in 1..2, Reconcile(todo, round),
         \A d, e \in todo : d.run = e.run => d = e
  PROVE  /\ pump' \in Pumps /\ pump'.stage \in {"archive", "fire", "end"}
         /\ pump'.todo \subseteq todo /\ pump'.next = NoSnapshot
         /\ pump'.stage # "archive" => pump'.todo = {} /\ pump'.runs = {}
         /\ \A e \in todo : IsFinal(e) =>
              e \in pump'.todo \/ (pump'.stage = "archive" /\ e.run \in pump'.runs)
         /\ \A r \in pump'.runs : rec'[r] \in {"done", "error"} /\ \E e \in todo : e.run = r
         /\ rec' \in [RunIds -> {"none", "suspended", "done", "error"}]
         /\ \A r \in RunIds :
              \/ rec'[r] = rec[r]
              \/ \E e \in todo : e.run = r /\ rec'[r] = RecordOf(e.status)
         /\ waiting' \subseteq waiting
<1>1. PICK seen \in SUBSET {e \in todo : ~ IsFinal(e)}, final \in SUBSET {e \in todo : IsFinal(e)} :
        /\ \A d, e \in final : d = e
        /\ final = {} => seen = todo
        /\ pump' = [NoPump EXCEPT
                      !.round = round,
                      !.stage = IF final # {} THEN "archive" ELSE IF round = 1 THEN "fire" ELSE "end",
                      !.todo = todo \ (seen \cup final),
                      !.runs = {e.run : e \in final},
                      !.next = NoSnapshot]
        /\ rec' = [r \in RunIds |->
                     IF \E e \in seen \cup final : e.run = r
                     THEN RecordOf((CHOOSE e \in todo : e.run = r).status) ELSE rec[r]]
        /\ waiting' = Answered({e.run : e \in {x \in seen : x.status = "suspended"}})
  BY DEF Reconcile
<1>2. /\ pump'.stage = IF final # {} THEN "archive" ELSE IF round = 1 THEN "fire" ELSE "end"
      /\ pump'.todo = todo \ (seen \cup final) /\ pump'.runs = {e.run : e \in final}
      /\ pump'.next = NoSnapshot
  BY <1>1 DEF NoPump
<1>3. pump' \in Pumps
  <2>1. \A e \in todo : e.run \in RunIds
    BY DEF Entry
  <2>2. {e.run : e \in final} \in SUBSET RunIds /\ todo \ (seen \cup final) \in SUBSET Entry
    BY <2>1
  <2>3. NoPump.stage \in Stages /\ NoPump \in Pumps
    BY DEF NoPump, Pumps, Stages, Maybe
  <2>4. NoSnapshot \in Maybe(Snapshot)
    BY DEF Maybe
  <2> QED
    BY <1>1, <2>2, <2>3, <2>4 DEF Pumps, Stages
<1>4. \A e \in todo : IsFinal(e) => e \in pump'.todo \/ (pump'.stage = "archive" /\ e.run \in pump'.runs)
  BY <1>1, <1>2
<1>5. \A status : RecordOf(status) \in {"none", "suspended", "done", "error"}
  BY DEF RecordOf
<1>6. \A e \in todo : (CHOOSE d \in todo : d.run = e.run) = e
  OBVIOUS
<1>7. \A r \in RunIds :
        \/ rec'[r] = rec[r] /\ r \notin pump'.runs
        \/ \E e \in seen \cup final : e.run = r /\ rec'[r] = RecordOf(e.status)
  <2> TAKE r \in RunIds
  <2>1. CASE \E e \in seen \cup final : e.run = r
    <3>1. PICK e \in seen \cup final : e.run = r
      BY <2>1
    <3>2. e \in todo /\ rec'[r] = RecordOf((CHOOSE d \in todo : d.run = r).status)
      BY <1>1, <2>1, <3>1
    <3> QED
      BY <1>6, <3>1, <3>2
  <2>2. CASE ~ \E e \in seen \cup final : e.run = r
    BY <1>1, <1>2, <2>2
  <2> QED
    BY <2>1, <2>2
<1>8. rec' \in [RunIds -> {"none", "suspended", "done", "error"}]
  BY <1>1, <1>5 DEF TypeOK
<1>9. \A r \in pump'.runs : rec'[r] \in {"done", "error"}
  <2> TAKE r \in pump'.runs
  <2>1. PICK f \in final : f.run = r
    BY <1>2
  <2>2. f \in todo /\ r \in RunIds /\ f.status \in {"done", "error"}
    BY <2>1 DEF Entry, IsFinal, isTerminalProcessStatus
  <2>3. PICK e \in seen \cup final : e.run = r /\ rec'[r] = RecordOf(e.status)
    BY <1>7, <2>2
  <2>4. e = f
    BY <1>1, <2>1, <2>2, <2>3
  <2> QED
    BY <2>2, <2>3, <2>4 DEF RecordOf
<1>10. waiting' \subseteq waiting
  BY <1>1 DEF Answered
<1> QED
  <2>1. \A r \in RunIds : \/ rec'[r] = rec[r]
                         \/ \E e \in todo : e.run = r /\ rec'[r] = RecordOf(e.status)
    BY <1>1, <1>7
  <2>2. /\ pump'.stage \in {"archive", "fire", "end"} /\ pump'.todo \subseteq todo
        /\ pump'.stage # "archive" => pump'.todo = {} /\ pump'.runs = {}
    BY <1>1, <1>2
  <2>3. \A r \in pump'.runs : \E e \in todo : e.run = r
    BY <1>1, <1>2
  <2> QED
    BY <1>2, <1>3, <1>4, <1>8, <1>9, <1>10, <2>1, <2>2, <2>3

\* The snapshots that are captured.
LEMMA CapturedIsTyped ==
  ASSUME ServiceIsTyped
  PROVE  /\ Captured \in SUBSET Entry
         /\ \A d, e \in Captured : d.run = e.run => d = e
         /\ \A e \in Captured : e.run \in Begun /\ proc[e.run].status = e.status
         /\ \A r \in RunIds : Alive(r) => \E e \in Captured : e.run = r /\ e.status = proc[r].status
<1>1. \A r \in RunIds : Alive(r) => proc[r].status \in ProcessStatus /\ r \in Begun
  BY TableIsTyped
<1>2. ASSUME NEW e \in Captured
      PROVE  /\ e \in Entry /\ e.run \in Begun /\ proc[e.run].status = e.status
             /\ e = [run |-> e.run, status |-> proc[e.run].status]
  <2>1. PICK r \in RunIds : Alive(r) /\ e = [run |-> r, status |-> proc[r].status]
    BY DEF Captured
  <2> QED
    BY <1>1, <2>1 DEF Entry
<1>3. ASSUME NEW r \in RunIds, Alive(r)
      PROVE  \E e \in Captured : e.run = r /\ e.status = proc[r].status
  <2>1. [run |-> r, status |-> proc[r].status] \in Captured
    BY <1>3 DEF Captured
  <2> QED
    BY <2>1
<1>4. \A d, e \in Captured : d.run = e.run => d = e
  BY <1>2
<1> QED
  BY <1>2, <1>3, <1>4

\* The pump when tick() has begun.
LEMMA TickBeginsEffect ==
  ASSUME ServiceIsTyped, TickBegins, \A r \in RunIds : proc[r].status # "running"
  PROVE  /\ pump' \in Pumps /\ pump'.todo = pump.todo /\ pump'.next = NoSnapshot
         /\ \/ /\ pump'.stage = "again" /\ pump'.runs = {} /\ proc' = proc
            \/ \E r \in RunIds :
                 /\ pump'.stage = "step" /\ pump'.runs = {r}
                 /\ Alive(r) /\ proc[r].status = "ready"
                 /\ proc' = [proc EXCEPT ![r] = MarkedRunning(proc[r])]
                 /\ MarkedRunning(proc[r]) \in Image(r)
                 /\ MarkedRunning(proc[r]).status = "running"
                 /\ MarkedRunning(proc[r]).runs = proc[r].runs
<1>1. pump \in Pumps
  BY DEF ServiceIsTyped, TypeOK, Pumps, Stages
<1>2. CASE \E r \in RunIds :
             /\ isRunnable(proc[r])
             /\ proc' = [proc EXCEPT ![r] = MarkedRunning(@)]
             /\ pump' = [pump EXCEPT !.stage = "step", !.runs = {r}, !.next = NoSnapshot]
  <2>1. PICK r \in RunIds :
          /\ isRunnable(proc[r])
          /\ proc' = [proc EXCEPT ![r] = MarkedRunning(@)]
          /\ pump' = [pump EXCEPT !.stage = "step", !.runs = {r}, !.next = NoSnapshot]
    BY <1>2
  <2>2. Alive(r) /\ proc[r] \in Image(r)
    BY <2>1, NoSnapshotIsNone DEF ServiceIsTyped, Alive
  <2>3. /\ MarkedRunning(proc[r]) \in Image(r) /\ MarkedRunning(proc[r]).status = "running"
        /\ MarkedRunning(proc[r]).runs = proc[r].runs /\ proc[r].status = "ready"
    BY <2>1, <2>2, MarkedIsImage
  <2>4. pump' \in Pumps /\ pump'.todo = pump.todo /\ pump'.next = NoSnapshot
        /\ pump'.stage = "step" /\ pump'.runs = {r}
    BY <1>1, <2>1 DEF Pumps, Stages, Maybe
  <2> QED
    BY <2>1, <2>2, <2>3, <2>4
<1>3. CASE /\ pump' = [pump EXCEPT !.stage = "again", !.runs = {}, !.next = NoSnapshot]
           /\ UNCHANGED proc
  BY <1>1, <1>3 DEF Pumps, Stages, Maybe
<1> QED
  BY <1>2, <1>3 DEF TickBegins

\* A step that returns.
LEMMA StepReturnsEffect ==
  ASSUME ServiceIsTyped, StepsAreSound, PumpIsSound, NEW r \in RunIds, StepReturns(r)
  PROVE  /\ proc[r] \in Image(r) /\ proc[r].status = "running" /\ Alive(r)
         /\ pump' \in Pumps /\ pump'.todo = {} /\ pump'.stage = "save" /\ pump'.runs = {r}
         /\ \E s \in Image(r) :
              /\ proc' = [proc EXCEPT ![r] = s]
              /\ s.status # "running" /\ s.runs = proc[r].runs + 1
              /\ \/ pump'.next = s
                 \/ pump'.next = NoSnapshot /\ s.status = "error"
<1>1. pump \in Pumps /\ pump.todo = {} /\ pump.next = NoSnapshot /\ pump.runs = {r}
  BY DEF ServiceIsTyped, TypeOK, Pumps, Stages, StepReturns, PumpIsSound
<1>2. proc[r] \in Image(r) /\ proc[r].status = "running" /\ Alive(r)
  BY DEF StepReturns, StepsAreSound, AtWorkOn, ServiceIsTyped
<1>3. proc[r].runs < Limit[r]
  BY <1>2 DEF Image, IsFinished, isTerminalProcessStatus
<1>4. proc \in [RunIds -> Maybe(Snapshot)]
  BY DEF ServiceIsTyped, TypeOK
<1>5. ASSUME NEW signal \in {"YIELD", "WAITING_SYSCALL", "SUSPENDED", "DONE", "ERROR"},
             proc[r].runs + 1 = Limit[r] => signal \in {"DONE", "ERROR"},
             proc' = [proc EXCEPT ![r] = StepApplied(@, @, signal)],
             pump' = [pump EXCEPT !.stage = "save", !.next = proc'[r]]
      PROVE  /\ pump' \in Pumps /\ pump'.todo = {} /\ pump'.stage = "save" /\ pump'.runs = {r}
             /\ \E s \in Image(r) :
                  /\ proc' = [proc EXCEPT ![r] = s] /\ pump'.next = s
                  /\ s.status # "running" /\ s.runs = proc[r].runs + 1
  <2> DEFINE s == StepApplied(proc[r], proc[r], signal)
  <2>1. s \in Image(r) /\ s.status # "running" /\ s.runs = proc[r].runs + 1
    BY <1>2, <1>3, <1>5, StepAppliedIsImage
  <2>2. proc' = [proc EXCEPT ![r] = s] /\ proc'[r] = s /\ s \in Snapshot
    BY <1>4, <1>5, <2>1 DEF Image
  <2> HIDE DEF s
  <2>3. pump' \in Pumps /\ pump'.todo = {} /\ pump'.stage = "save" /\ pump'.runs = {r}
        /\ pump'.next = s
    BY <1>1, <1>5, <2>2 DEF Pumps, Stages, Maybe
  <2> QED
    BY <2>1, <2>2, <2>3
<1>6. ASSUME proc' = [proc EXCEPT ![r] = StepCrashed(@, @)],
             pump' = [pump EXCEPT !.stage = "save"]
      PROVE  /\ pump' \in Pumps /\ pump'.todo = {} /\ pump'.stage = "save" /\ pump'.runs = {r}
             /\ \E s \in Image(r) :
                  /\ proc' = [proc EXCEPT ![r] = s] /\ pump'.next = NoSnapshot
                  /\ s.status = "error" /\ s.runs = proc[r].runs + 1
  <2>1. /\ StepCrashed(proc[r], proc[r]) \in Image(r)
        /\ StepCrashed(proc[r], proc[r]).status = "error"
        /\ StepCrashed(proc[r], proc[r]).runs = proc[r].runs + 1
    BY <1>2, <1>3, StepCrashedIsImage
  <2>2. pump' \in Pumps /\ pump'.todo = {} /\ pump'.stage = "save" /\ pump'.runs = {r}
        /\ pump'.next = NoSnapshot
    BY <1>1, <1>6 DEF Pumps, Stages, Maybe
  <2> QED
    BY <1>6, <2>1, <2>2
<1> QED
  BY <1>2, <1>5, <1>6 DEF StepReturns

\* The snapshot that was saved goes into the table.
LEMMA StepSavedEffect ==
  ASSUME ServiceIsTyped, StepsAreSound, PumpIsSound, WorkersAreSound, NEW r \in RunIds, StepSaved(r)
  PROVE  /\ pump' \in Pumps /\ pump'.todo = {} /\ pump'.stage = "tick" /\ pump'.runs = {}
         /\ pump'.next = NoSnapshot
         /\ r \in Begun /\ worker[r].phase = "none"
         /\ proc[r].status # "running"
         /\ \/ proc' = proc
            \/ \E s \in Image(r) :
                 /\ proc' = [proc EXCEPT ![r] = s] /\ s.status # "running"
                 /\ Alive(r) => s = proc[r]
<1>1. pump \in Pumps /\ pump.todo = {} /\ AtWorkOn(r, {"save"}) /\ r \in Begun
  BY DEF ServiceIsTyped, TypeOK, Pumps, Stages, StepSaved, PumpIsSound, AtWorkOn
<1>2. pump' = [pump EXCEPT !.stage = "tick", !.runs = {}, !.next = NoSnapshot]
  BY DEF StepSaved
<1>3. /\ pump' \in Pumps /\ pump'.todo = {} /\ pump'.stage = "tick" /\ pump'.runs = {}
      /\ pump'.next = NoSnapshot
  BY <1>1, <1>2 DEF Pumps, Stages, Maybe
<1>4. proc \in [RunIds -> Maybe(Snapshot)] /\ worker[r].phase \in {"none", "executing", "saving"}
  BY DEF ServiceIsTyped, TypeOK
<1>5. worker[r].phase = "none"
  BY <1>1, <1>4 DEF WorkersAreSound, AtWorkOn, StepSaved, EarlierSavesSettled
<1>6. CASE pump.next = NoSnapshot
  <2>1. proc' = proc
    BY <1>4, <1>6 DEF StepSaved
  <2> QED
    BY <1>1, <1>3, <1>5, <2>1 DEF StepsAreSound, AtWorkOn
<1>7. CASE pump.next # NoSnapshot
  <2>1. proc' = [proc EXCEPT ![r] = pump.next]
    BY <1>4, <1>7 DEF StepSaved
  <2>2. /\ pump.next \in Image(r) /\ pump.next.status # "running"
        /\ Alive(r) => proc[r] = pump.next
    BY <1>1, <1>7 DEF StepsAreSound
  <2> QED
    BY <1>1, <1>3, <1>5, <2>1, <2>2 DEF StepsAreSound, AtWorkOn
<1> QED
  BY <1>6, <1>7

\* A system call is answered.
LEMMA SyscallAnsweredEffect ==
  ASSUME ServiceIsTyped, WorkersAreSound, NEW r \in RunIds, SyscallAnswered(r)
  PROVE  \/ ~ Alive(r) /\ proc' = proc /\ WorkerEnds(r)
         \/ /\ Alive(r) /\ proc[r].status = "waiting" /\ UNCHANGED <<active, timer>>
            /\ worker' = [worker EXCEPT ![r].phase = "saving"]
            /\ \E s \in Image(r) :
                 /\ proc' = [proc EXCEPT ![r] = s]
                 /\ s.status = "ready" /\ s.runs = proc[r].runs
<1>1. CASE ~ Alive(r)
  BY <1>1 DEF SyscallAnswered
<1>2. CASE Alive(r)
  <2>1. /\ proc[r].status = "waiting" /\ worker[r].call = proc[r].call /\ proc[r] \in Image(r)
        /\ proc' = [proc EXCEPT ![r] = Resolved(@, worker[r].call)]
        /\ worker' = [worker EXCEPT ![r].phase = "saving"] /\ UNCHANGED <<active, timer>>
    BY <1>2 DEF SyscallAnswered, WorkersAreSound, ServiceIsTyped
  <2>2. /\ Resolved(proc[r], proc[r].call) \in Image(r)
        /\ Resolved(proc[r], proc[r].call).status = "ready"
        /\ Resolved(proc[r], proc[r].call).runs = proc[r].runs
    BY <2>1, ResolvedIsImage
  <2>3. proc' = [proc EXCEPT ![r] = Resolved(proc[r], proc[r].call)]
    BY <2>1
  <2> QED
    BY <1>2, <2>1, <2>2, <2>3
<1> QED
  BY <1>1, <1>2

\* A turn is started, or resumed.
LEMMA StartEffect ==
  ASSUME ServiceIsTyped, NEW r \in RunIds, startTurn(r)
  PROVE  /\ ~ Alive(r) /\ r \notin Begun /\ Begun' = Begun \cup {r}
         /\ proc' = [proc EXCEPT ![r] = Created]
BY TableIsTyped DEF startTurn, Begun

LEMMA ResumeEffect ==
  ASSUME ServiceIsTyped, NEW r \in RunIds, resumeTurn(r)
  PROVE  /\ Alive(r) /\ pump.stage = "idle" /\ proc[r].status = "suspended" /\ r \in Begun
         /\ \E s \in Image(r) :
              /\ proc' = [proc EXCEPT ![r] = s]
              /\ s.status = "ready" /\ s.runs = proc[r].runs
<1>1. /\ proc[r].status = "suspended" /\ Alive(r) /\ proc[r] \in Image(r) /\ r \in Begun
      /\ pump.stage = "idle" /\ proc' = [proc EXCEPT ![r] = Resumed(proc[r])]
  BY TableIsTyped DEF resumeTurn
<1> QED
  BY <1>1, ResumedIsImage

-----------------------------------------------------------------------------
\* Most steps leave the pump alone and take runs from the table, if any.
Removal == pump' = pump /\ \A r \in RunIds : proc'[r] \in {proc[r], NoSnapshot}

AloneOf(r) ==
  \/ reserveQueuedTurn(r) \/ startTurnReturns(r) \/ waitForCompletion(r) \/ cancelQueuedTurn(r)
  \/ cancelReadyRun(r) \/ forceTimeoutRun(r) \/ abortTurn(r) \/ resumeTurnReturns(r)
  \/ AnswerSaved(r) \/ \E kind \in {"abort", "shutdown"} : abortTurnReturns(kind, r)

Shutdown ==
  DisposeBegins \/ DrainEnds \/ DisposedIsSet \/ LeftoversAborted \/ DisposeReturns

LEMMA RemovalSteps ==
  ASSUME ServiceIsTyped, \/ \E r \in RunIds : AloneOf(r)
                         \/ Shutdown
  PROVE  Removal
<1>0. proc \in [RunIds -> Maybe(Snapshot)]
  BY DEF ServiceIsTyped, TypeOK
<1>1. ASSUME NEW r \in RunIds, AloneOf(r) PROVE Removal
  <2>1. CASE \/ reserveQueuedTurn(r) \/ waitForCompletion(r) \/ cancelQueuedTurn(r)
             \/ resumeTurnReturns(r) \/ AnswerSaved(r)
             \/ \E kind \in {"abort", "shutdown"} : abortTurnReturns(kind, r)
    BY <2>1 DEF Removal, reserveQueuedTurn, waitForCompletion, cancelQueuedTurn,
       resumeTurnReturns, AnswerSaved, abortTurnReturns
  <2>2. CASE startTurnReturns(r)
    BY <1>0, <2>2 DEF Removal, startTurnReturns, Abort
  <2>3. CASE abortTurn(r)
    BY <1>0, <2>3 DEF Removal, abortTurn, Abort
  <2>4. CASE cancelReadyRun(r) \/ forceTimeoutRun(r)
    BY <1>0, <2>4 DEF Removal, cancelReadyRun, forceTimeoutRun, Forget
  <2> QED
    BY <1>1, <2>1, <2>2, <2>3, <2>4 DEF AloneOf
<1>2. CASE Shutdown
  BY <1>0, <1>2 DEF Shutdown, Removal, DisposeBegins, DrainEnds, DisposedIsSet,
     LeftoversAborted, DisposeReturns, Abort
<1> QED
  BY <1>1, <1>2

\* No run is forgotten to have begun.
LEMMA BegunGrows ==
  ASSUME TypeOK, [Next]_vars
  PROVE  Begun \subseteq Begun'
<1>1. CASE \E r \in RunIds : reserveQueuedTurn(r) \/ startTurn(r) \/ cancelQueuedTurn(r)
  BY <1>1 DEF Begun, reserveQueuedTurn, startTurn, cancelQueuedTurn
<1>2. CASE DisposeBegins
  BY <1>2 DEF Begun, DisposeBegins
<1>3. CASE UNCHANGED startVars
  BY <1>3 DEF Begun, startVars
<1>4. \/ UNCHANGED startVars \/ DisposeBegins
      \/ \E r \in RunIds : reserveQueuedTurn(r) \/ startTurn(r) \/ cancelQueuedTurn(r)
  BY DEF Next, PumpStep, WorkerStep, OpReturns, ClientCalls, DisposeGoesOn, vars, startVars,
     PumpStarts, ProcessRemoved, PumpFires, PumpTicks, PumpReconcilesAgain, PumpEnds,
     RecordsSaved, StepReturns, StepOfGoneRun, StepSaved, SyscallAnswered, AnswerSaved,
     startTurnReturns, resumeTurnReturns, abortTurnReturns, waitForCompletion, cancelReadyRun,
     abortTurn, forceTimeoutRun, resumeTurn, Forget,
     DrainEnds, DisposedIsSet, LeftoversAborted, DisposeReturns
<1> QED
  BY <1>1, <1>2, <1>3, <1>4

\* The steps, sorted.
Reconciles == PumpStarts \/ ProcessRemoved \/ PumpReconcilesAgain
Ticks == PumpFires \/ PumpTicks

LEMMA StepCases ==
  ASSUME [Next]_vars
  PROVE  \/ \E r \in RunIds :
              \/ AloneOf(r) \/ startTurn(r) \/ resumeTurn(r) \/ SyscallAnswered(r)
              \/ RecordsSaved(r) \/ StepReturns(r) \/ StepOfGoneRun(r) \/ StepSaved(r)
         \/ Shutdown \/ Reconciles \/ Ticks \/ PumpEnds
         \/ UNCHANGED vars
BY DEF Next, PumpStep, WorkerStep, OpReturns, ClientCalls, DisposeGoesOn, AloneOf, Shutdown,
       Reconciles, Ticks

\* What a reconciliation has to know of the snapshots it looks at.
IsSweep(todo) ==
  /\ todo \in SUBSET Entry
  /\ \A d, e \in todo : d.run = e.run => d = e
  /\ \A e \in todo :
       /\ e.run \in Begun
       /\ Alive(e.run) =>
            \/ proc[e.run].status = e.status
            \/ proc[e.run].status = "ready" /\ e.status = "waiting"
  /\ \A r \in RunIds : IsFinished(proc[r]) => \E e \in todo : e.run = r

\* What the three reconciliations have in common.
LEMMA ReconcilesEffect ==
  ASSUME ServiceIsTyped, PumpIsSound, FinishedIsTodo, Reconciles
  PROVE  /\ proc' = proc /\ UNCHANGED <<startVars, callVars, ops, service, killed>>
         /\ pump.stage \in {"idle", "remove", "again"}
         /\ \E todo, round : IsSweep(todo) /\ round \in 1..2 /\ Reconcile(todo, round)
<1>1. IsSweep(Captured)
  <2>1. \A r \in RunIds : IsFinished(proc[r]) => Alive(r)
    BY NoSnapshotIsNone DEF Alive
  <2> QED
    BY <2>1, CapturedIsTyped DEF IsSweep
<1>2. CASE PumpStarts
  BY <1>1, <1>2 DEF PumpStarts
<1>3. CASE PumpReconcilesAgain
  BY <1>1, <1>3 DEF PumpReconcilesAgain
<1>4. CASE ProcessRemoved
  <2>1. pump.todo \in SUBSET Entry /\ pump.round \in 1..2 /\ pump.stage = "remove"
        /\ Reconcile(pump.todo, pump.round)
    BY <1>4 DEF ServiceIsTyped, TypeOK, ProcessRemoved
  <2>2. \A r \in RunIds : IsFinished(proc[r]) => \E e \in pump.todo : e.run = r
    BY <2>1 DEF FinishedIsTodo, AtWorkOn
  <2>3. IsSweep(pump.todo)
    BY <2>1, <2>2 DEF PumpIsSound, IsSweep
  <2> QED
    BY <1>4, <2>1, <2>3 DEF ProcessRemoved
<1> QED
  BY <1>2, <1>3, <1>4 DEF Reconciles

-----------------------------------------------------------------------------
\* The pump and the table, step by step.
PumpAndTable == PumpIsSound /\ StepsAreSound /\ FinishedIsTodo

LEMMA RemovalKeepsPump ==
  ASSUME ServiceIsTyped, PumpAndTable, Removal, Begun \subseteq Begun'
  PROVE  PumpAndTable'
<1>1. \A r \in RunIds : proc'[r] = proc[r] \/ proc'[r] = NoSnapshot
  BY DEF Removal
<1>2. pump' = pump /\ pump.runs \subseteq RunIds /\ \A e \in pump.todo : e.run \in RunIds
  BY DEF Removal, ServiceIsTyped, TypeOK, Entry
<1>3. PumpIsSound'
  BY <1>1, <1>2 DEF PumpAndTable, PumpIsSound, Alive
<1>4. StepsAreSound'
  BY <1>1, <1>2, NoSnapshotIsNone DEF PumpAndTable, StepsAreSound, AtWorkOn, Alive
<1>5. FinishedIsTodo'
  BY <1>1, <1>2, NoSnapshotIsNone DEF PumpAndTable, FinishedIsTodo, AtWorkOn
<1> QED
  BY <1>3, <1>4, <1>5 DEF PumpAndTable

\* One run is made ready that is neither running nor finished.
LEMMA ReadyingKeepsPump ==
  ASSUME ServiceIsTyped, PumpAndTable, Begun \subseteq Begun', UNCHANGED pump,
         NEW r \in RunIds, NEW s, proc' = [proc EXCEPT ![r] = s], s.status = "ready",
         \/ Alive(r) /\ proc[r].status = "waiting" /\ ~ AtWorkOn(r, {"step", "save"})
         \/ Alive(r) /\ pump.stage = "idle"
         \/ r \notin Begun
  PROVE  PumpAndTable'
<1>1. proc'[r] = s /\ \A q \in RunIds \ {r} : proc'[q] = proc[q]
  BY DEF ServiceIsTyped, TypeOK
<1>2. pump' = pump /\ pump.runs \subseteq RunIds /\ \A e \in pump.todo : e.run \in RunIds
  BY DEF ServiceIsTyped, TypeOK, Entry
<1>3. ~ IsFinished(s)
  BY DEF IsFinished, isTerminalProcessStatus
<1>4. ~ AtWorkOn(r, {"step", "save"})
  BY DEF AtWorkOn, PumpAndTable, PumpIsSound
<1>5. PumpIsSound'
  <2>1. \A e \in pump.todo : e.run = r => Alive(r) /\ e.status = "waiting"
    BY DEF PumpAndTable, PumpIsSound
  <2> QED
    BY <1>1, <1>2, <2>1 DEF PumpAndTable, PumpIsSound, Alive
<1>6. StepsAreSound'
  BY <1>1, <1>2, <1>4 DEF PumpAndTable, StepsAreSound, AtWorkOn, Alive
<1>7. FinishedIsTodo'
  BY <1>1, <1>2, <1>3 DEF PumpAndTable, FinishedIsTodo, AtWorkOn
<1> QED
  BY <1>5, <1>6, <1>7 DEF PumpAndTable

LEMMA ReconcilingKeepsPump ==
  ASSUME ServiceIsTyped, PumpAndTable, Reconciles
  PROVE  PumpAndTable'
<1>1. PICK todo, round : IsSweep(todo) /\ round \in 1..2 /\ Reconcile(todo, round)
  BY ReconcilesEffect DEF PumpAndTable
<1>2. proc' = proc /\ Begun' = Begun /\ pump.stage \in {"idle", "remove", "again"}
  BY ReconcilesEffect DEF PumpAndTable, Begun, startVars
<1>3. /\ pump'.stage \in {"archive", "fire", "end"}
      /\ pump'.todo \subseteq todo /\ pump'.next = NoSnapshot
      /\ pump'.stage # "archive" => pump'.todo = {} /\ pump'.runs = {}
      /\ \A e \in todo : IsFinal(e) =>
           e \in pump'.todo \/ (pump'.stage = "archive" /\ e.run \in pump'.runs)
      /\ \A r \in pump'.runs : \E e \in todo : e.run = r
  BY <1>1, ReconcileEffect DEF IsSweep, ServiceIsTyped
<1>4. PumpIsSound'
  BY <1>1, <1>2, <1>3 DEF PumpIsSound, IsSweep, Alive
<1>5. StepsAreSound'
  BY <1>2, <1>3 DEF PumpAndTable, StepsAreSound, AtWorkOn
<1>6. FinishedIsTodo'
  <2> SUFFICES ASSUME NEW r \in RunIds, IsFinished(proc[r])
               PROVE  (AtWorkOn(r, {"archive"}))' \/ \E e \in pump'.todo : e.run = r
    BY <1>2 DEF FinishedIsTodo
  <2>1. PICK e \in todo : e.run = r
    BY <1>1 DEF IsSweep
  <2>2. Alive(r) /\ proc[r].status \in {"done", "error"}
    BY NoSnapshotIsNone DEF Alive, IsFinished, isTerminalProcessStatus
  <2>3. IsFinal(e)
    BY <1>1, <2>1, <2>2 DEF IsSweep, IsFinal, isTerminalProcessStatus
  <2> QED
    BY <1>3, <2>1, <2>3 DEF AtWorkOn
<1> QED
  BY <1>4, <1>5, <1>6 DEF PumpAndTable

LEMMA TickingKeepsPump ==
  ASSUME ServiceIsTyped, PumpAndTable, Ticks
  PROVE  PumpAndTable'
<1>1. TickBegins /\ pump.stage \in {"fire", "tick"} /\ Begun' = Begun
  BY DEF Ticks, PumpFires, PumpTicks, Begun, startVars
<1>2. \A r \in RunIds : proc[r].status # "running"
  BY <1>1 DEF PumpAndTable, StepsAreSound, AtWorkOn
<1>3. pump.todo = {} /\ pump'.todo = {} /\ pump'.next = NoSnapshot
  BY <1>1, <1>2, TickBeginsEffect DEF PumpAndTable, PumpIsSound
<1>4. CASE pump'.stage = "again" /\ pump'.runs = {} /\ proc' = proc
  <2>1. PumpIsSound'
    BY <1>1, <1>3, <1>4 DEF PumpIsSound
  <2>2. StepsAreSound'
    BY <1>2, <1>4 DEF StepsAreSound, AtWorkOn
  <2> QED
    BY <1>4, <2>1, <2>2 DEF PumpAndTable, FinishedIsTodo
<1>5. ASSUME NEW r \in RunIds, pump'.stage = "step", pump'.runs = {r}, Alive(r),
             proc' = [proc EXCEPT ![r] = MarkedRunning(proc[r])],
             MarkedRunning(proc[r]).status = "running"
      PROVE  PumpAndTable'
  <2>1. /\ proc'[r].status = "running" /\ r \in Begun
        /\ \A q \in RunIds \ {r} : proc'[q] = proc[q]
    BY <1>5 DEF ServiceIsTyped, TypeOK
  <2>2. PumpIsSound'
    BY <1>1, <1>3, <1>5, <2>1 DEF PumpIsSound
  <2>3. StepsAreSound'
    BY <1>2, <1>5, <2>1 DEF StepsAreSound, AtWorkOn
  <2> QED
    BY <1>5, <2>2, <2>3 DEF PumpAndTable, FinishedIsTodo
<1> QED
  BY <1>1, <1>2, <1>4, <1>5, TickBeginsEffect

LEMMA StepEndKeepsPump ==
  ASSUME ServiceIsTyped, PumpAndTable, NEW r \in RunIds, StepReturns(r)
  PROVE  PumpAndTable'
<1>1. /\ pump'.todo = {} /\ pump'.stage = "save" /\ pump'.runs = {r}
      /\ Alive(r) /\ Begun' = Begun
  BY StepReturnsEffect DEF PumpAndTable, StepReturns, Begun, startVars
<1>2. PICK s \in Image(r) :
        /\ proc' = [proc EXCEPT ![r] = s] /\ s.status # "running"
        /\ pump'.next = s \/ (pump'.next = NoSnapshot /\ s.status = "error")
  BY StepReturnsEffect DEF PumpAndTable
<1>3. proc'[r] = s /\ \A q \in RunIds \ {r} : proc'[q] = proc[q]
  BY <1>2 DEF ServiceIsTyped, TypeOK
<1>4. r \in Begun /\ s # NoSnapshot
  BY <1>1, <1>2, NoSnapshotIsNone DEF ServiceIsTyped
<1>5. PumpIsSound'
  BY <1>1, <1>4 DEF PumpIsSound
<1>6. \A q \in RunIds \ {r} : proc[q].status # "running"
  BY DEF PumpAndTable, StepsAreSound, AtWorkOn, StepReturns
<1>7. StepsAreSound'
  BY <1>1, <1>2, <1>3, <1>4, <1>6 DEF StepsAreSound, AtWorkOn, Image
<1> QED
  BY <1>1, <1>5, <1>7 DEF PumpAndTable, FinishedIsTodo

LEMMA SaveEndKeepsPump ==
  ASSUME ServiceIsTyped, PumpAndTable, WorkersAreSound, NEW r \in RunIds, StepSaved(r)
  PROVE  PumpAndTable'
<1>1. /\ pump'.todo = {} /\ pump'.stage = "tick" /\ pump'.runs = {} /\ pump'.next = NoSnapshot
      /\ Begun' = Begun /\ pump.stage = "save"
  BY StepSavedEffect DEF PumpAndTable, StepSaved, Begun, startVars
<1>2. PumpIsSound'
  BY <1>1 DEF PumpIsSound
<1>3. \A q \in RunIds : proc[q].status # "running"
  BY <1>1 DEF PumpAndTable, StepsAreSound, AtWorkOn
<1>4. \A q \in RunIds : proc'[q].status # "running"
  <2>1. \/ proc' = proc
        \/ \E s \in Image(r) : proc' = [proc EXCEPT ![r] = s] /\ s.status # "running"
    BY StepSavedEffect DEF PumpAndTable
  <2> QED
    BY <1>3, <2>1 DEF ServiceIsTyped, TypeOK
<1>5. StepsAreSound'
  BY <1>1, <1>4 DEF StepsAreSound, AtWorkOn
<1> QED
  BY <1>1, <1>2, <1>5 DEF PumpAndTable, FinishedIsTodo

\* The pump goes on without a change to the table, or removes the archived run.
LEMMA PumpGoesOnSoundly ==
  ASSUME ServiceIsTyped, PumpAndTable,
         PumpEnds \/ \E r \in RunIds : StepOfGoneRun(r) \/ RecordsSaved(r)
  PROVE  PumpAndTable'
<1>1. CASE PumpEnds
  <2>1. proc' = proc /\ Begun' = Begun /\ pump.stage = "end" /\ pump.todo = {}
        /\ pump'.stage = "idle" /\ pump'.todo = {} /\ pump'.runs = {} /\ pump'.next = NoSnapshot
    BY <1>1 DEF PumpEnds, Begun, startVars, NoPump, PumpAndTable, PumpIsSound
  <2> QED
    BY <2>1 DEF PumpAndTable, PumpIsSound, StepsAreSound, FinishedIsTodo, AtWorkOn
<1>2. ASSUME NEW r \in RunIds, StepOfGoneRun(r) PROVE PumpAndTable'
  <2>1. /\ proc' = proc /\ Begun' = Begun /\ pump.stage = "step" /\ pump.todo = {}
        /\ pump.runs = {r} /\ ~ Alive(r) /\ pump.next = NoSnapshot
    BY <1>2 DEF StepOfGoneRun, Begun, startVars, PumpAndTable, PumpIsSound
  <2>2. pump'.stage = "again" /\ pump'.todo = {} /\ pump'.runs = {} /\ pump'.next = NoSnapshot
    BY <1>2, <2>1 DEF StepOfGoneRun, ServiceIsTyped, TypeOK
  <2>3. \A q \in RunIds : proc[q].status # "running"
    BY <2>1, NoSnapshotIsNone DEF PumpAndTable, StepsAreSound, AtWorkOn, Alive
  <2> QED
    BY <2>1, <2>2, <2>3 DEF PumpAndTable, PumpIsSound, StepsAreSound, FinishedIsTodo, AtWorkOn
<1>3. ASSUME NEW r \in RunIds, RecordsSaved(r) PROVE PumpAndTable'
  <2>1. /\ proc' = [proc EXCEPT ![r] = NoSnapshot] /\ Begun' = Begun
        /\ pump.stage = "archive" /\ pump.runs = {r} /\ pump.next = NoSnapshot
    BY <1>3 DEF RecordsSaved, Begun, startVars, PumpAndTable, PumpIsSound
  <2>2. /\ pump'.stage = "remove" /\ pump'.todo = pump.todo /\ pump'.runs = {}
        /\ pump'.next = NoSnapshot
    BY <1>3, <2>1 DEF RecordsSaved, ServiceIsTyped, TypeOK
  <2>3. proc'[r] = NoSnapshot /\ \A q \in RunIds \ {r} : proc'[q] = proc[q]
    BY <2>1 DEF ServiceIsTyped, TypeOK
  <2>4. \A e \in pump.todo : e.run \in RunIds
    BY DEF ServiceIsTyped, TypeOK, Entry
  <2>5. PumpIsSound'
    BY <2>1, <2>2, <2>3, <2>4 DEF PumpAndTable, PumpIsSound, Alive
  <2>6. StepsAreSound'
    BY <2>1, <2>2, <2>3, NoSnapshotIsNone DEF PumpAndTable, StepsAreSound, AtWorkOn
  <2>7. FinishedIsTodo'
    BY <2>1, <2>2, <2>3, NoSnapshotIsNone DEF PumpAndTable, FinishedIsTodo, AtWorkOn
  <2> QED
    BY <2>5, <2>6, <2>7 DEF PumpAndTable
<1> QED
  BY <1>1, <1>2, <1>3

LEMMA PumpStepsSoundly ==
  ASSUME ServiceIsTyped, PumpAndTable, WorkersAreSound, [Next]_vars
  PROVE  PumpAndTable'
<1>0. Begun \subseteq Begun'
  BY BegunGrows DEF ServiceIsTyped
<1>1. CASE Shutdown \/ \E r \in RunIds : AloneOf(r)
  BY <1>0, <1>1, RemovalSteps, RemovalKeepsPump
<1>2. ASSUME NEW r \in RunIds, startTurn(r) PROVE PumpAndTable'
  <2>1. r \notin Begun /\ proc' = [proc EXCEPT ![r] = Created]
    BY <1>2, StartEffect
  <2> QED
    BY <1>0, <1>2, <2>1, CreatedIsImage, ReadyingKeepsPump DEF startTurn
<1>3. ASSUME NEW r \in RunIds, resumeTurn(r) PROVE PumpAndTable'
  BY <1>0, <1>3, ResumeEffect, ReadyingKeepsPump DEF resumeTurn
<1>4. ASSUME NEW r \in RunIds, SyscallAnswered(r) PROVE PumpAndTable'
  <2>1. UNCHANGED pump /\ ~ AtWorkOn(r, {"step", "save"})
    BY <1>4 DEF SyscallAnswered, WorkersAreSound
  <2>2. CASE ~ Alive(r) /\ proc' = proc
    BY <1>0, <2>1, <2>2, RemovalKeepsPump DEF Removal
  <2>3. CASE Alive(r) /\ proc[r].status = "waiting" /\
             \E s \in Image(r) : proc' = [proc EXCEPT ![r] = s] /\ s.status = "ready"
    BY <1>0, <2>1, <2>3, ReadyingKeepsPump
  <2> QED
    BY <1>4, <2>2, <2>3, SyscallAnsweredEffect
<1>5. CASE UNCHANGED vars
  BY <1>0, <1>5, RemovalKeepsPump DEF Removal, vars
<1> QED
  BY <1>1, <1>2, <1>3, <1>4, <1>5, StepCases, ReconcilingKeepsPump, TickingKeepsPump,
     StepEndKeepsPump, SaveEndKeepsPump, PumpGoesOnSoundly

-----------------------------------------------------------------------------
\* What any step makes of the table: a run stays, goes, or gets a snapshot of its
\* kind, having begun.
LEMMA TableStep ==
  ASSUME ServiceIsTyped, PumpAndTable, WorkersAreSound, [Next]_vars
  PROVE  /\ proc' \in [RunIds -> Maybe(Snapshot)] /\ pump' \in Pumps
         /\ \A r \in RunIds : Alive(r)' => proc'[r] \in Image(r) /\ r \in Begun'
<1> DEFINE Fits == /\ proc' \in [RunIds -> Maybe(Snapshot)] /\ pump' \in Pumps
                   /\ \A r \in RunIds : Alive(r)' => proc'[r] \in Image(r) /\ r \in Begun'
<1>0. /\ proc \in [RunIds -> Maybe(Snapshot)] /\ pump \in Pumps /\ Begun \subseteq Begun'
      /\ \A r \in RunIds : Alive(r) => proc[r] \in Image(r) /\ r \in Begun
      /\ NoSnapshot \in Maybe(Snapshot)
  BY BegunGrows DEF ServiceIsTyped, TypeOK, Pumps, Stages, Maybe
<1>1. ASSUME proc' = proc, pump' \in Pumps PROVE Fits
  BY <1>0, <1>1 DEF Alive
<1>2. ASSUME NEW r \in RunIds, NEW s \in Image(r), proc' = [proc EXCEPT ![r] = s],
             r \in Begun', pump' \in Pumps
      PROVE  Fits
  <2>1. s \in Maybe(Snapshot)
    BY <1>2 DEF Image, Maybe
  <2> QED
    BY <1>0, <1>2, <2>1 DEF Alive
<1>3. CASE Shutdown \/ \E r \in RunIds : AloneOf(r)
  <2>1. Removal
    BY <1>3, RemovalSteps
  <2>2. \/ proc' = proc
        \/ \E r \in RunIds : proc' = [proc EXCEPT ![r] = NoSnapshot]
        \/ \E runs : proc' = [r \in RunIds |-> IF r \in runs THEN NoSnapshot ELSE proc[r]]
    BY <1>3 DEF Shutdown, AloneOf, DisposeBegins, DrainEnds, DisposedIsSet,
       LeftoversAborted, DisposeReturns, Abort, reserveQueuedTurn, waitForCompletion,
       cancelQueuedTurn, resumeTurnReturns, AnswerSaved, abortTurnReturns, startTurnReturns,
       abortTurn, cancelReadyRun, forceTimeoutRun, Forget
  <2>3. proc' \in [RunIds -> Maybe(Snapshot)]
    <3>1. ASSUME NEW runs, proc' = [r \in RunIds |-> IF r \in runs THEN NoSnapshot ELSE proc[r]]
          PROVE  proc' \in [RunIds -> Maybe(Snapshot)]
      BY <1>0, <3>1
    <3>2. ASSUME NEW r \in RunIds, proc' = [proc EXCEPT ![r] = NoSnapshot]
          PROVE  proc' \in [RunIds -> Maybe(Snapshot)]
      BY <1>0, <3>2
    <3> QED
      BY <1>0, <2>2, <3>1, <3>2
  <2> QED
    BY <1>0, <2>1, <2>3 DEF Removal, Alive
<1>4. ASSUME NEW r \in RunIds, startTurn(r) PROVE Fits
  BY <1>0, <1>2, <1>4, StartEffect, CreatedIsImage DEF startTurn
<1>5. ASSUME NEW r \in RunIds, resumeTurn(r) PROVE Fits
  BY <1>0, <1>2, <1>5, ResumeEffect DEF resumeTurn
<1>6. ASSUME NEW r \in RunIds, SyscallAnswered(r) PROVE Fits
  BY <1>0, <1>1, <1>2, <1>6, SyscallAnsweredEffect DEF SyscallAnswered
<1>7. CASE Reconciles
  BY <1>1, <1>7, ReconcilesEffect, ReconcileEffect DEF PumpAndTable, IsSweep, ServiceIsTyped
<1>8. CASE Ticks
  <2>1. \A r \in RunIds : proc[r].status # "running"
    BY <1>8 DEF Ticks, PumpFires, PumpTicks, PumpAndTable, StepsAreSound, AtWorkOn
  <2>2. TickBegins
    BY <1>8 DEF Ticks, PumpFires, PumpTicks
  <2> QED
    BY <1>0, <1>1, <1>2, <2>1, <2>2, TickBeginsEffect
<1>9. ASSUME NEW r \in RunIds, StepReturns(r) PROVE Fits
  BY <1>0, <1>2, <1>9, StepReturnsEffect DEF PumpAndTable
<1>10. ASSUME NEW r \in RunIds, StepSaved(r) PROVE Fits
  BY <1>0, <1>1, <1>2, <1>10, StepSavedEffect DEF PumpAndTable
<1>11. ASSUME NEW r \in RunIds, StepOfGoneRun(r) PROVE Fits
  <2>1. pump' \in Pumps /\ proc' = proc
    BY <1>0, <1>11 DEF StepOfGoneRun, Pumps, Stages
  <2> QED
    BY <1>1, <2>1
<1>12. ASSUME NEW r \in RunIds, RecordsSaved(r) PROVE Fits
  <2>1. pump' \in Pumps /\ proc' = [proc EXCEPT ![r] = NoSnapshot]
    BY <1>0, <1>12 DEF RecordsSaved, Pumps, Stages, Maybe
  <2> QED
    BY <1>0, <2>1 DEF Alive
<1>13. CASE PumpEnds
  <2>1. pump' \in Pumps
    BY <1>0, <1>13 DEF PumpEnds, Pumps, Stages, NoPump, Maybe
  <2> QED
    BY <1>1, <1>13, <2>1 DEF PumpEnds
<1>14. CASE UNCHANGED vars
  BY <1>0, <1>1, <1>14 DEF vars
<1> QED
  BY <1>3, <1>4, <1>5, <1>6, <1>7, <1>8, <1>9, <1>10, <1>11, <1>12, <1>13, <1>14, StepCases

\* The other variables keep their types.
Rest ==
  /\ queued \subseteq started /\ started \subseteq RunIds
  /\ rec \in [RunIds -> {"none", "suspended", "done", "error"}]
  /\ waiting \subseteq started
  /\ timer \in BOOLEAN
  /\ worker \in [RunIds -> [phase : {"none", "executing", "saving"}, call : 0..MaxRuns]]
  /\ active \subseteq RunIds
  /\ executions \in [RunIds -> [1..MaxRuns -> Nat]]
  /\ ops \subseteq {"start", "resume", "abort", "shutdown"} \X RunIds
  /\ service \in {"boot", "open", "draining", "aborting", "disposed", "closing", "closed"}
  /\ killed \subseteq RunIds

\* A worker that ends, and the calls that are fired.
LEMMA WorkersAreTyped ==
  ASSUME ServiceIsTyped
  PROVE  /\ \A r \in RunIds : WorkerEnds(r) =>
              /\ worker' \in [RunIds -> [phase : {"none", "executing", "saving"}, call : 0..MaxRuns]]
              /\ active' \subseteq RunIds /\ timer' \in BOOLEAN
         /\ firePendingSyscalls =>
              /\ worker' \in [RunIds -> [phase : {"none", "executing", "saving"}, call : 0..MaxRuns]]
              /\ active' \subseteq RunIds
              /\ executions' \in [RunIds -> [1..MaxRuns -> Nat]]
<1>0. Rest /\ 0 \in 0..MaxRuns
  BY ServiceAssumption DEF ServiceIsTyped, TypeOK, Rest
<1>1. ASSUME NEW r \in RunIds, WorkerEnds(r)
      PROVE  /\ worker' \in [RunIds -> [phase : {"none", "executing", "saving"}, call : 0..MaxRuns]]
             /\ active' \subseteq RunIds /\ timer' \in BOOLEAN
  BY <1>0, <1>1 DEF Rest, WorkerEnds, NoWorker, NoCall, SchedulePump, Disposed
<1>2. ASSUME firePendingSyscalls
      PROVE  /\ worker' \in [RunIds -> [phase : {"none", "executing", "saving"}, call : 0..MaxRuns]]
             /\ active' \subseteq RunIds
             /\ executions' \in [RunIds -> [1..MaxRuns -> Nat]]
  <2>1. PICK fired \in SUBSET Firable :
          /\ active' = active \cup fired
          /\ worker' = [r \in RunIds |->
                          IF r \in fired THEN [phase |-> "executing", call |-> proc[r].call]
                                         ELSE worker[r]]
          /\ executions' = [r \in RunIds |->
                              IF r \in fired THEN [executions[r] EXCEPT ![proc[r].call] = @ + 1]
                                             ELSE executions[r]]
    BY <1>2 DEF firePendingSyscalls
  <2>2. ASSUME NEW r \in RunIds, r \in fired
        PROVE  [executions[r] EXCEPT ![proc[r].call] = @ + 1] \in [1..MaxRuns -> Nat]
               /\ proc[r].call \in 0..MaxRuns
    <3>1. Alive(r)
      BY <2>1, <2>2, NoSnapshotIsNone DEF Firable, Alive
    <3>2. proc[r].call \in 0..MaxRuns
      BY <3>1, NoSnapshotIsNone DEF ServiceIsTyped
    <3>3. proc[r].call \in 1..MaxRuns
      BY <2>1, <2>2, <3>2 DEF Firable, NoCall
    <3>4. executions[r] \in [1..MaxRuns -> Nat]
      BY <1>0 DEF Rest
    <3>5. \A f \in [1..MaxRuns -> Nat] : \A c \in 1..MaxRuns :
            [f EXCEPT ![c] = f[c] + 1] \in [1..MaxRuns -> Nat]
      OBVIOUS
    <3>6. [executions[r] EXCEPT ![proc[r].call] = executions[r][proc[r].call] + 1] \in [1..MaxRuns -> Nat]
      BY <3>3, <3>4, <3>5, Zenon
    <3> QED
      BY <3>2, <3>6
  <2> QED
    BY <1>0, <2>1, <2>2 DEF Rest, Firable
<1> QED
  BY <1>1, <1>2

LEMMA AbortIsTyped ==
  ASSUME Rest, NEW runs \in SUBSET RunIds, NEW kind \in {"abort", "shutdown"},
         NEW kept \in SUBSET ops, Abort(runs, kind, kept)
  PROVE  /\ rec' \in [RunIds -> {"none", "suspended", "done", "error"}]
         /\ ops' \subseteq {"start", "resume", "abort", "shutdown"} \X RunIds
<1>1. rec' \in [RunIds -> {"none", "suspended", "done", "error"}]
  BY DEF Abort, Rest
<1>2. \A op \in {<<kind, r>> : r \in runs} : op \in {"start", "resume", "abort", "shutdown"} \X RunIds
  OBVIOUS
<1> QED
  BY <1>1, <1>2 DEF Abort, Rest

\* The variables but the pump and the table, after each kind of step.
LEMMA RestStep ==
  ASSUME ServiceIsTyped, PumpAndTable, [Next]_vars
  PROVE  Rest'
<1>0. Rest
  BY DEF ServiceIsTyped, TypeOK, Rest
<1>1. ASSUME NEW r \in RunIds,
             \/ reserveQueuedTurn(r) \/ startTurn(r) \/ waitForCompletion(r)
             \/ cancelQueuedTurn(r)
      PROVE  Rest'
  <2>1. /\ queued' \subseteq started'
        /\ started' = started \/ started' = started \cup {r}
        /\ rec' \in {rec, [rec EXCEPT ![r] = "error"]}
        /\ waiting' \subseteq started'
        /\ ops' \in {ops, ops \cup {<<"start", r>>}}
        /\ UNCHANGED <<timer, worker, active, executions, service, killed>>
    BY <1>0, <1>1 DEF Rest, reserveQueuedTurn, startTurn, waitForCompletion, cancelQueuedTurn,
       startVars, callVars
  <2>2. rec' \in [RunIds -> {"none", "suspended", "done", "error"}]
    BY <1>0, <2>1 DEF Rest
  <2>3. ops' \subseteq {"start", "resume", "abort", "shutdown"} \X RunIds
    BY <1>0, <2>1 DEF Rest
  <2>4. started' \subseteq RunIds
    BY <1>0, <2>1 DEF Rest
  <2> QED
    BY <1>0, <2>1, <2>2, <2>3, <2>4 DEF Rest
<1>2. ASSUME NEW r \in RunIds, cancelReadyRun(r) \/ forceTimeoutRun(r) PROVE Rest'
  <2>1. /\ rec' = [rec EXCEPT ![r] = "error"] \/ rec' = rec
        /\ waiting' \subseteq waiting /\ active' \subseteq active
        /\ killed' \subseteq killed \cup {r}
        /\ UNCHANGED <<queued, started, timer, worker, executions, ops, service>>
    BY <1>2 DEF cancelReadyRun, forceTimeoutRun, Forget, Answered, startVars
  <2> QED
    BY <1>0, <2>1 DEF Rest
<1>3. ASSUME NEW r \in RunIds, abortTurn(r) \/ resumeTurn(r) PROVE Rest'
  <2>1. CASE abortTurn(r)
    <3>1. Abort({r}, "abort", ops)
      BY <2>1 DEF abortTurn
    <3>2. /\ rec' \in [RunIds -> {"none", "suspended", "done", "error"}]
          /\ ops' \subseteq {"start", "resume", "abort", "shutdown"} \X RunIds
      BY <1>0, <3>1, AbortIsTyped
    <3> QED
      BY <1>0, <2>1, <3>2 DEF abortTurn, Rest, startVars, callVars
  <2>2. CASE resumeTurn(r)
    BY <1>0, <2>2 DEF resumeTurn, Rest, startVars, callVars
  <2> QED
    BY <1>3, <2>1, <2>2
<1>4. ASSUME NEW r \in RunIds,
             \/ startTurnReturns(r) \/ resumeTurnReturns(r)
             \/ \E kind \in {"abort", "shutdown"} : abortTurnReturns(kind, r)
      PROVE  Rest'
  <2>1. /\ UNCHANGED <<queued, started, worker, executions, service, killed>>
        /\ waiting' \subseteq waiting /\ active' \subseteq active /\ timer' \in BOOLEAN
    BY <1>0, <1>4 DEF Rest, startTurnReturns, resumeTurnReturns, abortTurnReturns, Abort, Answered,
       SchedulePump, Disposed, callVars, startVars
  <2>2. \/ rec' = rec /\ ops' \subseteq ops
        \/ \E kept \in SUBSET ops : Abort({r}, "abort", kept)
    BY <1>4 DEF startTurnReturns, resumeTurnReturns, abortTurnReturns
  <2> QED
    BY <1>0, <2>1, <2>2, AbortIsTyped DEF Rest
<1>12. ASSUME NEW r \in RunIds, SyscallAnswered(r) PROVE Rest'
  <2>0. UNCHANGED <<startVars, rec, waiting, executions, ops, service, killed>>
    BY <1>12 DEF SyscallAnswered
  <2>1. CASE WorkerEnds(r)
    BY <1>0, <2>0, <2>1, WorkersAreTyped DEF Rest, startVars
  <2>2. CASE worker' = [worker EXCEPT ![r].phase = "saving"] /\ UNCHANGED <<active, timer>>
    BY <1>0, <2>0, <2>2 DEF Rest, startVars
  <2> QED
    BY <1>12, <2>1, <2>2 DEF SyscallAnswered
<1>5. ASSUME NEW r \in RunIds, AnswerSaved(r) PROVE Rest'
  BY <1>0, <1>5, WorkersAreTyped DEF AnswerSaved, Rest, startVars
<1>6. CASE Shutdown
  <2>1. CASE DisposeBegins
    BY <1>0, <2>1 DEF Rest, DisposeBegins, callVars
  <2>2. CASE DrainEnds \/ LeftoversAborted
    <3>1. Abort(AliveRuns, "shutdown", ops) /\ AliveRuns \in SUBSET RunIds
      BY <2>2 DEF DrainEnds, LeftoversAborted, AliveRuns
    <3>2. /\ rec' \in [RunIds -> {"none", "suspended", "done", "error"}]
          /\ ops' \subseteq {"start", "resume", "abort", "shutdown"} \X RunIds
      BY <1>0, <3>1, AbortIsTyped
    <3> QED
      BY <1>0, <2>2, <3>2 DEF DrainEnds, LeftoversAborted, Rest, startVars, callVars
  <2>3. CASE DisposedIsSet \/ DisposeReturns
    BY <1>0, <2>3 DEF Rest, DisposedIsSet, DisposeReturns, startVars, callVars
  <2> QED
    BY <1>6, <2>1, <2>2, <2>3 DEF Shutdown
<1>7. CASE Reconciles
  <2>1. /\ waiting' \subseteq waiting
        /\ rec' \in [RunIds -> {"none", "suspended", "done", "error"}]
    BY <1>7, ReconcilesEffect, ReconcileEffect DEF PumpAndTable, IsSweep, ServiceIsTyped
  <2>2. timer' \in BOOLEAN
    BY <1>0, <1>7 DEF Rest, Reconciles, PumpStarts, ProcessRemoved, PumpReconcilesAgain
  <2>3. UNCHANGED <<startVars, callVars, ops, service, killed>>
    BY <1>7, ReconcilesEffect DEF PumpAndTable
  <2> QED
    BY <1>0, <2>1, <2>2, <2>3 DEF Rest, startVars, callVars
<1>8. CASE Ticks
  <2>1. /\ firePendingSyscalls \/ UNCHANGED callVars
        /\ UNCHANGED <<startVars, rec, waiting, timer, ops, service, killed>>
    BY <1>8 DEF Ticks, PumpFires, PumpTicks
  <2> QED
    BY <1>0, <2>1, WorkersAreTyped DEF Rest, startVars, callVars
<1>9. ASSUME NEW r \in RunIds,
             StepReturns(r) \/ StepSaved(r) \/ StepOfGoneRun(r) \/ RecordsSaved(r)
      PROVE  Rest'
  BY <1>0, <1>9 DEF Rest, StepReturns, StepSaved, StepOfGoneRun, RecordsSaved, Answered,
     startVars, callVars
<1>10. CASE PumpEnds
  BY <1>0, <1>10 DEF Rest, PumpEnds, Disposed, NextPumpNeeded, startVars, callVars
<1>11. CASE UNCHANGED vars
  BY <1>0, <1>11 DEF Rest, vars, startVars, callVars
<1> QED
  BY <1>1, <1>2, <1>3, <1>4, <1>5, <1>6, <1>7, <1>8, <1>9, <1>10, <1>11, <1>12, StepCases DEF AloneOf

LEMMA TypedStep ==
  ASSUME ServiceIsTyped, PumpAndTable, WorkersAreSound, [Next]_vars
  PROVE  ServiceIsTyped'
<1>1. /\ proc' \in [RunIds -> Maybe(Snapshot)] /\ pump' \in Pumps
      /\ \A r \in RunIds : Alive(r)' => proc'[r] \in Image(r) /\ r \in Begun'
  BY TableStep
<1>2. Rest'
  BY RestStep
<1>3. \A r \in RunIds : r \in AliveRuns' => r \notin queued'
  BY <1>1 DEF AliveRuns, Begun
<1>4. TypeOK'
  BY <1>1, <1>2, <1>3 DEF Rest, TypeOK, Pumps, Stages, AliveRuns
<1> QED
  BY <1>1, <1>4 DEF ServiceIsTyped

-----------------------------------------------------------------------------
\* How a step may change what is on record of a run.
RecordStep(r) ==
  \/ rec'[r] = rec[r]
  \/ rec'[r] = "error" /\ r \in Begun' /\ ~ Alive(r)'
  \/ rec'[r] = "none" /\ r \in Begun /\ pump.stage = "idle" /\ pump' = pump
  \/ Reconciles /\ r \in Begun

LEMMA RecordSteps ==
  ASSUME ServiceIsTyped, PumpAndTable, [Next]_vars, NEW r \in RunIds
  PROVE  RecordStep(r)
<1>0. /\ rec \in [RunIds -> {"none", "suspended", "done", "error"}]
      /\ proc \in [RunIds -> Maybe(Snapshot)]
      /\ \A q \in RunIds : Alive(q) => q \in Begun
      /\ Begun \subseteq Begun' /\ \A q \in queued : q \in started /\ ~ Alive(q)
  BY BegunGrows DEF ServiceIsTyped, TypeOK, AliveRuns
<1>1. ASSUME NEW q \in RunIds,
             \/ reserveQueuedTurn(q) \/ startTurn(q) \/ waitForCompletion(q)
             \/ resumeTurnReturns(q) \/ AnswerSaved(q) \/ SyscallAnswered(q) \/ RecordsSaved(q)
             \/ StepReturns(q) \/ StepOfGoneRun(q) \/ StepSaved(q)
             \/ \E kind \in {"abort", "shutdown"} : abortTurnReturns(kind, q)
      PROVE  rec' = rec
  BY <1>1 DEF reserveQueuedTurn, startTurn, waitForCompletion, resumeTurnReturns, AnswerSaved,
     SyscallAnswered, RecordsSaved, StepReturns, StepOfGoneRun, StepSaved, abortTurnReturns
<1>2. ASSUME NEW q \in RunIds, cancelQueuedTurn(q) PROVE RecordStep(r)
  BY <1>0, <1>2 DEF cancelQueuedTurn, RecordStep, Begun, Alive
<1>3. ASSUME NEW q \in RunIds, cancelReadyRun(q) \/ forceTimeoutRun(q) PROVE RecordStep(r)
  <2>1. CASE Forget(q) /\ Alive(q)
    BY <1>0, <2>1 DEF Forget, RecordStep, Alive
  <2>2. CASE rec' = rec
    BY <2>2 DEF RecordStep
  <2> QED
    BY <1>3, <2>1, <2>2, TableIsTyped DEF cancelReadyRun, forceTimeoutRun
<1>4. ASSUME NEW q \in RunIds, startTurnReturns(q) \/ abortTurn(q) PROVE RecordStep(r)
  <2>1. \/ rec' = rec
        \/ Alive(q) /\ \E kept : Abort({q}, "abort", kept)
    BY <1>4 DEF startTurnReturns, abortTurn
  <2> QED
    BY <1>0, <2>1 DEF Abort, RecordStep, Alive
<1>5. ASSUME NEW q \in RunIds, resumeTurn(q) PROVE RecordStep(r)
  <2>1. q \in Begun /\ pump.stage = "idle" /\ pump' = pump /\ rec' = [rec EXCEPT ![q] = "none"]
    BY <1>5, ResumeEffect DEF resumeTurn
  <2> QED
    BY <1>0, <2>1 DEF RecordStep
<1>6. CASE Shutdown
  <2>1. CASE DisposeBegins
    BY <1>0, <2>1 DEF DisposeBegins, RecordStep, Begun, Alive
  <2>2. CASE DrainEnds \/ LeftoversAborted
    BY <1>0, <2>2 DEF DrainEnds, LeftoversAborted, Abort, AliveRuns, RecordStep, Alive
  <2>3. CASE DisposedIsSet \/ DisposeReturns
    BY <2>3 DEF DisposedIsSet, DisposeReturns, RecordStep
  <2> QED
    BY <1>6, <2>1, <2>2, <2>3 DEF Shutdown
<1>7. CASE Reconciles
  <2>1. PICK todo, round : IsSweep(todo) /\ round \in 1..2 /\ Reconcile(todo, round)
    BY <1>7, ReconcilesEffect DEF PumpAndTable
  <2>2. \/ rec'[r] = rec[r]
        \/ \E e \in todo : e.run = r
    BY <2>1, ReconcileEffect DEF IsSweep, ServiceIsTyped
  <2> QED
    BY <1>7, <2>1, <2>2 DEF IsSweep, RecordStep
<1>8. CASE Ticks \/ PumpEnds \/ UNCHANGED vars
  BY <1>8 DEF Ticks, PumpFires, PumpTicks, PumpEnds, vars, RecordStep
<1> QED
  <2>1. rec' = rec => RecordStep(r)
    BY DEF RecordStep
  <2> QED
    BY <1>1, <1>2, <1>3, <1>4, <1>5, <1>6, <1>7, <1>8, <2>1, StepCases DEF AloneOf

\* How a step may change the worker of a run, and what it has executed.
WorkerStays(r) ==
  /\ worker'[r] = worker[r] /\ executions'[r] = executions[r]
  /\ r \in active' => r \in active
  /\ r \in active =>
       r \in active' \/ ~ Alive(r)' \/ <<"abort", r>> \in ops \/ <<"shutdown", r>> \in ops

WorkerFires(r) ==
  /\ PumpFires /\ r \in Firable /\ r \in active'
  /\ worker'[r] = [phase |-> "executing", call |-> proc[r].call]
  /\ executions'[r] = [executions[r] EXCEPT ![proc[r].call] = @ + 1]

WorkerStopped(r) ==
  /\ (SyscallAnswered(r) /\ ~ Alive(r)) \/ AnswerSaved(r)
  /\ worker'[r].phase = "none" /\ executions'[r] = executions[r] /\ r \notin active'
  /\ timer' = (timer \/ (pump.stage = "idle" /\ ~ Disposed))

WorkerAnswered(r) ==
  /\ SyscallAnswered(r) /\ Alive(r) /\ UNCHANGED <<executions, active>>
  /\ worker'[r].phase = "saving"

WorkerMoves(r) == WorkerStays(r) \/ WorkerFires(r) \/ WorkerStopped(r) \/ WorkerAnswered(r)

LEMMA WorkerSteps ==
  ASSUME ServiceIsTyped, [Next]_vars, NEW r \in RunIds
  PROVE  WorkerMoves(r)
<1>0. worker \in [RunIds -> [phase : {"none", "executing", "saving"}, call : 0..MaxRuns]]
  BY DEF ServiceIsTyped, TypeOK
<1>1. ASSUME NEW q \in RunIds,
             \/ reserveQueuedTurn(q) \/ startTurn(q) \/ waitForCompletion(q) \/ cancelQueuedTurn(q)
             \/ resumeTurn(q) \/ resumeTurnReturns(q) \/ RecordsSaved(q) \/ abortTurn(q)
             \/ StepReturns(q) \/ StepOfGoneRun(q) \/ StepSaved(q) \/ startTurnReturns(q)
      PROVE  UNCHANGED callVars
  BY <1>1 DEF reserveQueuedTurn, startTurn, waitForCompletion, cancelQueuedTurn, resumeTurn,
     resumeTurnReturns, RecordsSaved, abortTurn, StepReturns, StepOfGoneRun, StepSaved,
     startTurnReturns
<1>2. CASE Shutdown \/ Reconciles \/ PumpTicks \/ PumpEnds \/ UNCHANGED vars
  <2>1. UNCHANGED callVars
    BY <1>2 DEF Shutdown, Reconciles, PumpTicks, PumpEnds, vars, DisposeBegins, DrainEnds,
       DisposedIsSet, LeftoversAborted, DisposeReturns, PumpStarts, ProcessRemoved,
       PumpReconcilesAgain, callVars
  <2> QED
    BY <2>1 DEF callVars, WorkerMoves, WorkerStays
<1>3. ASSUME UNCHANGED callVars PROVE WorkerMoves(r)
  BY <1>3 DEF callVars, WorkerMoves, WorkerStays
<1>4. ASSUME NEW q \in RunIds, cancelReadyRun(q) \/ forceTimeoutRun(q) PROVE WorkerMoves(r)
  <2>1. /\ UNCHANGED <<worker, executions>> /\ active' = active \ {q}
        /\ proc'[q] = NoSnapshot
    BY <1>4 DEF cancelReadyRun, forceTimeoutRun, Forget, Alive, ServiceIsTyped, TypeOK
  <2> QED
    BY <2>1 DEF WorkerMoves, WorkerStays, Alive
<1>5. ASSUME NEW q \in RunIds, NEW kind \in {"abort", "shutdown"}, abortTurnReturns(kind, q)
      PROVE  WorkerMoves(r)
  <2>1. /\ UNCHANGED <<worker, executions>> /\ active' = active \ {q}
        /\ <<kind, q>> \in ops
    BY <1>5 DEF abortTurnReturns
  <2> QED
    BY <2>1 DEF WorkerMoves, WorkerStays
<1>6. ASSUME NEW q \in RunIds, WorkerEnds(q), (SyscallAnswered(q) /\ ~ Alive(q)) \/ AnswerSaved(q)
      PROVE  WorkerMoves(r)
  <2>1. /\ worker' = [worker EXCEPT ![q] = NoWorker] /\ active' = active \ {q}
        /\ UNCHANGED executions /\ timer' = (timer \/ (pump.stage = "idle" /\ ~ Disposed))
    BY <1>6 DEF WorkerEnds, SchedulePump, SyscallAnswered, AnswerSaved
  <2>2. CASE q = r
    BY <1>0, <1>6, <2>1, <2>2 DEF WorkerMoves, WorkerStopped, NoWorker
  <2>3. CASE q # r
    BY <1>0, <2>1, <2>3 DEF WorkerMoves, WorkerStays
  <2> QED
    BY <2>2, <2>3
<1>7. ASSUME NEW q \in RunIds, SyscallAnswered(q), Alive(q)
      PROVE  WorkerMoves(r)
  <2>1. worker' = [worker EXCEPT ![q].phase = "saving"] /\ UNCHANGED <<active, executions>>
    BY <1>7 DEF SyscallAnswered
  <2>2. CASE q = r
    BY <1>0, <1>7, <2>1, <2>2 DEF WorkerMoves, WorkerAnswered
  <2>3. CASE q # r
    BY <1>0, <2>1, <2>3 DEF WorkerMoves, WorkerStays
  <2> QED
    BY <2>2, <2>3
<1>8. CASE PumpFires
  <2>1. PICK fired \in SUBSET Firable :
          /\ active' = active \cup fired
          /\ worker' = [q \in RunIds |->
                          IF q \in fired THEN [phase |-> "executing", call |-> proc[q].call]
                                         ELSE worker[q]]
          /\ executions' = [q \in RunIds |->
                              IF q \in fired THEN [executions[q] EXCEPT ![proc[q].call] = @ + 1]
                                             ELSE executions[q]]
    BY <1>8 DEF PumpFires, firePendingSyscalls
  <2>2. CASE r \in fired
    BY <1>8, <2>1, <2>2 DEF WorkerMoves, WorkerFires
  <2>3. CASE r \notin fired
    BY <2>1, <2>3 DEF WorkerMoves, WorkerStays
  <2> QED
    BY <2>2, <2>3
<1>9. ASSUME NEW q \in RunIds, SyscallAnswered(q) PROVE WorkerMoves(r)
  BY <1>6, <1>7, <1>9 DEF SyscallAnswered
<1>10. ASSUME NEW q \in RunIds, AnswerSaved(q) PROVE WorkerMoves(r)
  BY <1>6, <1>10 DEF AnswerSaved
<1> QED
  BY <1>1, <1>2, <1>3, <1>4, <1>5, <1>8, <1>9, <1>10, StepCases DEF AloneOf, Ticks

\* How a step may change the snapshot of a run, and whether the pump is at work
\* on it.
RunStays(r) ==
  /\ proc'[r] = proc[r] \/ (proc'[r] = NoSnapshot /\ Reachable(r))
  /\ AtWorkOn(r, {"step", "save"})' <=> AtWorkOn(r, {"step", "save"})
  /\ AtWorkOn(r, {"save"})' <=> AtWorkOn(r, {"save"})

RunStarts(r) ==
  /\ startTurn(r) /\ r \notin Begun /\ r \in Begun' /\ proc'[r] = Created /\ pump' = pump

RunIsReadied(r) ==
  /\ Alive(r) /\ proc'[r].status = "ready" /\ proc'[r].runs = proc[r].runs /\ pump' = pump
  /\ \/ resumeTurn(r) /\ proc[r].status = "suspended" /\ pump.stage = "idle"
     \/ SyscallAnswered(r) /\ proc[r].status = "waiting"

RunIsMarked(r) ==
  /\ Ticks /\ Alive(r) /\ proc[r].status = "ready" /\ proc'[r].status = "running"
  /\ proc'[r].runs = proc[r].runs /\ pump'.stage = "step"

RunIsStepped(r) ==
  /\ StepReturns(r) /\ Alive(r) /\ Alive(r)' /\ proc[r] \in Image(r)
  /\ proc[r].status = "running"
  /\ proc'[r] \in Image(r) /\ proc'[r].runs = proc[r].runs + 1
  /\ AtWorkOn(r, {"step"}) /\ AtWorkOn(r, {"save"})'

RunIsLeft(r) ==
  /\ ~ AtWorkOn(r, {"step", "save"})' /\ pump.stage # "idle"
  /\ \/ StepOfGoneRun(r) /\ ~ Alive(r) /\ proc'[r] = proc[r]
     \/ /\ StepSaved(r) /\ AtWorkOn(r, {"save"}) /\ worker[r].phase = "none"
        /\ Alive(r) => proc'[r] = proc[r]

RunMoves(r) ==
  \/ RunStays(r) \/ RunStarts(r) \/ RunIsReadied(r) \/ RunIsMarked(r)
  \/ RunIsStepped(r) \/ RunIsLeft(r)

\* A run that is removed may be hit now.
LEMMA RemovedIsReachable ==
  ASSUME ServiceIsTyped, NEW r \in RunIds, Alive(r), ~ Alive(r)',
         \/ \E q \in RunIds : AloneOf(q)
         \/ Shutdown
  PROVE  Reachable(r)
<1>0. proc \in [RunIds -> Maybe(Snapshot)]
  BY DEF ServiceIsTyped, TypeOK
<1>1. ASSUME NEW q \in RunIds, cancelReadyRun(q) \/ forceTimeoutRun(q) PROVE Reachable(r)
  <2>1. \/ proc' = proc
        \/ proc' = [proc EXCEPT ![q] = NoSnapshot] /\ Reachable(q)
    BY <1>1 DEF cancelReadyRun, forceTimeoutRun, Forget
  <2> QED
    BY <1>0, <2>1 DEF Alive
<1>2. ASSUME NEW q \in RunIds, abortTurn(q) \/ startTurnReturns(q) PROVE Reachable(r)
  <2>1. \/ proc' = proc
        \/ /\ proc' = [x \in RunIds |-> IF x \in {q} THEN NoSnapshot ELSE proc[x]]
           /\ Reachable(q)
    BY <1>2 DEF abortTurn, startTurnReturns, Abort
  <2> QED
    BY <1>0, <2>1 DEF Alive
<1>3. CASE Shutdown
  <2>1. \/ proc' = proc
        \/ (\A q \in AliveRuns : Reachable(q)) \/ pump.stage = "idle"
    BY <1>3 DEF Shutdown, DisposeBegins, DrainEnds, DisposedIsSet, LeftoversAborted, DisposeReturns
  <2> QED
    BY <2>1 DEF Alive, AliveRuns, Reachable
<1>4. ASSUME NEW q \in RunIds,
             \/ reserveQueuedTurn(q) \/ waitForCompletion(q) \/ cancelQueuedTurn(q)
             \/ resumeTurnReturns(q) \/ AnswerSaved(q)
             \/ \E kind \in {"abort", "shutdown"} : abortTurnReturns(kind, q)
      PROVE  proc' = proc
  BY <1>4 DEF reserveQueuedTurn, waitForCompletion, cancelQueuedTurn, resumeTurnReturns,
     AnswerSaved, abortTurnReturns
<1> QED
  BY <1>1, <1>2, <1>3, <1>4 DEF AloneOf, Alive

LEMMA RunSteps ==
  ASSUME ServiceIsTyped, PumpAndTable, WorkersAreSound, [Next]_vars, NEW r \in RunIds
  PROVE  RunMoves(r)
<1>0. proc \in [RunIds -> Maybe(Snapshot)] /\ pump \in Pumps /\ pump.runs \subseteq RunIds
  BY DEF ServiceIsTyped, TypeOK, Pumps, Stages
<1>1. ASSUME pump' = pump, proc'[r] = proc[r] \/ (proc'[r] = NoSnapshot /\ Reachable(r))
      PROVE  RunMoves(r)
  BY <1>1 DEF RunMoves, RunStays, AtWorkOn
<1>2. CASE Shutdown \/ \E q \in RunIds : AloneOf(q)
  <2>1. Removal /\ (Alive(r) /\ ~ Alive(r)' => Reachable(r))
    BY <1>2, RemovalSteps, RemovedIsReachable
  <2> QED
    BY <1>1, <2>1 DEF Removal, Alive
<1>3. ASSUME NEW q \in RunIds, startTurn(q) PROVE RunMoves(r)
  <2>1. /\ q \notin Begun /\ q \in Begun' /\ proc' = [proc EXCEPT ![q] = Created] /\ pump' = pump
    BY <1>3, StartEffect DEF startTurn
  <2>2. CASE q = r
    BY <1>0, <1>3, <2>1, <2>2 DEF RunMoves, RunStarts
  <2> QED
    BY <1>0, <1>1, <2>1, <2>2
<1>4. ASSUME NEW q \in RunIds, resumeTurn(q) PROVE RunMoves(r)
  <2>1. pump' = pump
    BY <1>4 DEF resumeTurn
  <2>2. PICK s \in Image(q) :
          /\ proc' = [proc EXCEPT ![q] = s] /\ s.status = "ready" /\ s.runs = proc[q].runs
    BY <1>4, ResumeEffect
  <2>3. Alive(q) /\ pump.stage = "idle" /\ proc[q].status = "suspended"
    BY <1>4, ResumeEffect
  <2>4. CASE q = r
    BY <1>0, <1>4, <2>1, <2>2, <2>3, <2>4 DEF RunMoves, RunIsReadied
  <2> QED
    BY <1>0, <1>1, <2>1, <2>2, <2>4
<1>5. ASSUME NEW q \in RunIds, SyscallAnswered(q) PROVE RunMoves(r)
  <2>1. pump' = pump
    BY <1>5 DEF SyscallAnswered
  <2>2. CASE proc' = proc
    BY <1>1, <2>1, <2>2
  <2>3. ASSUME Alive(q), proc[q].status = "waiting", NEW s \in Image(q),
               proc' = [proc EXCEPT ![q] = s], s.status = "ready", s.runs = proc[q].runs
        PROVE  RunMoves(r)
    <3>1. CASE q = r
      BY <1>0, <1>5, <2>1, <2>3, <3>1 DEF RunMoves, RunIsReadied
    <3> QED
      BY <1>0, <1>1, <2>1, <2>3, <3>1
  <2> QED
    BY <1>5, <2>2, <2>3, SyscallAnsweredEffect
<1>6. CASE Reconciles \/ PumpEnds
  <2>1. /\ proc' = proc /\ pump.stage \in {"idle", "remove", "again", "end"}
        /\ pump'.stage \in {"archive", "fire", "end", "idle"}
    <3>1. CASE Reconciles
      BY <3>1, ReconcilesEffect, ReconcileEffect DEF PumpAndTable, IsSweep, ServiceIsTyped
    <3>2. CASE PumpEnds
      BY <3>2 DEF PumpEnds, NoPump
    <3> QED
      BY <1>6, <3>1, <3>2
  <2> QED
    BY <2>1 DEF RunMoves, RunStays, AtWorkOn
<1>7. CASE Ticks
  <2>1. TickBegins /\ pump.stage \in {"fire", "tick"}
    BY <1>7 DEF Ticks, PumpFires, PumpTicks
  <2>2. \A q \in RunIds : proc[q].status # "running"
    BY <2>1 DEF PumpAndTable, StepsAreSound, AtWorkOn
  <2>3. CASE pump'.stage = "again" /\ pump'.runs = {} /\ proc' = proc
    BY <2>1, <2>3 DEF RunMoves, RunStays, AtWorkOn
  <2>4. ASSUME NEW q \in RunIds, pump'.stage = "step", pump'.runs = {q}, Alive(q),
               proc[q].status = "ready", proc' = [proc EXCEPT ![q] = MarkedRunning(proc[q])],
               MarkedRunning(proc[q]).status = "running",
               MarkedRunning(proc[q]).runs = proc[q].runs
        PROVE  RunMoves(r)
    <3>1. CASE q = r
      <4>1. proc'[r].status = "running" /\ proc'[r].runs = proc[r].runs
        BY <1>0, <2>4, <3>1
      <4> QED
        BY <1>7, <2>4, <3>1, <4>1 DEF RunMoves, RunIsMarked
    <3>2. CASE q # r
      <4>1. proc'[r] = proc[r]
        BY <1>0, <2>4, <3>2
      <4> QED
        BY <2>1, <2>4, <3>2, <4>1 DEF RunMoves, RunStays, AtWorkOn
    <3> QED
      BY <3>1, <3>2
  <2> QED
    BY <2>1, <2>2, <2>3, <2>4, TickBeginsEffect
<1>8. ASSUME NEW q \in RunIds, StepReturns(q) PROVE RunMoves(r)
  <2>1. /\ pump'.stage = "save" /\ pump'.runs = {q} /\ pump.stage = "step" /\ pump.runs = {q}
        /\ Alive(q) /\ proc[q] \in Image(q) /\ proc[q].status = "running"
    BY <1>8, StepReturnsEffect DEF PumpAndTable, StepReturns
  <2>2. PICK s \in Image(q) : proc' = [proc EXCEPT ![q] = s] /\ s.runs = proc[q].runs + 1
    BY <1>8, StepReturnsEffect DEF PumpAndTable
  <2>3. CASE q = r
    <3>1. proc'[r] = s /\ Alive(r)'
      BY <1>0, <2>2, <2>3, NoSnapshotIsNone DEF Alive
    <3> QED
      BY <1>8, <2>1, <2>2, <2>3, <3>1 DEF RunMoves, RunIsStepped, AtWorkOn
  <2>4. CASE q # r
    <3>1. proc'[r] = proc[r]
      BY <1>0, <2>2, <2>4
    <3> QED
      BY <2>1, <2>4, <3>1 DEF RunMoves, RunStays, AtWorkOn
  <2> QED
    BY <2>3, <2>4
<1>9. ASSUME NEW q \in RunIds, StepSaved(q) PROVE RunMoves(r)
  <2>1. /\ pump.stage = "save" /\ pump.runs = {q} /\ pump'.stage = "tick"
        /\ worker[q].phase = "none"
    BY <1>9, StepSavedEffect DEF PumpAndTable, StepSaved
  <2>2. \/ proc' = proc
        \/ \E s \in Image(q) : proc' = [proc EXCEPT ![q] = s] /\ (Alive(q) => s = proc[q])
    BY <1>9, StepSavedEffect DEF PumpAndTable
  <2>3. CASE q = r
    BY <1>0, <1>9, <2>1, <2>2, <2>3 DEF RunMoves, RunIsLeft, AtWorkOn
  <2>4. CASE q # r
    <3>1. proc'[r] = proc[r]
      BY <1>0, <2>2, <2>4
    <3> QED
      BY <2>1, <2>4, <3>1 DEF RunMoves, RunStays, AtWorkOn
  <2> QED
    BY <2>3, <2>4
<1>10. ASSUME NEW q \in RunIds, StepOfGoneRun(q) PROVE RunMoves(r)
  <2>1. /\ pump.stage = "step" /\ pump.runs = {q} /\ ~ Alive(q) /\ proc' = proc
        /\ pump'.stage = "again"
    BY <1>0, <1>10 DEF StepOfGoneRun, Pumps
  <2> QED
    BY <1>10, <2>1 DEF RunMoves, RunStays, RunIsLeft, AtWorkOn
<1>11. ASSUME NEW q \in RunIds, RecordsSaved(q) PROVE RunMoves(r)
  <2>1. /\ pump.stage = "archive" /\ pump'.stage = "remove"
        /\ proc' = [proc EXCEPT ![q] = NoSnapshot]
    BY <1>0, <1>11 DEF RecordsSaved, Pumps
  <2>2. proc'[r] = proc[r] \/ (proc'[r] = NoSnapshot /\ Reachable(r))
    BY <1>0, <2>1 DEF Reachable
  <2> QED
    BY <2>1, <2>2 DEF RunMoves, RunStays, AtWorkOn
<1>12. CASE UNCHANGED vars
  BY <1>1, <1>12 DEF vars
<1> QED
  BY <1>2, <1>3, <1>4, <1>5, <1>6, <1>7, <1>8, <1>9, <1>10, <1>11, <1>12, StepCases

\* The client calls that a step leaves at an await.
LEMMA OpSteps ==
  ASSUME ServiceIsTyped, PumpAndTable, OpsAreSound, [Next]_vars, NEW op \in ops'
  PROVE  /\ op[2] \in Begun'
         /\ \/ op \in ops
            \/ op[1] = "start" /\ startTurn(op[2])
            \/ op[1] = "resume" /\ resumeTurn(op[2])
            \/ op[1] \in {"abort", "shutdown"} /\ ~ Alive(op[2])'
<1> DEFINE Fits == op[2] \in Begun' /\ \/ op \in ops
                                       \/ op[1] = "start" /\ startTurn(op[2])
                                       \/ op[1] = "resume" /\ resumeTurn(op[2])
                                       \/ op[1] \in {"abort", "shutdown"} /\ ~ Alive(op[2])'
<1>0. Begun \subseteq Begun' /\ \A r \in RunIds : Alive(r) => r \in Begun
  BY BegunGrows DEF ServiceIsTyped
<1>1. ASSUME op \in ops PROVE Fits
  BY <1>0, <1>1 DEF OpsAreSound
<1>2. ASSUME NEW r \in RunIds, startTurn(r) PROVE Fits
  <2>1. op \in ops \/ op = <<"start", r>>
    BY <1>2 DEF startTurn
  <2> QED
    BY <1>1, <1>2, <2>1, StartEffect
<1>3. ASSUME NEW r \in RunIds, resumeTurn(r) PROVE Fits
  <2>1. op \in ops \/ op = <<"resume", r>>
    BY <1>3 DEF resumeTurn
  <2> QED
    BY <1>0, <1>1, <1>3, <2>1, ResumeEffect
<1>4. ASSUME NEW runs \in SUBSET AliveRuns, NEW kind \in {"abort", "shutdown"}, NEW kept \in SUBSET ops,
             Abort(runs, kind, kept)
      PROVE  Fits
  <2>1. op \in kept \/ \E r \in runs : op = <<kind, r>>
    BY <1>4 DEF Abort
  <2>2. ASSUME NEW r \in runs, op = <<kind, r>> PROVE Fits
    <3>1. r \in RunIds /\ r \in Begun /\ proc'[r] = NoSnapshot
      BY <1>0, <1>4 DEF AliveRuns, Abort
    <3> QED
      BY <1>0, <2>2, <3>1 DEF Alive
  <2> QED
    BY <1>1, <2>1, <2>2
<1>5. ASSUME NEW r \in RunIds, startTurnReturns(r) PROVE Fits
  <2>1. \/ ops' \subseteq ops
        \/ Alive(r) /\ \E kept \in SUBSET ops : Abort({r}, "abort", kept)
    BY <1>5 DEF startTurnReturns
  <2> QED
    BY <1>1, <1>4, <2>1 DEF AliveRuns
<1>6. ASSUME NEW r \in RunIds, abortTurn(r) PROVE Fits
  BY <1>4, <1>6 DEF abortTurn, AliveRuns
<1>7. CASE DrainEnds \/ LeftoversAborted
  BY <1>4, <1>7 DEF DrainEnds, LeftoversAborted
<1>8. ASSUME NEW r \in RunIds,
             \/ reserveQueuedTurn(r) \/ waitForCompletion(r) \/ cancelQueuedTurn(r)
             \/ cancelReadyRun(r) \/ forceTimeoutRun(r) \/ AnswerSaved(r) \/ resumeTurnReturns(r)
             \/ \E kind \in {"abort", "shutdown"} : abortTurnReturns(kind, r)
             \/ SyscallAnswered(r) \/ RecordsSaved(r) \/ StepReturns(r) \/ StepOfGoneRun(r)
             \/ StepSaved(r)
      PROVE  ops' \subseteq ops
  BY <1>8 DEF reserveQueuedTurn, waitForCompletion, cancelQueuedTurn, cancelReadyRun,
     forceTimeoutRun, Forget, AnswerSaved, resumeTurnReturns, abortTurnReturns, SyscallAnswered,
     RecordsSaved, StepReturns, StepOfGoneRun, StepSaved
<1>9. CASE DisposeBegins \/ DisposedIsSet \/ DisposeReturns \/ Reconciles \/ Ticks \/ PumpEnds
           \/ UNCHANGED vars
  <2>1. ops' = ops
    BY <1>9 DEF DisposeBegins, DisposedIsSet, DisposeReturns, Reconciles, Ticks, PumpEnds, vars,
       PumpStarts, ProcessRemoved, PumpReconcilesAgain, PumpFires, PumpTicks
  <2> QED
    BY <1>1, <2>1
<1> QED
  BY <1>1, <1>2, <1>3, <1>5, <1>6, <1>7, <1>8, <1>9, StepCases DEF AloneOf, Shutdown

\* The timer, the life of the service, and the pump while it does not run.
TimerStep ==
  /\ service' = service \/ (service = "open" /\ service' = "draining")
     \/ (service = "draining" /\ service' = "aborting")
  /\ timer' = timer \/ (timer' = TRUE /\ pump.stage = "idle" /\ ~ Disposed)
     \/ (timer' = FALSE /\ pump'.stage # "idle" /\ ~ Disposed)
  /\ pump.stage # "idle" => pump'.stage # "idle"

LEMMA TimerSteps ==
  ASSUME ServiceIsTyped, [Next]_vars
  PROVE  \/ TimerStep
         \/ PumpEnds
         \/ DisposedIsSet
         \/ LeftoversAborted
         \/ DisposeReturns
<1>0. timer \in BOOLEAN /\ pump \in Pumps
  BY DEF ServiceIsTyped, TypeOK, Pumps, Stages
<1>1. ASSUME NEW r \in RunIds,
             \/ reserveQueuedTurn(r) \/ startTurn(r) \/ waitForCompletion(r) \/ cancelQueuedTurn(r)
             \/ cancelReadyRun(r) \/ forceTimeoutRun(r) \/ abortTurn(r) \/ resumeTurn(r)
             \/ \E kind \in {"abort", "shutdown"} : abortTurnReturns(kind, r)
      PROVE  UNCHANGED <<timer, service, pump>>
  BY <1>1 DEF reserveQueuedTurn, startTurn, waitForCompletion, cancelQueuedTurn, cancelReadyRun,
     forceTimeoutRun, Forget, abortTurn, resumeTurn, abortTurnReturns
<1>2. ASSUME NEW r \in RunIds,
             \/ startTurnReturns(r) \/ resumeTurnReturns(r) \/ SyscallAnswered(r) \/ AnswerSaved(r)
      PROVE  /\ UNCHANGED <<service, pump>>
             /\ timer' = timer \/ SchedulePump
  BY <1>2 DEF startTurnReturns, resumeTurnReturns, SyscallAnswered, AnswerSaved, WorkerEnds
<1>3. SchedulePump => timer' = timer \/ (timer' = TRUE /\ pump.stage = "idle" /\ ~ Disposed)
  BY <1>0 DEF SchedulePump, Disposed
<1>4. ASSUME NEW r \in RunIds,
             RecordsSaved(r) \/ StepReturns(r) \/ StepOfGoneRun(r) \/ StepSaved(r)
      PROVE  UNCHANGED <<service, timer>> /\ pump'.stage # "idle"
  BY <1>0, <1>4 DEF RecordsSaved, StepReturns, StepOfGoneRun, StepSaved, Pumps
<1>5. CASE Reconciles
  <2>1. pump'.stage # "idle"
    BY <1>5 DEF Reconciles, PumpStarts, ProcessRemoved, PumpReconcilesAgain, Reconcile, NoPump
  <2>2. service' = service /\ (timer' = timer \/ (timer' = FALSE /\ ~ Disposed))
    BY <1>5 DEF Reconciles, PumpStarts, ProcessRemoved, PumpReconcilesAgain
  <2> QED
    BY <2>1, <2>2 DEF TimerStep
<1>6. CASE Ticks
  <2>1. UNCHANGED <<service, timer>> /\ pump'.stage # "idle"
    BY <1>0, <1>6 DEF Ticks, PumpFires, PumpTicks, TickBegins, Pumps
  <2> QED
    BY <2>1 DEF TimerStep
<1>7. CASE DisposeBegins \/ DrainEnds
  BY <1>7 DEF DisposeBegins, DrainEnds, TimerStep
<1>8. CASE UNCHANGED vars
  BY <1>8 DEF vars, TimerStep
<1> QED
  <2>1. ASSUME UNCHANGED <<timer, service, pump>> PROVE TimerStep
    BY <2>1 DEF TimerStep
  <2>2. ASSUME UNCHANGED <<service, pump>>, timer' = timer \/ SchedulePump PROVE TimerStep
    BY <1>3, <2>2 DEF TimerStep
  <2>3. ASSUME UNCHANGED <<service, timer>>, pump'.stage # "idle" PROVE TimerStep
    BY <2>3 DEF TimerStep
  <2> QED
    BY <1>1, <1>2, <1>4, <1>5, <1>6, <1>7, <1>8, <2>1, <2>2, <2>3, StepCases DEF AloneOf, Shutdown

-----------------------------------------------------------------------------
\* Each part of the invariant, from the parts it leans on.
LEMMA NewRunsStayNew ==
  ASSUME ServiceIsTyped, PumpAndTable, NewRunsAreNew, [Next]_vars
  PROVE  NewRunsAreNew'
<1> SUFFICES ASSUME NEW r \in RunIds, r \notin Begun'
             PROVE  /\ rec'[r] = "none" /\ worker'[r].phase = "none"
                    /\ \A call \in 1..MaxRuns : executions'[r][call] = 0
  BY DEF NewRunsAreNew
<1>1. /\ r \notin Begun /\ rec[r] = "none" /\ worker[r].phase = "none"
      /\ \A call \in 1..MaxRuns : executions[r][call] = 0
  BY BegunGrows DEF NewRunsAreNew, ServiceIsTyped
<1>2. rec'[r] = "none"
  BY <1>1, RecordSteps DEF RecordStep
<1>3. worker'[r] = worker[r] /\ executions'[r] = executions[r]
  <2>1. r \notin Firable
    BY <1>1, TableIsTyped DEF Firable
  <2>2. ~ SyscallAnswered(r) /\ ~ AnswerSaved(r)
    BY <1>1 DEF SyscallAnswered, AnswerSaved
  <2> QED
    BY <2>1, <2>2, WorkerSteps DEF WorkerMoves, WorkerStays, WorkerFires, WorkerStopped,
       WorkerAnswered
<1> QED
  BY <1>1, <1>2, <1>3

LEMMA ArchivedStaysRecorded ==
  ASSUME ServiceIsTyped, PumpAndTable, ArchivedIsRecorded, [Next]_vars
  PROVE  ArchivedIsRecorded'
<1> SUFFICES ASSUME NEW r \in RunIds, pump'.stage = "archive", r \in pump'.runs
             PROVE  rec'[r] \in {"done", "error"}
  BY DEF ArchivedIsRecorded, AtWorkOn
<1>1. CASE Reconciles
  BY <1>1, ReconcilesEffect, ReconcileEffect DEF PumpAndTable, IsSweep, ServiceIsTyped
<1>2. CASE ~ Reconciles
  <2>1. pump' = pump
    <3>0. pump \in Pumps
      BY DEF ServiceIsTyped, TypeOK, Pumps, Stages
    <3>1. CASE Shutdown \/ \E q \in RunIds : AloneOf(q)
      BY <3>1, RemovalSteps DEF Removal
    <3>2. ASSUME NEW q \in RunIds, startTurn(q) \/ resumeTurn(q) \/ SyscallAnswered(q)
          PROVE  pump' = pump
      BY <3>2 DEF startTurn, resumeTurn, SyscallAnswered
    <3>3. ASSUME NEW q \in RunIds,
                 RecordsSaved(q) \/ StepReturns(q) \/ StepOfGoneRun(q) \/ StepSaved(q)
          PROVE  FALSE
      BY <3>0, <3>3 DEF RecordsSaved, StepReturns, StepOfGoneRun, StepSaved, Pumps
    <3>4. CASE Ticks \/ PumpEnds
      <4>1. TickBegins \/ pump' = NoPump
        BY <3>4 DEF Ticks, PumpFires, PumpTicks, PumpEnds
      <4>2. TickBegins => pump'.stage \in {"step", "again"}
        BY <3>0 DEF TickBegins, Pumps
      <4> QED
        BY <4>1, <4>2 DEF NoPump
    <3> QED
      BY <1>2, <3>1, <3>2, <3>3, <3>4, StepCases DEF vars
  <2>2. rec[r] \in {"done", "error"}
    BY <2>1 DEF ArchivedIsRecorded, AtWorkOn
  <2> QED
    BY <1>2, <2>1, <2>2, RecordSteps DEF RecordStep
<1> QED
  BY <1>1, <1>2

LEMMA OpsStaySound ==
  ASSUME ServiceIsTyped, PumpAndTable, OpsAreSound, [Next]_vars
  PROVE  OpsAreSound'
BY OpSteps DEF OpsAreSound

LEMMA GoneStayGone ==
  ASSUME ServiceIsTyped, PumpAndTable, WorkersAreSound, OpsAreSound, GoneStaysGone, [Next]_vars
  PROVE  GoneStaysGone'
<1> SUFFICES ASSUME NEW r \in RunIds, r \notin HitDuringSave
             PROVE  /\ AtWorkOn(r, {"save"})' => Alive(r)'
                    /\ <<"abort", r>> \in ops' \/ <<"shutdown", r>> \in ops' => ~ Alive(r)'
  BY DEF GoneStaysGone, Unhit
<1>1. /\ AtWorkOn(r, {"save"}) => Alive(r)
      /\ <<"abort", r>> \in ops \/ <<"shutdown", r>> \in ops => ~ Alive(r)
  BY DEF GoneStaysGone, Unhit
<1>2. RunMoves(r)
  BY RunSteps
<1>3. AtWorkOn(r, {"save"})' => Alive(r)'
  <2>1. CASE RunStays(r)
    BY <1>1, <2>1 DEF RunStays, Alive, Reachable, AtWorkOn
  <2>2. CASE RunStarts(r) \/ RunIsReadied(r)
    BY <1>1, <2>2, NoSnapshotIsNone, CreatedIsImage DEF RunStarts, RunIsReadied, Alive, AtWorkOn
  <2>3. CASE RunIsMarked(r) \/ RunIsStepped(r) \/ RunIsLeft(r)
    BY <2>3, NoSnapshotIsNone DEF RunIsMarked, RunIsStepped, RunIsLeft, Alive, AtWorkOn
  <2> QED
    BY <1>2, <2>1, <2>2, <2>3 DEF RunMoves
<1>4. ASSUME NEW kind \in {"abort", "shutdown"}, <<kind, r>> \in ops', Alive(r)'
      PROVE  FALSE
  <2>1. <<kind, r>> \in ops
    BY <1>4, OpSteps
  <2>2. ~ Alive(r) /\ r \in Begun
    BY <1>1, <2>1 DEF OpsAreSound
  <2>3. RunIsLeft(r)
    BY <1>2, <1>4, <2>2 DEF RunMoves, RunStays, RunStarts, RunIsReadied, RunIsMarked,
       RunIsStepped, Alive
  <2> QED
    BY <1>1, <1>4, <2>2, <2>3 DEF RunIsLeft, Alive
<1> QED
  BY <1>3, <1>4

LEMMA WorkersStaySound ==
  ASSUME ServiceIsTyped, PumpAndTable, WorkersAreSound, NewRunsAreNew, [Next]_vars
  PROVE  WorkersAreSound'
<1> SUFFICES ASSUME NEW r \in RunIds
             PROVE  /\ r \in active' => worker'[r].phase # "none"
                    /\ worker'[r].phase = "executing" =>
                         /\ ~ AtWorkOn(r, {"step", "save"})'
                         /\ Alive(r)' =>
                              proc'[r].status = "waiting" /\ proc'[r].call = worker'[r].call
                    /\ worker'[r].phase = "saving" /\ Alive(r)' =>
                         proc'[r].status = "ready" \/ AtWorkOn(r, {"step", "save"})'
  BY DEF WorkersAreSound
<1>1. /\ r \in active => worker[r].phase # "none"
      /\ worker[r].phase = "executing" =>
           /\ ~ AtWorkOn(r, {"step", "save"})
           /\ Alive(r) => proc[r].status = "waiting" /\ proc[r].call = worker[r].call
      /\ worker[r].phase = "saving" /\ Alive(r) =>
           proc[r].status = "ready" \/ AtWorkOn(r, {"step", "save"})
  BY DEF WorkersAreSound
<1>2. RunMoves(r) /\ WorkerMoves(r)
  BY RunSteps, WorkerSteps
<1>3. r \in active' => worker'[r].phase # "none"
  BY <1>1, <1>2 DEF WorkerMoves, WorkerStays, WorkerFires, WorkerStopped, WorkerAnswered
<1>4. CASE WorkerStays(r)
  <2>1. worker'[r] = worker[r]
    BY <1>4 DEF WorkerStays
  <2>2. CASE RunStays(r)
    BY <1>1, <1>3, <2>1, <2>2 DEF RunStays, Alive
  <2>3. CASE RunStarts(r)
    BY <1>3, <2>1, <2>3 DEF RunStarts, NewRunsAreNew
  <2>4. CASE RunIsReadied(r)
    <3>1. worker[r].phase # "executing"
      <4>1. SyscallAnswered(r) => worker'[r].phase # "executing"
        <5>1. SyscallAnswered(r) /\ Alive(r) => worker' = [worker EXCEPT ![r].phase = "saving"]
          BY DEF SyscallAnswered
        <5> QED
          BY <2>4, <5>1 DEF RunIsReadied, ServiceIsTyped, TypeOK
      <4> QED
        BY <1>1, <2>1, <2>4, <4>1 DEF RunIsReadied
    <3> QED
      BY <1>3, <2>1, <2>4, <3>1 DEF RunIsReadied
  <2>5. CASE RunIsMarked(r)
    <3>1. worker[r].phase # "executing"
      BY <1>1, <2>5 DEF RunIsMarked
    <3>2. worker[r].phase = "saving" => AtWorkOn(r, {"step", "save"})'
      BY <1>1, <2>5, TickBeginsEffect, PumpStepsSoundly, TypedStep
         DEF RunIsMarked, PumpAndTable, StepsAreSound, AtWorkOn
    <3> QED
      BY <1>3, <2>1, <3>1, <3>2
  <2>6. CASE RunIsStepped(r)
    BY <1>1, <1>3, <2>1, <2>6 DEF RunIsStepped, AtWorkOn
  <2>7. CASE RunIsLeft(r)
    BY <1>1, <1>3, <2>1, <2>7 DEF RunIsLeft, Alive
  <2> QED
    BY <1>2, <2>2, <2>3, <2>4, <2>5, <2>6, <2>7 DEF RunMoves
<1>5. CASE WorkerFires(r)
  <2>1. /\ proc[r].status = "waiting" /\ pump.stage = "fire" /\ PumpFires
        /\ worker'[r].phase = "executing" /\ worker'[r].call = proc[r].call
    BY <1>5 DEF WorkerFires, Firable, PumpFires
  <2>2. pump \in Pumps
    BY DEF ServiceIsTyped, TypeOK, Pumps, Stages
  <2>3. ~ RunIsStepped(r) /\ ~ RunIsLeft(r) /\ ~ RunIsMarked(r)
    BY <2>1 DEF RunIsStepped, RunIsLeft, RunIsMarked, StepOfGoneRun, StepSaved, AtWorkOn
  <2>4. pump'.stage \in {"step", "again"}
    BY <2>1, <2>2 DEF PumpFires, TickBegins, Pumps
  <2>5. RunStays(r)
    BY <1>2, <2>1, <2>3, <2>4 DEF RunMoves, RunStarts, RunIsReadied
  <2> QED
    BY <1>3, <2>1, <2>5 DEF RunStays, AtWorkOn, Alive
<1>6. CASE WorkerStopped(r)
  BY <1>3, <1>6 DEF WorkerStopped
<1>7. CASE WorkerAnswered(r)
  <2>1. proc'[r].status = "ready" /\ worker'[r].phase = "saving"
    <3>1. \E s \in Image(r) : proc' = [proc EXCEPT ![r] = s] /\ s.status = "ready"
      BY <1>7, SyscallAnsweredEffect DEF WorkerAnswered
    <3> QED
      BY <1>7, <3>1 DEF WorkerAnswered, ServiceIsTyped, TypeOK
  <2> QED
    BY <1>3, <2>1
<1> QED
  BY <1>2, <1>4, <1>5, <1>6, <1>7 DEF WorkerMoves

LEMMA CallsStayCounted ==
  ASSUME ServiceIsTyped, PumpAndTable, WorkersAreSound, NewRunsAreNew, GoneStaysGone,
         CallsAreCounted, [Next]_vars
  PROVE  CallsAreCounted'
<1> SUFFICES ASSUME NEW r \in RunIds, r \notin HitDuringSave
             PROVE  /\ \A call \in 1..MaxRuns : executions'[r][call] <= 1
                    /\ Alive(r)' => \A call \in 1..MaxRuns :
                                      call > proc'[r].runs => executions'[r][call] = 0
                    /\ (proc'[r].status = "waiting"
                          /\ ~ (r \in active' /\ worker'[r].phase = "executing")) =>
                         executions'[r][proc'[r].call] = 0
  BY DEF CallsAreCounted, Unhit
<1>1. /\ \A call \in 1..MaxRuns : executions[r][call] <= 1
      /\ Alive(r) => \A call \in 1..MaxRuns : call > proc[r].runs => executions[r][call] = 0
      /\ (proc[r].status = "waiting" /\ ~ (r \in active /\ worker[r].phase = "executing")) =>
           executions[r][proc[r].call] = 0
  BY DEF CallsAreCounted, Unhit
<1>2. RunMoves(r) /\ WorkerMoves(r) /\ MaxRuns \in Nat
  BY RunSteps, WorkerSteps, ServiceAssumption
<1>3. executions[r] \in [1..MaxRuns -> Nat]
  BY DEF ServiceIsTyped, TypeOK
<1>4. /\ Alive(r) => proc[r] \in Image(r) /\ r \in Begun
      /\ proc[r].status = "waiting" => Alive(r)
  BY TableIsTyped
<1>5. CASE WorkerFires(r)
  <2>1. /\ proc[r].status = "waiting" /\ proc[r].call # NoCall /\ r \notin active
        /\ proc[r].call \in 1..MaxRuns /\ proc[r].call = proc[r].runs /\ Alive(r)
    <3>1. proc[r].status = "waiting" /\ proc[r].call # NoCall /\ r \notin active
      BY <1>5 DEF WorkerFires, Firable
    <3>2. proc[r] \in Image(r) /\ Alive(r)
      BY <1>4, <3>1
    <3> QED
      BY <3>1, <3>2, ServiceAssumption DEF Image, Snapshot, NoCall
  <2>2. executions[r][proc[r].call] = 0
    BY <1>1, <2>1
  <2>3. executions'[r] = [executions[r] EXCEPT ![proc[r].call] = 1]
    BY <1>5, <2>2 DEF WorkerFires
  <2>4. /\ executions'[r][proc[r].call] = 1
        /\ \A call \in 1..MaxRuns : call # proc[r].call => executions'[r][call] = executions[r][call]
    BY <1>3, <2>1, <2>3
  <2>5. proc'[r] = proc[r] \/ proc'[r] = NoSnapshot
    <3>1. PumpFires /\ pump.stage = "fire"
      BY <1>5 DEF WorkerFires, PumpFires
    <3>2. ~ RunIsStepped(r) /\ ~ RunIsLeft(r) /\ ~ RunIsMarked(r)
      BY <2>1, <3>1 DEF RunIsStepped, RunIsLeft, RunIsMarked, StepOfGoneRun, StepSaved, AtWorkOn
    <3>3. pump \in Pumps
      BY DEF ServiceIsTyped, TypeOK, Pumps, Stages
    <3>4. pump'.stage \in {"step", "again"}
      BY <3>1, <3>3 DEF PumpFires, TickBegins, Pumps
    <3> QED
      BY <1>2, <3>1, <3>2, <3>4 DEF RunMoves, RunStays, RunStarts, RunIsReadied
  <2>6. proc[r].runs \in Nat
    BY <2>1
  <2>7. r \in active' /\ worker'[r].phase = "executing"
    BY <1>5 DEF WorkerFires
  <2> QED
    BY <1>1, <2>1, <2>4, <2>5, <2>6, <2>7 DEF Alive
<1>6. CASE ~ WorkerFires(r)
  <2>1. executions'[r] = executions[r]
    BY <1>2, <1>6 DEF WorkerMoves, WorkerStays, WorkerStopped, WorkerAnswered
  <2>2. CASE proc'[r] = proc[r]
    <3>1. ASSUME proc[r].status = "waiting", ~ (r \in active' /\ worker'[r].phase = "executing")
          PROVE  executions'[r][proc'[r].call] = 0
      <4>1. Alive(r) /\ Alive(r)'
        BY <1>4, <2>2, <3>1 DEF Alive
      <4>2. ~ (r \in active /\ worker[r].phase = "executing")
        <5>1. CASE WorkerStays(r)
          BY <3>1, <4>1, <5>1 DEF WorkerStays, GoneStaysGone, Unhit
        <5>2. CASE WorkerStopped(r)
          BY <4>1, <5>2 DEF WorkerStopped, AnswerSaved
        <5>3. CASE WorkerAnswered(r)
          <6>1. \E s \in Image(r) : proc' = [proc EXCEPT ![r] = s] /\ s.status = "ready"
            BY <5>3, SyscallAnsweredEffect DEF WorkerAnswered
          <6> QED
            BY <2>2, <3>1, <6>1 DEF ServiceIsTyped, TypeOK
        <5> QED
          BY <1>2, <1>6, <5>1, <5>2, <5>3 DEF WorkerMoves
      <4> QED
        BY <1>1, <2>1, <2>2, <3>1, <4>2
    <3> QED
      BY <1>1, <2>1, <2>2, <3>1 DEF Alive
  <2>3. CASE proc'[r] = NoSnapshot
    BY <1>1, <2>1, <2>3, NoSnapshotIsNone DEF Alive
  <2>4. CASE RunStarts(r)
    <3>1. /\ \A call \in 1..MaxRuns : executions[r][call] = 0
          /\ proc'[r].status = "ready"
      BY <2>4, CreatedIsImage DEF RunStarts, NewRunsAreNew
    <3> QED
      BY <2>1, <3>1
  <2>5. CASE RunIsReadied(r) \/ RunIsMarked(r)
    <3>1. Alive(r) /\ proc'[r].runs = proc[r].runs /\ proc'[r].status \in {"ready", "running"}
      BY <2>5 DEF RunIsReadied, RunIsMarked
    <3> QED
      BY <1>1, <2>1, <3>1
  <2>6. CASE RunIsStepped(r)
    <3>1. /\ Alive(r) /\ proc[r] \in Image(r) /\ proc'[r] \in Image(r)
          /\ proc'[r].runs = proc[r].runs + 1
      BY <2>6 DEF RunIsStepped
    <3>2. proc[r].runs \in Nat /\ proc'[r].call \in 0..MaxRuns
      BY <3>1 DEF Image, Snapshot
    <3>3. proc'[r].status = "waiting" =>
            proc'[r].call \in 1..MaxRuns /\ proc'[r].call = proc[r].runs + 1
      BY <3>1, <3>2, ServiceAssumption DEF Image, NoCall
    <3>4. \A call \in 1..MaxRuns : call > proc[r].runs => executions'[r][call] = 0
      BY <1>1, <2>1, <3>1
    <3> QED
      BY <1>1, <2>1, <3>1, <3>2, <3>3, <3>4
  <2>7. CASE RunIsLeft(r)
    BY <2>2, <2>7 DEF RunIsLeft, GoneStaysGone, Unhit
  <2> QED
    BY <1>2, <2>2, <2>3, <2>4, <2>5, <2>6, <2>7 DEF RunMoves, RunStays
<1> QED
  BY <1>5, <1>6

LEMMA RecordsStayMatched ==
  ASSUME ServiceIsTyped, PumpAndTable, WorkersAreSound, NewRunsAreNew, GoneStaysGone,
         RecordsMatchLiveRuns, [Next]_vars
  PROVE  RecordsMatchLiveRuns'
<1> SUFFICES ASSUME NEW r \in RunIds, r \notin HitDuringSave, Alive(r)', rec'[r] # "none"
             PROVE  rec'[r] = proc'[r].status
  BY DEF RecordsMatchLiveRuns
<1>1. Alive(r) /\ rec[r] # "none" => rec[r] = proc[r].status
  BY DEF RecordsMatchLiveRuns
<1>2. rec \in [RunIds -> {"none", "suspended", "done", "error"}]
  BY DEF ServiceIsTyped, TypeOK
<1>3. CASE rec'[r] = rec[r]
  <2>1. rec[r] \in {"suspended", "done", "error"}
    BY <1>2, <1>3
  <2>2. CASE RunStays(r)
    BY <1>1, <1>3, <2>1, <2>2 DEF RunStays, Alive
  <2>3. CASE RunStarts(r)
    BY <1>3, <2>3 DEF RunStarts, NewRunsAreNew
  <2>4. CASE RunIsReadied(r)
    <3>1. resumeTurn(r) => rec'[r] = "none"
      BY <1>2 DEF resumeTurn
    <3> QED
      BY <1>1, <2>1, <2>4, <3>1 DEF RunIsReadied
  <2>5. CASE RunIsMarked(r) \/ RunIsStepped(r)
    BY <1>1, <2>1, <2>5 DEF RunIsMarked, RunIsStepped
  <2>6. CASE RunIsLeft(r)
    BY <1>1, <1>3, <2>1, <2>6 DEF RunIsLeft, GoneStaysGone, Unhit, Alive
  <2> QED
    BY <2>2, <2>3, <2>4, <2>5, <2>6, RunSteps DEF RunMoves
<1>4. CASE Reconciles
  <2>1. PICK todo, round : IsSweep(todo) /\ round \in 1..2 /\ Reconcile(todo, round)
    BY <1>4, ReconcilesEffect DEF PumpAndTable
  <2>2. \/ rec'[r] = rec[r]
        \/ \E e \in todo : e.run = r /\ rec'[r] = RecordOf(e.status)
    BY <2>1, ReconcileEffect DEF IsSweep, ServiceIsTyped
  <2>3. proc'[r] = proc[r] /\ Alive(r)
    BY <1>4, ReconcilesEffect DEF PumpAndTable, Alive
  <2>4. ASSUME NEW e \in todo, e.run = r, rec'[r] = RecordOf(e.status) PROVE rec'[r] = proc'[r].status
    <3>1. \/ proc[r].status = e.status
          \/ proc[r].status = "ready" /\ e.status = "waiting"
      BY <2>1, <2>3, <2>4 DEF IsSweep
    <3> QED
      BY <2>3, <2>4, <3>1 DEF RecordOf
  <2> QED
    BY <1>3, <2>2, <2>4
<1> QED
  BY <1>3, <1>4, RecordSteps DEF RecordStep

\* A pump that ends has seen to every run that is ready, and left the others with
\* somebody at work on them.
LEMMA EndedPumpIsArmed ==
  ASSUME ServiceIsTyped, PumpAndTable, WorkersAreSound, PumpEnds, ~ timer', ~ Disposed,
         NEW r \in RunIds, Alive(r)'
  PROVE  \/ proc'[r].status = "suspended"
         \/ proc'[r].status = "waiting" /\ worker'[r].phase = "executing"
<1>1. /\ proc' = proc /\ worker' = worker /\ pump.stage = "end" /\ ~ NextPumpNeeded
  BY DEF PumpEnds, callVars
<1>2. pump.todo = {} /\ ~ AtWorkOn(r, {"archive"}) /\ ~ AtWorkOn(r, {"step", "save"})
      /\ ~ AtWorkOn(r, {"step"})
  BY <1>1 DEF PumpAndTable, PumpIsSound, AtWorkOn
<1>3. ~ IsFinished(proc[r]) /\ proc[r].status # "running"
  BY <1>1, <1>2 DEF PumpAndTable, FinishedIsTodo, StepsAreSound
<1>4. Alive(r) /\ proc[r].status \in {"ready", "waiting", "suspended"}
  BY <1>1, <1>3, TableIsTyped DEF Alive, ProcessStatus
<1>5. proc[r].status # "ready" /\ (proc[r].status = "waiting" => r \in active)
  BY <1>1 DEF NextPumpNeeded
<1>6. worker[r].phase \in {"none", "executing", "saving"}
  BY DEF ServiceIsTyped, TypeOK
<1>7. proc[r].status = "waiting" => worker[r].phase = "executing"
  BY <1>2, <1>4, <1>5, <1>6 DEF WorkersAreSound
<1> QED
  BY <1>1, <1>4, <1>5, <1>7

LEMMA PumpStaysArmed ==
  ASSUME ServiceIsTyped, PumpAndTable, WorkersAreSound, OpsAreSound, PumpIsArmed, [Next]_vars
  PROVE  PumpIsArmed'
<1> SUFFICES ASSUME pump'.stage = "idle", ~ timer',
                    service' \in {"open", "draining", "aborting"},
                    NEW r \in RunIds, Alive(r)'
             PROVE  \/ proc'[r].status = "suspended"
                    \/ proc'[r].status = "waiting" /\ worker'[r].phase = "executing"
                    \/ /\ proc'[r].status = "ready"
                       /\ \/ worker'[r].phase = "saving"
                          \/ <<"start", r>> \in ops' \/ <<"resume", r>> \in ops'
  BY DEF PumpIsArmed
<1>1. CASE PumpEnds
  <2>1. ~ Disposed
    BY <1>1 DEF PumpEnds, Disposed
  <2> QED
    BY <1>1, <2>1, EndedPumpIsArmed
<1>2. CASE ~ PumpEnds
  <2>1. /\ TimerStep /\ service \in {"open", "draining", "aborting"}
    <3>1. ~ DisposedIsSet /\ ~ LeftoversAborted /\ ~ DisposeReturns
      BY DEF DisposedIsSet, LeftoversAborted, DisposeReturns
    <3> QED
      BY <1>2, <3>1, TimerSteps DEF TimerStep
  <2>2. pump.stage = "idle" /\ ~ timer /\ ~ Disposed
    BY <2>1 DEF TimerStep, Disposed, ServiceIsTyped, TypeOK
  <2>3. Alive(r) =>
          \/ proc[r].status = "suspended"
          \/ proc[r].status = "waiting" /\ worker[r].phase = "executing"
          \/ /\ proc[r].status = "ready"
             /\ \/ worker[r].phase = "saving"
                \/ <<"start", r>> \in ops \/ <<"resume", r>> \in ops
    BY <2>1, <2>2 DEF PumpIsArmed
  <2>4. RunMoves(r) /\ WorkerMoves(r)
    BY RunSteps, WorkerSteps
  <2>5. CASE RunStarts(r)
    <3>1. <<"start", r>> \in ops' /\ proc'[r].status = "ready"
      BY <2>5, CreatedIsImage DEF RunStarts, startTurn
    <3> QED
      BY <3>1
  <2>6. CASE RunIsReadied(r)
    <3>1. resumeTurn(r) => <<"resume", r>> \in ops'
      BY DEF resumeTurn
    <3>2. SyscallAnswered(r) => worker'[r].phase = "saving"
      BY <2>6 DEF RunIsReadied, SyscallAnswered, ServiceIsTyped, TypeOK
    <3> QED
      BY <2>6, <3>1, <3>2 DEF RunIsReadied
  <2>7. CASE RunStays(r)
    <3>1. proc'[r] = proc[r] /\ Alive(r)
      BY <2>7 DEF RunStays, Alive
    <3>2. CASE proc[r].status = "waiting" /\ worker[r].phase = "executing"
      <4>1. ~ WorkerStopped(r) /\ ~ WorkerFires(r)
        BY <2>2, <3>1, <3>2 DEF WorkerStopped, WorkerFires, PumpFires, AnswerSaved
      <4>2. ~ WorkerAnswered(r)
        <5>1. WorkerAnswered(r) => \E s \in Image(r) : proc' = [proc EXCEPT ![r] = s] /\ s.status = "ready"
          BY SyscallAnsweredEffect DEF WorkerAnswered
        <5> QED
          BY <3>1, <3>2, <5>1 DEF ServiceIsTyped, TypeOK
      <4> QED
        BY <2>4, <3>1, <3>2, <4>1, <4>2 DEF WorkerMoves, WorkerStays
    <3>3. CASE proc[r].status = "ready" /\ worker[r].phase = "saving"
      <4>1. ~ WorkerStopped(r) /\ ~ WorkerFires(r)
        BY <2>2 DEF WorkerStopped, WorkerFires, PumpFires
      <4> QED
        BY <2>4, <3>1, <3>3, <4>1 DEF WorkerMoves, WorkerStays, WorkerAnswered
    <3>4. ASSUME NEW kind \in {"start", "resume"}, <<kind, r>> \in ops
          PROVE  <<kind, r>> \in ops'
      <4>1. ASSUME NEW q \in RunIds, startTurnReturns(q) PROVE <<kind, r>> \in ops'
        <5>1. CASE q = r
          <6>1. CASE service = "open" /\ SchedulePump
            BY <2>2, <6>1 DEF SchedulePump
          <6>2. CASE service # "open" /\ Abort({q}, "abort", ops \ {<<"start", q>>})
            BY <3>1, <5>1, <6>2 DEF Abort, Alive
          <6>3. CASE ~ Alive(q)
            BY <3>1, <5>1, <6>3
          <6> QED
            BY <4>1, <6>1, <6>2, <6>3 DEF startTurnReturns
        <5>2. CASE q # r
          <6>1. ops \ {<<"start", q>>} \subseteq ops'
            BY <4>1 DEF startTurnReturns, Abort
          <6> QED
            BY <3>4, <5>2, <6>1
        <5> QED
          BY <5>1, <5>2
      <4>2. ASSUME NEW q \in RunIds, resumeTurnReturns(q) PROVE <<kind, r>> \in ops'
        BY <2>2, <4>2 DEF resumeTurnReturns, SchedulePump
      <4>3. ASSUME NEW q \in RunIds, NEW other \in {"abort", "shutdown"}, abortTurnReturns(other, q)
            PROVE  <<kind, r>> \in ops'
        BY <3>4, <4>3 DEF abortTurnReturns
      <4>4. ASSUME NEW q \in RunIds,
                   \/ reserveQueuedTurn(q) \/ waitForCompletion(q) \/ cancelQueuedTurn(q)
                   \/ cancelReadyRun(q) \/ forceTimeoutRun(q) \/ AnswerSaved(q) \/ abortTurn(q)
                   \/ SyscallAnswered(q) \/ RecordsSaved(q) \/ StepReturns(q) \/ StepOfGoneRun(q)
                   \/ StepSaved(q) \/ startTurn(q) \/ resumeTurn(q)
            PROVE  ops \subseteq ops'
        BY <4>4 DEF reserveQueuedTurn, waitForCompletion, cancelQueuedTurn, cancelReadyRun,
           forceTimeoutRun, Forget, AnswerSaved, abortTurn, Abort, SyscallAnswered,
           RecordsSaved, StepReturns, StepOfGoneRun, StepSaved, startTurn, resumeTurn
      <4>5. CASE Shutdown \/ Reconciles \/ Ticks \/ UNCHANGED vars
        <5>1. ops \subseteq ops'
          BY <4>5 DEF Shutdown, DisposeBegins, DrainEnds, DisposedIsSet, LeftoversAborted, Abort,
             DisposeReturns, Reconciles, Ticks, vars, PumpStarts, ProcessRemoved,
             PumpReconcilesAgain, PumpFires, PumpTicks
        <5> QED
          BY <3>4, <5>1
      <4> QED
        BY <1>2, <3>4, <4>1, <4>2, <4>3, <4>4, <4>5, StepCases DEF AloneOf
    <3> QED
      BY <2>3, <3>1, <3>2, <3>3, <3>4
  <2>8. ~ RunIsMarked(r) /\ ~ RunIsStepped(r) /\ ~ RunIsLeft(r)
    BY <2>2 DEF RunIsMarked, RunIsStepped, RunIsLeft, AtWorkOn
  <2> QED
    BY <2>4, <2>5, <2>6, <2>7, <2>8 DEF RunMoves
<1> QED
  BY <1>1, <1>2

LEMMA DisposalStaysSound ==
  ASSUME ServiceIsTyped, PumpAndTable, WorkersAreSound, DisposalIsSound, [Next]_vars
  PROVE  DisposalIsSound'
<1>1. \/ TimerStep \/ PumpEnds \/ DisposedIsSet \/ LeftoversAborted \/ DisposeReturns
  BY TimerSteps
<1>2. service \in {"boot", "open", "draining", "aborting", "disposed", "closing", "closed"}
  BY DEF ServiceIsTyped, TypeOK
<1>3. Disposed' => ~ timer'
  <2>1. CASE TimerStep
    BY <2>1 DEF TimerStep, Disposed, DisposalIsSound
  <2>2. CASE PumpEnds
    BY <2>2 DEF PumpEnds, Disposed, DisposalIsSound
  <2>3. CASE DisposedIsSet \/ LeftoversAborted \/ DisposeReturns
    BY <2>3 DEF DisposedIsSet, LeftoversAborted, DisposeReturns, Disposed, DisposalIsSound
  <2> QED
    BY <1>1, <2>1, <2>2, <2>3
<1>4. ASSUME service' \in {"closing", "closed"} PROVE AliveRuns' = {} /\ pump'.stage = "idle"
  <2>1. CASE LeftoversAborted
    <3>1. \A r \in RunIds : proc'[r] = NoSnapshot
      BY <2>1 DEF LeftoversAborted, Abort, AliveRuns, Alive
    <3> QED
      BY <2>1, <3>1 DEF LeftoversAborted, AliveRuns, Alive
  <2>2. CASE ~ LeftoversAborted
    <3>1. service \in {"closing", "closed"}
      BY <1>1, <1>4, <2>2 DEF TimerStep, PumpEnds, DisposedIsSet, DisposeReturns
    <3>2. AliveRuns = {} /\ pump.stage = "idle" /\ ~ timer
      BY <3>1 DEF DisposalIsSound, Disposed
    <3>3. pump'.stage = "idle"
      <4>1. \A q \in RunIds :
              ~ (RecordsSaved(q) \/ StepReturns(q) \/ StepOfGoneRun(q) \/ StepSaved(q))
        BY <3>2 DEF RecordsSaved, StepReturns, StepOfGoneRun, StepSaved
      <4>2. ~ Reconciles /\ ~ Ticks /\ ~ PumpEnds
        BY <3>2 DEF Reconciles, PumpStarts, ProcessRemoved, PumpReconcilesAgain, Ticks,
           PumpFires, PumpTicks, PumpEnds
      <4>3. pump' = pump
        <5>1. CASE Shutdown \/ \E q \in RunIds : AloneOf(q)
          BY <5>1, RemovalSteps DEF Removal
        <5>2. ASSUME NEW q \in RunIds, startTurn(q) \/ resumeTurn(q) \/ SyscallAnswered(q)
              PROVE  pump' = pump
          BY <5>2 DEF startTurn, resumeTurn, SyscallAnswered
        <5> QED
          BY <4>1, <4>2, <5>1, <5>2, StepCases DEF vars
      <4> QED
        BY <3>2, <4>3
    <3>4. \A r \in RunIds : proc'[r] = NoSnapshot
      <4> SUFFICES ASSUME NEW r \in RunIds PROVE proc'[r] = NoSnapshot
        OBVIOUS
      <4>1. ~ Alive(r)
        BY <3>2 DEF AliveRuns
      <4>2. ~ RunStarts(r)
        BY <3>1 DEF RunStarts, startTurn, AcceptingTurns
      <4>3. ~ RunIsLeft(r)
        BY <3>2 DEF RunIsLeft
      <4> QED
        BY <4>1, <4>2, <4>3, RunSteps DEF RunMoves, RunStays, RunIsReadied, RunIsMarked,
           RunIsStepped, Alive
    <3> QED
      BY <3>3, <3>4 DEF AliveRuns, Alive
  <2> QED
    BY <2>1, <2>2
<1> QED
  BY <1>3, <1>4 DEF DisposalIsSound

-----------------------------------------------------------------------------
LEMMA InitIsSound ==
  ASSUME Init
  PROVE  ServiceIsSound
<1>1. /\ proc \in [RunIds -> Restorable] /\ pump.stage = "again" /\ pump.todo = {}
      /\ pump.runs = {} /\ pump.next = NoSnapshot /\ pump \in Pumps
      /\ queued = {} /\ started = AliveRuns /\ Begun = AliveRuns /\ timer = FALSE
      /\ \A r \in RunIds : rec[r] = "none" /\ worker[r].phase = "none"
      /\ active = {} /\ ops = {} /\ service = "boot"
      /\ \A r \in RunIds : \A call \in 1..MaxRuns : executions[r][call] = 0
  <2>1. /\ pump.stage = "again" /\ pump.todo = {} /\ pump.runs = {} /\ pump.next = NoSnapshot
        /\ pump.round = 1 /\ pump = [NoPump EXCEPT !.stage = "again"]
    BY DEF Init, NoPump
  <2>2. NoSnapshot \in Maybe(Snapshot) /\ NoPump \in Pumps
    BY DEF NoPump, Pumps, Stages, Maybe
  <2>3. pump \in Pumps
    BY <2>1, <2>2 DEF Pumps, Stages
  <2>4. \A r \in RunIds : rec[r] = "none" /\ worker[r].phase = "none"
    BY DEF Init, NoWorker
  <2>5. \A r \in RunIds : \A call \in 1..MaxRuns : executions[r][call] = 0
    BY DEF Init
  <2>6. Begun = AliveRuns
    BY DEF Init, Begun
  <2> QED
    BY <2>1, <2>3, <2>4, <2>5, <2>6 DEF Init
<1>2. ASSUME NEW r \in RunIds, Alive(r)
      PROVE  proc[r] \in Image(r) /\ proc[r].status # "running"
  BY <1>1, <1>2, RestorableIsImage DEF Alive
<1>3. ServiceIsTyped
  <2>1. proc \in [RunIds -> Maybe(Snapshot)]
    <3>1. \A r \in RunIds : proc[r] \in Maybe(Snapshot)
      BY <1>2 DEF Alive, Maybe, Image
    <3> QED
      BY <1>1, <3>1
  <2>2. NoWorker \in [phase : {"none", "executing", "saving"}, call : 0..MaxRuns]
    BY ServiceAssumption DEF NoWorker, NoCall
  <2>3. rec \in [RunIds -> {"none", "suspended", "done", "error"}]
    BY DEF Init
  <2>4. executions \in [RunIds -> [1..MaxRuns -> Nat]]
    BY DEF Init
  <2>5. worker \in [RunIds -> [phase : {"none", "executing", "saving"}, call : 0..MaxRuns]]
    BY <2>2 DEF Init
  <2>6. waiting = {} /\ killed = {} /\ AliveRuns \subseteq RunIds
    BY DEF Init, AliveRuns
  <2>7. TypeOK
    BY <1>1, <2>1, <2>3, <2>4, <2>5, <2>6 DEF TypeOK, Pumps, Stages
  <2> QED
    BY <1>1, <1>2, <2>7 DEF ServiceIsTyped, AliveRuns
<1>4. NewRunsAreNew /\ ArchivedIsRecorded /\ OpsAreSound
  BY <1>1 DEF NewRunsAreNew, ArchivedIsRecorded, AtWorkOn, OpsAreSound
<1>5. PumpIsSound /\ FinishedIsTodo
  BY <1>1 DEF PumpIsSound, FinishedIsTodo
<1>6. StepsAreSound
  BY <1>1, <1>2, NoSnapshotIsNone DEF StepsAreSound, AtWorkOn, Alive
<1>7. WorkersAreSound
  BY <1>1 DEF WorkersAreSound
<1>8. GoneStaysGone
  BY <1>1 DEF GoneStaysGone, AtWorkOn
<1>9. CallsAreCounted
  <2>1. ASSUME NEW r \in RunIds, proc[r].status = "waiting"
        PROVE  proc[r].call \in 1..MaxRuns
    <3>1. proc[r] \in Image(r)
      BY <1>2, <2>1, NoSnapshotIsNone DEF Alive
    <3> QED
      BY <2>1, <3>1, ServiceAssumption DEF Image, Snapshot, NoCall
  <2> QED
    BY <1>1, <2>1 DEF CallsAreCounted, Unhit
<1>10. RecordsMatchLiveRuns /\ PumpIsArmed /\ DisposalIsSound
  BY <1>1 DEF RecordsMatchLiveRuns, PumpIsArmed, DisposalIsSound, Disposed
<1> QED
  BY <1>3, <1>4, <1>5, <1>6, <1>7, <1>8, <1>9, <1>10 DEF ServiceIsSound

\* The parts above hold of every state that the service reaches.
THEOREM ServiceStaysSound == Spec => []ServiceIsSound
<1>1. Init => ServiceIsSound
  BY InitIsSound
<1>2. ServiceIsSound /\ [Next]_vars => ServiceIsSound'
  <2> SUFFICES ASSUME ServiceIsSound, [Next]_vars PROVE ServiceIsSound'
    OBVIOUS
  <2>1. /\ ServiceIsTyped /\ NewRunsAreNew /\ PumpAndTable /\ ArchivedIsRecorded
        /\ WorkersAreSound /\ OpsAreSound /\ GoneStaysGone /\ CallsAreCounted
        /\ RecordsMatchLiveRuns /\ PumpIsArmed /\ DisposalIsSound
    BY DEF ServiceIsSound, PumpAndTable
  <2>2. ServiceIsTyped' /\ PumpAndTable'
    BY <2>1, TypedStep, PumpStepsSoundly
  <2>3. NewRunsAreNew' /\ ArchivedIsRecorded' /\ OpsAreSound'
    BY <2>1, NewRunsStayNew, ArchivedStaysRecorded, OpsStaySound
  <2>4. WorkersAreSound' /\ GoneStaysGone' /\ CallsAreCounted'
    BY <2>1, WorkersStaySound, GoneStayGone, CallsStayCounted
  <2>5. RecordsMatchLiveRuns' /\ PumpIsArmed' /\ DisposalIsSound'
    BY <2>1, RecordsStayMatched, PumpStaysArmed, DisposalStaysSound
  <2> QED
    BY <2>2, <2>3, <2>4, <2>5 DEF ServiceIsSound, PumpAndTable
<1> QED
  BY <1>1, <1>2, PTL DEF Spec

\* The tables of the service keep to their types, and a reserved run is not in
\* the kernel's table as well.
THEOREM ServiceTypes == Spec => []TypeOK
<1>1. ServiceIsSound => TypeOK
  BY DEF ServiceIsSound, ServiceIsTyped
<1> QED
  BY <1>1, ServiceStaysSound, PTL

\* No system call of a run that does not come back is executed twice, however
\* pumps, workers, cancellations and restarts of the pump fall together.
THEOREM CallsRunOnce == Spec => []CallsAreExecutedOnce
<1>1. ServiceIsSound => CallsAreExecutedOnce
  BY DEF ServiceIsSound, CallsAreCounted, CallsAreExecutedOnce, Unhit
<1> QED
  BY <1>1, ServiceStaysSound, PTL

\* What is remembered of a live run is what has become of it, so that nobody is
\* answered from a record that is out of date.
THEOREM RecordsMatch == Spec => []RecordsMatchLiveRuns
<1>1. ServiceIsSound => RecordsMatchLiveRuns
  BY DEF ServiceIsSound
<1> QED
  BY <1>1, ServiceStaysSound, PTL

\* No run is left without a pump under way, a pump to come, or somebody at work on
\* it who will schedule one.
THEOREM PumpIsNeverMissed == Spec => []PumpIsArmed
<1>1. ServiceIsSound => PumpIsArmed
  BY DEF ServiceIsSound
<1> QED
  BY <1>1, ServiceStaysSound, PTL

\* dispose() leaves no run, no pump and no timer behind.
THEOREM DisposeLeavesNothing == Spec => []ClosedIsEmpty
<1>1. ServiceIsSound => ClosedIsEmpty
  BY DEF ServiceIsSound, DisposalIsSound, ClosedIsEmpty, Disposed
<1> QED
  BY <1>1, ServiceStaysSound, PTL

\* The steps that take a run from the table.
LEMMA RemovedIsAccountedFor ==
  ASSUME ServiceIsTyped, PumpAndTable, WorkersAreSound, ArchivedIsRecorded, [Next]_vars,
         NEW r \in RunIds, Alive(r), ~ Alive(r)'
  PROVE  /\ rec'[r] \in {"done", "error"}
         /\ r \notin waiting' \/ {<<"abort", r>>, <<"shutdown", r>>} \cap ops' # {}
<1> DEFINE Fits == /\ rec'[r] \in {"done", "error"}
                   /\ r \notin waiting' \/ {<<"abort", r>>, <<"shutdown", r>>} \cap ops' # {}
<1>0. /\ proc \in [RunIds -> Maybe(Snapshot)]
      /\ rec \in [RunIds -> {"none", "suspended", "done", "error"}]
  BY DEF ServiceIsTyped, TypeOK
<1>1. ASSUME NEW q \in RunIds, Forget(q) PROVE Fits
  BY <1>0, <1>1 DEF Forget, Answered, Alive
<1>2. ASSUME NEW runs, NEW kind \in {"abort", "shutdown"}, NEW kept, Abort(runs, kind, kept)
      PROVE  Fits
  <2>1. r \in runs
    BY <1>2 DEF Abort, Alive
  <2>2. rec'[r] = "error"
    BY <1>2, <2>1 DEF Abort
  <2>3. <<kind, r>> \in ops'
    BY <1>2, <2>1 DEF Abort
  <2> QED
    BY <1>2, <2>2, <2>3
<1>3. ASSUME NEW q \in RunIds, RecordsSaved(q) PROVE Fits
  <2>1. q = r
    BY <1>0, <1>3 DEF RecordsSaved, Alive
  <2> QED
    BY <1>3, <2>1 DEF RecordsSaved, ArchivedIsRecorded, AtWorkOn, Answered
<1>4. ASSUME NEW q \in RunIds, AloneOf(q) PROVE Fits
  <2>1. \/ proc' = proc
        \/ Forget(q) \/ \E kept : Abort({q}, "abort", kept)
    BY <1>4 DEF AloneOf, reserveQueuedTurn, startTurnReturns, waitForCompletion, cancelQueuedTurn,
       cancelReadyRun, forceTimeoutRun, abortTurn, resumeTurnReturns, AnswerSaved, abortTurnReturns
  <2> QED
    BY <1>1, <1>2, <2>1 DEF Alive
<1>5. CASE Shutdown
  <2>1. proc' = proc \/ Abort(AliveRuns, "shutdown", ops)
    BY <1>5 DEF Shutdown, DisposeBegins, DrainEnds, DisposedIsSet, LeftoversAborted, DisposeReturns
  <2> QED
    BY <1>2, <2>1 DEF Alive
<1>6. ASSUME NEW q \in RunIds, NEW s, s # NoSnapshot, proc' = [proc EXCEPT ![q] = s]
      PROVE  FALSE
  BY <1>0, <1>6 DEF Alive
<1>7. ASSUME NEW q \in RunIds, startTurn(q) PROVE FALSE
  BY <1>6, <1>7, StartEffect, CreatedIsImage, NoSnapshotIsNone
<1>8. ASSUME NEW q \in RunIds, resumeTurn(q) PROVE FALSE
  BY <1>6, <1>8, ResumeEffect, NoSnapshotIsNone
<1>9. ASSUME NEW q \in RunIds, SyscallAnswered(q) PROVE FALSE
  BY <1>6, <1>9, SyscallAnsweredEffect, NoSnapshotIsNone DEF Alive
<1>10. CASE Ticks
  <2>1. TickBegins /\ pump.stage \in {"fire", "tick"}
    BY <1>10 DEF Ticks, PumpFires, PumpTicks
  <2>2. \A q \in RunIds : proc[q].status # "running"
    BY <2>1 DEF PumpAndTable, StepsAreSound, AtWorkOn
  <2> QED
    BY <1>6, <2>1, <2>2, TickBeginsEffect, NoSnapshotIsNone DEF Alive
<1>11. ASSUME NEW q \in RunIds, StepReturns(q) PROVE FALSE
  <2>1. \E s \in Image(q) : proc' = [proc EXCEPT ![q] = s]
    BY <1>11, StepReturnsEffect DEF PumpAndTable
  <2> QED
    BY <1>6, <2>1, NoSnapshotIsNone
<1>12. ASSUME NEW q \in RunIds, StepSaved(q) PROVE FALSE
  BY <1>6, <1>12, StepSavedEffect, NoSnapshotIsNone DEF PumpAndTable, Alive
<1>13. proc' # proc
  BY DEF Alive
<1>14. ~ Reconciles /\ ~ PumpEnds /\ ~ (UNCHANGED vars) /\ \A q \in RunIds : ~ StepOfGoneRun(q)
  BY <1>13, ReconcilesEffect DEF PumpAndTable, PumpEnds, StepOfGoneRun, vars
<1> QED
  BY <1>3, <1>4, <1>5, <1>7, <1>8, <1>9, <1>10, <1>11, <1>12, <1>14, StepCases

\* A run that leaves the table has its outcome on record and its waiter answered,
\* or about to be by the abort that removed it.
THEOREM GoneRunsAreRemembered == Spec => GoneRunsAreAccountedFor
<1> DEFINE Accounted ==
      \A r \in RunIds : proc[r] # NoSnapshot /\ proc'[r] = NoSnapshot =>
        /\ rec'[r] \in {"done", "error"}
        /\ r \notin waiting' \/ {<<"abort", r>>, <<"shutdown", r>>} \cap ops' # {}
<1>1. ServiceIsSound /\ [Next]_vars => [Accounted]_vars
  BY RemovedIsAccountedFor DEF ServiceIsSound, PumpAndTable, Alive
<1> QED
  BY <1>1, ServiceStaysSound, PTL DEF Spec, GoneRunsAreAccountedFor

=============================================================================
