-------------------------- MODULE AgentKernelService --------------------------
(***************************************************************************)
(* AgentKernelService (gateway/agent-kernel.ts): runs agent turns as       *)
(* processes of an AgentKernel.  A pump, started by a timer and never      *)
(* twice at a time, archives finished runs, hands the system calls of      *)
(* waiting runs to background workers and ticks whatever is ready; clients *)
(* start, await, cancel and resume runs meanwhile, a run may be timed out, *)
(* and the service may be disposed.                                        *)
(*                                                                         *)
(* Handlers run from one await to the next, so these pieces are the        *)
(* actions; ops holds the client calls that are at an await.  The kernel   *)
(* is reduced to its table: its saves succeed here, AgentKernel has the    *)
(* ones that do not.  The text streamed to subscribers is left out.        *)
(***************************************************************************)
EXTENDS KernelSnapshot

CONSTANTS
  RunIds,             \* runs; each is started once
  Limit,              \* bound: steps of each run, at most MaxRuns
  HitDuringSave,      \* runs that cancellations may meet while tick() awaits their save
  AwaitedIds          \* bound: runs that clients wait for

\* A run may have been restored after its first step, which did not end it.
ASSUME ServiceAssumption ==
  MaxRuns \in Nat /\ Limit \in [RunIds -> 2..MaxRuns] /\ HitDuringSave \subseteq RunIds

VARIABLES
  proc,        \* the kernel's table of snapshots
  queued,      \* queuedRuns: runs reserved, not yet started
  started,     \* runs that were started or reserved, in this program's life
  rec,         \* runRecords: what is remembered of each run
  waiting,     \* completionWaiters: runs that clients wait for
  pump,        \* the pump: [stage, round, todo, runs, next]
  timer,       \* pumpTimer is set
  worker,      \* background system calls: [phase, call] per run
  active,      \* activeSyscalls
  executions,  \* how often each system call of a run was executed
  ops,         \* client calls at an await: <<kind, run>>
  service,     \* how far dispose() has come
  killed       \* runs that cancelReadyRun() or forceTimeoutRun() has removed

vars == <<proc, queued, started, rec, waiting, pump, timer, worker, active,
          executions, ops, service, killed>>
startVars == <<queued, started>>
callVars == <<worker, active, executions>>

Alive(r) == proc[r] # NoSnapshot
NoWorker == [phase |-> "none", call |-> NoCall]

\* Of the pump: the stage it is in, which of its two reconciliations it has come
\* to, the captured snapshots still to be looked at there, the run it is at work
\* on, and the snapshot tick() will put into the table once it is saved.
NoPump == [stage |-> "idle", round |-> 1, todo |-> {}, runs |-> {}, next |-> NoSnapshot]

\* initialize() has run; then dispose() has begun; then disposed is set.
AcceptingTurns == service = "open"
AcceptingCancels == service \in {"open", "draining", "aborting"}
Disposed == service \in {"disposed", "closing", "closed"}

-----------------------------------------------------------------------------
\* schedulePump(0) is ignored while a pump runs; PumpEnds looks again.
SchedulePump == timer' = (timer \/ (pump.stage = "idle" /\ ~Disposed))

\* completeRun() answers whoever waits for the run.
Answered(runs) == waiting \ runs

\* Whether a cancellation, a timeout or a shutdown may hit a run now.
Reachable(r) == (pump.stage = "save" /\ r \in pump.runs) => r \in HitDuringSave

-----------------------------------------------------------------------------
\* reserveQueuedTurn()
reserveQueuedTurn(r) ==
  /\ AcceptingTurns /\ r \notin started
  /\ queued' = queued \cup {r}
  /\ started' = started \cup {r}
  /\ UNCHANGED <<proc, rec, waiting, pump, timer, callVars, ops, service, killed>>

\* startTurn() up to the save of createProcess().
startTurnKeepingQueued(r) ==
  /\ AcceptingTurns
  /\ r \in queued \/ r \notin started
  /\ started' = started \cup {r}
  /\ proc' = [proc EXCEPT ![r] = Created]
  /\ ops' = ops \cup {<<"start", r>>}
  /\ UNCHANGED <<queued, rec, waiting, pump, timer, callVars, service, killed>>

startTurn(r) ==
  /\ AcceptingTurns
  /\ r \in queued \/ r \notin started
  /\ queued' = queued \ {r}
  /\ started' = started \cup {r}
  /\ proc' = [proc EXCEPT ![r] = Created]
  /\ ops' = ops \cup {<<"start", r>>}
  /\ UNCHANGED <<rec, waiting, pump, timer, callVars, service, killed>>

\* What abortTurn() does up to the await of deleteProcess().
Abort(runs, kind, kept) ==
  /\ proc' = [r \in RunIds |-> IF r \in runs THEN NoSnapshot ELSE proc[r]]
  /\ rec' = [r \in RunIds |-> IF r \in runs THEN "error" ELSE rec[r]]
  /\ ops' = kept \cup {<<kind, r>> : r \in runs}

\* startTurn() once the save is done: the service may be shutting down by now.
startTurnReturns(r) ==
  LET rest == ops \ {<<"start", r>>}
  IN  /\ <<"start", r>> \in ops
      /\ \/ /\ service = "open"
            /\ SchedulePump
            /\ ops' = rest
            /\ UNCHANGED <<proc, rec, waiting>>
         \/ /\ service # "open" /\ Alive(r) /\ Reachable(r)
            /\ Abort({r}, "abort", rest)
            /\ UNCHANGED <<timer, waiting>>
         \/ /\ service # "open" /\ ~Alive(r)
            /\ waiting' = Answered({r})
            /\ ops' = rest
            /\ UNCHANGED <<proc, rec, timer>>
      /\ UNCHANGED <<startVars, pump, callVars, service, killed>>

\* waitForCompletion() of a run whose record does not hold the answer already.
waitForCompletion(r) ==
  /\ service # "boot" /\ r \in (started \ queued) \cap AwaitedIds
  /\ rec[r] = "none"
  /\ waiting' = waiting \cup {r}
  /\ UNCHANGED <<proc, startVars, rec, pump, timer, callVars, ops, service, killed>>

-----------------------------------------------------------------------------
\* cancelRun() of a run that waits in queuedRuns.
cancelQueuedTurn(r) ==
  /\ AcceptingCancels
  /\ r \in queued
  /\ queued' = queued \ {r}
  /\ rec' = [rec EXCEPT ![r] = "error"]
  /\ UNCHANGED <<proc, started, waiting, pump, timer, callVars, ops, service, killed>>

\* cancelReadyRun() and forceTimeoutRun(): all at once, the delete on disk is
\* not awaited.
ForgetKeepingWaiters(r) ==
  /\ Reachable(r)
  /\ rec' = [rec EXCEPT ![r] = "error"]
  /\ proc' = [proc EXCEPT ![r] = NoSnapshot]
  /\ active' = active \ {r}
  /\ killed' = killed \cup {r}
  /\ UNCHANGED <<startVars, waiting, pump, timer, worker, executions, ops, service>>

Forget(r) ==
  /\ Reachable(r)
  /\ rec' = [rec EXCEPT ![r] = "error"]
  /\ proc' = [proc EXCEPT ![r] = NoSnapshot]
  /\ waiting' = Answered({r})
  /\ active' = active \ {r}
  /\ killed' = killed \cup {r}
  /\ UNCHANGED <<startVars, pump, timer, worker, executions, ops, service>>

cancelReadyRun(r) == AcceptingCancels /\ proc[r].status = "ready" /\ Forget(r)

forceTimeoutRun(r) ==
  /\ r \in waiting
  /\ \/ Alive(r) /\ Forget(r)
     \/ /\ ~Alive(r)
        /\ waiting' = Answered({r})
        /\ active' = active \ {r}
        /\ UNCHANGED <<proc, startVars, rec, pump, timer, worker, executions, ops, service, killed>>

\* cancelRun() of any other run aborts it, unless its first step is under way:
\* such a run still looks queued, and is not found in queuedRuns.
abortTurn(r) ==
  /\ AcceptingCancels /\ Alive(r) /\ Reachable(r)
  /\ proc[r].status # "ready"
  /\ ~(proc[r].status = "running" /\ proc[r].runs = 0)
  /\ Abort({r}, "abort", ops)
  /\ UNCHANGED <<startVars, waiting, pump, timer, callVars, service, killed>>

\* abortTurn() once deleteProcess() is done, for a client or for dispose().
abortTurnReturns(kind, r) ==
  /\ kind \in {"abort", "shutdown"} /\ <<kind, r>> \in ops
  /\ ops' = ops \ {<<kind, r>>}
  /\ active' = active \ {r}
  /\ waiting' = Answered({r})
  /\ UNCHANGED <<proc, startVars, rec, pump, timer, worker, executions, service, killed>>

\* resumeTurn() from the return of the pump it waited for up to the save, and
\* after it.
resumeTurnDuringPump(r) ==
  /\ AcceptingTurns
  /\ proc[r].status = "suspended" /\ proc[r].runs < Limit[r]
  /\ rec' = [rec EXCEPT ![r] = "none"]
  /\ proc' = [proc EXCEPT ![r] = Resumed(@)]
  /\ ops' = ops \cup {<<"resume", r>>}
  /\ UNCHANGED <<startVars, waiting, pump, timer, callVars, service, killed>>

resumeTurn(r) ==
  /\ AcceptingTurns /\ pump.stage = "idle"
  /\ proc[r].status = "suspended" /\ proc[r].runs < Limit[r]
  /\ rec' = [rec EXCEPT ![r] = "none"]
  /\ proc' = [proc EXCEPT ![r] = Resumed(@)]
  /\ ops' = ops \cup {<<"resume", r>>}
  /\ UNCHANGED <<startVars, waiting, pump, timer, callVars, service, killed>>

resumeTurnReturns(r) ==
  /\ <<"resume", r>> \in ops
  /\ ops' = ops \ {<<"resume", r>>}
  /\ SchedulePump
  /\ UNCHANGED <<proc, startVars, rec, waiting, pump, callVars, service, killed>>

-----------------------------------------------------------------------------
Captured == {[run |-> r, status |-> proc[r].status] : r \in {x \in RunIds : Alive(x)}}
IsFinal(entry) == isTerminalProcessStatus(entry.status)

\* What the record of a live run is to be.
RecordOf(status) == IF status \in {"suspended", "done", "error"} THEN status ELSE "none"

(***************************************************************************)
(* reconcileSnapshots() over the captured snapshots still to do, up to its *)
(* next await: some that are not final, in the order of the table, which   *)
(* is left open, then a final one, whose record is saved; or else all.     *)
(***************************************************************************)
Reconcile(todo, round) ==
  \E seen \in SUBSET {e \in todo : ~IsFinal(e)}, final \in SUBSET {e \in todo : IsFinal(e)} :
    /\ \A d, e \in final : d = e
    /\ final = {} => seen = todo
    /\ pump' = [NoPump EXCEPT
                  !.round = round,
                  !.stage = IF final # {} THEN "archive" ELSE IF round = 1 THEN "fire" ELSE "end",
                  !.todo = todo \ (seen \cup final),
                  !.runs = {e.run : e \in final},
                  !.next = NoSnapshot]
    /\ rec' = [r \in RunIds |->
                 IF \E e \in seen \cup final : e.run = r
                 THEN RecordOf((CHOOSE e \in todo : e.run = r).status) ELSE rec[r]]
    /\ waiting' = Answered({e.run : e \in {x \in seen : x.status = "suspended"}})

\* ensurePump(), called by the timer.
PumpStarts ==
  /\ timer /\ pump.stage = "idle" /\ ~Disposed
  /\ timer' = FALSE
  /\ Reconcile(Captured, 1)
  /\ UNCHANGED <<proc, startVars, callVars, ops, service, killed>>

\* finalizeSnapshot() after the records are saved, up to deleteProcess().
RecordsSaved(r) ==
  /\ pump.stage = "archive" /\ pump.runs = {r}
  /\ waiting' = Answered({r})
  /\ proc' = [proc EXCEPT ![r] = NoSnapshot]
  /\ pump' = [pump EXCEPT !.stage = "remove", !.runs = {}]
  /\ UNCHANGED <<startVars, rec, timer, callVars, ops, service, killed>>

\* finalizeSnapshot() returns; the loop of reconcileSnapshots() goes on.
ProcessRemoved ==
  /\ pump.stage = "remove"
  /\ Reconcile(pump.todo, pump.round)
  /\ UNCHANGED <<proc, startVars, timer, callVars, ops, service, killed>>

\* firePendingSyscalls()
FirableIgnoringActive == {r \in RunIds : proc[r].status = "waiting" /\ proc[r].call # NoCall}

Firable == {r \in RunIds : proc[r].status = "waiting" /\ proc[r].call # NoCall /\ r \notin active}

firePendingSyscalls ==
  LET fired == IF Disposed THEN {} ELSE Firable
  IN  /\ active' = active \cup fired
      /\ worker' = [r \in RunIds |->
                      IF r \in fired THEN [phase |-> "executing", call |-> proc[r].call]
                                     ELSE worker[r]]
      /\ executions' = [r \in RunIds |->
                          IF r \in fired THEN [executions[r] EXCEPT ![proc[r].call] = @ + 1]
                                         ELSE executions[r]]

\* kernel.tick() up to the await of the step; idle ends tickAllReady().
TickBegins ==
  \/ \E r \in RunIds :
       /\ isRunnable(proc[r])
       /\ proc' = [proc EXCEPT ![r] = MarkedRunning(@)]
       /\ pump' = [pump EXCEPT !.stage = "step", !.runs = {r}, !.next = NoSnapshot]
  \/ /\ \A r \in RunIds : ~isRunnable(proc[r])
     /\ pump' = [pump EXCEPT !.stage = "again", !.runs = {}, !.next = NoSnapshot]
     /\ UNCHANGED proc

\* runPump() between its two reconciliations.
PumpFires ==
  /\ pump.stage = "fire"
  /\ firePendingSyscalls
  /\ TickBegins
  /\ UNCHANGED <<startVars, rec, waiting, timer, ops, service, killed>>

PumpTicks ==
  /\ pump.stage = "tick"
  /\ TickBegins
  /\ UNCHANGED <<startVars, rec, waiting, timer, callVars, ops, service, killed>>

\* The step returns with one of the signals of a turn, or throws.  The runner
\* bounds the steps of a turn: the last one ends it.
StepReturns(r) ==
  /\ pump.stage = "step" /\ pump.runs = {r} /\ Alive(r)
  /\ \/ \E signal \in {"YIELD", "WAITING_SYSCALL", "SUSPENDED", "DONE", "ERROR"} :
          /\ proc[r].runs + 1 = Limit[r] => signal \in {"DONE", "ERROR"}
          /\ proc' = [proc EXCEPT ![r] = StepApplied(@, @, signal)]
          /\ pump' = [pump EXCEPT !.stage = "save", !.next = proc'[r]]
     \/ /\ proc' = [proc EXCEPT ![r] = StepCrashed(@, @)]
        /\ pump' = [pump EXCEPT !.stage = "save"]
  /\ UNCHANGED <<startVars, rec, waiting, timer, callVars, ops, service, killed>>

\* The run is gone when its step returns: tick() says idle.
StepOfGoneRun(r) ==
  /\ pump.stage = "step" /\ pump.runs = {r} /\ ~Alive(r)
  /\ pump' = [pump EXCEPT !.stage = "again", !.runs = {}]
  /\ UNCHANGED <<proc, startVars, rec, waiting, timer, callVars, ops, service, killed>>

\* Saves of one process settle in the order requested, so those of its earlier
\* operations before that of the step; but the abort that follows on a start
\* during shutdown may be one that is not to meet this save.
EarlierSavesSettled(r) ==
  /\ worker[r].phase # "saving" /\ <<"resume", r>> \notin ops
  /\ <<"start", r>> \notin ops \/ (r \notin HitDuringSave /\ service # "open")

\* tick() after its save.
StepSaved(r) ==
  /\ pump.stage = "save" /\ pump.runs = {r}
  /\ EarlierSavesSettled(r)
  /\ proc' = [proc EXCEPT ![r] = IF pump.next = NoSnapshot THEN @ ELSE pump.next]
  /\ pump' = [pump EXCEPT !.stage = "tick", !.runs = {}, !.next = NoSnapshot]
  /\ UNCHANGED <<startVars, rec, waiting, timer, callVars, ops, service, killed>>

\* The second reconciliation.
PumpReconcilesAgain ==
  /\ pump.stage = "again"
  /\ Reconcile(Captured, 2)
  /\ UNCHANGED <<proc, startVars, timer, callVars, ops, service, killed>>

\* scheduleNextPump() sets the timer, or does not.
NextPumpForReady == \E r \in RunIds : proc[r].status = "ready"

NextPumpNeeded ==
  \E r \in RunIds :
    \/ proc[r].status = "waiting" /\ r \notin active
    \/ proc[r].status = "ready"

\* The end of a pump, and of the reconciliation of initialize().
PumpEnds ==
  /\ pump.stage = "end"
  /\ pump' = NoPump
  /\ timer' = (timer \/ (~Disposed /\ NextPumpNeeded))
  /\ service' = IF service = "boot" THEN "open" ELSE service
  /\ UNCHANGED <<proc, startVars, rec, waiting, callVars, ops, killed>>

-----------------------------------------------------------------------------
\* runSyscallBackground(): the call is answered, or its run is gone; then the
\* answer has been saved.
WorkerEndsSilently(r) ==
  /\ worker' = [worker EXCEPT ![r] = NoWorker]
  /\ active' = active \ {r}
  /\ UNCHANGED timer

WorkerEnds(r) ==
  /\ worker' = [worker EXCEPT ![r] = NoWorker]
  /\ active' = active \ {r}
  /\ SchedulePump

SyscallAnswered(r) ==
  /\ worker[r].phase = "executing"
  /\ IF Alive(r)
     THEN /\ proc' = [proc EXCEPT ![r] = Resolved(@, worker[r].call)]
          /\ worker' = [worker EXCEPT ![r].phase = "saving"]
          /\ UNCHANGED <<active, timer>>
     ELSE WorkerEnds(r) /\ UNCHANGED proc
  /\ UNCHANGED <<startVars, rec, waiting, pump, executions, ops, service, killed>>

AnswerSaved(r) ==
  /\ worker[r].phase = "saving"
  /\ WorkerEnds(r)
  /\ UNCHANGED <<proc, startVars, rec, waiting, pump, executions, ops, service, killed>>

-----------------------------------------------------------------------------
\* dispose(): no more turns, and what is queued fails.
DisposeBegins ==
  /\ service = "open"
  /\ service' = "draining"
  /\ queued' = {}
  /\ rec' = [r \in RunIds |-> IF r \in queued THEN "error" ELSE rec[r]]
  /\ UNCHANGED <<proc, started, waiting, pump, timer, callVars, ops, killed>>

AliveRuns == {r \in RunIds : Alive(r)}

\* The live runs have ended, or their time is up: the rest is aborted.
DrainEnds ==
  /\ service = "draining"
  /\ \A r \in AliveRuns : Reachable(r)
  /\ service' = "aborting"
  /\ Abort(AliveRuns, "shutdown", ops)
  /\ UNCHANGED <<startVars, waiting, pump, timer, callVars, killed>>

ShutdownAbortsDone == \A r \in RunIds : <<"shutdown", r>> \notin ops

\* The aborts are done; the workers have ended, or their time is up.
DisposedIsSet ==
  /\ service = "aborting" /\ ShutdownAbortsDone
  /\ service' = "disposed"
  /\ timer' = FALSE
  /\ UNCHANGED <<proc, startVars, rec, waiting, pump, callVars, ops, killed>>

\* The pump has been awaited and the workers once more; what is left is aborted.
LeftoversAbortedWithoutPump ==
  /\ service = "disposed"
  /\ service' = "closing"
  /\ Abort(AliveRuns, "shutdown", ops)
  /\ UNCHANGED <<startVars, waiting, pump, timer, callVars, killed>>

LeftoversAborted ==
  /\ service = "disposed" /\ pump.stage = "idle"
  /\ service' = "closing"
  /\ Abort(AliveRuns, "shutdown", ops)
  /\ UNCHANGED <<startVars, waiting, pump, timer, callVars, killed>>

DisposeReturns ==
  /\ service = "closing" /\ ShutdownAbortsDone
  /\ service' = "closed"
  /\ UNCHANGED <<proc, startVars, rec, waiting, pump, timer, callVars, ops, killed>>

-----------------------------------------------------------------------------
\* What restoreFromCheckpoints() may find: any state a save has written.
Restorable ==
  {NoSnapshot, Resumed(StepApplied(Created, Created, "SUSPENDED"))} \cup
  {StepApplied(Created, Created, signal) : signal \in {"WAITING_SYSCALL", "SUSPENDED", "DONE"}}

Init ==
  /\ proc \in [RunIds -> Restorable]
  /\ queued = {}
  /\ started = AliveRuns
  /\ rec = [r \in RunIds |-> "none"]
  /\ waiting = {}
  /\ pump = [NoPump EXCEPT !.stage = "again"]
  /\ timer = FALSE
  /\ worker = [r \in RunIds |-> NoWorker]
  /\ active = {}
  /\ executions = [r \in RunIds |-> [call \in 1..MaxRuns |-> 0]]
  /\ ops = {}
  /\ service = "boot"
  /\ killed = {}

PumpStep ==
  \/ PumpStarts \/ ProcessRemoved \/ PumpFires \/ PumpTicks
  \/ PumpReconcilesAgain \/ PumpEnds
  \/ \E r \in RunIds :
       RecordsSaved(r) \/ StepReturns(r) \/ StepOfGoneRun(r) \/ StepSaved(r)

WorkerStep(r) == SyscallAnswered(r) \/ AnswerSaved(r)

OpReturns(r) ==
  \/ startTurnReturns(r) \/ resumeTurnReturns(r)
  \/ \E kind \in {"abort", "shutdown"} : abortTurnReturns(kind, r)

ClientCalls(r) ==
  \/ reserveQueuedTurn(r) \/ startTurn(r) \/ waitForCompletion(r)
  \/ cancelQueuedTurn(r) \/ cancelReadyRun(r) \/ abortTurn(r)
  \/ forceTimeoutRun(r) \/ resumeTurn(r)

DisposeGoesOn == DrainEnds \/ DisposedIsSet \/ LeftoversAborted \/ DisposeReturns

Next ==
  \/ PumpStep
  \/ \E r \in RunIds : WorkerStep(r) \/ OpReturns(r) \/ ClientCalls(r)
  \/ DisposeBegins \/ DisposeGoesOn

Spec == Init /\ [][Next]_vars

\* Timers fire, steps, saves and system calls return, and dispose() goes on once
\* begun; clients need not act.
FairSpec ==
  /\ Spec
  /\ WF_vars(DisposeGoesOn)
  /\ WF_vars(PumpStep)
  /\ \A r \in RunIds : WF_vars(WorkerStep(r)) /\ WF_vars(OpReturns(r))

-----------------------------------------------------------------------------
Maybe(S) == S \cup {NoSnapshot}
Entry == [run : RunIds, status : ProcessStatus]

\* Among the types: a reserved run is not in the table as well.
TypeOK ==
  /\ proc \in [RunIds -> Maybe(Snapshot)]
  /\ queued \subseteq started \ AliveRuns /\ started \subseteq RunIds
  /\ rec \in [RunIds -> {"none", "suspended", "done", "error"}]
  /\ waiting \subseteq started
  /\ pump \in [stage : {"idle", "archive", "remove", "fire", "tick", "step", "save", "again", "end"},
               round : 1..2, todo : SUBSET Entry, runs : SUBSET RunIds, next : Maybe(Snapshot)]
  /\ timer \in BOOLEAN
  /\ worker \in [RunIds -> [phase : {"none", "executing", "saving"}, call : 0..MaxRuns]]
  /\ active \subseteq RunIds
  /\ executions \in [RunIds -> [1..MaxRuns -> Nat]]
  /\ ops \subseteq {"start", "resume", "abort", "shutdown"} \X RunIds
  /\ service \in {"boot", "open", "draining", "aborting", "disposed", "closing", "closed"}
  /\ killed \subseteq RunIds

\* "so firePendingSyscalls() does not re-fire the same syscall a second time"
\* (lines 143-146): an LLM request or a tool call is executed once, whatever
\* pumps run while it is under way, unless it is of a run that came back.
CallsAreExecutedOnce ==
  \A r \in RunIds \ HitDuringSave : \A call \in 1..MaxRuns : executions[r][call] <= 1

\* schedulePump() drops the request of whoever calls it while a pump runs (line
\* 826), and nobody polls: so whenever no pump runs and none is scheduled, every
\* run left in the table is suspended, or somebody is at work on it who will
\* schedule a pump when done.
PumpIsArmed ==
  pump.stage = "idle" /\ ~timer /\ service \in {"open", "draining", "aborting"} =>
    \A r \in RunIds : Alive(r) =>
      \/ proc[r].status = "suspended"
      \/ proc[r].status = "waiting" /\ worker[r].phase = "executing"
      \/ /\ proc[r].status = "ready"
         /\ \/ worker[r].phase = "saving"
            \/ <<"start", r>> \in ops \/ <<"resume", r>> \in ops

\* What is remembered of a live run is what has become of it: a client that
\* comes to wait for a resumed run is not answered from the record of its
\* suspension (lines 668-676, 1019-1031, 1154).  A run that came back is on record
\* as failed.
RecordsMatchLiveRuns ==
  \A r \in RunIds \ HitDuringSave : Alive(r) /\ rec[r] # "none" => rec[r] = proc[r].status

\* A run leaves the table with its outcome on record, and its waiter has been
\* answered or is about to be by the abort that removed it.
GoneRunsAreAccountedFor ==
  [][\A r \in RunIds : proc[r] # NoSnapshot /\ proc'[r] = NoSnapshot =>
       /\ rec'[r] \in {"done", "error"}
       /\ r \notin waiting' \/ {<<"abort", r>>, <<"shutdown", r>>} \cap ops' # {}]_vars

\* Whoever waits for a live run is answered without a timeout having to help.
WaitersAreAnswered ==
  \A r \in RunIds : (r \in waiting /\ Alive(r)) ~> r \notin waiting

\* dispose() leaves no run, no pump and no timer behind, though a tick may have
\* been under way when it aborted the runs (lines 448-483).
ClosedIsEmpty ==
  service = "closed" => AliveRuns = {} /\ pump.stage = "idle" /\ ~timer

\* "deletes the kernel process so the pump never executes it" (lines 310-311),
\* "so the pump doesn't keep it alive" (line 376): a run that was cancelled
\* before it ran on, or timed out, does not come back.
KilledRunsStayGone == \A r \in killed : ~Alive(r)

\* "Mark as error in runRecords so future waiters see it immediately" (line
\* 359): the record of a killed run that is gone stays what it was made.
KilledRunsAreRemembered == \A r \in killed : ~Alive(r) => rec[r] = "error"

=============================================================================
