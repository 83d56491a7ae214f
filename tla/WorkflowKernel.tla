---------------------------- MODULE WorkflowKernel ----------------------------
(***************************************************************************)
(* WorkflowKernelService (gateway/workflow-kernel.ts): runs workflows as   *)
(* processes of a kernel of its own.  A pump archives and removes finished *)
(* and cancelled runs, ticks one run, and looks again; clients start,      *)
(* fork, cancel and resume runs and wait for them meanwhile.               *)
(*                                                                         *)
(* The kernel's store neither coalesces nor orders: every save writes the  *)
(* file of its run through the same temporary file, so saves of a run that *)
(* overlap may leave either image, or a mixture of both that cannot be     *)
(* read.  A crash loses everything but the files and the archive.          *)
(*                                                                         *)
(* A run is the status of its process, the status its record shows, and    *)
(* the number of steps it has taken; what a step computes is left out, and *)
(* so is the text streamed to subscribers.                                 *)
(***************************************************************************)
EXTENDS KernelSnapshot, FiniteSets

CONSTANTS
  RunIds,      \* runs; each is started once
  Limit,       \* bound: steps of each run, at most MaxRuns
  AwaitedIds,  \* bound: runs that clients wait for
  MaxCrashes   \* bound: crashes of the program; a service that was disposed has none

ASSUME WorkflowAssumption ==
  /\ MaxRuns \in Nat \ {0} /\ Limit \in [RunIds -> 1..MaxRuns] /\ MaxCrashes \in Nat

VARIABLES
  proc,             \* the kernel's table
  file,             \* the checkpoint file of each run
  saves,            \* saves under way: [run, by, image]
  crossed,          \* runs whose saves, or save and removal, have overlapped
  forced,           \* forcedRunStates: the status shown in place of the record's
  cancelRequested,
  completed,        \* completedRuns: the outcome of each run
  archived,         \* the outcome in the file of past runs
  finding,          \* waitForCompletion() calls that await findArchivedRun()
  waiting,          \* completionWaiters
  resuming,         \* resumeRun() calls that await the pump
  pump,             \* the pump: [stage, round, todo, run, image]
  timer,            \* a pump is scheduled
  disposed,
  crashes,
  told              \* history: cancellations accepted before the run had an outcome

vars == <<proc, file, saves, crossed, forced, cancelRequested, completed, archived,
          finding, waiting, resuming, pump, timer, disposed, crashes, told>>
diskVars == <<file, saves, crossed>>
waitVars == <<finding, waiting, resuming>>
lifeVars == <<disposed, crashes>>

NoRun == [status |-> "none", shown |-> "none", runs |-> 0]
Torn == [status |-> "torn", shown |-> "none", runs |-> 0]
NewRun == [status |-> "ready", shown |-> "running", runs |-> 0]
Run == [status : ProcessStatus, shown : {"running", "suspended", "done", "error"},
        runs : 0..MaxRuns]

Live(r) == proc[r] # NoRun
SavesOf(r) == {s \in saves : s.run = r}

\* Of the pump: its stage, which of its reconciliations it has come to (0 is the
\* one of initialize()), the runs still to be looked at there, the run it is at
\* work on, and the image of it that tick() saves.  Until initialize() has been
\* called the service is down.
PumpAt(stage, run) == [stage |-> stage, round |-> 1, todo |-> {}, run |-> run, image |-> NoRun]
NoPump == PumpAt("idle", {})
Down == PumpAt("down", {})
Reconciling(round, todo) ==
  [stage |-> "reconcile", round |-> round, todo |-> todo, run |-> {}, image |-> NoRun]

\* Client calls await initialize(), which a disposed service rejects.
Open == pump.stage # "down" /\ pump.round # 0 /\ ~disposed

-----------------------------------------------------------------------------
\* getRun()
getRun(r) == IF forced[r] # "none" THEN forced[r] ELSE proc[r].shown

\* schedulePump(0) is dropped while a pump runs.
SchedulePump == timer' = (timer \/ (pump.stage = "idle" /\ ~disposed))

\* JsonFileCheckpointStore.save() begins.
SaveBegins(r, by, image) ==
  /\ saves' = saves \cup {[run |-> r, by |-> by, image |-> image]}
  /\ crossed' = IF SavesOf(r) = {} THEN crossed ELSE crossed \cup {r}
  /\ UNCHANGED file

\* The save s is renamed into place.  If it has met another one, the file may get
\* the image of that one or a mixture; and the last one to come may find its
\* temporary file gone and be dropped.
Landed(s) ==
  LET others == SavesOf(s.run) \ {s}
  IN  {s.image} \cup
      (IF s.run \notin crossed THEN {}
       ELSE IF others = {} THEN {file[s.run]}
       ELSE {Torn} \cup {o.image : o \in others})

SaveLands(s) ==
  /\ saves' = saves \ {s}
  /\ \E image \in Landed(s) : file' = [file EXCEPT ![s.run] = image]
  /\ UNCHANGED crossed

-----------------------------------------------------------------------------
\* A run that nothing is known of: its id has not been given out.
Fresh(r) == ~Live(r) /\ SavesOf(r) = {} /\ file[r] = NoRun
            /\ completed[r] = "none" /\ archived[r] = "none"

\* createProcess(), as startWorkflow(), retryFromStep() and skipStep() call it.
Create(r) ==
  /\ proc' = [proc EXCEPT ![r] = NewRun]
  /\ SaveBegins(r, "start", NewRun)
  /\ UNCHANGED <<forced, cancelRequested, completed, archived, waitVars, pump, timer, lifeVars, told>>

startWorkflow(r) == Open /\ Fresh(r) /\ Create(r)

\* A fork needs the record of the prior run, live or archived.
retryFromStep(r, prior) ==
  /\ Open /\ Fresh(r)
  /\ getRun(prior) # "none" \/ archived[prior] # "none"
  /\ Create(r)

\* Skipping a step needs the process of the prior run, which must not be running.
skipStep(r, prior) ==
  /\ Open /\ Fresh(r)
  /\ Live(prior) /\ getRun(prior) # "running"
  /\ Create(r)

startWorkflowReturns(s) ==
  /\ s.by = "start"
  /\ SaveLands(s)
  /\ SchedulePump
  /\ UNCHANGED <<proc, forced, cancelRequested, completed, archived, waitVars, pump, lifeVars, told>>

\* cancelRun(): the cancellation is noted, and shown at once.
cancelRun(r) ==
  /\ Open
  /\ getRun(r) \in {"running", "suspended"}
  /\ cancelRequested' = cancelRequested \cup {r}
  /\ forced' = [forced EXCEPT ![r] = "cancelled"]
  /\ SchedulePump
  /\ told' = IF completed[r] = "none" THEN told \cup {r} ELSE told
  /\ UNCHANGED <<proc, diskVars, completed, archived, waitVars, pump, lifeVars>>

\* resumeRun(): the process is ready at once; its record is shown as running once
\* that is saved; and a pump is asked for when none runs.
resumeRun(r) ==
  /\ Open
  /\ proc[r].status = "suspended"
  /\ r \notin resuming /\ \A s \in SavesOf(r) : s.by # "resume"
  /\ proc' = [proc EXCEPT ![r].status = "ready"]
  /\ SaveBegins(r, "resume", [proc[r] EXCEPT !.status = "ready"])
  /\ UNCHANGED <<forced, cancelRequested, completed, archived, waitVars, pump, timer, lifeVars, told>>

resumeRunGoesOn(s) ==
  /\ s.by = "resume"
  /\ SaveLands(s)
  /\ forced' = [forced EXCEPT ![s.run] = "running"]
  /\ IF pump.stage = "idle" THEN SchedulePump /\ UNCHANGED resuming
                            ELSE resuming' = resuming \cup {s.run} /\ UNCHANGED timer
  /\ UNCHANGED <<proc, cancelRequested, completed, archived, finding, waiting, pump, lifeVars, told>>

\* waitForCompletion() of a run that is not answered at once.
waitForCompletion(r) ==
  /\ pump.stage # "down" /\ pump.round # 0
  /\ ~Fresh(r) /\ completed[r] = "none" /\ getRun(r) \in {"none", "running"}
  /\ r \in AwaitedIds \ finding
  /\ finding' = finding \cup {r}
  /\ UNCHANGED <<proc, diskVars, forced, cancelRequested, completed, archived,
                 waiting, resuming, pump, timer, lifeVars, told>>

\* findArchivedRun() has answered; nothing is looked at again.
ArchiveSearched(r) ==
  /\ r \in finding
  /\ finding' = finding \ {r}
  /\ waiting' = IF archived[r] = "none" THEN waiting \cup {r} ELSE waiting
  /\ UNCHANGED <<proc, diskVars, forced, cancelRequested, completed, archived,
                 resuming, pump, timer, lifeVars, told>>

-----------------------------------------------------------------------------
\* ensurePump(), runPump(): the first reconciliation begins.
PumpStarts ==
  /\ timer /\ pump.stage = "idle" /\ ~disposed
  /\ timer' = FALSE
  /\ pump' = Reconciling(1, {r \in RunIds : Live(r)})
  /\ UNCHANGED <<proc, diskVars, forced, cancelRequested, completed, archived, waitVars, lifeVars, told>>

OutcomeOfUncancelled(r) ==
  IF isTerminalProcessStatus(proc[r].status) THEN proc[r].shown
  ELSE IF r \in cancelRequested /\ proc[r].status # "running" THEN "cancelled"
  ELSE "none"

\* What reconcileSnapshots() makes of a run.  The snapshots were captured before
\* its awaits, the cancellations are looked up after them; of a captured run
\* nothing but its resumption can have come in between.
OutcomeOf(r) ==
  IF r \in cancelRequested /\ proc[r].status # "running" THEN "cancelled"
  ELSE IF isTerminalProcessStatus(proc[r].status) THEN proc[r].shown
  ELSE "none"

\* finalizeSnapshot() up to onRunComplete(), for the next run that needs it.
FinalizeBegins ==
  /\ pump.stage = "reconcile"
  /\ \E r \in pump.todo, passed \in SUBSET pump.todo :
       /\ r \notin passed /\ OutcomeOf(r) # "none"
       /\ \A p \in passed : OutcomeOf(p) = "none"
       /\ pump' = [pump EXCEPT !.stage = "archive", !.todo = @ \ (passed \cup {r}), !.run = {r}]
       /\ completed' = [completed EXCEPT ![r] = OutcomeOf(r)]
       /\ cancelRequested' = cancelRequested \ {r}
       /\ forced' = [forced EXCEPT ![r] = "none"]
       /\ waiting' = waiting \ {r}
  /\ UNCHANGED <<proc, diskVars, archived, finding, resuming, timer, lifeVars, told>>

RunArchivedAsShown ==
  /\ pump.stage = "archive"
  /\ \E r \in pump.run, failed \in BOOLEAN :
       /\ archived' = IF failed THEN archived ELSE [archived EXCEPT ![r] = proc[r].shown]
       /\ proc' = [proc EXCEPT ![r] = NoRun]
       /\ crossed' = IF SavesOf(r) = {} THEN crossed ELSE crossed \cup {r}
  /\ pump' = [pump EXCEPT !.stage = "remove"]
  /\ UNCHANGED <<file, saves, forced, cancelRequested, completed, waitVars, timer, lifeVars, told>>

\* onRunComplete() has archived the run, or has failed, which is only logged;
\* deleteProcess() begins.
RunArchived ==
  /\ pump.stage = "archive"
  /\ \E r \in pump.run, failed \in BOOLEAN :
       /\ archived' = IF failed THEN archived ELSE [archived EXCEPT ![r] = completed[r]]
       /\ proc' = [proc EXCEPT ![r] = NoRun]
       /\ crossed' = IF SavesOf(r) = {} THEN crossed ELSE crossed \cup {r}
  /\ pump' = [pump EXCEPT !.stage = "remove"]
  /\ UNCHANGED <<file, saves, forced, cancelRequested, completed, waitVars, timer, lifeVars, told>>

RunRemovedFromMemory ==
  /\ pump.stage = "remove"
  /\ pump' = [pump EXCEPT !.stage = "reconcile", !.run = {}]
  /\ UNCHANGED <<proc, diskVars, forced, cancelRequested, completed, archived,
                 waitVars, timer, lifeVars, told>>

RunRemoved ==
  /\ pump.stage = "remove"
  /\ \E r \in pump.run : file' = [file EXCEPT ![r] = NoRun]
  /\ pump' = [pump EXCEPT !.stage = "reconcile", !.run = {}]
  /\ UNCHANGED <<proc, saves, crossed, forced, cancelRequested, completed, archived,
                 waitVars, timer, lifeVars, told>>

\* tick() of the kernel up to the step; without a runnable process it is idle.
Reconciled(round) ==
  /\ pump.stage = "reconcile" /\ pump.round = round
  /\ \A r \in pump.todo : OutcomeOf(r) = "none"

TickBegins ==
  /\ Reconciled(1)
  /\ \/ \E r \in RunIds :
          /\ isRunnableProcessStatus(proc[r].status)
          /\ proc' = [proc EXCEPT ![r].status = "running"]
          /\ pump' = PumpAt("step", {r})
     \/ /\ \A r \in RunIds : ~isRunnableProcessStatus(proc[r].status)
        /\ pump' = PumpAt("again", {})
        /\ UNCHANGED proc
  /\ UNCHANGED <<diskVars, forced, cancelRequested, completed, archived, waitVars, timer, lifeVars, told>>

\* The record of a step that YIELDs is running again; a retry and a suspension
\* leave the place of the run as it is; and a retry leaves its record, too.
ShownAfter(r, signal) ==
  CASE signal = "YIELD" -> "running"
    [] signal = "RETRYABLE_ERROR" -> proc[r].shown
    [] signal = "SUSPENDED" -> "suspended"
    [] signal = "DONE" -> "done"
    [] signal = "ERROR" -> "error"

\* step() returns: the table has the result, and it is saved.  A step that throws
\* leaves the record as it was.
StepReturns ==
  /\ pump.stage = "step"
  /\ \E r \in pump.run :
       LET Applied(status, shown) ==
             LET image == [status |-> status, shown |-> shown, runs |-> proc[r].runs + 1]
             IN  /\ proc' = [proc EXCEPT ![r] = image]
                 /\ pump' = [pump EXCEPT !.stage = "save", !.image = image]
                 /\ SaveBegins(r, "step", image)
       IN  \/ \E signal \in Signals \ {"WAITING_SYSCALL"} :
                /\ proc[r].runs + 1 = Limit[r] => signal \in {"DONE", "ERROR"}
                /\ Applied(deriveProcessStatusForSignal(signal), ShownAfter(r, signal))
           \/ Applied("error", proc[r].shown)
  /\ UNCHANGED <<forced, cancelRequested, completed, archived, waitVars, timer, lifeVars, told>>

\* The save is done, and the table is set to what was saved.
StepSaved(s) ==
  /\ s.by = "step"
  /\ SaveLands(s)
  /\ proc' = [proc EXCEPT ![s.run] = pump.image]
  /\ pump' = PumpAt("again", {})
  /\ UNCHANGED <<forced, cancelRequested, completed, archived, waitVars, timer, lifeVars, told>>

PumpReconcilesAgain ==
  /\ pump.stage = "again"
  /\ pump' = Reconciling(2, {r \in RunIds : Live(r)})
  /\ UNCHANGED <<proc, diskVars, forced, cancelRequested, completed, archived,
                 waitVars, timer, lifeVars, told>>

NextPumpNeededForYielded == \E r \in RunIds : proc[r].status = "ready" /\ proc[r].shown = "running"

\* scheduleNextPump() looks for runs that are ready, and for no others.
NextPumpNeeded == \E r \in RunIds : proc[r].status = "ready"

\* A pump ends, or initialize() does; whoever awaited the pump asks for another.
PumpEnds ==
  /\ Reconciled(2) \/ Reconciled(0)
  /\ pump' = NoPump
  /\ timer' = (~disposed /\ (NextPumpNeeded \/ resuming # {}))
  /\ resuming' = {}
  /\ UNCHANGED <<proc, diskVars, forced, cancelRequested, completed, archived,
                 finding, waiting, lifeVars, told>>

-----------------------------------------------------------------------------
\* dispose(): no pump is started any more.
dispose ==
  /\ ~disposed /\ crashes = 0 /\ pump.stage # "down"
  /\ disposed' = TRUE
  /\ timer' = FALSE
  /\ UNCHANGED <<proc, diskVars, forced, cancelRequested, completed, archived,
                 waitVars, pump, crashes, told>>

\* The program ends and is started again: files and archive are what is left.
Crash ==
  /\ crashes < MaxCrashes /\ ~disposed
  /\ crashes' = crashes + 1
  /\ proc' = [r \in RunIds |-> NoRun]
  /\ saves' = {} /\ crossed' = {}
  /\ forced' = [r \in RunIds |-> "none"]
  /\ cancelRequested' = {} /\ told' = {}
  /\ completed' = [r \in RunIds |-> "none"]
  /\ finding' = {} /\ waiting' = {} /\ resuming' = {}
  /\ pump' = Down
  /\ timer' = FALSE /\ disposed' = FALSE
  /\ UNCHANGED <<file, archived>>

initializeFromAllFiles ==
  /\ pump.stage = "down"
  /\ proc' = file
  /\ pump' = Reconciling(0, {r \in RunIds : file[r] # NoRun})
  /\ UNCHANGED <<diskVars, forced, cancelRequested, completed, archived,
                 waitVars, timer, lifeVars, told>>

\* initialize(), when the first request comes: list() returns nothing at all if
\* one file cannot be read.  The first reconciliation begins.
initialize ==
  /\ pump.stage = "down"
  /\ LET unreadable == \E r \in RunIds : file[r] = Torn
         known == {r \in RunIds : file[r] # NoRun}
     IN  /\ proc' = IF unreadable THEN proc ELSE file
         /\ crossed' = IF unreadable THEN known ELSE {}
         /\ pump' = Reconciling(0, IF unreadable THEN {} ELSE known)
  /\ UNCHANGED <<file, saves, forced, cancelRequested, completed, archived,
                 waitVars, timer, lifeVars, told>>

-----------------------------------------------------------------------------
Init ==
  /\ proc = [r \in RunIds |-> NoRun]
  /\ file = [r \in RunIds |-> NoRun]
  /\ saves = {} /\ crossed = {}
  /\ forced = [r \in RunIds |-> "none"]
  /\ cancelRequested = {}
  /\ completed = [r \in RunIds |-> "none"]
  /\ archived = [r \in RunIds |-> "none"]
  /\ finding = {} /\ waiting = {} /\ resuming = {}
  /\ pump = Down
  /\ timer = FALSE /\ disposed = FALSE
  /\ crashes = 0 /\ told = {}

PumpStep ==
  \/ PumpStarts \/ FinalizeBegins \/ RunArchived \/ RunRemoved \/ TickBegins
  \/ StepReturns \/ PumpReconcilesAgain \/ PumpEnds

SaveReturns ==
  \E s \in saves : startWorkflowReturns(s) \/ resumeRunGoesOn(s) \/ StepSaved(s)

ClientCalls(r) ==
  \/ startWorkflow(r)
  \/ \E prior \in RunIds \ {r} : retryFromStep(r, prior) \/ skipStep(r, prior)
  \/ cancelRun(r) \/ resumeRun(r) \/ waitForCompletion(r)

Next ==
  \/ PumpStep \/ SaveReturns
  \/ \E r \in RunIds : ClientCalls(r) \/ ArchiveSearched(r)
  \/ dispose \/ Crash \/ initialize

Spec == Init /\ [][Next]_vars

-----------------------------------------------------------------------------
Outcomes == {"none", "running", "suspended", "done", "error", "cancelled"}

TypeOK ==
  /\ proc \in [RunIds -> Run \cup {NoRun}]
  /\ file \in [RunIds -> Run \cup {NoRun, Torn}]
  /\ saves \subseteq [run : RunIds, by : {"start", "resume", "step"}, image : Run]
  /\ crossed \subseteq RunIds
  /\ forced \in [RunIds -> {"none", "running", "cancelled"}]
  /\ cancelRequested \subseteq RunIds /\ told \subseteq RunIds
  /\ completed \in [RunIds -> Outcomes] /\ archived \in [RunIds -> Outcomes]
  /\ finding \subseteq RunIds /\ waiting \subseteq RunIds /\ resuming \subseteq RunIds
  /\ pump \in [stage : {"down", "idle", "reconcile", "archive", "remove", "step", "save", "again"},
               round : 0..2, todo : SUBSET RunIds, run : SUBSET RunIds, image : Run \cup {NoRun}]
  /\ timer \in BOOLEAN /\ disposed \in BOOLEAN
  /\ crashes \in 0..MaxCrashes

\* "The cancellation is accepted" (workflow-backend.ts:1413-1424) holds: whoever was
\* told so before the run had an outcome finds it cancelled, whatever its step
\* made of it meanwhile (lines 301-319, 552-566).
AcceptedCancelsWin == \A r \in told : completed[r] \in {"none", "cancelled"}

\* A run has one outcome in the life of the program, and the archive has no other
\* (lines 568-605): it is not finalized a second time.
OneOutcome ==
  [][\A r \in RunIds : completed[r] # "none" /\ crashes' = crashes =>
       /\ completed'[r] = completed[r]
       /\ archived'[r] \in {archived[r], completed[r]}]_vars

\* Once the saves are done the files are what a restart should find: the status
\* and the progress of every live run, and no file of a run that is gone; save for
\* runs whose saves have crossed.
FilesFollowTheTable ==
  pump.stage \in {"idle", "reconcile", "archive"} =>
    \A r \in RunIds : r \notin crossed /\ SavesOf(r) = {} => file[r] = proc[r]

\* schedulePump() drops the request of whoever calls it while a pump runs, and
\* nobody polls: so when no pump runs and none is scheduled, every live run is
\* suspended, or a call that has just made it ready will ask for a pump.
RunsAreScheduled ==
  pump.stage = "idle" /\ ~timer /\ ~disposed =>
    \A r \in RunIds : Live(r) =>
      \/ proc[r].status = "suspended"
      \/ proc[r].status = "ready" /\ SavesOf(r) # {}

=============================================================================
