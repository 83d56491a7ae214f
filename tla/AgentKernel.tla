----------------------------- MODULE AgentKernel -----------------------------
(***************************************************************************)
(* AgentKernel (core/kernel/agent-kernel.ts): a table of process snapshots *)
(* that is advanced by tick() and changed by its callers' operations, each *)
(* of which then saves to the checkpoint store.  Every handler runs to its *)
(* next await, so tick() is three actions: up to the await of the step, up *)
(* to the await of the save, and to its return.                            *)
(*                                                                         *)
(* The store is the one OrderedStore promises and CheckpointStore          *)
(* implements: requests are carried out in order, some of them skipped.    *)
(* The callers are those of the gateway: a pump that calls tick() again    *)
(* only when it has returned and starts system calls between two pumps.    *)
(***************************************************************************)
EXTENDS KernelSnapshot, Sequences

CONSTANTS
  Pids,              \* processes
  Score,             \* PRIORITY_SCORE of the priority of each process
  DeleteDuringSave   \* callers may delete a process while tick() awaits its save

ASSUME KernelAssumption == MaxRuns \in Nat /\ DeleteDuringSave \in BOOLEAN

VARIABLES
  snapshots,   \* snapshots: the table in memory
  tick,        \* the tick() under way: [phase, pid, base, next, at]
  calls,       \* system calls being executed outside the kernel, per process
  disk,        \* the checkpoint file of each process
  backlog,     \* requests to the store not yet carried out, oldest first
  deleted,     \* processes deleted, and not restored by a crash before the disk knew
  known        \* steps of a process that tick() has reported as executed

vars == <<snapshots, tick, calls, disk, backlog, deleted, known>>

NoTick == [phase |-> "none", base |-> NoSnapshot, next |-> NoSnapshot, at |-> 0]
Alive(p) == snapshots[p] # NoSnapshot

-----------------------------------------------------------------------------
\* save() and delete() of the store: the request joins the backlog.
Request(p, content) == backlog' = [backlog EXCEPT ![p] = Append(@, content)]

\* createProcess(): the table first, then the save.
createProcess(p) ==
  /\ ~Alive(p) /\ p \notin deleted /\ disk[p] = NoSnapshot /\ backlog[p] = <<>>
  /\ snapshots' = [snapshots EXCEPT ![p] = Created]
  /\ Request(p, Created)
  /\ UNCHANGED <<tick, calls, disk, deleted, known>>

Ticking(p) == tick[p].phase # "none"
NobodyTicks == \A p \in Pids : ~Ticking(p)

\* selectNext(): no runnable process has a higher priority.  Its further order,
\* by nextRunAt, runCount and createdAt, is left open.
Selected(p) ==
  /\ isRunnable(snapshots[p])
  /\ \A q \in Pids : isRunnable(snapshots[q]) => Score[q] <= Score[p]

\* tick() up to the await of runtime.step().
TickSelects(p) ==
  /\ NobodyTicks
  /\ Alive(p) /\ Selected(p)
  /\ snapshots[p].runs < MaxRuns
  /\ snapshots' = [snapshots EXCEPT ![p] = MarkedRunning(@)]
  /\ tick' = [tick EXCEPT ![p] = [phase |-> "step", base |-> MarkedRunning(snapshots[p]),
                                  next |-> NoSnapshot, at |-> 0]]
  /\ UNCHANGED <<calls, disk, backlog, deleted, known>>

\* The process is gone when the step returns or throws: tick() reports idle.
StepOfGoneProcess(p) ==
  /\ tick[p].phase = "step"
  /\ ~Alive(p)
  /\ tick' = [tick EXCEPT ![p] = NoTick]
  /\ UNCHANGED <<snapshots, calls, disk, backlog, deleted, known>>

\* A tick that awaits a save, its request being the last in a backlog of n.
AwaitsSave(p, phase, next, n) ==
  tick' = [tick EXCEPT ![p] = [phase |-> phase, base |-> tick[p].base,
                               next |-> next, at |-> n]]

\* What is stored at once and saved, and stored again once it has been saved.
Saving(p, phase, next) ==
  /\ snapshots' = [snapshots EXCEPT ![p] = next]
  /\ Request(p, next)
  /\ AwaitsSave(p, phase, next, Len(backlog[p]) + 1)
  /\ UNCHANGED <<calls, disk, deleted, known>>

\* The step returns with a signal.
StepReturns(p, signal) ==
  /\ tick[p].phase = "step"
  /\ Alive(p)
  /\ Saving(p, "save", StepApplied(snapshots[p], tick[p].base, signal))

\* The step throws.
StepThrows(p) ==
  /\ tick[p].phase = "step"
  /\ Alive(p)
  /\ Saving(p, "saveError", StepCrashed(snapshots[p], tick[p].base))

Reported(p) == known' = [known EXCEPT ![p] = tick[p].next.runs]

\* The awaited save is done, or a delete requested after it has made it moot.
SaveDone(p) ==
  \/ tick[p].at = 0
  \/ \E i \in 1..Len(backlog[p]) : i > tick[p].at /\ backlog[p][i] = NoSnapshot

\* The save of the step is done: the table entry is set once more.
TickReturnsBeforeSave(p) ==
  /\ tick[p].phase = "save"
  /\ snapshots' = [snapshots EXCEPT ![p] = tick[p].next]
  /\ tick' = [tick EXCEPT ![p] = NoTick]
  /\ Reported(p)
  /\ UNCHANGED <<calls, disk, backlog, deleted>>

TickReturns(p) ==
  /\ tick[p].phase = "save"
  /\ SaveDone(p)
  /\ snapshots' = [snapshots EXCEPT ![p] = tick[p].next]
  /\ tick' = [tick EXCEPT ![p] = NoTick]
  /\ Reported(p)
  /\ UNCHANGED <<calls, disk, backlog, deleted>>

\* The save of the error is done.
TickReturnsError(p) ==
  /\ tick[p].phase = "saveError"
  /\ SaveDone(p)
  /\ tick' = [tick EXCEPT ![p] = NoTick]
  /\ Reported(p)
  /\ UNCHANGED <<snapshots, calls, disk, backlog, deleted>>

-----------------------------------------------------------------------------
\* The pump, between two ticks, has the system call of a waiting process
\* executed; the result comes back at any time later.
SyscallStarts(p) ==
  /\ NobodyTicks
  /\ snapshots[p].status = "waiting" /\ snapshots[p].call # NoCall
  /\ calls[p] = NoCall
  /\ calls' = [calls EXCEPT ![p] = snapshots[p].call]
  /\ UNCHANGED <<snapshots, tick, disk, backlog, deleted, known>>

\* resolveSyscall(): for a process deleted meanwhile nothing happens.
resolveSyscall(p) ==
  /\ calls[p] # NoCall
  /\ calls' = [calls EXCEPT ![p] = NoCall]
  /\ IF Alive(p)
     THEN /\ snapshots' = [snapshots EXCEPT ![p] = Resolved(@, calls[p])]
          /\ Request(p, snapshots'[p])
     ELSE UNCHANGED <<snapshots, backlog>>
  /\ UNCHANGED <<tick, disk, deleted, known>>

\* resumeProcess(): its caller has waited for the pump and found the process
\* suspended.
resumeProcess(p) ==
  /\ snapshots[p].status = "suspended"
  /\ NobodyTicks
  /\ snapshots' = [snapshots EXCEPT ![p] = Resumed(@)]
  /\ Request(p, snapshots'[p])
  /\ UNCHANGED <<tick, calls, disk, deleted, known>>

\* deleteProcess()
deleteProcessInMemory(p) ==
  /\ Alive(p)
  /\ tick[p].phase \in {"save", "saveError"} => DeleteDuringSave
  /\ snapshots' = [snapshots EXCEPT ![p] = NoSnapshot]
  /\ deleted' = deleted \cup {p}
  /\ UNCHANGED <<tick, calls, disk, backlog, known>>

deleteProcess(p) ==
  /\ Alive(p)
  /\ tick[p].phase \in {"save", "saveError"} => DeleteDuringSave
  /\ snapshots' = [snapshots EXCEPT ![p] = NoSnapshot]
  /\ Request(p, NoSnapshot)
  /\ deleted' = deleted \cup {p}
  /\ UNCHANGED <<tick, calls, disk, known>>

\* The clock passes nextRunAt of a process that is to be retried.
DelayElapses(p) ==
  /\ snapshots[p].delayed
  /\ snapshots' = [snapshots EXCEPT ![p].delayed = FALSE]
  /\ UNCHANGED <<tick, calls, disk, backlog, deleted, known>>

-----------------------------------------------------------------------------
\* The store carries out a request, skipping those before it.
StorePerforms(p, i) ==
  /\ i \in 1..Len(backlog[p])
  /\ disk' = [disk EXCEPT ![p] = backlog[p][i]]
  /\ backlog' = [backlog EXCEPT ![p] = SubSeq(@, i + 1, Len(@))]
  /\ tick' = [tick EXCEPT ![p].at = IF @ > i THEN @ - i ELSE 0]
  /\ UNCHANGED <<snapshots, calls, deleted, known>>

\* The store rejects the save tick() awaits.  Its catch block takes over, unless
\* the process is gone; a rejection there makes tick() itself reject.
StoreRejects(p) ==
  LET rest == Tail(backlog[p])
      failed == StepCrashed(snapshots[p], tick[p].base)
  IN  /\ tick[p].at = 1
      /\ IF tick[p].phase = "save" /\ Alive(p)
         THEN /\ snapshots' = [snapshots EXCEPT ![p] = failed]
              /\ backlog' = [backlog EXCEPT ![p] = Append(rest, failed)]
              /\ AwaitsSave(p, "saveError", failed, Len(rest) + 1)
         ELSE /\ tick' = [tick EXCEPT ![p] = NoTick]
              /\ backlog' = [backlog EXCEPT ![p] = rest]
              /\ UNCHANGED snapshots
      /\ UNCHANGED <<calls, disk, deleted, known>>

\* The store rejects the save of another caller, who is told and leaves it there.
StoreRejectsOther(p) ==
  /\ backlog[p] # <<>> /\ Head(backlog[p]) # NoSnapshot /\ tick[p].at # 1
  /\ backlog' = [backlog EXCEPT ![p] = Tail(@)]
  /\ tick' = [tick EXCEPT ![p].at = IF @ > 1 THEN @ - 1 ELSE 0]
  /\ UNCHANGED <<snapshots, calls, disk, deleted, known>>

\* The program dies; the next one starts with restoreFromCheckpoints(), which
\* puts every checkpoint into the table.
CrashAndRestore ==
  /\ snapshots' = disk
  /\ tick' = [p \in Pids |-> NoTick]
  /\ calls' = [p \in Pids |-> NoCall]
  /\ backlog' = [p \in Pids |-> <<>>]
  /\ deleted' = {p \in deleted : disk[p] = NoSnapshot}
  /\ UNCHANGED <<disk, known>>

-----------------------------------------------------------------------------
Init ==
  /\ snapshots = [p \in Pids |-> NoSnapshot]
  /\ tick = [p \in Pids |-> NoTick]
  /\ calls = [p \in Pids |-> NoCall]
  /\ disk = [p \in Pids |-> NoSnapshot]
  /\ backlog = [p \in Pids |-> <<>>]
  /\ deleted = {}
  /\ known = [p \in Pids |-> 0]

TickStep(p) ==
  \/ StepOfGoneProcess(p)
  \/ \E signal \in Signals : StepReturns(p, signal)
  \/ StepThrows(p)
  \/ TickReturns(p)
  \/ TickReturnsError(p)

Next ==
  \/ \E p \in Pids :
       \/ createProcess(p) \/ TickSelects(p) \/ TickStep(p)
       \/ SyscallStarts(p) \/ resolveSyscall(p)
       \/ resumeProcess(p) \/ deleteProcess(p) \/ DelayElapses(p)
       \/ \E i \in 1..Len(backlog[p]) : StorePerforms(p, i)
       \/ StoreRejects(p) \/ StoreRejectsOther(p)
  \/ CrashAndRestore

Spec == Init /\ [][Next]_vars

-----------------------------------------------------------------------------
Maybe(S) == S \cup {NoSnapshot}
Tick == [phase : {"none", "step", "save", "saveError"},
         base : Maybe(Snapshot), next : Maybe(Snapshot), at : Nat]

\* A process waits exactly as long as a system call of its last step is
\* unanswered, and an answer is there only for the process that may run on it:
\* a restored process that waits can always have its call executed again.
WaitingOnItsCall ==
  \A p \in Pids : \A s \in {snapshots[p], disk[p]} :
    /\ s.status = "waiting" <=> s.call # NoCall
    /\ s.call # NoCall => s.call = s.runs
    /\ s.result # NoCall => /\ s.status \in {"ready", "running", "error"}
                            /\ s.result <= s.runs

\* Among the types: no checkpoint says that its process is running, and
\* WaitingOnItsCall.
TypeOK ==
  /\ snapshots \in [Pids -> Maybe(Snapshot)]
  /\ tick \in [Pids -> Tick]
  /\ calls \in [Pids -> 0..MaxRuns]
  /\ disk \in [Pids -> Maybe({s \in Snapshot : s.status # "running"})]
  /\ backlog \in [Pids -> Seq(Maybe(Snapshot))]
  /\ deleted \subseteq Pids
  /\ known \in [Pids -> 0..MaxRuns]
  /\ WaitingOnItsCall

\* Once tick() has reported a step as executed, the checkpoint holds that step
\* or a later one, so a crash never takes a process back behind it
\* (lines 147-154): only a delete may remove it.
ReportedStepsAreDurable ==
  \A p \in Pids \ deleted : disk[p].runs >= known[p]

\* A process that has been deleted does not come back, neither in the table nor
\* through a checkpoint once the delete has reached the disk, whatever tick,
\* save or system call was under way (lines 142, 156, 195, 212-215).
DeletedStaysDeleted ==
  \A p \in deleted :
    /\ ~Alive(p)
    /\ disk[p] = NoSnapshot \/ \E i \in 1..Len(backlog[p]) : backlog[p][i] = NoSnapshot

\* An answer to a system call is handed to the next step of its process and not
\* dropped before: only the return of that step takes it away.
AnswersReachTheStep ==
  [][\A p \in Pids :
       snapshots[p].result # NoCall /\ snapshots'[p].result # snapshots[p].result =>
         \/ snapshots'[p].runs = snapshots[p].runs + 1 /\ tick[p].phase = "step"
         \/ snapshots'[p] = NoSnapshot
         \/ snapshots' = disk]_vars

=============================================================================
