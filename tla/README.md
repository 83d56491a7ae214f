# A formal model of AgentFlyer's runtime

AgentFlyer runs language-model agents behind a local gateway. What makes it hard to get
right is not the prompts but the machinery that keeps many agent turns going at once in a
single JavaScript process: a process kernel with checkpoints, a pump that advances it,
background calls to models and tools, a governor that rations them, and clients that start,
await, cancel, time out and resume runs while all of that is under way. This directory
models that machinery in TLA+, checks it with TLC and proves part of it with TLAPS.

Paths below are relative to the repository's `src/` directory.

## 1. The system

### Components

| component | state it keeps | operations | who calls it |
|---|---|---|---|
| **resource governor** `core/runtime-resource-governor.ts` | per lane (llm, tool, cpu): a limit, a counter of permits out, a queue of waiters with priority and sequence number | `run` (acquire, task, release), abort by signal, `updateLimits`, `dispose` | the services below, around every model request and tool call |
| **checkpoint store** `core/kernel/checkpoint-store.ts`, `core/runtime-compat.ts` | one JSON file per process; in memory one chain of promises per process and the snapshot of a save not yet begun | `save` (coalescing), `load`, `list`, `delete`; a write goes through a temporary file and may be dropped on a directory that vanished | the process kernel |
| **process kernel** `core/kernel/*.ts` | a table of process snapshots | `createProcess`, `tick`, `resumeProcess`, `resolveSyscall`, `deleteProcess`, `restoreFromCheckpoints` | the agent turn service, the kernel turn executor, the workflow kernel |
| **agent turn service** `gateway/agent-kernel.ts`, `agent/kernel-syscall-broker.ts` | reserved runs, run records, waiters, a pump and its timer, the set of system calls under way, shutdown flags | `startTurn`, `reserveQueuedTurn`, `waitForRun`, `cancelRun`, `resumeTurn`, `dispose`; the pump: reconcile, fire system calls, tick until idle, reconcile | gateway request handlers, channels, schedules |
| **agent turn process** `agent/process-runtime.ts`, `agent/runner.ts` | the phases of one turn, a lease on its agent's runner | `step`, `abort`, execution of one system call | the kernel's `tick`, the background calls |
| **kernel turn executor** `agent/kernel-turn-executor.ts` | a second service over the same checkpoints, without records on disk | as the agent turn service | mesh, federation, compatibility paths |
| **agent queue** `gateway/agent-queue.ts` | per agent: a busy flag, a FIFO of tasks | `enqueue`, `cancelPending`, `remove` | everything that runs a turn of an agent |
| **agent mesh** `agent/tools/mesh-tools.ts`, `mesh` | none between calls | `mesh_send`: a tool call that has another agent take a turn and waits for its answer | the runner's tools |
| **workflow kernel** `gateway/workflow-kernel.ts`, `workflow-process-runtime.ts` | runs, cancel requests, forced run states, waiters, a pump of its own, checkpoint files, an archive | start, cancel, resume, retry and skip a step, wait | workflow handlers |
| **session store, repair and compaction** `core/session`, `agent/compactor` | a file of messages per session; `repairTranscript`, `splitForCompaction` | append, load, clear, repair | the runner |
| **MCP registry** `mcp/registry.ts`, `gateway/lifecycle.ts` | clients, tools and statuses per server; the registry in use; refreshes under way | refresh, retry, reload, call, close | the runner's tools, request handlers, a timer |
| **federation** `federation` | peers, delegated tasks that await a result, memory queries | announce, ping, delegate, query | mesh tools |
| **model providers, failover** `agent/llm` | an attempt counter | `run` with retries and fallbacks | the broker |
| **loop detection, rate limiter** `agent/tools/loop-detection.ts`, `gateway/rate-limiter.ts` | the last call and its repeats; a window per sender | `record`; `check` | runner; channels |
| mesh bus, memory, sandbox, scheduler, skills, channels, command line, gateway stores | maps, files, SQLite, containers | request handling and I/O | the gateway |

Everything runs on one event loop. A handler therefore runs to its next `await` without
interruption, and every `await` is a place where any other handler may run. This is the
granularity of all modules here: one action is one stretch of a handler between awaits.

### How the parts interact

A client starts a run: the service creates a kernel process and sets its pump timer. The
pump reconciles (finished processes get a run record and are deleted, suspended ones get a
record and stay), hands the system call of every waiting process to a background worker
through the governor, calls `tick` until nothing is runnable, reconciles again, and sets
the timer if something is left to do. `tick` picks a process, awaits its step, and awaits
the save of the result. A worker awaits a permit, the model or tool, then `resolveSyscall`
makes the process ready and the worker schedules a pump. Clients cancel, time out and
resume at any of these awaits; `dispose` ends it all in stages. Nothing polls.

Below that, a turn goes through phases: it reads and repairs the session file, appends the
user's message, asks the model, executes tools, and so on, and appends what comes of it.
Turns of channels and delegated turns hold the queue of their agent until they are answered;
a chat turn holds it only to be started. While a turn is at work its agent's runner has a
lease, which `mesh_send` of another agent takes for the sign that the agent is busy.

Workflows have a kernel of their own, with one pump that archives and removes finished runs
and ticks one run at a time. Its store writes files without order or coalescing.

The servers of tools are kept connected by a registry. Refreshes by hand, a timer that
retries failed ones, and reloads, which make a new registry and close the old, overlap.

### Where it is hard

* State read before an `await` and used after it: `tick` sets the table entry again after
  the save it awaited; a reconciliation works through a list captured before it awaits.
* Requests that are dropped on purpose: `schedulePump` does nothing while a pump runs, and
  the end of the pump is trusted to look again.
* One fact in several places: a permit in a counter and in a running task; a run in the
  table, in the records, in the waiters and in the set of calls under way.
* Coalescing: a save replaces the snapshot of an earlier save that has not begun, across
  deletes that must stay in order.
* Failure in the middle: a step that throws, a save that is rejected, a crash between a
  step and its save, a line cut short in a session file.
* Shared things that look private: the session file of two chat turns, the lease of a runner,
  the temporary file of two saves, the table of clients that two refreshes write.
* Waiting in a circle: a turn that holds a queue waits for a turn in another queue.

Per component, correct means: the governor conserves permits, obeys the limit in force,
keeps its order and forgets nobody; the store keeps the order of what it was asked and
never reports a save that is not on disk; the kernel never goes back behind a step it
reported, never revives what was deleted, and gives every answer to the step it is for; the
service executes each call once, never stops with work left, answers whoever waits, keeps
records that agree with the runs, and leaves nothing behind when disposed. The workflow
kernel carries out a cancellation it accepted, gives a run one outcome, keeps files a restart
can go by, and never stops with work left. A session always yields messages that a model
accepts, with as little lost as can be. The queues keep turns that hold them apart and in
order, and turns that wait for one another go on. The registry holds the clients it opened,
says what is so of its servers, and goes on retrying.

## 2. Modules

| module | models | composed with |
|---|---|---|
| `PermitPool` | what callers may rely on from the governor: a counting semaphore per lane whose limit may change | refined by `ResourceGovernor` |
| `ResourceGovernor` | `RuntimeResourceGovernor` | `MCResourceGovernor`, `ResourceGovernor_proofs` |
| `OrderedStore` | what the kernel may rely on from a store: the requests of a process are carried out in their order, some skipped | refined by `CheckpointStore`; embedded in `AgentKernel` |
| `CheckpointStore` | `CoalescingCheckpointStore` over `JsonFileCheckpointStore`, any processes | `MCCheckpointStore`, `CheckpointStore_proofs` |
| `KernelSnapshot` | the snapshot of a process and what each kernel operation makes of it | `AgentKernel`, `AgentKernelService` |
| `AgentKernel` | `AgentKernel`, its scheduler and its transition contract, over the store of `OrderedStore` | `MCAgentKernel`, `AgentKernel_proofs` |
| `AgentKernelService` | `AgentKernelService` and its background workers, over a kernel whose saves succeed | `MCAgentKernelService`, `AgentKernelService_proofs` |
| `WorkflowKernel` | `WorkflowKernelService` with its kernel and the plain `JsonFileCheckpointStore`, crash and restart | uses `KernelSnapshot`; `MCWorkflowKernel`, `WorkflowKernel_proofs` |
| `SessionRepair` | `repairTranscript`, `sanitizeMessages`, `splitForCompaction` as operators on sequences of messages, and what they are to amount to | `SessionTurns` |
| `SessionTurns` | the turns of one session: every outcome of every phase, and the file they share | `MCSessionTurns`, `SessionTurns_proofs` |
| `TurnLine` | what the queue of an agent promises: turns stand in a line and begin at its head | refined by `AgentTurns` |
| `AgentTurns` | `AgentQueue`, the lease of `AgentRunner`, `mesh_send` | `MCAgentTurns`, `AgentTurns_proofs` |
| `McpRuntime` | `McpRegistry` and the handlers that refresh, retry and reload | `MCMcpRuntime`, `McpRuntime_proofs` |
| `*_proofs` | theorems (section 5) | |

`PROJECT.json` names, for every definition, the lines of code it stands for.

### ResourceGovernor

`limit` and `active` are the fields of those names; `status` says whether a call of `run()`
is idle, queued or holds a permit; `older[c]` is the set of queued calls with a smaller
sequence number than `c`, which keeps the numbers finite; `aborted` and `disposed` are the
signals. `acquire` is `AcquireAtOnce` or `Enqueue`, `release` is `Finish`, the abort
listener is `Abort`. `drain` grants a set of calls at once: the loop always takes the head
of the sorted queue, so what it grants is the shortest prefix that fills the lane or empties
the queue. A call that is refused outright (disposed, or its signal had fired before) changes
nothing and has no action. An element of `Calls` is used again once its call has settled.
Configured limits are `RawLimits`: zero, numbers, and `Unstated` for what `normalizeLimit`
replaces by the default (undefined, not finite).

### CheckpointStore

The run takes one process, since chains of different processes share nothing; the module and
its theorems allow any. The chain holds the
operations not yet settled; `pending` is the snapshot that the save at the chain's end will
write, and that a further save replaces. The disk carries out the operation at the head of
the chain, fails, or drops the write where `atomicWriteFile` gives up quietly. A crash loses
chain and promises. Saves are numbered (`MaxOps` bounds them), so that which of them is on
disk can be told. `OrderedStore` says what this amounts to. `list()` is left out: it
waits for the processes with a pending save only, and returns nothing if one file does not
parse (`WorkflowKernel` has the latter).

### KernelSnapshot and AgentKernel

A snapshot's serialized state is abstracted to the number of steps taken, a system call to
the step that asked for it, `nextRunAt` to whether a retry delay is still running. `tick` is
three actions: up to the await of the step, up to the await of the save, and the return;
each of the two awaits has its failures (`StepThrows`, `StoreRejects`) and its "process is
gone" exit. The scheduler's choice is by priority; what breaks ties is left open. Saves go
into `backlog`, from which the store carries out any request, skipping earlier ones, or
rejects one. A crash replaces the table by what is on disk. The callers are the gateway's:
one pump, so one `tick` at a time; a resume comes only from a caller that has awaited the
pump (`AgentKernelService` says so in its `resumeTurn`, and shows what happens otherwise).
With `DeleteDuringSave` a process may be deleted also while `tick` awaits its save; the run
keeps this FALSE because of the first finding below, which makes `DeletedStaysDeleted` and
`ReportedStepsAreDurable` fail.

### AgentKernelService

`pump` records where the pump is, which captured snapshots it has yet to reconcile, and the
snapshot `tick` is about to put into the table; `ops` holds client calls that are at an
await; `worker` and `active` are the background calls and `activeSyscalls`; `rec`,
`waiting`, `queued` are `runRecords`, `completionWaiters` and `queuedRuns`; `service` is
the stage of `initialize` and `dispose`. `executions`, `started` and `killed` are history.

* The order of the process table is left open: a reconciliation looks at any of the captured
  snapshots that are not final, then at a final one, whose record is saved (an await), whose
  process is deleted (another await), and so on.
* An await of a promise that has settled already is not a place where others run as far as
  `initialize` is concerned: once it has run it returns at once.
* `forceTimeoutRun` deletes without awaiting; `cancelRun` of a run that is not ready goes
  through `abortTurn`, which awaits; a run whose first step is under way looks queued and is
  not cancelled at all.
* A run is created once (`started`). The turn runtime never asks for a retry, so nothing is
  delayed here. `MaxRuns` bounds the steps of a turn: the last one ends it, as the runner's
  limit of rounds does.
* Initially the table holds any states that a save can have written, and the service is in
  the reconciliation of `initialize`.
* Left out: streamed text and activity, the file of run records and the limit of 200
  records, failing saves (these are in `AgentKernel`).

`HitDuringSave` is the set of runs that a cancellation, timeout or shutdown may hit while
`tick` saves their snapshot (before and during the step, and after the save, it always may).
`CallsAreExecutedOnce` and `RecordsMatchLiveRuns` are about the other runs, since what the
first finding says makes them fail for these. `AwaitedIds` bounds the runs that clients wait
for, and with it those that may be timed out.

### WorkflowKernel

A run is its process and the record shown of it in one: the status of the process, the
status the record shows, and the number of steps taken (`runs`). `file` is the checkpoint of
each run and `saves` are those under way; two saves of one run share a temporary file, so
when they overlap the file may end as either image, be unreadable, or outlive its run: such
runs are in `crossed`, and `initialize`, whose `list()` finds nothing if one file is
unreadable, then starts without any. `completed`, `archived`, `forced`, `cancelRequested`
are the maps of the code; `told` is history, the cancellations accepted before the run had an
outcome. A pump reconciles (archive, remove the file, go on), ticks one run, reconciles
again. A crash may come anywhere and may tear the file that is being written. Waiting is in
three stages as in the code: look, search the archive, register. Forks by retry and skip
start from a run that is over or suspended; the results they start from are left out. So are
rejected saves, streamed text, and what agents answer in a step.

### SessionRepair and SessionTurns

A message is what the repairs tell apart: text, a blank, a failure that poisons what is
before it, a request for a set of tool calls, results for some. `RepairPass` and
`SanitizePass` go over the messages one visit after another (`RepairVisit`, `SanitizeVisit`),
and are repeated until nothing changes or ten times, as in the code; they are recursive
functions, which can be proved about. `Accepted` is what a provider demands; `Repaired` says in one formula what both
repairs together should leave, and is the reference the algorithms are checked against, on
every file that turns can produce. `SessionTurns` gives for every phase of a turn all
outcomes a step may have: the lines it appends to the file and the turn it leaves. What one
step appends stays together, but for `CrashInStep`, where the file keeps a prefix, perhaps
with the last line torn, and the restored turn takes the step again, and `StepThrows`, where
an access to the file is rejected. `beginKernelTurn` repairs what it reads; what it sends is
checked, not what is in the file. Left out: tool calls without id or name, results in one
message with text (no turn writes these), thought before a failure.

### AgentTurns and TurnLine

`queue` is the active task and the pending ones of each agent, `lease` the `activeRunId` of
its runner. `phase` is a turn's phase as far as it sets the lease, `callee` the delegated turn
it waits for, `answered` the turns whose waiters have been answered. The task of a chat turn
ends when the turn is started, so others begin beside it; this, and turns that are resumed
without the queue, is how a lease comes to be shared (`shared` is history). In `TurnLine` a
turn that is to have the agent for itself begins at the head of the line when no other such
turn is at work. The chat turns are the `Brief` ones that only pass through. Left out:
approvals, `mesh_spawn`, which starts turns beside the queue, and `AgentQueue.remove`, which
nobody calls.

### McpRuntime

`clients`, `tools` and `status` are those of each registry; a reload makes the registry of
its number. `job` says of each refresh and reload which server it is at and where: to be
reset, connecting, listing tools. `inFlight` is `mcpRefreshInFlight`, whose key for all
servers does not exclude the key of one. `open` are the clients not yet closed; `crossed` is
history: the servers two jobs were at work on at once, or one that was at work in a registry
already closed. The status `error` of the code is "connecting" (as it is shown meanwhile),
"waiting", "due" and "broken", by whether and when another attempt follows. `close` of a
client waits for nothing outside the program, and hooks before and after a refresh are taken
as part of it. Left out: the protocol and transports, tool calls, clients whose handshake
fails (their processes are not in any table), the tools that runners offer, and changes of
the list of servers by a reload.

## 3. Runs

| run | instance | what it shows |
|---|---|---|
| `governor` | 5 calls: two interactive, one workflow by default, one scheduler on one lane, one on another; limits 0, 3 and default | `PermitConservation`, `NoLostWakeup`, `NoOvertaking`, refinement of `PermitPool`; interactive calls are served although others keep arriving |
| `checkpoint_store` | one process, 5 requests | a settled save is on disk or was overtaken (`SettledIsDurable`), a quiet store holds the latest (`QuiescentFileIsLatest`), refinement of `OrderedStore` (`PreservesOrder`), `load` sees what was asked before it (`ReadsOwnWrites`), every promise settles (`ChainDrains`) |
| `kernel` | 2 processes of different priority, 3 steps each | `TypeOK`, which says that a process waits exactly as long as its call is unanswered; `ReportedStepsAreDurable`, `DeletedStaysDeleted`, `AnswersReachTheStep`, through failing saves, throwing steps and crashes |
| `service` | 2 runs, of up to 3 steps and of 2; the second one is awaited and may be hit during a save | `CallsAreExecutedOnce`, `RecordsMatchLiveRuns`, `PumpIsArmed`, `ClosedIsEmpty`, `GoneRunsAreAccountedFor`, `WaitersAreAnswered` |
| `service_killed_stay_gone` | 2 runs of 2 steps, any hit during a save | finding 1 |
| `service_killed_remembered` | 2 runs of 2 steps, none hit during a save | finding 2 |
| `workflow` | 2 runs, of up to 2 steps and of 1, the second one awaited; one crash | `AcceptedCancelsWin`, `OneOutcome`, `FilesFollowTheTable`, `RunsAreScheduled` |
| `session` | 2 turns of one session, with up to 2 rounds of tools and 1; one call or two; 7 lines; one crash or clearing | `RequestsAreAccepted`, `RepairLosesNoMore`, `RequestsComeFromTheFile` |
| `session_overlap` | the same turns, no fault, 6 lines | finding 3 |
| `turns` | 2 agents: A with a chat turn, a channel turn and a delegated one, B with a delegated one; 2 rounds | refinement of `TurnLine` (`ImplementsTurnLine`), `CirclesNeedASharedLease`, `QueuedTurnsStart` |
| `turns_circle` | the same | finding 4 |
| `mcp` | 2 servers; servers enabled, refreshes by hand and reloads are 3 in all, 2 of them reloads at most | `KeptClients`, `StatusIsTrue`, `RetriesGoOn` |

Every property has a mutant in `PROJECT.json`: a change of one mapped definition, of the
kind a slip in the code would make, under which TLC finds the property violated.

Why the bounds are enough. The governor's interesting cases need a holder, two waiters of
different priority, a newcomer and a changing limit: four calls on one lane; the second
lane shows that lanes do not mix. The store's need a save under way, one pending behind it,
a delete between two saves and a request after that: five requests. The kernel's operations
concern one process, the second is there for the scheduler's choice and for a single `tick`
at a time; three steps let a call be asked for, answered and followed by another. The
service's hazards are about one run and a pump that is busy with another: two runs. Two
steps are enough for a system call and its answer, three for a second one; that only the
second run is awaited and hit during saves keeps the run within minutes, and both roles meet
every position of the other run. The workflow kernel's hazards are again one run and a pump
at work on another, and a step after a restart. Seven lines of a session let both turns ask,
answer and begin once more over what the other left; the repairs look no further than two
neighbours. A circle of turns needs two agents and two delegations; the chat turn is what
takes the lease away. Two servers let a refresh of all meet one of a single server at
another place in its list, two reloads overlap, and a retry fall into either.

No run checks for deadlock: all work done and nobody calling is a state these services may
stay in. No run uses symmetry.

### Fairness

* `ResourceGovernor`: weak fairness of `Finish` of each call: tasks settle. A model request
  has a timeout of its own; tools bring theirs or have none (`ToolRegistry.execute` sets no
  timer), so that a tool returns is an assumption here. `mesh_send` is the tool for which it
  is not harmless, which is the subject of `AgentTurns`. Nothing is assumed of arrivals,
  aborts or limits.
* `CheckpointStore`: operations on disk finish, one way or the other.
* `AgentKernelService`: weak fairness of the pump (a timer that is set fires; steps and saves
  return), of each worker, of each client call that is at an await, and of `dispose` once
  begun. Clients need do nothing, and nobody's timeout has to fire.
* `AgentTurns`: weak fairness of the queue, of each turn (the model answers, tools other than
  `mesh_send` return, and `mesh_send` does once it has its answer), and of the timer of a
  delegated turn that has begun. `timeout_s` of 0 would mean no timer and is left out. No
  client has to cancel or resume anything.
* `McpRuntime`: the timer that looks for due servers runs, delays elapse, and each attempt to
  connect ends. The requests of the protocol are timed; connecting over SSE is not, so that
  a server which accepts a connection and then says nothing keeps its refresh, and its key,
  for good. Fairness of `JobStep` assumes it away.

## 4. Findings

1. **A killed run comes back** (`service_killed_stay_gone`). `tick` checks that the process
   still exists after the step, applies the result, awaits the save and sets the table entry
   without checking again (`core/kernel/agent-kernel.ts:148`). `cancelReadyRun` and
   `forceTimeoutRun` delete the process without waiting for anything. If that happens during
   the save, the run is back in the table afterwards and is executed further, although
   `gateway/agent-kernel.ts` says at line 310 that the delete is there "so the pump never
   executes it" and at line 376 "so the pump doesn't keep it alive". The trace is short: a run
   with a waiter, its step returns, the waiter's timeout fires, the save returns. What follows
   from it: its system call may be executed twice (the late `activeSyscalls.delete` of an
   abort makes it fire again), and `rec` says error while it runs.
2. **A killed run is forgotten** (`service_killed_remembered`). `reconcileSnapshots` captures
   the table, then for each captured snapshot that is not final deletes or rewrites its run
   record by the captured status (`gateway/agent-kernel.ts:1029`). A finished run earlier in
   the list makes it await twice in between. A run cancelled or timed out during that await
   has its error record removed or replaced, against line 359, "Mark as error in runRecords so
   future waiters see it immediately": a client that comes later finds nothing and waits.

3. **Overlapping turns break up exchanges** (`session_overlap`). Two chat turns of one session
   overlap, and `gateway/rpc.ts:1316-1321` calls that safe "because per-agent state isolation
   is now handled inside the kernel process". They share the session file: between the request
   for tools that one appends and its results the other may append its question. Both repairs
   then drop the exchange from the history of every later turn, though it was whole.
4. **Turns wait for each other for good** (`turns_circle`). `mesh_send` refuses an agent whose
   runner has a lease, which "prevents the calling agent from blocking forever on a busy peer"
   (`agent/tools/mesh-tools.ts:452`). A chat turn that overlaps a channel turn takes the lease
   and releases it when it ends. The channel turn, still at work and holding the queue, sends
   to B; B finds A without a lease and sends back; that turn queues behind the first one, and
   its timer starts only when it begins.

All are in the model exactly as in the code; the properties that hold are checked with them
present, except for the runs in `HitDuringSave`, with `DeleteDuringSave`, and where a lease is
shared, as said above.

Read from the code while modelling and not checked:

* Agent turns. If the save of a step's error is rejected too, `tick` rejects, the pump skips
  its second reconciliation, and nothing schedules a pump for a process in status error, so
  its waiters wait for their timeout. `dispose` deletes the checkpoints of live runs, suspended
  ones included, once its time is up. A tool that was executed before a crash and whose answer
  was not saved is executed again. `cancelReadyRun` leaves the lease of the runner as it is,
  and a suspended turn keeps it, so the agent looks busy to `mesh_send`.
* Workflows. While the callback of a cancelled run is awaited the run is shown as running again
  (`gateway/workflow-kernel.ts:589`). A suspended run that is cancelled after the reconciliation
  of a pump is looked at again only when another run is ready. A client that begins to wait
  while its run is finalized may never be answered. Accepted cancellations do not survive a
  crash, and `workflow-runs.json` is written in place.
* Sessions. The last step of `repairTranscript` drops a last exchange that is whole. A crash
  between the append of the user's message and the save has the message appended twice. What
  compaction makes is not written back to the file. `session.clear` of failed sessions does not
  ask whether a turn is at work.
* Servers of tools. The keys of a refresh of all and of one server do not exclude each other.
  If a refresh overlaps another or a reload, a client may be left open that nobody holds
  (`crossed`). A connection lost after it was made is not noticed. The list of due servers is
  made before the awaits, so one that has come back meanwhile is reset. A reload of a single
  agent rebuilds the registry, against the comment at `gateway/lifecycle.ts:747`, and the tools
  of the other agents' runners answer "Unknown MCP tool" until they are next synchronized.

## 5. Proofs

`ResourceGovernor_proofs` proves, for every finite set of calls, every set of lanes, any
configured limits and any priorities (`GovernorAssumption`):

| theorem | statement |
|---|---|
| `TypeCorrect` | `Spec => []TypeOK`: limits are positive whatever is configured, counters never negative |
| `PermitsAreConserved` | `Spec => []PermitConservation`: the counter of a lane is the number of its tasks that hold a permit |
| `NoWakeupIsLost` | `Spec => []NoLostWakeup`: a lane with a permit free has an empty queue |
| `NoWaiterIsDead` | `Spec => []NoDeadWaiter`: nobody is queued whose signal has fired, or on a disposed governor |
| `NobodyIsOvertaken` | `Spec => NoOvertaking`: no step grants a permit past a waiter that comes first |
| `GovernorImplementsPool` | `Spec => ImplementsPermitPool`: the governor refines the abstract pool |

The argument. Five of the seven handlers end in `drain`, so `DrainEffect` says once what
drain does: it moves a set of queued calls to running, adds their number to the counter of
their lane, grants on a lane only as far as its limit, and stops only when the lane is full
or its queue empty. It rests on `LanePartsAreFinite`, since the counting needs cardinalities.
`TypeOK` is inductive with `NormalizedLimits`. `PermitConservation` is inductive relative to
`TypeOK`; its step for `Finish` needs the invariant itself, to know that the counter is
positive, so that the floor at zero in `release` is never met. `NoLostWakeup` is inductive
relative to `TypeOK`. `NoDeadWaiter` is not inductive: an idle call with a fired signal could
join the queue, so `NobodyWaitsInVain` adds that remembered signals belong to running tasks.
`NoOvertaking` follows from `TypeOK` and the choice drain makes (`DrainKeepsOrder`). The
refinement maps the holders of the pool to the running calls: handlers that end in drain are
a `Grant`, a `Return` or a `Resize` of the pool, the others leave it alone; that the pool's
bound holds is `DrainFitsPool`, which reads the number of holders off the counter by
`PermitConservation` in the new state.

`CheckpointStore_proofs` proves, for any processes and any bound on the requests
(`StoreAssumption`: `MaxOps` is a natural number):

| theorem | statement |
|---|---|
| `StoreTypeCorrect` | `Spec => []TypeOK`; in particular only the head of a chain is at work on the disk |
| `PendingBelongsToTail` | `Spec => []PendingIsTail`: the promise of a coalesced save is that of the write that carries it |
| `StoreKeepsOrder` | `Spec => PreservesOrder`: the store refines the ordered store |

The argument. None of the three is inductive alone. `PreservesOrder` needs that what the disk
writes is a later request than the file shows, so the invariant `ChainsAreSound` says of each
process (`Sound`) that the requests claimed by an operation were made after the one the file
shows and are all of the operation's kind, that they are ordered along the chain, that an
operation writes only at the head of the chain and only a request it claims, and that the
pending save belongs to the operation at the end, not yet begun. One lemma follows each
way a chain changes: an operation joins it (`AppendIsSound`), a save is coalesced into its
end (`CoalescingIsSound`), its head begins (`BeginningIsSound`) or settles
(`SettlingIsSound`). That the flush which begins is the one that made the pending entry, which
lets it take the snapshot away, is `FlushWritesItsClaim`; that a pending save survives
when another operation settles is `PendingIsElsewhere`.

The module then proves, from the same assumption, that no request is forgotten:

| theorem | statement |
|---|---|
| `SettledSavesAreDurable` | `Spec => []SettledIsDurable`: what a resolved promise stands for is on disk, or a later request is |
| `QuietFileIsLatest` | `Spec => []QuiescentFileIsLatest`: when a chain has run dry the file shows the last request |
| `LoadsReadOwnWrites` | `Spec => ReadsOwnWrites`: a load shows what was asked to be saved before it was called |

each but for what the file system refused and, in the first and the last, for deletes that
overtake a save.

The argument. All three say that no request is forgotten, which `RequestsAreKept` makes inductive
together with `ChainsAreSound` (`RequestsStayKept`): every request is claimed by an operation
of the chain, is not later than what the file shows, has failed, or has a delete after it that
is to come or has failed (`AccountedFor`). That this survives the end of an operation needs to
know what the operation did. One that has written wrote the newest of its claims
(`NewestIsWritten`). A flush that finds no entry writes nothing and still resolves; it can only be
one whose entry a delete took away, and that delete is then behind it in the chain
(`FlushesCount`). The lemmas follow the ways a chain changes, as those for soundness do
(`AppendKeeps`, `CoalescingKeeps`, `BeginningKeeps`, `SettlingKeeps`). A load waits for the chain
as it was when called, so the requests before it are no longer claimed when it reads.

`AgentKernel_proofs` proves, for any processes with any priorities and any bound on the steps
(`KernelAssumption`: `MaxRuns` is a natural number):

| theorem | statement |
|---|---|
| `KernelTypes` | `Spec => []TypeOK`: a snapshot waits exactly as long as its system call is unanswered, and no checkpoint says that its process is running |
| `AnswersReach` | `Spec => AnswersReachTheStep`: an answer is dropped by nobody before the step it is for |
| `ReportedIsDurable` | if `~DeleteDuringSave`, `Spec => []ReportedStepsAreDurable` |
| `DeletedIsGone` | if `~DeleteDuringSave`, `Spec => []DeletedStaysDeleted` |

The argument. `KernelIsSound` is inductive whatever callers delete, and when: a tick that awaits
its step was given the snapshot in the table (`StepIsSound`), one that awaits a save will put
back a snapshot with the number of steps and the answer that the table has (`SaveIsSound`),
and a system call under way is the one its process waits for (`CallIsSound`). With it goes that
a process somebody is at work on is there unless it was deleted, so that a name is not
used again under a tick. The two theorems on durability need `KernelIsDurable`: the saves in the
backlog go forward in steps from the disk to the table, none behind what was reported
(`SavesGoForward`), the one awaited is among them or on disk (`AwaitedSave`), and a delete is
the last request of a process that is gone (`IsDeleted`). Deleting during the save breaks
exactly `AwaitedSave`, for then the tick puts the process back, which is finding 1. All but one
action have to do with one process only, so `OneProcessChanges` and `OneProcessKeepsDurable`
reduce each to what it makes of the snapshot, tick, system call and backlog of that process.

`WorkflowKernel_proofs` proves, for any runs, any bound on their steps and any number of
crashes (`WorkflowAssumption`):

| theorem | statement |
|---|---|
| `WorkflowTypeCorrect` | `Spec => []TypeOK` |
| `CancellationsWin` | `Spec => []AcceptedCancelsWin`: a cancellation accepted before a run had an outcome is its outcome |
| `EveryRunIsScheduled` | `Spec => []RunsAreScheduled`: without a pump at work or scheduled, every live run is suspended or being made ready |
| `FilesAreTheTable` | `Spec => []FilesFollowTheTable`: outside saves the files are what the table says |
| `RunsHaveOneOutcome` | `Spec => OneOutcome`: a run is finalized once |

The argument. One inductive invariant, `WorkflowIsSound`, carries all five. Its parts say which
statuses the table, the saves and the files can hold (`TableIsSound`, `SavesAreSound`,
`FilesAreSound`): a process is running only while the pump steps it, and never in a file; what
each stage of the pump implies for the run it is at work on (`PumpIsSound`); that a run with an
outcome is out of the table, or is the one being archived (`CompletedIsGone`), which gives
`OneOutcome`; that an accepted cancellation is still noted or has become the outcome
(`CancelsAreKept`); that a run which is over is among those the pump has yet to look at, so
that an idle pump leaves none (`OverIsSeen`), and one that is ready has a pump to come
(`ReadyIsScheduled`), which give `RunsAreScheduled`; and that the file of a run whose saves
have not crossed is its table entry, the image under way, or what it was before the step
(`FilesAreCurrent`). There is one lemma for each action or group of actions that change the
same parts.

`AgentKernelService_proofs` proves, for any runs, any bounds on their steps, any set of awaited
runs and any set `HitDuringSave` (`ServiceAssumption`: a run has at least two steps, since one
that a restart finds in the middle has taken its first):

| theorem | statement |
|---|---|
| `ServiceTypes` | `Spec => []TypeOK` |
| `CallsRunOnce` | `Spec => []CallsAreExecutedOnce`: no system call is executed twice |
| `RecordsMatch` | `Spec => []RecordsMatchLiveRuns`: nobody is answered from a record that is out of date |
| `PumpIsNeverMissed` | `Spec => []PumpIsArmed`: no run is left without a pump at work, a pump to come, or somebody who will schedule one |
| `DisposeLeavesNothing` | `Spec => []ClosedIsEmpty` |
| `GoneRunsAreRemembered` | `Spec => GoneRunsAreAccountedFor`: a run that is removed has its outcome on record and its waiter answered, or about to be |

The second and third are, as the properties, about the runs outside `HitDuringSave`. The
argument. `ServiceIsSound` is inductive (`ServiceStaysSound`). Of the pump it says that a
snapshot captured before an await still is that of the table, but for a call answered since, or
its run is gone (`PumpIsSound`); that a run is running just while the pump awaits its step, and
while its save is awaited the table holds what is being saved (`StepsAreSound`); and that a
reconciliation has every run that has ended before it (`FinishedIsTodo`), which with `WorkersAreSound`
is why a pump that ends without setting its timer leaves nothing to do. `WorkersAreSound` says
that a call being executed is the one its run waits for, and where a run can be while the
answer is saved. `CallsAreCounted` makes `CallsAreExecutedOnce` inductive: the calls of
later steps have not been executed, nor has the one a run waits for unless its worker is at it. It
leans on `GoneStaysGone`: a run outside `HitDuringSave` is in the table while its save is
awaited, and not in it while an abort of it is at an await; without that, a run would come back
with its call to be executed again, which is finding 1. The proof first says of each kind of
action what it makes of the pump, the table, a worker, the records, the calls at an await and
the timer (`RunSteps`, `WorkerSteps`, `RecordSteps`, `OpSteps`, `TimerSteps`); each part of the
invariant is then shown from those.

`AgentTurns_proofs` proves, for any agents and turns, of any kinds, and any bound on the rounds
(`TurnsAssumption`):

| theorem | statement |
|---|---|
| `TurnsTypeCorrect` | `Spec => []TypeOK` |
| `CirclesAreThroughSharedLeases` | `Spec => []CirclesNeedASharedLease`: turns wait for one another in a circle only through an agent whose lease was shared |
| `QueuesKeepTheLine` | `Spec => ImplementsTurnLine`: the queues refine the abstract line |

The argument. `TurnsAreSound` is inductive: the active and the pending turns of a queue are of
its agent, begun or queued, and none is there twice (`QueuesAreSound`); a turn that is to have
the agent for itself is active from its beginning until it is answered (`WorkersHoldTheQueue`);
and as long as no lease of the agent has been shared, the lease is that of the turn at work
(`WorkersHoldTheLease`). A set of turns that wait in a circle can only come about in a step that
makes a turn wait. A turn that joins a queue is not waited for by anybody yet; the turn that
becomes the head of a queue waits for none when the others begin to wait for it; and
`mesh_send` goes to an agent without a lease, at which, unless the lease was shared, no turn is
at work that could wait. For the refinement every action is mapped to `Join`, `Begin`, `Stop`,
`Leave` or `GiveUp` of `TurnLine`, or to a stutter; that a turn begins alone is
`WorkersHoldTheQueue`.

`McpRuntime_proofs` proves, for any finite set of servers and any number of registries and refreshes
(`McpAssumption`):

| theorem | statement |
|---|---|
| `RuntimeTypes` | `Spec => []TypeOK`: among the rest, the keys in flight are those of the refreshes under way |
| `ClientsAreKept` | `Spec => []KeptClients`: an open client is held by the registry in use or by one being made |
| `StatusIsSo` | `Spec => []StatusIsTrue`: a server is shown as connected just when its tools and a client are there |

The last two hold of the servers no two jobs have met on, as the properties say. The argument.
`RuntimeIsSound` is inductive. A reload works on the registry of its number, which is not in
use before it ends, and a refresh on one that has been made (`JobsAreSound`). Of a server
that jobs have not met on, at most one job is at work on it; while it is, the tools of
the server are gone, and the client is absent or the one this job has created
(`WorkIsSound`). Every open client is the one its registry holds, and that registry is in use or
being made (`OpenIsHeld`). What a registry shows of a server nobody is at work on is so
(`ShownIsSo`), which has to be said of registries yet to be made as well, since a reload
starts from what they hold. `StatusIsTrue` could not be shown of the registry in use alone: it
changes hands when a reload ends (`ReplacingIsSound`). Steps that leave a server and the jobs at
it alone are covered at once by `AlikeIsSound`. Well-founded induction is used as a
fact about sets of numbers only, for `First` (`FirstIsIn`).

`SessionTurns_proofs` proves, for any turns with any numbers of rounds, any sets of calls a
model may ask for, any length of the file and any number of crashes and clearings
(`SessionAssumption`: a model that asks for tools asks for one at least, a turn has one round
at least, and a compaction keeps one message at least):

| theorem | statement |
|---|---|
| `SessionTypes` | `Spec => []TypeOK`; in particular no turn asks for tools more often than it may |
| `RequestsStayAccepted` | `Spec => []RequestsAreAccepted`: what a turn sends is accepted, and so would be what a turn that began now sends |
| `SentIsInTheFile` | `Spec => []RequestsComeFromTheFile`: what was sent is in the file in that order, as long as nobody clears it or cuts a line short |
| `RepairsLoseNoMore` | `Spec => []RepairLosesNoMore`: of a file with nothing poisoned the two repairs keep all that was said, and every exchange that is whole and does not end the file |

The argument. What the file looks like is not restricted at all: the first theorem needs of it
only that it has lines, and what the repairs make of any lines is shown once and for all
(`SanitizedIsAccepted`). One pass of `sanitizeMessages` leaves results only behind a request
for at least their calls, whatever it was given (`Backed`, `PassIsBacked`). A pass over such a
list meets, behind a request that is answered, results for exactly its calls, so it keeps whole
exchanges or nothing of them (`PassOfBackedIsAccepted`). So two passes are enough for a
provider, unless the first changes nothing, and then one was; the ten of the code are more than
are needed. Taking away what a poisoned answer spoils leaves a prefix that is not cut between a
request and its results (`UnpoisonedIsAccepted`), and the split of a compaction is not before
results (`SplitIs`, `CompactedIsAccepted`). `SessionIsSound` is then inductive: the messages of
a turn that has nothing pending are accepted, those of another are but for the request at their
end, which asks for what is pending (`TurnIsSound`); one lemma for each kind of outcome shows
that the turn it leaves is sound (`StepIsSound`). For `SentIsInTheFile`, messages come from a
list if there are places for them in it that ascend (`ComesFrom`): both repairs and the
compaction only leave messages out (`HistoryComesFrom`, `PartComesFrom`), whoever appends
leaves what is there in its place (`BothGrow`), and looking for the messages one after another,
as the property does, finds each no later than its place (`WhatIsThereIsFound`).

`RepairsLoseNoMore` needs equality, so here the places are counted too: `IsPicked(s, m, K)` says
that `s` has the messages of `m` at exactly the places `K`, and there is only one such list, the
one that `Repaired` counts out (`PickedIs`). A pass of `repairTranscript` picks what is said and
what is asked and answered (`RepairPassPicks`, by what the pass has kept up to each message and
whether it passes over the next); a second changes nothing (`OneRepairIsEnough`), and taking
results off the end leaves exactly the last request without its answer (`RepairKeeps`). What is
left then are requests `A` of the file, of which those in `B` have their answer right behind
them. A pass of `sanitizeMessages` over such a list leaves `B`, and of it the answers that have
nothing that was not asked for (`SanitizePassPicks` on the list itself, `KeptPlaces` and
`SanitizePassKeeps` by the places in the file). The second such pass therefore removes the
requests that lost their answer in the first, and a third changes nothing (`SanitizeKeeps`).
A poisoned answer is left out of the property: what it takes along depends on what was
kept before it, and the code promises nothing of it.

What recursive functions compute is proved from their definition by `StepsHaveResults`, which
gives a function that takes one step after another, and `UpToInduction`, which goes up to a
bound; both rest on the well-foundedness of the numbers as a fact about sets. The backends take
the domain of whatever has a length to begin at 1; functions that begin at 0 are therefore
reasoned about in lemmas with no length in sight (`SanitizeUpToIs`, `FoundUpToFinds` and their
like).

Checked by TLC only are the liveness properties (`InteractiveCallsAreServed`, `ChainDrains`,
`WaitersAreAnswered`, `QueuedTurnsStart`, `RetriesGoOn`): the proof system does not handle
fairness. Every safety invariant, action property and refinement that a passing run checks is a
theorem, some of them under a condition on the constants that the tables above state.

## 6. Not modelled

* **Federation**: peers, delegated tasks and memory queries over WebSockets. Every message is
  signed by a library call whose outcome everything else depends on, and which the source
  does not settle, so that a model would rest on a guess.
* **The pump of the kernel turn executor**. It resembles the service's, and keeps its
  checkpoints where the service keeps its own; what either restores depends on the order in
  which an embedding program starts them. Its `abortTurn` and its watchdog are in `AgentTurns`.
* **Positions in the results of a workflow** after jumps, skips and forks
  (`gateway/workflow-process-runtime.ts:313`): `WorkflowKernel` has no contents of steps.
* **The file of run records and its limit** of 200, `list()` of the coalescing store, rejected
  saves under the service and the workflow kernel.
* **Failover, loop detection, the rate limiter**: counters of one caller, without waiting.
* Prompt assembly, the text of summaries, task planning, memory search, skills, channels, the
  command line, gateway stores and request handlers: work on files, databases and networks
  with no protocol of their own. The sandbox and cron scheduling delegate theirs to a
  container engine and a library.
