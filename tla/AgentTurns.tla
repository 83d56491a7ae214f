------------------------------ MODULE AgentTurns ------------------------------
(***************************************************************************)
(* Who may run a turn of an agent: the queue of the agent                  *)
(* (gateway/agent-queue.ts), the lease its runner keeps (agent/runner.ts), *)
(* which says whether the agent is busy, and the delegation of a task to   *)
(* another agent by mesh_send (agent/tools/mesh-tools.ts).                 *)
(*                                                                         *)
(* A turn from a channel and one delegated to the agent hold the queue     *)
(* until they are answered.  A chat turn holds it only to be started, and  *)
(* a resumed turn not at all, so that these overlap with others; the lease *)
(* is that of whichever was stepped last.  What a turn does is abstracted  *)
(* to the steps that set the lease; approvals are left out, as is          *)
(* mesh_spawn, which starts turns beside the queue.                        *)
(***************************************************************************)
EXTENDS Naturals, Sequences

CONSTANTS
  Agents,
  RunIds,
  AgentOf,    \* the agent of each turn
  Kind,       \* of each turn: "chat", "channel" or "mesh"
  MaxRounds,  \* maxToolRounds
  None

ASSUME TurnsAssumption ==
  /\ AgentOf \in [RunIds -> Agents] /\ MaxRounds \in Nat \ {0} /\ None \notin RunIds

VARIABLES
  queue,     \* AgentQueue of each agent: [active, pending]
  phase,     \* of each turn
  rounds,    \* toolRounds
  callee,    \* the turn whose answer the mesh_send of a turn awaits; at most one per turn
  answered,  \* turns whose waiters have been answered
  lease,     \* activeRunId of the runner of each agent; None: not isRunning
  shared     \* history: agents whose lease was set by one turn with another at work

vars == <<queue, phase, rounds, callee, answered, lease, shared>>

Chat(r) == Kind[r] = "chat"
AtWork(r) == phase[r] \in {"llm", "tool", "sending"}
Live(r) == AtWork(r) \/ phase[r] \in {"pending", "suspended"}
IsRunning(a) == lease[a] # None

\* Its waiters are answered when a turn has ended and when it is suspended.
Goes(r, to) ==
  /\ phase' = [phase EXCEPT ![r] = to]
  /\ answered' = IF to \in {"suspended", "ended"} THEN answered \cup {r} ELSE answered

\* A step or an abort of turn r leaves the runner with this lease.
SetLease(r, holder) ==
  /\ lease' = [lease EXCEPT ![AgentOf[r]] = holder]
  /\ shared' = IF \E q \in RunIds \ {r} : AgentOf[q] = AgentOf[r] /\ AtWork(q)
               THEN shared \cup {AgentOf[r]} ELSE shared

\* A step ends with the turn in this phase: of an ended one the lease is released.
StepTo(r, to) == Goes(r, to) /\ SetLease(r, IF to = "ended" THEN None ELSE r)

-----------------------------------------------------------------------------
Joined(r) ==
  LET q == queue[AgentOf[r]]
  IN  queue' = [queue EXCEPT ![AgentOf[r]] =
                  IF q.active = None THEN [active |-> r, pending |-> q.pending]
                  ELSE [active |-> q.active, pending |-> Append(q.pending, r)]]

enqueue(r) ==
  /\ phase[r] = "none" /\ Kind[r] # "mesh"
  /\ Joined(r) /\ Goes(r, "queued")
  /\ UNCHANGED <<rounds, callee, lease, shared>>

\* The task at the head starts its turn, or fails to.
startTurn(r) ==
  /\ queue[AgentOf[r]].active = r /\ phase[r] = "queued"
  /\ \E to \in {"pending", "ended"} : Goes(r, to)
  /\ UNCHANGED <<queue, rounds, callee, lease, shared>>

TaskEndedAtStart(r) == phase[r] # "queued"

\* The task of a chat turn ends once the turn is started or was cancelled before
\* that; the others end with the answer.
TaskEnded(r) == IF Chat(r) THEN phase[r] # "queued" ELSE r \in answered

DrainedToIdle(q) == [active |-> None, pending |-> q.pending]

\* _drain()
Drained(q) ==
  IF q.pending = <<>> THEN [active |-> None, pending |-> <<>>]
  ELSE [active |-> Head(q.pending), pending |-> Tail(q.pending)]

TaskEnds(r) ==
  /\ queue[AgentOf[r]].active = r /\ TaskEnded(r)
  /\ queue' = [queue EXCEPT ![AgentOf[r]] = Drained(@)]
  /\ UNCHANGED <<phase, rounds, callee, answered, lease, shared>>

\* The sequence s without its element i.
Without(s, i) == [j \in 1..(Len(s) - 1) |-> IF j < i THEN s[j] ELSE s[j + 1]]

\* cancelRun() of a reserved run: cancelPending() finds its task, or it is the one
\* that is about to start.
cancelQueuedTurn(r) ==
  /\ Chat(r) /\ phase[r] = "queued"
  /\ Goes(r, "ended")
  /\ LET q == queue[AgentOf[r]]
     IN  \/ \E i \in DOMAIN q.pending :
              /\ q.pending[i] = r
              /\ queue' = [queue EXCEPT ![AgentOf[r]] =
                            [active |-> q.active, pending |-> Without(q.pending, i)]]
         \/ q.active = r /\ UNCHANGED queue
  /\ UNCHANGED <<rounds, callee, lease, shared>>

-----------------------------------------------------------------------------
\* beginKernelTurn(), which does not find another turn: its lease was cleared before.
beginKernelTurn(r) ==
  /\ phase[r] = "pending"
  /\ \E to \in {"llm", "ended"} : StepTo(r, to)
  /\ UNCHANGED <<queue, rounds, callee>>

applyKernelLlmGenerateSyscall(r) ==
  /\ phase[r] = "llm"
  /\ \/ /\ rounds' = [rounds EXCEPT ![r] = @ + 1]
        /\ StepTo(r, "tool")
     \/ /\ \E to \in {"suspended", "ended"} : StepTo(r, to)
        /\ UNCHANGED rounds
  /\ UNCHANGED <<queue, callee>>

LimitPassed(r) == rounds[r] > MaxRounds
LimitReached(r) == rounds[r] >= MaxRounds

applyKernelToolCallSyscall(r) ==
  /\ phase[r] = "tool"
  /\ \E to \in {"llm", "ended"} : (LimitReached(r) => to = "ended") /\ StepTo(r, to)
  /\ UNCHANGED <<queue, rounds, callee>>

resumeTurn(r) ==
  /\ phase[r] = "suspended"
  /\ StepTo(r, "llm")
  /\ UNCHANGED <<queue, rounds, callee>>

-----------------------------------------------------------------------------
AnyPeer(a) == a \in Agents
IdlePeer(a) == ~IsRunning(a)

\* A tool call delegates turn s: a busy agent is refused, another one is waited for.
meshSend(r, s) ==
  /\ phase[r] = "tool" /\ callee[r] = None
  /\ Kind[s] = "mesh" /\ phase[s] = "none" /\ IdlePeer(AgentOf[s])
  /\ callee' = [callee EXCEPT ![r] = s]
  /\ phase' = [phase EXCEPT ![r] = "sending", ![s] = "queued"]
  /\ Joined(s)
  /\ UNCHANGED <<rounds, answered, lease, shared>>

meshSendReturns(r) ==
  /\ phase[r] = "sending" /\ callee[r] \in answered
  /\ Goes(r, "tool")
  /\ UNCHANGED <<queue, rounds, callee, lease, shared>>

-----------------------------------------------------------------------------
\* Of an aborted turn the lease is first set, then released.
abortTurn(r) ==
  /\ Live(r) /\ Goes(r, "ended")
  /\ SetLease(r, None)
  /\ UNCHANGED <<queue, rounds, callee>>

\* The timer of executeAgentTurnViaKernel() aborts a delegated turn.
MeshTimesOut(r) == Kind[r] = "mesh" /\ abortTurn(r)

forceTimeoutRun(r) ==
  /\ Live(r) /\ Kind[r] # "mesh" /\ Goes(r, "ended")
  /\ IF lease[AgentOf[r]] = r THEN SetLease(r, None) ELSE UNCHANGED <<lease, shared>>
  /\ UNCHANGED <<queue, rounds, callee>>

\* cancelReadyRun() of a turn whose system call has been answered.
cancelReadyRun(r) ==
  /\ phase[r] \in {"llm", "tool"} /\ Kind[r] # "mesh" /\ Goes(r, "ended")
  /\ UNCHANGED <<queue, rounds, callee, lease, shared>>

-----------------------------------------------------------------------------
Init ==
  /\ queue = [a \in Agents |-> [active |-> None, pending |-> <<>>]]
  /\ phase = [r \in RunIds |-> "none"]
  /\ rounds = [r \in RunIds |-> 0]
  /\ callee = [r \in RunIds |-> None]
  /\ answered = {}
  /\ lease = [a \in Agents |-> None]
  /\ shared = {}

\* What the queue and the kernels do by themselves.
QueueGoesOn(r) == startTurn(r) \/ TaskEnds(r)
TurnGoesOn(r) ==
  \/ beginKernelTurn(r) \/ applyKernelLlmGenerateSyscall(r)
  \/ applyKernelToolCallSyscall(r) \/ meshSendReturns(r)

Next ==
  \E r \in RunIds :
    \/ enqueue(r) \/ QueueGoesOn(r) \/ TurnGoesOn(r) \/ cancelQueuedTurn(r) \/ resumeTurn(r)
    \/ \E s \in RunIds : meshSend(r, s)
    \/ abortTurn(r) \/ forceTimeoutRun(r) \/ cancelReadyRun(r)

Fairness ==
  \A r \in RunIds :
    WF_vars(QueueGoesOn(r)) /\ WF_vars(TurnGoesOn(r)) /\ WF_vars(MeshTimesOut(r))

Spec == Init /\ [][Next]_vars
FairSpec == Spec /\ Fairness

-----------------------------------------------------------------------------
TypeOK ==
  /\ queue \in [Agents -> [active : RunIds \cup {None}, pending : Seq(RunIds)]]
  /\ phase \in [RunIds -> {"none", "queued", "pending", "llm", "tool", "sending", "suspended", "ended"}]
  /\ rounds \in [RunIds -> 0..MaxRounds]
  /\ callee \in [RunIds -> RunIds \cup {None}]
  /\ lease \in [Agents -> RunIds \cup {None}]
  /\ answered \subseteq RunIds /\ shared \subseteq Agents

\* "Prevents concurrent turn() calls on the same AgentRunner"
\* (gateway/agent-queue.ts:4): turns that hold the queue to their answer work one at
\* a time and begin in the order in which they came, whatever chat turns, cancelled
\* ones and aborted ones go through the same queue, until they are suspended.
Line(q) == IF q.active = None THEN <<>> ELSE <<q.active>> \o q.pending
Stage(r) ==
  CASE phase[r] = "none" -> "out"
    [] phase[r] = "queued" -> "waiting"
    [] phase[r] \notin {"none", "queued"} /\ r \in answered -> "stopped"
    [] phase[r] \notin {"none", "queued"} /\ r \notin answered -> "working"

Lines == [a \in Agents |-> Line(queue[a])]
Stages == [r \in RunIds |-> Stage(r)]
Brief == {r \in RunIds : Chat(r)}

TL == INSTANCE TurnLine WITH Turns <- RunIds, line <- Lines, stage <- Stages
ImplementsTurnLine == TL!Spec

\* Turn r cannot go on before turn q does.
WaitsFor(r, q) ==
  \/ phase[r] = "sending" /\ callee[r] = q /\ q \notin answered
  \/ LET line == queue[AgentOf[r]]
     IN  line.active = q /\ \E i \in DOMAIN line.pending : line.pending[i] = r

Circular(turns) == turns # {} /\ \A r \in turns : \E q \in turns : WaitsFor(r, q)

\* mesh_send refuses a busy agent, which "prevents the calling agent from blocking
\* forever on a busy peer" (agent/tools/mesh-tools.ts:452): turns wait for one
\* another in a circle only through an agent whose lease another turn has taken.
CirclesNeedASharedLease ==
  \A turns \in SUBSET RunIds : Circular(turns) => \E r \in turns : AgentOf[r] \in shared

\* The same comment: a turn that awaits a delegated one goes on some day.
SendsReturn == \A r \in RunIds : phase[r] = "sending" ~> phase[r] # "sending"

\* A turn in a queue is started some day: tasks end, and delegated turns have a timer.
\* Unless a lease is shared, for then there may be a circle, and the delegated turn
\* in it, being in a queue, has no timer yet.
QueuedTurnsStart ==
  \A r \in RunIds : phase[r] = "queued" ~> (phase[r] # "queued" \/ shared # {})

=============================================================================
