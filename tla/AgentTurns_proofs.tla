--------------------------- MODULE AgentTurns_proofs ---------------------------
(***************************************************************************)
(* Proofs about AgentTurns for any agents, turns and number of rounds:     *)
(* that the queues of the agents keep the turns that hold them apart and   *)
(* in order, and that turns wait for one another in a circle only through  *)
(* an agent whose lease was shared.                                        *)
(***************************************************************************)
EXTENDS AgentTurns, SequenceTheorems, TLAPS

Begun(r) == phase[r] \notin {"none", "queued"}

\* Those that wait in a queue are of its agent, behind its active turn, once each.
QueuesAreSound ==
  \A a \in Agents :
    LET q == queue[a]
    IN  /\ q.active = None => q.pending = <<>>
        /\ q.active # None => AgentOf[q.active] = a /\ phase[q.active] # "none"
        /\ \A i \in DOMAIN q.pending : /\ phase[q.pending[i]] = "queued"
                                       /\ AgentOf[q.pending[i]] = a /\ q.pending[i] # q.active
        /\ \A i, j \in DOMAIN q.pending : q.pending[i] = q.pending[j] => i = j

AnsweredHaveBegun == \A r \in answered : Begun(r)

CalleesAreKnown == \A r \in RunIds : callee[r] # None => phase[callee[r]] # "none"

\* A turn that is to have the agent for itself is active until it is answered.
WorkersHoldTheQueue ==
  \A r \in RunIds : ~Chat(r) /\ Begun(r) /\ r \notin answered => queue[AgentOf[r]].active = r

RoundsAreLeft ==
  \A r \in RunIds : phase[r] \notin {"tool", "sending", "ended"} => rounds[r] < MaxRounds

\* As long as no lease has been shared, it is that of the turn at work.
WorkersHoldTheLease ==
  \A r \in RunIds : AtWork(r) /\ AgentOf[r] \notin shared => lease[AgentOf[r]] = r

\* The inductive invariant.
TurnsAreSound ==
  /\ TypeOK /\ QueuesAreSound /\ AnsweredHaveBegun /\ CalleesAreKnown
  /\ WorkersHoldTheQueue /\ RoundsAreLeft /\ WorkersHoldTheLease
  /\ CirclesNeedASharedLease

-----------------------------------------------------------------------------
\* The sequence without its element i.
LEMMA WithoutProperties ==
  ASSUME NEW S, NEW s \in Seq(S), NEW i \in DOMAIN s
  PROVE  /\ Without(s, i) \in Seq(S)
         /\ Len(Without(s, i)) = Len(s) - 1
         /\ \A j \in 1..(Len(s) - 1) : Without(s, i)[j] = IF j < i THEN s[j] ELSE s[j + 1]
BY DEF Without

\* Without new waits there are no new circles.
LEMMA CirclesAreOld ==
  ASSUME CirclesNeedASharedLease, shared \subseteq shared',
         \A r, q \in RunIds : WaitsFor(r, q)' => WaitsFor(r, q)
  PROVE  CirclesNeedASharedLease'
BY DEF CirclesNeedASharedLease, Circular

\* A turn that has begun, or that is active and begins, goes on.
LEMMA TurnMoves ==
  ASSUME TurnsAreSound, NEW r \in RunIds,
         NEW to \in {"pending", "llm", "tool", "suspended", "ended"}, Goes(r, to),
         Begun(r) \/ (phase[r] = "queued" /\ queue[AgentOf[r]].active = r),
         queue' = queue, callee' = callee, shared \subseteq shared'
  PROVE  /\ QueuesAreSound' /\ AnsweredHaveBegun' /\ CalleesAreKnown'
         /\ WorkersHoldTheQueue' /\ CirclesNeedASharedLease'
         /\ phase' \in [RunIds -> {"none", "queued", "pending", "llm", "tool", "sending",
                                   "suspended", "ended"}]
         /\ phase'[r] = to /\ \A q \in RunIds \ {r} : phase'[q] = phase[q]
         /\ answered' \subseteq RunIds
<1> USE DEF TurnsAreSound
<1>1. /\ phase'[r] = to /\ \A q \in RunIds \ {r} : phase'[q] = phase[q]
      /\ answered' \in {answered, answered \cup {r}}
      /\ phase' \in [RunIds -> {"none", "queued", "pending", "llm", "tool", "sending",
                                "suspended", "ended"}]
  BY DEF Goes, TypeOK
<1>2. QueuesAreSound'
  <2> SUFFICES ASSUME NEW a \in Agents PROVE QueuesAreSound!(a)'
    BY DEF QueuesAreSound
  <2>1. \A i \in DOMAIN queue[a].pending : queue[a].pending[i] # r /\ queue[a].pending[i] \in RunIds
    BY DEF QueuesAreSound, TypeOK, Begun
  <2>2. queue[a].active # None => queue[a].active \in RunIds
    BY DEF TypeOK
  <2> QED
    BY <1>1, <2>1, <2>2 DEF QueuesAreSound
<1>3. AnsweredHaveBegun' /\ CalleesAreKnown' /\ WorkersHoldTheQueue'
  BY <1>1 DEF AnsweredHaveBegun, CalleesAreKnown, WorkersHoldTheQueue, Begun, TypeOK
<1>4. \A p, q \in RunIds : WaitsFor(p, q)' => WaitsFor(p, q)
  BY <1>1 DEF WaitsFor
<1>5. CirclesNeedASharedLease'
  BY <1>4, CirclesAreOld
<1> QED
  BY <1>1, <1>2, <1>3, <1>5 DEF TypeOK

\* What the steps of a turn, and whatever ends it, have in common.
Moved(r, to) ==
  /\ Goes(r, to) /\ queue' = queue /\ callee' = callee
  /\ Begun(r) \/ (phase[r] = "queued" /\ queue[AgentOf[r]].active = r)
  /\ \/ SetLease(r, IF to = "ended" THEN None ELSE r)
     \/ /\ lease' = lease /\ shared' = shared
        /\ to \in {"pending", "ended"} \/ phase[r] = "sending"
  /\ \/ /\ rounds' = rounds
        /\ \/ to \in {"tool", "ended"}
           \/ phase[r] \in {"queued", "pending", "llm", "suspended"}
           \/ ~LimitReached(r)
     \/ /\ phase[r] = "llm" /\ to = "tool"
        /\ rounds' = [rounds EXCEPT ![r] = @ + 1]

LEMMA StepsMoveTurns ==
  ASSUME NEW r \in RunIds,
         \/ startTurn(r) \/ TurnGoesOn(r) \/ resumeTurn(r)
         \/ abortTurn(r) \/ forceTimeoutRun(r) \/ cancelReadyRun(r)
  PROVE  \E to \in {"pending", "llm", "tool", "suspended", "ended"} : Moved(r, to)
<1>1. CASE startTurn(r)
  BY <1>1 DEF startTurn, Moved
<1>2. CASE beginKernelTurn(r)
  BY <1>2 DEF beginKernelTurn, StepTo, Moved, Begun
<1>3. CASE applyKernelLlmGenerateSyscall(r)
  BY <1>3 DEF applyKernelLlmGenerateSyscall, StepTo, Moved, Begun
<1>4. CASE applyKernelToolCallSyscall(r)
  BY <1>4 DEF applyKernelToolCallSyscall, StepTo, Moved, Begun
<1>5. CASE meshSendReturns(r)
  BY <1>5 DEF meshSendReturns, Moved, Begun
<1>6. CASE resumeTurn(r)
  BY <1>6 DEF resumeTurn, StepTo, Moved, Begun
<1>7. CASE abortTurn(r)
  BY <1>7 DEF abortTurn, Moved, Begun, Live, AtWork
<1>8. CASE forceTimeoutRun(r)
  BY <1>8 DEF forceTimeoutRun, Moved, Begun, Live, AtWork
<1>9. CASE cancelReadyRun(r)
  BY <1>9 DEF cancelReadyRun, Moved, Begun
<1> QED
  BY <1>1, <1>2, <1>3, <1>4, <1>5, <1>6, <1>7, <1>8, <1>9 DEF TurnGoesOn

LEMMA TurnStepIsSound ==
  ASSUME TurnsAreSound, NEW r \in RunIds,
         NEW to \in {"pending", "llm", "tool", "suspended", "ended"}, Moved(r, to)
  PROVE  TurnsAreSound'
<1> USE DEF TurnsAreSound
<1>1. shared \subseteq shared' /\ shared' \subseteq Agents /\ lease' \in [Agents -> RunIds \cup {None}]
  <2>1. AgentOf[r] \in Agents /\ r \in RunIds \cup {None}
    BY TurnsAssumption
  <2>2. shared \subseteq shared' /\ shared' \subseteq Agents
    BY <2>1 DEF Moved, SetLease, TypeOK
  <2>3. lease' = lease \/ lease' = [lease EXCEPT ![AgentOf[r]] = None]
        \/ lease' = [lease EXCEPT ![AgentOf[r]] = r]
    BY DEF Moved, SetLease
  <2>4. lease \in [Agents -> RunIds \cup {None}]
    BY DEF TypeOK
  <2>5. lease' \in [Agents -> RunIds \cup {None}]
    BY <2>1, <2>3, <2>4
  <2> QED
    BY <2>2, <2>5
<1>2. /\ QueuesAreSound' /\ AnsweredHaveBegun' /\ CalleesAreKnown'
      /\ WorkersHoldTheQueue' /\ CirclesNeedASharedLease'
      /\ phase' \in [RunIds -> {"none", "queued", "pending", "llm", "tool", "sending",
                                "suspended", "ended"}]
      /\ phase'[r] = to /\ \A q \in RunIds \ {r} : phase'[q] = phase[q]
      /\ answered' \subseteq RunIds
  <2>1. /\ Goes(r, to) /\ queue' = queue /\ callee' = callee
        /\ Begun(r) \/ (phase[r] = "queued" /\ queue[AgentOf[r]].active = r)
    BY DEF Moved
  <2> QED
    BY <1>1, <2>1, TurnMoves
<1>3. RoundsAreLeft' /\ rounds' \in [RunIds -> 0..MaxRounds]
  <2>1. CASE rounds' = rounds
    <3>1. rounds[r] \in 0..MaxRounds /\ MaxRounds \in Nat
      BY TurnsAssumption DEF TypeOK
    <3>2. to \in {"tool", "ended"} \/ rounds[r] < MaxRounds
      BY <2>1, <3>1 DEF Moved, RoundsAreLeft, LimitReached
    <3>3. RoundsAreLeft'
      BY <1>2, <2>1, <3>2 DEF RoundsAreLeft
    <3> QED
      BY <2>1, <3>3 DEF TypeOK
  <2>2. CASE phase[r] = "llm" /\ to = "tool" /\ rounds' = [rounds EXCEPT ![r] = @ + 1]
    <3>1. rounds[r] < MaxRounds /\ rounds[r] \in 0..MaxRounds /\ MaxRounds \in Nat
      BY <2>2, TurnsAssumption DEF RoundsAreLeft, TypeOK
    <3> QED
      BY <1>2, <2>2, <3>1 DEF RoundsAreLeft, TypeOK
  <2> QED
    BY <2>1, <2>2 DEF Moved
<1>4. WorkersHoldTheLease'
  <2> SUFFICES ASSUME NEW q \in RunIds, AtWork(q)', AgentOf[q] \notin shared'
               PROVE  lease'[AgentOf[q]] = q
    BY DEF WorkersHoldTheLease
  <2>1. CASE q # r
    <3>1. AtWork(q) /\ lease[AgentOf[q]] = q
      BY <1>1, <1>2, <2>1 DEF AtWork, WorkersHoldTheLease
    <3> QED
      BY <2>1, <3>1, TurnsAssumption DEF Moved, SetLease, TypeOK
  <2>2. CASE q = r
    <3>1. to \in {"llm", "tool"}
      BY <1>2, <2>2 DEF AtWork
    <3>2. CASE SetLease(r, r)
      BY <2>2, <3>2, TurnsAssumption DEF SetLease, TypeOK
    <3>3. CASE lease' = lease /\ phase[r] = "sending"
      BY <1>1, <2>2, <3>3 DEF AtWork, WorkersHoldTheLease
    <3> QED
      BY <3>1, <3>2, <3>3 DEF Moved
  <2> QED
    BY <2>1, <2>2
<1> QED
  BY <1>1, <1>2, <1>3, <1>4 DEF TypeOK, Moved

-----------------------------------------------------------------------------
\* A turn joins an empty queue, or the end of one whose active turn stays.
JoinedQueue(s) ==
  LET a == AgentOf[s]
  IN  /\ \A b \in Agents \ {a} : queue'[b] = queue[b]
      /\ \/ /\ queue[a].active = None /\ queue[a].pending = <<>>
            /\ queue'[a] = [active |-> s, pending |-> <<>>]
         \/ /\ queue[a].active # None
            /\ queue'[a] = [active |-> queue[a].active, pending |-> Append(queue[a].pending, s)]

LEMMA JoinedProperties ==
  ASSUME TypeOK, QueuesAreSound, NEW s \in RunIds, Joined(s)
  PROVE  /\ JoinedQueue(s)
         /\ queue' \in [Agents -> [active : RunIds \cup {None}, pending : Seq(RunIds)]]
<1> DEFINE a == AgentOf[s]
           q == queue[a]
<1>1. /\ a \in Agents /\ q \in [active : RunIds \cup {None}, pending : Seq(RunIds)]
      /\ queue \in [Agents -> [active : RunIds \cup {None}, pending : Seq(RunIds)]]
  BY TurnsAssumption DEF TypeOK
<1>2. q = [active |-> q.active, pending |-> q.pending]
  BY <1>1
<1>3. CASE q.active = None
  <2>1. q.pending = <<>>
    BY <1>1, <1>3 DEF QueuesAreSound
  <2>2. queue' = [queue EXCEPT ![a] = [active |-> s, pending |-> <<>>]]
    BY <1>1, <1>2, <1>3, <2>1 DEF Joined
  <2>3. [active |-> s, pending |-> <<>>] \in [active : RunIds \cup {None}, pending : Seq(RunIds)]
    OBVIOUS
  <2> HIDE DEF a
  <2>4. queue'[a] = [active |-> s, pending |-> <<>>] /\ \A b \in Agents \ {a} : queue'[b] = queue[b]
    BY <1>1, <2>2
  <2>5. queue' \in [Agents -> [active : RunIds \cup {None}, pending : Seq(RunIds)]]
    BY <1>1, <2>2, <2>3
  <2> QED
    BY <1>3, <2>1, <2>4, <2>5 DEF JoinedQueue, a
<1>4. CASE q.active # None
  <2>1. queue' = [queue EXCEPT ![a] = [active |-> q.active, pending |-> Append(q.pending, s)]]
    BY <1>1, <1>2, <1>4 DEF Joined
  <2>2. Append(q.pending, s) \in Seq(RunIds)
    BY <1>1
  <2> DEFINE n == [active |-> q.active, pending |-> Append(q.pending, s)]
  <2>3. n \in [active : RunIds \cup {None}, pending : Seq(RunIds)]
    BY <1>1, <2>2
  <2> HIDE DEF a, n
  <2>4. queue'[a] = n /\ \A b \in Agents \ {a} : queue'[b] = queue[b]
    BY <1>1, <2>1 DEF n
  <2>5. queue' \in [Agents -> [active : RunIds \cup {None}, pending : Seq(RunIds)]]
    BY <1>1, <2>1, <2>3 DEF n
  <2> QED
    BY <1>4, <2>4, <2>5 DEF JoinedQueue, a, n
<1> QED
  BY <1>3, <1>4

\* It had not begun, so that the queues remain sound.
LEMMA JoinedQueuesAreSound ==
  ASSUME TypeOK, QueuesAreSound, NEW s \in RunIds, Joined(s), phase[s] = "none",
         phase'[s] = "queued",
         \A q \in RunIds : phase[q] \notin {"none", "tool"} => phase'[q] = phase[q],
         \A q \in RunIds : phase[q] = "tool" => phase'[q] \in {"tool", "sending"}
  PROVE  QueuesAreSound'
<1>1. JoinedQueue(s)
  BY JoinedProperties
<1> SUFFICES ASSUME NEW a \in Agents PROVE QueuesAreSound!(a)'
  BY DEF QueuesAreSound
<1>2. queue[a] \in [active : RunIds \cup {None}, pending : Seq(RunIds)]
  BY DEF TypeOK
<1>3. \A i \in DOMAIN queue[a].pending : queue[a].pending[i] \in RunIds
  BY <1>2
<1>4. /\ queue[a].active = None => queue[a].pending = <<>>
      /\ queue[a].active # None => /\ AgentOf[queue[a].active] = a /\ phase[queue[a].active] # "none"
                                   /\ phase'[queue[a].active] # "none"
      /\ \A i \in DOMAIN queue[a].pending : /\ phase'[queue[a].pending[i]] = "queued"
                                            /\ AgentOf[queue[a].pending[i]] = a
                                            /\ queue[a].pending[i] # queue[a].active
                                            /\ queue[a].pending[i] # s
      /\ \A i, j \in DOMAIN queue[a].pending : queue[a].pending[i] = queue[a].pending[j] => i = j
  BY <1>2, <1>3 DEF QueuesAreSound
<1>5. CASE a # AgentOf[s]
  BY <1>1, <1>4, <1>5 DEF JoinedQueue
<1>6. CASE a = AgentOf[s] /\ queue[a].active = None
  <2>1. queue'[a] = [active |-> s, pending |-> <<>>]
    BY <1>1, <1>6 DEF JoinedQueue
  <2> QED
    BY <1>6, <2>1, TurnsAssumption
<1>7. CASE a = AgentOf[s] /\ queue[a].active # None
  <2> DEFINE p == queue[a].pending
             pn == queue'[a].pending
  <2>1. queue'[a] = [active |-> queue[a].active, pending |-> Append(p, s)]
    BY <1>1, <1>7 DEF JoinedQueue
  <2>2. /\ DOMAIN pn = 1..(Len(p) + 1) /\ DOMAIN p = 1..Len(p) /\ Len(p) \in Nat
        /\ \A i \in 1..Len(p) : pn[i] = p[i]
        /\ pn[Len(p) + 1] = s
    BY <1>2, <2>1
  <2>3. s # queue[a].active
    BY <1>4, <1>7
  <2> HIDE DEF p, pn
  <2>4. \A i \in DOMAIN pn : i \in DOMAIN p \/ i = Len(p) + 1
    BY <2>2
  <2>5. \A i \in DOMAIN pn : phase'[pn[i]] = "queued" /\ AgentOf[pn[i]] = a /\ pn[i] # queue[a].active
    BY <1>4, <1>7, <2>2, <2>3, <2>4 DEF p
  <2>6. \A i, j \in DOMAIN pn : pn[i] = pn[j] => i = j
    BY <1>4, <2>2, <2>4 DEF p
  <2> QED
    BY <1>4, <1>7, <2>1, <2>5, <2>6 DEF pn
<1> QED
  BY <1>5, <1>6, <1>7

-----------------------------------------------------------------------------
\* A turn that nobody waits for, or that waits for nobody, is in no circle.
LEMMA CirclesGoRoundIt ==
  ASSUME CirclesNeedASharedLease, shared \subseteq shared', NEW r \in RunIds,
         \A p, q \in RunIds \ {r} : WaitsFor(p, q)' => WaitsFor(p, q),
         (\A p \in RunIds : ~WaitsFor(p, r)') \/ (\A q \in RunIds : ~WaitsFor(r, q)')
  PROVE  CirclesNeedASharedLease'
<1> SUFFICES ASSUME NEW turns \in SUBSET RunIds, Circular(turns)'
             PROVE  \E p \in turns : AgentOf[p] \in shared'
  BY DEF CirclesNeedASharedLease
<1> DEFINE others == turns \ {r}
<1>1. \A p \in others : \E q \in others : WaitsFor(p, q)'
  BY DEF Circular
<1>2. others # {}
  BY DEF Circular
<1>3. Circular(others)
  BY <1>1, <1>2 DEF Circular
<1> QED
  BY <1>3 DEF CirclesNeedASharedLease

\* Those in a queue wait for its active turn; one that joins it is the last.
LEMMA JoinedWaits ==
  ASSUME TypeOK, QueuesAreSound, NEW s \in RunIds, Joined(s), phase[s] = "none",
         NEW p \in RunIds \ {s}, NEW i \in DOMAIN queue'[AgentOf[p]].pending,
         queue'[AgentOf[p]].pending[i] = p
  PROVE  /\ queue'[AgentOf[p]].active = queue[AgentOf[p]].active
         /\ i \in DOMAIN queue[AgentOf[p]].pending /\ queue[AgentOf[p]].pending[i] = p
<1>1. JoinedQueue(s) /\ AgentOf[p] \in Agents
  BY JoinedProperties, TurnsAssumption
<1>2. queue[AgentOf[p]] \in [active : RunIds \cup {None}, pending : Seq(RunIds)]
  BY <1>1 DEF TypeOK
<1>3. CASE queue'[AgentOf[p]] = queue[AgentOf[p]]
  BY <1>3
<1>4. CASE queue'[AgentOf[p]] = [active |-> s, pending |-> <<>>]
  BY <1>4
<1>5. CASE queue'[AgentOf[p]] = [active |-> queue[AgentOf[p]].active,
                                 pending |-> Append(queue[AgentOf[p]].pending, s)]
  BY <1>2, <1>5
<1> QED
  BY <1>1, <1>3, <1>4, <1>5 DEF JoinedQueue

LEMMA JoinedKeepsActive ==
  ASSUME NEW s \in RunIds, JoinedQueue(s), NEW a \in Agents, queue[a].active # None
  PROVE  queue'[a].active = queue[a].active
<1>1. CASE a = AgentOf[s]
  <2>1. queue'[a] = [active |-> queue[a].active, pending |-> Append(queue[a].pending, s)]
    BY <1>1 DEF JoinedQueue
  <2> QED
    BY <2>1
<1>2. CASE a # AgentOf[s]
  BY <1>2 DEF JoinedQueue
<1> QED
  BY <1>1, <1>2

LEMMA EnqueueIsSound ==
  ASSUME TurnsAreSound, NEW r \in RunIds, enqueue(r)
  PROVE  TurnsAreSound'
<1> USE DEF TurnsAreSound
<1>1. /\ Joined(r) /\ phase[r] = "none" /\ phase' = [phase EXCEPT ![r] = "queued"]
      /\ answered' = answered /\ rounds' = rounds /\ callee' = callee
      /\ lease' = lease /\ shared' = shared
  BY DEF enqueue, Goes
<1>2. /\ phase'[r] = "queued" /\ \A q \in RunIds \ {r} : phase'[q] = phase[q]
      /\ phase' \in [RunIds -> {"none", "queued", "pending", "llm", "tool", "sending",
                                "suspended", "ended"}]
  BY <1>1 DEF TypeOK
<1>3. /\ JoinedQueue(r)
      /\ queue' \in [Agents -> [active : RunIds \cup {None}, pending : Seq(RunIds)]]
  BY <1>1, JoinedProperties
<1>4. QueuesAreSound'
  BY <1>1, <1>2, JoinedQueuesAreSound
<1>5. AnsweredHaveBegun' /\ CalleesAreKnown' /\ RoundsAreLeft' /\ WorkersHoldTheLease'
  BY <1>1, <1>2, TurnsAssumption
  DEF AnsweredHaveBegun, CalleesAreKnown, RoundsAreLeft, WorkersHoldTheLease, Begun, AtWork, TypeOK
<1>6. WorkersHoldTheQueue'
  <2> SUFFICES ASSUME NEW q \in RunIds, ~Chat(q), Begun(q)', q \notin answered
               PROVE  queue'[AgentOf[q]].active = q
    BY <1>1 DEF WorkersHoldTheQueue, Chat
  <2>1. Begun(q)
    BY <1>1, <1>2 DEF Begun
  <2>2. queue[AgentOf[q]].active = q /\ q # None /\ AgentOf[q] \in Agents
    BY <2>1, TurnsAssumption DEF WorkersHoldTheQueue
  <2> QED
    BY <1>3, <2>2, JoinedKeepsActive
<1>7. \A p, q \in RunIds \ {r} : WaitsFor(p, q)' => WaitsFor(p, q)
  BY <1>1, <1>2, JoinedWaits DEF WaitsFor
<1>8. \A p \in RunIds : ~WaitsFor(p, r)'
  <2> SUFFICES ASSUME NEW p \in RunIds, WaitsFor(p, r)' PROVE FALSE
    OBVIOUS
  <2>1. AgentOf[p] \in Agents /\ AgentOf[r] \in Agents
    BY TurnsAssumption
  <2>2. ~(phase'[p] = "sending" /\ callee'[p] = r)
    BY <1>1, <1>2, TurnsAssumption DEF CalleesAreKnown
  <2>3. queue[AgentOf[p]].active # r
    BY <1>1, <2>1, TurnsAssumption DEF QueuesAreSound
  <2>4. queue'[AgentOf[p]].pending # <<>> /\ queue'[AgentOf[p]].active = r
    BY <2>2 DEF WaitsFor
  <2> QED
    BY <1>3, <2>1, <2>3, <2>4 DEF JoinedQueue
<1>9. CirclesNeedASharedLease'
  BY <1>1, <1>7, <1>8, CirclesGoRoundIt
<1> QED
  BY <1>1, <1>2, <1>3, <1>4, <1>5, <1>6, <1>9 DEF TypeOK

\* The active turn of an idle agent is not in a circle, nor then is the one that joins.
LEMMA MeshSendIsSound ==
  ASSUME TurnsAreSound, NEW r \in RunIds, NEW s \in RunIds, meshSend(r, s)
  PROVE  TurnsAreSound'
<1> USE DEF TurnsAreSound
<1>1. /\ Joined(s) /\ phase[s] = "none" /\ phase[r] = "tool" /\ lease[AgentOf[s]] = None
      /\ phase' = [phase EXCEPT ![r] = "sending", ![s] = "queued"]
      /\ callee' = [callee EXCEPT ![r] = s]
      /\ answered' = answered /\ rounds' = rounds /\ lease' = lease /\ shared' = shared
  BY DEF meshSend, IdlePeer, IsRunning
<1>2. /\ phase'[s] = "queued" /\ phase'[r] = "sending" /\ r # s
      /\ \A q \in RunIds \ {r, s} : phase'[q] = phase[q]
      /\ callee'[r] = s /\ \A q \in RunIds \ {r} : callee'[q] = callee[q]
      /\ phase' \in [RunIds -> {"none", "queued", "pending", "llm", "tool", "sending",
                                "suspended", "ended"}]
      /\ callee' \in [RunIds -> RunIds \cup {None}]
  BY <1>1 DEF TypeOK
<1>3. /\ JoinedQueue(s)
      /\ queue' \in [Agents -> [active : RunIds \cup {None}, pending : Seq(RunIds)]]
  BY <1>1, JoinedProperties
<1>4. QueuesAreSound'
  BY <1>1, <1>2, JoinedQueuesAreSound
<1>5. AnsweredHaveBegun' /\ CalleesAreKnown' /\ RoundsAreLeft' /\ WorkersHoldTheLease'
  <2>1. AnsweredHaveBegun'
    BY <1>1, <1>2 DEF AnsweredHaveBegun, Begun, TypeOK
  <2>2. CalleesAreKnown'
    BY <1>1, <1>2 DEF CalleesAreKnown, TypeOK
  <2>3. RoundsAreLeft'
    BY <1>1, <1>2 DEF RoundsAreLeft
  <2>4. WorkersHoldTheLease'
    BY <1>1, <1>2 DEF WorkersHoldTheLease, AtWork
  <2> QED
    BY <2>1, <2>2, <2>3, <2>4
<1>6. WorkersHoldTheQueue'
  <2> SUFFICES ASSUME NEW q \in RunIds, ~Chat(q), Begun(q)', q \notin answered
               PROVE  queue'[AgentOf[q]].active = q
    BY <1>1 DEF WorkersHoldTheQueue, Chat
  <2>1. Begun(q)
    BY <1>1, <1>2 DEF Begun
  <2>2. queue[AgentOf[q]].active = q /\ q # None /\ AgentOf[q] \in Agents
    BY <2>1, TurnsAssumption DEF WorkersHoldTheQueue
  <2> QED
    BY <1>3, <2>2, JoinedKeepsActive
<1>7. \A p \in RunIds \ {r, s}, q \in RunIds : WaitsFor(p, q)' => WaitsFor(p, q)
  BY <1>1, <1>2, JoinedWaits DEF WaitsFor
<1>8. ASSUME NEW q \in RunIds, WaitsFor(r, q)' PROVE q = s
  <2>1. ~ \E i \in DOMAIN queue'[AgentOf[r]].pending : queue'[AgentOf[r]].pending[i] = r
    BY <1>2, <1>4, TurnsAssumption DEF QueuesAreSound
  <2> QED
    BY <1>2, <1>8, <2>1 DEF WaitsFor
<1>9. ASSUME NEW q \in RunIds, WaitsFor(s, q)', NEW p \in RunIds, WaitsFor(q, p)'
      PROVE  AgentOf[s] \in shared
  <2>1. queue'[AgentOf[s]].active = q /\ q # s /\ AgentOf[s] \in Agents
    BY <1>2, <1>4, <1>9, TurnsAssumption DEF WaitsFor, QueuesAreSound
  <2>2. AgentOf[q] = AgentOf[s]
    BY <1>4, <2>1, TurnsAssumption DEF QueuesAreSound
  <2>3. phase'[q] = "sending"
    BY <1>4, <1>9, <2>1, <2>2 DEF WaitsFor, QueuesAreSound
  <2>4. AtWork(q)
    BY <1>1, <1>2, <2>1, <2>3 DEF AtWork
  <2> QED
    BY <1>1, <2>2, <2>4, TurnsAssumption DEF WorkersHoldTheLease
<1>10. CirclesNeedASharedLease'
  <2> SUFFICES ASSUME NEW turns \in SUBSET RunIds, Circular(turns)',
                      \A p \in turns : AgentOf[p] \notin shared
               PROVE  FALSE
    BY <1>1 DEF CirclesNeedASharedLease
  <2>1. s \notin turns
    BY <1>9 DEF Circular
  <2>2. r \notin turns
    BY <1>8, <2>1 DEF Circular
  <2>3. Circular(turns)
    BY <1>7, <2>1, <2>2 DEF Circular
  <2> QED
    BY <2>3 DEF CirclesNeedASharedLease
<1> QED
  BY <1>1, <1>2, <1>3, <1>4, <1>5, <1>6, <1>10 DEF TypeOK

-----------------------------------------------------------------------------
\* When a task ends, the next turn waits for none: it is about to begin.
LEMMA TaskEndIsSound ==
  ASSUME TurnsAreSound, NEW r \in RunIds, TaskEnds(r)
  PROVE  TurnsAreSound'
<1> USE DEF TurnsAreSound
<1> DEFINE a == AgentOf[r]
           q == queue[a]
<1>1. /\ q.active = r /\ TaskEnded(r) /\ queue' = [queue EXCEPT ![a] = Drained(q)]
      /\ phase' = phase /\ rounds' = rounds /\ callee' = callee /\ answered' = answered
      /\ lease' = lease /\ shared' = shared
  BY DEF TaskEnds
<1>2. /\ a \in Agents /\ q.active \in RunIds \cup {None} /\ q.pending \in Seq(RunIds)
      /\ queue \in [Agents -> [active : RunIds \cup {None}, pending : Seq(RunIds)]]
  BY TurnsAssumption DEF TypeOK
<1>3. Drained(q) \in [active : RunIds \cup {None}, pending : Seq(RunIds)]
  BY <1>2 DEF Drained
<1> HIDE DEF a
<1>4. /\ queue'[a] = Drained(q) /\ \A b \in Agents \ {a} : queue'[b] = queue[b]
      /\ queue' \in [Agents -> [active : RunIds \cup {None}, pending : Seq(RunIds)]]
  BY <1>1, <1>2, <1>3
<1>5. ASSUME q.pending = <<>> PROVE QueuesAreSound' /\ CirclesNeedASharedLease'
  <2>1. queue'[a] = [active |-> None, pending |-> <<>>]
    BY <1>4, <1>5 DEF Drained
  <2>2. QueuesAreSound'
    BY <1>1, <1>4, <2>1 DEF QueuesAreSound
  <2>3. \A p, t \in RunIds : WaitsFor(p, t)' => WaitsFor(p, t)
    <3> SUFFICES ASSUME NEW p \in RunIds, NEW t \in RunIds, WaitsFor(p, t)' PROVE WaitsFor(p, t)
      OBVIOUS
    <3>1. AgentOf[p] \in Agents
      BY TurnsAssumption
    <3>2. CASE AgentOf[p] = a
      BY <1>1, <2>1, <3>2 DEF WaitsFor
    <3>3. CASE AgentOf[p] # a
      BY <1>1, <1>4, <3>1, <3>3 DEF WaitsFor
    <3> QED
      BY <3>2, <3>3
  <2> QED
    BY <1>1, <2>2, <2>3, CirclesAreOld
<1>6. ASSUME q.pending # <<>> PROVE QueuesAreSound' /\ CirclesNeedASharedLease'
  <2> DEFINE pn == Tail(q.pending)
  <2>0. PICK h \in RunIds : h = Head(q.pending)
    BY <1>2, <1>6
  <2>1. queue'[a] = [active |-> h, pending |-> pn]
    BY <1>4, <1>6, <2>0 DEF Drained
  <2>2. /\ DOMAIN q.pending = 1..Len(q.pending) /\ Len(q.pending) \in Nat \ {0}
        /\ h = q.pending[1] /\ 1 \in DOMAIN q.pending
        /\ DOMAIN pn = 1..(Len(q.pending) - 1)
        /\ \A i \in DOMAIN pn : i + 1 \in DOMAIN q.pending /\ pn[i] = q.pending[i + 1]
    BY <1>2, <1>6, <2>0
  <2>3. /\ \A i \in DOMAIN q.pending : phase[q.pending[i]] = "queued" /\ AgentOf[q.pending[i]] = a
        /\ \A i, j \in DOMAIN q.pending : q.pending[i] = q.pending[j] => i = j
    BY <1>2 DEF QueuesAreSound
  <2> HIDE DEF pn, q
  <2>4. phase[h] = "queued" /\ AgentOf[h] = a /\ h # None
    BY <2>2, <2>3, TurnsAssumption
  <2>5. \A i \in DOMAIN pn : /\ phase[pn[i]] = "queued" /\ AgentOf[pn[i]] = a /\ pn[i] # h
    <3> SUFFICES ASSUME NEW i \in DOMAIN pn
                 PROVE  phase[pn[i]] = "queued" /\ AgentOf[pn[i]] = a /\ pn[i] # h
      OBVIOUS
    <3>1. i + 1 \in DOMAIN q.pending /\ i + 1 # 1 /\ pn[i] = q.pending[i + 1]
      BY <2>2
    <3> QED
      BY <2>2, <2>3, <3>1
  <2>6. \A i, j \in DOMAIN pn : pn[i] = pn[j] => i = j
    <3> SUFFICES ASSUME NEW i \in DOMAIN pn, NEW j \in DOMAIN pn, pn[i] = pn[j] PROVE i = j
      OBVIOUS
    <3>1. /\ i + 1 \in DOMAIN q.pending /\ j + 1 \in DOMAIN q.pending
          /\ q.pending[i + 1] = q.pending[j + 1]
      BY <2>2
    <3>2. i + 1 = j + 1 /\ i \in Nat /\ j \in Nat
      BY <2>2, <2>3, <3>1
    <3> QED
      BY <3>2
  <2>7. QueuesAreSound'
    <3> SUFFICES ASSUME NEW b \in Agents PROVE QueuesAreSound!(b)'
      BY DEF QueuesAreSound
    <3>1. CASE b = a
      BY <1>1, <2>1, <2>4, <2>5, <2>6, <3>1
    <3>2. CASE b # a
      BY <1>1, <1>4, <3>2 DEF QueuesAreSound
    <3> QED
      BY <3>1, <3>2
  <2>8. \A t \in RunIds : ~WaitsFor(h, t)'
    <3>1. phase'[h] = "queued" /\ queue'[AgentOf[h]].pending = pn
      BY <1>1, <2>1, <2>4
    <3> QED
      BY <2>5, <3>1 DEF WaitsFor
  <2>9. \A p, t \in RunIds \ {h} : WaitsFor(p, t)' => WaitsFor(p, t)
    <3> SUFFICES ASSUME NEW p \in RunIds \ {h}, NEW t \in RunIds \ {h}, WaitsFor(p, t)'
                 PROVE  WaitsFor(p, t)
      OBVIOUS
    <3>1. AgentOf[p] \in Agents
      BY TurnsAssumption
    <3>2. CASE AgentOf[p] = a
      BY <1>1, <2>1, <3>2 DEF WaitsFor
    <3>3. CASE AgentOf[p] # a
      BY <1>1, <1>4, <3>1, <3>3 DEF WaitsFor
    <3> QED
      BY <3>2, <3>3
  <2>10. CirclesNeedASharedLease'
    BY <1>1, <2>8, <2>9, CirclesGoRoundIt
  <2> QED
    BY <2>7, <2>10
<1>7. AnsweredHaveBegun' /\ CalleesAreKnown' /\ RoundsAreLeft' /\ WorkersHoldTheLease'
  BY <1>1 DEF AnsweredHaveBegun, CalleesAreKnown, RoundsAreLeft, WorkersHoldTheLease, Begun, AtWork
<1>8. WorkersHoldTheQueue'
  <2> SUFFICES ASSUME NEW t \in RunIds, ~Chat(t), Begun(t)', t \notin answered
               PROVE  queue'[AgentOf[t]].active = t
    BY <1>1 DEF WorkersHoldTheQueue, Chat
  <2>1. queue[AgentOf[t]].active = t /\ AgentOf[t] \in Agents
    BY <1>1, TurnsAssumption DEF WorkersHoldTheQueue, Begun
  <2>2. AgentOf[t] # a
    BY <1>1, <2>1 DEF TaskEnded
  <2> QED
    BY <1>4, <2>1, <2>2
<1> QED
  BY <1>1, <1>4, <1>5, <1>6, <1>7, <1>8 DEF TypeOK

\* A cancelled turn waits for none, and those behind it for the same turn as before.
LEMMA CancelIsSound ==
  ASSUME TurnsAreSound, NEW r \in RunIds, cancelQueuedTurn(r)
  PROVE  TurnsAreSound'
<1> USE DEF TurnsAreSound
<1> DEFINE a == AgentOf[r]
           q == queue[a]
<1>1. /\ Chat(r) /\ phase[r] = "queued" /\ Goes(r, "ended")
      /\ rounds' = rounds /\ callee' = callee /\ lease' = lease /\ shared' = shared
      /\ \/ \E i \in DOMAIN q.pending :
              /\ q.pending[i] = r
              /\ queue' = [queue EXCEPT ![a] = [active |-> q.active,
                                                pending |-> Without(q.pending, i)]]
         \/ q.active = r /\ queue' = queue
  BY DEF cancelQueuedTurn
<1>2. /\ a \in Agents /\ q.active \in RunIds \cup {None} /\ q.pending \in Seq(RunIds)
      /\ queue \in [Agents -> [active : RunIds \cup {None}, pending : Seq(RunIds)]]
  BY TurnsAssumption DEF TypeOK
<1>3. /\ phase' = [phase EXCEPT ![r] = "ended"] /\ answered' = answered \cup {r}
      /\ phase'[r] = "ended" /\ \A p \in RunIds \ {r} : phase'[p] = phase[p]
      /\ phase' \in [RunIds -> {"none", "queued", "pending", "llm", "tool", "sending",
                                "suspended", "ended"}]
  BY <1>1 DEF Goes, TypeOK
<1>4. RoundsAreLeft' /\ WorkersHoldTheLease' /\ AnsweredHaveBegun' /\ CalleesAreKnown'
  <2>1. RoundsAreLeft'
    BY <1>1, <1>3 DEF RoundsAreLeft
  <2>2. WorkersHoldTheLease'
    BY <1>1, <1>3 DEF WorkersHoldTheLease, AtWork
  <2>3. AnsweredHaveBegun' /\ CalleesAreKnown'
    BY <1>1, <1>3 DEF AnsweredHaveBegun, CalleesAreKnown, Begun, TypeOK
  <2> QED
    BY <2>1, <2>2, <2>3
<1>5. CASE q.active = r /\ queue' = queue
  <2>1. QueuesAreSound' /\ WorkersHoldTheQueue' /\ CirclesNeedASharedLease'
    BY <1>1, <1>5, TurnMoves
  <2> QED
    BY <1>1, <1>3, <1>4, <1>5, <2>1 DEF TypeOK
<1>6. ASSUME NEW i \in DOMAIN q.pending, q.pending[i] = r,
             queue' = [queue EXCEPT ![a] = [active |-> q.active,
                                            pending |-> Without(q.pending, i)]]
      PROVE  TurnsAreSound'
  <2> DEFINE pn == Without(q.pending, i)
  <2>1. /\ pn \in Seq(RunIds) /\ DOMAIN pn = 1..(Len(q.pending) - 1)
        /\ DOMAIN q.pending = 1..Len(q.pending) /\ Len(q.pending) \in Nat
        /\ \A j \in DOMAIN pn : pn[j] = IF j < i THEN q.pending[j] ELSE q.pending[j + 1]
    <3> DEFINE s == q.pending
    <3>1. s \in Seq(RunIds) /\ i \in DOMAIN s
      BY <1>2, <1>6
    <3> HIDE DEF s
    <3>2. /\ Without(s, i) \in Seq(RunIds) /\ Len(Without(s, i)) = Len(s) - 1
          /\ \A j \in 1..(Len(s) - 1) : Without(s, i)[j] = IF j < i THEN s[j] ELSE s[j + 1]
      BY <3>1, WithoutProperties
    <3>3. /\ DOMAIN Without(s, i) = 1..(Len(s) - 1)
          /\ DOMAIN s = 1..Len(s) /\ Len(s) \in Nat
      BY <3>1, <3>2
    <3> QED
      BY <3>2, <3>3 DEF s
  <2>2. /\ \A j \in DOMAIN q.pending : /\ phase[q.pending[j]] = "queued"
                                       /\ AgentOf[q.pending[j]] = a
                                       /\ q.pending[j] # q.active /\ q.pending[j] \in RunIds
        /\ \A j, k \in DOMAIN q.pending : q.pending[j] = q.pending[k] => j = k
        /\ q.active # None
        /\ AgentOf[q.active] = a /\ phase[q.active] # "none"
    BY <1>2, <1>6 DEF QueuesAreSound
  <2>3. [active |-> q.active, pending |-> pn] \in [active : RunIds \cup {None}, pending : Seq(RunIds)]
    BY <1>2, <2>1
  <2> HIDE DEF a, pn
  <2>4. /\ queue'[a] = [active |-> q.active, pending |-> pn]
        /\ \A b \in Agents \ {a} : queue'[b] = queue[b]
        /\ queue' \in [Agents -> [active : RunIds \cup {None}, pending : Seq(RunIds)]]
    BY <1>2, <1>6, <2>3 DEF pn
  <2> HIDE DEF q
  <2>5. ASSUME NEW j \in DOMAIN pn
        PROVE  \E k \in DOMAIN q.pending \ {i} : /\ pn[j] = q.pending[k]
                                                 /\ k = (IF j < i THEN j ELSE j + 1)
    BY <1>6, <2>1
  <2>6. \A j \in DOMAIN pn : /\ phase[pn[j]] = "queued" /\ AgentOf[pn[j]] = a /\ pn[j] # q.active
                             /\ pn[j] # r /\ pn[j] \in RunIds
    BY <1>6, <2>2, <2>5
  <2>7. \A j, k \in DOMAIN pn : pn[j] = pn[k] => j = k
    <3> SUFFICES ASSUME NEW j \in DOMAIN pn, NEW k \in DOMAIN pn, pn[j] = pn[k] PROVE j = k
      OBVIOUS
    <3>1. (IF j < i THEN j ELSE j + 1) = (IF k < i THEN k ELSE k + 1)
      BY <2>2, <2>5
    <3> QED
      BY <1>6, <2>1, <3>1
  <2>8. QueuesAreSound'
    <3> SUFFICES ASSUME NEW b \in Agents PROVE QueuesAreSound!(b)'
      BY DEF QueuesAreSound
    <3>1. CASE b = a
      BY <1>2, <1>3, <2>2, <2>4, <2>6, <2>7, <3>1
    <3>2. CASE b # a
      <4>1. queue[b] \in [active : RunIds \cup {None}, pending : Seq(RunIds)]
        BY DEF TypeOK
      <4>2. \A j \in DOMAIN queue[b].pending : queue[b].pending[j] # r /\ queue[b].pending[j] \in RunIds
        BY <3>2, <4>1 DEF QueuesAreSound, a
      <4> QED
        BY <1>3, <2>4, <3>2, <4>1, <4>2 DEF QueuesAreSound
    <3> QED
      BY <3>1, <3>2
  <2>9. ASSUME NEW b \in Agents PROVE queue'[b].active = queue[b].active
    <3>1. CASE b = a
      BY <2>4, <3>1 DEF q
    <3> QED
      BY <2>4, <3>1
  <2>10. WorkersHoldTheQueue'
    BY <1>1, <1>3, <2>9, TurnsAssumption DEF WorkersHoldTheQueue, Begun, Chat
  <2>11. \A p, t \in RunIds : WaitsFor(p, t)' => WaitsFor(p, t)
    <3> SUFFICES ASSUME NEW p \in RunIds, NEW t \in RunIds, WaitsFor(p, t)' PROVE WaitsFor(p, t)
      OBVIOUS
    <3>1. AgentOf[p] \in Agents
      BY TurnsAssumption
    <3>2. CASE phase'[p] = "sending" /\ callee'[p] = t /\ t \notin answered'
      BY <1>1, <1>3, <3>2 DEF WaitsFor
    <3>3. CASE /\ queue'[AgentOf[p]].active = t
               /\ \E j \in DOMAIN queue'[AgentOf[p]].pending : queue'[AgentOf[p]].pending[j] = p
      <4>1. CASE AgentOf[p] = a
        <5>1. PICK j \in DOMAIN pn : pn[j] = p
          BY <2>4, <3>3, <4>1
        <5> QED
          BY <2>5, <2>9, <3>1, <3>3, <4>1, <5>1 DEF WaitsFor, q
      <4>2. CASE AgentOf[p] # a
        BY <2>4, <3>1, <3>3, <4>2 DEF WaitsFor
      <4> QED
        BY <4>1, <4>2
    <3> QED
      BY <3>2, <3>3 DEF WaitsFor
  <2> QED
    BY <1>1, <1>3, <1>4, <2>4, <2>8, <2>10, <2>11, CirclesAreOld DEF TypeOK
<1> QED
  BY <1>1, <1>5, <1>6

-----------------------------------------------------------------------------
LEMMA InitIsSound ==
  ASSUME Init
  PROVE  TurnsAreSound
<1>1. TypeOK
  BY TurnsAssumption DEF Init, TypeOK
<1>2. QueuesAreSound /\ AnsweredHaveBegun /\ CalleesAreKnown
  BY DEF Init, QueuesAreSound, AnsweredHaveBegun, CalleesAreKnown
<1>3. WorkersHoldTheQueue /\ RoundsAreLeft /\ WorkersHoldTheLease
  BY TurnsAssumption DEF Init, WorkersHoldTheQueue, RoundsAreLeft, WorkersHoldTheLease, Begun, AtWork
<1>4. \A p, q \in RunIds : ~WaitsFor(p, q)
  BY TurnsAssumption DEF Init, WaitsFor
<1>5. CirclesNeedASharedLease
  BY <1>4 DEF CirclesNeedASharedLease, Circular
<1> QED
  BY <1>1, <1>2, <1>3, <1>5 DEF TurnsAreSound

LEMMA StutteringIsSound ==
  ASSUME TurnsAreSound, UNCHANGED vars
  PROVE  TurnsAreSound'
<1> USE DEF TurnsAreSound, vars
<1>1. TypeOK' /\ AnsweredHaveBegun' /\ CalleesAreKnown'
  BY DEF TypeOK, AnsweredHaveBegun, CalleesAreKnown, Begun
<1>2. QueuesAreSound'
  BY DEF QueuesAreSound
<1>3. WorkersHoldTheQueue' /\ RoundsAreLeft' /\ WorkersHoldTheLease'
  BY DEF WorkersHoldTheQueue, RoundsAreLeft, WorkersHoldTheLease, Begun, AtWork
<1>4. \A p, q \in RunIds : WaitsFor(p, q)' => WaitsFor(p, q)
  BY DEF WaitsFor
<1> QED
  BY <1>1, <1>2, <1>3, <1>4, CirclesAreOld

LEMMA NextIsSound ==
  ASSUME TurnsAreSound, [Next]_vars
  PROVE  TurnsAreSound'
<1>1. CASE UNCHANGED vars
  BY <1>1, StutteringIsSound
<1>2. ASSUME NEW r \in RunIds, enqueue(r) PROVE TurnsAreSound'
  BY <1>2, EnqueueIsSound
<1>3. ASSUME NEW r \in RunIds, NEW s \in RunIds, meshSend(r, s) PROVE TurnsAreSound'
  BY <1>3, MeshSendIsSound
<1>4. ASSUME NEW r \in RunIds, TaskEnds(r) PROVE TurnsAreSound'
  BY <1>4, TaskEndIsSound
<1>5. ASSUME NEW r \in RunIds, cancelQueuedTurn(r) PROVE TurnsAreSound'
  BY <1>5, CancelIsSound
<1>6. ASSUME NEW r \in RunIds,
             \/ startTurn(r) \/ TurnGoesOn(r) \/ resumeTurn(r)
             \/ abortTurn(r) \/ forceTimeoutRun(r) \/ cancelReadyRun(r)
      PROVE  TurnsAreSound'
  <2>1. PICK to \in {"pending", "llm", "tool", "suspended", "ended"} : Moved(r, to)
    BY <1>6, StepsMoveTurns
  <2> QED
    BY <2>1, TurnStepIsSound
<1> QED
  BY <1>1, <1>2, <1>3, <1>4, <1>5, <1>6 DEF Next, QueueGoesOn

\* The queues of gateway/agent-queue.ts and the leases of agent/runner.ts are as the
\* steps of the turns need them, whatever turns come.
THEOREM TurnsStaySound == Spec => []TurnsAreSound
<1>1. Init => TurnsAreSound
  BY InitIsSound
<1>2. TurnsAreSound /\ [Next]_vars => TurnsAreSound'
  BY NextIsSound
<1> QED
  BY <1>1, <1>2, PTL DEF Spec

\* Type correctness; a turn makes no more rounds of tool calls than maxToolRounds
\* (agent/runner.ts).
THEOREM TurnsTypeCorrect == Spec => []TypeOK
<1>1. TurnsAreSound => TypeOK
  BY DEF TurnsAreSound
<1> QED
  BY <1>1, TurnsStaySound, PTL

\* mesh_send's refusal of a busy agent (agent/tools/mesh-tools.ts:452) keeps turns from
\* waiting for one another in a circle, except through an agent whose lease was shared.
THEOREM CirclesAreThroughSharedLeases == Spec => []CirclesNeedASharedLease
<1>1. TurnsAreSound => CirclesNeedASharedLease
  BY DEF TurnsAreSound
<1> QED
  BY <1>1, TurnsStaySound, PTL

-----------------------------------------------------------------------------
\* The line of a queue that is not idle: its active turn, then those that wait.
LEMMA LineProperties ==
  ASSUME NEW h \in RunIds, NEW p \in Seq(RunIds)
  PROVE  /\ <<h>> \o p \in Seq(RunIds) /\ <<h>> \o p # <<>>
         /\ Len(<<h>> \o p) = Len(p) + 1
         /\ Head(<<h>> \o p) = h /\ Tail(<<h>> \o p) = p
         /\ \A i \in 1..(Len(p) + 1) : (<<h>> \o p)[i] = IF i = 1 THEN h ELSE p[i - 1]
<1> DEFINE l == <<h>> \o p
<1>1. /\ <<h>> \in Seq(RunIds) /\ Len(<<h>>) = 1 /\ <<h>>[1] = h
      /\ Len(p) \in Nat
  OBVIOUS
<1>2. /\ l \in Seq(RunIds) /\ Len(l) = Len(p) + 1
      /\ \A i \in 1..(Len(p) + 1) : l[i] = IF i = 1 THEN h ELSE p[i - 1]
  BY <1>1, ConcatProperties
<1> HIDE DEF l
<1>3. l # <<>> /\ Head(l) = h
  BY <1>1, <1>2
<1>4. Tail(l) = p
  <2>1. /\ Tail(l) \in Seq(RunIds) /\ Len(Tail(l)) = Len(p)
        /\ \A i \in 1..Len(p) : Tail(l)[i] = l[i + 1]
    BY <1>1, <1>2, <1>3, HeadTailProperties
  <2>2. \A i \in 1..Len(p) : Tail(l)[i] = p[i]
    BY <1>1, <1>2, <2>1
  <2> QED
    BY <2>1, <2>2, SeqEqual
<1> QED
  BY <1>2, <1>3, <1>4 DEF l

LEMMA LineOfAppend ==
  ASSUME NEW h \in RunIds, NEW p \in Seq(RunIds), NEW s \in RunIds
  PROVE  <<h>> \o Append(p, s) = Append(<<h>> \o p, s)
<1> DEFINE l == <<h>> \o p
           m == <<h>> \o Append(p, s)
<1>1. /\ l \in Seq(RunIds) /\ Len(l) = Len(p) + 1 /\ Len(p) \in Nat
      /\ \A i \in 1..(Len(p) + 1) : l[i] = IF i = 1 THEN h ELSE p[i - 1]
  BY LineProperties
<1>2. Append(p, s) \in Seq(RunIds) /\ Len(Append(p, s)) = Len(p) + 1
  OBVIOUS
<1>3. /\ m \in Seq(RunIds) /\ Len(m) = Len(p) + 2
      /\ \A i \in 1..(Len(p) + 2) : m[i] = IF i = 1 THEN h ELSE Append(p, s)[i - 1]
  <2>1. /\ m \in Seq(RunIds) /\ Len(m) = Len(Append(p, s)) + 1
        /\ \A i \in 1..(Len(Append(p, s)) + 1) : m[i] = IF i = 1 THEN h ELSE Append(p, s)[i - 1]
    BY <1>2, LineProperties
  <2> QED
    BY <1>1, <1>2, <2>1
<1> HIDE DEF l, m
<1>4. Append(l, s) \in Seq(RunIds) /\ Len(Append(l, s)) = Len(p) + 2
  BY <1>1
<1>5. \A i \in 1..(Len(p) + 2) : m[i] = Append(l, s)[i]
  BY <1>1, <1>3
<1>6. m = Append(l, s)
  BY <1>3, <1>4, <1>5, SeqEqual
<1> QED
  BY <1>6 DEF l, m

LEMMA LineOfWithout ==
  ASSUME NEW h \in RunIds, NEW p \in Seq(RunIds), NEW i \in DOMAIN p
  PROVE  <<h>> \o Without(p, i) = Without(<<h>> \o p, i + 1)
<1> DEFINE l == <<h>> \o p
           w == Without(p, i)
           m == <<h>> \o w
<1>1. /\ l \in Seq(RunIds) /\ Len(l) = Len(p) + 1 /\ Len(p) \in Nat
      /\ \A j \in 1..(Len(p) + 1) : l[j] = IF j = 1 THEN h ELSE p[j - 1]
  BY LineProperties
<1>2. /\ i \in 1..Len(p) /\ DOMAIN p = 1..Len(p)
      /\ DOMAIN l = 1..(Len(p) + 1)
  BY <1>1
<1>3. /\ w \in Seq(RunIds) /\ Len(w) = Len(p) - 1
      /\ \A j \in 1..(Len(p) - 1) : w[j] = IF j < i THEN p[j] ELSE p[j + 1]
  BY WithoutProperties
<1> HIDE DEF l, w
<1>4. /\ m \in Seq(RunIds) /\ Len(m) = Len(p)
      /\ \A j \in 1..Len(p) : m[j] = IF j = 1 THEN h ELSE w[j - 1]
  <2>1. /\ m \in Seq(RunIds) /\ Len(m) = Len(w) + 1
        /\ \A j \in 1..(Len(w) + 1) : m[j] = IF j = 1 THEN h ELSE w[j - 1]
    BY <1>3, LineProperties
  <2> QED
    BY <1>1, <1>3, <2>1
<1> HIDE DEF m
<1>5. /\ Without(l, i + 1) \in Seq(RunIds) /\ Len(Without(l, i + 1)) = Len(p)
      /\ \A j \in 1..Len(p) : Without(l, i + 1)[j] = IF j < i + 1 THEN l[j] ELSE l[j + 1]
  <2>1. i + 1 \in DOMAIN l
    BY <1>2
  <2>2. /\ Without(l, i + 1) \in Seq(RunIds) /\ Len(Without(l, i + 1)) = Len(l) - 1
        /\ \A j \in 1..(Len(l) - 1) : Without(l, i + 1)[j] = IF j < i + 1 THEN l[j] ELSE l[j + 1]
    BY <1>1, <2>1, WithoutProperties
  <2> QED
    BY <1>1, <2>2
<1>6. \A j \in 1..Len(p) : m[j] = Without(l, i + 1)[j]
  <2> SUFFICES ASSUME NEW j \in 1..Len(p) PROVE m[j] = Without(l, i + 1)[j]
    OBVIOUS
  <2>1. CASE j = 1
    BY <1>1, <1>2, <1>4, <1>5, <2>1
  <2>2. CASE j # 1
    <3>1. m[j] = w[j - 1] /\ j - 1 \in 1..(Len(p) - 1)
      BY <1>1, <1>4, <2>2
    <3>2. w[j - 1] = IF j - 1 < i THEN p[j - 1] ELSE p[j]
      BY <1>1, <1>3, <3>1
    <3>3. Without(l, i + 1)[j] = IF j < i + 1 THEN p[j - 1] ELSE p[j]
      <4>1. j \in 1..(Len(p) + 1) /\ j + 1 \in 1..(Len(p) + 1) /\ j + 1 # 1
        BY <1>1
      <4>2. l[j] = p[j - 1]
        BY <1>1, <2>2, <4>1
      <4>3. l[j + 1] = p[(j + 1) - 1] /\ (j + 1) - 1 = j
        BY <1>1, <4>1
      <4> QED
        BY <1>5, <4>2, <4>3
    <3>4. CASE j - 1 < i
      <4>1. j < i + 1
        BY <1>2, <3>4
      <4> QED
        BY <3>1, <3>2, <3>3, <3>4, <4>1
    <3>5. CASE ~(j - 1 < i)
      <4>1. ~(j < i + 1)
        BY <1>2, <3>5
      <4> QED
        BY <3>1, <3>2, <3>3, <3>5, <4>1
    <3> QED
      BY <3>4, <3>5
  <2> QED
    BY <2>1, <2>2
<1>7. m = Without(l, i + 1)
  BY <1>4, <1>5, <1>6, SeqEqual
<1> QED
  BY <1>7 DEF l, m, w

-----------------------------------------------------------------------------
\* How a step changes the stage of a turn.
LEMMA StageOfTurn ==
  ASSUME TurnsAreSound, NEW r \in RunIds
  PROVE  /\ phase[r] = "none" <=> Stage(r) = "out"
         /\ phase[r] = "queued" <=> Stage(r) = "waiting"
         /\ Begun(r) /\ r \in answered <=> Stage(r) = "stopped"
         /\ Begun(r) /\ r \notin answered <=> Stage(r) = "working"
         /\ Stages[r] = Stage(r)
BY DEF Stage, Stages, Begun

LEMMA StagesChange ==
  ASSUME NEW r \in RunIds, \A q \in RunIds \ {r} : Stage(q)' = Stage(q)
  PROVE  Stages' = [Stages EXCEPT ![r] = Stage(r)']
BY DEF Stages

\* The active turn of an agent is at the head of its line.
LEMMA ActiveIsAtHead ==
  ASSUME TurnsAreSound, NEW r \in RunIds, queue[AgentOf[r]].active = r
  PROVE  /\ TL!AtHead(r)
         /\ Lines[AgentOf[r]] = <<r>> \o queue[AgentOf[r]].pending
         /\ Tail(Lines[AgentOf[r]]) = queue[AgentOf[r]].pending
<1> DEFINE p == queue[AgentOf[r]].pending
<1>1. AgentOf[r] \in Agents /\ p \in Seq(RunIds) /\ r # None
  BY TurnsAssumption DEF TurnsAreSound, TypeOK
<1>2. Lines[AgentOf[r]] = <<r>> \o p
  BY <1>1 DEF Lines, Line
<1> HIDE DEF p
<1>3. Lines[AgentOf[r]] # <<>> /\ Head(Lines[AgentOf[r]]) = r /\ Tail(Lines[AgentOf[r]]) = p
  BY <1>1, <1>2, LineProperties
<1> QED
  BY <1>2, <1>3 DEF TL!AtHead, p

\* Only the active turn can be one that has the agent for itself.
LEMMA ActiveIsAlone ==
  ASSUME TurnsAreSound, NEW r \in RunIds, queue[AgentOf[r]].active = r, phase[r] = "queued"
  PROVE  TL!Alone(r)
<1> SUFFICES ASSUME NEW q \in RunIds, ~Chat(q), AgentOf[q] = AgentOf[r], Stages[q] = "working"
             PROVE  FALSE
  BY DEF TL!Alone, Brief
<1>1. Begun(q) /\ q \notin answered
  BY StageOfTurn
<1>2. q = r
  BY <1>1 DEF TurnsAreSound, WorkersHoldTheQueue
<1> QED
  BY <1>1, <1>2 DEF Begun

LEMMA TurnStepMaps ==
  ASSUME TurnsAreSound, NEW r \in RunIds,
         NEW to \in {"pending", "llm", "tool", "suspended", "ended"}, Moved(r, to)
  PROVE  [TL!Next]_(TL!vars)
<1>1. TurnsAreSound'
  BY TurnStepIsSound
<1>2. /\ phase'[r] = to /\ \A q \in RunIds \ {r} : phase'[q] = phase[q]
      /\ answered' = IF to \in {"suspended", "ended"} THEN answered \cup {r} ELSE answered
      /\ queue' = queue
      /\ Begun(r) \/ (phase[r] = "queued" /\ queue[AgentOf[r]].active = r)
  BY DEF Moved, Goes, TurnsAreSound, TypeOK
<1>3. Lines' = Lines
  BY <1>2 DEF Lines, Line
<1>4. \A q \in RunIds \ {r} : Stage(q)' = Stage(q)
  BY <1>2 DEF Stage
<1>5. Stages' = [Stages EXCEPT ![r] = Stage(r)']
  BY <1>4, StagesChange
<1>6. Stage(r)' = IF r \in answered \/ to \in {"suspended", "ended"} THEN "stopped" ELSE "working"
  BY <1>2 DEF Stage
<1>7. Stages \in [RunIds -> {"out", "waiting", "working", "stopped"}]
  BY DEF Stages, Stage
<1>8. CASE Begun(r)
  <2>1. Stages[r] = IF r \in answered THEN "stopped" ELSE "working"
    BY <1>8, StageOfTurn
  <2>2. CASE Stage(r)' = Stages[r]
    <3>1. Stages' = Stages
      BY <1>5, <1>7, <2>2
    <3> QED
      BY <1>3, <3>1 DEF TL!vars
  <2>3. CASE Stage(r)' # Stages[r]
    <3>1. TL!Stop(r)
      BY <1>3, <1>5, <1>6, <2>1, <2>3 DEF TL!Stop
    <3> QED
      BY <3>1 DEF TL!Next
  <2> QED
    BY <2>2, <2>3
<1>9. CASE phase[r] = "queued" /\ queue[AgentOf[r]].active = r
  <2>1. Stages[r] = "waiting"
    BY <1>9, StageOfTurn
  <2>2. TL!AtHead(r) /\ TL!Alone(r)
    BY <1>9, ActiveIsAtHead, ActiveIsAlone
  <2>3. TL!Begin(r)
    BY <1>3, <1>5, <1>6, <2>1, <2>2 DEF TL!Begin
  <2> QED
    BY <2>3 DEF TL!Next
<1> QED
  BY <1>2, <1>8, <1>9

\* A turn that joins a queue joins the line.
LEMMA JoiningMaps ==
  ASSUME TurnsAreSound, NEW s \in RunIds, JoinedQueue(s), phase[s] = "none",
         phase'[s] = "queued", \A q \in RunIds \ {s} : Stage(q)' = Stage(q)
  PROVE  TL!Join(s)
<1> DEFINE a == AgentOf[s]
           q == queue[a]
<1>1. a \in Agents /\ q.active \in RunIds \cup {None} /\ q.pending \in Seq(RunIds)
  BY TurnsAssumption DEF TurnsAreSound, TypeOK
<1>2. \A b \in Agents \ {a} : Lines'[b] = Lines[b]
  BY DEF JoinedQueue, Lines, Line
<1>3. Lines'[a] = Append(Lines[a], s)
  <2>1. CASE q.active = None
    <3>1. queue'[a] = [active |-> s, pending |-> <<>>]
      BY <2>1 DEF JoinedQueue
    <3>2. Lines'[a] = <<s>> \o <<>>
      <4>1. Lines'[a] = Line([active |-> s, pending |-> <<>>])
        BY <1>1, <3>1 DEF Lines
      <4> QED
        BY <4>1, TurnsAssumption DEF Line
    <3>3. Lines[a] = <<>>
      BY <1>1, <2>1 DEF Lines, Line
    <3> QED
      BY <3>2, <3>3
  <2>2. CASE q.active # None
    <3>1. queue'[a] = [active |-> q.active, pending |-> Append(q.pending, s)]
      BY <2>2 DEF JoinedQueue
    <3>2. Lines'[a] = <<q.active>> \o Append(q.pending, s)
      <4>1. Lines'[a] = Line([active |-> q.active, pending |-> Append(q.pending, s)])
        BY <1>1, <3>1 DEF Lines
      <4> QED
        BY <2>2, <4>1 DEF Line
    <3>3. Lines[a] = <<q.active>> \o q.pending
      BY <1>1, <2>2 DEF Lines, Line
    <3>4. q.active \in RunIds
      BY <1>1, <2>2
    <3> HIDE DEF a, q
    <3> QED
      BY <1>1, <3>2, <3>3, <3>4, LineOfAppend
  <2> QED
    BY <2>1, <2>2
<1> HIDE DEF a
<1>4. Lines' = [Lines EXCEPT ![a] = Append(Lines[a], s)]
  <2>1. DOMAIN Lines = Agents /\ DOMAIN Lines' = Agents
    BY DEF Lines
  <2>2. Lines = [b \in Agents |-> Lines[b]] /\ Lines' = [b \in Agents |-> Lines'[b]]
    BY DEF Lines
  <2> QED
    BY <1>1, <1>2, <1>3, <2>1, <2>2
<1>5. Stages[s] = "out" /\ Stage(s)' = "waiting"
  BY StageOfTurn DEF Stage
<1>6. Stages' = [Stages EXCEPT ![s] = "waiting"]
  BY <1>5, StagesChange
<1> QED
  BY <1>4, <1>5, <1>6 DEF TL!Join, a

\* The lines when only that of agent a has changed.
LEMMA LinesChange ==
  ASSUME NEW a \in Agents, \A b \in Agents \ {a} : queue'[b] = queue[b]
  PROVE  Lines' = [Lines EXCEPT ![a] = Line(queue'[a])]
<1>1. /\ Lines = [b \in Agents |-> Lines[b]] /\ Lines' = [b \in Agents |-> Lines'[b]]
  BY DEF Lines
<1>2. Lines'[a] = Line(queue'[a]) /\ \A b \in Agents \ {a} : Lines'[b] = Lines[b]
  BY DEF Lines, Line
<1> QED
  BY <1>1, <1>2

\* A task that ends leaves the line at its head.
LEMMA TaskEndMaps ==
  ASSUME TurnsAreSound, NEW r \in RunIds, TaskEnds(r)
  PROVE  TL!Leave(r)
<1> DEFINE a == AgentOf[r]
           q == queue[a]
<1>1. /\ q.active = r /\ TaskEnded(r) /\ queue' = [queue EXCEPT ![a] = Drained(q)]
      /\ phase' = phase /\ answered' = answered
  BY DEF TaskEnds
<1>2. /\ a \in Agents /\ q.active \in RunIds \cup {None} /\ q.pending \in Seq(RunIds)
      /\ queue \in [Agents -> [active : RunIds \cup {None}, pending : Seq(RunIds)]]
  BY TurnsAssumption DEF TurnsAreSound, TypeOK
<1>3. Begun(r) /\ (r \in answered \/ Chat(r))
  BY <1>1, <1>2, TurnsAssumption
  DEF TaskEnded, Begun, TurnsAreSound, AnsweredHaveBegun, QueuesAreSound
<1>4. Stages[r] = "stopped" \/ (r \in Brief /\ Stages[r] = "working")
  BY <1>3, StageOfTurn DEF Brief
<1>5. TL!AtHead(r) /\ Tail(Lines[a]) = q.pending
  BY <1>1, ActiveIsAtHead
<1>6. Line(Drained(q)) = q.pending
  <2>1. CASE q.pending = <<>>
    BY <2>1 DEF Line, Drained
  <2>2. CASE q.pending # <<>>
    <3> DEFINE p == q.pending
               h == Head(p)
    <3>1. Drained(q) = [active |-> h, pending |-> Tail(p)] /\ h \in RunIds /\ h # None
      BY <1>2, <2>2, TurnsAssumption DEF Drained
    <3>2. p \in Seq(RunIds) /\ p # <<>>
      BY <1>2, <2>2
    <3> HIDE DEF p
    <3>3. Tail(p) \in Seq(RunIds)
      BY <3>2
    <3>4. <<h>> \o Tail(p) = p
      <4>1. /\ <<h>> \o Tail(p) \in Seq(RunIds) /\ Len(<<h>> \o Tail(p)) = Len(Tail(p)) + 1
            /\ \A i \in 1..(Len(Tail(p)) + 1) :
                 (<<h>> \o Tail(p))[i] = IF i = 1 THEN h ELSE Tail(p)[i - 1]
        BY <3>1, <3>3, LineProperties
      <4>2. /\ Len(p) \in Nat \ {0} /\ Len(Tail(p)) = Len(p) - 1 /\ h = p[1]
            /\ \A i \in 1..(Len(p) - 1) : Tail(p)[i] = p[i + 1]
        BY <3>2
      <4> DEFINE l == <<h>> \o Tail(p)
      <4> HIDE DEF l
      <4>3. l \in Seq(RunIds) /\ Len(l) = Len(p) /\ \A i \in 1..Len(p) : l[i] = p[i]
        <5>1. l \in Seq(RunIds) /\ Len(l) = Len(p)
          BY <4>1, <4>2 DEF l
        <5>2. ASSUME NEW i \in 1..Len(p) PROVE l[i] = p[i]
          <6>1. l[i] = IF i = 1 THEN h ELSE Tail(p)[i - 1]
            BY <4>1, <4>2 DEF l
          <6>2. i # 1 => Tail(p)[i - 1] = p[i]
            BY <4>2
          <6> QED
            BY <4>2, <6>1, <6>2
        <5> QED
          BY <5>1, <5>2
      <4>4. l = p
        BY <3>2, <4>3, SeqEqual
      <4> QED
        BY <4>4 DEF l
    <3>5. Line(Drained(q)) = <<h>> \o Tail(p)
      BY <3>1 DEF Line
    <3> QED
      BY <3>4, <3>5 DEF p
  <2> QED
    BY <2>1, <2>2
<1>7. Lines' = [Lines EXCEPT ![a] = Tail(Lines[a])]
  <2>1. queue'[a] = Drained(q) /\ \A b \in Agents \ {a} : queue'[b] = queue[b]
    BY <1>1, <1>2
  <2> HIDE DEF a, q
  <2> QED
    BY <1>2, <1>5, <1>6, <2>1, LinesChange
<1>8. Stages' = Stages
  BY <1>1 DEF Stages, Stage
<1> QED
  BY <1>4, <1>5, <1>7, <1>8 DEF TL!Leave

\* A cancelled turn gives up its place, or is not begun at all.
LEMMA CancelMaps ==
  ASSUME TurnsAreSound, NEW r \in RunIds, cancelQueuedTurn(r)
  PROVE  TL!GiveUp(r) \/ TL!Begin(r)
<1> DEFINE a == AgentOf[r]
           q == queue[a]
<1>1. /\ Chat(r) /\ phase[r] = "queued" /\ Goes(r, "ended")
      /\ \/ \E i \in DOMAIN q.pending :
              /\ q.pending[i] = r
              /\ queue' = [queue EXCEPT ![a] = [active |-> q.active,
                                                pending |-> Without(q.pending, i)]]
         \/ q.active = r /\ queue' = queue
  BY DEF cancelQueuedTurn
<1>2. /\ a \in Agents /\ q.active \in RunIds \cup {None} /\ q.pending \in Seq(RunIds)
      /\ queue \in [Agents -> [active : RunIds \cup {None}, pending : Seq(RunIds)]]
  BY TurnsAssumption DEF TurnsAreSound, TypeOK
<1>3. /\ answered' = answered \cup {r}
      /\ phase'[r] = "ended" /\ \A p \in RunIds \ {r} : phase'[p] = phase[p]
  BY <1>1 DEF Goes, TurnsAreSound, TypeOK
<1>4. Stages[r] = "waiting" /\ r \in Brief
  BY <1>1, StageOfTurn DEF Brief
<1>5. Stages' = [Stages EXCEPT ![r] = "stopped"]
  <2>1. Stage(r)' = "stopped" /\ \A p \in RunIds \ {r} : Stage(p)' = Stage(p)
    BY <1>3 DEF Stage
  <2> QED
    BY <2>1, StagesChange
<1>6. CASE q.active = r /\ queue' = queue
  <2>1. Lines' = Lines
    BY <1>6 DEF Lines, Line
  <2>2. TL!AtHead(r)
    BY <1>6, ActiveIsAtHead
  <2> QED
    BY <1>4, <1>5, <2>1, <2>2 DEF TL!Begin
<1>7. ASSUME NEW i \in DOMAIN q.pending, q.pending[i] = r,
             queue' = [queue EXCEPT ![a] = [active |-> q.active,
                                            pending |-> Without(q.pending, i)]]
      PROVE  TL!GiveUp(r)
  <2> DEFINE p == q.pending
             h == q.active
             l == Lines[a]
  <2>1. q.active # None
    BY <1>2, <1>7 DEF TurnsAreSound, QueuesAreSound
  <2>2. h \in RunIds /\ h # None /\ p \in Seq(RunIds) /\ i \in DOMAIN p /\ p[i] = r
    BY <1>2, <1>7, <2>1
  <2>3. queue'[a] = [active |-> h, pending |-> Without(p, i)]
        /\ \A b \in Agents \ {a} : queue'[b] = queue[b]
    BY <1>2, <1>7
  <2>4. l = <<h>> \o p
    BY <1>2, <2>1 DEF Lines, Line
  <2> HIDE DEF a, q, p, h, l
  <2>5. /\ l \in Seq(RunIds) /\ Len(l) = Len(p) + 1 /\ Len(p) \in Nat
        /\ \A j \in 1..(Len(p) + 1) : l[j] = IF j = 1 THEN h ELSE p[j - 1]
    BY <2>2, <2>4, LineProperties
  <2>6. i + 1 \in DOMAIN l /\ l[i + 1] = r
    <3>1. i \in 1..Len(p) /\ DOMAIN l = 1..(Len(p) + 1)
      BY <2>2, <2>5
    <3> QED
      BY <2>2, <2>5, <3>1
  <2>7. Line(queue'[a]) = TL!Without(l, i + 1)
    <3>1. Line([active |-> h, pending |-> Without(p, i)]) = <<h>> \o Without(p, i)
      BY <2>2 DEF Line
    <3>2. <<h>> \o Without(p, i) = Without(l, i + 1)
      BY <2>2, <2>4, LineOfWithout
    <3>3. TL!Without(l, i + 1) = Without(l, i + 1)
      BY DEF Without, TL!Without
    <3> QED
      BY <2>3, <3>1, <3>2, <3>3
  <2>8. Lines' = [Lines EXCEPT ![a] = TL!Without(l, i + 1)]
    BY <1>2, <2>3, <2>7, LinesChange
  <2> QED
    BY <1>4, <1>5, <2>6, <2>8 DEF TL!GiveUp, a, l
<1> QED
  BY <1>1, <1>6, <1>7

LEMMA NextMaps ==
  ASSUME TurnsAreSound, [Next]_vars
  PROVE  [TL!Next]_(TL!vars)
<1>1. CASE UNCHANGED vars
  <2>1. queue' = queue /\ phase' = phase /\ answered' = answered
    BY <1>1 DEF vars
  <2>2. Lines' = Lines /\ Stages' = Stages
    BY <2>1 DEF Lines, Line, Stages, Stage
  <2> QED
    BY <2>2 DEF TL!vars
<1>2. ASSUME NEW r \in RunIds, enqueue(r) PROVE [TL!Next]_(TL!vars)
  <2>1. /\ JoinedQueue(r) /\ phase[r] = "none" /\ phase' = [phase EXCEPT ![r] = "queued"]
        /\ answered' = answered
    BY <1>2, JoinedProperties DEF enqueue, Goes, TurnsAreSound
  <2>2. phase'[r] = "queued" /\ \A q \in RunIds \ {r} : Stage(q)' = Stage(q)
    BY <2>1 DEF TurnsAreSound, TypeOK, Stage
  <2>3. TL!Join(r)
    BY <2>1, <2>2, JoiningMaps
  <2> QED
    BY <2>3 DEF TL!Next
<1>3. ASSUME NEW r \in RunIds, NEW s \in RunIds, meshSend(r, s) PROVE [TL!Next]_(TL!vars)
  <2>1. /\ JoinedQueue(s) /\ phase[s] = "none" /\ phase[r] = "tool"
        /\ phase' = [phase EXCEPT ![r] = "sending", ![s] = "queued"]
        /\ answered' = answered
    BY <1>3, JoinedProperties DEF meshSend, TurnsAreSound
  <2>2. phase'[s] = "queued" /\ phase'[r] = "sending" /\ \A q \in RunIds \ {r, s} : phase'[q] = phase[q]
    BY <2>1 DEF TurnsAreSound, TypeOK
  <2>3. \A q \in RunIds \ {s} : Stage(q)' = Stage(q)
    BY <2>1, <2>2 DEF Stage
  <2>4. TL!Join(s)
    BY <2>1, <2>2, <2>3, JoiningMaps
  <2> QED
    BY <2>4 DEF TL!Next
<1>4. ASSUME NEW r \in RunIds, TaskEnds(r) PROVE [TL!Next]_(TL!vars)
  BY <1>4, TaskEndMaps DEF TL!Next
<1>5. ASSUME NEW r \in RunIds, cancelQueuedTurn(r) PROVE [TL!Next]_(TL!vars)
  BY <1>5, CancelMaps DEF TL!Next
<1>6. ASSUME NEW r \in RunIds,
             \/ startTurn(r) \/ TurnGoesOn(r) \/ resumeTurn(r)
             \/ abortTurn(r) \/ forceTimeoutRun(r) \/ cancelReadyRun(r)
      PROVE  [TL!Next]_(TL!vars)
  <2>1. PICK to \in {"pending", "llm", "tool", "suspended", "ended"} : Moved(r, to)
    BY <1>6, StepsMoveTurns
  <2> QED
    BY <2>1, TurnStepMaps
<1> QED
  BY <1>1, <1>2, <1>3, <1>4, <1>5, <1>6 DEF Next, QueueGoesOn

\* AgentQueue (gateway/agent-queue.ts) keeps the promise of TurnLine: turns that have
\* the agent for themselves work one at a time and begin in the order they came.
THEOREM QueuesKeepTheLine == Spec => ImplementsTurnLine
<1>1. Init => TL!Init
  <2>1. Init => Lines = [a \in Agents |-> <<>>]
    BY DEF Init, Lines, Line
  <2>2. Init => Stages = [r \in RunIds |-> "out"]
    BY DEF Init, Stages, Stage
  <2> QED
    BY <2>1, <2>2 DEF TL!Init
<1>2. TurnsAreSound /\ [Next]_vars => [TL!Next]_(TL!vars)
  BY NextMaps
<1> QED
  BY <1>1, <1>2, TurnsStaySound, PTL DEF Spec, ImplementsTurnLine, TL!Spec

=============================================================================
