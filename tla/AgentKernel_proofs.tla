--------------------------- MODULE AgentKernel_proofs ---------------------------
(***************************************************************************)
(* Proofs about AgentKernel for any processes, any priorities and any      *)
(* number of steps: what a snapshot may look like, that answers to system  *)
(* calls reach the step they are for and, unless processes are deleted     *)
(* while tick() awaits their save, that no step reported is lost and no    *)
(* process deleted comes back.                                             *)
(***************************************************************************)
EXTENDS AgentKernel, SequenceTheorems, TLAPS

\* What WaitingOnItsCall asks of one snapshot.
WaitsForItsCall(s) ==
  /\ s.status = "waiting" <=> s.call # NoCall
  /\ s.call # NoCall => s.call = s.runs
  /\ s.result # NoCall => s.status \in {"ready", "running", "error"} /\ s.result <= s.runs

\* Snapshots that the table may hold, and those of them that may be saved.
Image == {s \in Snapshot : WaitsForItsCall(s) /\ s.retries <= s.runs}
Kept == {s \in Image : s.status # "running"}

\* A tick t that awaits its step has a running process, unless it is gone.
StepIsSound(s, t) ==
  t.phase = "step" =>
    /\ t.base \in Image /\ t.base.status = "running" /\ t.base.runs < MaxRuns
    /\ ~t.base.delayed
    /\ s # NoSnapshot => s = t.base

\* One that awaits a save has what it will store in the table once more.
SaveIsSound(s, t) ==
  t.phase \in {"save", "saveError"} =>
    /\ t.next \in Kept /\ t.base \in Image /\ t.base.runs < MaxRuns
    /\ t.next.runs = t.base.runs + 1
    /\ s # NoSnapshot => /\ s.runs = t.next.runs
                         /\ t.phase = "save" => s.result = t.next.result

\* A system call c under way is the one its process waits for, unless it is gone.
CallIsSound(s, t, c) ==
  c # NoCall => /\ t.phase = "none"
                /\ s # NoSnapshot => s.status = "waiting" /\ s.call = c

\* The snapshot, the tick and the system call of a process with n requests to
\* the store.
IsSound(s, t, c, n) ==
  /\ StepIsSound(s, t) /\ SaveIsSound(s, t) /\ CallIsSound(s, t, c)
  /\ t.phase \in {"none", "step"} => t.at = 0
  /\ t.at <= n

\* A process that somebody is at work on is there unless it was deleted.
GoneWasDeleted(p) ==
  \/ p \in deleted
  \/ snapshots[p] # NoSnapshot
  \/ tick[p].phase = "none" /\ calls[p] = NoCall

KernelIsTyped ==
  /\ snapshots \in [Pids -> Maybe(Image)]
  /\ tick \in [Pids -> Tick]
  /\ calls \in [Pids -> 0..MaxRuns]
  /\ disk \in [Pids -> Maybe(Kept)]
  /\ backlog \in [Pids -> Seq(Maybe(Kept))]
  /\ deleted \subseteq Pids
  /\ known \in [Pids -> 0..MaxRuns]

\* The inductive invariant, whatever is deleted during a save.
KernelIsSound ==
  /\ KernelIsTyped
  /\ \A p \in Pids : /\ IsSound(snapshots[p], tick[p], calls[p], Len(backlog[p]))
                     /\ GoneWasDeleted(p)

-----------------------------------------------------------------------------
LEMMA CreatedIsKept == Created \in Kept
BY KernelAssumption DEF Created, Kept, Image, Snapshot, WaitsForItsCall, ProcessStatus, NoCall

\* A process that is selected is marked, and nothing else about it changes.
LEMMA MarkedIsImage ==
  ASSUME NEW s \in Image, s.status # "waiting", s.status \notin {"suspended", "done"}
  PROVE  /\ MarkedRunning(s) \in Image
         /\ MarkedRunning(s).status = "running" /\ MarkedRunning(s).runs = s.runs
         /\ MarkedRunning(s).result = s.result /\ MarkedRunning(s).delayed = s.delayed
BY KernelAssumption DEF MarkedRunning, Image, Snapshot, WaitsForItsCall, ProcessStatus, NoCall

\* What a step makes of the snapshot it was given may be saved.
LEMMA StepAppliedIsKept ==
  ASSUME NEW s \in Image, s.runs < MaxRuns, NEW signal \in Signals
  PROVE  /\ StepApplied(s, s, signal) \in Kept
         /\ StepApplied(s, s, signal).runs = s.runs + 1
         /\ StepApplied(s, s, signal).result = NoCall
<1> DEFINE t == StepApplied(s, s, signal)
<1>1. s \in Snapshot /\ s.retries <= s.runs /\ s.runs \in Nat /\ s.retries \in Nat
  BY KernelAssumption DEF Image, Snapshot
<1>2. /\ t.status = deriveProcessStatusForSignal(signal)
      /\ t.runs = s.runs + 1
      /\ t.retries = IF signal = "RETRYABLE_ERROR" THEN s.retries + 1 ELSE s.retries
      /\ t.call = IF signal = "WAITING_SYSCALL" THEN s.runs + 1 ELSE NoCall
      /\ t.result = NoCall
  BY <1>1 DEF StepApplied, Snapshot
<1>3. s.runs + 1 \in 1..MaxRuns /\ s.retries \in 0..MaxRuns /\ s.retries + 1 \in 0..MaxRuns
  BY <1>1, KernelAssumption DEF Snapshot
<1>4. /\ deriveProcessStatusForSignal(signal) \in ProcessStatus \ {"running"}
      /\ deriveProcessStatusForSignal(signal) = "waiting" <=> signal = "WAITING_SYSCALL"
  BY DEF deriveProcessStatusForSignal, ProcessStatus, Signals
<1>5. (signal = "RETRYABLE_ERROR") \in BOOLEAN
  OBVIOUS
<1>6. t \in Snapshot
  BY <1>1, <1>3, <1>4, <1>5, KernelAssumption DEF StepApplied, Snapshot, NoCall
<1>7. WaitsForItsCall(t) /\ t.retries <= t.runs /\ t.status # "running"
  BY <1>1, <1>2, <1>3, <1>4 DEF WaitsForItsCall, NoCall
<1> QED
  BY <1>2, <1>6, <1>7 DEF Kept, Image

\* And so may a process whose step, or the save of its step, has failed.
LEMMA StepCrashedIsKept ==
  ASSUME NEW s \in Image, NEW base \in Image, base.runs < MaxRuns, s.runs <= base.runs + 1,
         s.retries <= base.runs + 1, s.result <= base.runs + 1
  PROVE  /\ StepCrashed(s, base) \in Kept
         /\ StepCrashed(s, base).runs = base.runs + 1
         /\ StepCrashed(s, base).result = s.result
<1> DEFINE t == StepCrashed(s, base)
<1>1. s \in Snapshot /\ WaitsForItsCall(s) /\ base.runs \in Nat
  BY KernelAssumption DEF Image, Snapshot
<1>2. /\ t.status = "error" /\ t.runs = base.runs + 1 /\ t.retries = s.retries
      /\ t.call = NoCall /\ t.result = s.result
  BY <1>1 DEF StepCrashed, Snapshot
<1>3. base.runs + 1 \in 0..MaxRuns
  BY <1>1, KernelAssumption
<1>4. t \in Snapshot
  BY <1>1, <1>3, KernelAssumption DEF StepCrashed, Snapshot, NoCall, ProcessStatus
<1>5. WaitsForItsCall(t) /\ t.retries <= t.runs /\ t.status # "running"
  BY <1>1, <1>2, <1>3 DEF WaitsForItsCall, NoCall
<1> QED
  BY <1>2, <1>4, <1>5 DEF Kept, Image

\* A suspended process that is resumed.
LEMMA ResumedIsKept ==
  ASSUME NEW s \in Image, s.status = "suspended"
  PROVE  /\ Resumed(s) \in Kept /\ Resumed(s).runs = s.runs /\ Resumed(s).result = s.result
BY KernelAssumption
   DEF Resumed, Kept, Image, Snapshot, WaitsForItsCall, ProcessStatus, NoCall

\* A waiting process that is given the answer of its call.
LEMMA ResolvedIsKept ==
  ASSUME NEW s \in Image, s.status = "waiting"
  PROVE  /\ Resolved(s, s.call) \in Kept /\ Resolved(s, s.call).runs = s.runs
         /\ s.result = NoCall
<1> DEFINE t == Resolved(s, s.call)
<1>1. s \in Snapshot /\ s.retries <= s.runs /\ s.call = s.runs /\ s.result = NoCall
  BY DEF Image, WaitsForItsCall
<1>2. /\ t.status = "ready" /\ t.runs = s.runs /\ t.retries = s.retries
      /\ t.call = NoCall /\ t.result = s.call
  BY <1>1 DEF Resolved, Snapshot
<1>3. t \in Snapshot
  BY <1>1, KernelAssumption DEF Resolved, Snapshot, NoCall, ProcessStatus
<1>4. WaitsForItsCall(t) /\ t.retries <= t.runs /\ t.status # "running"
  BY <1>1, <1>2, KernelAssumption DEF WaitsForItsCall, NoCall, Snapshot
<1> QED
  BY <1>1, <1>2, <1>3, <1>4 DEF Kept, Image

\* The end of a retry delay.
LEMMA UndelayedIsImage ==
  ASSUME NEW s \in Image
  PROVE  LET t == [s EXCEPT !.delayed = FALSE]
         IN  t \in Image /\ t.status = s.status /\ t.runs = s.runs /\ t.result = s.result /\ t.call = s.call
BY KernelAssumption
   DEF Image, Snapshot, WaitsForItsCall, ProcessStatus, NoCall

-----------------------------------------------------------------------------
\* What an action does that has to do with process p only.
Becomes(p, s, t, c, b) ==
  /\ snapshots' = [snapshots EXCEPT ![p] = s]
  /\ tick' = [tick EXCEPT ![p] = t]
  /\ calls' = [calls EXCEPT ![p] = c]
  /\ backlog' = [backlog EXCEPT ![p] = b]

Records(p, d, k) ==
  /\ disk' = [disk EXCEPT ![p] = d]
  /\ known' = [known EXCEPT ![p] = k]

\* Such an action keeps the invariant if what it makes of that process is sound.
LEMMA OneProcessChanges ==
  ASSUME KernelIsSound, NEW p \in Pids,
         NEW s \in Maybe(Image), NEW t \in Tick, NEW c \in 0..MaxRuns, NEW b \in Seq(Maybe(Kept)),
         NEW d \in Maybe(Kept), NEW k \in 0..MaxRuns,
         Becomes(p, s, t, c, b), Records(p, d, k),
         IsSound(s, t, c, Len(b)),
         deleted' = deleted \cup {p} \/ (deleted' = deleted /\
           (p \in deleted \/ s # NoSnapshot \/ (t.phase = "none" /\ c = NoCall)))
  PROVE  KernelIsSound'
<1>1. KernelIsTyped'
  BY DEF KernelIsSound, KernelIsTyped, Becomes, Records
<1>2. ASSUME NEW q \in Pids
      PROVE  IsSound(snapshots'[q], tick'[q], calls'[q], Len(backlog'[q])) /\ GoneWasDeleted(q)'
  <2>1. CASE q = p
    <3>1. snapshots'[q] = s /\ tick'[q] = t /\ calls'[q] = c /\ backlog'[q] = b
      BY <2>1 DEF KernelIsSound, KernelIsTyped, Becomes
    <3> QED
      BY <2>1, <3>1 DEF GoneWasDeleted
  <2>2. CASE q # p
    <3>1. /\ snapshots'[q] = snapshots[q] /\ tick'[q] = tick[q]
          /\ calls'[q] = calls[q] /\ backlog'[q] = backlog[q]
          /\ q \in deleted => q \in deleted'
      BY <2>2 DEF KernelIsSound, KernelIsTyped, Becomes
    <3> QED
      BY <3>1 DEF GoneWasDeleted, KernelIsSound
  <2> QED
    BY <2>1, <2>2
<1> QED
  BY <1>1, <1>2 DEF KernelIsSound, IsSound, StepIsSound, SaveIsSound, CallIsSound

\* What does not change is like itself.
LEMMA Same ==
  ASSUME KernelIsSound, NEW p \in Pids
  PROVE  /\ snapshots = [snapshots EXCEPT ![p] = snapshots[p]]
         /\ tick = [tick EXCEPT ![p] = tick[p]]
         /\ calls = [calls EXCEPT ![p] = calls[p]]
         /\ disk = [disk EXCEPT ![p] = disk[p]]
         /\ backlog = [backlog EXCEPT ![p] = backlog[p]]
         /\ known = [known EXCEPT ![p] = known[p]]
         /\ snapshots[p] \in Maybe(Image) /\ tick[p] \in Tick
         /\ calls[p] \in 0..MaxRuns /\ disk[p] \in Maybe(Kept)
         /\ backlog[p] \in Seq(Maybe(Kept)) /\ known[p] \in 0..MaxRuns
         /\ IsSound(snapshots[p], tick[p], calls[p], Len(backlog[p]))
         /\ GoneWasDeleted(p)
BY DEF KernelIsSound, KernelIsTyped

LEMMA NoneIsNoImage ==
  /\ NoSnapshot \notin Image
  /\ \A s \in Image : s.status # "none" /\ s.runs \in 0..MaxRuns /\ s.retries <= s.runs
                      /\ s.retries \in Nat /\ s.result \in 0..MaxRuns /\ s.result <= s.runs
BY KernelAssumption DEF NoSnapshot, Image, Snapshot, ProcessStatus, WaitsForItsCall, NoCall

LEMMA NoTickIsTick == NoTick \in Tick /\ NoTick.phase = "none" /\ NoTick.at = 0
BY DEF NoTick, Tick, Maybe

\* Nobody is at work on it.
LEMMA IdleIsSound ==
  ASSUME NEW s \in Maybe(Image), NEW n \in Nat
  PROVE  IsSound(s, NoTick, NoCall, n)
BY NoTickIsTick DEF IsSound, StepIsSound, SaveIsSound, CallIsSound, NoCall

\* The length of a backlog after a request.
LEMMA Requested ==
  ASSUME NEW b \in Seq(Maybe(Kept)), NEW s \in Maybe(Kept)
  PROVE  Append(b, s) \in Seq(Maybe(Kept)) /\ Len(Append(b, s)) = Len(b) + 1 /\ Len(b) \in Nat
OBVIOUS

-----------------------------------------------------------------------------
LEMMA InitIsSound == Init => KernelIsSound
<1> SUFFICES ASSUME Init PROVE KernelIsSound
  OBVIOUS
<1>1. KernelIsTyped
  BY NoTickIsTick, KernelAssumption DEF Init, KernelIsTyped, Maybe, NoCall
<1>2. ASSUME NEW p \in Pids
      PROVE  IsSound(snapshots[p], tick[p], calls[p], Len(backlog[p])) /\ GoneWasDeleted(p)
  <2>1. snapshots[p] = NoSnapshot /\ tick[p] = NoTick /\ calls[p] = NoCall /\ Len(backlog[p]) = 0
    BY DEF Init
  <2> QED
    BY <2>1, IdleIsSound, NoTickIsTick DEF GoneWasDeleted, Maybe
<1> QED
  BY <1>1, <1>2 DEF KernelIsSound

LEMMA createIsSound ==
  ASSUME KernelIsSound, NEW p \in Pids, createProcess(p)
  PROVE  KernelIsSound'
<1>1. tick[p].phase = "none" /\ calls[p] = NoCall
  BY Same DEF createProcess, GoneWasDeleted, Alive
<1>2. Created \in Kept /\ Created \in Maybe(Image) /\ Created \in Maybe(Kept) /\ Created # NoSnapshot
  BY CreatedIsKept, NoneIsNoImage DEF Kept, Maybe
<1>3. IsSound(Created, tick[p], calls[p], Len(Append(backlog[p], Created)))
  BY <1>1, <1>2, Same, Requested DEF IsSound, StepIsSound, SaveIsSound, CallIsSound, Tick
<1>4. /\ Becomes(p, Created, tick[p], calls[p], Append(backlog[p], Created))
      /\ Records(p, disk[p], known[p])
  BY Same DEF createProcess, Request, Becomes, Records
<1> QED
  BY <1>1, <1>2, <1>3, <1>4, Same, Requested, OneProcessChanges DEF createProcess

LEMMA TickSelectsIsSound ==
  ASSUME KernelIsSound, NEW p \in Pids, TickSelects(p)
  PROVE  KernelIsSound'
<1> DEFINE s == MarkedRunning(snapshots[p])
           t == [phase |-> "step", base |-> s, next |-> NoSnapshot, at |-> 0]
<1>1. /\ snapshots[p] \in Image /\ tick[p].phase = "none"
      /\ snapshots[p].status \in {"ready", "running"}
  BY Same DEF TickSelects, Selected, isRunnable, isRunnableProcessStatus, Alive, NobodyTicks,
              Ticking, Maybe
<1>2. s \in Image /\ s.status = "running" /\ s.runs = snapshots[p].runs /\ ~s.delayed
  BY <1>1, MarkedIsImage DEF TickSelects, Selected, isRunnable
<1>3. t \in Tick /\ s \in Maybe(Image) /\ s # NoSnapshot
  BY <1>2, NoneIsNoImage DEF Tick, Maybe, Image
<1>4. calls[p] = NoCall
  BY <1>1, Same, NoneIsNoImage DEF IsSound, CallIsSound
<1>5. IsSound(s, t, calls[p], Len(backlog[p]))
  BY <1>2, <1>4, Same DEF IsSound, StepIsSound, SaveIsSound, CallIsSound, TickSelects
<1>6. Becomes(p, s, t, calls[p], backlog[p]) /\ Records(p, disk[p], known[p])
  BY Same DEF TickSelects, Becomes, Records
<1>7. deleted' = deleted
  BY DEF TickSelects
<1> QED
  BY <1>3, <1>5, <1>6, <1>7, Same, OneProcessChanges

LEMMA StepOfGoneProcessIsSound ==
  ASSUME KernelIsSound, NEW p \in Pids, StepOfGoneProcess(p)
  PROVE  KernelIsSound'
<1>1. calls[p] = NoCall
  BY Same DEF StepOfGoneProcess, IsSound, CallIsSound
<1>2. IsSound(snapshots[p], NoTick, calls[p], Len(backlog[p]))
  BY <1>1, Same, IdleIsSound
<1>3. /\ Becomes(p, snapshots[p], NoTick, calls[p], backlog[p]) /\ Records(p, disk[p], known[p])
      /\ deleted' = deleted
  BY Same DEF StepOfGoneProcess, Becomes, Records
<1> QED
  BY <1>1, <1>2, <1>3, Same, NoTickIsTick, OneProcessChanges

\* The common part of a step that returns and one that throws.
LEMMA SavingIsSound ==
  ASSUME KernelIsSound, NEW p \in Pids, NEW s \in Kept, NEW phase \in {"save", "saveError"},
         tick[p].phase = "step", s.runs = tick[p].base.runs + 1, Saving(p, phase, s)
  PROVE  KernelIsSound'
<1> DEFINE t == [phase |-> phase, base |-> tick[p].base, next |-> s, at |-> Len(backlog[p]) + 1]
           b == Append(backlog[p], s)
<1>1. s \in Image /\ s # NoSnapshot /\ s \in Maybe(Image) /\ s \in Maybe(Kept) /\ s \in Maybe(Snapshot)
  BY NoneIsNoImage DEF Kept, Maybe, Image
<1>2. b \in Seq(Maybe(Kept)) /\ Len(b) = Len(backlog[p]) + 1 /\ Len(backlog[p]) \in Nat
  BY <1>1, Same, Requested
<1>3. t \in Tick
  BY <1>1, <1>2, Same DEF Tick
<1>4. tick[p].base \in Image /\ tick[p].base.runs < MaxRuns /\ calls[p] = NoCall
  BY Same DEF IsSound, StepIsSound, CallIsSound
<1>5. IsSound(s, t, calls[p], Len(b))
  BY <1>1, <1>2, <1>4 DEF IsSound, StepIsSound, SaveIsSound, CallIsSound
<1>6. Becomes(p, s, t, calls[p], b) /\ Records(p, disk[p], known[p]) /\ deleted' = deleted
  BY Same DEF Saving, AwaitsSave, Request, Becomes, Records
<1> QED
  BY <1>1, <1>2, <1>3, <1>5, <1>6, Same, OneProcessChanges

LEMMA StepReturnsIsSound ==
  ASSUME KernelIsSound, NEW p \in Pids, NEW signal \in Signals, StepReturns(p, signal)
  PROVE  KernelIsSound'
<1>1. /\ tick[p].phase = "step" /\ snapshots[p] = tick[p].base
      /\ snapshots[p] \in Image /\ snapshots[p].runs < MaxRuns
  BY Same DEF StepReturns, Alive, IsSound, StepIsSound
<1> QED
  BY <1>1, StepAppliedIsKept, SavingIsSound DEF StepReturns

LEMMA StepThrowsIsSound ==
  ASSUME KernelIsSound, NEW p \in Pids, StepThrows(p)
  PROVE  KernelIsSound'
<1>1. /\ tick[p].phase = "step" /\ snapshots[p] = tick[p].base
      /\ snapshots[p] \in Image /\ snapshots[p].runs < MaxRuns
  BY Same DEF StepThrows, Alive, IsSound, StepIsSound
<1>2. /\ snapshots[p].runs <= snapshots[p].runs + 1 /\ snapshots[p].retries <= snapshots[p].runs + 1
      /\ snapshots[p].result <= snapshots[p].runs + 1
  BY <1>1, NoneIsNoImage, KernelAssumption
<1> QED
  BY <1>1, <1>2, StepCrashedIsKept, SavingIsSound DEF StepThrows

LEMMA TickReturnsIsSound ==
  ASSUME KernelIsSound, NEW p \in Pids, TickReturns(p)
  PROVE  KernelIsSound'
<1> DEFINE s == tick[p].next
<1>1. s \in Kept /\ calls[p] = NoCall
  BY Same DEF TickReturns, IsSound, SaveIsSound, CallIsSound
<1>2. s \in Maybe(Image) /\ s # NoSnapshot /\ s.runs \in 0..MaxRuns
  BY <1>1, NoneIsNoImage DEF Kept, Maybe
<1>3. IsSound(s, NoTick, calls[p], Len(backlog[p]))
  BY <1>1, <1>2, Same, IdleIsSound
<1>4. /\ Becomes(p, s, NoTick, calls[p], backlog[p]) /\ Records(p, disk[p], s.runs)
      /\ deleted' = deleted
  BY Same DEF TickReturns, Reported, Becomes, Records
<1> QED
  BY <1>2, <1>3, <1>4, Same, NoTickIsTick, OneProcessChanges

LEMMA TickReturnsErrorIsSound ==
  ASSUME KernelIsSound, NEW p \in Pids, TickReturnsError(p)
  PROVE  KernelIsSound'
<1>1. tick[p].next \in Kept /\ calls[p] = NoCall
  BY Same DEF TickReturnsError, IsSound, SaveIsSound, CallIsSound
<1>2. tick[p].next.runs \in 0..MaxRuns
  BY <1>1, NoneIsNoImage DEF Kept
<1>3. IsSound(snapshots[p], NoTick, calls[p], Len(backlog[p]))
  BY <1>1, Same, IdleIsSound
<1>4. /\ Becomes(p, snapshots[p], NoTick, calls[p], backlog[p])
      /\ Records(p, disk[p], tick[p].next.runs) /\ deleted' = deleted
  BY Same DEF TickReturnsError, Reported, Becomes, Records
<1> QED
  BY <1>1, <1>2, <1>3, <1>4, Same, NoTickIsTick, OneProcessChanges

LEMMA SyscallStartsIsSound ==
  ASSUME KernelIsSound, NEW p \in Pids, SyscallStarts(p)
  PROVE  KernelIsSound'
<1> DEFINE c == snapshots[p].call
<1>1. snapshots[p] # NoSnapshot /\ tick[p].phase = "none"
  BY DEF SyscallStarts, NobodyTicks, Ticking, NoSnapshot
<1>2. c \in 0..MaxRuns
  BY <1>1, Same DEF Maybe, Image, Snapshot
<1>3. IsSound(snapshots[p], tick[p], c, Len(backlog[p]))
  BY <1>1, Same DEF IsSound, StepIsSound, SaveIsSound, CallIsSound, SyscallStarts
<1>4. /\ Becomes(p, snapshots[p], tick[p], c, backlog[p]) /\ Records(p, disk[p], known[p])
      /\ deleted' = deleted
  BY Same DEF SyscallStarts, Becomes, Records
<1> QED
  BY <1>1, <1>2, <1>3, <1>4, Same, OneProcessChanges

LEMMA resolveSyscallIsSound ==
  ASSUME KernelIsSound, NEW p \in Pids, resolveSyscall(p)
  PROVE  KernelIsSound'
<1>1. tick[p].phase = "none" /\ tick[p].at = 0 /\ deleted' = deleted /\ NoCall \in 0..MaxRuns
  BY Same, KernelAssumption DEF resolveSyscall, IsSound, CallIsSound, NoCall
<1>2. CASE Alive(p)
  <2> DEFINE s == Resolved(snapshots[p], calls[p])
  <2>1. snapshots[p] \in Image /\ snapshots[p].status = "waiting" /\ snapshots[p].call = calls[p]
    BY <1>2, Same DEF resolveSyscall, IsSound, CallIsSound, Alive, Maybe
  <2>2. s \in Kept
    BY <2>1, ResolvedIsKept
  <2>3. s \in Maybe(Image) /\ s \in Maybe(Kept) /\ s # NoSnapshot
    BY <2>2, NoneIsNoImage DEF Kept, Maybe
  <2>4. IsSound(s, tick[p], NoCall, Len(Append(backlog[p], s)))
    BY <1>1, <2>3, Same, Requested DEF IsSound, StepIsSound, SaveIsSound, CallIsSound
  <2>5. /\ Becomes(p, s, tick[p], NoCall, Append(backlog[p], s)) /\ Records(p, disk[p], known[p])
    <3>1. /\ snapshots' = [snapshots EXCEPT ![p] = s]
          /\ snapshots'[p] = s
          /\ Request(p, snapshots'[p])
      BY <1>2, Same DEF resolveSyscall, KernelIsSound, KernelIsTyped
    <3>2. /\ tick' = tick /\ calls' = [calls EXCEPT ![p] = NoCall]
          /\ disk' = disk /\ known' = known
      BY DEF resolveSyscall
    <3> QED
      BY <3>1, <3>2, Same DEF Request, Becomes, Records
  <2> QED
    BY <1>1, <2>3, <2>4, <2>5, Same, Requested, OneProcessChanges
<1>3. CASE ~Alive(p)
  <2>1. IsSound(snapshots[p], tick[p], NoCall, Len(backlog[p]))
    BY <1>1, Same DEF IsSound, CallIsSound
  <2>2. Becomes(p, snapshots[p], tick[p], NoCall, backlog[p]) /\ Records(p, disk[p], known[p])
    BY <1>3, Same DEF resolveSyscall, Becomes, Records
  <2> QED
    BY <1>1, <2>1, <2>2, Same, OneProcessChanges
<1> QED
  BY <1>2, <1>3

LEMMA resumeIsSound ==
  ASSUME KernelIsSound, NEW p \in Pids, resumeProcess(p)
  PROVE  KernelIsSound'
<1> DEFINE s == Resumed(snapshots[p])
<1>1. snapshots[p] \in Image /\ tick[p].phase = "none" /\ tick[p].at = 0 /\ calls[p] = NoCall
  <2>1. snapshots[p] \in Image
    BY Same DEF resumeProcess, Maybe, NoSnapshot
  <2> QED
    BY <2>1, Same, NoneIsNoImage
       DEF resumeProcess, NobodyTicks, Ticking, IsSound, CallIsSound
<1>2. s \in Kept
  BY <1>1, ResumedIsKept DEF resumeProcess
<1>3. s \in Maybe(Image) /\ s \in Maybe(Kept) /\ s # NoSnapshot
  BY <1>2, NoneIsNoImage DEF Kept, Maybe
<1>4. IsSound(s, tick[p], calls[p], Len(Append(backlog[p], s)))
  BY <1>1, <1>3, Same, Requested DEF IsSound, StepIsSound, SaveIsSound, CallIsSound
<1>5. /\ Becomes(p, s, tick[p], calls[p], Append(backlog[p], s)) /\ Records(p, disk[p], known[p])
      /\ deleted' = deleted
  <2>1. snapshots' = [snapshots EXCEPT ![p] = s] /\ snapshots'[p] = s
    BY DEF resumeProcess, KernelIsSound, KernelIsTyped
  <2> QED
    BY <2>1, Same DEF resumeProcess, Request, Becomes, Records
<1> QED
  BY <1>3, <1>4, <1>5, Same, Requested, OneProcessChanges

LEMMA deleteIsSound ==
  ASSUME KernelIsSound, NEW p \in Pids, deleteProcess(p)
  PROVE  KernelIsSound'
<1>1. NoSnapshot \in Maybe(Image) /\ NoSnapshot \in Maybe(Kept)
  BY DEF Maybe
<1>2. IsSound(NoSnapshot, tick[p], calls[p], Len(Append(backlog[p], NoSnapshot)))
  BY <1>1, Same, Requested DEF IsSound, StepIsSound, SaveIsSound, CallIsSound, Tick
<1>3. /\ Becomes(p, NoSnapshot, tick[p], calls[p], Append(backlog[p], NoSnapshot))
      /\ Records(p, disk[p], known[p]) /\ deleted' = deleted \cup {p}
  BY Same DEF deleteProcess, Request, Becomes, Records
<1> QED
  BY <1>1, <1>2, <1>3, Same, Requested, OneProcessChanges

\* A delay ends in the table: no step is under way, and no save is put out.
LEMMA DelayElapsesIsSound ==
  ASSUME KernelIsSound, NEW p \in Pids, DelayElapses(p)
  PROVE  KernelIsSound'
<1> DEFINE s == [snapshots[p] EXCEPT !.delayed = FALSE]
<1>1. snapshots[p] \in Image
  BY Same DEF DelayElapses, Maybe, NoSnapshot
<1>2. /\ s \in Image /\ s.status = snapshots[p].status /\ s.runs = snapshots[p].runs
      /\ s.result = snapshots[p].result /\ s.call = snapshots[p].call
  BY <1>1, UndelayedIsImage
<1>3. s \in Maybe(Image) /\ s # NoSnapshot /\ snapshots[p] # NoSnapshot
  BY <1>1, <1>2, NoneIsNoImage DEF Maybe
<1>4. tick[p].phase # "step"
  BY <1>3, Same DEF DelayElapses, IsSound, StepIsSound
<1> HIDE DEF s
<1>5. IsSound(s, tick[p], calls[p], Len(backlog[p]))
  BY <1>2, <1>3, <1>4, Same DEF IsSound, StepIsSound, SaveIsSound, CallIsSound
<1>6. /\ Becomes(p, s, tick[p], calls[p], backlog[p]) /\ Records(p, disk[p], known[p])
      /\ deleted' = deleted
  BY Same DEF DelayElapses, Becomes, Records, s
<1> QED
  BY <1>3, <1>5, <1>6, Same, OneProcessChanges

\* Requests that are skipped or carried out leave the awaited one where it was.
Shifted(t, i) == [t EXCEPT !.at = IF t.at > i THEN t.at - i ELSE 0]

LEMMA ShiftedFields ==
  ASSUME NEW t \in Tick, NEW i \in Nat
  PROVE  /\ Shifted(t, i) \in Tick /\ Shifted(t, i).phase = t.phase
         /\ Shifted(t, i).base = t.base /\ Shifted(t, i).next = t.next
         /\ Shifted(t, i).at = IF t.at > i THEN t.at - i ELSE 0
BY DEF Shifted, Tick

LEMMA ShiftedIsSound ==
  ASSUME NEW s \in Maybe(Image), NEW t \in Tick, NEW c \in 0..MaxRuns,
         NEW n \in Nat, NEW i \in 1..n, IsSound(s, t, c, n)
  PROVE  IsSound(s, Shifted(t, i), c, n - i)
<1>1. t.at \in Nat /\ t.at <= n /\ i \in Nat
  BY DEF Tick, IsSound
<1>2. Shifted(t, i).at = IF t.at > i THEN t.at - i ELSE 0
  BY <1>1, ShiftedFields
<1>3. /\ Shifted(t, i).at <= n - i
      /\ t.at = 0 => Shifted(t, i).at = 0
  BY <1>1, <1>2
<1> QED
  BY <1>1, <1>3, ShiftedFields DEF IsSound, StepIsSound, SaveIsSound, CallIsSound

LEMMA StorePerformsIsSound ==
  ASSUME KernelIsSound, NEW p \in Pids, NEW i \in 1..Len(backlog[p]), StorePerforms(p, i)
  PROVE  KernelIsSound'
<1> DEFINE n == Len(backlog[p])
           t == Shifted(tick[p], i)
           b == SubSeq(backlog[p], i + 1, n)
<1>1. backlog[p] \in Seq(Maybe(Kept)) /\ n \in Nat /\ backlog[p][i] \in Maybe(Kept)
  BY Same
<1>2. b \in Seq(Maybe(Kept)) /\ Len(b) = n - i
  BY <1>1
<1> HIDE DEF n
<1>3. IsSound(snapshots[p], t, calls[p], Len(b))
  <2>1. IsSound(snapshots[p], tick[p], calls[p], n)
    BY Same DEF n
  <2>2. i \in 1..n
    BY DEF n
  <2> QED
    BY <1>1, <1>2, <2>1, <2>2, Same, ShiftedIsSound
<1> USE DEF n
<1>4. t \in Tick /\ t.phase = tick[p].phase
  BY Same, ShiftedFields
<1>5. /\ Becomes(p, snapshots[p], t, calls[p], b) /\ Records(p, backlog[p][i], known[p])
      /\ deleted' = deleted
  BY Same DEF StorePerforms, Becomes, Records, Shifted
<1>6. p \in deleted \/ snapshots[p] # NoSnapshot \/ (t.phase = "none" /\ calls[p] = NoCall)
  BY <1>4, Same DEF GoneWasDeleted
<1> QED
  BY <1>1, <1>2, <1>3, <1>4, <1>5, <1>6, Same, OneProcessChanges

LEMMA StoreRejectsIsSound ==
  ASSUME KernelIsSound, NEW p \in Pids, StoreRejects(p)
  PROVE  KernelIsSound'
<1> DEFINE rest == Tail(backlog[p])
           failed == StepCrashed(snapshots[p], tick[p].base)
<1>1. /\ tick[p].at = 1 /\ Len(backlog[p]) \in Nat \ {0} /\ deleted' = deleted
      /\ rest \in Seq(Maybe(Kept)) /\ Len(rest) \in Nat
  BY Same DEF StoreRejects, IsSound
<1>2. tick[p].phase \in {"save", "saveError"} /\ calls[p] = NoCall
  BY <1>1, Same DEF IsSound, CallIsSound, Tick
<1>3. CASE tick[p].phase = "save" /\ Alive(p)
  <2> DEFINE t == [phase |-> "saveError", base |-> tick[p].base, next |-> failed,
                   at |-> Len(rest) + 1]
             b == Append(rest, failed)
  <2>1. /\ snapshots[p] \in Image /\ tick[p].base \in Image /\ tick[p].base.runs < MaxRuns
        /\ snapshots[p].runs = tick[p].base.runs + 1
    BY <1>3, Same DEF Alive, Maybe, IsSound, SaveIsSound
  <2>2. failed \in Kept /\ failed.runs = tick[p].base.runs + 1
    <3>1. /\ snapshots[p].runs <= tick[p].base.runs + 1
          /\ snapshots[p].retries <= tick[p].base.runs + 1
          /\ snapshots[p].result <= tick[p].base.runs + 1
      BY <2>1, NoneIsNoImage, KernelAssumption
    <3> QED
      BY <2>1, <3>1, StepCrashedIsKept
  <2>3. failed \in Maybe(Image) /\ failed \in Maybe(Kept) /\ failed \in Maybe(Snapshot) /\ failed # NoSnapshot
    BY <2>2, NoneIsNoImage DEF Kept, Image, Maybe
  <2> HIDE DEF failed
  <2>4. b \in Seq(Maybe(Kept)) /\ Len(b) = Len(rest) + 1
    BY <1>1, <2>3, Requested
  <2>5. t \in Tick
    BY <1>1, <2>3, Same DEF Tick
  <2>6. IsSound(failed, t, calls[p], Len(b))
    BY <1>1, <1>2, <2>1, <2>2, <2>3, <2>4 DEF IsSound, StepIsSound, SaveIsSound, CallIsSound
  <2>7. Becomes(p, failed, t, calls[p], b) /\ Records(p, disk[p], known[p])
    BY <1>3, Same DEF StoreRejects, AwaitsSave, Becomes, Records, failed
  <2> QED
    BY <1>1, <2>3, <2>4, <2>5, <2>6, <2>7, Same, OneProcessChanges
<1>4. CASE ~(tick[p].phase = "save" /\ Alive(p))
  <2>1. Becomes(p, snapshots[p], NoTick, calls[p], rest) /\ Records(p, disk[p], known[p])
    BY <1>4, Same DEF StoreRejects, Becomes, Records
  <2>2. IsSound(snapshots[p], NoTick, calls[p], Len(rest))
    BY <1>1, <1>2, Same, IdleIsSound
  <2> QED
    BY <1>1, <1>2, <2>1, <2>2, Same, NoTickIsTick, OneProcessChanges
<1> QED
  BY <1>3, <1>4

LEMMA StoreRejectsOtherIsSound ==
  ASSUME KernelIsSound, NEW p \in Pids, StoreRejectsOther(p)
  PROVE  KernelIsSound'
<1> DEFINE t == Shifted(tick[p], 1)
           b == Tail(backlog[p])
<1>1. /\ b \in Seq(Maybe(Kept)) /\ Len(b) = Len(backlog[p]) - 1
      /\ Len(backlog[p]) \in Nat /\ 1 \in 1..Len(backlog[p])
  <2>1. backlog[p] \in Seq(Maybe(Kept)) /\ backlog[p] # <<>>
    BY Same DEF StoreRejectsOther
  <2>2. /\ Tail(backlog[p]) \in Seq(Maybe(Kept))
        /\ Len(Tail(backlog[p])) = Len(backlog[p]) - 1
    BY <2>1, HeadTailProperties
  <2>3. Len(backlog[p]) \in Nat /\ 1 \in 1..Len(backlog[p])
    BY <2>1
  <2> QED
    BY <2>2, <2>3
<1>2. IsSound(snapshots[p], t, calls[p], Len(b))
  <2>1. /\ IsSound(snapshots[p], tick[p], calls[p], Len(backlog[p]))
        /\ snapshots[p] \in Maybe(Image) /\ tick[p] \in Tick /\ calls[p] \in 0..MaxRuns
    BY Same
  <2>2. IsSound(snapshots[p], t, calls[p], Len(backlog[p]) - 1)
    BY <1>1, <2>1, ShiftedIsSound
  <2> QED
    BY <1>1, <2>2
<1>3. t \in Tick /\ t.phase = tick[p].phase
  BY Same, ShiftedFields
<1>4. /\ Becomes(p, snapshots[p], t, calls[p], b) /\ Records(p, disk[p], known[p])
      /\ deleted' = deleted
  BY Same DEF StoreRejectsOther, Becomes, Records, Shifted
<1>5. p \in deleted \/ snapshots[p] # NoSnapshot \/ (t.phase = "none" /\ calls[p] = NoCall)
  BY <1>3, Same DEF GoneWasDeleted
<1> QED
  BY <1>1, <1>2, <1>3, <1>4, <1>5, Same, OneProcessChanges

LEMMA CrashIsSound ==
  ASSUME KernelIsSound, CrashAndRestore
  PROVE  KernelIsSound'
<1>1. KernelIsTyped'
  BY NoTickIsTick, KernelAssumption
     DEF KernelIsSound, KernelIsTyped, CrashAndRestore, Maybe, NoCall, Kept
<1>2. ASSUME NEW p \in Pids
      PROVE  IsSound(snapshots[p], tick[p], calls[p], Len(backlog[p]))' /\ GoneWasDeleted(p)'
  <2>1. /\ snapshots'[p] \in Maybe(Image) /\ tick'[p] = NoTick /\ calls'[p] = NoCall
        /\ Len(backlog'[p]) = 0
    BY DEF KernelIsSound, KernelIsTyped, CrashAndRestore, Maybe, Kept
  <2>2. IsSound(snapshots'[p], NoTick, NoCall, 0)
    BY <2>1, IdleIsSound
  <2> QED
    BY <2>1, <2>2, NoTickIsTick
       DEF GoneWasDeleted, IsSound, StepIsSound, SaveIsSound, CallIsSound
<1> QED
  BY <1>1, <1>2 DEF KernelIsSound

LEMMA StepKeepsSound ==
  ASSUME KernelIsSound, [Next]_vars
  PROVE  KernelIsSound'
<1>1. ASSUME NEW p \in Pids, TickStep(p)
      PROVE  KernelIsSound'
  BY <1>1, StepOfGoneProcessIsSound, StepReturnsIsSound, StepThrowsIsSound, TickReturnsIsSound,
     TickReturnsErrorIsSound DEF TickStep
<1>2. CASE UNCHANGED vars
  BY <1>2 DEF vars, KernelIsSound, KernelIsTyped, GoneWasDeleted, IsSound, StepIsSound,
              SaveIsSound, CallIsSound
<1> QED
  BY <1>1, <1>2, createIsSound, TickSelectsIsSound, SyscallStartsIsSound, resolveSyscallIsSound,
     resumeIsSound, deleteIsSound, DelayElapsesIsSound, StorePerformsIsSound,
     StoreRejectsIsSound, StoreRejectsOtherIsSound, CrashIsSound DEF Next

THEOREM KernelSound == Spec => []KernelIsSound
BY InitIsSound, StepKeepsSound, PTL DEF Spec

-----------------------------------------------------------------------------
\* A snapshot waits exactly as long as its system call is unanswered, and no
\* checkpoint says that its process is running, for any number of processes and
\* steps.
THEOREM KernelTypes == Spec => []TypeOK
<1>1. KernelIsSound => TypeOK
  <2> SUFFICES ASSUME KernelIsSound PROVE TypeOK
    OBVIOUS
  <2>1. Maybe(Image) \subseteq Maybe(Snapshot) /\ Maybe(Kept) \subseteq Maybe(Snapshot)
        /\ Maybe(Kept) \subseteq Maybe({s \in Snapshot : s.status # "running"})
    BY DEF Maybe, Image, Kept
  <2>2. /\ snapshots \in [Pids -> Maybe(Snapshot)]
        /\ disk \in [Pids -> Maybe({s \in Snapshot : s.status # "running"})]
    BY <2>1 DEF KernelIsSound, KernelIsTyped
  <2>3. backlog \in [Pids -> Seq(Maybe(Snapshot))]
    BY <2>1 DEF KernelIsSound, KernelIsTyped
  <2>4. ASSUME NEW p \in Pids, NEW s \in {snapshots[p], disk[p]}
        PROVE  WaitsForItsCall(s)
    <3>1. s \in Maybe(Image)
      BY Same DEF Maybe, Kept
    <3>2. WaitsForItsCall(NoSnapshot)
      BY DEF WaitsForItsCall, NoSnapshot, NoCall
    <3> QED
      BY <3>1, <3>2 DEF Maybe, Image
  <2>5. WaitingOnItsCall
    BY <2>4 DEF WaitingOnItsCall, WaitsForItsCall
  <2> QED
    BY <2>2, <2>3, <2>5 DEF TypeOK, KernelIsSound, KernelIsTyped
<1> QED
  BY <1>1, KernelSound, PTL

\* What AnswersReachTheStep asks of one process in one step.
AnswerIsKept(p) ==
  snapshots[p].result # NoCall /\ snapshots'[p].result # snapshots[p].result =>
    \/ snapshots'[p].runs = snapshots[p].runs + 1 /\ tick[p].phase = "step"
    \/ snapshots'[p] = NoSnapshot
    \/ snapshots' = disk

LEMMA OthersKeepTheirAnswer ==
  ASSUME KernelIsSound, NEW p \in Pids, NEW q \in Pids, q # p,
         NEW s, snapshots' = [snapshots EXCEPT ![p] = s]
  PROVE  AnswerIsKept(q)
BY DEF KernelIsSound, KernelIsTyped, AnswerIsKept

LEMMA StepKeepsAnswer ==
  ASSUME KernelIsSound, NEW p \in Pids, TickStep(p), NEW q \in Pids
  PROVE  AnswerIsKept(q)
<1>1. CASE StepOfGoneProcess(p)
  BY <1>1 DEF StepOfGoneProcess, AnswerIsKept
<1>2. ASSUME NEW signal \in Signals, StepReturns(p, signal)
      PROVE  AnswerIsKept(q)
  <2>1. /\ snapshots' = [snapshots EXCEPT ![p] = StepApplied(snapshots[p], tick[p].base, signal)]
        /\ tick[p].phase = "step" /\ snapshots[p] = tick[p].base
    BY <1>2, Same DEF StepReturns, Saving, IsSound, StepIsSound, Alive
  <2>2. CASE q = p
    <3>1. snapshots'[p] = StepApplied(snapshots[p], tick[p].base, signal)
      BY <2>1 DEF KernelIsSound, KernelIsTyped
    <3>2. snapshots'[p].runs = snapshots[p].runs + 1
      BY <2>1, <3>1 DEF StepApplied
    <3> QED
      BY <2>1, <2>2, <3>2 DEF AnswerIsKept
  <2> QED
    BY <2>1, <2>2, OthersKeepTheirAnswer
<1>3. CASE StepThrows(p)
  <2>1. snapshots' = [snapshots EXCEPT ![p] = StepCrashed(snapshots[p], tick[p].base)]
    BY <1>3 DEF StepThrows, Saving
  <2>2. CASE q = p
    <3>1. snapshots'[p].result = snapshots[p].result
      BY <2>1 DEF KernelIsSound, KernelIsTyped, StepCrashed
    <3> QED
      BY <2>2, <3>1 DEF AnswerIsKept
  <2> QED
    BY <2>1, <2>2, OthersKeepTheirAnswer
<1>4. CASE TickReturns(p)
  <2>1. /\ snapshots' = [snapshots EXCEPT ![p] = tick[p].next]
        /\ snapshots[p] = NoSnapshot \/ snapshots[p].result = tick[p].next.result
    BY <1>4, Same DEF TickReturns, IsSound, SaveIsSound
  <2>2. CASE q = p
    <3>1. snapshots'[p] = tick[p].next
      BY <2>1 DEF KernelIsSound, KernelIsTyped
    <3>2. snapshots[p].result = NoCall \/ snapshots'[p].result = snapshots[p].result
      BY <2>1, <3>1 DEF NoSnapshot
    <3> QED
      BY <2>2, <3>2 DEF AnswerIsKept
  <2> QED
    BY <2>1, <2>2, OthersKeepTheirAnswer
<1>5. CASE TickReturnsError(p)
  BY <1>5 DEF TickReturnsError, AnswerIsKept
<1> QED
  BY <1>1, <1>2, <1>3, <1>4, <1>5 DEF TickStep

\* The operations of the callers and of the store.
LEMMA CallersKeepAnswer ==
  ASSUME KernelIsSound, NEW p \in Pids, NEW q \in Pids,
         \/ createProcess(p) \/ TickSelects(p) \/ resolveSyscall(p) \/ resumeProcess(p)
         \/ deleteProcess(p) \/ DelayElapses(p) \/ StoreRejects(p)
  PROVE  AnswerIsKept(q)
<1>1. CASE snapshots' = snapshots
  BY <1>1 DEF AnswerIsKept
<1>2. ASSUME NEW s, snapshots' = [snapshots EXCEPT ![p] = s],
             \/ s = NoSnapshot
             \/ snapshots[p].result = NoCall
             \/ s.result = snapshots[p].result
      PROVE  AnswerIsKept(q)
  <2>1. CASE q = p
    <3>1. snapshots'[p] = s
      BY <1>2 DEF KernelIsSound, KernelIsTyped
    <3> QED
      BY <1>2, <2>1, <3>1 DEF AnswerIsKept
  <2> QED
    BY <1>2, <2>1, OthersKeepTheirAnswer
<1>3. CASE createProcess(p)
  <2>1. snapshots' = [snapshots EXCEPT ![p] = Created] /\ snapshots[p].result = NoCall
    BY <1>3 DEF createProcess, Alive, NoSnapshot
  <2> QED
    BY <1>2, <2>1
<1>4. CASE TickSelects(p)
  <2>1. /\ snapshots' = [snapshots EXCEPT ![p] = MarkedRunning(snapshots[p])]
        /\ snapshots[p] \in Image /\ snapshots[p].status \in {"ready", "running"}
    BY <1>4, Same DEF TickSelects, Selected, isRunnable, isRunnableProcessStatus, Alive, Maybe
  <2> QED
    BY <1>2, <2>1, MarkedIsImage
<1>5. CASE resolveSyscall(p)
  <2>1. CASE Alive(p)
    <3>1. /\ snapshots' = [snapshots EXCEPT ![p] = Resolved(snapshots[p], calls[p])]
          /\ snapshots[p] \in Image /\ snapshots[p].status = "waiting"
      BY <1>5, <2>1, Same DEF resolveSyscall, IsSound, CallIsSound, Alive, Maybe
    <3> QED
      BY <1>2, <3>1, ResolvedIsKept
  <2> QED
    BY <1>1, <1>5, <2>1 DEF resolveSyscall
<1>6. CASE resumeProcess(p)
  <2>1. /\ snapshots' = [snapshots EXCEPT ![p] = Resumed(snapshots[p])]
        /\ snapshots[p] \in Image /\ snapshots[p].status = "suspended"
    BY <1>6, Same DEF resumeProcess, Maybe, NoSnapshot
  <2> QED
    BY <1>2, <2>1, ResumedIsKept
<1>7. CASE deleteProcess(p)
  BY <1>2, <1>7 DEF deleteProcess
<1>8. CASE DelayElapses(p)
  <2>1. /\ snapshots' = [snapshots EXCEPT ![p] = [snapshots[p] EXCEPT !.delayed = FALSE]]
        /\ snapshots[p] \in Image
    BY <1>8, Same DEF DelayElapses, Maybe, NoSnapshot
  <2> QED
    BY <1>2, <2>1, UndelayedIsImage
<1>9. CASE StoreRejects(p)
  <2>1. CASE tick[p].phase = "save" /\ Alive(p)
    <3>1. snapshots' = [snapshots EXCEPT ![p] = StepCrashed(snapshots[p], tick[p].base)]
      BY <1>9, <2>1 DEF StoreRejects
    <3>2. StepCrashed(snapshots[p], tick[p].base).result = snapshots[p].result
      BY DEF StepCrashed
    <3> QED
      BY <1>2, <3>1, <3>2
  <2> QED
    BY <1>1, <1>9, <2>1 DEF StoreRejects
<1> QED
  BY <1>3, <1>4, <1>5, <1>6, <1>7, <1>8, <1>9

\* An answer to a system call is dropped by nobody before the step it is for,
\* whatever saves are rejected or skipped and whoever is deleted meanwhile.
THEOREM AnswersReach == Spec => AnswersReachTheStep
<1>1. ASSUME KernelIsSound, [Next]_vars, NEW q \in Pids
      PROVE  AnswerIsKept(q)
  <2>1. CASE UNCHANGED snapshots
    BY <2>1 DEF AnswerIsKept
  <2>2. CASE CrashAndRestore
    BY <2>2 DEF CrashAndRestore, AnswerIsKept
  <2>3. ASSUME NEW p \in Pids, \/ SyscallStarts(p) \/ StoreRejectsOther(p)
                               \/ \E i \in 1..Len(backlog[p]) : StorePerforms(p, i)
        PROVE  AnswerIsKept(q)
    BY <2>1, <2>3 DEF SyscallStarts, StoreRejectsOther, StorePerforms
  <2> QED
    BY <1>1, <2>1, <2>2, <2>3, StepKeepsAnswer, CallersKeepAnswer DEF Next, vars
<1>2. ASSUME KernelIsSound, [Next]_vars
      PROVE  [\A p \in Pids :
                snapshots[p].result # NoCall /\ snapshots'[p].result # snapshots[p].result =>
                  \/ snapshots'[p].runs = snapshots[p].runs + 1 /\ tick[p].phase = "step"
                  \/ snapshots'[p] = NoSnapshot
                  \/ snapshots' = disk]_vars
  BY <1>1, <1>2 DEF AnswerIsKept
<1> QED
  BY <1>2, KernelSound, PTL DEF Spec, AnswersReachTheStep

-----------------------------------------------------------------------------
\* Of a process with snapshot s, checkpoint d, k reported steps and backlog b: the
\* saves go forward, and none is behind what tick() has reported.
SavesGoForward(s, d, b, k) ==
  /\ \A i, j \in 1..Len(b) :
       i <= j /\ b[i] # NoSnapshot /\ b[j] # NoSnapshot => b[i].runs <= b[j].runs
  /\ \A i \in 1..Len(b) : b[i] # NoSnapshot =>
       /\ d.runs <= b[i].runs /\ k <= b[i].runs
       /\ s # NoSnapshot => b[i].runs <= s.runs
  /\ s # NoSnapshot => d.runs <= s.runs
  /\ d # NoSnapshot => k <= d.runs

\* The save that a tick awaits is in the backlog, or it is on disk.
AwaitedSave(s, t, d, b) ==
  t.phase \in {"save", "saveError"} =>
    /\ s # NoSnapshot
    /\ t.at > 0 => b[t.at] = t.next
    /\ t.at = 0 => t.next.runs <= d.runs

\* A process not deleted has no delete among its requests.
IsWhole(p, d, b, k) ==
  p \notin deleted => /\ k <= d.runs
                      /\ \A i \in 1..Len(b) : b[i] # NoSnapshot

\* One that is deleted is gone from the table, and the delete is the last request.
IsDeleted(p, s, d, b) ==
  p \in deleted =>
    /\ s = NoSnapshot
    /\ \A i \in 1..Len(b) : b[i] = NoSnapshot <=> i = Len(b)
    /\ b = <<>> => d = NoSnapshot

IsDurable(p, s, t, d, b, k) ==
  /\ SavesGoForward(s, d, b, k) /\ AwaitedSave(s, t, d, b)
  /\ IsWhole(p, d, b, k) /\ IsDeleted(p, s, d, b)

\* The inductive invariant where no process is deleted while its save is awaited.
KernelIsDurable ==
  \A p \in Pids : IsDurable(p, snapshots[p], tick[p], disk[p], backlog[p], known[p])

LEMMA InitIsDurable == Init => KernelIsDurable
BY NoTickIsTick
   DEF Init, KernelIsDurable, IsDurable, SavesGoForward, AwaitedSave, IsWhole, IsDeleted, NoSnapshot

\* An action that has to do with p only keeps it if what it makes of p is durable.
LEMMA OneProcessKeepsDurable ==
  ASSUME KernelIsSound, KernelIsDurable, NEW p \in Pids,
         NEW s, NEW t, NEW c, NEW b, NEW d, NEW k,
         Becomes(p, s, t, c, b), Records(p, d, k), deleted' \in {deleted, deleted \cup {p}},
         SavesGoForward(s, d, b, k), AwaitedSave(s, t, d, b),
         p \notin deleted' => k <= d.runs /\ \A i \in 1..Len(b) : b[i] # NoSnapshot,
         p \in deleted' => /\ s = NoSnapshot
                           /\ \A i \in 1..Len(b) : b[i] = NoSnapshot <=> i = Len(b)
                           /\ b = <<>> => d = NoSnapshot
  PROVE  KernelIsDurable'
<1>1. ASSUME NEW q \in Pids
      PROVE  IsDurable(q, snapshots[q], tick[q], disk[q], backlog[q], known[q])'
  <2>1. CASE q = p
    <3>1. /\ snapshots'[q] = s /\ tick'[q] = t /\ backlog'[q] = b
          /\ disk'[q] = d /\ known'[q] = k
      BY <2>1 DEF KernelIsSound, KernelIsTyped, Becomes, Records
    <3> QED
      BY <2>1, <3>1 DEF IsDurable, IsWhole, IsDeleted, SavesGoForward, AwaitedSave
  <2>2. CASE q # p
    <3>1. /\ snapshots'[q] = snapshots[q] /\ tick'[q] = tick[q] /\ backlog'[q] = backlog[q]
          /\ disk'[q] = disk[q] /\ known'[q] = known[q]
          /\ q \in deleted <=> q \in deleted'
      BY <2>2 DEF KernelIsSound, KernelIsTyped, Becomes, Records
    <3>2. IsDurable(q, snapshots[q], tick[q], disk[q], backlog[q], known[q])
      BY DEF KernelIsDurable
    <3> QED
      BY <3>1, <3>2 DEF IsDurable, IsWhole, IsDeleted, SavesGoForward, AwaitedSave
  <2> QED
    BY <2>1, <2>2
<1> QED
  BY <1>1 DEF KernelIsDurable

\* What KernelIsDurable says of one process.
LEMMA Durable ==
  ASSUME KernelIsDurable, NEW p \in Pids
  PROVE  /\ SavesGoForward(snapshots[p], disk[p], backlog[p], known[p])
         /\ AwaitedSave(snapshots[p], tick[p], disk[p], backlog[p])
         /\ p \notin deleted =>
              /\ known[p] <= disk[p].runs
              /\ \A i \in 1..Len(backlog[p]) : backlog[p][i] # NoSnapshot
         /\ p \in deleted =>
              /\ snapshots[p] = NoSnapshot
              /\ \A i \in 1..Len(backlog[p]) : backlog[p][i] = NoSnapshot <=> i = Len(backlog[p])
              /\ backlog[p] = <<>> => disk[p] = NoSnapshot
BY DEF KernelIsDurable, IsDurable, IsWhole, IsDeleted

\* Numbers in what may be saved.
LEMMA RunsAreNumbers ==
  ASSUME KernelIsSound, NEW p \in Pids
  PROVE  /\ snapshots[p].runs \in Nat /\ disk[p].runs \in Nat /\ known[p] \in Nat
         /\ Len(backlog[p]) \in Nat
         /\ \A i \in 1..Len(backlog[p]) : backlog[p][i] \in Maybe(Kept) /\ backlog[p][i].runs \in Nat
<1>1. \A s \in Maybe(Image) : s.runs \in Nat
  BY NoneIsNoImage, KernelAssumption DEF Maybe, NoSnapshot
<1>2. Maybe(Kept) \subseteq Maybe(Image)
  BY DEF Maybe, Kept
<1> QED
  BY <1>1, <1>2, Same

\* A save that is not behind the others, joining them.
Joined(b, s) == Append(b, s)

LEMMA AppendGoesForward ==
  ASSUME NEW a \in Seq(Maybe(Kept)), NEW d \in Maybe(Kept), NEW k \in Nat, NEW s \in Kept,
         NEW s0, SavesGoForward(s0, d, a, k), k <= d.runs, d.runs <= s.runs,
         \A i \in 1..Len(a) : a[i] # NoSnapshot /\ a[i].runs <= s.runs
  PROVE  /\ SavesGoForward(s, d, Joined(a, s), k)
         /\ \A i \in 1..Len(Joined(a, s)) : Joined(a, s)[i] # NoSnapshot
         /\ Joined(a, s)[Len(Joined(a, s))] = s /\ Len(Joined(a, s)) = Len(a) + 1
<1> DEFINE b == Joined(a, s)
<1>1. /\ Len(b) = Len(a) + 1 /\ Len(a) \in Nat /\ b[Len(a) + 1] = s
      /\ \A i \in 1..Len(a) : b[i] = a[i] /\ i \in 1..Len(b)
  BY DEF Joined
<1>2. s # NoSnapshot /\ s.runs \in Nat
  BY NoneIsNoImage, KernelAssumption DEF Kept
<1>3. d.runs \in Nat
  BY NoneIsNoImage, KernelAssumption DEF Kept, Maybe, NoSnapshot
<1>4. /\ \A i, j \in 1..Len(a) : i <= j => a[i].runs <= a[j].runs
      /\ \A i \in 1..Len(a) : d.runs <= a[i].runs /\ k <= a[i].runs
  BY DEF SavesGoForward
<1>5. \A i \in 1..Len(b) : i \in 1..Len(a) \/ i = Len(a) + 1
  BY <1>1
<1>6. k <= s.runs
  BY <1>2, <1>3
<1> HIDE DEF b
<1>7. \A i, j \in 1..Len(b) : i <= j => b[i].runs <= b[j].runs
  <2> SUFFICES ASSUME NEW i \in 1..Len(b), NEW j \in 1..Len(b), i <= j
               PROVE  b[i].runs <= b[j].runs
    OBVIOUS
  <2>1. CASE j \in 1..Len(a)
    <3>1. i \in 1..Len(a)
      BY <1>1, <2>1
    <3> QED
      BY <1>1, <1>4, <2>1, <3>1
  <2>2. CASE j = Len(a) + 1
    BY <1>1, <1>2, <1>5, <2>2
  <2> QED
    BY <1>5, <2>1, <2>2
<1>8. \A i \in 1..Len(b) : /\ b[i] # NoSnapshot /\ b[i].runs <= s.runs
                           /\ d.runs <= b[i].runs /\ k <= b[i].runs
  BY <1>1, <1>2, <1>4, <1>5, <1>6
<1>9. SavesGoForward(s, d, b, k)
  BY <1>3, <1>6, <1>7, <1>8 DEF SavesGoForward
<1> QED
  BY <1>1, <1>8, <1>9 DEF b

-----------------------------------------------------------------------------
\* Only the snapshot or the tick of a process changes, and no save is awaited that
\* was not before: what is durable stays so.
LEMMA TableIsDurable ==
  ASSUME KernelIsSound, KernelIsDurable, NEW p \in Pids,
         NEW s, NEW t, NEW c, Becomes(p, s, t, c, backlog[p]), Records(p, disk[p], known[p]),
         deleted' = deleted,
         s = snapshots[p] \/ (Alive(p) /\ s.runs = snapshots[p].runs /\ s # NoSnapshot),
         t = tick[p] \/ t.phase \in {"none", "step"}
  PROVE  KernelIsDurable'
<1>1. SavesGoForward(s, disk[p], backlog[p], known[p])
  BY Durable DEF SavesGoForward, Alive
<1>2. AwaitedSave(s, t, disk[p], backlog[p])
  BY Durable DEF AwaitedSave
<1>3. p \in deleted => s = NoSnapshot
  BY Durable DEF Alive
<1> QED
  BY <1>1, <1>2, <1>3, Durable, OneProcessKeepsDurable

\* A save joins the backlog of a process that is there or is being created.
LEMMA RequestIsDurable ==
  ASSUME KernelIsSound, KernelIsDurable, NEW p \in Pids, p \notin deleted,
         NEW s \in Kept, snapshots[p].runs <= s.runs,
         Alive(p) \/ (backlog[p] = <<>> /\ disk[p] = NoSnapshot),
         NEW t \in Tick, NEW c, Becomes(p, s, t, c, Append(backlog[p], s)),
         Records(p, disk[p], known[p]), deleted' = deleted,
         t.phase \in {"save", "saveError"} => t.at = Len(backlog[p]) + 1 /\ t.next = s
  PROVE  KernelIsDurable'
<1> DEFINE b == Joined(backlog[p], s)
<1>1. /\ SavesGoForward(s, disk[p], b, known[p]) /\ \A i \in 1..Len(b) : b[i] # NoSnapshot
      /\ b[Len(b)] = s /\ Len(b) = Len(backlog[p]) + 1
  <2>1. /\ \A i \in 1..Len(backlog[p]) :
             backlog[p][i] # NoSnapshot /\ backlog[p][i].runs <= s.runs
        /\ disk[p].runs <= s.runs /\ known[p] <= disk[p].runs /\ known[p] \in Nat
    <3>1. s.runs \in Nat
      BY NoneIsNoImage, KernelAssumption DEF Kept
    <3>2. CASE Alive(p)
      BY <3>1, <3>2, Durable, RunsAreNumbers DEF SavesGoForward, Alive
    <3>3. CASE backlog[p] = <<>> /\ disk[p] = NoSnapshot
      BY <3>1, <3>3, Durable, RunsAreNumbers DEF NoSnapshot
    <3> QED
      BY <3>2, <3>3
  <2>2. /\ SavesGoForward(snapshots[p], disk[p], backlog[p], known[p])
        /\ backlog[p] \in Seq(Maybe(Kept)) /\ disk[p] \in Maybe(Kept)
    BY Durable, Same
  <2> QED
    BY <2>1, <2>2, AppendGoesForward
<1>2. s # NoSnapshot /\ Len(backlog[p]) \in Nat
  BY NoneIsNoImage, Same DEF Kept
<1> HIDE DEF b
<1>3. AwaitedSave(s, t, disk[p], b)
  BY <1>1, <1>2 DEF AwaitedSave
<1>4. Becomes(p, s, t, c, b)
  BY DEF b, Joined
<1> QED
  BY <1>1, <1>3, <1>4, Durable, OneProcessKeepsDurable

LEMMA createIsDurable ==
  ASSUME KernelIsSound, KernelIsDurable, NEW p \in Pids, createProcess(p)
  PROVE  KernelIsDurable'
<1>1. tick[p].phase = "none" /\ Created \in Kept /\ snapshots[p].runs <= Created.runs
  <2>1. snapshots[p] = NoSnapshot /\ tick[p].phase = "none"
    BY Same DEF createProcess, GoneWasDeleted, Alive
  <2>2. NoSnapshot.runs = 0 /\ Created.runs = 0
    BY DEF NoSnapshot, Created
  <2> QED
    BY <2>1, <2>2, CreatedIsKept
<1>2. /\ Becomes(p, Created, tick[p], calls[p], Append(backlog[p], Created))
      /\ Records(p, disk[p], known[p])
  BY Same DEF createProcess, Request, Becomes, Records
<1> QED
  BY <1>1, <1>2, Same, RequestIsDurable DEF createProcess

LEMMA TickSelectsIsDurable ==
  ASSUME KernelIsSound, KernelIsDurable, NEW p \in Pids, TickSelects(p)
  PROVE  KernelIsDurable'
<1> DEFINE s == MarkedRunning(snapshots[p])
           t == [phase |-> "step", base |-> s, next |-> NoSnapshot, at |-> 0]
<1>1. snapshots[p] \in Image /\ snapshots[p].status \in {"ready", "running"} /\ Alive(p)
  BY Same DEF TickSelects, Selected, isRunnable, isRunnableProcessStatus, Alive, Maybe
<1>2. s.runs = snapshots[p].runs /\ s # NoSnapshot
  BY <1>1, MarkedIsImage, NoneIsNoImage
<1>3. /\ Becomes(p, s, t, calls[p], backlog[p]) /\ Records(p, disk[p], known[p])
      /\ deleted' = deleted
  BY Same DEF TickSelects, Becomes, Records
<1>4. t.phase = "step"
  OBVIOUS
<1> HIDE DEF s, t
<1> QED
  BY <1>1, <1>2, <1>3, <1>4, TableIsDurable

\* The common part of a step that returns and one that throws.
LEMMA SavingIsDurable ==
  ASSUME KernelIsSound, KernelIsDurable, NEW p \in Pids, NEW s \in Kept,
         NEW phase \in {"save", "saveError"}, Alive(p),
         snapshots[p].runs <= s.runs, Saving(p, phase, s)
  PROVE  KernelIsDurable'
<1> DEFINE t == [phase |-> phase, base |-> tick[p].base, next |-> s, at |-> Len(backlog[p]) + 1]
<1>1. t \in Tick /\ t.at = Len(backlog[p]) + 1 /\ t.next = s
  <2>1. s \in Maybe(Snapshot) /\ Len(backlog[p]) + 1 \in Nat
    BY Same DEF Kept, Image, Maybe
  <2>2. tick[p].base \in Maybe(Snapshot)
    BY Same DEF Tick
  <2> QED
    BY <2>1, <2>2 DEF Tick
<1>2. p \notin deleted
  BY Durable DEF Alive
<1>3. /\ Becomes(p, s, t, calls[p], Append(backlog[p], s)) /\ Records(p, disk[p], known[p])
      /\ deleted' = deleted
  BY Same DEF Saving, AwaitsSave, Request, Becomes, Records
<1> HIDE DEF t
<1> QED
  BY <1>1, <1>2, <1>3, RequestIsDurable

LEMMA StepReturnsIsDurable ==
  ASSUME KernelIsSound, KernelIsDurable, NEW p \in Pids, NEW signal \in Signals,
         StepReturns(p, signal)
  PROVE  KernelIsDurable'
<1>1. /\ snapshots[p] = tick[p].base /\ snapshots[p] \in Image /\ snapshots[p].runs < MaxRuns
  BY Same DEF StepReturns, Alive, IsSound, StepIsSound
<1>2. snapshots[p].runs <= StepApplied(snapshots[p], tick[p].base, signal).runs
  BY <1>1, StepAppliedIsKept, NoneIsNoImage, KernelAssumption
<1> QED
  BY <1>1, <1>2, StepAppliedIsKept, SavingIsDurable DEF StepReturns

LEMMA StepThrowsIsDurable ==
  ASSUME KernelIsSound, KernelIsDurable, NEW p \in Pids, StepThrows(p)
  PROVE  KernelIsDurable'
<1>1. /\ snapshots[p] = tick[p].base /\ snapshots[p] \in Image /\ snapshots[p].runs < MaxRuns
  BY Same DEF StepThrows, Alive, IsSound, StepIsSound
<1>2. /\ snapshots[p].runs <= snapshots[p].runs + 1 /\ snapshots[p].retries <= snapshots[p].runs + 1
      /\ snapshots[p].result <= snapshots[p].runs + 1
  BY <1>1, NoneIsNoImage, KernelAssumption
<1>3. /\ StepCrashed(snapshots[p], tick[p].base) \in Kept
      /\ snapshots[p].runs <= StepCrashed(snapshots[p], tick[p].base).runs
  BY <1>1, <1>2, StepCrashedIsKept
<1> QED
  BY <1>3, SavingIsDurable DEF StepThrows

\* What tick() reports is on disk: the process has not been deleted, so the save has
\* been carried out or skipped for a later one.
LEMMA AwaitedIsOnDisk ==
  ASSUME KernelIsSound, KernelIsDurable, NEW p \in Pids,
         tick[p].phase \in {"save", "saveError"}, SaveDone(p)
  PROVE  /\ Alive(p) /\ p \notin deleted /\ tick[p].next \in Kept
         /\ tick[p].next.runs = snapshots[p].runs /\ tick[p].next.runs <= disk[p].runs
<1>1. Alive(p) /\ p \notin deleted
  BY Durable DEF AwaitedSave, Alive
<1>2. tick[p].at = 0
  <2>1. \A i \in 1..Len(backlog[p]) : backlog[p][i] # NoSnapshot
    BY <1>1, Durable
  <2> QED
    BY <2>1 DEF SaveDone
<1>3. tick[p].next \in Kept /\ tick[p].next.runs = snapshots[p].runs
  BY <1>1, Same DEF IsSound, SaveIsSound, Alive
<1> QED
  BY <1>1, <1>2, <1>3, Durable DEF AwaitedSave

LEMMA ReportIsDurable ==
  ASSUME KernelIsSound, KernelIsDurable, NEW p \in Pids,
         tick[p].phase \in {"save", "saveError"}, SaveDone(p),
         NEW s, s = tick[p].next \/ s = snapshots[p],
         Becomes(p, s, NoTick, calls[p], backlog[p]), Records(p, disk[p], tick[p].next.runs),
         deleted' = deleted
  PROVE  KernelIsDurable'
<1> DEFINE k == tick[p].next.runs
           b == backlog[p]
<1>1. /\ Alive(p) /\ p \notin deleted /\ tick[p].next \in Kept
      /\ k = snapshots[p].runs /\ k <= disk[p].runs
  BY AwaitedIsOnDisk
<1>2. s # NoSnapshot /\ s.runs = snapshots[p].runs
  BY <1>1, NoneIsNoImage DEF Alive, Kept
<1>3. SavesGoForward(snapshots[p], disk[p], b, known[p])
  BY Durable
<1>4. \A i \in 1..Len(b) : b[i] # NoSnapshot => k <= b[i].runs
  <2> SUFFICES ASSUME NEW i \in 1..Len(b), b[i] # NoSnapshot PROVE k <= b[i].runs
    OBVIOUS
  <2>1. disk[p].runs <= b[i].runs
    BY <1>3 DEF SavesGoForward
  <2>2. k \in Nat /\ disk[p].runs \in Nat /\ b[i].runs \in Nat
    BY <1>1, RunsAreNumbers
  <2> QED
    BY <1>1, <2>1, <2>2
<1> HIDE DEF k, b
<1>5. SavesGoForward(s, disk[p], b, k)
  BY <1>1, <1>2, <1>3, <1>4 DEF SavesGoForward, Alive
<1>6. AwaitedSave(s, NoTick, disk[p], b)
  BY NoTickIsTick DEF AwaitedSave
<1>7. \A i \in 1..Len(b) : b[i] # NoSnapshot
  BY <1>1, Durable DEF b
<1>8. Becomes(p, s, NoTick, calls[p], b) /\ Records(p, disk[p], k)
  BY DEF b, k
<1> QED
  BY <1>1, <1>5, <1>6, <1>7, <1>8, OneProcessKeepsDurable

LEMMA TickReturnsIsDurable ==
  ASSUME KernelIsSound, KernelIsDurable, NEW p \in Pids, TickReturns(p) \/ TickReturnsError(p)
  PROVE  KernelIsDurable'
<1>1. CASE TickReturns(p)
  <2>1. /\ Becomes(p, tick[p].next, NoTick, calls[p], backlog[p])
        /\ Records(p, disk[p], tick[p].next.runs)
    BY <1>1, Same DEF TickReturns, Reported, Becomes, Records
  <2> QED
    BY <1>1, <2>1, ReportIsDurable DEF TickReturns
<1>2. CASE TickReturnsError(p)
  <2>1. /\ Becomes(p, snapshots[p], NoTick, calls[p], backlog[p])
        /\ Records(p, disk[p], tick[p].next.runs)
    BY <1>2, Same DEF TickReturnsError, Reported, Becomes, Records
  <2> QED
    BY <1>2, <2>1, ReportIsDurable DEF TickReturnsError
<1> QED
  BY <1>1, <1>2

LEMMA resolveSyscallIsDurable ==
  ASSUME KernelIsSound, KernelIsDurable, NEW p \in Pids, resolveSyscall(p)
  PROVE  KernelIsDurable'
<1>1. tick[p].phase = "none" /\ deleted' = deleted
  BY Same DEF resolveSyscall, IsSound, CallIsSound
<1>2. CASE Alive(p)
  <2> DEFINE s == Resolved(snapshots[p], calls[p])
  <2>1. snapshots[p] \in Image /\ snapshots[p].status = "waiting" /\ snapshots[p].call = calls[p]
    BY <1>2, Same DEF resolveSyscall, IsSound, CallIsSound, Alive, Maybe
  <2>2. s \in Kept /\ snapshots[p].runs <= s.runs
    BY <2>1, ResolvedIsKept, RunsAreNumbers
  <2>3. p \notin deleted
    BY <1>2, Durable DEF Alive
  <2>4. /\ snapshots' = [snapshots EXCEPT ![p] = s] /\ snapshots'[p] = s
        /\ Request(p, snapshots'[p])
        /\ tick' = tick /\ calls' = [calls EXCEPT ![p] = NoCall]
        /\ disk' = disk /\ known' = known
    BY <1>2 DEF resolveSyscall, KernelIsSound, KernelIsTyped
  <2>5. Becomes(p, s, tick[p], NoCall, Append(backlog[p], s)) /\ Records(p, disk[p], known[p])
    BY <2>4, Same DEF Request, Becomes, Records
  <2> HIDE DEF s
  <2> QED
    BY <1>1, <1>2, <2>2, <2>3, <2>5, Same, RequestIsDurable
<1>3. CASE ~Alive(p)
  <2>1. Becomes(p, snapshots[p], tick[p], NoCall, backlog[p]) /\ Records(p, disk[p], known[p])
    BY <1>3, Same DEF resolveSyscall, Becomes, Records
  <2> QED
    BY <1>1, <2>1, TableIsDurable
<1> QED
  BY <1>2, <1>3

LEMMA resumeIsDurable ==
  ASSUME KernelIsSound, KernelIsDurable, NEW p \in Pids, resumeProcess(p)
  PROVE  KernelIsDurable'
<1> DEFINE s == Resumed(snapshots[p])
<1>1. snapshots[p] \in Image /\ Alive(p) /\ tick[p].phase = "none" /\ deleted' = deleted
  BY Same DEF resumeProcess, NobodyTicks, Ticking, Maybe, NoSnapshot, Alive
<1>2. s \in Kept /\ snapshots[p].runs <= s.runs
  BY <1>1, ResumedIsKept, RunsAreNumbers DEF resumeProcess
<1>3. p \notin deleted
  BY <1>1, Durable DEF Alive
<1>4. /\ snapshots' = [snapshots EXCEPT ![p] = s] /\ snapshots'[p] = s
      /\ Request(p, snapshots'[p]) /\ UNCHANGED <<tick, calls, disk, known>>
  BY DEF resumeProcess, KernelIsSound, KernelIsTyped
<1>5. Becomes(p, s, tick[p], calls[p], Append(backlog[p], s)) /\ Records(p, disk[p], known[p])
  BY <1>4, Same DEF Request, Becomes, Records
<1> HIDE DEF s
<1> QED
  BY <1>1, <1>2, <1>3, <1>5, Same, RequestIsDurable

\* No process is deleted while its save is awaited.
LEMMA deleteIsDurable ==
  ASSUME KernelIsSound, KernelIsDurable, ~DeleteDuringSave, NEW p \in Pids, deleteProcess(p)
  PROVE  KernelIsDurable'
<1> DEFINE a == backlog[p]
           b == Append(a, NoSnapshot)
<1>1. p \notin deleted /\ tick[p].phase \notin {"save", "saveError"}
  BY Durable DEF deleteProcess, Alive
<1>2. /\ Len(b) = Len(a) + 1 /\ Len(a) \in Nat /\ b[Len(a) + 1] = NoSnapshot /\ b # <<>>
      /\ \A i \in 1..Len(a) : b[i] = a[i]
  <2>1. a \in Seq(Maybe(Kept)) /\ NoSnapshot \in Maybe(Kept)
    BY Same DEF Maybe
  <2> HIDE DEF a
  <2>2. /\ Len(b) = Len(a) + 1 /\ Len(a) \in Nat /\ b[Len(a) + 1] = NoSnapshot
        /\ \A i \in 1..Len(a) : b[i] = a[i]
    BY <2>1
  <2>3. b # <<>>
    BY <2>2
  <2> QED
    BY <2>2, <2>3
<1>3. /\ \A i \in 1..Len(a) : a[i] # NoSnapshot
      /\ SavesGoForward(snapshots[p], disk[p], a, known[p])
  BY <1>1, Durable
<1>4. Becomes(p, NoSnapshot, tick[p], calls[p], b) /\ Records(p, disk[p], known[p])
  BY Same DEF deleteProcess, Request, Becomes, Records
<1>5. deleted' = deleted \cup {p}
  BY DEF deleteProcess
<1> HIDE DEF b, a
<1>6. \A i \in 1..Len(b) : i \in 1..Len(a) \/ i = Len(a) + 1
  BY <1>2
<1>7. \A i \in 1..Len(b) : b[i] # NoSnapshot => i \in 1..Len(a) /\ b[i] = a[i]
  BY <1>2, <1>6
<1>8. SavesGoForward(NoSnapshot, disk[p], b, known[p])
  BY <1>3, <1>7 DEF SavesGoForward
<1>9. AwaitedSave(NoSnapshot, tick[p], disk[p], b)
  BY <1>1 DEF AwaitedSave
<1>10. \A i \in 1..Len(b) : b[i] = NoSnapshot <=> i = Len(b)
  BY <1>2, <1>3, <1>6
<1> QED
  BY <1>2, <1>4, <1>5, <1>8, <1>9, <1>10, OneProcessKeepsDurable

LEMMA OthersAreDurable ==
  ASSUME KernelIsSound, KernelIsDurable, NEW p \in Pids,
         StepOfGoneProcess(p) \/ SyscallStarts(p) \/ DelayElapses(p)
  PROVE  KernelIsDurable'
<1>1. CASE StepOfGoneProcess(p)
  <2>1. /\ Becomes(p, snapshots[p], NoTick, calls[p], backlog[p]) /\ Records(p, disk[p], known[p])
        /\ deleted' = deleted
    BY <1>1, Same DEF StepOfGoneProcess, Becomes, Records
  <2> QED
    BY <2>1, NoTickIsTick, TableIsDurable
<1>2. CASE SyscallStarts(p)
  <2>1. /\ Becomes(p, snapshots[p], tick[p], snapshots[p].call, backlog[p])
        /\ Records(p, disk[p], known[p]) /\ deleted' = deleted
    BY <1>2, Same DEF SyscallStarts, Becomes, Records
  <2> QED
    BY <2>1, TableIsDurable
<1>3. CASE DelayElapses(p)
  <2> DEFINE s == [snapshots[p] EXCEPT !.delayed = FALSE]
  <2>1. snapshots[p] \in Image
    BY <1>3, Same DEF DelayElapses, Maybe, NoSnapshot
  <2>2. s.runs = snapshots[p].runs /\ s # NoSnapshot /\ Alive(p)
    BY <2>1, UndelayedIsImage, NoneIsNoImage DEF Alive
  <2>3. /\ Becomes(p, s, tick[p], calls[p], backlog[p]) /\ Records(p, disk[p], known[p])
        /\ deleted' = deleted
    BY <1>3, Same DEF DelayElapses, Becomes, Records
  <2> HIDE DEF s
  <2> QED
    BY <2>2, <2>3, TableIsDurable
<1> QED
  BY <1>1, <1>2, <1>3

\* The requests left when the first i of a backlog are gone.
Rest(b, i) == SubSeq(b, i + 1, Len(b))

LEMMA RestOfBacklog ==
  ASSUME NEW b \in Seq(Maybe(Kept)), NEW i \in 1..Len(b)
  PROVE  /\ Rest(b, i) \in Seq(Maybe(Kept))
         /\ Len(Rest(b, i)) = Len(b) - i /\ Len(b) \in Nat
         /\ \A j \in 1..Len(Rest(b, i)) : Rest(b, i)[j] = b[j + i] /\ j + i \in 1..Len(b)
         /\ Rest(b, i) = <<>> => i = Len(b)
<1> DEFINE r == Rest(b, i)
<1>1. r \in Seq(Maybe(Kept)) /\ Len(r) = Len(b) - i /\ Len(b) \in Nat
  BY DEF Rest
<1>2. \A j \in 1..Len(r) : r[j] = b[j + i] /\ j + i \in 1..Len(b)
  BY <1>1 DEF Rest
<1>3. r = <<>> => i = Len(b)
  BY <1>1
<1> QED
  BY <1>1, <1>2, <1>3

LEMMA TailIsRest ==
  ASSUME NEW b \in Seq(Maybe(Kept)), b # <<>>
  PROVE  Tail(b) = Rest(b, 1) /\ 1 \in 1..Len(b)
BY DEF Rest

\* Without its first i requests the rest of a backlog goes forward, also from the
\* one carried out.
LEMMA RestGoesForward ==
  ASSUME KernelIsSound, KernelIsDurable, NEW p \in Pids, NEW i \in 1..Len(backlog[p]),
         NEW d \in {disk[p], backlog[p][i]}
  PROVE  /\ SavesGoForward(snapshots[p], d, Rest(backlog[p], i), known[p])
         /\ p \notin deleted =>
              /\ known[p] <= d.runs
              /\ \A j \in 1..Len(Rest(backlog[p], i)) : Rest(backlog[p], i)[j] # NoSnapshot
         /\ p \in deleted =>
              /\ snapshots[p] = NoSnapshot
              /\ \A j \in 1..Len(Rest(backlog[p], i)) :
                   Rest(backlog[p], i)[j] = NoSnapshot <=> j = Len(Rest(backlog[p], i))
<1> DEFINE b == backlog[p]
           r == Rest(backlog[p], i)
<1>1. /\ Len(r) = Len(b) - i /\ Len(b) \in Nat /\ i \in 1..Len(b)
      /\ \A j \in 1..Len(r) : r[j] = b[j + i] /\ j + i \in 1..Len(b)
  BY Same, RestOfBacklog
<1>2. SavesGoForward(snapshots[p], disk[p], b, known[p])
  BY Durable
<1>3. /\ \A j \in 1..Len(b) : b[j].runs \in Nat
      /\ d.runs \in Nat /\ known[p] \in Nat /\ disk[p].runs \in Nat
  BY RunsAreNumbers
<1>4. /\ p \notin deleted => /\ known[p] <= disk[p].runs
                             /\ \A j \in 1..Len(b) : b[j] # NoSnapshot
      /\ p \in deleted => /\ snapshots[p] = NoSnapshot
                          /\ \A j \in 1..Len(b) : b[j] = NoSnapshot <=> j = Len(b)
  BY Durable
<1>5. b[i] = NoSnapshot => i = Len(b)
  BY <1>1, <1>4
<1>6. d = disk[p] \/ d = b[i]
  OBVIOUS
<1> HIDE DEF b, r
<1>7. ASSUME NEW j \in 1..Len(r), NEW k \in 1..Len(r), j <= k, r[j] # NoSnapshot, r[k] # NoSnapshot
      PROVE  r[j].runs <= r[k].runs
  <2>1. /\ r[j] = b[j + i] /\ j + i \in 1..Len(b) /\ r[k] = b[k + i] /\ k + i \in 1..Len(b)
        /\ j + i <= k + i
    BY <1>1, <1>7
  <2> QED
    BY <1>2, <1>7, <2>1 DEF SavesGoForward
<1>8. ASSUME NEW j \in 1..Len(r), r[j] # NoSnapshot
      PROVE  /\ d.runs <= r[j].runs /\ known[p] <= r[j].runs
             /\ snapshots[p] # NoSnapshot => r[j].runs <= snapshots[p].runs
  <2>1. r[j] = b[j + i] /\ j + i \in 1..Len(b) /\ i <= j + i /\ i # Len(b)
    BY <1>1
  <2>2. b[i] # NoSnapshot
    BY <1>5, <2>1
  <2>3. b[i].runs <= b[j + i].runs
    BY <1>1, <1>2, <1>8, <2>1, <2>2 DEF SavesGoForward
  <2> QED
    BY <1>2, <1>6, <1>8, <2>1, <2>3 DEF SavesGoForward
<1>9. snapshots[p] # NoSnapshot => d.runs <= snapshots[p].runs
  BY <1>1, <1>2, <1>4, <1>6 DEF SavesGoForward
<1>10. d # NoSnapshot => known[p] <= d.runs
  BY <1>1, <1>2, <1>6 DEF SavesGoForward
<1>11. SavesGoForward(snapshots[p], d, r, known[p])
  BY <1>7, <1>8, <1>9, <1>10 DEF SavesGoForward
<1>12. p \notin deleted => /\ known[p] <= d.runs
                           /\ \A j \in 1..Len(r) : r[j] # NoSnapshot
  BY <1>1, <1>4, <1>6, <1>10
<1>13. ASSUME p \in deleted, NEW j \in 1..Len(r)
       PROVE  r[j] = NoSnapshot <=> j = Len(r)
  <2>1. r[j] = b[j + i] /\ j + i \in 1..Len(b) /\ (j + i = Len(b) <=> j = Len(r))
    BY <1>1
  <2> QED
    BY <1>4, <1>13, <2>1
<1> QED
  BY <1>4, <1>11, <1>12, <1>13 DEF b, r

LEMMA StorePerformsIsDurable ==
  ASSUME KernelIsSound, KernelIsDurable, NEW p \in Pids, NEW i \in 1..Len(backlog[p]),
         StorePerforms(p, i)
  PROVE  KernelIsDurable'
<1> DEFINE b == backlog[p]
           d == b[i]
           t == Shifted(tick[p], i)
           r == Rest(b, i)
<1>1. /\ SavesGoForward(snapshots[p], d, r, known[p])
      /\ p \notin deleted => known[p] <= d.runs /\ \A j \in 1..Len(r) : r[j] # NoSnapshot
      /\ p \in deleted => /\ snapshots[p] = NoSnapshot
                          /\ \A j \in 1..Len(r) : r[j] = NoSnapshot <=> j = Len(r)
  BY RestGoesForward
<1>2. /\ Len(r) = Len(b) - i /\ Len(b) \in Nat /\ (r = <<>> => i = Len(b))
      /\ \A j \in 1..Len(r) : r[j] = b[j + i] /\ j + i \in 1..Len(b)
  BY Same, RestOfBacklog
<1>3. p \in deleted => (r = <<>> => d = NoSnapshot)
  BY <1>2, Durable
<1>4. /\ Becomes(p, snapshots[p], t, calls[p], r) /\ Records(p, d, known[p])
      /\ deleted' = deleted
  BY Same DEF StorePerforms, Becomes, Records, Shifted, Rest
<1>5. /\ t.phase = tick[p].phase /\ t.next = tick[p].next
      /\ t.at = IF tick[p].at > i THEN tick[p].at - i ELSE 0
      /\ tick[p].at \in Nat /\ tick[p].at <= Len(b)
  <2>1. tick[p] \in Tick /\ i \in Nat /\ tick[p].at <= Len(b)
    BY Same DEF IsSound
  <2> QED
    BY <2>1, ShiftedFields DEF Tick
<1>6. ASSUME tick[p].phase \in {"save", "saveError"}
      PROVE  /\ snapshots[p] # NoSnapshot
             /\ t.at > 0 => r[t.at] = t.next
             /\ t.at = 0 => t.next.runs <= d.runs
  <2>1. /\ snapshots[p] # NoSnapshot /\ p \notin deleted
        /\ tick[p].at > 0 => b[tick[p].at] = tick[p].next
        /\ tick[p].at = 0 => tick[p].next.runs <= disk[p].runs
    BY <1>6, Durable DEF AwaitedSave
  <2>2. \A j \in 1..Len(b) : b[j] # NoSnapshot /\ b[j].runs \in Nat
    BY <2>1, Durable, RunsAreNumbers
  <2>3. /\ \A j, k \in 1..Len(b) : j <= k => b[j].runs <= b[k].runs
        /\ disk[p].runs <= d.runs /\ disk[p].runs \in Nat
    BY <2>2, Durable, RunsAreNumbers DEF SavesGoForward
  <2>4. tick[p].next.runs \in Nat
    <3>1. tick[p].next \in Image
      BY <1>6, Same DEF IsSound, SaveIsSound, Kept
    <3> QED
      BY <3>1, NoneIsNoImage, KernelAssumption
  <2> HIDE DEF b, r, t, d
  <2>5. CASE tick[p].at > i
    <3>1. t.at = tick[p].at - i /\ t.at \in 1..Len(r) /\ t.at + i = tick[p].at /\ tick[p].at > 0
      BY <1>2, <1>5, <2>5 DEF b
    <3>2. r[t.at] = b[t.at + i]
      BY <1>2, <3>1
    <3> QED
      BY <1>5, <2>1, <3>1, <3>2
  <2>6. CASE tick[p].at <= i /\ tick[p].at > 0
    <3>1. tick[p].at \in 1..Len(b) /\ t.at = 0 /\ i \in 1..Len(b)
      BY <1>2, <1>5, <2>6 DEF b
    <3>2. b[tick[p].at].runs <= b[i].runs
      BY <2>3, <2>6, <3>1
    <3> QED
      BY <1>5, <2>1, <2>6, <3>1, <3>2 DEF d
  <2>7. CASE tick[p].at = 0
    <3>1. t.at = 0 /\ d.runs \in Nat
      BY <1>5, <2>2, <2>7 DEF d, b
    <3> QED
      BY <1>5, <2>1, <2>3, <2>4, <2>7, <3>1
  <2> QED
    BY <1>2, <1>5, <2>5, <2>6, <2>7
<1> HIDE DEF b, r, t, d
<1>7. AwaitedSave(snapshots[p], t, d, r)
  BY <1>5, <1>6 DEF AwaitedSave
<1> QED
  BY <1>1, <1>3, <1>4, <1>7, OneProcessKeepsDurable

\* A rejected save leaves the backlog: that of a tick for the save of its error.
LEMMA StoreRejectsIsDurable ==
  ASSUME KernelIsSound, KernelIsDurable, NEW p \in Pids, StoreRejects(p)
  PROVE  KernelIsDurable'
<1> DEFINE b == backlog[p]
           r == Rest(b, 1)
           failed == StepCrashed(snapshots[p], tick[p].base)
<1>1. /\ tick[p].at = 1 /\ b # <<>> /\ b \in Seq(Maybe(Kept)) /\ deleted' = deleted
      /\ tick[p].phase \in {"save", "saveError"}
  <2>1. /\ tick[p].at = 1 /\ tick[p].at <= Len(b) /\ b \in Seq(Maybe(Kept)) /\ deleted' = deleted
        /\ tick[p].phase \in {"none", "step", "save", "saveError"}
        /\ tick[p].phase \in {"none", "step"} => tick[p].at = 0
    BY Same DEF StoreRejects, IsSound, Tick
  <2>2. b # <<>>
    BY <2>1
  <2> QED
    BY <2>1, <2>2
<1>2. Tail(b) = r /\ 1 \in 1..Len(b)
  BY <1>1, TailIsRest
<1>3. /\ SavesGoForward(snapshots[p], disk[p], r, known[p])
      /\ p \notin deleted => known[p] <= disk[p].runs /\ \A j \in 1..Len(r) : r[j] # NoSnapshot
  BY <1>2, RestGoesForward
<1>4. r \in Seq(Maybe(Kept)) /\ Len(r) \in Nat
  BY <1>1, <1>2, RestOfBacklog
<1>5. Alive(p) /\ p \notin deleted
  BY <1>1, Durable DEF AwaitedSave, Alive
<1>6. CASE tick[p].phase = "save"
  <2> DEFINE t == [phase |-> "saveError", base |-> tick[p].base, next |-> failed,
                   at |-> Len(r) + 1]
             q == Joined(r, failed)
  <2>1. /\ snapshots[p] \in Image /\ tick[p].base \in Image /\ tick[p].base.runs < MaxRuns
        /\ snapshots[p].runs = tick[p].base.runs + 1
    BY <1>5, <1>6, Same DEF Alive, Maybe, IsSound, SaveIsSound
  <2>2. failed \in Kept /\ failed.runs = snapshots[p].runs /\ snapshots[p].runs \in Nat
    <3>1. /\ snapshots[p].runs <= tick[p].base.runs + 1
          /\ snapshots[p].retries <= tick[p].base.runs + 1
          /\ snapshots[p].result <= tick[p].base.runs + 1
      BY <2>1, NoneIsNoImage, KernelAssumption
    <3> QED
      BY <2>1, <3>1, StepCrashedIsKept, RunsAreNumbers
  <2>3. failed # NoSnapshot
    BY <2>2, NoneIsNoImage DEF Kept
  <2>4. Becomes(p, failed, t, calls[p], q) /\ Records(p, disk[p], known[p])
    BY <1>2, <1>5, <1>6, Same DEF StoreRejects, AwaitsSave, Becomes, Records, Joined
  <2>5. t.next = failed /\ t.at = Len(r) + 1
    OBVIOUS
  <2> HIDE DEF failed, t
  <2>6. /\ disk[p].runs <= failed.runs /\ known[p] <= disk[p].runs
        /\ \A i \in 1..Len(r) : r[i] # NoSnapshot /\ r[i].runs <= failed.runs
    BY <1>3, <1>5, <2>2 DEF SavesGoForward, Alive
  <2> HIDE DEF r
  <2>7. /\ SavesGoForward(failed, disk[p], q, known[p]) /\ \A i \in 1..Len(q) : q[i] # NoSnapshot
        /\ q[Len(q)] = failed /\ Len(q) = Len(r) + 1
    <3>1. known[p] \in Nat /\ disk[p] \in Maybe(Kept)
      BY Same, RunsAreNumbers
    <3> QED
      BY <1>3, <1>4, <1>5, <2>2, <2>6, <3>1, AppendGoesForward
  <2> HIDE DEF q
  <2>8. AwaitedSave(failed, t, disk[p], q)
    BY <1>4, <2>3, <2>5, <2>7 DEF AwaitedSave
  <2> QED
    BY <1>1, <1>3, <1>5, <2>4, <2>7, <2>8, OneProcessKeepsDurable
<1>7. CASE tick[p].phase # "save"
  <2>1. Becomes(p, snapshots[p], NoTick, calls[p], r) /\ Records(p, disk[p], known[p])
    BY <1>2, <1>7, Same DEF StoreRejects, Becomes, Records
  <2>2. AwaitedSave(snapshots[p], NoTick, disk[p], r)
    BY NoTickIsTick DEF AwaitedSave
  <2> HIDE DEF r
  <2> QED
    BY <1>1, <1>3, <1>5, <2>1, <2>2, OneProcessKeepsDurable
<1> QED
  BY <1>6, <1>7

LEMMA StoreRejectsOtherIsDurable ==
  ASSUME KernelIsSound, KernelIsDurable, NEW p \in Pids, StoreRejectsOther(p)
  PROVE  KernelIsDurable'
<1> DEFINE b == backlog[p]
           r == Rest(b, 1)
           t == Shifted(tick[p], 1)
<1>1. /\ b # <<>> /\ b \in Seq(Maybe(Kept)) /\ deleted' = deleted
      /\ b[1] # NoSnapshot /\ tick[p].at # 1
  BY Same DEF StoreRejectsOther
<1>2. Tail(b) = r /\ 1 \in 1..Len(b)
  BY <1>1, TailIsRest
<1>3. /\ SavesGoForward(snapshots[p], disk[p], r, known[p])
      /\ p \notin deleted => known[p] <= disk[p].runs /\ \A j \in 1..Len(r) : r[j] # NoSnapshot
      /\ p \in deleted => /\ snapshots[p] = NoSnapshot
                          /\ \A j \in 1..Len(r) : r[j] = NoSnapshot <=> j = Len(r)
  BY <1>2, RestGoesForward
<1>4. /\ Len(r) = Len(b) - 1 /\ Len(b) \in Nat /\ (r = <<>> => 1 = Len(b))
      /\ \A j \in 1..Len(r) : r[j] = b[j + 1] /\ j + 1 \in 1..Len(b)
  BY <1>1, <1>2, RestOfBacklog
<1>5. p \in deleted => r # <<>>
  BY <1>1, <1>2, <1>4, Durable
<1>6. Becomes(p, snapshots[p], t, calls[p], r) /\ Records(p, disk[p], known[p])
  BY <1>2, Same DEF StoreRejectsOther, Becomes, Records, Shifted
<1>7. /\ t.phase = tick[p].phase /\ t.next = tick[p].next
      /\ t.at = IF tick[p].at > 1 THEN tick[p].at - 1 ELSE 0
      /\ tick[p].at \in Nat /\ tick[p].at <= Len(b)
  <2>1. tick[p] \in Tick /\ tick[p].at <= Len(b)
    BY Same DEF IsSound
  <2> QED
    BY <2>1, ShiftedFields DEF Tick
<1>8. AwaitedSave(snapshots[p], tick[p], disk[p], b)
  BY Durable
<1> HIDE DEF b, r, t
<1>9. ASSUME tick[p].phase \in {"save", "saveError"}
      PROVE  /\ snapshots[p] # NoSnapshot
             /\ t.at > 0 => r[t.at] = t.next
             /\ t.at = 0 => t.next.runs <= disk[p].runs
  <2>1. CASE tick[p].at > 1
    <3>1. t.at = tick[p].at - 1 /\ t.at \in 1..Len(r) /\ t.at + 1 = tick[p].at /\ tick[p].at > 0
      BY <1>4, <1>7, <2>1
    <3>2. r[t.at] = b[t.at + 1]
      BY <1>4, <3>1
    <3> QED
      BY <1>7, <1>8, <1>9, <3>1, <3>2 DEF AwaitedSave
  <2>2. CASE ~(tick[p].at > 1)
    <3>1. tick[p].at = 0 /\ t.at = 0
      BY <1>1, <1>7, <2>2
    <3> QED
      BY <1>7, <1>8, <1>9, <3>1 DEF AwaitedSave
  <2> QED
    BY <2>1, <2>2
<1>10. AwaitedSave(snapshots[p], t, disk[p], r)
  BY <1>7, <1>9 DEF AwaitedSave
<1> QED
  BY <1>1, <1>3, <1>5, <1>6, <1>10, OneProcessKeepsDurable

LEMMA CrashIsDurable ==
  ASSUME KernelIsSound, KernelIsDurable, CrashAndRestore
  PROVE  KernelIsDurable'
<1>1. ASSUME NEW p \in Pids
      PROVE  IsDurable(p, snapshots[p], tick[p], disk[p], backlog[p], known[p])'
  <2>1. /\ snapshots'[p] = disk[p] /\ tick'[p] = NoTick /\ backlog'[p] = <<>>
        /\ disk'[p] = disk[p] /\ known'[p] = known[p]
        /\ p \in deleted' <=> p \in deleted /\ disk[p] = NoSnapshot
    BY DEF CrashAndRestore
  <2>2. /\ disk[p] # NoSnapshot => known[p] <= disk[p].runs
        /\ p \notin deleted => known[p] <= disk[p].runs
        /\ disk[p].runs \in Nat
    BY Durable, RunsAreNumbers DEF SavesGoForward
  <2>3. SavesGoForward(disk[p], disk[p], <<>>, known[p])
    BY <2>2 DEF SavesGoForward
  <2>4. AwaitedSave(disk[p], NoTick, disk[p], <<>>)
    BY NoTickIsTick DEF AwaitedSave
  <2> QED
    BY <2>1, <2>2, <2>3, <2>4
       DEF IsDurable, IsWhole, IsDeleted, SavesGoForward, AwaitedSave
<1> QED
  BY <1>1 DEF KernelIsDurable

LEMMA StepKeepsDurable ==
  ASSUME KernelIsSound, KernelIsDurable, ~DeleteDuringSave, [Next]_vars
  PROVE  KernelIsDurable'
<1>1. ASSUME NEW p \in Pids, TickStep(p)
      PROVE  KernelIsDurable'
  BY <1>1, OthersAreDurable, StepReturnsIsDurable, StepThrowsIsDurable, TickReturnsIsDurable
     DEF TickStep
<1>2. CASE UNCHANGED vars
  BY <1>2 DEF vars, KernelIsDurable, IsDurable, SavesGoForward, AwaitedSave, IsWhole, IsDeleted
<1> QED
  BY <1>1, <1>2, createIsDurable, TickSelectsIsDurable, OthersAreDurable, resolveSyscallIsDurable,
     resumeIsDurable, deleteIsDurable, StorePerformsIsDurable, StoreRejectsIsDurable,
     StoreRejectsOtherIsDurable, CrashIsDurable DEF Next

LEMMA KernelDurable ==
  ASSUME ~DeleteDuringSave
  PROVE  Spec => []KernelIsDurable
<1>1. Init => KernelIsDurable
  BY InitIsDurable
<1>2. KernelIsSound /\ KernelIsDurable /\ [Next]_vars => KernelIsDurable'
  BY StepKeepsDurable
<1> QED
  BY <1>1, <1>2, KernelSound, PTL DEF Spec

-----------------------------------------------------------------------------
\* A step that tick() has reported is on disk whatever saves are skipped or rejected,
\* unless callers delete a process while its save is awaited.
THEOREM ReportedIsDurable ==
  ASSUME ~DeleteDuringSave
  PROVE  Spec => []ReportedStepsAreDurable
<1>1. KernelIsSound /\ KernelIsDurable => ReportedStepsAreDurable
  <2> SUFFICES ASSUME KernelIsSound, KernelIsDurable, NEW p \in Pids \ deleted
               PROVE  disk[p].runs >= known[p]
    BY DEF ReportedStepsAreDurable
  <2> QED
    BY Durable, RunsAreNumbers
<1> QED
  BY <1>1, KernelSound, KernelDurable, PTL

\* On the same condition a deleted process comes back neither in the table nor, once
\* its delete is carried out, from disk.
THEOREM DeletedIsGone ==
  ASSUME ~DeleteDuringSave
  PROVE  Spec => []DeletedStaysDeleted
<1>1. KernelIsSound /\ KernelIsDurable => DeletedStaysDeleted
  <2> SUFFICES ASSUME KernelIsSound, KernelIsDurable, NEW p \in deleted
               PROVE  /\ ~Alive(p)
                      /\ disk[p] = NoSnapshot
                         \/ \E i \in 1..Len(backlog[p]) : backlog[p][i] = NoSnapshot
    BY DEF DeletedStaysDeleted
  <2>1. p \in Pids
    BY DEF KernelIsSound, KernelIsTyped
  <2>2. CASE backlog[p] = <<>>
    BY <2>1, <2>2, Durable DEF Alive
  <2>3. CASE backlog[p] # <<>>
    <3>1. Len(backlog[p]) \in 1..Len(backlog[p])
      BY <2>1, <2>3, Same
    <3> QED
      BY <2>1, <3>1, Durable DEF Alive
  <2> QED
    BY <2>2, <2>3
<1> QED
  BY <1>1, KernelSound, KernelDurable, PTL

=============================================================================
