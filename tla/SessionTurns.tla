---------------------------- MODULE SessionTurns ----------------------------
(***************************************************************************)
(* The turns of one session: how AgentRunner (agent/runner.ts), stepped by *)
(* AgentTurnProcessRuntime (agent/process-runtime.ts), reads and writes    *)
(* the session file (core/session/store.ts) and keeps the messages that a  *)
(* turn sends to its model.                                                *)
(*                                                                         *)
(* Chat turns overlap: their agent's queue is held only for the start of a *)
(* turn.  The kernel steps one turn at a time, so that what one step       *)
(* appends stays together, unless the program ends in the middle: then the *)
(* file keeps part of it, perhaps with a line cut short, and the restored  *)
(* turn takes its step again.                                              *)
(***************************************************************************)
EXTENDS SessionRepair

CONSTANTS
  RunIds,      \* turns of the session
  CallSets,    \* sets of tool calls a model asks for; ids are the model's own and come again
  MaxRounds,   \* maxToolRounds of each turn, one and the same for the turns of an agent
  KeepRecent,  \* KEEP_RECENT of the compactor
  MaxLines,    \* bound: lines of the file
  MaxFaults    \* bound: crashes, and clearings of the session

\* Tools are asked for by one call at least, and one round of them is allowed.
ASSUME SessionAssumption ==
  /\ {} \notin CallSets /\ MaxRounds \in [RunIds -> Nat \ {0}]
  /\ KeepRecent \in Nat \ {0} /\ MaxLines \in Nat /\ MaxFaults \in Nat

VARIABLES
  log,    \* the session file: [lines, torn]; torn is a last line without its end
  turn,   \* the checkpoint of each turn: [phase, messages, pending, rounds]
  faults

vars == <<log, turn, faults>>

NoTurn == [phase |-> "none", messages |-> <<>>, pending |-> {}, rounds |-> 0]
Ended == [NoTurn EXCEPT !.phase = "ended"]   \* done, error, or gone

\* SessionStore.append(): a line cut short spoils the one appended to it.  With torn,
\* the last line appended is cut short itself.
AppendToFile(lines, torn) ==
  /\ Len(log.lines) + Len(lines) <= MaxLines
  /\ log' = [lines |-> log.lines \o (IF log.torn /\ lines # <<>> THEN Tail(lines) ELSE lines),
             torn |-> torn \/ (log.torn /\ lines = <<>>)]

-----------------------------------------------------------------------------
\* What a step may come to: the lines it appends and the turn it leaves.
Outcome(lines, next) == [lines |-> lines, next |-> next]
AtPhase(t, phase, lines) ==
  Outcome(lines, [t EXCEPT !.phase = phase, !.messages = @ \o lines])

\* finalizeKernelTurn() of a failed turn, whose message may poison it later.
FinalizeFailed(lines) ==
  {Outcome(Append(lines, Said(kind)), Ended) : kind \in {"text", "poisoned"}}

\* beginKernelTurn(): the history is read and repaired, the user's message is
\* appended, and what is too long is compacted.
BeginOutcomes(t) ==
  LET history == sanitizeMessages(repairTranscript(log.lines))
      said == Append(history, Said("user"))
      Begun(messages) ==
        Outcome(<<Said("user")>>, [t EXCEPT !.phase = "running", !.messages = messages])
  IN  {Begun(said), Begun(runCompaction(said, KeepRecent))}

\* The answer of the model is text, or only thought, for which a blank is stored, or
\* nothing; a text closes a turn that has said nothing.
LlmAnswered == {Outcome(lines, Ended) :
                  lines \in {<<>>, <<Said("text")>>, <<Said("blank")>>, <<Said("blank"), Said("text")>>}}

\* It asks for tools, for which an approval may be needed.
Asked(t, calls) == [t EXCEPT !.pending = calls, !.rounds = @ + 1]
LlmAskedForTools(t) ==
  {AtPhase(Asked(t, calls), phase, <<Use(calls)>>) :
     calls \in CallSets, phase \in {"waiting_tool", "waiting_approval"}}

\* It ends early after having asked for tools: nothing is executed.
LlmCutShort ==
  UNION {FinalizeFailed(<<Use(calls)>>)
         \cup {Outcome(<<Use(calls)>> \o closing, Ended) : closing \in {<<>>, <<Said("text")>>}} :
           calls \in CallSets}

\* It is blocked before any output: the turn is suspended.  Or it fails, with or
\* without some text.  (Thought before that, another blank, is left out.)
LlmFailed(t) ==
  {AtPhase(t, "suspended", <<>>)} \cup FinalizeFailed(<<>>) \cup FinalizeFailed(<<Said("text")>>)

\* applyKernelLlmGenerateSyscall()
LlmOutcomes(t) == LlmAnswered \cup LlmAskedForTools(t) \cup LlmCutShort \cup LlmFailed(t)

\* applyKernelApprovalSyscall(): approved, denied, or failed.
ApprovalOutcomes(t) ==
  {AtPhase(t, "waiting_tool", <<>>), AtPhase(t, "suspended", <<>>)} \cup FinalizeFailed(<<>>)

ToolOutcomesUnlogged(r, t) ==
  FinalizeFailed(<<>>)
  \cup FinalizeFailed(<<Results(t.pending)>>)
  \cup (IF t.rounds >= MaxRounds[r] THEN {}
        ELSE {Outcome(<<>>, [t EXCEPT !.phase = "waiting_llm", !.pending = {},
                                      !.messages = Append(@, Results(t.pending))])})

ToolOutcomesBeyondLimit(r, t) ==
  FinalizeFailed(<<>>)
  \cup FinalizeFailed(<<Results(t.pending)>>)
  \cup (IF t.rounds > MaxRounds[r] THEN {}
        ELSE {AtPhase([t EXCEPT !.pending = {}], "waiting_llm", <<Results(t.pending)>>)})

\* applyKernelToolCallSyscall(): the call has failed or lacks a result; or the
\* results are appended, and a loop or the last round ends the turn.
ToolOutcomes(r, t) ==
  FinalizeFailed(<<>>)
  \cup FinalizeFailed(<<Results(t.pending)>>)
  \cup (IF t.rounds >= MaxRounds[r] THEN {}
        ELSE {AtPhase([t EXCEPT !.pending = {}], "waiting_llm", <<Results(t.pending)>>)})

\* resumeKernelTurn(): what was pending is asked for again.
ResumeOutcomes(t) ==
  {AtPhase(t, phase, <<>>) :
     phase \in IF t.pending = {} THEN {"waiting_llm"} ELSE {"waiting_tool", "waiting_approval"}}

\* step(), by the phase of the turn; continueKernelTurn() of a running one asks
\* the model.
StepOutcomes(r, t) ==
  CASE t.phase = "pending" -> BeginOutcomes(t)
    [] t.phase = "running" -> {AtPhase(t, "waiting_llm", <<>>)}
    [] t.phase = "waiting_llm" -> LlmOutcomes(t)
    [] t.phase = "waiting_approval" -> ApprovalOutcomes(t)
    [] t.phase = "waiting_tool" -> ToolOutcomes(r, t)
    [] t.phase = "resumed" -> ResumeOutcomes(t)
    [] OTHER -> {}

-----------------------------------------------------------------------------
startTurn(r) ==
  /\ turn[r].phase = "none"
  /\ turn' = [turn EXCEPT ![r].phase = "pending"]
  /\ UNCHANGED <<log, faults>>

StepReturns(r) ==
  /\ \E o \in StepOutcomes(r, turn[r]) :
       /\ AppendToFile(o.lines, FALSE)
       /\ turn' = [turn EXCEPT ![r] = o.next]
  /\ UNCHANGED faults

\* An access to a file is rejected: what was appended before stays.
StepThrows(r) ==
  /\ \E o \in StepOutcomes(r, turn[r]) : \E n \in 0..Len(o.lines) :
       AppendToFile(SubSeq(o.lines, 1, n), FALSE)
  /\ turn' = [turn EXCEPT ![r] = Ended]
  /\ UNCHANGED faults

resumeTurn(r) ==
  /\ turn[r].phase = "suspended"
  /\ turn' = [turn EXCEPT ![r].phase = "resumed"]
  /\ UNCHANGED <<log, faults>>

\* abortTurn(), cancelReadyRun() and forceTimeoutRun() remove the process.
abortTurn(r) ==
  /\ turn[r].phase \notin {"none", "ended"}
  /\ turn' = [turn EXCEPT ![r] = Ended]
  /\ UNCHANGED <<log, faults>>

\* The program ends in a step and is started again: the turns are as they were
\* saved, and the file has part of what the step was to append.
CrashInStep(r) ==
  /\ faults < MaxFaults
  /\ faults' = faults + 1
  /\ \E o \in StepOutcomes(r, turn[r]) : \E n \in 0..Len(o.lines), torn \in BOOLEAN :
       /\ torn => n < Len(o.lines)
       /\ AppendToFile(SubSeq(o.lines, 1, n), torn)
  /\ UNCHANGED turn

\* session.clear empties the file: the failed sessions of an agent at any time, and
\* any session that is not the one its runner was last set to.
clearSession ==
  /\ faults < MaxFaults
  /\ faults' = faults + 1
  /\ log' = [lines |-> <<>>, torn |-> FALSE]
  /\ UNCHANGED turn

-----------------------------------------------------------------------------
Init ==
  /\ log = [lines |-> <<>>, torn |-> FALSE]
  /\ turn = [r \in RunIds |-> NoTurn]
  /\ faults = 0

Next ==
  \/ \E r \in RunIds : \/ startTurn(r) \/ StepReturns(r) \/ StepThrows(r) \/ resumeTurn(r)
                       \/ abortTurn(r) \/ CrashInStep(r)
  \/ clearSession

Spec == Init /\ [][Next]_vars

-----------------------------------------------------------------------------
Line == [kind : {"user", "text", "blank", "poisoned"}, calls : {{}}]
        \cup [kind : {"use", "results"}, calls : CallSets]
Message == Line \cup {Said("summary")}

TypeOK ==
  /\ log.lines \in Seq(Line) /\ log.torn \in BOOLEAN
  /\ turn \in [RunIds ->
       [phase : {"none", "pending", "running", "waiting_llm", "waiting_tool",
                 "waiting_approval", "suspended", "resumed", "ended"},
        messages : Seq(Message), pending : CallSets \cup {{}}, rounds : Nat]]
  /\ \A r \in RunIds : turn[r].rounds <= MaxRounds[r]
  /\ faults \in 0..MaxFaults

\* repairTranscript(): "to prevent LLM API errors" (core/session/repair.ts:17).  Of
\* whatever overlapping, aborted, cleared and crashed turns have left in the file,
\* and of its own exchanges and compaction, a turn that asks its model makes a
\* list of messages in which every request for tools has its results; and so would
\* a turn that began now.
RequestsAreAccepted ==
  /\ \A r \in RunIds : turn[r].phase = "waiting_llm" => Accepted(turn[r].messages)
  /\ \A o \in BeginOutcomes(NoTurn) : Accepted(o.next.messages)

\* The two repairs together drop no more than they must, and ten passes are
\* enough: where nothing is poisoned they keep what was said, and every exchange
\* that is whole and does not end the file.
RepairLosesNoMore ==
  (\A i \in DOMAIN log.lines : log.lines[i].kind # "poisoned") =>
    sanitizeMessages(repairTranscript(log.lines)) = Repaired(log.lines)

\* What a turn has sent to its model is in the file, in that order, for the turns
\* to come; but for the summary of a compaction, and if nobody has cleared the
\* file or cut a line short.
RequestsComeFromTheFile ==
  faults = 0 =>
    \A r \in RunIds :
      LET messages == turn[r].messages
          sent == IF IsAt(messages, 1, "summary") THEN Tail(messages) ELSE messages
          Found[i \in 0..Len(sent)] ==   \* the least prefix of the file with sent[1..i]
            IF i = 0 THEN 0
            ELSE LET later == {j \in DOMAIN log.lines :
                                 j > Found[i - 1] /\ log.lines[j] = sent[i]}
                 IN  IF later = {} THEN Len(log.lines) + 1 ELSE Min(later)
      IN  Found[Len(sent)] <= Len(log.lines)

\* A second message "can be enqueued and started without waiting for the LLM to
\* finish", which "is safe because per-agent state isolation is now handled inside
\* the kernel process" (gateway/rpc.ts:1316-1321): results that a turn appends
\* come next to the request they answer, or the exchange is lost to every later
\* turn.
ExchangesStayTogether ==
  \A i \in DOMAIN log.lines :
    log.lines[i].kind = "results" => IsAt(log.lines, i - 1, "use")

=============================================================================
