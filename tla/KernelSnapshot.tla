---------------------------- MODULE KernelSnapshot ----------------------------
(***************************************************************************)
(* The snapshot of a kernel process (core/kernel/types.ts) and what each   *)
(* operation of AgentKernel makes of it.  The serialized state of the      *)
(* process is abstracted to the number of steps it has taken (runs), and   *)
(* a system call to the run that asked for it; nextRunAt is abstracted to  *)
(* whether a retry delay is still running (delayed).                       *)
(***************************************************************************)
EXTENDS Naturals

CONSTANTS
  MaxRuns     \* bound: steps of one process

NoCall == 0
NoSnapshot == [status |-> "none", runs |-> 0, retries |-> 0,
               call |-> NoCall, result |-> NoCall, delayed |-> FALSE]

ProcessStatus == {"ready", "running", "waiting", "suspended", "done", "error"}
Signals == {"YIELD", "WAITING_SYSCALL", "SUSPENDED", "DONE", "ERROR", "RETRYABLE_ERROR"}

Snapshot ==
  [status : ProcessStatus, runs : 0..MaxRuns, retries : 0..MaxRuns,
   call : 0..MaxRuns, result : 0..MaxRuns, delayed : BOOLEAN]

deriveProcessStatusForSignal(signal) ==
  CASE signal \in {"YIELD", "RETRYABLE_ERROR"} -> "ready"
    [] signal = "WAITING_SYSCALL" -> "waiting"
    [] signal = "SUSPENDED" -> "suspended"
    [] signal = "DONE" -> "done"
    [] signal = "ERROR" -> "error"

isRunnableProcessStatus(status) == status \in {"ready", "running"}
isTerminalProcessStatus(status) == status \in {"done", "error"}

isRunnable(s) == isRunnableProcessStatus(s.status) /\ ~s.delayed

-----------------------------------------------------------------------------
Created ==
  [status |-> "ready", runs |-> 0, retries |-> 0,
   call |-> NoCall, result |-> NoCall, delayed |-> FALSE]

MarkedRunningDroppingResult(s) == [s EXCEPT !.status = "running", !.result = NoCall]

MarkedRunning(s) == [s EXCEPT !.status = "running"]

\* applyStepResult(): base is the snapshot the step was given, s the one in the
\* table when it returns.
StepApplied(s, base, signal) ==
  [status |-> deriveProcessStatusForSignal(signal),
   runs |-> base.runs + 1,
   retries |-> IF signal = "RETRYABLE_ERROR" THEN base.retries + 1 ELSE s.retries,
   call |-> IF signal = "WAITING_SYSCALL" THEN base.runs + 1 ELSE NoCall,
   result |-> NoCall,
   delayed |-> signal = "RETRYABLE_ERROR"]

\* The catch block of tick(): a step that throws, or whose save is rejected.
StepCrashed(s, candidate) ==
  [status |-> "error", runs |-> candidate.runs + 1, retries |-> s.retries,
   call |-> NoCall, result |-> s.result, delayed |-> s.delayed]

\* resumeProcess() looks at no field of the snapshot but its presence.
Resumed(s) == [s EXCEPT !.status = "ready", !.delayed = FALSE]

\* resolveSyscall() with the resolution of the given call.
ResolvedKeepingCall(s, call) ==
  [s EXCEPT !.status = "ready", !.result = call, !.delayed = FALSE]

Resolved(s, call) ==
  [s EXCEPT !.status = "ready", !.call = NoCall, !.result = call, !.delayed = FALSE]

=============================================================================
