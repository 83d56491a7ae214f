----------------------------- MODULE OrderedStore -----------------------------
(***************************************************************************)
(* What a kernel expects of its checkpoint store, per process: the file on *)
(* disk is always the effect of one of the requested operations, and moves *)
(* forward through them in the order they were requested.  Operations may  *)
(* be skipped (coalesced or failed); a crash forgets those not yet done.   *)
(***************************************************************************)
EXTENDS Naturals, Sequences

CONSTANTS Pids

VARIABLES
  log,        \* the operations requested for each process, in order
  file        \* [n, present]: the operation the file shows, 0 for none

StoreVars == <<log, file>>

Init ==
  /\ log = [p \in Pids |-> <<>>]
  /\ file = [p \in Pids |-> [n |-> 0, present |-> FALSE]]

Request(p, operation) ==
  /\ log' = [log EXCEPT ![p] = Append(@, operation)]
  /\ UNCHANGED file

Perform(p, n) ==
  /\ n \in file[p].n + 1 .. Len(log[p])
  /\ file' = [file EXCEPT ![p] = [n |-> n, present |-> log[p][n] = "save"]]
  /\ UNCHANGED log

Crash ==
  /\ log' = [p \in Pids |-> SubSeq(log[p], 1, file[p].n)]
  /\ UNCHANGED file

Next ==
  \/ \E p \in Pids :
       \/ \E operation \in {"save", "delete"} : Request(p, operation)
       \/ \E n \in 1..Len(log[p]) : Perform(p, n)
  \/ Crash

Spec == Init /\ [][Next]_StoreVars

=============================================================================
