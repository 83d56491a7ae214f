---------------------------- MODULE CheckpointStore ----------------------------
(***************************************************************************)
(* CoalescingCheckpointStore over JsonFileCheckpointStore                  *)
(* (core/kernel/checkpoint-store.ts): the durable side of a kernel.  Saves *)
(* and deletes of one process are chained on one another's promises; a     *)
(* save that finds another save not yet begun only replaces its snapshot.  *)
(*                                                                         *)
(* The snapshots themselves are abstracted to the position of the save in  *)
(* the order of requests, kept in log; so a later snapshot has a higher    *)
(* number, and the file shows the number of the request it is the effect   *)
(* of.  log, settled and lost only observe: no step depends on them but    *)
(* for the numbering and the bound MaxOps.                                 *)
(***************************************************************************)
EXTENDS Naturals, Sequences

CONSTANTS
  Pids,        \* processes
  MaxOps       \* bound: requests per process

ASSUME StoreAssumption == MaxOps \in Nat

VARIABLES
  pending,     \* pending: the save not yet begun, [entry, n], or NoEntry
  chain,       \* the operations chained up to operationTails, oldest first
  file,        \* the checkpoint file: [n, present]
  reader,      \* a load() in progress: the requests it waits for, or Nobody
  log,         \* the requests made, "save" or "delete"
  settled,     \* the requests whose promise has resolved
  lost         \* the requests whose write or rm failed or was dropped

vars == <<pending, chain, file, reader, log, settled, lost>>

NoEntry == [entry |-> 0, n |-> 0]
Nobody == MaxOps + 1

-----------------------------------------------------------------------------
\* An operation of the chain.  entry tells apart the PendingCheckpoint objects
\* (0 for a delete); claims are the requests that got its promise; writing is
\* the snapshot being written, or the delete being carried out, 0 before that.
Operation(kind, entry, n) ==
  [kind |-> kind, entry |-> entry, claims |-> {n}, writing |-> 0]

NextNumber(p) == Len(log[p]) + 1
LastOf(p) == Len(chain[p])

Requested(p, operation) ==
  /\ NextNumber(p) <= MaxOps
  /\ log' = [log EXCEPT ![p] = Append(@, operation)]

\* save() that finds a pending entry, and save() that makes one.
SaveCoalescedKeepingSnapshot(p) ==
  /\ Requested(p, "save")
  /\ pending[p] # NoEntry
  /\ chain' = [chain EXCEPT ![p][LastOf(p)].claims = @ \cup {NextNumber(p)}]
  /\ UNCHANGED <<pending, file, reader, settled, lost>>

SaveCoalesced(p) ==
  /\ Requested(p, "save")
  /\ pending[p] # NoEntry
  /\ pending' = [pending EXCEPT ![p].n = NextNumber(p)]
  /\ chain' = [chain EXCEPT ![p][LastOf(p)].claims = @ \cup {NextNumber(p)}]
  /\ UNCHANGED <<file, reader, settled, lost>>

SaveChainedUnordered(p) ==
  LET n == NextNumber(p)
  IN  /\ Requested(p, "save")
      /\ pending[p] = NoEntry
      /\ chain' = [chain EXCEPT ![p] = Append(@, [Operation("flush", n, n) EXCEPT !.writing = n])]
      /\ UNCHANGED <<pending, file, reader, settled, lost>>

SaveChained(p) ==
  LET n == NextNumber(p)
  IN  /\ Requested(p, "save")
      /\ pending[p] = NoEntry
      /\ pending' = [pending EXCEPT ![p] = [entry |-> n, n |-> n]]
      /\ chain' = [chain EXCEPT ![p] = Append(@, Operation("flush", n, n))]
      /\ UNCHANGED <<file, reader, settled, lost>>

DeleteKeepingPending(p) ==
  /\ Requested(p, "delete")
  /\ chain' = [chain EXCEPT ![p] = Append(@, Operation("delete", 0, NextNumber(p)))]
  /\ UNCHANGED <<pending, file, reader, settled, lost>>

\* delete(): forgets the pending save and chains the removal of the file.
Delete(p) ==
  /\ Requested(p, "delete")
  /\ pending' = [pending EXCEPT ![p] = NoEntry]
  /\ chain' = [chain EXCEPT ![p] = Append(@, Operation("delete", 0, NextNumber(p)))]
  /\ UNCHANGED <<file, reader, settled, lost>>

-----------------------------------------------------------------------------
\* The promise of the oldest operation settles; the next one may begin.
SettleHead(p, resolved) ==
  /\ chain' = [chain EXCEPT ![p] = Tail(@)]
  /\ settled' = [settled EXCEPT ![p] = IF resolved THEN @ \cup Head(chain[p]).claims ELSE @]

Idle(p) == chain[p] # <<>> /\ Head(chain[p]).writing = 0

\* flush() of an entry that delete() has dropped meanwhile does nothing.
FlushDroppedUnsettled(p) ==
  /\ Idle(p)
  /\ Head(chain[p]).kind = "flush"
  /\ pending[p].entry # Head(chain[p]).entry
  /\ UNCHANGED vars

FlushDropped(p) ==
  /\ Idle(p)
  /\ Head(chain[p]).kind = "flush"
  /\ pending[p].entry # Head(chain[p]).entry
  /\ SettleHead(p, TRUE)
  /\ UNCHANGED <<pending, file, reader, log, lost>>

\* flush() otherwise: from here on a further save makes an entry of its own.
FlushBeginsKeepingEntry(p) ==
  /\ Idle(p)
  /\ Head(chain[p]).kind = "flush"
  /\ pending[p].entry = Head(chain[p]).entry
  /\ chain' = [chain EXCEPT ![p][1].writing = pending[p].n]
  /\ UNCHANGED <<pending, file, reader, log, settled, lost>>

FlushBegins(p) ==
  /\ Idle(p)
  /\ Head(chain[p]).kind = "flush"
  /\ pending[p].entry = Head(chain[p]).entry
  /\ chain' = [chain EXCEPT ![p][1].writing = pending[p].n]
  /\ pending' = [pending EXCEPT ![p] = NoEntry]
  /\ UNCHANGED <<file, reader, log, settled, lost>>

DeleteBegins(p) ==
  /\ Idle(p)
  /\ Head(chain[p]).kind = "delete"
  /\ \E n \in Head(chain[p]).claims :
       chain' = [chain EXCEPT ![p][1].writing = n]
  /\ UNCHANGED <<pending, file, reader, log, settled, lost>>

Busy(p) == chain[p] # <<>> /\ Head(chain[p]).writing # 0

\* The temporary file is renamed over the checkpoint, or rm() has removed it.
DiskDone(p) ==
  /\ Busy(p)
  /\ file' = [file EXCEPT ![p] = [n |-> Head(chain[p]).writing,
                                  present |-> Head(chain[p]).kind = "flush"]]
  /\ SettleHead(p, TRUE)
  /\ UNCHANGED <<pending, reader, log, lost>>

\* atomicWriteFile() swallows ENOENT, EPERM and EACCES: the promise resolves
\* though nothing was written.
WriteDropped(p) ==
  /\ Busy(p)
  /\ Head(chain[p]).kind = "flush"
  /\ lost' = [lost EXCEPT ![p] = @ \cup Head(chain[p]).claims]
  /\ SettleHead(p, TRUE)
  /\ UNCHANGED <<pending, file, reader, log>>

\* Any other error rejects the promise; the chain goes on.
DiskFailed(p) ==
  /\ Busy(p)
  /\ lost' = [lost EXCEPT ![p] = @ \cup Head(chain[p]).claims]
  /\ SettleHead(p, FALSE)
  /\ UNCHANGED <<pending, file, reader, log>>

-----------------------------------------------------------------------------
\* load(): waits for the tail of the chain as it is now, then reads the file.
LoadAtOnce(p) ==
  /\ reader[p] = Nobody
  /\ reader' = [reader EXCEPT ![p] = Len(log[p])]
  /\ UNCHANGED <<pending, chain, file, log, settled, lost>>

InChain(p, n) == \E i \in 1..Len(chain[p]) : n \in chain[p][i].claims

LoadReadsAnyTime(p) ==
  /\ reader[p] # Nobody
  /\ reader' = [reader EXCEPT ![p] = Nobody]
  /\ UNCHANGED <<pending, chain, file, log, settled, lost>>

LoadReads(p) ==
  /\ reader[p] # Nobody
  /\ ~ InChain(p, reader[p])
  /\ reader' = [reader EXCEPT ![p] = Nobody]
  /\ UNCHANGED <<pending, chain, file, log, settled, lost>>

\* The program dies and is started again: only the file is left.
Crash ==
  /\ pending' = [p \in Pids |-> NoEntry]
  /\ chain' = [p \in Pids |-> <<>>]
  /\ reader' = [p \in Pids |-> Nobody]
  /\ log' = [p \in Pids |-> SubSeq(log[p], 1, file[p].n)]
  /\ settled' = [p \in Pids |-> settled[p] \cap 1..file[p].n]
  /\ lost' = [p \in Pids |-> lost[p] \cap 1..file[p].n]
  /\ UNCHANGED file

-----------------------------------------------------------------------------
Init ==
  /\ pending = [p \in Pids |-> NoEntry]
  /\ chain = [p \in Pids |-> <<>>]
  /\ file = [p \in Pids |-> [n |-> 0, present |-> FALSE]]
  /\ reader = [p \in Pids |-> Nobody]
  /\ log = [p \in Pids |-> <<>>]
  /\ settled = [p \in Pids |-> {}]
  /\ lost = [p \in Pids |-> {}]

ChainStep(p) ==
  FlushDropped(p) \/ FlushBegins(p) \/ DeleteBegins(p)
    \/ DiskDone(p) \/ WriteDropped(p) \/ DiskFailed(p)

Next ==
  \/ \E p \in Pids :
       \/ SaveCoalesced(p) \/ SaveChained(p) \/ Delete(p)
       \/ ChainStep(p)
       \/ LoadAtOnce(p) \/ LoadReads(p)
  \/ Crash

Spec == Init /\ [][Next]_vars

\* File system calls return, one way or another.
FairSpec == Spec /\ \A p \in Pids : WF_vars(ChainStep(p))

-----------------------------------------------------------------------------
Numbers == 1..MaxOps

\* The last conjunct on chain: one disk operation at a time per process.
TypeOK ==
  /\ pending \in [Pids -> [entry : 0..MaxOps, n : 0..MaxOps]]
  /\ chain \in [Pids -> Seq([kind : {"flush", "delete"}, entry : 0..MaxOps,
                             claims : SUBSET Numbers, writing : 0..MaxOps])]
  /\ \A p \in Pids : \A i \in 2..Len(chain[p]) : chain[p][i].writing = 0
  /\ file \in [Pids -> [n : 0..MaxOps, present : BOOLEAN]]
  /\ reader \in [Pids -> 0..MaxOps + 1]
  /\ log \in [Pids -> Seq({"save", "delete"})]
  /\ settled \in [Pids -> SUBSET Numbers]
  /\ lost \in [Pids -> SUBSET Numbers]

\* A pending entry always has its flush at the end of the chain, not yet begun:
\* so the promise save() hands out on line 85 is that of the write that will
\* carry its snapshot, and never that of a delete chained after it.
PendingIsTail ==
  \A p \in Pids :
    pending[p] # NoEntry =>
      /\ chain[p] # <<>>
      /\ LET tail == chain[p][LastOf(p)]
         IN  /\ tail.kind = "flush" /\ tail.entry = pending[p].entry
             /\ tail.writing = 0 /\ pending[p].n \in tail.claims

\* A request whose promise has resolved is on disk, or a later one is; but for
\* a save overtaken by a delete that is still to come or has failed, or a write
\* that the file system refused (lines 81-98, 127-133).
SettledIsDurable ==
  \A p \in Pids : \A n \in settled[p] \ lost[p] :
    \/ file[p].n >= n
    \/ \E i \in 1..Len(chain[p]) :
         chain[p][i].kind = "delete" /\ \E m \in chain[p][i].claims : m > n
    \/ \E m \in lost[p] : m > n /\ log[p][m] = "delete"

\* When the chain has run dry the file shows the last request, unless that very
\* request failed: coalescing never leaves an older snapshot behind.
QuiescentFileIsLatest ==
  \A p \in Pids :
    chain[p] = <<>> => file[p].n = Len(log[p]) \/ Len(log[p]) \in lost[p]

\* "Coalesces same-turn saves while preserving save/delete ordering per PID."
\* (line 74): the file moves forward through the requests in the order they were
\* made, so an old snapshot never overwrites a newer one and a deleted checkpoint
\* is not written again by a save requested before.
Ordered == INSTANCE OrderedStore

PreservesOrder == Ordered!Spec

\* load() returns no older state than the caller has asked to be saved (lines
\* 100-103), unless the file system refused that write or a delete() made it
\* pointless meanwhile.
ReadsOwnWrites ==
  [][\A p \in Pids :
       reader[p] \in Numbers /\ reader'[p] = Nobody /\ log' = log =>
         \/ file[p].n >= reader[p]
         \/ reader[p] \in lost[p]
         \/ \E m \in reader[p] + 1 .. Len(log[p]) : log[p][m] = "delete"]_vars

\* Every promise settles, whatever fails on the way.
ChainDrains == \A p \in Pids : (chain[p] # <<>>) ~> (chain[p] = <<>>)

=============================================================================
