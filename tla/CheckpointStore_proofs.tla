------------------------ MODULE CheckpointStore_proofs ------------------------
(***************************************************************************)
(* Proofs about CheckpointStore for any processes and any number of        *)
(* requests: that promises belong to the right writes, that the file moves *)
(* through the requests in their order and, after that, that no request is *)
(* forgotten: what a promise, an empty chain or a load() tells the caller  *)
(* is on disk, is there.                                                   *)
(***************************************************************************)
EXTENDS CheckpointStore, SequenceTheorems, TLAPS

Operations ==
  [kind : {"flush", "delete"}, entry : 0..MaxOps, claims : SUBSET Numbers, writing : 0..MaxOps]

LogOf(kind) == IF kind = "flush" THEN "save" ELSE "delete"

\* Of one operation of a chain: its claims are requests after the one the file
\* shows, all of its kind; what it writes is one of them, it writes only at the head of
\* the chain, and it bears the number of the save that made it.
SoundOperation(op, i, f, lg) ==
  /\ op \in Operations
  /\ op.claims \subseteq f.n + 1 .. Len(lg)
  /\ \A n \in op.claims : lg[n] = LogOf(op.kind)
  /\ op.claims # {}
  /\ op.writing # 0 => i = 1 /\ op.writing \in op.claims
  /\ op.kind = "flush" => op.entry \in op.claims

\* The requests of an earlier operation come before those of a later one.
InOrder(s) ==
  \A i, j \in 1..Len(s) :
    i < j => \A m \in s[i].claims, n \in s[j].claims : m < n

\* The pending save belongs to the operation at the end of the chain.
PendingAtTail(pend, s) ==
  pend # NoEntry =>
    /\ s # <<>>
    /\ s[Len(s)].kind = "flush" /\ s[Len(s)].entry = pend.entry
    /\ s[Len(s)].writing = 0 /\ pend.n \in s[Len(s)].claims

\* What holds of the pending save, the chain, the file and the log of one process.
Sound(pend, s, f, lg) ==
  /\ pend \in [entry : 0..MaxOps, n : 0..MaxOps]
  /\ s \in Seq(Operations)
  /\ f \in [n : 0..MaxOps, present : BOOLEAN]
  /\ lg \in Seq({"save", "delete"}) /\ Len(lg) <= MaxOps
  /\ f.n <= Len(lg)
  /\ \A i \in 1..Len(s) : SoundOperation(s[i], i, f, lg)
  /\ InOrder(s)
  /\ PendingAtTail(pend, s)

\* The inductive invariant.
ChainsAreSound ==
  /\ pending \in [Pids -> [entry : 0..MaxOps, n : 0..MaxOps]]
  /\ chain \in [Pids -> Seq(Operations)]
  /\ file \in [Pids -> [n : 0..MaxOps, present : BOOLEAN]]
  /\ reader \in [Pids -> 0..MaxOps + 1]
  /\ log \in [Pids -> Seq({"save", "delete"})]
  /\ settled \in [Pids -> SUBSET Numbers]
  /\ lost \in [Pids -> SUBSET Numbers]
  /\ \A p \in Pids : Sound(pending[p], chain[p], file[p], log[p])

-----------------------------------------------------------------------------
\* A new operation joins the end of a sound chain.
LEMMA AppendIsSound ==
  ASSUME NEW pend, NEW s, NEW f, NEW lg, Sound(pend, s, f, lg),
         NEW kind \in {"flush", "delete"}, NEW entry \in 0..MaxOps,
         NEW n, n = Len(lg) + 1, n <= MaxOps, kind = "flush" => entry = n
  PROVE  LET t == Append(s, Operation(kind, entry, n))
             k == Append(lg, LogOf(kind))
         IN  /\ Sound(NoEntry, t, f, k)
             /\ kind = "flush" => Sound([entry |-> entry, n |-> n], t, f, k)
<1> DEFINE op == Operation(kind, entry, n)
           t == Append(s, op)
           k == Append(lg, LogOf(kind))
<1>0. MaxOps \in Nat
  BY StoreAssumption
<1>1. n \in Numbers /\ op \in Operations
  BY <1>0 DEF Sound, Numbers, Operation, Operations
<1>2. /\ t \in Seq(Operations) /\ Len(t) = Len(s) + 1
      /\ t[Len(s) + 1] = op /\ \A i \in 1..Len(s) : t[i] = s[i]
  BY <1>1 DEF Sound
<1>3. /\ k \in Seq({"save", "delete"}) /\ Len(k) = n
      /\ k[n] = LogOf(kind) /\ \A i \in 1..Len(lg) : k[i] = lg[i]
  BY DEF Sound, LogOf
<1>4. /\ op.kind = kind /\ op.entry = entry /\ op.claims = {n} /\ op.writing = 0
  BY DEF Operation
<1> HIDE DEF op, t, k
<1>5. ASSUME NEW i \in 1..Len(t) PROVE SoundOperation(t[i], i, f, k)
  <2>1. CASE i = Len(s) + 1
    <3>1. t[i] = op /\ op \in Operations
      BY <1>1, <1>2, <2>1
    <3>2. f.n \in Nat /\ f.n + 1 <= n /\ n \in Nat
      BY <1>0 DEF Sound
    <3>3. op.claims \subseteq f.n + 1 .. Len(k)
      BY <1>3, <1>4, <3>2
    <3> QED
      BY <1>3, <1>4, <3>1, <3>3 DEF SoundOperation
  <2>2. CASE i \in 1..Len(s)
    <3>1. SoundOperation(s[i], i, f, lg) /\ t[i] = s[i]
      BY <1>2, <2>2 DEF Sound
    <3>2. f.n \in Nat /\ Len(lg) \in Nat
      BY DEF Sound
    <3>3. f.n + 1 .. Len(lg) \subseteq f.n + 1 .. Len(k)
      BY <1>3, <3>2
    <3>4. \A m \in f.n + 1 .. Len(lg) : k[m] = lg[m]
      BY <1>3, <3>2
    <3> QED
      BY <3>1, <3>3, <3>4 DEF SoundOperation
  <2> QED
    BY <1>2, <2>1, <2>2 DEF Sound
<1>6. InOrder(t)
  <2>1. ASSUME NEW i \in 1..Len(t), NEW j \in 1..Len(t), i < j,
               NEW a \in t[i].claims, NEW b \in t[j].claims
        PROVE  a < b
    <3>1. i \in 1..Len(s) /\ t[i] = s[i]
      BY <1>2, <2>1 DEF Sound
    <3>2. CASE j \in 1..Len(s)
      BY <1>2, <2>1, <3>1, <3>2 DEF Sound, InOrder
    <3>3. CASE j = Len(s) + 1
      <4>1. b = n
        BY <1>2, <1>4, <2>1, <3>3
      <4>2. a \in f.n + 1 .. Len(lg) /\ f.n \in Nat /\ Len(lg) \in Nat
        BY <2>1, <3>1 DEF Sound, SoundOperation
      <4> QED
        BY <4>1, <4>2
    <3> QED
      BY <1>2, <3>2, <3>3 DEF Sound
  <2> QED
    BY <2>1 DEF InOrder
<1>7. /\ f \in [n : 0..MaxOps, present : BOOLEAN]
      /\ Len(k) <= MaxOps /\ f.n <= Len(k)
      /\ NoEntry \in [entry : 0..MaxOps, n : 0..MaxOps]
  BY <1>0, <1>3 DEF Sound, NoEntry
<1>8. Sound(NoEntry, t, f, k)
  BY <1>2, <1>3, <1>5, <1>6, <1>7 DEF Sound, PendingAtTail
<1>9. ASSUME kind = "flush" PROVE Sound([entry |-> entry, n |-> n], t, f, k)
  <2>1. [entry |-> entry, n |-> n] \in [entry : 0..MaxOps, n : 0..MaxOps]
    BY <1>0, <1>1 DEF Numbers
  <2>2. t # <<>> /\ t[Len(t)] = op
    BY <1>2 DEF Sound
  <2>3. PendingAtTail([entry |-> entry, n |-> n], t)
    BY <1>4, <1>9, <2>2 DEF PendingAtTail
  <2> QED
    BY <1>2, <1>3, <1>5, <1>6, <1>7, <2>1, <2>3 DEF Sound
<1> QED
  BY <1>8, <1>9 DEF t, k, op

\* A coalesced save joins the claims of the operation at the end.
LEMMA CoalescingIsSound ==
  ASSUME NEW pend, NEW s, NEW f, NEW lg, Sound(pend, s, f, lg), pend # NoEntry,
         NEW n, n = Len(lg) + 1, n <= MaxOps
  PROVE  Sound([pend EXCEPT !.n = n], [s EXCEPT ![Len(s)].claims = @ \cup {n}],
               f, Append(lg, "save"))
<1> DEFINE last == Len(s)
           t == [s EXCEPT ![last].claims = @ \cup {n}]
           k == Append(lg, "save")
<1>0. MaxOps \in Nat /\ last \in Nat /\ last # 0 /\ last \in 1..Len(s)
  BY StoreAssumption DEF Sound, PendingAtTail
<1>1. n \in Numbers /\ s[last] \in Operations /\ s[last].kind = "flush"
      /\ s[last].writing = 0
  BY <1>0 DEF Sound, Numbers, SoundOperation, PendingAtTail
<1>2. /\ t[last] \in Operations
      /\ t[last].kind = "flush" /\ t[last].entry = s[last].entry
      /\ t[last].claims = s[last].claims \cup {n} /\ t[last].writing = 0
  <2> DEFINE c == s[last].claims \cup {n}
  <2>1. t[last] = [s[last] EXCEPT !.claims = c]
    <3> DEFINE e == [s[last] EXCEPT !.claims = c]
    <3>1. t = [s EXCEPT ![last] = e] /\ s \in Seq(Operations)
      BY DEF Sound
    <3> HIDE DEF t, e
    <3>2. t[last] = e
      BY <1>0, <3>1
    <3> QED
      BY <3>2 DEF e
  <2>2. c \in SUBSET Numbers
    BY <1>1 DEF Operations
  <2> HIDE DEF t, c
  <2>3. t[last].claims = c
    BY <1>1, <2>1 DEF Operations
  <2>4. /\ t[last] \in Operations
        /\ t[last].kind = "flush" /\ t[last].entry = s[last].entry /\ t[last].writing = 0
    BY <1>1, <2>1, <2>2 DEF Operations
  <2> QED
    BY <2>3, <2>4 DEF c
<1>3. /\ t \in Seq(Operations) /\ Len(t) = last
      /\ \A i \in 1..Len(s) : i # last => t[i] = s[i]
  <2> DEFINE e == [s[last] EXCEPT !.claims = @ \cup {n}]
  <2>1. e \in Operations /\ s \in Seq(Operations) /\ t = [s EXCEPT ![last] = e]
    BY <1>1 DEF Operations, Sound
  <2> HIDE DEF e, t, last
  <2>2. last \in 1..Len(s)
    BY <1>0
  <2> QED
    BY <2>1, <2>2, ExceptSeq DEF last
<1>4. /\ k \in Seq({"save", "delete"}) /\ Len(k) = n
      /\ k[n] = "save" /\ \A i \in 1..Len(lg) : k[i] = lg[i]
  BY DEF Sound
<1>5. f.n \in Nat /\ Len(lg) \in Nat /\ f.n <= Len(lg)
  BY <1>0 DEF Sound
<1>6. /\ f.n + 1 .. Len(lg) \subseteq f.n + 1 .. Len(k)
      /\ n \in f.n + 1 .. Len(k)
      /\ \A m \in f.n + 1 .. Len(lg) : k[m] = lg[m]
  BY <1>4, <1>5
<1> HIDE DEF t, k, last
<1>7. ASSUME NEW i \in 1..Len(t) PROVE SoundOperation(t[i], i, f, k)
  <2>1. SoundOperation(s[i], i, f, lg)
    BY <1>3 DEF Sound, last
  <2>2. CASE i = last
    BY <1>1, <1>2, <1>4, <1>6, <2>1, <2>2 DEF SoundOperation, LogOf
  <2>3. CASE i # last
    <3>1. t[i] = s[i]
      BY <1>3, <2>3 DEF last
    <3> QED
      BY <1>6, <2>1, <3>1 DEF SoundOperation
  <2> QED
    BY <2>2, <2>3
<1>8. InOrder(t)
  <2>1. ASSUME NEW i \in 1..Len(t), NEW j \in 1..Len(t), i < j,
               NEW a \in t[i].claims, NEW b \in t[j].claims
        PROVE  a < b
    <3>1. i # last /\ t[i] = s[i] /\ i \in 1..Len(s) /\ j \in 1..Len(s)
      BY <1>0, <1>3, <2>1 DEF last
    <3>2. CASE b \in s[j].claims
      BY <2>1, <3>1, <3>2 DEF Sound, InOrder
    <3>3. CASE b \notin s[j].claims
      <4>1. b = n
        BY <1>2, <1>3, <2>1, <3>1, <3>3 DEF last
      <4>2. a \in f.n + 1 .. Len(lg)
        BY <2>1, <3>1 DEF Sound, SoundOperation
      <4> QED
        BY <1>5, <4>1, <4>2
    <3> QED
      BY <3>2, <3>3
  <2> QED
    BY <2>1 DEF InOrder
<1>9. [pend EXCEPT !.n = n] \in [entry : 0..MaxOps, n : 0..MaxOps]
      /\ PendingAtTail([pend EXCEPT !.n = n], t)
  <2>1. /\ pend \in [entry : 0..MaxOps, n : 0..MaxOps]
        /\ s[last].entry = pend.entry
    BY DEF Sound, PendingAtTail, last
  <2>2. n \in 0..MaxOps /\ t # <<>>
    BY <1>0, <1>1, <1>3 DEF Numbers
  <2> QED
    BY <1>2, <1>3, <2>1, <2>2 DEF PendingAtTail
<1>10. Sound([pend EXCEPT !.n = n], t, f, k)
  BY <1>0, <1>3, <1>4, <1>5, <1>7, <1>8, <1>9 DEF Sound
<1> QED
  BY <1>10 DEF t, k, last

\* The oldest operation settles, having moved the file to one of its claims or
\* left it.
LEMMA SettlingIsSound ==
  ASSUME NEW pend, NEW s, NEW f, NEW lg, Sound(pend, s, f, lg),
         s # <<>>, pend # NoEntry => Len(s) # 1,
         NEW g \in [n : 0..MaxOps, present : BOOLEAN],
         g.n = f.n \/ g.n \in Head(s).claims
  PROVE  Sound(pend, Tail(s), g, lg)
<1> DEFINE t == Tail(s)
<1>1. /\ t \in Seq(Operations) /\ Len(t) = Len(s) - 1 /\ Len(s) \in Nat /\ Len(s) >= 1
      /\ \A i \in 1..Len(t) : t[i] = s[i + 1] /\ i + 1 \in 1..Len(s)
      /\ Head(s) = s[1] /\ 1 \in 1..Len(s)
  BY DEF Sound
<1>2. f.n \in Nat /\ Len(lg) \in Nat
  BY DEF Sound
<1> HIDE DEF t
<1>3. g.n \in Nat /\ f.n <= g.n /\ g.n <= Len(lg)
  <2>1. s[1].claims \subseteq f.n + 1 .. Len(lg)
    BY <1>1 DEF Sound, SoundOperation
  <2> QED
    BY <1>1, <1>2, <2>1 DEF Sound
<1>4. ASSUME NEW i \in 1..Len(t) PROVE SoundOperation(t[i], i, g, lg)
  <2>1. SoundOperation(s[i + 1], i + 1, f, lg) /\ t[i] = s[i + 1] /\ i + 1 # 1
    BY <1>1 DEF Sound
  <2>2. ASSUME NEW m \in s[i + 1].claims PROVE m \in g.n + 1 .. Len(lg)
    <3>1. m \in f.n + 1 .. Len(lg)
      BY <2>1, <2>2 DEF SoundOperation
    <3>2. \A a \in s[1].claims : a < m
      <4>1. i + 1 \in 1..Len(s) /\ 1 < i + 1
        BY <1>1
      <4> QED
        BY <1>1, <2>2, <4>1 DEF Sound, InOrder
    <3> QED
      BY <1>1, <1>2, <1>3, <3>1, <3>2
  <2> QED
    BY <2>1, <2>2 DEF SoundOperation
<1>5. InOrder(t)
  <2>1. ASSUME NEW i \in 1..Len(t), NEW j \in 1..Len(t), i < j,
               NEW a \in t[i].claims, NEW b \in t[j].claims
        PROVE  a < b
    <3>1. i + 1 < j + 1 /\ i + 1 \in 1..Len(s) /\ j + 1 \in 1..Len(s)
      BY <1>1, <2>1
    <3> QED
      BY <1>1, <2>1, <3>1 DEF Sound, InOrder
  <2> QED
    BY <2>1 DEF InOrder
<1>6. PendingAtTail(pend, t)
  <2>1. CASE pend = NoEntry
    BY <2>1 DEF PendingAtTail
  <2>2. CASE pend # NoEntry
    <3>1. Len(t) \in 1..Len(t) /\ Len(t) + 1 = Len(s)
      BY <1>1, <2>2
    <3>2. t # <<>> /\ t[Len(t)] = s[Len(s)]
      BY <1>1, <3>1
    <3> QED
      BY <2>2, <3>2 DEF Sound, PendingAtTail
  <2> QED
    BY <2>1, <2>2
<1> QED
  BY <1>1, <1>3, <1>4, <1>5, <1>6 DEF Sound, t

\* The oldest operation begins to write one of its claims.
LEMMA BeginningIsSound ==
  ASSUME NEW pend, NEW s, NEW f, NEW lg, Sound(pend, s, f, lg),
         s # <<>>, NEW n \in Head(s).claims
  PROVE  LET t == [s EXCEPT ![1].writing = n]
         IN  /\ Sound(NoEntry, t, f, lg)
             /\ (pend # NoEntry => Len(s) # 1) => Sound(pend, t, f, lg)
<1> DEFINE e == [s[1] EXCEPT !.writing = n]
           t == [s EXCEPT ![1].writing = n]
<1>0. MaxOps \in Nat
  BY StoreAssumption
<1>1. 1 \in 1..Len(s) /\ Len(s) \in Nat /\ s \in Seq(Operations) /\ Head(s) = s[1]
  BY DEF Sound
<1>2. SoundOperation(s[1], 1, f, lg)
  BY <1>1 DEF Sound
<1>3. n \in 0..MaxOps
  <2>1. n \in f.n + 1 .. Len(lg) /\ f.n \in Nat /\ Len(lg) \in Nat /\ Len(lg) <= MaxOps
    BY <1>1, <1>2 DEF Sound, SoundOperation
  <2> QED
    BY <1>0, <2>1
<1>4. /\ e \in Operations /\ e.kind = s[1].kind /\ e.entry = s[1].entry
      /\ e.claims = s[1].claims /\ e.writing = n
  BY <1>1, <1>2, <1>3 DEF SoundOperation, Operations
<1>5. /\ t \in Seq(Operations) /\ Len(t) = Len(s) /\ t[1] = e
      /\ \A i \in 1..Len(s) : i # 1 => t[i] = s[i]
  <2>1. t = [s EXCEPT ![1] = e]
    OBVIOUS
  <2> HIDE DEF t, e
  <2> QED
    BY <1>1, <1>4, <2>1, ExceptSeq
<1> HIDE DEF t, e
<1>6. ASSUME NEW i \in 1..Len(t) PROVE SoundOperation(t[i], i, f, lg)
  <2>1. CASE i = 1
    BY <1>1, <1>2, <1>4, <1>5, <2>1 DEF SoundOperation
  <2>2. CASE i # 1
    BY <1>5, <2>2 DEF Sound
  <2> QED
    BY <2>1, <2>2
<1>7. \A i \in 1..Len(s) : t[i].claims = s[i].claims
  BY <1>4, <1>5
<1>8. InOrder(t)
  BY <1>5, <1>7 DEF Sound, InOrder
<1>9. NoEntry \in [entry : 0..MaxOps, n : 0..MaxOps]
  BY <1>0 DEF NoEntry
<1>10. Sound(NoEntry, t, f, lg)
  BY <1>5, <1>6, <1>8, <1>9 DEF Sound, PendingAtTail
<1>11. ASSUME pend # NoEntry => Len(s) # 1 PROVE Sound(pend, t, f, lg)
  <2>1. PendingAtTail(pend, t)
    <3>1. pend # NoEntry => Len(s) \in 1..Len(s) /\ t[Len(s)] = s[Len(s)] /\ t # <<>>
      BY <1>1, <1>5, <1>11
    <3> QED
      BY <1>5, <3>1 DEF Sound, PendingAtTail
  <2> QED
    BY <1>5, <1>6, <1>8, <2>1 DEF Sound
<1> QED
  BY <1>10, <1>11 DEF t

\* A pending save does not belong to an operation that is being carried out, to
\* a delete, or to a flush of another entry.
LEMMA PendingIsElsewhere ==
  ASSUME NEW pend, NEW s, NEW f, NEW lg, Sound(pend, s, f, lg), s # <<>>,
         \/ Head(s).writing # 0
         \/ Head(s).kind = "delete"
         \/ pend.entry # Head(s).entry
  PROVE  pend # NoEntry => Len(s) # 1
<1>1. Head(s) = s[1]
  BY DEF Sound
<1> QED
  BY <1>1 DEF Sound, PendingAtTail

\* A flush finds the pending save of its own entry: it writes one of its claims.
LEMMA FlushWritesItsClaim ==
  ASSUME NEW pend, NEW s, NEW f, NEW lg, Sound(pend, s, f, lg), s # <<>>,
         Head(s).kind = "flush", pend.entry = Head(s).entry
  PROVE  pend.n \in Head(s).claims
<1>1. Head(s) = s[1] /\ 1 \in 1..Len(s) /\ Len(s) \in 1..Len(s) /\ Len(s) \in Nat
  BY DEF Sound
<1>2. SoundOperation(s[1], 1, f, lg) /\ SoundOperation(s[Len(s)], Len(s), f, lg)
  BY <1>1 DEF Sound
<1>3. pend.entry \in s[1].claims /\ pend.entry \in Nat /\ pend.entry # 0
  <2>1. pend.entry \in f.n + 1 .. Len(lg) /\ f.n \in Nat /\ Len(lg) \in Nat
    BY <1>1, <1>2 DEF SoundOperation, Sound
  <2> QED
    BY <1>1, <1>2, <2>1 DEF SoundOperation
<1>4. pend # NoEntry
  BY <1>3 DEF NoEntry
<1>5. pend.entry \in s[Len(s)].claims /\ pend.n \in s[Len(s)].claims
  BY <1>2, <1>4 DEF Sound, PendingAtTail, SoundOperation
<1>6. Len(s) = 1
  <2>1. CASE 1 < Len(s)
    <3>1. 1 \in 1..Len(s) /\ Len(s) \in 1..Len(s)
      BY <1>1
    <3>2. pend.entry < pend.entry
      BY <1>3, <1>5, <2>1, <3>1 DEF Sound, InOrder
    <3> QED
      BY <1>3, <3>2
  <2>2. Len(s) \in Nat /\ Len(s) >= 1
    BY <1>1
  <2>3. Len(s) = 1 \/ 1 < Len(s)
    BY <2>2
  <2> QED
    BY <2>1, <2>3
<1> QED
  BY <1>1, <1>5, <1>6

-----------------------------------------------------------------------------
\* What an action on one process must establish for the invariant.
LEMMA OneProcessChanges ==
  ASSUME ChainsAreSound, NEW p \in Pids,
         NEW pend, pending' = [pending EXCEPT ![p] = pend],
         NEW s, chain' = [chain EXCEPT ![p] = s],
         NEW f, file' = [file EXCEPT ![p] = f],
         NEW lg, log' = [log EXCEPT ![p] = lg],
         Sound(pend, s, f, lg),
         reader' \in [Pids -> 0..MaxOps + 1],
         settled' \in [Pids -> SUBSET Numbers],
         lost' \in [Pids -> SUBSET Numbers]
  PROVE  ChainsAreSound'
<1>1. /\ pending' \in [Pids -> [entry : 0..MaxOps, n : 0..MaxOps]]
      /\ chain' \in [Pids -> Seq(Operations)]
      /\ file' \in [Pids -> [n : 0..MaxOps, present : BOOLEAN]]
      /\ log' \in [Pids -> Seq({"save", "delete"})]
  BY DEF ChainsAreSound, Sound
<1>2. ASSUME NEW q \in Pids PROVE Sound(pending'[q], chain'[q], file'[q], log'[q])
  <2>1. CASE q = p
    BY <2>1 DEF ChainsAreSound
  <2>2. CASE q # p
    BY <2>2 DEF ChainsAreSound
  <2> QED
    BY <2>1, <2>2
<1> QED
  BY <1>1, <1>2 DEF ChainsAreSound

\* The claims of the head of a sound chain are numbers of requests.
LEMMA HeadClaims ==
  ASSUME ChainsAreSound, NEW p \in Pids, chain[p] # <<>>
  PROVE  Head(chain[p]).claims \in SUBSET Numbers
<1>1. Head(chain[p]) = chain[p][1] /\ 1 \in 1..Len(chain[p]) /\ chain[p] \in Seq(Operations)
  BY DEF ChainsAreSound
<1>2. chain[p][1] \in Operations
  BY <1>1
<1> QED
  BY <1>1, <1>2 DEF Operations

\* A variable that stays may be read as changed for one process to what it is.
LEMMA Untouched ==
  ASSUME ChainsAreSound, NEW p \in Pids
  PROVE  /\ pending' = pending => pending' = [pending EXCEPT ![p] = pending[p]]
         /\ chain' = chain => chain' = [chain EXCEPT ![p] = chain[p]]
         /\ file' = file => file' = [file EXCEPT ![p] = file[p]]
         /\ log' = log => log' = [log EXCEPT ![p] = log[p]]
  BY DEF ChainsAreSound

\* Nothing is requested and nothing on disk to begin with.
LEMMA SoundInit == Init => ChainsAreSound
<1> SUFFICES ASSUME Init PROVE ChainsAreSound
  OBVIOUS
<1>0. MaxOps \in Nat
  BY StoreAssumption
<1>1. ASSUME NEW p \in Pids PROVE Sound(pending[p], chain[p], file[p], log[p])
  <2>1. /\ pending[p] = NoEntry /\ chain[p] = <<>> /\ log[p] = <<>>
        /\ file[p] = [n |-> 0, present |-> FALSE]
    BY DEF Init
  <2>2. /\ NoEntry \in [entry : 0..MaxOps, n : 0..MaxOps]
        /\ <<>> \in Seq(Operations) /\ <<>> \in Seq({"save", "delete"}) /\ Len(<<>>) = 0
        /\ [n |-> 0, present |-> FALSE] \in [n : 0..MaxOps, present : BOOLEAN]
    BY <1>0 DEF NoEntry
  <2> QED
    BY <1>0, <2>1, <2>2 DEF Sound, InOrder, PendingAtTail
<1>2. /\ pending \in [Pids -> [entry : 0..MaxOps, n : 0..MaxOps]]
      /\ reader \in [Pids -> 0..MaxOps + 1]
      /\ settled \in [Pids -> SUBSET Numbers] /\ lost \in [Pids -> SUBSET Numbers]
  BY <1>0 DEF Init, NoEntry, Nobody
<1>3. /\ chain \in [Pids -> Seq(Operations)]
      /\ log \in [Pids -> Seq({"save", "delete"})]
      /\ file \in [Pids -> [n : 0..MaxOps, present : BOOLEAN]]
  BY <1>0 DEF Init
<1> QED
  BY <1>1, <1>2, <1>3 DEF ChainsAreSound

\* No step of the program or of the disk makes a chain unsound.
LEMMA SoundStep == ChainsAreSound /\ [Next]_vars => ChainsAreSound'
<1> SUFFICES ASSUME ChainsAreSound, [Next]_vars PROVE ChainsAreSound'
  OBVIOUS
<1>0. MaxOps \in Nat
  BY StoreAssumption
<1>t. /\ reader \in [Pids -> 0..MaxOps + 1]
      /\ settled \in [Pids -> SUBSET Numbers]
      /\ lost \in [Pids -> SUBSET Numbers]
      /\ \A p \in Pids : Sound(pending[p], chain[p], file[p], log[p])
  BY DEF ChainsAreSound
<1>1. ASSUME NEW p \in Pids, SaveCoalesced(p) PROVE ChainsAreSound'
  <2> DEFINE n == Len(log[p]) + 1
             pend == [pending[p] EXCEPT !.n = n]
             s == [chain[p] EXCEPT ![Len(chain[p])].claims = @ \cup {n}]
             lg == Append(log[p], "save")
  <2>1. /\ pending' = [pending EXCEPT ![p] = pend]
        /\ chain' = [chain EXCEPT ![p] = s]
        /\ log' = [log EXCEPT ![p] = lg]
        /\ file' = file /\ reader' = reader /\ settled' = settled /\ lost' = lost
        /\ pending[p] # NoEntry /\ n <= MaxOps
    BY <1>1 DEF SaveCoalesced, Requested, NextNumber, LastOf
  <2>2. Sound(pend, s, file[p], lg)
    BY <1>t, <2>1, CoalescingIsSound
  <2>3. file' = [file EXCEPT ![p] = file[p]]
    BY <2>1, Untouched
  <2> HIDE DEF n, pend, s, lg
  <2> QED
    BY <1>t, <2>1, <2>2, <2>3, OneProcessChanges
<1>2. ASSUME NEW p \in Pids, SaveChained(p) PROVE ChainsAreSound'
  <2> DEFINE n == Len(log[p]) + 1
             pend == [entry |-> n, n |-> n]
             s == Append(chain[p], Operation("flush", n, n))
             lg == Append(log[p], "save")
  <2>1. /\ pending' = [pending EXCEPT ![p] = pend]
        /\ chain' = [chain EXCEPT ![p] = s]
        /\ log' = [log EXCEPT ![p] = lg]
        /\ file' = file /\ reader' = reader /\ settled' = settled /\ lost' = lost
        /\ n <= MaxOps
    BY <1>2 DEF SaveChained, Requested, NextNumber
  <2>2. Sound(pend, s, file[p], lg)
    <3>1. n \in 0..MaxOps
      BY <1>0, <1>t, <2>1 DEF Sound
    <3>2. LogOf("flush") = "save"
      BY DEF LogOf
    <3> QED
      BY <1>t, <2>1, <3>1, <3>2, AppendIsSound
  <2>3. file' = [file EXCEPT ![p] = file[p]]
    BY <2>1, Untouched
  <2> HIDE DEF n, pend, s, lg
  <2> QED
    BY <1>t, <2>1, <2>2, <2>3, OneProcessChanges
<1>3. ASSUME NEW p \in Pids, Delete(p) PROVE ChainsAreSound'
  <2> DEFINE n == Len(log[p]) + 1
             s == Append(chain[p], Operation("delete", 0, n))
             lg == Append(log[p], "delete")
  <2>1. /\ pending' = [pending EXCEPT ![p] = NoEntry]
        /\ chain' = [chain EXCEPT ![p] = s]
        /\ log' = [log EXCEPT ![p] = lg]
        /\ file' = file /\ reader' = reader /\ settled' = settled /\ lost' = lost
        /\ n <= MaxOps
    BY <1>3 DEF Delete, Requested, NextNumber
  <2>2. Sound(NoEntry, s, file[p], lg)
    <3>1. 0 \in 0..MaxOps
      BY <1>0
    <3>2. LogOf("delete") = "delete"
      BY DEF LogOf
    <3> QED
      BY <1>t, <2>1, <3>1, <3>2, AppendIsSound
  <2>3. file' = [file EXCEPT ![p] = file[p]]
    BY <2>1, Untouched
  <2> HIDE DEF n, s, lg
  <2> QED
    BY <1>t, <2>1, <2>2, <2>3, OneProcessChanges
<1>4. ASSUME NEW p \in Pids, chain[p] # <<>>,
             pending[p] # NoEntry => Len(chain[p]) # 1,
             NEW g \in [n : 0..MaxOps, present : BOOLEAN],
             g.n = file[p].n \/ g.n \in Head(chain[p]).claims,
             file' = [file EXCEPT ![p] = g],
             chain' = [chain EXCEPT ![p] = Tail(@)],
             pending' = pending, log' = log, reader' = reader,
             settled' \in [Pids -> SUBSET Numbers], lost' \in [Pids -> SUBSET Numbers]
      PROVE  ChainsAreSound'
  <2>1. Sound(pending[p], Tail(chain[p]), g, log[p])
    BY <1>t, <1>4, SettlingIsSound
  <2>2. /\ pending' = [pending EXCEPT ![p] = pending[p]]
        /\ log' = [log EXCEPT ![p] = log[p]]
    BY <1>4, Untouched
  <2>3. chain' = [chain EXCEPT ![p] = Tail(chain[p])] /\ reader' \in [Pids -> 0..MaxOps + 1]
    BY <1>t, <1>4
  <2> QED
    BY <1>4, <2>1, <2>2, <2>3, OneProcessChanges
<1>5. ASSUME NEW p \in Pids, FlushDropped(p) PROVE ChainsAreSound'
  <2>1. chain[p] # <<>> /\ pending[p].entry # Head(chain[p]).entry
    BY <1>5 DEF FlushDropped, Idle
  <2>2. pending[p] # NoEntry => Len(chain[p]) # 1
    BY <1>t, <2>1, PendingIsElsewhere
  <2>3. /\ settled' \in [Pids -> SUBSET Numbers] /\ lost' = lost
        /\ chain' = [chain EXCEPT ![p] = Tail(@)]
        /\ file' = file /\ pending' = pending /\ log' = log /\ reader' = reader
    BY <1>5, <1>t, <2>1, HeadClaims DEF FlushDropped, SettleHead
  <2>4. file' = [file EXCEPT ![p] = file[p]]
        /\ file[p] \in [n : 0..MaxOps, present : BOOLEAN]
    BY <2>3, Untouched DEF ChainsAreSound
  <2> QED
    BY <1>4, <1>t, <2>1, <2>2, <2>3, <2>4
<1>6. ASSUME NEW p \in Pids, FlushBegins(p) PROVE ChainsAreSound'
  <2> DEFINE s == [chain[p] EXCEPT ![1].writing = pending[p].n]
  <2>1. /\ chain[p] # <<>> /\ Head(chain[p]).kind = "flush"
        /\ pending[p].entry = Head(chain[p]).entry
        /\ chain' = [chain EXCEPT ![p] = s]
        /\ pending' = [pending EXCEPT ![p] = NoEntry]
        /\ file' = file /\ log' = log /\ reader' = reader /\ settled' = settled /\ lost' = lost
    BY <1>6 DEF FlushBegins, Idle
  <2>2. pending[p].n \in Head(chain[p]).claims
    BY <1>t, <2>1, FlushWritesItsClaim
  <2>3. Sound(NoEntry, s, file[p], log[p])
    BY <1>t, <2>1, <2>2, BeginningIsSound
  <2>4. file' = [file EXCEPT ![p] = file[p]] /\ log' = [log EXCEPT ![p] = log[p]]
    BY <2>1, Untouched
  <2> HIDE DEF s
  <2> QED
    BY <1>t, <2>1, <2>3, <2>4, OneProcessChanges
<1>7. ASSUME NEW p \in Pids, DeleteBegins(p) PROVE ChainsAreSound'
  <2>0. PICK n \in Head(chain[p]).claims : chain' = [chain EXCEPT ![p][1].writing = n]
    BY <1>7 DEF DeleteBegins
  <2> DEFINE s == [chain[p] EXCEPT ![1].writing = n]
  <2>1. /\ chain[p] # <<>> /\ Head(chain[p]).kind = "delete"
        /\ chain' = [chain EXCEPT ![p] = s]
        /\ pending' = pending
        /\ file' = file /\ log' = log /\ reader' = reader /\ settled' = settled /\ lost' = lost
    BY <1>7, <2>0 DEF DeleteBegins, Idle
  <2>2. pending[p] # NoEntry => Len(chain[p]) # 1
    BY <1>t, <2>1, PendingIsElsewhere
  <2>3. Sound(pending[p], s, file[p], log[p])
    BY <1>t, <2>0, <2>1, <2>2, BeginningIsSound
  <2>4. /\ file' = [file EXCEPT ![p] = file[p]] /\ log' = [log EXCEPT ![p] = log[p]]
        /\ pending' = [pending EXCEPT ![p] = pending[p]]
    BY <2>1, Untouched
  <2> HIDE DEF s
  <2> QED
    BY <1>t, <2>1, <2>3, <2>4, OneProcessChanges
<1>8. ASSUME NEW p \in Pids, Busy(p)
      PROVE  /\ chain[p] # <<>>
             /\ pending[p] # NoEntry => Len(chain[p]) # 1
             /\ Head(chain[p]).writing \in Head(chain[p]).claims
             /\ Head(chain[p]).writing \in 0..MaxOps
             /\ Head(chain[p]).claims \in SUBSET Numbers
  <2>1. chain[p] # <<>> /\ Head(chain[p]).writing # 0
    BY <1>8 DEF Busy
  <2>2. Head(chain[p]) = chain[p][1] /\ 1 \in 1..Len(chain[p])
    BY <1>t, <2>1 DEF Sound
  <2>3. SoundOperation(chain[p][1], 1, file[p], log[p])
    BY <1>t, <2>2 DEF Sound
  <2>4. pending[p] # NoEntry => Len(chain[p]) # 1
    BY <1>t, <2>1, PendingIsElsewhere
  <2> QED
    BY <2>1, <2>2, <2>3, <2>4, HeadClaims DEF SoundOperation, Operations
<1>9. ASSUME NEW p \in Pids, DiskDone(p) PROVE ChainsAreSound'
  <2> DEFINE g == [n |-> Head(chain[p]).writing, present |-> Head(chain[p]).kind = "flush"]
  <2>1. /\ Busy(p) /\ chain' = [chain EXCEPT ![p] = Tail(@)]
        /\ file' = [file EXCEPT ![p] = g]
        /\ pending' = pending /\ log' = log /\ reader' = reader /\ lost' = lost
        /\ settled' = [settled EXCEPT ![p] = @ \cup Head(chain[p]).claims]
    BY <1>9 DEF DiskDone, SettleHead
  <2>2. g \in [n : 0..MaxOps, present : BOOLEAN] /\ g.n \in Head(chain[p]).claims
    BY <1>8, <2>1
  <2>3. settled' \in [Pids -> SUBSET Numbers]
    BY <1>8, <1>t, <2>1
  <2> HIDE DEF g
  <2> QED
    BY <1>4, <1>8, <1>t, <2>1, <2>2, <2>3
<1>10. ASSUME NEW p \in Pids, WriteDropped(p) \/ DiskFailed(p) PROVE ChainsAreSound'
  <2>1. /\ Busy(p) /\ chain' = [chain EXCEPT ![p] = Tail(@)]
        /\ file' = file /\ pending' = pending /\ log' = log /\ reader' = reader
        /\ lost' = [lost EXCEPT ![p] = @ \cup Head(chain[p]).claims]
        /\ \/ settled' = [settled EXCEPT ![p] = @ \cup Head(chain[p]).claims]
           \/ settled' = [settled EXCEPT ![p] = @]
    BY <1>10 DEF WriteDropped, DiskFailed, SettleHead
  <2>2. settled' \in [Pids -> SUBSET Numbers] /\ lost' \in [Pids -> SUBSET Numbers]
    BY <1>8, <1>t, <2>1
  <2>3. file' = [file EXCEPT ![p] = file[p]]
        /\ file[p] \in [n : 0..MaxOps, present : BOOLEAN]
    BY <2>1, Untouched DEF ChainsAreSound
  <2> QED
    BY <1>4, <1>8, <2>1, <2>2, <2>3
<1>11. ASSUME NEW p \in Pids, LoadAtOnce(p) \/ LoadReads(p) PROVE ChainsAreSound'
  <2>1. /\ pending' = pending /\ chain' = chain /\ file' = file /\ log' = log
        /\ settled' = settled /\ lost' = lost
        /\ \/ reader' = [reader EXCEPT ![p] = Len(log[p])]
           \/ reader' = [reader EXCEPT ![p] = Nobody]
    BY <1>11 DEF LoadAtOnce, LoadReads
  <2>2. Len(log[p]) \in 0..MaxOps + 1 /\ Nobody \in 0..MaxOps + 1
    BY <1>0, <1>t DEF Sound, Nobody
  <2>3. reader' \in [Pids -> 0..MaxOps + 1]
    BY <1>t, <2>1, <2>2
  <2> QED
    BY <2>1, <2>3 DEF ChainsAreSound
<1>12. ASSUME Crash PROVE ChainsAreSound'
  <2>1. ASSUME NEW p \in Pids
        PROVE  /\ SubSeq(log[p], 1, file[p].n) \in Seq({"save", "delete"})
               /\ Sound(NoEntry, <<>>, file[p], SubSeq(log[p], 1, file[p].n))
    <3>1. /\ log[p] \in Seq({"save", "delete"}) /\ file[p].n \in 0..Len(log[p])
          /\ file[p].n \in Nat /\ file[p].n <= MaxOps
          /\ file[p] \in [n : 0..MaxOps, present : BOOLEAN]
      BY <1>0, <1>t DEF Sound
    <3>2. /\ SubSeq(log[p], 1, file[p].n) \in Seq({"save", "delete"})
          /\ Len(SubSeq(log[p], 1, file[p].n)) = file[p].n
      BY <3>1
    <3>3. /\ NoEntry \in [entry : 0..MaxOps, n : 0..MaxOps]
          /\ <<>> \in Seq(Operations) /\ Len(<<>>) = 0
      BY <1>0 DEF NoEntry
    <3> QED
      BY <3>1, <3>2, <3>3 DEF Sound, InOrder, PendingAtTail
  <2>2. /\ pending' = [p \in Pids |-> NoEntry]
        /\ chain' = [p \in Pids |-> <<>>]
        /\ log' = [p \in Pids |-> SubSeq(log[p], 1, file[p].n)]
        /\ file' = file
    BY <1>12 DEF Crash
  <2>3. \A p \in Pids : Sound(pending'[p], chain'[p], file'[p], log'[p])
    BY <2>1, <2>2
  <2>4. /\ pending' \in [Pids -> [entry : 0..MaxOps, n : 0..MaxOps]]
        /\ chain' \in [Pids -> Seq(Operations)]
        /\ log' \in [Pids -> Seq({"save", "delete"})]
        /\ file' \in [Pids -> [n : 0..MaxOps, present : BOOLEAN]]
    BY <1>0, <2>1, <2>2 DEF NoEntry, ChainsAreSound
  <2>5. /\ reader' \in [Pids -> 0..MaxOps + 1]
        /\ settled' \in [Pids -> SUBSET Numbers] /\ lost' \in [Pids -> SUBSET Numbers]
    BY <1>0, <1>12, <1>t DEF Crash, Nobody
  <2> QED
    BY <2>3, <2>4, <2>5 DEF ChainsAreSound
<1>13. CASE UNCHANGED vars
  BY <1>13 DEF vars, ChainsAreSound
<1> QED
  BY <1>1, <1>2, <1>3, <1>5, <1>6, <1>7, <1>9, <1>10, <1>11, <1>12, <1>13
  DEF Next, ChainStep

\* In every reachable state the chain of each process is sound.
THEOREM ChainsStaySound == Spec => []ChainsAreSound
  BY SoundInit, SoundStep, PTL DEF Spec

\* Every variable keeps its type, and only the operation at the head of a chain
\* is ever at work on the disk.
THEOREM StoreTypeCorrect == Spec => []TypeOK
<1>1. ChainsAreSound => TypeOK
  <2> SUFFICES ASSUME ChainsAreSound PROVE TypeOK
    OBVIOUS
  <2>1. ASSUME NEW p \in Pids, NEW i \in 2..Len(chain[p]) PROVE chain[p][i].writing = 0
    <3>1. i \in 1..Len(chain[p]) /\ i # 1
      BY DEF ChainsAreSound
    <3> QED
      BY <3>1 DEF ChainsAreSound, Sound, SoundOperation
  <2> QED
    BY <2>1 DEF ChainsAreSound, TypeOK, Operations
<1> QED
  BY <1>1, ChainsStaySound, PTL

\* The promise a coalesced save gets is that of the write that carries it.
THEOREM PendingBelongsToTail == Spec => []PendingIsTail
<1>1. ChainsAreSound => PendingIsTail
  BY DEF ChainsAreSound, Sound, PendingAtTail, PendingIsTail, LastOf
<1> QED
  BY <1>1, ChainsStaySound, PTL

-----------------------------------------------------------------------------
\* Every step is a request, a performed request, or a crash of the ordered
\* store, or nothing there.
LEMMA OrderedStep ==
  ChainsAreSound /\ [Next]_vars => [Ordered!Next]_(Ordered!StoreVars)
<1> SUFFICES ASSUME ChainsAreSound, [Next]_vars
             PROVE  [Ordered!Next]_(Ordered!StoreVars)
  OBVIOUS
<1>1. ASSUME NEW p \in Pids, SaveCoalesced(p) \/ SaveChained(p) PROVE Ordered!Request(p, "save")
  BY <1>1 DEF SaveCoalesced, SaveChained, Requested, Ordered!Request
<1>2. ASSUME NEW p \in Pids, Delete(p) PROVE Ordered!Request(p, "delete")
  BY <1>2 DEF Delete, Requested, Ordered!Request
<1>3. ASSUME NEW p \in Pids, DiskDone(p)
      PROVE  \E n \in 1..Len(log[p]) : Ordered!Perform(p, n)
  <2> DEFINE op == Head(chain[p])
  <2>1. /\ chain[p] # <<>> /\ op.writing # 0 /\ log' = log
        /\ file' = [file EXCEPT ![p] = [n |-> op.writing, present |-> op.kind = "flush"]]
    BY <1>3 DEF DiskDone, Busy
  <2>2. Sound(pending[p], chain[p], file[p], log[p])
    BY DEF ChainsAreSound
  <2>3. SoundOperation(op, 1, file[p], log[p])
    <3>1. op = chain[p][1] /\ 1 \in 1..Len(chain[p])
      BY <2>1, <2>2 DEF Sound
    <3> QED
      BY <2>2, <3>1 DEF Sound
  <2>4. /\ op.writing \in file[p].n + 1 .. Len(log[p])
        /\ log[p][op.writing] = LogOf(op.kind) /\ op.kind \in {"flush", "delete"}
    BY <2>1, <2>3 DEF SoundOperation, Operations
  <2>5. op.writing \in 1..Len(log[p])
    BY <2>2, <2>4 DEF Sound
  <2>6. (op.kind = "flush") = (log[p][op.writing] = "save")
    BY <2>4 DEF LogOf
  <2> HIDE DEF op
  <2> QED
    BY <2>1, <2>4, <2>5, <2>6 DEF Ordered!Perform
<1>4. ASSUME Crash PROVE Ordered!Crash
  BY <1>4 DEF Crash, Ordered!Crash
<1>5. ASSUME NEW p \in Pids,
             \/ FlushDropped(p) \/ FlushBegins(p) \/ DeleteBegins(p) \/ WriteDropped(p)
             \/ DiskFailed(p) \/ LoadAtOnce(p) \/ LoadReads(p)
      PROVE  UNCHANGED Ordered!StoreVars
  BY <1>5 DEF FlushDropped, FlushBegins, DeleteBegins, WriteDropped, DiskFailed,
              LoadAtOnce, LoadReads, Ordered!StoreVars
<1>6. CASE UNCHANGED vars
  BY <1>6 DEF vars, Ordered!StoreVars
<1> QED
  BY <1>1, <1>2, <1>3, <1>4, <1>5, <1>6 DEF Next, ChainStep, Ordered!Next

\* The store implements the ordered store: what is on disk moves through the
\* requests in the order in which they were made, and never back.
THEOREM StoreKeepsOrder == Spec => PreservesOrder
<1>1. Init => Ordered!Init
  BY DEF Init, Ordered!Init
<1> QED
  BY <1>1, ChainsStaySound, OrderedStep, PTL DEF Spec, PreservesOrder, Ordered!Spec

-----------------------------------------------------------------------------
InClaims(s, n) == \E i \in 1..Len(s) : n \in s[i].claims

\* A delete requested after n is still to come, or has failed.
Overtaken(n, s, lg, ls) ==
  \E m \in n + 1 .. Len(lg) : lg[m] = "delete" /\ (InClaims(s, m) \/ m \in ls)

AccountedFor(n, s, f, lg, ls) ==
  InClaims(s, n) \/ f.n >= n \/ n \in ls \/ Overtaken(n, s, lg, ls)

\* A save that has not begun will be written when its turn comes, or a delete
\* is to come after it.
FlushesCount(pend, s) ==
  \A i \in 1..Len(s) : s[i].kind = "flush" /\ s[i].writing = 0 =>
    \/ i = Len(s) /\ pend # NoEntry /\ pend.entry = s[i].entry
    \/ \E j \in i + 1 .. Len(s) : s[j].kind = "delete"

\* What is or will be written is the newest of the requests that got its promise.
NewestIsWritten(pend, s) ==
  /\ \A i \in 1..Len(s) : s[i].writing # 0 => \A m \in s[i].claims : m <= s[i].writing
  /\ \A i \in 1..Len(s) : s[i].kind = "delete" => \A m, n \in s[i].claims : m = n
  /\ pend # NoEntry => \A m \in s[Len(s)].claims : m <= pend.n

LatestIsKept(s, f, lg, ls) ==
  IF s = <<>> THEN f.n = Len(lg) \/ Len(lg) \in ls ELSE Len(lg) \in s[Len(s)].claims

\* What holds of the requests of one process.
Kept(pend, s, f, lg, ls, st) ==
  /\ ls \subseteq 1..Len(lg) /\ st \subseteq 1..Len(lg)
  /\ \A n \in 1..Len(lg) : AccountedFor(n, s, f, lg, ls)
  /\ \A i \in 1..Len(s) : s[i].claims \cap st = {}
  /\ FlushesCount(pend, s)
  /\ NewestIsWritten(pend, s)
  /\ LatestIsKept(s, f, lg, ls)

\* The ways in which a chain and a log change.
IsJoined(t, s, kind, entry, n) ==
  /\ Len(t) = Len(s) + 1 /\ \A i \in 1..Len(s) : t[i] = s[i]
  /\ t[Len(s) + 1].kind = kind /\ t[Len(s) + 1].entry = entry
  /\ t[Len(s) + 1].claims = {n} /\ t[Len(s) + 1].writing = 0

IsCoalesced(t, s, n) ==
  /\ Len(t) = Len(s)
  /\ t[Len(s)].claims = s[Len(s)].claims \cup {n}
  /\ \A i \in 1..Len(s) : /\ t[i].kind = s[i].kind /\ t[i].entry = s[i].entry
                          /\ t[i].writing = s[i].writing
                          /\ i # Len(s) => t[i].claims = s[i].claims

IsBegun(t, s, n) ==
  /\ Len(t) = Len(s)
  /\ t[1].writing = n
  /\ \A i \in 1..Len(s) : /\ t[i].kind = s[i].kind /\ t[i].entry = s[i].entry
                          /\ t[i].claims = s[i].claims
                          /\ i # 1 => t[i].writing = s[i].writing

IsLogged(k, lg) == Len(k) = Len(lg) + 1 /\ \A m \in 1..Len(lg) : k[m] = lg[m]

\* The inductive invariant, together with ChainsAreSound.
RequestsAreKept ==
  \A p \in Pids :
    /\ Kept(pending[p], chain[p], file[p], log[p], lost[p], settled[p])
    /\ reader[p] \in 0..Len(log[p]) \cup {Nobody}

-----------------------------------------------------------------------------
\* The claims of an operation are numbers of requests, of the kind it carries out.
LEMMA ClaimsAreRequests ==
  ASSUME NEW pend, NEW s, NEW f, NEW lg, Sound(pend, s, f, lg),
         NEW i \in 1..Len(s), NEW n \in s[i].claims
  PROVE  /\ n \in 1..Len(lg) /\ n \in Nat /\ n > f.n
         /\ lg[n] = LogOf(s[i].kind)
<1>1. SoundOperation(s[i], i, f, lg) /\ f.n \in Nat /\ Len(lg) \in Nat
  BY DEF Sound
<1>2. n \in f.n + 1 .. Len(lg)
  BY <1>1 DEF SoundOperation
<1> QED
  BY <1>1, <1>2 DEF SoundOperation

\* A request belongs to one operation only.
LEMMA ClaimedOnce ==
  ASSUME NEW pend, NEW s, NEW f, NEW lg, Sound(pend, s, f, lg),
         NEW i \in 1..Len(s), NEW j \in 1..Len(s), NEW n \in s[i].claims, n \in s[j].claims
  PROVE  i = j
<1>1. n \in Nat
  BY ClaimsAreRequests
<1>2. Len(s) \in Nat /\ InOrder(s)
  BY DEF Sound
<1>3. ~ (i < j)
  <2>1. i < j => n < n
    BY <1>2 DEF InOrder
  <2> QED
    BY <1>1, <2>1
<1>4. ~ (j < i)
  <2>1. j < i => n < n
    BY <1>2 DEF InOrder
  <2> QED
    BY <1>1, <2>1
<1> QED
  BY <1>2, <1>3, <1>4

\* More claims, a longer log and more failures account for what they did before.
LEMMA MoreIsAccounted ==
  ASSUME NEW s, NEW t, NEW f, NEW lg, NEW k, NEW ls,
         Len(lg) \in Nat, Len(k) \in Nat, Len(k) >= Len(lg),
         \A m \in 1..Len(lg) : k[m] = lg[m],
         \A m : InClaims(s, m) => InClaims(t, m),
         NEW n \in 1..Len(lg), AccountedFor(n, s, f, lg, ls)
  PROVE  AccountedFor(n, t, f, k, ls)
<1>1. ASSUME Overtaken(n, s, lg, ls) PROVE Overtaken(n, t, k, ls)
  <2>1. PICK m \in n + 1 .. Len(lg) : lg[m] = "delete" /\ (InClaims(s, m) \/ m \in ls)
    BY <1>1 DEF Overtaken
  <2>2. m \in n + 1 .. Len(k) /\ m \in 1..Len(lg)
    BY <2>1
  <2> QED
    BY <2>1, <2>2 DEF Overtaken
<1> QED
  BY <1>1 DEF AccountedFor

\* A new operation joins the end of the chain.
LEMMA AppendKeeps ==
  ASSUME NEW pend, NEW s, NEW f, NEW lg, NEW ls, NEW st,
         Sound(pend, s, f, lg), Kept(pend, s, f, lg, ls, st),
         NEW t, NEW k, NEW n, n = Len(lg) + 1, NEW kind, NEW entry,
         IsJoined(t, s, kind, entry, n), IsLogged(k, lg),
         NEW q,
         \/ q = NoEntry /\ kind = "delete"
         \/ pend = NoEntry /\ q = [entry |-> n, n |-> n] /\ kind = "flush" /\ entry = n
  PROVE  Kept(q, t, f, k, ls, st)
<1> /\ Len(t) = Len(s) + 1 /\ \A i \in 1..Len(s) : t[i] = s[i]
    /\ t[Len(s) + 1].kind = kind /\ t[Len(s) + 1].entry = entry
    /\ t[Len(s) + 1].claims = {n} /\ t[Len(s) + 1].writing = 0
    /\ Len(k) = n /\ \A m \in 1..Len(lg) : k[m] = lg[m]
  BY DEF IsJoined, IsLogged
<1>0. Len(s) \in Nat /\ Len(lg) \in Nat /\ n \in Nat /\ n \in 1..Len(k)
  BY DEF Sound
<1>1. \A i \in 1..Len(t) : i = Len(s) + 1 \/ i \in 1..Len(s)
  BY <1>0
<1>2. \A i \in 1..Len(s) : i \in 1..Len(t)
  BY <1>0
<1>3. Len(s) + 1 \in 1..Len(t)
  BY <1>0
<1>4. \A m : InClaims(s, m) => InClaims(t, m)
  BY <1>2 DEF InClaims
<1>5. ASSUME NEW m \in 1..Len(k) PROVE AccountedFor(m, t, f, k, ls)
  <2>1. CASE m = n
    <3>1. InClaims(t, m)
      BY <1>3, <2>1 DEF InClaims
    <3> QED
      BY <3>1 DEF AccountedFor
  <2>2. CASE m \in 1..Len(lg)
    <3>1. AccountedFor(m, s, f, lg, ls)
      BY <2>2 DEF Kept
    <3>2. Len(k) \in Nat /\ Len(k) >= Len(lg)
      BY <1>0
    <3> QED
      BY <1>0, <1>4, <2>2, <3>1, <3>2, MoreIsAccounted
  <2> QED
    BY <1>0, <2>1, <2>2
<1>6. 1..Len(lg) \subseteq 1..Len(k) /\ n \notin 1..Len(lg)
  BY <1>0
<1>7. ls \subseteq 1..Len(k) /\ st \subseteq 1..Len(k) /\ n \notin st
  BY <1>6 DEF Kept
<1>8. \A i \in 1..Len(t) : t[i].claims \cap st = {}
  BY <1>1, <1>7 DEF Kept
<1>9. q # NoEntry => q.entry = n /\ q.n = n /\ t[Len(s) + 1].kind = "flush"
                      /\ t[Len(s) + 1].entry = n
  OBVIOUS
<1>10. t[Len(s) + 1].kind = "flush" => q # NoEntry /\ pend = NoEntry
  BY <1>0 DEF NoEntry
<1>11. FlushesCount(q, t)
  <2>1. ASSUME NEW i \in 1..Len(t), t[i].kind = "flush", t[i].writing = 0,
               ~ (i = Len(t) /\ q # NoEntry /\ q.entry = t[i].entry)
        PROVE  \E j \in i + 1 .. Len(t) : t[j].kind = "delete"
    <3>1. i \in 1..Len(s) /\ t[i] = s[i]
      BY <1>1, <1>9, <1>10, <2>1
    <3>2. CASE q = NoEntry
      <4>1. t[Len(s) + 1].kind = "delete" /\ Len(s) + 1 \in i + 1 .. Len(t)
        BY <1>0, <1>10, <3>1, <3>2
      <4> QED
        BY <4>1
    <3>3. CASE q # NoEntry
      <4>1. pend = NoEntry
        BY <3>3
      <4>2. PICK j \in i + 1 .. Len(s) : s[j].kind = "delete"
        BY <2>1, <3>1, <4>1 DEF Kept, FlushesCount
      <4>3. j \in i + 1 .. Len(t) /\ j \in 1..Len(s)
        BY <1>0, <3>1, <4>2
      <4> QED
        BY <4>2, <4>3
    <3> QED
      BY <3>2, <3>3
  <2> QED
    BY <2>1 DEF FlushesCount
<1>12. NewestIsWritten(q, t)
  <2>1. \A i \in 1..Len(t) : t[i].writing # 0 => \A m \in t[i].claims : m <= t[i].writing
    BY <1>1 DEF Kept, NewestIsWritten
  <2>2. \A i \in 1..Len(t) : t[i].kind = "delete" => \A a, b \in t[i].claims : a = b
    BY <1>1 DEF Kept, NewestIsWritten
  <2>3. q # NoEntry => \A m \in t[Len(t)].claims : m <= q.n
    BY <1>0, <1>9
  <2> QED
    BY <2>1, <2>2, <2>3 DEF NewestIsWritten
<1>13. LatestIsKept(t, f, k, ls)
  <2>1. t # <<>>
    BY <1>0
  <2> QED
    BY <2>1 DEF LatestIsKept
<1> QED
  BY <1>5, <1>7, <1>8, <1>11, <1>12, <1>13 DEF Kept

\* A save is coalesced into the operation at the end.
LEMMA CoalescingKeeps ==
  ASSUME NEW pend, NEW s, NEW f, NEW lg, NEW ls, NEW st,
         Sound(pend, s, f, lg), Kept(pend, s, f, lg, ls, st), pend # NoEntry,
         NEW t, NEW k, NEW n, n = Len(lg) + 1,
         IsCoalesced(t, s, n), IsLogged(k, lg),
         NEW q, q # NoEntry, q.entry = pend.entry, q.n = n
  PROVE  Kept(q, t, f, k, ls, st)
<1> /\ Len(t) = Len(s)
    /\ t[Len(s)].claims = s[Len(s)].claims \cup {n}
    /\ \A i \in 1..Len(s) : /\ t[i].kind = s[i].kind /\ t[i].entry = s[i].entry
                            /\ t[i].writing = s[i].writing
                            /\ i # Len(s) => t[i].claims = s[i].claims
    /\ Len(k) = n /\ \A m \in 1..Len(lg) : k[m] = lg[m]
  BY DEF IsCoalesced, IsLogged
<1>0. /\ Len(s) \in Nat /\ Len(lg) \in Nat /\ n \in Nat /\ n \in 1..Len(k)
      /\ Len(s) \in 1..Len(s) /\ s # <<>> /\ t # <<>>
      /\ s[Len(s)].kind = "flush" /\ s[Len(s)].writing = 0
  BY DEF Sound, PendingAtTail
<1>1. \A i \in 1..Len(s) : s[i].claims \subseteq t[i].claims
  BY <1>0
<1>2. \A m : InClaims(s, m) => InClaims(t, m)
  BY <1>1 DEF InClaims
<1>3. ASSUME NEW m \in 1..Len(k) PROVE AccountedFor(m, t, f, k, ls)
  <2>1. CASE m = n
    <3>1. InClaims(t, m)
      BY <1>0, <2>1 DEF InClaims
    <3> QED
      BY <3>1 DEF AccountedFor
  <2>2. CASE m \in 1..Len(lg)
    <3>1. AccountedFor(m, s, f, lg, ls)
      BY <2>2 DEF Kept
    <3>2. Len(k) \in Nat /\ Len(k) >= Len(lg)
      BY <1>0
    <3> QED
      BY <1>0, <1>2, <2>2, <3>1, <3>2, MoreIsAccounted
  <2> QED
    BY <1>0, <2>1, <2>2
<1>4. 1..Len(lg) \subseteq 1..Len(k) /\ n \notin 1..Len(lg)
  BY <1>0
<1>5. ls \subseteq 1..Len(k) /\ st \subseteq 1..Len(k) /\ n \notin st
  BY <1>4 DEF Kept
<1>6. \A i \in 1..Len(t) : t[i].claims \cap st = {}
  BY <1>0, <1>5 DEF Kept
<1>7. FlushesCount(q, t)
  <2>1. \A j \in 1..Len(s) : t[j].kind = s[j].kind
    OBVIOUS
  <2>2. ASSUME NEW i \in 1..Len(t), t[i].kind = "flush", t[i].writing = 0
        PROVE  \/ i = Len(t) /\ q # NoEntry /\ q.entry = t[i].entry
               \/ \E j \in i + 1 .. Len(t) : t[j].kind = "delete"
    <3>1. i \in 1..Len(s) /\ s[i].kind = "flush" /\ s[i].writing = 0 /\ t[i].entry = s[i].entry
      BY <2>2
    <3>2. \A j \in i + 1 .. Len(s) : j \in 1..Len(s)
      BY <1>0, <3>1
    <3> QED
      BY <2>1, <3>1, <3>2 DEF Kept, FlushesCount
  <2> QED
    BY <2>2 DEF FlushesCount
<1>8. NewestIsWritten(q, t)
  <2>1. ASSUME NEW i \in 1..Len(t), t[i].writing # 0, NEW m \in t[i].claims
        PROVE  m <= t[i].writing
    <3>1. i # Len(s) /\ i \in 1..Len(s)
      BY <1>0, <2>1
    <3> QED
      BY <2>1, <3>1 DEF Kept, NewestIsWritten
  <2>2. ASSUME NEW i \in 1..Len(t), t[i].kind = "delete", NEW a \in t[i].claims, NEW b \in t[i].claims
        PROVE  a = b
    <3>1. i # Len(s) /\ i \in 1..Len(s)
      BY <1>0, <2>2
    <3> QED
      BY <2>2, <3>1 DEF Kept, NewestIsWritten
  <2>3. ASSUME NEW m \in t[Len(t)].claims PROVE m <= q.n
    <3>1. m = n \/ m \in s[Len(s)].claims
      OBVIOUS
    <3>2. m \in s[Len(s)].claims => m \in 1..Len(lg)
      BY <1>0, ClaimsAreRequests
    <3> QED
      BY <1>0, <3>1, <3>2
  <2> QED
    BY <2>1, <2>2, <2>3 DEF NewestIsWritten
<1>9. LatestIsKept(t, f, k, ls)
  BY <1>0 DEF LatestIsKept
<1> QED
  BY <1>3, <1>5, <1>6, <1>7, <1>8, <1>9 DEF Kept

\* The head of the chain begins to write the newest of its requests; the
\* pending save goes if the head has taken it.
LEMMA BeginningKeeps ==
  ASSUME NEW pend, NEW s, NEW f, NEW lg, NEW ls, NEW st,
         Sound(pend, s, f, lg), Kept(pend, s, f, lg, ls, st), s # <<>>,
         NEW t, NEW n, IsBegun(t, s, n), n # 0, \A m \in s[1].claims : m <= n,
         NEW q,
         \/ q = pend /\ (pend # NoEntry => Len(s) # 1)
         \/ q = NoEntry /\ Len(s) = 1
  PROVE  Kept(q, t, f, lg, ls, st)
<1> /\ Len(t) = Len(s) /\ t[1].writing = n
    /\ \A i \in 1..Len(s) : /\ t[i].kind = s[i].kind /\ t[i].entry = s[i].entry
                            /\ t[i].claims = s[i].claims
                            /\ i # 1 => t[i].writing = s[i].writing
  BY DEF IsBegun
<1>0. Len(s) \in Nat /\ Len(lg) \in Nat /\ 1 \in 1..Len(s) /\ Len(s) \in 1..Len(s) /\ t # <<>>
  BY DEF Sound
<1>1. \A m : InClaims(s, m) => InClaims(t, m)
  BY DEF InClaims
<1>2. ASSUME NEW m \in 1..Len(lg) PROVE AccountedFor(m, t, f, lg, ls)
  <2>1. AccountedFor(m, s, f, lg, ls)
    BY DEF Kept
  <2> QED
    BY <1>0, <1>1, <2>1, MoreIsAccounted
<1>3. \A i \in 1..Len(t) : t[i].claims \cap st = {}
  BY DEF Kept
<1>4. FlushesCount(q, t)
  <2>1. ASSUME NEW i \in 1..Len(t), t[i].kind = "flush", t[i].writing = 0
        PROVE  \/ i = Len(t) /\ q # NoEntry /\ q.entry = t[i].entry
               \/ \E j \in i + 1 .. Len(t) : t[j].kind = "delete"
    <3>1. /\ i \in 1..Len(s) /\ i # 1 /\ s[i].kind = "flush" /\ s[i].writing = 0
          /\ t[i].entry = s[i].entry
      BY <2>1
    <3>2. \A j \in i + 1 .. Len(s) : j \in 1..Len(s)
      BY <1>0, <3>1
    <3>3. q = pend
      BY <1>0, <3>1
    <3> QED
      BY <3>1, <3>2, <3>3 DEF Kept, FlushesCount
  <2> QED
    BY <2>1 DEF FlushesCount
<1>5. NewestIsWritten(q, t)
  <2>1. ASSUME NEW i \in 1..Len(t), t[i].writing # 0, NEW m \in t[i].claims
        PROVE  m <= t[i].writing
    BY <2>1 DEF Kept, NewestIsWritten
  <2>2. ASSUME NEW i \in 1..Len(t), t[i].kind = "delete", NEW a \in t[i].claims, NEW b \in t[i].claims
        PROVE  a = b
    BY <2>2 DEF Kept, NewestIsWritten
  <2>3. q # NoEntry => \A m \in t[Len(t)].claims : m <= q.n
    BY <1>0 DEF Kept, NewestIsWritten
  <2> QED
    BY <2>1, <2>2, <2>3 DEF NewestIsWritten
<1>6. LatestIsKept(t, f, lg, ls)
  BY <1>0 DEF LatestIsKept, Kept
<1> QED
  BY <1>2, <1>3, <1>4, <1>5, <1>6 DEF Kept

\* The head of the chain settles: each of its requests is on disk, has failed,
\* or is one that a delete is to come for.
LEMMA SettlingKeeps ==
  ASSUME NEW pend, NEW s, NEW f, NEW lg, NEW ls, NEW st,
         Sound(pend, s, f, lg), Kept(pend, s, f, lg, ls, st),
         s # <<>>, pend # NoEntry => Len(s) # 1,
         NEW g, g.n \in Nat, g.n >= f.n, g.n <= Len(lg),
         NEW l2, ls \subseteq l2, l2 \subseteq ls \cup s[1].claims,
         NEW s2, s2 \subseteq st \cup s[1].claims,
         \A m \in s[1].claims :
           g.n >= m \/ m \in l2 \/ \E j \in 2..Len(s) : s[j].kind = "delete"
  PROVE  Kept(pend, Tail(s), g, lg, l2, s2)
<1> DEFINE t == Tail(s)
<1>a. /\ s \in Seq(Operations) /\ Len(s) \in Nat /\ Len(lg) \in Nat /\ f.n \in Nat
      /\ 1 \in 1..Len(s) /\ Len(s) \in 1..Len(s)
  BY DEF Sound
<1>b. t \in Seq(Operations) /\ Len(t) = Len(s) - 1 /\ \A i \in 1..Len(t) : t[i] = s[i + 1]
  BY <1>a
<1> HIDE DEF t
<1>0. /\ Len(s) \in Nat /\ Len(lg) \in Nat /\ 1 \in 1..Len(s) /\ Len(s) \in 1..Len(s)
      /\ Len(t) = Len(s) - 1 /\ \A i \in 1..Len(t) : t[i] = s[i + 1] /\ i + 1 \in 2..Len(s)
      /\ (t = <<>>) = (Len(s) = 1)
      /\ f.n \in Nat
  <2>1. \A i \in 1..Len(t) : i + 1 \in 2..Len(s)
    BY <1>a, <1>b
  <2>2. (t = <<>>) = (Len(s) = 1)
    BY <1>a, <1>b
  <2> QED
    BY <1>a, <1>b, <2>1, <2>2
<1>1. \A j \in 2..Len(s) : j \in 1..Len(s) /\ j # 1 /\ j - 1 \in 1..Len(t) /\ t[j - 1] = s[j]
  BY <1>0
<1>2. ASSUME NEW m, NEW j \in 2..Len(s), m \in s[j].claims PROVE InClaims(t, m)
  BY <1>1, <1>2 DEF InClaims
<1>3. ASSUME NEW m, InClaims(s, m)
      PROVE  g.n >= m \/ m \in l2 \/ InClaims(t, m) \/ Overtaken(m, t, lg, l2)
  <2>1. PICK i \in 1..Len(s) : m \in s[i].claims
    BY <1>3 DEF InClaims
  <2>2. CASE i # 1
    <3>1. i \in 2..Len(s)
      BY <1>0, <2>2
    <3> QED
      BY <1>2, <2>1, <3>1
  <2>3. CASE i = 1 /\ \E j \in 2..Len(s) : s[j].kind = "delete"
    <3>1. PICK j \in 2..Len(s) : s[j].kind = "delete"
      BY <2>3
    <3>2. SoundOperation(s[j], j, f, lg) /\ InOrder(s) /\ 1 < j
      BY <1>1, <1>0 DEF Sound
    <3>3. PICK d \in s[j].claims : TRUE
      BY <3>2 DEF SoundOperation
    <3>4. d \in 1..Len(lg) /\ lg[d] = "delete" /\ m \in 1..Len(lg)
      BY <1>1, <2>1, <3>1, <3>3, ClaimsAreRequests DEF LogOf
    <3>5. m < d
      BY <1>1, <2>1, <2>3, <3>2, <3>3 DEF InOrder
    <3>6. InClaims(t, d)
      BY <1>2, <3>3
    <3>7. d \in m + 1 .. Len(lg)
      BY <1>0, <3>4, <3>5
    <3> QED
      BY <3>4, <3>6, <3>7 DEF Overtaken
  <2> QED
    BY <2>1, <2>2, <2>3
<1>4. ASSUME NEW n \in 1..Len(lg) PROVE AccountedFor(n, t, g, lg, l2)
  <2>1. AccountedFor(n, s, f, lg, ls)
    BY DEF Kept
  <2>2. CASE InClaims(s, n)
    BY <1>3, <2>2 DEF AccountedFor
  <2>3. CASE f.n >= n
    <3>1. g.n >= n
      BY <1>0, <2>3
    <3> QED
      BY <3>1 DEF AccountedFor
  <2>4. CASE n \in ls
    BY <2>4 DEF AccountedFor
  <2>5. CASE Overtaken(n, s, lg, ls)
    <3>1. PICK m \in n + 1 .. Len(lg) : lg[m] = "delete" /\ (InClaims(s, m) \/ m \in ls)
      BY <2>5 DEF Overtaken
    <3>2. CASE m \in l2 \/ InClaims(t, m)
      BY <3>1, <3>2 DEF AccountedFor, Overtaken
    <3>3. CASE g.n >= m
      <4>1. g.n >= n
        BY <1>0, <3>1, <3>3
      <4> QED
        BY <4>1 DEF AccountedFor
    <3>4. CASE Overtaken(m, t, lg, l2)
      <4>1. PICK d \in m + 1 .. Len(lg) : lg[d] = "delete" /\ (InClaims(t, d) \/ d \in l2)
        BY <3>4 DEF Overtaken
      <4>2. d \in n + 1 .. Len(lg)
        BY <1>0, <3>1, <4>1
      <4> QED
        BY <4>1, <4>2 DEF AccountedFor, Overtaken
    <3> QED
      BY <1>3, <3>1, <3>2, <3>3, <3>4
  <2> QED
    BY <2>1, <2>2, <2>3, <2>4, <2>5 DEF AccountedFor
<1>5. s[1].claims \subseteq 1..Len(lg)
  BY <1>0, ClaimsAreRequests
<1>6. l2 \subseteq 1..Len(lg) /\ s2 \subseteq 1..Len(lg)
  BY <1>5 DEF Kept
<1>7. ASSUME NEW i \in 1..Len(t), NEW m \in t[i].claims PROVE m \notin s2
  <2>1. i + 1 \in 1..Len(s) /\ i + 1 # 1 /\ m \in s[i + 1].claims
    BY <1>0
  <2>2. m \notin s[1].claims
    BY <1>0, <2>1, ClaimedOnce
  <2>3. m \notin st
    BY <2>1 DEF Kept
  <2> QED
    BY <2>2, <2>3
<1>8. FlushesCount(pend, t)
  <2>1. ASSUME NEW i \in 1..Len(t), t[i].kind = "flush", t[i].writing = 0
        PROVE  \/ i = Len(t) /\ pend # NoEntry /\ pend.entry = t[i].entry
               \/ \E j \in i + 1 .. Len(t) : t[j].kind = "delete"
    <3>1. i + 1 \in 1..Len(s) /\ t[i] = s[i + 1]
      BY <1>0
    <3>2. CASE i + 1 = Len(s) /\ pend # NoEntry /\ pend.entry = s[i + 1].entry
      BY <1>0, <3>1, <3>2
    <3>3. CASE \E j \in i + 1 + 1 .. Len(s) : s[j].kind = "delete"
      <4>1. PICK j \in i + 1 + 1 .. Len(s) : s[j].kind = "delete"
        BY <3>3
      <4>2. j \in 2..Len(s) /\ j - 1 \in i + 1 .. Len(t)
        BY <1>0, <3>1, <4>1
      <4> QED
        BY <1>1, <4>1, <4>2
    <3> QED
      BY <2>1, <3>1, <3>2, <3>3 DEF Kept, FlushesCount
  <2> QED
    BY <2>1 DEF FlushesCount
<1>9. NewestIsWritten(pend, t)
  <2>0. NewestIsWritten(pend, s)
    BY DEF Kept
  <2>1. \A i \in 1..Len(t) : i + 1 \in 1..Len(s) /\ t[i] = s[i + 1]
    BY <1>0
  <2>2. pend # NoEntry => t[Len(t)] = s[Len(s)]
    BY <1>0
  <2> QED
    BY <2>0, <2>1, <2>2 DEF NewestIsWritten
<1>10. LatestIsKept(t, g, lg, l2)
  <2>0. Len(lg) \in s[Len(s)].claims
    BY DEF Kept, LatestIsKept
  <2>1. CASE Len(s) = 1
    <3>1. ~ \E j \in 2..Len(s) : s[j].kind = "delete"
      BY <2>1
    <3>2. g.n >= Len(lg) \/ Len(lg) \in l2
      BY <2>0, <2>1, <3>1
    <3>3. g.n = Len(lg) \/ Len(lg) \in l2
      BY <1>0, <3>2
    <3> QED
      BY <1>0, <2>1, <3>3 DEF LatestIsKept
  <2>2. CASE Len(s) # 1
    <3>1. t # <<>> /\ t[Len(t)] = s[Len(s)]
      BY <1>0, <2>2
    <3> QED
      BY <2>0, <3>1 DEF LatestIsKept
  <2> QED
    BY <2>1, <2>2
<1>11. Kept(pend, t, g, lg, l2, s2)
  BY <1>4, <1>6, <1>7, <1>8, <1>9, <1>10 DEF Kept
<1> QED
  BY <1>11 DEF t

-----------------------------------------------------------------------------
\* What an action on one process must establish.
LEMMA OneProcessKeeps ==
  ASSUME ChainsAreSound, RequestsAreKept, NEW p \in Pids,
         NEW pend, pending' = [pending EXCEPT ![p] = pend],
         NEW s, chain' = [chain EXCEPT ![p] = s],
         NEW f, file' = [file EXCEPT ![p] = f],
         NEW lg, log' = [log EXCEPT ![p] = lg],
         NEW ls, lost' = [lost EXCEPT ![p] = ls],
         NEW st, settled' = [settled EXCEPT ![p] = st],
         NEW rd, reader' = [reader EXCEPT ![p] = rd],
         Kept(pend, s, f, lg, ls, st), rd \in 0..Len(lg) \cup {Nobody}
  PROVE  RequestsAreKept'
<1>1. Nobody' = Nobody
  BY DEF Nobody
<1>2. ASSUME NEW q \in Pids
      PROVE  /\ Kept(pending'[q], chain'[q], file'[q], log'[q], lost'[q], settled'[q])
             /\ reader'[q] \in 0..Len(log'[q]) \cup {Nobody}
  <2>1. CASE q = p
    BY <2>1 DEF ChainsAreSound
  <2>2. CASE q # p
    <3>1. /\ pending'[q] = pending[q] /\ chain'[q] = chain[q] /\ file'[q] = file[q]
          /\ log'[q] = log[q] /\ lost'[q] = lost[q] /\ settled'[q] = settled[q]
          /\ reader'[q] = reader[q]
      BY <2>2 DEF ChainsAreSound
    <3> QED
      BY <3>1 DEF RequestsAreKept
  <2> QED
    BY <2>1, <2>2
<1> QED
  BY <1>1, <1>2 DEF RequestsAreKept

LEMMA UntouchedToo ==
  ASSUME ChainsAreSound, NEW p \in Pids
  PROVE  /\ lost' = lost => lost' = [lost EXCEPT ![p] = lost[p]]
         /\ settled' = settled => settled' = [settled EXCEPT ![p] = settled[p]]
         /\ reader' = reader => reader' = [reader EXCEPT ![p] = reader[p]]
  BY DEF ChainsAreSound

\* Nothing has been requested to begin with.
LEMMA KeptInit == Init => RequestsAreKept
<1> SUFFICES ASSUME Init PROVE RequestsAreKept
  OBVIOUS
<1>0. MaxOps \in Nat
  BY StoreAssumption
<1>1. ASSUME NEW p \in Pids
      PROVE  /\ pending[p] = NoEntry /\ chain[p] = <<>> /\ file[p].n = 0 /\ log[p] = <<>>
             /\ lost[p] = {} /\ settled[p] = {} /\ reader[p] = Nobody
  BY DEF Init
<1>2. ASSUME NEW p \in Pids
      PROVE  Kept(pending[p], chain[p], file[p], log[p], lost[p], settled[p])
  <2>1. Len(log[p]) = 0 /\ Len(chain[p]) = 0
    BY <1>1
  <2> QED
    BY <1>1, <2>1 DEF Kept, FlushesCount, NewestIsWritten, LatestIsKept
<1> QED
  BY <1>1, <1>2 DEF RequestsAreKept

-----------------------------------------------------------------------------
\* What the two changes inside a chain leave alone.
LEMMA ClaimJoins ==
  ASSUME NEW s \in Seq(Operations), s # <<>>, NEW n \in Numbers
  PROVE  IsCoalesced([s EXCEPT ![Len(s)].claims = @ \cup {n}], s, n)
<1> DEFINE i == Len(s)
           t == [s EXCEPT ![i].claims = @ \cup {n}]
<1> DEFINE e == [s[i] EXCEPT !.claims = @ \cup {n}]
<1>1. s[i] \in Operations /\ i \in 1..Len(s)
  OBVIOUS
<1>2. /\ e \in Operations /\ e.kind = s[i].kind /\ e.entry = s[i].entry
      /\ e.writing = s[i].writing /\ e.claims = s[i].claims \cup {n}
  BY <1>1 DEF Operations
<1>3. t = [s EXCEPT ![i] = e]
  OBVIOUS
<1> HIDE DEF e, t
<1>4. Len(t) = Len(s) /\ t[i] = e /\ \A j \in 1..Len(s) : j # i => t[j] = s[j]
  BY <1>1, <1>2, <1>3, ExceptSeq
<1>5. IsCoalesced(t, s, n)
  BY <1>2, <1>4 DEF IsCoalesced
<1> QED
  BY <1>5 DEF t

LEMMA HeadWrites ==
  ASSUME NEW s \in Seq(Operations), s # <<>>, NEW n \in 0..MaxOps
  PROVE  IsBegun([s EXCEPT ![1].writing = n], s, n)
<1> DEFINE t == [s EXCEPT ![1].writing = n]
<1> DEFINE e == [s[1] EXCEPT !.writing = n]
<1>1. s[1] \in Operations /\ 1 \in 1..Len(s)
  OBVIOUS
<1>2. /\ e \in Operations /\ e.kind = s[1].kind /\ e.entry = s[1].entry
      /\ e.writing = n /\ e.claims = s[1].claims
  BY <1>1 DEF Operations
<1>3. t = [s EXCEPT ![1] = e]
  OBVIOUS
<1> HIDE DEF e, t
<1>4. Len(t) = Len(s) /\ t[1] = e /\ \A j \in 1..Len(s) : j # 1 => t[j] = s[j]
  BY <1>1, <1>2, <1>3, ExceptSeq
<1>5. IsBegun(t, s, n)
  BY <1>2, <1>4 DEF IsBegun
<1> QED
  BY <1>5 DEF t

\* The claims of the head, in terms of the chain.
LEMMA HeadIsFirst ==
  ASSUME ChainsAreSound, NEW p \in Pids, chain[p] # <<>>
  PROVE  /\ Head(chain[p]) = chain[p][1] /\ 1 \in 1..Len(chain[p])
         /\ Len(chain[p]) \in 1..Len(chain[p])
         /\ chain[p] \in Seq(Operations)
         /\ SoundOperation(chain[p][1], 1, file[p], log[p])
<1>1. Sound(pending[p], chain[p], file[p], log[p])
  BY DEF ChainsAreSound
<1>2. Head(chain[p]) = chain[p][1] /\ 1 \in 1..Len(chain[p]) /\ chain[p] \in Seq(Operations)
      /\ Len(chain[p]) \in 1..Len(chain[p])
  BY <1>1 DEF Sound
<1> QED
  BY <1>1, <1>2 DEF Sound

LEMMA SaveKeeps ==
  ASSUME ChainsAreSound, RequestsAreKept, NEW p \in Pids,
         SaveCoalesced(p) \/ SaveChained(p) \/ Delete(p)
  PROVE  RequestsAreKept'
<1> DEFINE n == Len(log[p]) + 1
<1>0. /\ MaxOps \in Nat
      /\ Sound(pending[p], chain[p], file[p], log[p])
      /\ Kept(pending[p], chain[p], file[p], log[p], lost[p], settled[p])
      /\ reader[p] \in 0..Len(log[p]) \cup {Nobody}
      /\ log[p] \in Seq({"save", "delete"}) /\ chain[p] \in Seq(Operations)
      /\ pending[p] \in [entry : 0..MaxOps, n : 0..MaxOps]
      /\ Len(log[p]) \in Nat /\ Len(chain[p]) \in Nat
  BY StoreAssumption DEF ChainsAreSound, RequestsAreKept, Sound
<1>1. /\ n <= MaxOps /\ file' = file /\ reader' = reader /\ settled' = settled /\ lost' = lost
  BY DEF SaveCoalesced, SaveChained, Delete, Requested, NextNumber
<1>2. n \in Numbers /\ n \in Nat /\ n \in 0..MaxOps /\ reader[p] \in 0..n \cup {Nobody}
  BY <1>0, <1>1 DEF Numbers
<1>n. n = Len(log[p]) + 1
  OBVIOUS
<1>3. /\ file' = [file EXCEPT ![p] = file[p]]
      /\ lost' = [lost EXCEPT ![p] = lost[p]]
      /\ settled' = [settled EXCEPT ![p] = settled[p]]
      /\ reader' = [reader EXCEPT ![p] = reader[p]]
  BY <1>1, Untouched, UntouchedToo
<1>4. ASSUME NEW k, k = "save" \/ k = "delete"
      PROVE  IsLogged(Append(log[p], k), log[p]) /\ Len(Append(log[p], k)) = n
  BY <1>0, <1>4 DEF IsLogged
<1>5. ASSUME NEW kind \in {"flush", "delete"}, NEW entry \in 0..MaxOps
      PROVE  IsJoined(Append(chain[p], Operation(kind, entry, n)), chain[p], kind, entry, n)
  <2> DEFINE op == Operation(kind, entry, n)
             t == Append(chain[p], op)
  <2>1. op.kind = kind /\ op.entry = entry /\ op.claims = {n} /\ op.writing = 0
    BY DEF Operation
  <2>2. op \in Operations
    BY <1>0, <1>2 DEF Operation, Operations
  <2> HIDE DEF op
  <2>3. /\ Len(t) = Len(chain[p]) + 1 /\ t[Len(chain[p]) + 1] = op
        /\ \A i \in 1..Len(chain[p]) : t[i] = chain[p][i]
    BY <1>0, <2>2
  <2> QED
    BY <2>1, <2>3 DEF op, IsJoined
<1>6. CASE SaveCoalesced(p)
  <2> DEFINE q == [pending[p] EXCEPT !.n = n]
             t == [chain[p] EXCEPT ![Len(chain[p])].claims = @ \cup {n}]
             k == Append(log[p], "save")
  <2>1. /\ pending' = [pending EXCEPT ![p] = q] /\ chain' = [chain EXCEPT ![p] = t]
        /\ log' = [log EXCEPT ![p] = k] /\ pending[p] # NoEntry
    BY <1>6 DEF SaveCoalesced, Requested, NextNumber, LastOf
  <2>2. q.entry = pending[p].entry /\ q.n = n /\ q # NoEntry
    BY <1>0, <1>2 DEF NoEntry
  <2>3. chain[p] # <<>>
    BY <1>0, <2>1 DEF Sound, PendingAtTail
  <2>4. IsLogged(k, log[p]) /\ Len(k) = n
    BY <1>4
  <2> HIDE DEF q, k
  <2>5. Kept(q, t, file[p], k, lost[p], settled[p])
    <3>1. IsCoalesced(t, chain[p], n)
      BY <1>0, <1>2, <2>3, ClaimJoins
    <3> HIDE DEF t, n
    <3> QED
      BY <1>0, <1>n, <2>1, <2>2, <2>4, <3>1, CoalescingKeeps
  <2> HIDE DEF t, n
  <2> QED
    BY <1>2, <1>3, <2>1, <2>4, <2>5, OneProcessKeeps
<1>7. CASE SaveChained(p)
  <2> DEFINE q == [entry |-> n, n |-> n]
             t == Append(chain[p], Operation("flush", n, n))
             k == Append(log[p], "save")
  <2>1. /\ pending' = [pending EXCEPT ![p] = q] /\ chain' = [chain EXCEPT ![p] = t]
        /\ log' = [log EXCEPT ![p] = k] /\ pending[p] = NoEntry
    BY <1>7 DEF SaveChained, Requested, NextNumber
  <2>2. IsLogged(k, log[p]) /\ Len(k) = n
    BY <1>4
  <2>3. IsJoined(t, chain[p], "flush", n, n)
    BY <1>2, <1>5
  <2> HIDE DEF t, k
  <2>4. Kept(q, t, file[p], k, lost[p], settled[p])
    BY <1>0, <2>1, <2>2, <2>3, AppendKeeps
  <2> HIDE DEF q, n
  <2> QED
    BY <1>2, <1>3, <2>1, <2>2, <2>4, OneProcessKeeps
<1>8. CASE Delete(p)
  <2> DEFINE t == Append(chain[p], Operation("delete", 0, n))
             k == Append(log[p], "delete")
  <2>1. /\ pending' = [pending EXCEPT ![p] = NoEntry] /\ chain' = [chain EXCEPT ![p] = t]
        /\ log' = [log EXCEPT ![p] = k]
    BY <1>8 DEF Delete, Requested, NextNumber
  <2>2. IsLogged(k, log[p]) /\ Len(k) = n
    BY <1>4
  <2>3. IsJoined(t, chain[p], "delete", 0, n)
    <3>1. 0 \in 0..MaxOps
      BY <1>0
    <3> QED
      BY <1>5, <3>1
  <2> HIDE DEF t, k, n
  <2>4. Kept(NoEntry, t, file[p], k, lost[p], settled[p])
    BY <1>0, <1>n, <2>2, <2>3, AppendKeeps
  <2> QED
    BY <1>2, <1>3, <2>1, <2>2, <2>4, OneProcessKeeps
<1> QED
  BY <1>6, <1>7, <1>8

LEMMA SettleKeeps ==
  ASSUME ChainsAreSound, RequestsAreKept, NEW p \in Pids, chain[p] # <<>>,
         pending[p] # NoEntry => Len(chain[p]) # 1,
         chain' = [chain EXCEPT ![p] = Tail(@)],
         pending' = pending, log' = log, reader' = reader,
         NEW g, file' = [file EXCEPT ![p] = g],
         g.n \in Nat, g.n >= file[p].n, g.n <= Len(log[p]),
         NEW l2, lost' = [lost EXCEPT ![p] = l2],
         lost[p] \subseteq l2, l2 \subseteq lost[p] \cup chain[p][1].claims,
         NEW s2, settled' = [settled EXCEPT ![p] = s2],
         s2 \subseteq settled[p] \cup chain[p][1].claims,
         \A m \in chain[p][1].claims :
           g.n >= m \/ m \in l2 \/ \E j \in 2..Len(chain[p]) : chain[p][j].kind = "delete"
  PROVE  RequestsAreKept'
<1>1. /\ Sound(pending[p], chain[p], file[p], log[p])
      /\ Kept(pending[p], chain[p], file[p], log[p], lost[p], settled[p])
      /\ reader[p] \in 0..Len(log[p]) \cup {Nobody}
  BY DEF ChainsAreSound, RequestsAreKept
<1> DEFINE t == Tail(chain[p])
<1>2. Kept(pending[p], t, g, log[p], l2, s2)
  BY <1>1, SettlingKeeps
<1>3. /\ pending' = [pending EXCEPT ![p] = pending[p]]
      /\ log' = [log EXCEPT ![p] = log[p]]
      /\ reader' = [reader EXCEPT ![p] = reader[p]]
  BY Untouched, UntouchedToo
<1>4. chain' = [chain EXCEPT ![p] = t]
  OBVIOUS
<1> HIDE DEF t
<1> QED
  BY <1>1, <1>2, <1>3, <1>4, OneProcessKeeps

\* A flush that finds its entry gone is followed by the delete that dropped it.
LEMMA DroppedKeeps ==
  ASSUME ChainsAreSound, RequestsAreKept, NEW p \in Pids, FlushDropped(p)
  PROVE  RequestsAreKept'
<1>1. /\ chain[p] # <<>> /\ Head(chain[p]).writing = 0 /\ Head(chain[p]).kind = "flush"
      /\ pending[p].entry # Head(chain[p]).entry
      /\ chain' = [chain EXCEPT ![p] = Tail(@)]
      /\ settled' = [settled EXCEPT ![p] = @ \cup Head(chain[p]).claims]
      /\ pending' = pending /\ file' = file /\ reader' = reader /\ log' = log /\ lost' = lost
  BY DEF FlushDropped, Idle, SettleHead
<1>2. Head(chain[p]) = chain[p][1] /\ 1 \in 1..Len(chain[p])
  BY <1>1, HeadIsFirst
<1>3. /\ Sound(pending[p], chain[p], file[p], log[p])
      /\ Kept(pending[p], chain[p], file[p], log[p], lost[p], settled[p])
  BY DEF ChainsAreSound, RequestsAreKept
<1>4. pending[p] # NoEntry => Len(chain[p]) # 1
  BY <1>1, <1>3, PendingIsElsewhere
<1>5. \E j \in 2..Len(chain[p]) : chain[p][j].kind = "delete"
  <2>1. FlushesCount(pending[p], chain[p])
    BY <1>3 DEF Kept
  <2>2. \E j \in 1 + 1 .. Len(chain[p]) : chain[p][j].kind = "delete"
    BY <1>1, <1>2, <2>1 DEF FlushesCount
  <2> QED
    BY <2>2
<1>6. file[p].n \in Nat /\ file[p].n <= Len(log[p])
  BY <1>3 DEF Sound
<1>7. /\ file' = [file EXCEPT ![p] = file[p]] /\ lost' = [lost EXCEPT ![p] = lost[p]]
      /\ settled' = [settled EXCEPT ![p] = settled[p] \cup chain[p][1].claims]
  BY <1>1, <1>2, Untouched, UntouchedToo
<1>8. file[p].n >= file[p].n
  BY <1>6
<1> DEFINE s2 == settled[p] \cup chain[p][1].claims
<1>9. s2 \subseteq settled[p] \cup chain[p][1].claims /\ settled' = [settled EXCEPT ![p] = s2]
  BY <1>7
<1> HIDE DEF s2
<1>10. lost[p] \subseteq lost[p] /\ lost[p] \subseteq lost[p] \cup chain[p][1].claims
  OBVIOUS
<1>11. \A m \in chain[p][1].claims :
         file[p].n >= m \/ m \in lost[p] \/ \E j \in 2..Len(chain[p]) : chain[p][j].kind = "delete"
  BY <1>5
<1> QED
  BY <1>1, <1>4, <1>6, <1>7, <1>8, <1>9, <1>10, <1>11, SettleKeeps

\* What the disk has done, or refused to do, covers all the requests of the head.
LEMMA DiskKeeps ==
  ASSUME ChainsAreSound, RequestsAreKept, NEW p \in Pids,
         DiskDone(p) \/ WriteDropped(p) \/ DiskFailed(p)
  PROVE  RequestsAreKept'
<1>1. /\ chain[p] # <<>> /\ Head(chain[p]).writing # 0
      /\ chain' = [chain EXCEPT ![p] = Tail(@)]
      /\ \/ settled' = [settled EXCEPT ![p] = @ \cup Head(chain[p]).claims]
         \/ settled' = [settled EXCEPT ![p] = @]
      /\ pending' = pending /\ reader' = reader /\ log' = log
  BY DEF DiskDone, WriteDropped, DiskFailed, Busy, SettleHead
<1>2. /\ Head(chain[p]) = chain[p][1] /\ 1 \in 1..Len(chain[p])
      /\ SoundOperation(chain[p][1], 1, file[p], log[p])
  BY <1>1, HeadIsFirst
<1>3. /\ Sound(pending[p], chain[p], file[p], log[p])
      /\ Kept(pending[p], chain[p], file[p], log[p], lost[p], settled[p])
  BY DEF ChainsAreSound, RequestsAreKept
<1>4. pending[p] # NoEntry => Len(chain[p]) # 1
  BY <1>1, <1>3, PendingIsElsewhere
<1>5. file[p].n \in Nat /\ file[p].n <= Len(log[p]) /\ Len(log[p]) \in Nat
  BY <1>3 DEF Sound
<1>6. PICK s2 : /\ settled' = [settled EXCEPT ![p] = s2]
                /\ s2 \subseteq settled[p] \cup chain[p][1].claims
  <2>1. CASE settled' = [settled EXCEPT ![p] = @ \cup Head(chain[p]).claims]
    BY <1>2, <2>1
  <2>2. CASE settled' = [settled EXCEPT ![p] = @]
    BY <2>2
  <2> QED
    BY <1>1, <2>1, <2>2
<1>7. CASE DiskDone(p)
  <2> DEFINE g == [n |-> chain[p][1].writing, present |-> chain[p][1].kind = "flush"]
  <2>1. file' = [file EXCEPT ![p] = g] /\ lost' = [lost EXCEPT ![p] = lost[p]]
    BY <1>2, <1>7, UntouchedToo DEF DiskDone
  <2>2. g.n \in chain[p][1].claims
    BY <1>1, <1>2 DEF SoundOperation
  <2>3. g.n \in 1..Len(log[p]) /\ g.n \in Nat /\ g.n > file[p].n
    BY <1>2, <1>3, <2>2, ClaimsAreRequests
  <2>4. \A m \in chain[p][1].claims : m <= g.n /\ m \in Nat
    BY <1>1, <1>2, <1>3, ClaimsAreRequests DEF Kept, NewestIsWritten
  <2> HIDE DEF g
  <2>5. g.n >= file[p].n /\ g.n <= Len(log[p]) /\ \A m \in chain[p][1].claims : g.n >= m
    BY <1>5, <2>3, <2>4
  <2> QED
    BY <1>1, <1>4, <1>6, <2>1, <2>3, <2>5, SettleKeeps
<1>8. CASE WriteDropped(p) \/ DiskFailed(p)
  <2>1. /\ file' = [file EXCEPT ![p] = file[p]]
        /\ lost' = [lost EXCEPT ![p] = lost[p] \cup chain[p][1].claims]
    BY <1>2, <1>8, Untouched DEF WriteDropped, DiskFailed
  <2>2. file[p].n >= file[p].n
    BY <1>5
  <2> DEFINE l2 == lost[p] \cup chain[p][1].claims
  <2>3. /\ lost' = [lost EXCEPT ![p] = l2] /\ lost[p] \subseteq l2
        /\ l2 \subseteq lost[p] \cup chain[p][1].claims
        /\ \A m \in chain[p][1].claims : m \in l2
    BY <2>1
  <2> HIDE DEF l2
  <2> QED
    BY <1>1, <1>4, <1>5, <1>6, <2>1, <2>2, <2>3, SettleKeeps
<1> QED
  BY <1>7, <1>8

\* The head begins: a flush with the snapshot of the last save, which made the
\* pending entry and so is the only operation.
LEMMA BeginKeeps ==
  ASSUME ChainsAreSound, RequestsAreKept, NEW p \in Pids, FlushBegins(p) \/ DeleteBegins(p)
  PROVE  RequestsAreKept'
<1>1. /\ chain[p] # <<>>
      /\ file' = file /\ reader' = reader /\ log' = log /\ settled' = settled /\ lost' = lost
  BY DEF FlushBegins, DeleteBegins, Idle
<1>2. /\ Head(chain[p]) = chain[p][1] /\ 1 \in 1..Len(chain[p])
      /\ Len(chain[p]) \in 1..Len(chain[p]) /\ chain[p] \in Seq(Operations)
      /\ SoundOperation(chain[p][1], 1, file[p], log[p])
  BY <1>1, HeadIsFirst
<1>3. /\ Sound(pending[p], chain[p], file[p], log[p])
      /\ Kept(pending[p], chain[p], file[p], log[p], lost[p], settled[p])
      /\ reader[p] \in 0..Len(log[p]) \cup {Nobody}
      /\ file[p].n \in Nat
  BY DEF ChainsAreSound, RequestsAreKept, Sound
<1>4. /\ file' = [file EXCEPT ![p] = file[p]] /\ lost' = [lost EXCEPT ![p] = lost[p]]
      /\ settled' = [settled EXCEPT ![p] = settled[p]] /\ log' = [log EXCEPT ![p] = log[p]]
      /\ reader' = [reader EXCEPT ![p] = reader[p]]
  BY <1>1, Untouched, UntouchedToo
<1>5. \A m \in chain[p][1].claims : m \in 0..MaxOps /\ m # 0
  <2>1. \A m \in chain[p][1].claims : m \in 1..Len(log[p])
    BY <1>2, <1>3, ClaimsAreRequests
  <2>2. Len(log[p]) \in Nat /\ Len(log[p]) <= MaxOps /\ MaxOps \in Nat
    BY <1>3, StoreAssumption DEF Sound
  <2> QED
    BY <2>1, <2>2
<1>6. CASE FlushBegins(p)
  <2> DEFINE n == pending[p].n
             t == [chain[p] EXCEPT ![1].writing = n]
  <2>1. /\ Head(chain[p]).kind = "flush" /\ pending[p].entry = Head(chain[p]).entry
        /\ chain' = [chain EXCEPT ![p] = t] /\ pending' = [pending EXCEPT ![p] = NoEntry]
    BY <1>6 DEF FlushBegins
  <2>2. n \in chain[p][1].claims
    BY <1>1, <1>2, <1>3, <2>1, FlushWritesItsClaim
  <2>3. n \in 0..MaxOps /\ n # 0
    BY <1>5, <2>2
  <2>4. pending[p] # NoEntry
    BY <2>3 DEF NoEntry
  <2>5. Len(chain[p]) = 1
    <3>1. n \in chain[p][Len(chain[p])].claims
      BY <1>3, <2>4 DEF Sound, PendingAtTail
    <3> QED
      BY <1>2, <1>3, <2>2, <3>1, ClaimedOnce
  <2>6. \A m \in chain[p][1].claims : m <= n
    BY <1>3, <2>4, <2>5 DEF Kept, NewestIsWritten
  <2>7. IsBegun(t, chain[p], n)
    BY <1>1, <1>2, <2>3, HeadWrites
  <2> HIDE DEF n, t
  <2>8. Kept(NoEntry, t, file[p], log[p], lost[p], settled[p])
    BY <1>1, <1>3, <2>3, <2>5, <2>6, <2>7, BeginningKeeps
  <2> QED
    BY <1>3, <1>4, <2>1, <2>8, OneProcessKeeps
<1>7. CASE DeleteBegins(p)
  <2>0. PICK n \in chain[p][1].claims : chain' = [chain EXCEPT ![p][1].writing = n]
    BY <1>2, <1>7 DEF DeleteBegins
  <2> DEFINE t == [chain[p] EXCEPT ![1].writing = n]
  <2>1. /\ Head(chain[p]).kind = "delete" /\ pending' = [pending EXCEPT ![p] = pending[p]]
        /\ chain' = [chain EXCEPT ![p] = t]
    BY <1>7, <2>0, Untouched DEF DeleteBegins
  <2>2. n \in 0..MaxOps /\ n # 0 /\ n \in Nat
    BY <1>5
  <2>3. pending[p] # NoEntry => Len(chain[p]) # 1
    BY <1>1, <1>3, <2>1, PendingIsElsewhere
  <2>4. \A m \in chain[p][1].claims : m <= n
    <3>1. \A m \in chain[p][1].claims : m = n
      BY <1>2, <1>3, <2>1 DEF Kept, NewestIsWritten
    <3> QED
      BY <2>2, <3>1
  <2>5. IsBegun(t, chain[p], n)
    BY <1>1, <1>2, <2>2, HeadWrites
  <2> HIDE DEF t
  <2>6. Kept(pending[p], t, file[p], log[p], lost[p], settled[p])
    BY <1>1, <1>3, <2>2, <2>3, <2>4, <2>5, BeginningKeeps
  <2> QED
    BY <1>3, <1>4, <2>1, <2>6, OneProcessKeeps
<1> QED
  BY <1>6, <1>7

\* After a crash the requests up to the one the file shows are those there were.
LEMMA CrashKeeps ==
  ASSUME ChainsAreSound, RequestsAreKept, Crash
  PROVE  RequestsAreKept'
<1>1. ASSUME NEW p \in Pids
      PROVE  /\ pending'[p] = NoEntry /\ chain'[p] = <<>> /\ file'[p] = file[p]
             /\ log'[p] = SubSeq(log[p], 1, file[p].n)
             /\ lost'[p] = lost[p] \cap 1..file[p].n
             /\ settled'[p] = settled[p] \cap 1..file[p].n
             /\ reader'[p] = Nobody
  BY DEF Crash
<1>2. ASSUME NEW p \in Pids
      PROVE  Kept(pending'[p], chain'[p], file'[p], log'[p], lost'[p], settled'[p])
  <2>1. /\ log[p] \in Seq({"save", "delete"}) /\ file[p].n \in Nat /\ file[p].n <= Len(log[p])
    BY DEF ChainsAreSound, Sound
  <2>2. Len(log'[p]) = file[p].n
    BY <1>1, <2>1
  <2>3. \A n \in 1..file[p].n : file[p].n >= n
    BY <2>1
  <2>4. \A n \in 1..Len(log'[p]) : AccountedFor(n, chain'[p], file'[p], log'[p], lost'[p])
    BY <1>1, <2>2, <2>3 DEF AccountedFor
  <2>5. Len(chain'[p]) = 0
    BY <1>1
  <2>6. FlushesCount(pending'[p], chain'[p]) /\ NewestIsWritten(pending'[p], chain'[p])
    BY <1>1, <2>5 DEF FlushesCount, NewestIsWritten
  <2>7. LatestIsKept(chain'[p], file'[p], log'[p], lost'[p])
    BY <1>1, <2>2 DEF LatestIsKept
  <2> QED
    BY <1>1, <2>2, <2>4, <2>5, <2>6, <2>7 DEF Kept
<1>3. Nobody' = Nobody
  BY DEF Nobody
<1> QED
  BY <1>1, <1>2, <1>3 DEF RequestsAreKept

LEMMA KeptStep == ChainsAreSound /\ RequestsAreKept /\ [Next]_vars => RequestsAreKept'
<1> SUFFICES ASSUME ChainsAreSound, RequestsAreKept, [Next]_vars PROVE RequestsAreKept'
  OBVIOUS
<1>1. ASSUME NEW p \in Pids, LoadAtOnce(p) \/ LoadReads(p) PROVE RequestsAreKept'
  <2>1. /\ pending' = pending /\ chain' = chain /\ file' = file /\ log' = log
        /\ settled' = settled /\ lost' = lost
        /\ \/ reader' = [reader EXCEPT ![p] = Len(log[p])]
           \/ reader' = [reader EXCEPT ![p] = Nobody]
    BY <1>1 DEF LoadAtOnce, LoadReads
  <2>2. Len(log[p]) \in 0..Len(log[p])
    BY DEF ChainsAreSound, Sound
  <2>3. Nobody' = Nobody /\ reader \in [Pids -> 0..MaxOps + 1]
    BY DEF Nobody, ChainsAreSound
  <2>4. \A q \in Pids : reader'[q] \in 0..Len(log[q]) \cup {Nobody}
    BY <2>1, <2>2, <2>3 DEF RequestsAreKept
  <2> QED
    BY <2>1, <2>3, <2>4 DEF RequestsAreKept
<1>2. CASE UNCHANGED vars
  BY <1>2 DEF vars, RequestsAreKept, Nobody
<1> QED
  BY <1>1, <1>2, SaveKeeps, DroppedKeeps, DiskKeeps, BeginKeeps, CrashKeeps DEF Next, ChainStep

\* In every reachable state every request is accounted for.
THEOREM RequestsStayKept == Spec => [](ChainsAreSound /\ RequestsAreKept)
<1>1. Init => ChainsAreSound /\ RequestsAreKept
  BY SoundInit, KeptInit
<1>2. ChainsAreSound /\ RequestsAreKept /\ [Next]_vars => (ChainsAreSound /\ RequestsAreKept)'
  BY SoundStep, KeptStep
<1> QED
  BY <1>1, <1>2, PTL DEF Spec

-----------------------------------------------------------------------------
\* What a resolved promise stands for is on disk, or a later request is: but for
\* what the file system refused and for deletes that are to come or have failed.
THEOREM SettledSavesAreDurable == Spec => []SettledIsDurable
<1>1. ChainsAreSound /\ RequestsAreKept => SettledIsDurable
  <2> SUFFICES ASSUME ChainsAreSound, RequestsAreKept,
                      NEW p \in Pids, NEW n \in settled[p] \ lost[p]
               PROVE  \/ file[p].n >= n
                      \/ \E i \in 1..Len(chain[p]) :
                           chain[p][i].kind = "delete" /\ \E m \in chain[p][i].claims : m > n
                      \/ \E m \in lost[p] : m > n /\ log[p][m] = "delete"
    BY DEF SettledIsDurable
  <2>1. /\ Sound(pending[p], chain[p], file[p], log[p])
        /\ Kept(pending[p], chain[p], file[p], log[p], lost[p], settled[p])
        /\ Len(log[p]) \in Nat
    BY DEF ChainsAreSound, RequestsAreKept, Sound
  <2>2. n \in 1..Len(log[p]) /\ n \notin lost[p]
    BY <2>1 DEF Kept
  <2>3. ~ InClaims(chain[p], n)
    BY <2>1 DEF Kept, InClaims
  <2>4. file[p].n >= n \/ Overtaken(n, chain[p], log[p], lost[p])
    BY <2>1, <2>2, <2>3 DEF Kept, AccountedFor
  <2>5. ASSUME Overtaken(n, chain[p], log[p], lost[p])
        PROVE  \/ \E i \in 1..Len(chain[p]) :
                    chain[p][i].kind = "delete" /\ \E m \in chain[p][i].claims : m > n
               \/ \E m \in lost[p] : m > n /\ log[p][m] = "delete"
    <3>1. PICK m \in n + 1 .. Len(log[p]) :
            log[p][m] = "delete" /\ (InClaims(chain[p], m) \/ m \in lost[p])
      BY <2>5 DEF Overtaken
    <3>2. m > n
      BY <2>1, <2>2, <3>1
    <3>3. ASSUME InClaims(chain[p], m)
          PROVE  \E i \in 1..Len(chain[p]) : chain[p][i].kind = "delete" /\ m \in chain[p][i].claims
      <4>1. PICK i \in 1..Len(chain[p]) : m \in chain[p][i].claims
        BY <3>3 DEF InClaims
      <4>2. log[p][m] = LogOf(chain[p][i].kind) /\ chain[p][i].kind \in {"flush", "delete"}
        <5>1. chain[p] \in Seq(Operations)
          BY <2>1 DEF Sound
        <5>2. chain[p][i] \in Operations
          BY <4>1, <5>1
        <5> QED
          BY <2>1, <4>1, <5>2, ClaimsAreRequests DEF Operations
      <4>3. chain[p][i].kind = "delete"
        BY <3>1, <4>2 DEF LogOf
      <4> QED
        BY <4>1, <4>3
    <3> QED
      BY <3>1, <3>2, <3>3
  <2> QED
    BY <2>4, <2>5
<1> QED
  BY <1>1, RequestsStayKept, PTL

\* With nothing under way the file shows the last request, if that did not fail.
THEOREM QuietFileIsLatest == Spec => []QuiescentFileIsLatest
<1>1. RequestsAreKept => QuiescentFileIsLatest
  BY DEF RequestsAreKept, Kept, LatestIsKept, QuiescentFileIsLatest
<1> QED
  BY <1>1, RequestsStayKept, PTL

\* load() sees what was asked to be saved before it was called.
THEOREM LoadsReadOwnWrites == Spec => ReadsOwnWrites
<1> DEFINE Reads ==
      \A p \in Pids :
        reader[p] \in Numbers /\ reader'[p] = Nobody /\ log' = log =>
          \/ file[p].n >= reader[p]
          \/ reader[p] \in lost[p]
          \/ \E m \in reader[p] + 1 .. Len(log[p]) : log[p][m] = "delete"
<1>1. ChainsAreSound /\ RequestsAreKept /\ [Next]_vars => [Reads]_vars
  <2> SUFFICES ASSUME ChainsAreSound, RequestsAreKept, Next,
                      NEW p \in Pids, reader[p] \in Numbers, reader'[p] = Nobody, log' = log
               PROVE  \/ file[p].n >= reader[p]
                      \/ reader[p] \in lost[p]
                      \/ \E m \in reader[p] + 1 .. Len(log[p]) : log[p][m] = "delete"
    OBVIOUS
  <2>1. /\ Sound(pending[p], chain[p], file[p], log[p])
        /\ Kept(pending[p], chain[p], file[p], log[p], lost[p], settled[p])
        /\ Len(log[p]) \in Nat /\ log[p] \in Seq({"save", "delete"})
        /\ file[p].n \in Nat /\ file[p].n <= Len(log[p])
    BY DEF ChainsAreSound, RequestsAreKept, Sound
  <2>2. reader[p] # Nobody /\ reader[p] \in Nat
    BY StoreAssumption DEF Numbers, Nobody
  <2>3. reader[p] \in 1..Len(log[p])
    <3>1. reader[p] \in 0..Len(log[p])
      BY <2>2 DEF RequestsAreKept
    <3> QED
      BY <2>1, <3>1 DEF Numbers
  <2>4. CASE Crash
    <3>1. log'[p] = SubSeq(log[p], 1, file[p].n)
      BY <2>4 DEF Crash
    <3>2. Len(log[p]) = file[p].n
      BY <2>1, <3>1
    <3> QED
      BY <2>1, <2>3, <3>2
  <2>5. CASE LoadReads(p)
    <3>1. ~ InClaims(chain[p], reader[p])
      BY <2>5 DEF LoadReads, InChain, InClaims
    <3> QED
      BY <2>1, <2>3, <3>1 DEF Kept, AccountedFor, Overtaken
  <2>6. CASE \E q \in Pids : LoadReads(q) /\ q # p
    <3>1. reader'[p] = reader[p]
      BY <2>6 DEF LoadReads, ChainsAreSound
    <3> QED
      BY <2>2, <3>1
  <2>7. CASE \E q \in Pids : LoadAtOnce(q)
    <3>1. PICK q \in Pids : LoadAtOnce(q)
      BY <2>7
    <3>2. q # p
      BY <2>2, <3>1 DEF LoadAtOnce
    <3>3. reader'[p] = reader[p]
      BY <3>1, <3>2 DEF LoadAtOnce, ChainsAreSound
    <3> QED
      BY <2>2, <3>3
  <2>8. CASE \E q \in Pids : SaveCoalesced(q) \/ SaveChained(q) \/ Delete(q) \/ ChainStep(q)
    <3>1. reader' = reader
      BY <2>8 DEF SaveCoalesced, SaveChained, Delete, ChainStep, FlushDropped, FlushBegins,
                  DeleteBegins, DiskDone, WriteDropped, DiskFailed
    <3> QED
      BY <2>2, <3>1
  <2> QED
    BY <2>4, <2>5, <2>6, <2>7, <2>8 DEF Next
<1> QED
  BY <1>1, RequestsStayKept, PTL DEF Spec, ReadsOwnWrites

=============================================================================
