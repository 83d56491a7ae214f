-------------------------- MODULE SessionTurns_proofs --------------------------
(***************************************************************************)
(* Proofs about SessionTurns for any turns, any sets of tool calls and any *)
(* lengths of the file: that a turn sends its model lists of messages      *)
(* which a provider accepts, that these come from the file, and that the   *)
(* repairs drop nothing of the file that they need not drop.               *)
(***************************************************************************)
EXTENDS SessionTurns, SequenceTheorems, FiniteSetTheorems, WellFoundedInduction, TLAPS

\* A set of numbers that is not empty has a least one.
LEMMA LeastExists ==
  ASSUME NEW S \in SUBSET Nat, S # {}
  PROVE  \E n \in S : \A k \in S : n <= k
<1> DEFINE Below == OpToRel(<, Nat)
<1>1. \E n \in S : \A k \in S : ~ (<<k, n>> \in Below)
  BY NatLessThanWellFounded, WFMin
<1>2. \A n, k \in S : k < n => <<k, n>> \in Below
  BY DEF OpToRel
<1> HIDE DEF Below
<1>3. PICK n \in S : \A k \in S : ~ (<<k, n>> \in Below)
  BY <1>1
<1>4. \A k \in S : ~ (k < n)
  BY <1>2, <1>3
<1> QED
  BY <1>4

\* A set that has 0 and, with each number below n, the next, has all up to n.
LEMMA UpToInduction ==
  ASSUME NEW n \in Nat, NEW S, 0 \in S, \A k \in 0..n - 1 : k \in S => k + 1 \in S
  PROVE  \A k \in 0..n : k \in S
<1>1. SUFFICES ASSUME (0..n) \ S # {} PROVE FALSE
  BY <1>1
<1>2. (0..n) \ S \in SUBSET Nat
  OBVIOUS
<1>3. PICK k \in (0..n) \ S : \A j \in (0..n) \ S : k <= j
  BY <1>1, <1>2, LeastExists
<1>4. k - 1 \in 0..n - 1 /\ k - 1 \in S
  BY <1>3
<1> QED
  BY <1>3, <1>4

\* What is done by steps one after another has its results.
Follows(f, base, F, k) == f[0] = base /\ \A i \in 1..k : f[i] = F[i][f[i - 1]]
Followed(A, base, F, n) == {k \in 0..n : \E f \in [0..k -> A] : Follows(f, base, F, k)}

LEMMA StepsHaveResults ==
  ASSUME NEW A, NEW base \in A, NEW n \in Nat, NEW F \in [1..n -> [A -> A]]
  PROVE  \E f \in [0..n -> A] : Follows(f, base, F, n)
<1>1. 0 \in Followed(A, base, F, n)
  <2> DEFINE f == [i \in 0..0 |-> base]
  <2>1. f \in [0..0 -> A]
    OBVIOUS
  <2>2. Follows(f, base, F, 0)
    BY DEF Follows
  <2> HIDE DEF f
  <2> QED
    BY <2>1, <2>2 DEF Followed
<1>2. ASSUME NEW k \in 0..n - 1, k \in Followed(A, base, F, n)
      PROVE  k + 1 \in Followed(A, base, F, n)
  <2>1. PICK f \in [0..k -> A] : Follows(f, base, F, k)
    BY <1>2 DEF Followed
  <2> DEFINE g == [i \in 0..k + 1 |-> IF i = k + 1 THEN F[k + 1][f[k]] ELSE f[i]]
  <2>2. k + 1 \in 1..n /\ k \in 0..k /\ k \in Nat
    OBVIOUS
  <2>3. F[k + 1][f[k]] \in A
    BY <2>1, <2>2
  <2>4. g \in [0..k + 1 -> A]
    BY <2>3
  <2>5. g[0] = base
    BY <2>1 DEF Follows
  <2>6. ASSUME NEW i \in 1..k + 1
        PROVE  g[i] = F[i][g[i - 1]]
    <3>1. CASE i = k + 1
      BY <3>1
    <3>2. CASE i # k + 1
      <4>1. i \in 1..k /\ g[i] = f[i] /\ g[i - 1] = f[i - 1]
        BY <3>2
      <4> QED
        BY <4>1, <2>1 DEF Follows
    <3> QED
      BY <3>1, <3>2
  <2> HIDE DEF g
  <2>7. Follows(g, base, F, k + 1)
    BY <2>5, <2>6 DEF Follows
  <2> QED
    BY <2>2, <2>4, <2>7 DEF Followed
<1>3. \A k \in 0..n : k \in Followed(A, base, F, n)
  BY <1>1, <1>2, UpToInduction
<1>4. n \in Followed(A, base, F, n)
  BY <1>3
<1> QED
  BY <1>4 DEF Followed

-----------------------------------------------------------------------------
LEMMA FrontProperties ==
  ASSUME NEW S, NEW s \in Seq(S), s # <<>>
  PROVE  /\ Front(s) \in Seq(S) /\ Len(Front(s)) = Len(s) - 1
         /\ \A i \in 1..Len(s) - 1 : Front(s)[i] = s[i]
         /\ Last(s) \in S /\ Last(s) = s[Len(s)] /\ Len(s) \in Nat \ {0}
<1>1. Len(s) \in Nat \ {0} /\ s[Len(s)] \in S
  BY EmptySeq, LenProperties
<1>2. \A i \in 1..Len(s) - 1 : s[i] \in S
  BY LenProperties
<1>3. Front(s) = SubSeq(s, 1, Len(s) - 1)
  BY DEF Front
<1> DEFINE n == Len(s) - 1
<1>4. n \in Nat /\ n \in Int /\ \A i \in 1..n : s[i] \in S
  BY <1>1, <1>2
<1> HIDE DEF n
<1>5. /\ SubSeq(s, 1, n) \in Seq(S)
      /\ Len(SubSeq(s, 1, n)) = IF 1 <= n THEN n - 1 + 1 ELSE 0
      /\ \A i \in 1..n - 1 + 1 : SubSeq(s, 1, n)[i] = s[1 + i - 1]
  BY <1>4, SubSeqProperties
<1>6. Len(SubSeq(s, 1, n)) = n /\ \A i \in 1..n : SubSeq(s, 1, n)[i] = s[i]
  BY <1>4, <1>5
<1> QED
  BY <1>1, <1>3, <1>5, <1>6 DEF Last, n

\* What a message is, as far as the proofs need to know.
LEMMA MessageFields ==
  ASSUME NEW x \in Message
  PROVE  /\ x.calls \in CallSets \cup {{}}
         /\ x.kind \in {"user", "text", "blank", "poisoned", "use", "results", "summary"}
         /\ x.kind \in {"use", "results"} => x.calls \in CallSets
BY DEF Message, Line, Said

LEMMA EndOf ==
  ASSUME NEW m \in Seq(Message), NEW kind
  PROVE  EndsWith(m, kind) <=> m # <<>> /\ Last(m).kind = kind
<1>1. DOMAIN m = 1..Len(m) /\ Len(m) \in Nat /\ (m # <<>> => Len(m) \in Nat \ {0})
  BY LenProperties, EmptySeq
<1>2. m = <<>> => Len(m) = 0
  OBVIOUS
<1> QED
  BY <1>1, <1>2 DEF EndsWith, IsAt, Last

\* What a poisoned answer leaves is a first part of what was there.
IsPrefixOf(s, t) ==
  s \in Seq(Message) /\ Len(s) <= Len(t) /\ \A i \in 1..Len(s) : s[i] = t[i]

LEMMA FrontIsPrefix ==
  ASSUME NEW t \in Seq(Message), NEW s, IsPrefixOf(s, t), s # <<>>
  PROVE  IsPrefixOf(Front(s), t)
<1>1. s \in Seq(Message) /\ Len(t) \in Nat
  BY LenProperties DEF IsPrefixOf
<1>2. /\ Front(s) \in Seq(Message) /\ Len(Front(s)) = Len(s) - 1 /\ Len(s) \in Nat \ {0}
      /\ \A i \in 1..Len(s) - 1 : Front(s)[i] = s[i]
  BY <1>1, FrontProperties
<1> QED
  BY <1>1, <1>2 DEF IsPrefixOf

LEMMA UnpoisonedIsPrefix ==
  ASSUME NEW m \in Seq(Message)
  PROVE  IsPrefixOf(Unpoisoned(m), m)
<1>1. IsPrefixOf(m, m) /\ Len(m) \in Nat
  BY LenProperties DEF IsPrefixOf
<1>2. m # <<>> => IsPrefixOf(Front(m), m) /\ Front(m) \in Seq(Message)
  BY <1>1, FrontIsPrefix DEF IsPrefixOf
<1>3. m # <<>> /\ Front(m) # <<>> => IsPrefixOf(Front(Front(m)), m)
  BY <1>2, FrontIsPrefix
<1>4. \A kind : EndsWith(m, kind) => m # <<>>
  BY EndOf
<1>5. \A kind : m # <<>> /\ EndsWith(Front(m), kind) => Front(m) # <<>>
  BY <1>2, EndOf
<1> QED
  BY <1>1, <1>2, <1>3, <1>4, <1>5 DEF Unpoisoned

-----------------------------------------------------------------------------
\* A pass comes from one of these to the next.
Visits == [out : Seq(Message), skip : BOOLEAN]

LEMMA VisitsStayVisits ==
  ASSUME NEW seen \in Visits, NEW x \in Message
  PROVE  /\ \A skip \in BOOLEAN : Dropped(seen, skip) \in Visits
         /\ Kept(seen, x) \in Visits
         /\ Seen(Unpoisoned(seen.out), FALSE) \in Visits
         /\ NothingSeen \in Visits
<1>1. seen.out \in Seq(Message)
  BY DEF Visits
<1>2. Append(seen.out, x) \in Seq(Message) /\ Unpoisoned(seen.out) \in Seq(Message)
  BY <1>1, AppendProperties, UnpoisonedIsPrefix DEF IsPrefixOf
<1>3. <<>> \in Seq(Message)
  BY EmptySeq
<1> QED
  BY <1>1, <1>2, <1>3 DEF Visits, Dropped, Kept, Seen, NothingSeen

LEMMA SanitizeVisitType ==
  ASSUME NEW m \in Seq(Message), NEW i \in 1..Len(m), NEW seen \in Visits
  PROVE  SanitizeVisit(seen, m, i) \in Visits
<1>1. m[i] \in Message
  BY LenProperties
<1>2. ResultsFollow(m, i) \in BOOLEAN
  BY DEF ResultsFollow, IsAt
<1>3. /\ \A skip \in BOOLEAN : Dropped(seen, skip) \in Visits
      /\ Kept(seen, m[i]) \in Visits
      /\ Seen(Unpoisoned(seen.out), FALSE) \in Visits
  BY <1>1, VisitsStayVisits
<1> QED
  BY <1>2, <1>3 DEF SanitizeVisit

LEMMA RepairVisitType ==
  ASSUME NEW m \in Seq(Message), NEW i \in 1..Len(m), NEW seen \in Visits
  PROVE  RepairVisit(seen, m, i) \in Visits
<1>1. m[i] \in Message
  BY LenProperties
<1>2. ResultsFollow(m, i) \in BOOLEAN
  BY DEF ResultsFollow, IsAt
<1>3. /\ \A skip \in BOOLEAN : Dropped(seen, skip) \in Visits
      /\ Kept(seen, m[i]) \in Visits
  BY <1>1, VisitsStayVisits
<1> QED
  BY <1>2, <1>3 DEF RepairVisit

\* What a pass has come to after each of n messages.
SanitizeUpTo(m, n) ==
  CHOOSE upTo : upTo = [i \in 0..n |->
    IF i = 0 THEN NothingSeen ELSE SanitizeVisit(upTo[i - 1], m, i)]

RepairUpTo(m, n) ==
  CHOOSE upTo : upTo = [i \in 0..n |->
    IF i = 0 THEN NothingSeen ELSE RepairVisit(upTo[i - 1], m, i)]

LEMMA SanitizeUpToIs ==
  ASSUME NEW m, NEW n \in Nat, NothingSeen \in Visits,
         \A i \in 1..n : \A seen \in Visits : SanitizeVisit(seen, m, i) \in Visits
  PROVE  /\ SanitizeUpTo(m, n)[0] = NothingSeen
         /\ \A i \in 0..n : SanitizeUpTo(m, n)[i] \in Visits
         /\ \A i \in 1..n :
              SanitizeUpTo(m, n)[i] = SanitizeVisit(SanitizeUpTo(m, n)[i - 1], m, i)
<1> DEFINE F == [i \in 1..n |-> [seen \in Visits |-> SanitizeVisit(seen, m, i)]]
<1>1. F \in [1..n -> [Visits -> Visits]] 
  OBVIOUS
<1>2. PICK f \in [0..n -> Visits] : Follows(f, NothingSeen, F, n)
  <2> HIDE DEF F
  <2> QED
    BY <1>1, StepsHaveResults
<1>3. f[0] = NothingSeen /\ \A i \in 1..n : f[i] = SanitizeVisit(f[i - 1], m, i)
  <2>1. f[0] = NothingSeen /\ \A i \in 1..n : f[i] = F[i][f[i - 1]]
    BY <1>2 DEF Follows
  <2>2. \A i \in 1..n : f[i - 1] \in Visits
    OBVIOUS
  <2> QED
    BY <2>1, <2>2
<1>4. f = [i \in 0..n |-> IF i = 0 THEN NothingSeen ELSE SanitizeVisit(f[i - 1], m, i)]
  <2>1. f = [i \in 0..n |-> f[i]]
    OBVIOUS
  <2>2. \A i \in 0..n : f[i] = IF i = 0 THEN NothingSeen ELSE SanitizeVisit(f[i - 1], m, i)
    BY <1>3
  <2> QED
    BY <2>1, <2>2
<1>5. SanitizeUpTo(m, n) =
        [i \in 0..n |-> IF i = 0 THEN NothingSeen
                        ELSE SanitizeVisit(SanitizeUpTo(m, n)[i - 1], m, i)]
  BY <1>4 DEF SanitizeUpTo
<1> DEFINE g == SanitizeUpTo(m, n)
           Typed == {k \in 0..n : g[k] \in Visits}
<1>6. g[0] = NothingSeen /\ \A i \in 1..n : g[i] = SanitizeVisit(g[i - 1], m, i)
  BY <1>5
<1> HIDE DEF g
<1>7. 0 \in Typed
  BY <1>6
<1>8. ASSUME NEW k \in 0..n - 1, k \in Typed
      PROVE  k + 1 \in Typed
  <2>1. k + 1 \in 1..n /\ g[k + 1] = SanitizeVisit(g[k], m, k + 1)
    BY <1>6
  <2> QED
    BY <1>8, <2>1
<1>9. \A k \in 0..n : k \in Typed
  <2> HIDE DEF Typed
  <2> QED
    BY <1>7, <1>8, UpToInduction
<1> QED
  BY <1>6, <1>9 DEF g

LEMMA RepairUpToIs ==
  ASSUME NEW m, NEW n \in Nat, NothingSeen \in Visits,
         \A i \in 1..n : \A seen \in Visits : RepairVisit(seen, m, i) \in Visits
  PROVE  /\ RepairUpTo(m, n)[0] = NothingSeen
         /\ \A i \in 0..n : RepairUpTo(m, n)[i] \in Visits
         /\ \A i \in 1..n :
              RepairUpTo(m, n)[i] = RepairVisit(RepairUpTo(m, n)[i - 1], m, i)
<1> DEFINE F == [i \in 1..n |-> [seen \in Visits |-> RepairVisit(seen, m, i)]]
<1>1. F \in [1..n -> [Visits -> Visits]] 
  OBVIOUS
<1>2. PICK f \in [0..n -> Visits] : Follows(f, NothingSeen, F, n)
  <2> HIDE DEF F
  <2> QED
    BY <1>1, StepsHaveResults
<1>3. f[0] = NothingSeen /\ \A i \in 1..n : f[i] = RepairVisit(f[i - 1], m, i)
  <2>1. f[0] = NothingSeen /\ \A i \in 1..n : f[i] = F[i][f[i - 1]]
    BY <1>2 DEF Follows
  <2>2. \A i \in 1..n : f[i - 1] \in Visits
    OBVIOUS
  <2> QED
    BY <2>1, <2>2
<1>4. f = [i \in 0..n |-> IF i = 0 THEN NothingSeen ELSE RepairVisit(f[i - 1], m, i)]
  <2>1. f = [i \in 0..n |-> f[i]]
    OBVIOUS
  <2>2. \A i \in 0..n : f[i] = IF i = 0 THEN NothingSeen ELSE RepairVisit(f[i - 1], m, i)
    BY <1>3
  <2> QED
    BY <2>1, <2>2
<1>5. RepairUpTo(m, n) =
        [i \in 0..n |-> IF i = 0 THEN NothingSeen
                        ELSE RepairVisit(RepairUpTo(m, n)[i - 1], m, i)]
  BY <1>4 DEF RepairUpTo
<1> DEFINE g == RepairUpTo(m, n)
           Typed == {k \in 0..n : g[k] \in Visits}
<1>6. g[0] = NothingSeen /\ \A i \in 1..n : g[i] = RepairVisit(g[i - 1], m, i)
  BY <1>5
<1> HIDE DEF g
<1>7. 0 \in Typed
  BY <1>6
<1>8. ASSUME NEW k \in 0..n - 1, k \in Typed
      PROVE  k + 1 \in Typed
  <2>1. k + 1 \in 1..n /\ g[k + 1] = RepairVisit(g[k], m, k + 1)
    BY <1>6
  <2> QED
    BY <1>8, <2>1
<1>9. \A k \in 0..n : k \in Typed
  <2> HIDE DEF Typed
  <2> QED
    BY <1>7, <1>8, UpToInduction
<1> QED
  BY <1>6, <1>9 DEF g

\* A pass over a list of messages comes from one visit to the next.
LEMMA SanitizePassVisits ==
  ASSUME NEW m \in Seq(Message)
  PROVE  LET g == SanitizeUpTo(m, Len(m)) IN
         /\ Len(m) \in Nat /\ SanitizePass(m) = g[Len(m)].out
         /\ g[0] = NothingSeen /\ \A i \in 0..Len(m) : g[i] \in Visits
         /\ \A i \in 1..Len(m) : g[i] = SanitizeVisit(g[i - 1], m, i)
<1>1. Len(m) \in Nat
  BY LenProperties
<1>2. NothingSeen \in Visits
  BY EmptySeq DEF Visits, NothingSeen, Seen
<1>3. \A i \in 1..Len(m) : \A seen \in Visits : SanitizeVisit(seen, m, i) \in Visits
  BY SanitizeVisitType
<1>4. SanitizePass(m) = SanitizeUpTo(m, Len(m))[Len(m)].out
  BY DEF SanitizePass, SanitizeUpTo
<1> DEFINE n == Len(m)
<1> HIDE DEF n
<1>5. n \in Nat /\ \A i \in 1..n : \A seen \in Visits : SanitizeVisit(seen, m, i) \in Visits
  BY <1>1, <1>3 DEF n
<1>6. /\ SanitizeUpTo(m, n)[0] = NothingSeen
      /\ \A i \in 0..n : SanitizeUpTo(m, n)[i] \in Visits
      /\ \A i \in 1..n : SanitizeUpTo(m, n)[i] = SanitizeVisit(SanitizeUpTo(m, n)[i - 1], m, i)
  BY <1>2, <1>5, SanitizeUpToIs
<1> QED
  BY <1>1, <1>4, <1>6 DEF n

LEMMA RepairPassVisits ==
  ASSUME NEW m \in Seq(Message)
  PROVE  LET g == RepairUpTo(m, Len(m)) IN
         /\ Len(m) \in Nat /\ RepairPass(m) = g[Len(m)].out
         /\ g[0] = NothingSeen /\ \A i \in 0..Len(m) : g[i] \in Visits
         /\ \A i \in 1..Len(m) : g[i] = RepairVisit(g[i - 1], m, i)
<1>1. Len(m) \in Nat
  BY LenProperties
<1>2. NothingSeen \in Visits
  BY EmptySeq DEF Visits, NothingSeen, Seen
<1>3. \A i \in 1..Len(m) : \A seen \in Visits : RepairVisit(seen, m, i) \in Visits
  BY RepairVisitType
<1>4. RepairPass(m) = RepairUpTo(m, Len(m))[Len(m)].out
  BY DEF RepairPass, RepairUpTo
<1> DEFINE n == Len(m)
<1> HIDE DEF n
<1>5. n \in Nat /\ \A i \in 1..n : \A seen \in Visits : RepairVisit(seen, m, i) \in Visits
  BY <1>1, <1>3 DEF n
<1>6. /\ RepairUpTo(m, n)[0] = NothingSeen
      /\ \A i \in 0..n : RepairUpTo(m, n)[i] \in Visits
      /\ \A i \in 1..n : RepairUpTo(m, n)[i] = RepairVisit(RepairUpTo(m, n)[i - 1], m, i)
  BY <1>2, <1>5, RepairUpToIs
<1> QED
  BY <1>1, <1>4, <1>6 DEF n

-----------------------------------------------------------------------------
\* What is appended is last.
LEMMA LastOfAppend ==
  ASSUME NEW s \in Seq(Message), NEW x \in Message
  PROVE  /\ Append(s, x) \in Seq(Message) /\ Append(s, x) # <<>>
         /\ Last(Append(s, x)) = x /\ Front(Append(s, x)) = s
         /\ \A kind : EndsWith(Append(s, x), kind) <=> x.kind = kind
<1> DEFINE t == Append(s, x)
<1>1. /\ t \in Seq(Message) /\ t # <<>> /\ Len(t) = Len(s) + 1
      /\ \A i \in 1..Len(s) : t[i] = s[i]
      /\ t[Len(s) + 1] = x
  BY AppendProperties
<1>2. Len(s) \in Nat
  BY LenProperties
<1> HIDE DEF t
<1>3. /\ Front(t) \in Seq(Message) /\ Len(Front(t)) = Len(t) - 1
      /\ \A i \in 1..Len(t) - 1 : Front(t)[i] = t[i]
      /\ Last(t) = t[Len(t)]
  BY <1>1, FrontProperties
<1>4. Len(Front(t)) = Len(s) /\ (\A i \in 1..Len(Front(t)) : Front(t)[i] = s[i]) /\ Last(t) = x
  BY <1>1, <1>2, <1>3
<1>5. Front(t) = s
  BY <1>3, <1>4, SeqEqual
<1>6. \A kind : EndsWith(t, kind) <=> t # <<>> /\ Last(t).kind = kind
  BY <1>1, EndOf
<1> QED
  BY <1>1, <1>4, <1>5, <1>6 DEF t

\* Accepted() by the places of a list.
AcceptedAt(m, i) ==
  /\ m[i].kind = "use" =>
       i + 1 \in 1..Len(m) /\ m[i + 1].kind = "results" /\ m[i + 1].calls = m[i].calls
  /\ m[i].kind = "results" =>
       i - 1 \in 1..Len(m) /\ m[i - 1].kind = "use" /\ m[i - 1].calls = m[i].calls

LEMMA AcceptedIs ==
  ASSUME NEW m \in Seq(Message)
  PROVE  Accepted(m) <=> \A i \in 1..Len(m) : AcceptedAt(m, i)
<1>1. DOMAIN m = 1..Len(m)
  BY LenProperties
<1> QED
  BY <1>1 DEF Accepted, AcceptedAt, IsAt

LEMMA NothingIsAccepted == Accepted(<<>>)
BY DEF Accepted

LEMMA PlainStaysAccepted ==
  ASSUME NEW s \in Seq(Message), NEW x \in Message, Accepted(s), x.kind \notin {"use", "results"}
  PROVE  Accepted(Append(s, x))
<1> DEFINE t == Append(s, x)
<1>1. /\ t \in Seq(Message) /\ Len(t) = Len(s) + 1 /\ Len(s) \in Nat
      /\ \A i \in 1..Len(s) : t[i] = s[i]
      /\ t[Len(s) + 1] = x
  BY AppendProperties, LenProperties
<1>2. \A i \in 1..Len(s) : AcceptedAt(s, i)
  BY AcceptedIs
<1> HIDE DEF t
<1>3. \A i \in 1..Len(t) : AcceptedAt(t, i)
  <2>1. ASSUME NEW i \in 1..Len(s) PROVE AcceptedAt(t, i)
    <3>1. /\ i + 1 \in 1..Len(s) => t[i + 1] = s[i + 1] /\ i + 1 \in 1..Len(t)
          /\ i - 1 \in 1..Len(s) => t[i - 1] = s[i - 1] /\ i - 1 \in 1..Len(t)
          /\ t[i] = s[i]
      BY <1>1
    <3> QED
      BY <3>1, <1>2 DEF AcceptedAt
  <2>2. AcceptedAt(t, Len(s) + 1)
    BY <1>1 DEF AcceptedAt
  <2> QED
    BY <1>1, <2>1, <2>2
<1> QED
  BY <1>1, <1>3, AcceptedIs DEF t

LEMMA ExchangeStaysAccepted ==
  ASSUME NEW s \in Seq(Message), NEW x \in Message, NEW y \in Message, Accepted(s),
         x.kind = "use", y.kind = "results", x.calls = y.calls
  PROVE  Accepted(Append(Append(s, x), y))
<1> DEFINE t == Append(s, x)
           u == Append(t, y)
<1>1. /\ t \in Seq(Message) /\ Len(t) = Len(s) + 1 /\ Len(s) \in Nat
      /\ \A i \in 1..Len(s) : t[i] = s[i]
      /\ t[Len(s) + 1] = x
  BY AppendProperties, LenProperties
<1>2. \A i \in 1..Len(s) : AcceptedAt(s, i)
  BY AcceptedIs
<1> HIDE DEF t
<1>3. /\ u \in Seq(Message) /\ Len(u) = Len(t) + 1
      /\ \A i \in 1..Len(t) : u[i] = t[i]
      /\ u[Len(t) + 1] = y
  BY <1>1, AppendProperties
<1> HIDE DEF u
<1>4. /\ Len(u) = Len(s) + 2 /\ u[Len(s) + 1] = x /\ u[Len(s) + 2] = y
      /\ \A i \in 1..Len(s) : u[i] = s[i]
  BY <1>1, <1>3
<1>5. \A i \in 1..Len(u) : AcceptedAt(u, i)
  <2>1. ASSUME NEW i \in 1..Len(s) PROVE AcceptedAt(u, i)
    <3>1. /\ i + 1 \in 1..Len(s) => u[i + 1] = s[i + 1] /\ i + 1 \in 1..Len(u)
          /\ i - 1 \in 1..Len(s) => u[i - 1] = s[i - 1] /\ i - 1 \in 1..Len(u)
          /\ u[i] = s[i]
      BY <1>1, <1>4
    <3> QED
      BY <3>1, <1>2 DEF AcceptedAt
  <2>2. AcceptedAt(u, Len(s) + 1)
    BY <1>1, <1>4 DEF AcceptedAt
  <2>3. AcceptedAt(u, Len(s) + 2)
    BY <1>1, <1>4 DEF AcceptedAt
  <2> QED
    BY <1>1, <1>4, <2>1, <2>2, <2>3
<1> QED
  BY <1>3, <1>5, AcceptedIs DEF t, u

LEMMA NoOpenUse ==
  ASSUME NEW m \in Seq(Message), Accepted(m)
  PROVE  ~ EndsWith(m, "use")
<1>1. Len(m) \in Nat /\ (m # <<>> => Len(m) \in Nat \ {0} /\ Last(m) = m[Len(m)])
  BY LenProperties, EmptySeq DEF Last
<1>2. \A i \in 1..Len(m) : AcceptedAt(m, i)
  BY AcceptedIs
<1>3. SUFFICES ASSUME m # <<>>, Last(m).kind = "use" PROVE FALSE
  BY EndOf
<1>4. AcceptedAt(m, Len(m))
  BY <1>1, <1>2, <1>3
<1> QED
  BY <1>1, <1>3, <1>4 DEF AcceptedAt

\* A first part that does not break an exchange is accepted as the whole is.
LEMMA PrefixIsAccepted ==
  ASSUME NEW m \in Seq(Message), NEW s, IsPrefixOf(s, m), Accepted(m), ~ EndsWith(s, "use")
  PROVE  Accepted(s)
<1>1. /\ s \in Seq(Message) /\ Len(s) \in Nat /\ Len(m) \in Nat /\ Len(s) <= Len(m)
      /\ \A i \in 1..Len(s) : s[i] = m[i]
  BY LenProperties DEF IsPrefixOf
<1>2. \A i \in 1..Len(m) : AcceptedAt(m, i)
  BY AcceptedIs
<1>3. Len(s) > 0 => s[Len(s)].kind # "use"
  <2>1. s = <<>> => Len(s) = 0
    OBVIOUS
  <2>2. s # <<>> => Last(s) = s[Len(s)] /\ Last(s).kind # "use"
    BY <1>1, EndOf, FrontProperties
  <2> QED
    BY <2>1, <2>2
<1>4. ASSUME NEW i \in 1..Len(s) PROVE AcceptedAt(s, i)
  <2>1. AcceptedAt(m, i) /\ s[i] = m[i]
    BY <1>1, <1>2
  <2>2. i - 1 \in 1..Len(s) => s[i - 1] = m[i - 1]
    BY <1>1
  <2>3. i + 1 \in 1..Len(s) => s[i + 1] = m[i + 1]
    BY <1>1
  <2>4. s[i].kind = "use" => i + 1 \in 1..Len(s)
    BY <1>1, <1>3
  <2>5. i - 1 \in 1..Len(m) => i - 1 \in 1..Len(s)
    BY <1>1
  <2> QED
    BY <2>1, <2>2, <2>3, <2>4, <2>5 DEF AcceptedAt
<1> QED
  BY <1>1, <1>4, AcceptedIs

LEMMA UnpoisonedIsAccepted ==
  ASSUME NEW m \in Seq(Message), Accepted(m)
  PROVE  Accepted(Unpoisoned(m))
<1>1. /\ Len(m) \in Nat
      /\ m # <<>> => /\ Front(m) \in Seq(Message) /\ Len(Front(m)) = Len(m) - 1
                     /\ \A i \in 1..Len(m) - 1 : Front(m)[i] = m[i]
                     /\ Last(m) = m[Len(m)] /\ Len(m) \in Nat \ {0}
                     /\ IsPrefixOf(Front(m), m)
  <2>1. Len(m) \in Nat /\ IsPrefixOf(m, m)
    BY LenProperties DEF IsPrefixOf
  <2>2. m # <<>> => IsPrefixOf(Front(m), m)
    BY <2>1, FrontIsPrefix
  <2>3. m # <<>> => /\ Front(m) \in Seq(Message) /\ Len(Front(m)) = Len(m) - 1
                    /\ \A i \in 1..Len(m) - 1 : Front(m)[i] = m[i]
                    /\ Last(m) = m[Len(m)] /\ Len(m) \in Nat \ {0}
    BY FrontProperties
  <2> QED
    BY <2>1, <2>2, <2>3
<1>2. \A i \in 1..Len(m) : AcceptedAt(m, i)
  BY AcceptedIs
<1>3. ASSUME EndsWith(m, "results")
      PROVE  Unpoisoned(m) = Front(Front(m)) /\ Accepted(Front(Front(m)))
  <2>1. m # <<>> /\ Last(m).kind = "results"
    BY <1>3, EndOf
  <2>2. Len(m) - 1 \in 1..Len(m) /\ m[Len(m) - 1].kind = "use"
    <3>1. AcceptedAt(m, Len(m))
      BY <1>1, <1>2, <2>1
    <3> QED
      BY <1>1, <2>1, <3>1 DEF AcceptedAt
  <2> DEFINE f == Front(m)
  <2>3. f \in Seq(Message) /\ Len(f) = Len(m) - 1 /\ f # <<>> /\ IsPrefixOf(f, m)
    BY <1>1, <2>1, <2>2
  <2>4. f[Len(f)].kind = "use"
    BY <1>1, <2>1, <2>2
  <2> HIDE DEF f
  <2>5. /\ Last(f) = f[Len(f)] /\ Front(f) \in Seq(Message) /\ Len(Front(f)) = Len(f) - 1
        /\ \A i \in 1..Len(f) - 1 : Front(f)[i] = f[i]
        /\ IsPrefixOf(Front(f), m)
    BY <2>3, FrontProperties, FrontIsPrefix
  <2>6. EndsWith(f, "use")
    BY <2>3, <2>4, <2>5, EndOf
  <2>7. ~ EndsWith(Front(f), "use")
    <3>1. SUFFICES ASSUME Front(f) # <<>>, Last(Front(f)).kind = "use" PROVE FALSE
      BY <2>5, EndOf
    <3>2. Last(Front(f)) = Front(f)[Len(Front(f))] /\ Len(Front(f)) \in Nat \ {0}
      BY <2>5, <3>1, FrontProperties
    <3>3. /\ Len(m) - 2 \in 1..Len(m) /\ Len(Front(f)) = Len(m) - 2
          /\ Front(f)[Len(m) - 2] = m[Len(m) - 2]
      BY <1>1, <2>3, <2>5, <3>2 DEF IsPrefixOf
    <3>4. AcceptedAt(m, Len(m) - 2)
      BY <1>2, <3>3
    <3>5. m[Len(m) - 2 + 1].kind = "results"
      BY <3>1, <3>2, <3>3, <3>4 DEF AcceptedAt
    <3> QED
      BY <1>1, <2>2, <3>5
  <2>8. Accepted(Front(f))
    BY <2>5, <2>7, PrefixIsAccepted
  <2> QED
    BY <1>3, <2>6, <2>8 DEF f, Unpoisoned
<1>4. ASSUME ~ EndsWith(m, "results"), EndsWith(m, "user")
      PROVE  Unpoisoned(m) = Front(m) /\ Accepted(Front(m))
  <2>1. m # <<>> /\ Last(m).kind = "user"
    BY <1>4, EndOf
  <2>2. ~ EndsWith(Front(m), "use")
    <3>1. SUFFICES ASSUME Front(m) # <<>>, Last(Front(m)).kind = "use" PROVE FALSE
      BY <1>1, <2>1, EndOf
    <3>2. Last(Front(m)) = Front(m)[Len(Front(m))] /\ Len(Front(m)) \in Nat \ {0}
      BY <1>1, <2>1, <3>1, FrontProperties
    <3>3. Len(m) - 1 \in 1..Len(m) /\ Front(m)[Len(m) - 1] = m[Len(m) - 1]
      BY <1>1, <2>1, <3>2
    <3>4. AcceptedAt(m, Len(m) - 1)
      BY <1>2, <3>3
    <3>5. m[Len(m) - 1 + 1].kind = "results"
      BY <1>1, <2>1, <3>1, <3>2, <3>3, <3>4 DEF AcceptedAt
    <3> QED
      BY <1>1, <2>1, <3>5
  <2>3. Accepted(Front(m))
    BY <1>1, <2>1, <2>2, PrefixIsAccepted
  <2> QED
    BY <1>4, <2>3 DEF Unpoisoned
<1> QED
  BY <1>3, <1>4 DEF Unpoisoned

-----------------------------------------------------------------------------
\* One pass of sanitizeMessages() leaves results only after a request for their
\* calls, and for others perhaps.
BackedAt(m, i) ==
  m[i].kind = "results" =>
    i - 1 \in 1..Len(m) /\ m[i - 1].kind = "use" /\ m[i].calls \subseteq m[i - 1].calls

Backed(m) == \A i \in 1..Len(m) : BackedAt(m, i)

LEMMA PrefixIsBacked ==
  ASSUME NEW m \in Seq(Message), NEW s, IsPrefixOf(s, m), Backed(m)
  PROVE  Backed(s)
<1>1. /\ s \in Seq(Message) /\ Len(s) \in Nat /\ Len(m) \in Nat /\ Len(s) <= Len(m)
      /\ \A i \in 1..Len(s) : s[i] = m[i]
  BY LenProperties DEF IsPrefixOf
<1>2. ASSUME NEW i \in 1..Len(s) PROVE BackedAt(s, i)
  <2>1. BackedAt(m, i) /\ s[i] = m[i]
    BY <1>1 DEF Backed
  <2>2. i - 1 \in 1..Len(s) => s[i - 1] = m[i - 1]
    BY <1>1
  <2>3. i - 1 \in 1..Len(m) => i - 1 \in 1..Len(s)
    BY <1>1
  <2> QED
    BY <2>1, <2>2, <2>3 DEF BackedAt
<1> QED
  BY <1>2 DEF Backed

LEMMA AppendIsBacked ==
  ASSUME NEW s \in Seq(Message), NEW x \in Message, Backed(s),
         x.kind = "results" => EndsWith(s, "use") /\ x.calls \subseteq Last(s).calls
  PROVE  Backed(Append(s, x))
<1> DEFINE t == Append(s, x)
<1>1. /\ t \in Seq(Message) /\ Len(t) = Len(s) + 1 /\ Len(s) \in Nat
      /\ \A i \in 1..Len(s) : t[i] = s[i]
      /\ t[Len(s) + 1] = x
  BY AppendProperties, LenProperties
<1>2. x.kind = "results" =>
        Len(s) \in 1..Len(s) /\ s[Len(s)].kind = "use" /\ x.calls \subseteq s[Len(s)].calls
    <2>1. s # <<>> => Last(s) = s[Len(s)] /\ Len(s) \in Nat \ {0}
    BY FrontProperties
  <2> QED
    BY <2>1, EndOf
<1> HIDE DEF t
<1>3. ASSUME NEW i \in 1..Len(s) PROVE BackedAt(t, i)
  <2>1. BackedAt(s, i) /\ t[i] = s[i]
    BY <1>1 DEF Backed
  <2>2. i - 1 \in 1..Len(s) => t[i - 1] = s[i - 1] /\ i - 1 \in 1..Len(t)
    BY <1>1
  <2> QED
    BY <2>1, <2>2 DEF BackedAt
<1>4. BackedAt(t, Len(s) + 1)
  BY <1>1, <1>2 DEF BackedAt
<1> QED
  BY <1>1, <1>3, <1>4 DEF Backed, t

\* What visits come to.
LEMMA SanitizeVisitIs ==
  ASSUME NEW m \in Seq(Message), NEW i \in 1..Len(m), NEW seen \in Visits
  PROVE  LET now == SanitizeVisit(seen, m, i) IN
         /\ seen.out \in Seq(Message) /\ m[i] \in Message
         /\ \/ /\ now.out = seen.out
               /\ seen.skip \/ (m[i].kind = "use" /\ ~ Answered(m, i))
                  \/ (m[i].kind = "results"
                       /\ ~ (EndsWith(seen.out, "use") /\ m[i].calls \subseteq Last(seen.out).calls))
            \/ /\ now.out = Unpoisoned(seen.out) /\ m[i].kind = "poisoned" /\ ~ seen.skip
            \/ /\ now.out = Append(seen.out, m[i]) /\ ~ now.skip /\ ~ seen.skip
               /\ m[i].kind # "poisoned"
               /\ m[i].kind = "use" => Answered(m, i)
               /\ m[i].kind = "results" =>
                    EndsWith(seen.out, "use") /\ m[i].calls \subseteq Last(seen.out).calls
<1>1. seen.out \in Seq(Message) /\ m[i] \in Message /\ seen.skip \in BOOLEAN
  BY LenProperties DEF Visits
<1> DEFINE matches == EndsWith(seen.out, "use") /\ m[i].calls \subseteq Last(seen.out).calls
           now == SanitizeVisit(seen, m, i)
<1>2. CASE seen.skip
  <2>1. now = [out |-> seen.out, skip |-> FALSE]
    BY <1>2 DEF SanitizeVisit, Dropped, Seen
  <2> QED
    BY <1>1, <1>2, <2>1
<1>3. CASE ~ seen.skip /\ m[i].kind = "poisoned"
  <2>1. now.out = Unpoisoned(seen.out)
    BY <1>3 DEF SanitizeVisit, Seen
  <2> QED
    BY <1>1, <1>3, <2>1
<1>4. CASE /\ ~ seen.skip
           /\ \/ m[i].kind = "use" /\ ~ Answered(m, i)
              \/ m[i].kind = "results" /\ ~ matches
  <2>1. now.out = seen.out
    BY <1>4 DEF SanitizeVisit, Dropped, Seen
  <2> QED
    BY <1>1, <1>4, <2>1
<1>5. CASE /\ ~ seen.skip /\ m[i].kind # "poisoned"
           /\ m[i].kind = "use" => Answered(m, i)
           /\ m[i].kind = "results" => matches
  <2>1. now = Kept(seen, m[i])
    BY <1>5 DEF SanitizeVisit
  <2>2. now.out = Append(seen.out, m[i]) /\ ~ now.skip
    BY <2>1 DEF Kept, Seen
  <2> QED
    BY <1>1, <1>5, <2>2
<1> QED
  BY <1>2, <1>3, <1>4, <1>5

\* Whatever a list of messages is, a pass leaves results only after a request.
LEMMA PassIsBacked ==
  ASSUME NEW m \in Seq(Message)
  PROVE  SanitizePass(m) \in Seq(Message) /\ Backed(SanitizePass(m))
<1> DEFINE g == SanitizeUpTo(m, Len(m))
           S == {i \in 0..Len(m) : Backed(g[i].out)}
<1>1. /\ Len(m) \in Nat /\ SanitizePass(m) = g[Len(m)].out
      /\ g[0] = NothingSeen /\ \A i \in 0..Len(m) : g[i] \in Visits
      /\ \A i \in 1..Len(m) : g[i] = SanitizeVisit(g[i - 1], m, i)
  BY SanitizePassVisits
<1> HIDE DEF g
<1>2. 0 \in S
  BY <1>1 DEF NothingSeen, Seen, Backed
<1>3. ASSUME NEW k \in 0..Len(m) - 1, k \in S
      PROVE  k + 1 \in S
  <2> DEFINE i == k + 1
             now == g[i]
             seen == g[k]
  <2>1. i \in 1..Len(m) /\ i - 1 = k /\ seen \in Visits /\ now = SanitizeVisit(seen, m, i)
    BY <1>1
  <2>2. Backed(seen.out)
    BY <1>3
  <2> HIDE DEF i, now, seen
  <2>3. /\ seen.out \in Seq(Message) /\ m[i] \in Message
        /\ \/ now.out = seen.out
           \/ now.out = Unpoisoned(seen.out)
           \/ /\ now.out = Append(seen.out, m[i])
              /\ m[i].kind = "results" =>
                   EndsWith(seen.out, "use") /\ m[i].calls \subseteq Last(seen.out).calls
    BY <2>1, SanitizeVisitIs
  <2>4. Backed(Unpoisoned(seen.out))
    BY <2>2, <2>3, UnpoisonedIsPrefix, PrefixIsBacked
  <2>5. Backed(now.out)
    BY <2>2, <2>3, <2>4, AppendIsBacked
  <2> QED
    BY <1>1, <2>5 DEF i, now
<1>4. Len(m) \in S
  <2> HIDE DEF S
  <2>1. \A k \in 0..Len(m) : k \in S
    BY <1>1, <1>2, <1>3, UpToInduction
  <2> QED
    BY <1>1, <2>1
<1> QED
  BY <1>1, <1>4 DEF Visits

\* A request of m has been kept, whose results come next.
Open(seen, m, i) ==
  /\ i \in 1..Len(m) /\ m[i].kind = "use" /\ Answered(m, i) /\ ~ seen.skip
  /\ \E s \in Seq(Message) : Accepted(s) /\ seen.out = Append(s, m[i])

\* After one pass the results of a request are those it asks for, so that a second
\* keeps whole exchanges or nothing of them.
LEMMA PassOfBackedIsAccepted ==
  ASSUME NEW m \in Seq(Message), Backed(m)
  PROVE  Accepted(SanitizePass(m))
<1> DEFINE g == SanitizeUpTo(m, Len(m))
           S == {i \in 0..Len(m) : Accepted(g[i].out) \/ Open(g[i], m, i)}
<1>1. /\ Len(m) \in Nat /\ SanitizePass(m) = g[Len(m)].out
      /\ g[0] = NothingSeen /\ \A i \in 0..Len(m) : g[i] \in Visits
      /\ \A i \in 1..Len(m) : g[i] = SanitizeVisit(g[i - 1], m, i)
  BY SanitizePassVisits
<1> HIDE DEF g
<1>2. 0 \in S
  BY <1>1, NothingIsAccepted DEF NothingSeen, Seen
<1>a. ASSUME NEW i \in 1..Len(m), m[i].kind = "use", Answered(m, i)
      PROVE  i + 1 \in 1..Len(m) /\ m[i + 1].kind = "results" /\ m[i + 1].calls = m[i].calls
  <2>1. i + 1 \in 1..Len(m) /\ m[i + 1].kind = "results" /\ m[i].calls \subseteq m[i + 1].calls
    BY <1>a, LenProperties DEF Answered, IsAt
  <2>2. BackedAt(m, i + 1) /\ i + 1 - 1 = i
    BY <2>1 DEF Backed
  <2>3. m[i + 1].calls \subseteq m[i].calls
    BY <2>1, <2>2 DEF BackedAt
  <2> QED
    BY <2>1, <2>3
<1>3. ASSUME NEW k \in 0..Len(m) - 1, k \in S
      PROVE  k + 1 \in S
  <2> DEFINE i == k + 1
             now == g[i]
             seen == g[k]
  <2>1. i \in 1..Len(m) /\ i - 1 = k /\ seen \in Visits /\ now = SanitizeVisit(seen, m, i)
    BY <1>1
  <2>2. Accepted(seen.out) \/ Open(seen, m, k)
    BY <1>3
  <2>0. SUFFICES Accepted(now.out) \/ Open(now, m, i)
    BY <1>1
  <2> HIDE DEF i, now, seen
  <2>3. /\ seen.out \in Seq(Message) /\ m[i] \in Message
        /\ \/ /\ now.out = seen.out
              /\ seen.skip \/ (m[i].kind = "use" /\ ~ Answered(m, i))
                 \/ (m[i].kind = "results"
                      /\ ~ (EndsWith(seen.out, "use") /\ m[i].calls \subseteq Last(seen.out).calls))
           \/ /\ now.out = Unpoisoned(seen.out) /\ m[i].kind = "poisoned" /\ ~ seen.skip
           \/ /\ now.out = Append(seen.out, m[i]) /\ ~ now.skip /\ ~ seen.skip
              /\ m[i].kind # "poisoned"
              /\ m[i].kind = "use" => Answered(m, i)
              /\ m[i].kind = "results" =>
                   EndsWith(seen.out, "use") /\ m[i].calls \subseteq Last(seen.out).calls
    BY <2>1, SanitizeVisitIs
  <2>4. CASE Accepted(seen.out)
    <3>1. ~ EndsWith(seen.out, "use") /\ Accepted(Unpoisoned(seen.out))
      BY <2>3, <2>4, NoOpenUse, UnpoisonedIsAccepted
    <3>2. CASE now.out = seen.out \/ now.out = Unpoisoned(seen.out)
      BY <2>4, <3>1, <3>2
    <3>3. CASE /\ now.out = Append(seen.out, m[i]) /\ ~ now.skip
               /\ m[i].kind = "use" => Answered(m, i)
               /\ m[i].kind = "results" => EndsWith(seen.out, "use")
      <4>1. CASE m[i].kind = "use"
        BY <2>1, <2>3, <2>4, <3>3, <4>1 DEF Open
      <4>2. CASE m[i].kind # "use"
        BY <2>3, <2>4, <3>1, <3>3, <4>2, PlainStaysAccepted
      <4> QED
        BY <4>1, <4>2
    <3> QED
      BY <2>3, <3>2, <3>3
  <2>5. CASE Open(seen, m, k)
    <3>1. PICK s \in Seq(Message) : Accepted(s) /\ seen.out = Append(s, m[k])
      BY <2>5 DEF Open
    <3>2. k \in 1..Len(m) /\ m[k].kind = "use" /\ Answered(m, k) /\ ~ seen.skip
      BY <2>5 DEF Open
    <3>3. i = k + 1 /\ m[i].kind = "results" /\ m[i].calls = m[k].calls /\ m[k] \in Message
      BY <3>2, <1>a, LenProperties DEF i
    <3>4. EndsWith(seen.out, "use") /\ Last(seen.out) = m[k]
      BY <3>1, <3>2, <3>3, LastOfAppend
    <3>5. now.out = Append(Append(s, m[k]), m[i])
      BY <2>3, <3>1, <3>2, <3>3, <3>4
    <3>6. Accepted(Append(Append(s, m[k]), m[i]))
      BY <2>3, <3>1, <3>2, <3>3, ExchangeStaysAccepted
    <3> QED
      BY <3>5, <3>6
  <2> QED
    BY <2>2, <2>4, <2>5
<1>4. Len(m) \in S
  <2> HIDE DEF S
  <2>1. \A k \in 0..Len(m) : k \in S
    BY <1>1, <1>2, <1>3, UpToInduction
  <2> QED
    BY <1>1, <2>1
<1>5. ~ Open(g[Len(m)], m, Len(m))
  <2>1. SUFFICES ASSUME Open(g[Len(m)], m, Len(m)) PROVE FALSE
    OBVIOUS
  <2>2. Len(m) + 1 \in 1..Len(m)
    BY <2>1, <1>a DEF Open
  <2> QED
    BY <1>1, <2>2
<1> QED
  BY <1>1, <1>4, <1>5

-----------------------------------------------------------------------------
\* Passes are repeated while they change something.
Rounds == [out : Seq(Message), changed : BOOLEAN]
FirstRound(m) == [out |-> m, changed |-> TRUE]

SanitizeAgain(round) ==
  IF round.changed /\ SanitizePass(round.out) # round.out
  THEN [out |-> SanitizePass(round.out), changed |-> TRUE]
  ELSE [out |-> round.out, changed |-> FALSE]

SanitizeRounds(m) ==
  CHOOSE after : after = [n \in 0..10 |->
    IF n = 0 THEN FirstRound(m) ELSE SanitizeAgain(after[n - 1])]

LEMMA SanitizeRoundsAre ==
  ASSUME NEW m, FirstRound(m) \in Rounds,
         \A round \in Rounds : SanitizeAgain(round) \in Rounds
  PROVE  /\ SanitizeRounds(m)[0] = FirstRound(m)
         /\ \A n \in 0..10 : SanitizeRounds(m)[n] \in Rounds
         /\ \A n \in 1..10 : SanitizeRounds(m)[n] = SanitizeAgain(SanitizeRounds(m)[n - 1])
<1> DEFINE F == [n \in 1..10 |-> [round \in Rounds |-> SanitizeAgain(round)]]
<1>1. F \in [1..10 -> [Rounds -> Rounds]]
  OBVIOUS
<1>2. PICK f \in [0..10 -> Rounds] : Follows(f, FirstRound(m), F, 10)
  <2> HIDE DEF F
  <2> QED
    BY <1>1, StepsHaveResults
<1>3. f[0] = FirstRound(m) /\ \A n \in 1..10 : f[n] = SanitizeAgain(f[n - 1])
  <2>1. f[0] = FirstRound(m) /\ \A n \in 1..10 : f[n] = F[n][f[n - 1]]
    BY <1>2 DEF Follows
  <2>2. \A n \in 1..10 : f[n - 1] \in Rounds
    OBVIOUS
  <2> QED
    BY <2>1, <2>2
<1>4. f = [n \in 0..10 |-> IF n = 0 THEN FirstRound(m) ELSE SanitizeAgain(f[n - 1])]
  <2>1. f = [n \in 0..10 |-> f[n]]
    OBVIOUS
  <2>2. \A n \in 0..10 : f[n] = IF n = 0 THEN FirstRound(m) ELSE SanitizeAgain(f[n - 1])
    BY <1>3
  <2> QED
    BY <2>1, <2>2
<1>5. SanitizeRounds(m) =
        [n \in 0..10 |-> IF n = 0 THEN FirstRound(m)
                         ELSE SanitizeAgain(SanitizeRounds(m)[n - 1])]
  BY <1>4 DEF SanitizeRounds
<1> DEFINE g == SanitizeRounds(m)
           Typed == {n \in 0..10 : g[n] \in Rounds}
<1>6. g[0] = FirstRound(m) /\ \A n \in 1..10 : g[n] = SanitizeAgain(g[n - 1])
  BY <1>5
<1> HIDE DEF g
<1>7. 0 \in Typed
  BY <1>6
<1>8. ASSUME NEW k \in 0..10 - 1, k \in Typed
      PROVE  k + 1 \in Typed
  <2>1. k + 1 \in 1..10 /\ g[k + 1] = SanitizeAgain(g[k])
    BY <1>6
  <2> QED
    BY <1>8, <2>1
<1>9. \A k \in 0..10 : k \in Typed
  <2> HIDE DEF Typed
  <2> QED
    BY <1>7, <1>8, UpToInduction
<1> QED
  BY <1>6, <1>9 DEF g

RepairAgain(round) ==
  IF round.changed /\ RepairPass(round.out) # round.out
  THEN [out |-> RepairPass(round.out), changed |-> TRUE]
  ELSE [out |-> round.out, changed |-> FALSE]

RepairRounds(m) ==
  CHOOSE after : after = [n \in 0..10 |->
    IF n = 0 THEN FirstRound(m) ELSE RepairAgain(after[n - 1])]

LEMMA RepairRoundsAre ==
  ASSUME NEW m, FirstRound(m) \in Rounds,
         \A round \in Rounds : RepairAgain(round) \in Rounds
  PROVE  /\ RepairRounds(m)[0] = FirstRound(m)
         /\ \A n \in 0..10 : RepairRounds(m)[n] \in Rounds
         /\ \A n \in 1..10 : RepairRounds(m)[n] = RepairAgain(RepairRounds(m)[n - 1])
<1> DEFINE F == [n \in 1..10 |-> [round \in Rounds |-> RepairAgain(round)]]
<1>1. F \in [1..10 -> [Rounds -> Rounds]]
  OBVIOUS
<1>2. PICK f \in [0..10 -> Rounds] : Follows(f, FirstRound(m), F, 10)
  <2> HIDE DEF F
  <2> QED
    BY <1>1, StepsHaveResults
<1>3. f[0] = FirstRound(m) /\ \A n \in 1..10 : f[n] = RepairAgain(f[n - 1])
  <2>1. f[0] = FirstRound(m) /\ \A n \in 1..10 : f[n] = F[n][f[n - 1]]
    BY <1>2 DEF Follows
  <2>2. \A n \in 1..10 : f[n - 1] \in Rounds
    OBVIOUS
  <2> QED
    BY <2>1, <2>2
<1>4. f = [n \in 0..10 |-> IF n = 0 THEN FirstRound(m) ELSE RepairAgain(f[n - 1])]
  <2>1. f = [n \in 0..10 |-> f[n]]
    OBVIOUS
  <2>2. \A n \in 0..10 : f[n] = IF n = 0 THEN FirstRound(m) ELSE RepairAgain(f[n - 1])
    BY <1>3
  <2> QED
    BY <2>1, <2>2
<1>5. RepairRounds(m) =
        [n \in 0..10 |-> IF n = 0 THEN FirstRound(m)
                         ELSE RepairAgain(RepairRounds(m)[n - 1])]
  BY <1>4 DEF RepairRounds
<1> DEFINE g == RepairRounds(m)
           Typed == {n \in 0..10 : g[n] \in Rounds}
<1>6. g[0] = FirstRound(m) /\ \A n \in 1..10 : g[n] = RepairAgain(g[n - 1])
  BY <1>5
<1> HIDE DEF g
<1>7. 0 \in Typed
  BY <1>6
<1>8. ASSUME NEW k \in 0..10 - 1, k \in Typed
      PROVE  k + 1 \in Typed
  <2>1. k + 1 \in 1..10 /\ g[k + 1] = RepairAgain(g[k])
    BY <1>6
  <2> QED
    BY <1>8, <2>1
<1>9. \A k \in 0..10 : k \in Typed
  <2> HIDE DEF Typed
  <2> QED
    BY <1>7, <1>8, UpToInduction
<1> QED
  BY <1>6, <1>9 DEF g

LEMMA SanitizeRepeats ==
  ASSUME NEW m \in Seq(Message)
  PROVE  LET g == SanitizeRounds(m) IN
         /\ sanitizeMessages(m) = g[10].out
         /\ g[0] = FirstRound(m) /\ \A n \in 0..10 : g[n] \in Rounds
         /\ \A n \in 1..10 : g[n] = SanitizeAgain(g[n - 1])
<1>1. FirstRound(m) \in Rounds
  BY DEF FirstRound, Rounds
<1>2. \A round \in Rounds : SanitizeAgain(round) \in Rounds
  BY PassIsBacked DEF SanitizeAgain, Rounds
<1>3. sanitizeMessages(m) = SanitizeRounds(m)[10].out
  BY DEF sanitizeMessages, Repeated, SanitizeRounds, SanitizeAgain, FirstRound
<1> QED
  BY <1>1, <1>2, <1>3, SanitizeRoundsAre

LEMMA RepairPassType ==
  ASSUME NEW m \in Seq(Message)
  PROVE  RepairPass(m) \in Seq(Message)
BY RepairPassVisits DEF Visits

LEMMA RepairRepeats ==
  ASSUME NEW m \in Seq(Message)
  PROVE  LET g == RepairRounds(m) IN
         /\ Repeated(RepairPass, m) = g[10].out
         /\ g[0] = FirstRound(m) /\ \A n \in 0..10 : g[n] \in Rounds
         /\ \A n \in 1..10 : g[n] = RepairAgain(g[n - 1])
<1>1. FirstRound(m) \in Rounds
  BY DEF FirstRound, Rounds
<1>2. \A round \in Rounds : RepairAgain(round) \in Rounds
  BY RepairPassType DEF RepairAgain, Rounds
<1>3. Repeated(RepairPass, m) = RepairRounds(m)[10].out
  BY DEF Repeated, RepairRounds, RepairAgain, FirstRound
<1> QED
  BY <1>1, <1>2, <1>3, RepairRoundsAre

\* The history of a turn is a list of messages whatever the file has.
LEMMA RepairedType ==
  ASSUME NEW m \in Seq(Message)
  PROVE  repairTranscript(m) \in Seq(Message)
<1> DEFINE repaired == Repeated(RepairPass, m)
<1>1. repaired \in Seq(Message)
  BY RepairRepeats DEF Rounds
<1>2. repairTranscript(m) = IF EndsWith(repaired, "results") THEN Front(repaired) ELSE repaired
  BY DEF repairTranscript
<1> HIDE DEF repaired
<1>3. EndsWith(repaired, "results") => Front(repaired) \in Seq(Message)
  BY <1>1, EndOf, FrontProperties
<1> QED
  BY <1>1, <1>2, <1>3

\* A second pass is made of whatever the first has changed.
LEMMA SanitizedIsAccepted ==
  ASSUME NEW m \in Seq(Message)
  PROVE  sanitizeMessages(m) \in Seq(Message) /\ Accepted(sanitizeMessages(m))
<1> DEFINE g == SanitizeRounds(m)
           Good(n) == Backed(g[n].out) /\ (n > 1 \/ ~ g[n].changed => Accepted(g[n].out))
<1>1. /\ sanitizeMessages(m) = g[10].out
      /\ g[0] = FirstRound(m) /\ \A n \in 0..10 : g[n] \in Rounds
      /\ \A n \in 1..10 : g[n] = SanitizeAgain(g[n - 1])
  BY SanitizeRepeats
<1> HIDE DEF g
<1>2. ASSUME NEW r \in Rounds, r.changed
      PROVE  LET s == SanitizeAgain(r) IN
             /\ Backed(s.out)
             /\ Backed(r.out) \/ ~ s.changed => Accepted(s.out)
  <2> DEFINE s == SanitizeAgain(r)
             p == SanitizePass(r.out)
  <2>1. s.out = p /\ (p # r.out => s.changed)
    BY <1>2 DEF SanitizeAgain
  <2>2. r.out \in Seq(Message)
    BY DEF Rounds
  <2>3. p \in Seq(Message) /\ Backed(p) /\ (Backed(r.out) => Accepted(p))
    BY <2>2, PassIsBacked, PassOfBackedIsAccepted
  <2> HIDE DEF p
  <2> QED
    BY <2>1, <2>3
<1>3. Good(1)
  <2>1. g[0] \in Rounds /\ g[0].changed /\ g[1] = SanitizeAgain(g[0])
    BY <1>1 DEF FirstRound
  <2> QED
    BY <1>2, <2>1
<1>4. ASSUME NEW k \in 1..9, Good(k)
      PROVE  Good(k + 1)
  <2>1. g[k] \in Rounds /\ g[k + 1] = SanitizeAgain(g[k])
    BY <1>1
  <2>2. CASE g[k].changed
    BY <1>2, <1>4, <2>1, <2>2
  <2>3. CASE ~ g[k].changed
    <3>1. g[k + 1].out = g[k].out
      BY <2>1, <2>3 DEF SanitizeAgain
    <3> QED
      BY <1>4, <2>3, <3>1
  <2> QED
    BY <2>2, <2>3
<1>5. Good(10)
  <2> HIDE DEF Good
  <2> QED
    BY <1>3, <1>4
<1> QED
  BY <1>1, <1>5 DEF Rounds

-----------------------------------------------------------------------------
\* Compaction keeps what is after the split, and the split is before no results.
LEMMA SplitIs ==
  ASSUME NEW m \in Seq(Message), NEW keep \in Nat \ {0}
  PROVE  /\ SplitAt(m, keep) \in 0..Len(m)
         /\ SplitAt(m, keep) > 0 => m[SplitAt(m, keep) + 1].kind # "results"
<1> DEFINE n == Len(m)
           S == {s \in 0..(n - keep) : s = 0 \/ m[s + 1].kind # "results"}
           D == {n - s : s \in S}
<1>1. n \in Nat
  BY LenProperties
<1> HIDE DEF n
<1>2. CASE n <= keep
  BY <1>1, <1>2 DEF SplitAt, n
<1>3. CASE ~ n <= keep
  <2>1. D \in SUBSET Nat /\ n - 0 \in D
    BY <1>1, <1>3
  <2>2. PICK d \in D : \A e \in D : d <= e
    <3> HIDE DEF D
    <3> QED
      BY <2>1, LeastExists
  <2>3. PICK s \in S : d = n - s
    BY <2>2
  <2>4. \A k \in S : s >= k
    <3>1. ASSUME NEW k \in S PROVE s >= k
      <4>1. n - s <= n - k
        BY <2>2, <2>3
      <4> QED
        BY <1>1, <4>1
    <3> QED
      BY <3>1
  <2>5. Max(S) \in S
    <3> HIDE DEF S
    <3> QED
      BY <2>4 DEF Max
  <2>6. SplitAt(m, keep) = Max(S)
    BY <1>3 DEF SplitAt, n
  <2> QED
    BY <1>1, <1>3, <2>5, <2>6 DEF n
<1> QED
  BY <1>2, <1>3

LEMMA CompactedIsAccepted ==
  ASSUME NEW m \in Seq(Message), NEW keep \in Nat \ {0}, Accepted(m)
  PROVE  runCompaction(m, keep) \in Seq(Message) /\ Accepted(runCompaction(m, keep))
<1> DEFINE s == SplitAt(m, keep)
           t == SubSeq(m, s + 1, Len(m))
           x == Said("summary")
           r == <<x>> \o t
<1>1. s \in 0..Len(m) /\ Len(m) \in Nat /\ (s > 0 => m[s + 1].kind # "results")
  BY SplitIs, LenProperties
<1> HIDE DEF s
<1>2. /\ t \in Seq(Message) /\ Len(t) = Len(m) - s
      /\ \A i \in 1..Len(m) - s : t[i] = m[s + i]
  <2>1. \A i \in s + 1 .. Len(m) : m[i] \in Message
    BY <1>1, LenProperties
  <2> DEFINE a == s + 1
             b == Len(m)
  <2>2. a \in Int /\ b \in Int /\ \A i \in a .. b : m[i] \in Message
    BY <1>1, <2>1
  <2> HIDE DEF a, b
  <2>3. /\ SubSeq(m, a, b) \in Seq(Message)
        /\ Len(SubSeq(m, a, b)) = IF a <= b THEN b - a + 1 ELSE 0
        /\ \A i \in 1 .. b - a + 1 : SubSeq(m, a, b)[i] = m[a + i - 1]
    BY <2>2, SubSeqProperties
  <2>4. b - a + 1 = Len(m) - s /\ (a <= b \/ Len(m) - s = 0)
    BY <1>1 DEF a, b
  <2>5. \A i \in 1..Len(m) - s : a + i - 1 = s + i
    BY <1>1 DEF a
  <2> QED
    BY <2>3, <2>4, <2>5 DEF a, b
<1> HIDE DEF t
<1>3. x \in Message /\ x.kind = "summary"
  BY DEF Message, Said
<1> HIDE DEF x
<1>4. /\ r \in Seq(Message) /\ Len(r) = 1 + Len(t)
      /\ r[1] = x /\ \A i \in 2..Len(r) : r[i] = t[i - 1]
  <2>1. <<x>> \in Seq(Message) /\ Len(<<x>>) = 1 /\ <<x>>[1] = x
    BY <1>3
  <2> DEFINE h == <<x>>
  <2> HIDE DEF h
  <2>2. /\ h \o t \in Seq(Message) /\ Len(h \o t) = Len(h) + Len(t)
        /\ \A i \in 1..Len(h) + Len(t) : (h \o t)[i] = IF i <= Len(h) THEN h[i] ELSE t[i - Len(h)]
    BY <1>2, <2>1, ConcatProperties DEF h
  <2> QED
    BY <1>1, <1>2, <2>1, <2>2 DEF h
<1> HIDE DEF r
<1>5. /\ Len(r) = Len(m) - s + 1
      /\ \A i \in 2..Len(r) : r[i] = m[s + i - 1] /\ s + i - 1 \in 1..Len(m)
  <2>1. Len(r) = Len(m) - s + 1
    BY <1>1, <1>2, <1>4
  <2>2. ASSUME NEW i \in 2..Len(r) PROVE r[i] = m[s + i - 1] /\ s + i - 1 \in 1..Len(m)
    <3>1. i - 1 \in 1..Len(m) - s /\ s + (i - 1) = s + i - 1 /\ s + i - 1 \in 1..Len(m)
      BY <1>1, <2>1
    <3>2. r[i] = t[i - 1] /\ t[i - 1] = m[s + (i - 1)]
      BY <1>2, <1>4, <3>1
    <3> QED
      BY <3>1, <3>2
  <2> QED
    BY <2>1, <2>2
<1>6. \A i \in 1..Len(m) : AcceptedAt(m, i)
  BY AcceptedIs
<1>7. s < Len(m) => m[s + 1].kind # "results"
  <2>1. CASE s = 0 /\ s < Len(m)
    <3>1. AcceptedAt(m, 1)
      BY <1>1, <1>6, <2>1
    <3> QED
      BY <2>1, <3>1 DEF AcceptedAt
  <2> QED
    BY <1>1, <2>1
<1>8. ASSUME NEW i \in 1..Len(r) PROVE AcceptedAt(r, i)
  <2>1. CASE i = 1
    BY <1>3, <1>4, <2>1 DEF AcceptedAt
  <2>2. CASE i # 1
    <3> DEFINE j == s + i - 1
    <3>1. i \in 2..Len(r)
      BY <2>2
    <3>2. j \in 1..Len(m) /\ r[i] = m[j] /\ AcceptedAt(m, j)
      BY <1>5, <1>6, <3>1
    <3>3. j + 1 \in 1..Len(m) => i + 1 \in 1..Len(r) /\ r[i + 1] = m[j + 1]
      <4>1. SUFFICES ASSUME j + 1 \in 1..Len(m) PROVE i + 1 \in 2..Len(r) /\ s + (i + 1) - 1 = j + 1
        BY <1>5
      <4> QED
        BY <1>1, <1>5, <4>1
    <3>4. m[j].kind = "results" => i # 2
      BY <1>1, <1>5, <1>7, <3>2
    <3>5. i # 2 => i - 1 \in 1..Len(r) /\ r[i - 1] = m[j - 1]
      <4>1. SUFFICES ASSUME i # 2 PROVE i - 1 \in 2..Len(r) /\ s + (i - 1) - 1 = j - 1
        BY <1>5
      <4> QED
        BY <1>1, <1>5, <3>1, <4>1
    <3> HIDE DEF j
    <3> QED
      BY <3>2, <3>3, <3>4, <3>5 DEF AcceptedAt
  <2> QED
    BY <2>1, <2>2
<1>9. runCompaction(m, keep) = r
  BY DEF runCompaction, r, t, s, x
<1> QED
  BY <1>4, <1>8, <1>9, AcceptedIs

-----------------------------------------------------------------------------
\* The turns.
Phases == {"none", "pending", "running", "waiting_llm", "waiting_tool",
           "waiting_approval", "suspended", "resumed", "ended"}
Turns == [phase : Phases, messages : Seq(Message), pending : CallSets \cup {{}}, rounds : Nat]

\* Of one turn: what it is to send is accepted, or will be when the results of what
\* it has asked for last have come.
Pending(t) ==
  /\ t.messages # <<>> /\ Accepted(Front(t.messages))
  /\ Last(t.messages) = Use(t.pending)

TurnIsSound(r, t) ==
  /\ t.phase \in {"waiting_tool", "waiting_approval"} => t.pending # {}
  /\ t.phase \in {"none", "pending", "running", "waiting_llm"} => t.pending = {}
  /\ t.pending = {} => t.rounds < MaxRounds[r] /\ Accepted(t.messages)
  /\ t.pending # {} => t.rounds <= MaxRounds[r] /\ Pending(t)

SoundTurns(r) == {t \in Turns : TurnIsSound(r, t)}

\* What a step may come to in a sound turn.
SoundOutcome(r, o) == o.lines \in Seq(Line) /\ o.next \in SoundTurns(r)

LEMMA LineTypes ==
  /\ Line \subseteq Message
  /\ \A kind \in {"user", "text", "blank", "poisoned"} : Said(kind) \in Line
  /\ \A calls \in CallSets : Use(calls) \in Line /\ Results(calls) \in Line
BY DEF Line, Message, Said, Use, Results

LEMMA LinesAre ==
  ASSUME NEW x \in Line
  PROVE  /\ <<x>> \in Seq(Line)
         /\ \A s \in Seq(Line) : Append(s, x) \in Seq(Line)
         /\ \A s \in Seq(Message) : Append(s, x) = s \o <<x>> /\ Append(s, x) \in Seq(Message)
<1>1. x \in Message
  BY LineTypes
<1>2. <<x>> \in Seq(Line)
  OBVIOUS
<1>3. \A s \in Seq(Line) : Append(s, x) \in Seq(Line)
  BY AppendProperties
<1>4. \A s \in Seq(Message) : Append(s, x) = s \o <<x>> /\ Append(s, x) \in Seq(Message)
  BY <1>1, AppendProperties, AppendIsConcat
<1> QED
  BY <1>2, <1>3, <1>4

LEMMA NoLines ==
  <<>> \in Seq(Line) /\ \A s \in Seq(Message) : s \o <<>> = s
BY EmptySeq, ConcatEmptySeq

\* No turn: it has nothing to send.
LEMMA NoTurnType ==
  /\ NoTurn \in Turns /\ NoTurn.phase = "none" /\ NoTurn.messages = <<>>
  /\ NoTurn.pending = {} /\ NoTurn.rounds = 0
<1>1. <<>> \in Seq(Message)
  BY EmptySeq
<1> QED
  BY <1>1 DEF NoTurn, Turns, Phases

LEMMA NoTurnIsSound ==
  ASSUME NEW r \in RunIds
  PROVE  /\ NoTurn \in SoundTurns(r) /\ Ended \in SoundTurns(r)
         /\ NoTurn.phase = "none" /\ NoTurn.pending = {}
<1>1. MaxRounds[r] \in Nat \ {0}
  BY SessionAssumption
<1>3. /\ NoTurn \in Turns /\ NoTurn.phase = "none" /\ NoTurn.messages = <<>>
      /\ NoTurn.pending = {} /\ NoTurn.rounds = 0
  BY NoTurnType
<1>4. /\ Ended \in Turns /\ Ended.phase = "ended" /\ Ended.messages = <<>>
      /\ Ended.pending = {} /\ Ended.rounds = 0
  BY <1>3 DEF Ended, NoTurn, Turns, Phases
<1> QED
  BY <1>1, <1>3, <1>4, NothingIsAccepted DEF SoundTurns, TurnIsSound

LEMMA FinalIsSound ==
  ASSUME NEW r \in RunIds, NEW lines \in Seq(Line)
  PROVE  /\ SoundOutcome(r, Outcome(lines, Ended))
         /\ \A o \in FinalizeFailed(lines) : SoundOutcome(r, o)
<1>1. \A s \in Seq(Line) : SoundOutcome(r, Outcome(s, Ended))
  BY NoTurnIsSound DEF SoundOutcome, Outcome
<1>2. \A kind \in {"text", "poisoned"} : Append(lines, Said(kind)) \in Seq(Line)
  BY LineTypes, LinesAre
<1> QED
  BY <1>1, <1>2 DEF FinalizeFailed

Begun(t, messages) == [t EXCEPT !.phase = "running", !.messages = messages]
Served(t) == [t EXCEPT !.pending = {}]

LEMMA TurnFields ==
  ASSUME NEW t \in Turns
  PROVE  /\ t.phase \in Phases /\ t.messages \in Seq(Message)
         /\ t.pending \in CallSets \cup {{}} /\ t.rounds \in Nat
BY DEF Turns

LEMMA BegunIs ==
  ASSUME NEW t \in Turns, NEW messages \in Seq(Message)
  PROVE  LET u == Begun(t, messages) IN
         /\ u \in Turns /\ u.phase = "running" /\ u.messages = messages
         /\ u.pending = t.pending /\ u.rounds = t.rounds
<1> DEFINE u == Begun(t, messages)
<1>1. u = [phase |-> "running", messages |-> messages, pending |-> t.pending, rounds |-> t.rounds]
  <2>1. u = [t EXCEPT !.phase = "running", !.messages = messages]
    BY DEF Begun
  <2> HIDE DEF u
  <2> QED
    BY <2>1 DEF Turns
<1> HIDE DEF u
<1>2. t.pending \in CallSets \cup {{}} /\ t.rounds \in Nat /\ "running" \in Phases
  BY TurnFields DEF Phases
<1>3. /\ u \in Turns /\ u.phase = "running" /\ u.messages = messages
      /\ u.pending = t.pending /\ u.rounds = t.rounds
  BY <1>1, <1>2 DEF Turns
<1> QED
  BY <1>3 DEF u

LEMMA AskedIs ==
  ASSUME NEW t \in Turns, NEW calls \in CallSets
  PROVE  LET u == Asked(t, calls) IN
         /\ u \in Turns /\ u.phase = t.phase /\ u.messages = t.messages
         /\ u.pending = calls /\ u.rounds = t.rounds + 1
<1> DEFINE u == Asked(t, calls)
<1>1. u = [phase |-> t.phase, messages |-> t.messages, pending |-> calls, rounds |-> t.rounds + 1]
  <2>1. u = [t EXCEPT !.pending = calls, !.rounds = @ + 1]
    BY DEF Asked
  <2> HIDE DEF u
  <2> QED
    BY <2>1 DEF Turns
<1> HIDE DEF u
<1>2. t.phase \in Phases /\ t.messages \in Seq(Message) /\ t.rounds + 1 \in Nat
  BY TurnFields
<1>3. /\ u \in Turns /\ u.phase = t.phase /\ u.messages = t.messages
      /\ u.pending = calls /\ u.rounds = t.rounds + 1
  BY <1>1, <1>2 DEF Turns
<1> QED
  BY <1>3 DEF u

LEMMA ServedIs ==
  ASSUME NEW t \in Turns
  PROVE  LET u == Served(t) IN
         /\ u \in Turns /\ u.phase = t.phase /\ u.messages = t.messages
         /\ u.pending = {} /\ u.rounds = t.rounds
<1> DEFINE u == Served(t)
<1>1. u = [phase |-> t.phase, messages |-> t.messages, pending |-> {}, rounds |-> t.rounds]
  <2>1. u = [t EXCEPT !.pending = {}]
    BY DEF Served
  <2> HIDE DEF u
  <2> QED
    BY <2>1 DEF Turns
<1> HIDE DEF u
<1>2. t.phase \in Phases /\ t.messages \in Seq(Message) /\ t.rounds \in Nat
  BY TurnFields
<1>3. /\ u \in Turns /\ u.phase = t.phase /\ u.messages = t.messages
      /\ u.pending = {} /\ u.rounds = t.rounds
  BY <1>1, <1>2 DEF Turns
<1> QED
  BY <1>3 DEF u

LEMMA AtPhaseIs ==
  ASSUME NEW t \in Turns, NEW phase \in Phases, NEW lines \in Seq(Line)
  PROVE  LET o == AtPhase(t, phase, lines) IN
         /\ o.lines = lines /\ o.next \in Turns /\ o.next.phase = phase
         /\ o.next.messages = t.messages \o lines
         /\ o.next.pending = t.pending /\ o.next.rounds = t.rounds
<1>1. t.messages \in Seq(Message)
  BY DEF Turns
<1>2. lines \in Seq(Message)
  BY LineTypes, SeqMonotonic
<1>3. t.messages \o lines \in Seq(Message)
  BY <1>1, <1>2, ConcatProperties
<1> DEFINE u == [t EXCEPT !.phase = phase, !.messages = @ \o lines]
<1>4. AtPhase(t, phase, lines) = [lines |-> lines, next |-> u]
  BY DEF AtPhase, Outcome
<1> DEFINE messages == t.messages \o lines
<1>5. u = [phase |-> phase, messages |-> messages, pending |-> t.pending, rounds |-> t.rounds]
  <2>1. u = [t EXCEPT !.phase = phase, !.messages = messages]
    OBVIOUS
  <2> HIDE DEF messages, u
  <2> QED
    BY <2>1 DEF Turns
<1> HIDE DEF u, messages
<1>6. t.pending \in CallSets \cup {{}} /\ t.rounds \in Nat
  BY DEF Turns
<1>7. /\ u \in Turns /\ u.phase = phase /\ u.messages = messages
      /\ u.pending = t.pending /\ u.rounds = t.rounds
  BY <1>3, <1>5, <1>6 DEF Turns, messages
<1> QED
  BY <1>4, <1>7 DEF messages

-----------------------------------------------------------------------------
\* A turn begins with an accepted list of messages, whatever the file has.
LEMMA BeginIs ==
  ASSUME NEW t \in Turns, log.lines \in Seq(Line), NEW o \in BeginOutcomes(t)
  PROVE  /\ o.lines \in Seq(Line) /\ o.next \in Turns /\ o.next.phase = "running"
         /\ Accepted(o.next.messages)
         /\ o.next.pending = t.pending /\ o.next.rounds = t.rounds
<1> DEFINE history == sanitizeMessages(repairTranscript(log.lines))
           said == Append(history, Said("user"))
           short == runCompaction(said, KeepRecent)
<1>1. log.lines \in Seq(Message)
  BY LineTypes, SeqMonotonic
<1>2. history \in Seq(Message) /\ Accepted(history)
  BY <1>1, RepairedType, SanitizedIsAccepted
<1> HIDE DEF history
<1>3. Said("user") \in Line /\ Said("user") \in Message /\ Said("user").kind = "user"
  BY LineTypes DEF Said
<1>4. said \in Seq(Message) /\ Accepted(said)
  BY <1>2, <1>3, AppendProperties, PlainStaysAccepted
<1> HIDE DEF said
<1>5. short \in Seq(Message) /\ Accepted(short)
  BY <1>4, CompactedIsAccepted, SessionAssumption
<1> HIDE DEF short
<1>6. PICK messages \in {said, short} :
        o = Outcome(<<Said("user")>>, Begun(t, messages))
  BY DEF BeginOutcomes, short, said, history, Begun
<1>7. messages \in Seq(Message) /\ Accepted(messages)
  BY <1>4, <1>5
<1>8. <<Said("user")>> \in Seq(Line)
  BY <1>3, LinesAre
<1> DEFINE u == Begun(t, messages)
<1>9. o.lines = <<Said("user")>> /\ o.next = u
  BY <1>6 DEF Outcome
<1>10. /\ u \in Turns /\ u.phase = "running" /\ u.messages = messages
       /\ u.pending = t.pending /\ u.rounds = t.rounds
  BY <1>7, BegunIs
<1> HIDE DEF u
<1> QED
  BY <1>7, <1>8, <1>9, <1>10

LEMMA BeginIsSound ==
  ASSUME NEW r \in RunIds, NEW t \in SoundTurns(r), t.pending = {}, log.lines \in Seq(Line),
         NEW o \in BeginOutcomes(t)
  PROVE  SoundOutcome(r, o)
<1>1. t \in Turns /\ t.rounds < MaxRounds[r]
  BY DEF SoundTurns, TurnIsSound
<1>2. /\ o.lines \in Seq(Line) /\ o.next \in Turns /\ o.next.phase = "running"
      /\ Accepted(o.next.messages)
      /\ o.next.pending = {} /\ o.next.rounds = t.rounds
  BY <1>1, BeginIs
<1>3. TurnIsSound(r, o.next)
  BY <1>1, <1>2 DEF TurnIsSound
<1> QED
  BY <1>2, <1>3 DEF SoundOutcome, SoundTurns

\* A turn that only changes its phase, to one that what is pending allows.
LEMMA PhaseIsSound ==
  ASSUME NEW r \in RunIds, NEW t \in SoundTurns(r), NEW phase \in Phases,
         phase \in {"waiting_tool", "waiting_approval"} => t.pending # {},
         phase \in {"none", "pending", "running", "waiting_llm"} => t.pending = {}
  PROVE  SoundOutcome(r, AtPhase(t, phase, <<>>))
<1>1. t \in Turns /\ TurnIsSound(r, t) /\ t.messages \in Seq(Message)
  BY DEF SoundTurns, Turns
<1> DEFINE lines == <<>>
           o == AtPhase(t, phase, lines)
<1>l. lines \in Seq(Line)
  BY NoLines
<1> HIDE DEF lines
<1>2. /\ o.lines = lines /\ o.next \in Turns /\ o.next.phase = phase
      /\ o.next.messages = t.messages \o lines
      /\ o.next.pending = t.pending /\ o.next.rounds = t.rounds
  BY <1>1, <1>l, AtPhaseIs
<1> HIDE DEF o
<1>3. o.next.messages = t.messages
  BY <1>1, <1>2, NoLines DEF lines
<1>4. TurnIsSound(r, o.next)
  BY <1>1, <1>2, <1>3 DEF TurnIsSound, Pending
<1> QED
  BY <1>l, <1>2, <1>4 DEF SoundOutcome, SoundTurns, o, lines

\* The model is asked only with an accepted list, and what it asks for is pending.
LEMMA AskingIsSound ==
  ASSUME NEW r \in RunIds, NEW t \in SoundTurns(r), t.pending = {}, NEW o \in LlmAskedForTools(t)
  PROVE  SoundOutcome(r, o)
<1>1. PICK calls \in CallSets, phase \in {"waiting_tool", "waiting_approval"} :
        o = AtPhase(Asked(t, calls), phase, <<Use(calls)>>)
  BY DEF LlmAskedForTools
<1>2. /\ t \in Turns /\ t.messages \in Seq(Message) /\ t.rounds \in Nat
      /\ t.rounds < MaxRounds[r] /\ Accepted(t.messages)
  BY TurnFields DEF SoundTurns, TurnIsSound
<1> DEFINE u == Asked(t, calls)
           x == Use(calls)
<1>4. u \in Turns /\ u.messages = t.messages /\ u.pending = calls /\ u.rounds = t.rounds + 1
  BY <1>2, AskedIs
<1> HIDE DEF u
<1>5. phase \in Phases /\ x \in Line /\ x \in Message /\ <<x>> \in Seq(Line)
  BY LineTypes, LinesAre DEF Phases
<1>6. Append(t.messages, x) = t.messages \o <<x>>
  BY <1>2, <1>5, LinesAre
<1> HIDE DEF x
<1>7. /\ o.lines = <<x>> /\ o.next \in Turns /\ o.next.phase = phase
      /\ o.next.messages = Append(t.messages, x)
      /\ o.next.pending = calls /\ o.next.rounds = t.rounds + 1
  <2> DEFINE lines == <<x>>
  <2>1. o = AtPhase(u, phase, lines)
    BY <1>1 DEF u, x
  <2>2. lines \in Seq(Line) /\ Append(t.messages, x) = t.messages \o lines
    BY <1>5, <1>6
  <2> HIDE DEF lines
  <2>3. /\ o.lines = lines /\ o.next \in Turns /\ o.next.phase = phase
        /\ o.next.messages = u.messages \o lines
        /\ o.next.pending = u.pending /\ o.next.rounds = u.rounds
    <3> DEFINE a == AtPhase(u, phase, lines)
    <3>1. /\ a.lines = lines /\ a.next \in Turns /\ a.next.phase = phase
          /\ a.next.messages = u.messages \o lines
          /\ a.next.pending = u.pending /\ a.next.rounds = u.rounds
      <4>1. u \in Turns /\ phase \in Phases /\ lines \in Seq(Line)
        BY <1>4, <1>5, <2>2
      <4> QED
        BY <4>1, AtPhaseIs
    <3> HIDE DEF a
    <3> QED
      BY <2>1, <3>1 DEF a
  <2> QED
    BY <1>4, <2>2, <2>3 DEF lines
<1>8. /\ Append(t.messages, x) # <<>> /\ Front(Append(t.messages, x)) = t.messages
      /\ Last(Append(t.messages, x)) = x
  BY <1>2, <1>5, LastOfAppend
<1>9. calls # {} /\ MaxRounds[r] \in Nat
  BY SessionAssumption
<1>10. Pending(o.next)
  BY <1>2, <1>7, <1>8 DEF Pending, x
<1>11. TurnIsSound(r, o.next)
  BY <1>2, <1>7, <1>9, <1>10 DEF TurnIsSound
<1> QED
  BY <1>5, <1>7, <1>11 DEF SoundOutcome, SoundTurns

\* The results that were pending make the list accepted again.
LEMMA ResultsAreSound ==
  ASSUME NEW r \in RunIds, NEW t \in SoundTurns(r), t.pending # {}, t.rounds < MaxRounds[r]
  PROVE  SoundOutcome(r, AtPhase([t EXCEPT !.pending = {}], "waiting_llm", <<Results(t.pending)>>))
<1>1. /\ t \in Turns /\ t.messages \in Seq(Message) /\ t.rounds \in Nat /\ t.phase \in Phases
      /\ t.pending \in CallSets /\ Pending(t)
  BY TurnFields DEF SoundTurns, TurnIsSound
<1> DEFINE u == Served(t)
           x == Results(t.pending)
           o == AtPhase(u, "waiting_llm", <<x>>)
<1>3. u \in Turns /\ u.messages = t.messages /\ u.pending = {} /\ u.rounds = t.rounds
  BY <1>1, ServedIs
<1> HIDE DEF u
<1>4. /\ x \in Line /\ x \in Message /\ <<x>> \in Seq(Line)
      /\ x.kind = "results" /\ x.calls = t.pending
  BY <1>1, LineTypes, LinesAre DEF Results
<1>5. Append(t.messages, x) = t.messages \o <<x>>
  BY <1>1, <1>4, LinesAre
<1> HIDE DEF x
<1>6. /\ o.lines = <<x>> /\ o.next \in Turns /\ o.next.phase = "waiting_llm"
      /\ o.next.messages = Append(t.messages, x)
      /\ o.next.pending = {} /\ o.next.rounds = t.rounds
  <2> DEFINE lines == <<x>>
  <2>1. lines \in Seq(Line) /\ Append(t.messages, x) = t.messages \o lines
    BY <1>4, <1>5
  <2>2. "waiting_llm" \in Phases
    BY DEF Phases
  <2> HIDE DEF lines
  <2>3. LET a == AtPhase(u, "waiting_llm", lines) IN
        /\ a.lines = lines /\ a.next \in Turns /\ a.next.phase = "waiting_llm"
        /\ a.next.messages = u.messages \o lines
        /\ a.next.pending = u.pending /\ a.next.rounds = u.rounds
    <3>1. u \in Turns
      BY <1>3
    <3>2. lines \in Seq(Line)
      BY <2>1
    <3> QED
      BY <2>2, <3>1, <3>2, AtPhaseIs
  <2> HIDE DEF x
  <2>4. /\ o = AtPhase(u, "waiting_llm", lines) /\ lines = <<x>>
        /\ u.messages \o lines = Append(t.messages, x)
    BY <1>3, <2>1 DEF lines
  <2> HIDE DEF o
  <2> QED
    BY <1>3, <2>3, <2>4
<1>7. Accepted(Append(t.messages, x))
  <2> DEFINE f == Front(t.messages)
             l == Last(t.messages)
  <2>1. f \in Seq(Message) /\ l \in Message /\ Accepted(f) /\ l.kind = "use" /\ l.calls = t.pending
    BY <1>1, FrontProperties DEF Pending, Use
  <2>2. t.messages = Append(f, l)
    <3>1. /\ t.messages # <<>> /\ Len(f) = Len(t.messages) - 1 /\ l = t.messages[Len(t.messages)]
          /\ \A i \in 1..Len(t.messages) - 1 : f[i] = t.messages[i]
          /\ Len(t.messages) \in Nat \ {0}
      BY <1>1, FrontProperties DEF Pending
    <3> HIDE DEF f, l
    <3>2. /\ Append(f, l) \in Seq(Message) /\ Len(Append(f, l)) = Len(f) + 1
          /\ \A i \in 1..Len(f) : Append(f, l)[i] = f[i]
          /\ Append(f, l)[Len(f) + 1] = l
      BY <2>1, AppendProperties
    <3>3. Len(Append(f, l)) = Len(t.messages)
      BY <3>1, <3>2
    <3>4. \A i \in 1..Len(t.messages) : t.messages[i] = Append(f, l)[i]
      BY <3>1, <3>2
    <3> QED
      BY <1>1, <3>2, <3>3, <3>4, SeqEqual
  <2> HIDE DEF f, l
  <2> QED
    BY <1>4, <2>1, <2>2, ExchangeStaysAccepted
<1> HIDE DEF o
<1>8. TurnIsSound(r, o.next)
  BY <1>6, <1>7 DEF TurnIsSound
<1> QED
  BY <1>4, <1>6, <1>8 DEF SoundOutcome, SoundTurns, o, u, x, Served

\* What a step comes to leaves a sound turn.
LEMMA StepIsSound ==
  ASSUME NEW r \in RunIds, NEW t \in SoundTurns(r), log.lines \in Seq(Line),
         NEW o \in StepOutcomes(r, t)
  PROVE  SoundOutcome(r, o)
<1>1. t \in Turns /\ TurnIsSound(r, t) /\ t.phase \in Phases /\ t.pending \in CallSets \cup {{}}
  BY TurnFields DEF SoundTurns
<1>2. \A lines \in Seq(Line) :
        /\ SoundOutcome(r, Outcome(lines, Ended))
        /\ \A a \in FinalizeFailed(lines) : SoundOutcome(r, a)
  BY FinalIsSound
<1>3. /\ <<>> \in Seq(Line)
      /\ \A x \in Line : <<x>> \in Seq(Line)
      /\ \A x, y \in Line : <<x, y>> \in Seq(Line) /\ <<x>> \o <<y>> \in Seq(Line)
      /\ \A x \in Line : <<x>> \o <<>> \in Seq(Line)
  OBVIOUS
<1>4. Said("text") \in Line /\ Said("blank") \in Line
  BY LineTypes
<1>5. CASE t.phase = "pending"
  <2>1. o \in BeginOutcomes(t) /\ t.pending = {}
    BY <1>1, <1>5 DEF StepOutcomes, TurnIsSound
  <2> QED
    BY <2>1, BeginIsSound
<1>6. CASE t.phase = "running"
  <2>1. o = AtPhase(t, "waiting_llm", <<>>) /\ t.pending = {} /\ "waiting_llm" \in Phases
    BY <1>1, <1>6 DEF StepOutcomes, TurnIsSound, Phases
  <2> QED
    BY <2>1, PhaseIsSound
<1>7. CASE t.phase = "waiting_llm"
  <2>1. o \in LlmOutcomes(t) /\ t.pending = {}
    BY <1>1, <1>7 DEF StepOutcomes, TurnIsSound
  <2>2. CASE o \in LlmAnswered
    BY <1>2, <1>3, <1>4, <2>2 DEF LlmAnswered
  <2>3. CASE o \in LlmAskedForTools(t)
    BY <2>1, <2>3, AskingIsSound
  <2>4. CASE o \in LlmCutShort
    <3>1. PICK calls \in CallSets :
            \/ o \in FinalizeFailed(<<Use(calls)>>)
            \/ \E closing \in {<<>>, <<Said("text")>>} :
                 o = Outcome(<<Use(calls)>> \o closing, Ended)
      BY <2>4 DEF LlmCutShort
    <3>2. Use(calls) \in Line
      BY LineTypes
    <3>3. <<Use(calls)>> \in Seq(Line)
      BY <1>3, <3>2
    <3>4. \A closing \in {<<>>, <<Said("text")>>} : <<Use(calls)>> \o closing \in Seq(Line)
      BY <1>3, <1>4, <3>2
    <3> QED
      BY <1>2, <3>1, <3>3, <3>4
  <2>5. CASE o \in LlmFailed(t)
    <3>1. SoundOutcome(r, AtPhase(t, "suspended", <<>>))
      BY PhaseIsSound DEF Phases
    <3>2. <<Said("text")>> \in Seq(Line)
      BY <1>3, <1>4
    <3> QED
      BY <1>2, <1>3, <2>5, <3>1, <3>2 DEF LlmFailed
  <2> QED
    BY <2>1, <2>2, <2>3, <2>4, <2>5 DEF LlmOutcomes
<1>8. CASE t.phase = "waiting_approval"
  <2>1. o \in ApprovalOutcomes(t) /\ t.pending # {}
    BY <1>1, <1>8 DEF StepOutcomes, TurnIsSound
  <2>2. SoundOutcome(r, AtPhase(t, "waiting_tool", <<>>))
    BY <2>1, PhaseIsSound DEF Phases
  <2>3. SoundOutcome(r, AtPhase(t, "suspended", <<>>))
    BY PhaseIsSound DEF Phases
  <2> QED
    BY <1>2, <1>3, <2>1, <2>2, <2>3 DEF ApprovalOutcomes
<1>9. CASE t.phase = "waiting_tool"
  <2>1. o \in ToolOutcomes(r, t) /\ t.pending # {} /\ t.pending \in CallSets
    BY <1>1, <1>9 DEF StepOutcomes, TurnIsSound
  <2>2. Results(t.pending) \in Line
    BY <2>1, LineTypes
  <2>3. <<Results(t.pending)>> \in Seq(Line)
    BY <1>3, <2>2
  <2>4. CASE o \in FinalizeFailed(<<>>) \cup FinalizeFailed(<<Results(t.pending)>>)
    BY <1>2, <1>3, <2>3, <2>4
  <2>5. CASE /\ ~ (t.rounds >= MaxRounds[r])
             /\ o = AtPhase([t EXCEPT !.pending = {}], "waiting_llm", <<Results(t.pending)>>)
    <3>1. t.rounds < MaxRounds[r]
      BY <1>1, <2>5, SessionAssumption, TurnFields
    <3> QED
      BY <2>1, <2>5, <3>1, ResultsAreSound
  <2> QED
    BY <2>1, <2>4, <2>5 DEF ToolOutcomes
<1>10. CASE t.phase = "resumed"
  <2>1. o \in ResumeOutcomes(t)
    BY <1>1, <1>10 DEF StepOutcomes
  <2>2. PICK phase \in {"waiting_llm", "waiting_tool", "waiting_approval"} :
          /\ o = AtPhase(t, phase, <<>>)
          /\ t.pending = {} <=> phase = "waiting_llm"
    BY <2>1 DEF ResumeOutcomes
  <2>3. phase \in Phases
    BY DEF Phases
  <2> QED
    BY <2>2, <2>3, PhaseIsSound
<1>11. CASE t.phase \in {"none", "suspended", "ended"}
  BY <1>11 DEF StepOutcomes
<1> QED
  BY <1>1, <1>5, <1>6, <1>7, <1>8, <1>9, <1>10, <1>11 DEF Phases

-----------------------------------------------------------------------------
\* The session.
SessionIsSound ==
  /\ log.lines \in Seq(Line) /\ log.torn \in BOOLEAN
  /\ turn \in [RunIds -> Turns] /\ \A r \in RunIds : TurnIsSound(r, turn[r])
  /\ faults \in 0..MaxFaults

LEMMA AppendedType ==
  ASSUME log.lines \in Seq(Line), log.torn \in BOOLEAN,
         NEW lines \in Seq(Line), NEW torn \in BOOLEAN, AppendToFile(lines, torn)
  PROVE  log'.lines \in Seq(Line) /\ log'.torn \in BOOLEAN
<1> DEFINE added == IF log.torn /\ lines # <<>> THEN Tail(lines) ELSE lines
           cut == torn \/ (log.torn /\ lines = <<>>)
<1>1. log' = [lines |-> log.lines \o added, torn |-> cut]
  BY DEF AppendToFile
<1>2. added \in Seq(Line)
  BY HeadTailProperties
<1>3. cut \in BOOLEAN
  OBVIOUS
<1> HIDE DEF added, cut
<1>4. log.lines \o added \in Seq(Line)
  BY <1>2, ConcatProperties
<1>5. log'.lines = log.lines \o added /\ log'.torn = cut
  BY <1>1
<1> QED
  BY <1>3, <1>4, <1>5

LEMMA PartType ==
  ASSUME NEW lines \in Seq(Line), NEW n \in 0..Len(lines)
  PROVE  SubSeq(lines, 1, n) \in Seq(Line)
<1>1. \A i \in 1..n : lines[i] \in Line
  BY LenProperties
<1>2. n \in Int
  BY LenProperties
<1> QED
  BY <1>1, <1>2, SubSeqProperties

\* A step changes its own turn only.
LEMMA TurnStaysSound ==
  ASSUME SessionIsSound, NEW r \in RunIds, NEW u \in SoundTurns(r),
         turn' = [turn EXCEPT ![r] = u]
  PROVE  turn' \in [RunIds -> Turns] /\ \A p \in RunIds : TurnIsSound(p, turn'[p])
<1>1. turn \in [RunIds -> Turns] /\ \A p \in RunIds : TurnIsSound(p, turn[p])
  BY DEF SessionIsSound
<1>2. u \in Turns /\ TurnIsSound(r, u)
  BY DEF SoundTurns
<1>3. \A p \in RunIds : turn'[p] = IF p = r THEN u ELSE turn[p]
  BY <1>1
<1> QED
  BY <1>1, <1>2, <1>3

LEMMA PhaseChangeIsSound ==
  ASSUME SessionIsSound, NEW r \in RunIds, NEW phase \in {"pending", "resumed"},
         turn' = [turn EXCEPT ![r].phase = phase],
         phase = "pending" => turn[r].pending = {}
  PROVE  turn' \in [RunIds -> Turns] /\ \A p \in RunIds : TurnIsSound(p, turn'[p])
<1> DEFINE t == turn[r]
           u == [t EXCEPT !.phase = phase]
<1>1. t \in Turns /\ TurnIsSound(r, t) /\ phase \in Phases
  BY DEF SessionIsSound, Phases
<1> HIDE DEF t
<1>2. u = [phase |-> phase, messages |-> t.messages, pending |-> t.pending, rounds |-> t.rounds]
  <2>1. u = [t EXCEPT !.phase = phase]
    OBVIOUS
  <2> HIDE DEF u
  <2> QED
    BY <1>1, <2>1 DEF Turns
<1> HIDE DEF u
<1>3. t.messages \in Seq(Message) /\ t.pending \in CallSets \cup {{}} /\ t.rounds \in Nat
  BY <1>1, TurnFields
<1>4. /\ u \in Turns /\ u.phase = phase /\ u.messages = t.messages
      /\ u.pending = t.pending /\ u.rounds = t.rounds
  BY <1>1, <1>2, <1>3 DEF Turns
<1>5. phase = "pending" => t.pending = {}
  BY DEF t
<1>6. TurnIsSound(r, u)
  BY <1>1, <1>4, <1>5 DEF TurnIsSound, Pending
<1>7. turn' = [turn EXCEPT ![r] = u]
  BY DEF u, t
<1> QED
  BY <1>4, <1>6, <1>7, TurnStaysSound DEF SoundTurns

LEMMA SessionStaysSound == Spec => []SessionIsSound
<1>1. Init => SessionIsSound
  <2>1. SUFFICES ASSUME Init PROVE SessionIsSound
    OBVIOUS
  <2>2. \A r \in RunIds : NoTurn \in Turns /\ TurnIsSound(r, NoTurn)
    BY NoTurnIsSound DEF SoundTurns
  <2>3. turn \in [RunIds -> Turns] /\ \A r \in RunIds : TurnIsSound(r, turn[r])
    BY <2>1, <2>2 DEF Init
  <2>4. log.lines \in Seq(Line) /\ log.torn \in BOOLEAN
    BY <2>1 DEF Init
  <2>5. faults \in 0..MaxFaults
    BY <2>1, SessionAssumption DEF Init
  <2> QED
    BY <2>3, <2>4, <2>5 DEF SessionIsSound
<1>2. SessionIsSound /\ [Next]_vars => SessionIsSound'
  <2> SUFFICES ASSUME SessionIsSound, [Next]_vars PROVE SessionIsSound'
    OBVIOUS
  <2>0. /\ log.lines \in Seq(Line) /\ log.torn \in BOOLEAN
        /\ turn \in [RunIds -> Turns] /\ (\A r \in RunIds : TurnIsSound(r, turn[r]))
        /\ faults \in 0..MaxFaults /\ MaxFaults \in Nat
    BY SessionAssumption DEF SessionIsSound
  <2>s. \A r \in RunIds : turn[r] \in SoundTurns(r)
    BY <2>0 DEF SoundTurns
  <2> DEFINE LogOK == log'.lines \in Seq(Line) /\ log'.torn \in BOOLEAN
             TurnOK == turn' \in [RunIds -> Turns] /\ \A r \in RunIds : TurnIsSound(r, turn'[r])
             FaultsOK == faults' \in 0..MaxFaults
  <2>q. LogOK /\ TurnOK /\ FaultsOK => SessionIsSound'
    BY DEF SessionIsSound, TurnIsSound, Pending
  <2>l. UNCHANGED log => LogOK
    BY <2>0
  <2>t. UNCHANGED turn => TurnOK
    BY <2>0
  <2>f. UNCHANGED faults => FaultsOK
    BY <2>0
  <2>p. ASSUME NEW lines \in Seq(Line), NEW n \in 0..Len(lines), NEW torn \in BOOLEAN,
               AppendToFile(SubSeq(lines, 1, n), torn)
        PROVE  LogOK
    BY <2>0, <2>p, PartType, AppendedType
  <2>e. ASSUME NEW r \in RunIds, turn' = [turn EXCEPT ![r] = Ended] PROVE TurnOK
    BY <2>e, NoTurnIsSound, TurnStaysSound
  <2>1. ASSUME NEW r \in RunIds, startTurn(r) PROVE LogOK /\ TurnOK /\ FaultsOK
    <3>1. /\ turn[r].phase = "none" /\ turn' = [turn EXCEPT ![r].phase = "pending"]
          /\ UNCHANGED log /\ UNCHANGED faults
      BY <2>1 DEF startTurn
    <3>2. turn[r].pending = {}
      BY <2>0, <3>1 DEF TurnIsSound
    <3>3. TurnOK
      BY <3>1, <3>2, PhaseChangeIsSound
    <3> QED
      BY <3>1, <3>3, <2>l, <2>f
  <2>2. ASSUME NEW r \in RunIds, StepReturns(r) PROVE LogOK /\ TurnOK /\ FaultsOK
    <3>1. PICK o \in StepOutcomes(r, turn[r]) :
            AppendToFile(o.lines, FALSE) /\ turn' = [turn EXCEPT ![r] = o.next]
      BY <2>2 DEF StepReturns
    <3>2. o.lines \in Seq(Line) /\ o.next \in SoundTurns(r)
      BY <2>0, <2>s, StepIsSound DEF SoundOutcome
    <3>3. LogOK
      <4>1. FALSE \in BOOLEAN
        OBVIOUS
      <4> QED
        BY <2>0, <3>1, <3>2, <4>1, AppendedType
    <3>4. TurnOK
      BY <3>1, <3>2, TurnStaysSound
    <3>5. FaultsOK
      BY <2>2, <2>f DEF StepReturns
    <3> QED
      BY <3>3, <3>4, <3>5
  <2>3. ASSUME NEW r \in RunIds, StepThrows(r) PROVE LogOK /\ TurnOK /\ FaultsOK
    <3>p. PICK o \in StepOutcomes(r, turn[r]) :
            \E n \in 0..Len(o.lines) : AppendToFile(SubSeq(o.lines, 1, n), FALSE)
      BY <2>3 DEF StepThrows
    <3>1. PICK n \in 0..Len(o.lines) : AppendToFile(SubSeq(o.lines, 1, n), FALSE)
      BY <3>p
    <3>2. o.lines \in Seq(Line)
      BY <2>0, <2>s, StepIsSound DEF SoundOutcome
    <3>3. LogOK
      <4>1. FALSE \in BOOLEAN
        OBVIOUS
      <4> QED
        BY <3>1, <3>2, <4>1, <2>p
    <3>4. TurnOK
      BY <2>3, <2>e DEF StepThrows
    <3>5. FaultsOK
      BY <2>3, <2>f DEF StepThrows
    <3> QED
      BY <3>3, <3>4, <3>5
  <2>4. ASSUME NEW r \in RunIds, resumeTurn(r) PROVE LogOK /\ TurnOK /\ FaultsOK
    <3>1. /\ turn' = [turn EXCEPT ![r].phase = "resumed"]
          /\ UNCHANGED log /\ UNCHANGED faults
      BY <2>4 DEF resumeTurn
    <3>2. TurnOK
      BY <3>1, PhaseChangeIsSound
    <3> QED
      BY <3>1, <3>2, <2>l, <2>f
  <2>5. ASSUME NEW r \in RunIds, abortTurn(r) PROVE LogOK /\ TurnOK /\ FaultsOK
    <3>1. /\ turn' = [turn EXCEPT ![r] = Ended]
          /\ UNCHANGED log /\ UNCHANGED faults
      BY <2>5 DEF abortTurn
    <3> QED
      BY <3>1, <2>e, <2>l, <2>f
  <2>6. ASSUME NEW r \in RunIds, CrashInStep(r) PROVE LogOK /\ TurnOK /\ FaultsOK
    <3>p. PICK o \in StepOutcomes(r, turn[r]) :
            \E n \in 0..Len(o.lines), torn \in BOOLEAN : AppendToFile(SubSeq(o.lines, 1, n), torn)
      BY <2>6 DEF CrashInStep
    <3>1. PICK n \in 0..Len(o.lines), torn \in BOOLEAN : AppendToFile(SubSeq(o.lines, 1, n), torn)
      BY <3>p
    <3>2. o.lines \in Seq(Line)
      BY <2>0, <2>s, StepIsSound DEF SoundOutcome
    <3>3. LogOK
      BY <3>1, <3>2, <2>p
    <3>4. /\ faults < MaxFaults /\ faults' = faults + 1 /\ UNCHANGED turn
      BY <2>6 DEF CrashInStep
    <3> QED
      BY <2>0, <2>t, <3>3, <3>4
  <2>7. ASSUME clearSession PROVE LogOK /\ TurnOK /\ FaultsOK
    <3>1. /\ faults < MaxFaults /\ faults' = faults + 1 /\ UNCHANGED turn
          /\ log' = [lines |-> <<>>, torn |-> FALSE]
      BY <2>7 DEF clearSession
    <3>2. LogOK
      BY <3>1
    <3> QED
      BY <2>0, <2>t, <3>1, <3>2
  <2>8. ASSUME UNCHANGED vars PROVE LogOK /\ TurnOK /\ FaultsOK
    BY <2>8, <2>l, <2>t, <2>f DEF vars
  <2> QED
    <3> HIDE DEF LogOK, TurnOK, FaultsOK
    <3> QED
      BY <2>q, <2>1, <2>2, <2>3, <2>4, <2>5, <2>6, <2>7, <2>8 DEF Next
<1> QED
  BY <1>1, <1>2, PTL DEF Spec

-----------------------------------------------------------------------------
\* For any turns, calls and lengths of the file, the file has lines, a turn has
\* messages and asks for tools no more often than it may.
THEOREM SessionTypes == Spec => []TypeOK
<1>1. SessionIsSound => TypeOK
  <2>1. SUFFICES ASSUME SessionIsSound PROVE TypeOK
    OBVIOUS
  <2>2. turn \in [RunIds -> Turns] /\ \A r \in RunIds : TurnIsSound(r, turn[r])
    BY <2>1 DEF SessionIsSound
  <2>3. \A r \in RunIds : turn[r].rounds <= MaxRounds[r]
    <3>1. ASSUME NEW r \in RunIds PROVE turn[r].rounds <= MaxRounds[r]
      <4>1. MaxRounds[r] \in Nat /\ turn[r].rounds \in Nat
        BY <2>2, SessionAssumption, TurnFields
      <4>2. turn[r].rounds < MaxRounds[r] \/ turn[r].rounds <= MaxRounds[r]
        BY <2>2 DEF TurnIsSound
      <4> QED
        BY <4>1, <4>2
    <3> QED
      BY <3>1
  <2>4. log.lines \in Seq(Line) /\ log.torn \in BOOLEAN /\ faults \in 0..MaxFaults
    BY <2>1 DEF SessionIsSound
  <2> QED
    BY <2>2, <2>3, <2>4 DEF TypeOK, Turns, Phases
<1> QED
  BY <1>1, SessionStaysSound, PTL

\* For any turns, calls and lengths of the file: a turn that asks its model sends a
\* list in which every request for tools has its results, and so would a turn that
\* began now, whatever is in the file.
THEOREM RequestsStayAccepted == Spec => []RequestsAreAccepted
<1>1. SessionIsSound => RequestsAreAccepted
  <2>1. SUFFICES ASSUME SessionIsSound PROVE RequestsAreAccepted
    OBVIOUS
  <2>2. \A r \in RunIds : turn[r].phase = "waiting_llm" => Accepted(turn[r].messages)
    BY <2>1 DEF SessionIsSound, TurnIsSound
  <2>3. ASSUME NEW o \in BeginOutcomes(NoTurn) PROVE Accepted(o.next.messages)
    <3>1. NoTurn \in Turns /\ log.lines \in Seq(Line)
      BY <2>1, NoTurnType DEF SessionIsSound
    <3> QED
      BY <3>1, BeginIs
  <2> QED
    BY <2>2, <2>3 DEF RequestsAreAccepted
<1> QED
  BY <1>1, SessionStaysSound, PTL

-----------------------------------------------------------------------------
\* Messages that are found in a list, in that order: f[i] is the place of message i,
\* among the first n of the list.
Places(f, s, m, n) ==
  /\ f \in Seq(Nat) /\ Len(f) = Len(s)
  /\ \A i \in 1..Len(s) : f[i] \in 1..n /\ m[f[i]] = s[i]
  /\ \A i, j \in 1..Len(s) : i < j => f[i] < f[j]

ComesFrom(s, m, n) == \E f : Places(f, s, m, n)

LEMMA NothingComesFrom ==
  ASSUME NEW m, NEW n
  PROVE  ComesFrom(<<>>, m, n)
<1>1. <<>> \in Seq(Nat)
  BY EmptySeq
<1>2. Places(<<>>, <<>>, m, n)
  BY <1>1 DEF Places
<1> QED
  BY <1>2 DEF ComesFrom

LEMMA PrefixComesFrom ==
  ASSUME NEW s \in Seq(Message), NEW m, NEW n, ComesFrom(s, m, n),
         NEW p, IsPrefixOf(p, s)
  PROVE  ComesFrom(p, m, n)
<1>1. PICK f : Places(f, s, m, n)
  BY DEF ComesFrom
<1>2. /\ f \in Seq(Nat) /\ Len(f) = Len(s) /\ Len(s) \in Nat /\ Len(p) \in Nat
      /\ Len(p) <= Len(s)
  BY <1>1, LenProperties DEF Places, IsPrefixOf
<1> DEFINE k == Len(p)
           g == SubSeq(f, 1, k)
<1>3. \A i \in 1..k : f[i] \in Nat
  BY <1>2, LenProperties
<1>4. k \in Nat /\ k \in Int
  BY <1>2
<1> HIDE DEF k
<1>5. /\ g \in Seq(Nat) /\ Len(g) = (IF 1 <= k THEN k - 1 + 1 ELSE 0)
      /\ \A i \in 1..k - 1 + 1 : g[i] = f[1 + i - 1]
  BY <1>3, <1>4, SubSeqProperties
<1> HIDE DEF g
<1>6. g \in Seq(Nat) /\ Len(g) = k /\ \A i \in 1..k : g[i] = f[i]
  BY <1>4, <1>5
<1>7. Len(p) = k /\ \A i \in 1..k : i \in 1..Len(s) /\ p[i] = s[i]
  BY <1>2 DEF IsPrefixOf, k
<1>8. Places(g, p, m, n)
  BY <1>1, <1>6, <1>7 DEF Places
<1> QED
  BY <1>8 DEF ComesFrom

LEMMA LaterComesFrom ==
  ASSUME NEW s \in Seq(Message), NEW m, NEW n \in Nat, ComesFrom(s, m, n),
         NEW k \in Nat, n <= k
  PROVE  ComesFrom(s, m, k)
<1>1. PICK f : Places(f, s, m, n)
  BY DEF ComesFrom
<1>2. \A i \in 1..n : i \in 1..k
  OBVIOUS
<1>3. Places(f, s, m, k)
  BY <1>1, <1>2 DEF Places
<1> QED
  BY <1>3 DEF ComesFrom

LEMMA NextComesFrom ==
  ASSUME NEW s \in Seq(Message), NEW m \in Seq(Message), NEW n \in 1..Len(m),
         ComesFrom(s, m, n - 1)
  PROVE  ComesFrom(Append(s, m[n]), m, n)
<1>1. PICK f : Places(f, s, m, n - 1)
  BY DEF ComesFrom
<1> DEFINE g == Append(f, n)
           t == Append(s, m[n])
<1>2. Len(m) \in Nat /\ n \in Nat /\ m[n] \in Message /\ Len(s) \in Nat
  BY LenProperties
<1>3. /\ t \in Seq(Message) /\ Len(t) = Len(s) + 1
      /\ \A i \in 1..Len(s) : t[i] = s[i]
      /\ t[Len(s) + 1] = m[n]
  BY <1>2, AppendProperties
<1>4. f \in Seq(Nat) /\ Len(f) = Len(s)
  BY <1>1 DEF Places
<1>5. /\ g \in Seq(Nat) /\ Len(g) = Len(s) + 1
      /\ \A i \in 1..Len(s) : g[i] = f[i]
      /\ g[Len(s) + 1] = n
  BY <1>2, <1>4, AppendProperties
<1> HIDE DEF g, t
<1>6. ASSUME NEW i \in 1..Len(t) PROVE g[i] \in 1..n /\ m[g[i]] = t[i]
  <2>1. CASE i = Len(s) + 1
    BY <1>2, <1>3, <1>5, <2>1
  <2>2. CASE i \in 1..Len(s)
    <3>1. f[i] \in 1..n - 1 /\ m[f[i]] = s[i]
      BY <1>1, <2>2 DEF Places
    <3>2. g[i] = f[i] /\ t[i] = s[i]
      BY <1>3, <1>5, <2>2
    <3>3. f[i] \in 1..n
      BY <1>2, <3>1
    <3> QED
      BY <3>1, <3>2, <3>3
  <2>3. i \in 1..Len(s) \/ i = Len(s) + 1
    BY <1>2, <1>3
  <2> QED
    BY <2>1, <2>2, <2>3
<1>7. ASSUME NEW i \in 1..Len(t), NEW j \in 1..Len(t), i < j PROVE g[i] < g[j]
  <2>1. i \in 1..Len(s) /\ (j \in 1..Len(s) \/ j = Len(s) + 1)
    BY <1>2, <1>3, <1>7
  <2>2. f[i] \in 1..n - 1 /\ g[i] = f[i]
    BY <1>1, <1>5, <2>1 DEF Places
  <2>3. CASE j \in 1..Len(s)
    BY <1>1, <1>5, <1>7, <2>1, <2>3 DEF Places
  <2>4. CASE j = Len(s) + 1
    BY <1>2, <1>5, <2>2, <2>4
  <2> QED
    BY <2>1, <2>3, <2>4
<1>8. Places(g, t, m, n)
  BY <1>3, <1>5, <1>6, <1>7 DEF Places
<1> QED
  BY <1>8 DEF ComesFrom, t

LEMMA ComesThrough ==
  ASSUME NEW a \in Seq(Message), NEW b \in Seq(Message), NEW c, NEW n,
         ComesFrom(a, b, Len(b)), ComesFrom(b, c, n)
  PROVE  ComesFrom(a, c, n)
<1>1. PICK f : Places(f, a, b, Len(b))
  BY DEF ComesFrom
<1>2. PICK g : Places(g, b, c, n)
  BY DEF ComesFrom
<1>3. Len(a) \in Nat /\ Len(b) \in Nat
  BY LenProperties
<1> DEFINE h == [i \in 1..Len(a) |-> g[f[i]]]
<1>4. \A i \in 1..Len(a) : f[i] \in 1..Len(b) /\ b[f[i]] = a[i]
  BY <1>1 DEF Places
<1>5. \A i \in 1..Len(b) : g[i] \in Nat /\ g[i] \in 1..n /\ c[g[i]] = b[i]
  <2>1. g \in Seq(Nat) /\ Len(g) = Len(b)
    BY <1>2 DEF Places
  <2>2. \A i \in 1..Len(b) : g[i] \in Nat
    BY <2>1, LenProperties
  <2> QED
    BY <1>2, <2>2 DEF Places
<1>6. h \in Seq(Nat) /\ Len(h) = Len(a) /\ \A i \in 1..Len(a) : h[i] = g[f[i]]
  BY <1>3, <1>4, <1>5
<1> HIDE DEF h
<1>7. ASSUME NEW i \in 1..Len(a), NEW j \in 1..Len(a), i < j PROVE h[i] < h[j]
  <2>1. f[i] < f[j]
    BY <1>1, <1>7 DEF Places
  <2>2. f[i] \in 1..Len(b) /\ f[j] \in 1..Len(b)
    BY <1>4
  <2>3. g[f[i]] < g[f[j]]
    BY <1>2, <2>1, <2>2 DEF Places
  <2> QED
    BY <1>6, <2>3
<1>8. \A i \in 1..Len(a) : h[i] \in 1..n /\ c[h[i]] = a[i]
  BY <1>4, <1>5, <1>6
<1>9. Places(h, a, c, n)
  BY <1>6, <1>7, <1>8 DEF Places
<1> QED
  BY <1>9 DEF ComesFrom

LEMMA PartComesFrom ==
  ASSUME NEW m \in Seq(Message), NEW k \in 0..Len(m)
  PROVE  /\ SubSeq(m, k + 1, Len(m)) \in Seq(Message)
         /\ ComesFrom(SubSeq(m, k + 1, Len(m)), m, Len(m))
<1> DEFINE n == Len(m)
           d == n - k
           a == k + 1
           s == SubSeq(m, a, n)
           f == [i \in 1..d |-> k + i]
<1>1. n \in Nat /\ \A i \in 1..n : m[i] \in Message
  BY LenProperties
<1>2. a \in Int /\ n \in Int /\ \A i \in a..n : m[i] \in Message
  BY <1>1
<1>3. d \in Nat /\ k \in Nat
  BY <1>1
<1>4. /\ s \in Seq(Message) /\ Len(s) = d /\ \A i \in 1..d : s[i] = m[k + i]
  <2> HIDE DEF n, a
  <2>1. /\ s \in Seq(Message) /\ Len(s) = (IF a <= n THEN n - a + 1 ELSE 0)
        /\ \A i \in 1..n - a + 1 : s[i] = m[a + i - 1]
    BY <1>2, SubSeqProperties
  <2>2. n - a + 1 = d /\ (a <= n \/ d = 0) /\ \A i \in 1..d : a + i - 1 = k + i
    BY <1>1, <1>3 DEF a
  <2> HIDE DEF d, s
  <2> QED
    BY <2>1, <2>2
<1>5. \A i \in 1..d : k + i \in 1..n /\ k + i \in Nat
  BY <1>1, <1>3
<1> HIDE DEF d, s
<1>6. f \in Seq(Nat) /\ Len(f) = d /\ \A i \in 1..d : f[i] = k + i
  BY <1>3, <1>5
<1> HIDE DEF f, n
<1>7. \A i, j \in 1..d : i < j => f[i] < f[j]
  BY <1>3, <1>6
<1>8. Places(f, s, m, n)
  BY <1>4, <1>5, <1>6, <1>7 DEF Places
<1> QED
  BY <1>4, <1>8 DEF ComesFrom, s, n

LEMMA ItselfComesFrom ==
  ASSUME NEW m \in Seq(Message)
  PROVE  ComesFrom(m, m, Len(m))
<1>1. 0 \in 0..Len(m)
  BY LenProperties
<1>2. ComesFrom(SubSeq(m, 0 + 1, Len(m)), m, Len(m))
  BY <1>1, PartComesFrom
<1>3. SubSeq(m, 1, Len(m)) = m
  BY SubSeqFull
<1>4. 0 + 1 = 1
  OBVIOUS
<1> QED
  BY <1>2, <1>3, <1>4

\* What a pass has kept of the first messages comes from them.
LEMMA VisitComesFrom ==
  ASSUME NEW m \in Seq(Message), NEW i \in 1..Len(m), NEW out \in Seq(Message), NEW now,
         ComesFrom(out, m, i - 1),
         now = out \/ now = Unpoisoned(out) \/ now = Append(out, m[i])
  PROVE  ComesFrom(now, m, i)
<1>1. i - 1 \in Nat /\ i \in Nat /\ i - 1 <= i
  BY LenProperties
<1>2. ComesFrom(out, m, i)
  BY <1>1, LaterComesFrom
<1>3. ComesFrom(Unpoisoned(out), m, i)
  BY <1>2, UnpoisonedIsPrefix, PrefixComesFrom
<1>4. ComesFrom(Append(out, m[i]), m, i)
  BY NextComesFrom
<1> QED
  BY <1>2, <1>3, <1>4

LEMMA RepairVisitIs ==
  ASSUME NEW m, NEW i, NEW seen
  PROVE  LET now == RepairVisit(seen, m, i) IN
         now.out = seen.out \/ now.out = Append(seen.out, m[i])
BY DEF RepairVisit, Dropped, Kept, Seen

LEMMA SanitizePassComesFrom ==
  ASSUME NEW m \in Seq(Message)
  PROVE  ComesFrom(SanitizePass(m), m, Len(m))
<1> DEFINE g == SanitizeUpTo(m, Len(m))
           S == {i \in 0..Len(m) : ComesFrom(g[i].out, m, i)}
<1>1. /\ Len(m) \in Nat /\ SanitizePass(m) = g[Len(m)].out
      /\ g[0] = NothingSeen /\ \A i \in 0..Len(m) : g[i] \in Visits
      /\ \A i \in 1..Len(m) : g[i] = SanitizeVisit(g[i - 1], m, i)
  BY SanitizePassVisits
<1> HIDE DEF g
<1>2. 0 \in S
  <2>1. g[0].out = <<>>
    BY <1>1 DEF NothingSeen, Seen
  <2> QED
    BY <1>1, <2>1, NothingComesFrom
<1>3. ASSUME NEW k \in 0..Len(m) - 1, k \in S
      PROVE  k + 1 \in S
  <2> DEFINE i == k + 1
             now == g[i]
             seen == g[k]
  <2>1. i \in 1..Len(m) /\ i - 1 = k /\ seen \in Visits /\ now = SanitizeVisit(seen, m, i)
    BY <1>1
  <2>2. ComesFrom(seen.out, m, i - 1)
    BY <1>3, <2>1
  <2> HIDE DEF i, now, seen
  <2>3. /\ seen.out \in Seq(Message)
        /\ \/ now.out = seen.out
           \/ now.out = Unpoisoned(seen.out)
           \/ now.out = Append(seen.out, m[i])
    BY <2>1, SanitizeVisitIs
  <2>4. ComesFrom(now.out, m, i)
    BY <2>1, <2>2, <2>3, VisitComesFrom
  <2> QED
    BY <1>1, <2>4 DEF i, now
<1>4. Len(m) \in S
  <2> HIDE DEF S
  <2>1. \A k \in 0..Len(m) : k \in S
    BY <1>1, <1>2, <1>3, UpToInduction
  <2> QED
    BY <1>1, <2>1
<1> QED
  BY <1>1, <1>4

LEMMA RepairPassComesFrom ==
  ASSUME NEW m \in Seq(Message)
  PROVE  ComesFrom(RepairPass(m), m, Len(m))
<1> DEFINE g == RepairUpTo(m, Len(m))
           S == {i \in 0..Len(m) : ComesFrom(g[i].out, m, i)}
<1>1. /\ Len(m) \in Nat /\ RepairPass(m) = g[Len(m)].out
      /\ g[0] = NothingSeen /\ \A i \in 0..Len(m) : g[i] \in Visits
      /\ \A i \in 1..Len(m) : g[i] = RepairVisit(g[i - 1], m, i)
  BY RepairPassVisits
<1> HIDE DEF g
<1>2. 0 \in S
  <2>1. g[0].out = <<>>
    BY <1>1 DEF NothingSeen, Seen
  <2> QED
    BY <1>1, <2>1, NothingComesFrom
<1>3. ASSUME NEW k \in 0..Len(m) - 1, k \in S
      PROVE  k + 1 \in S
  <2> DEFINE i == k + 1
             now == g[i]
             seen == g[k]
  <2>1. i \in 1..Len(m) /\ i - 1 = k /\ seen \in Visits /\ now = RepairVisit(seen, m, i)
    BY <1>1
  <2>2. ComesFrom(seen.out, m, i - 1)
    BY <1>3, <2>1
  <2> HIDE DEF i, now, seen
  <2>3. seen.out \in Seq(Message)
    BY <2>1 DEF Visits
  <2>4. now.out = seen.out \/ now.out = Append(seen.out, m[i])
    BY <2>1, RepairVisitIs
  <2>5. ComesFrom(now.out, m, i)
    BY <2>1, <2>2, <2>3, <2>4, VisitComesFrom
  <2> QED
    BY <1>1, <2>5 DEF i, now
<1>4. Len(m) \in S
  <2> HIDE DEF S
  <2>1. \A k \in 0..Len(m) : k \in S
    BY <1>1, <1>2, <1>3, UpToInduction
  <2> QED
    BY <1>1, <2>1
<1> QED
  BY <1>1, <1>4

\* And so does what is left after all passes.
LEMMA SanitizedComesFrom ==
  ASSUME NEW m \in Seq(Message)
  PROVE  ComesFrom(sanitizeMessages(m), m, Len(m))
<1> DEFINE g == SanitizeRounds(m)
           S == {n \in 0..10 : ComesFrom(g[n].out, m, Len(m))}
<1>1. /\ sanitizeMessages(m) = g[10].out
      /\ g[0] = FirstRound(m) /\ \A n \in 0..10 : g[n] \in Rounds
      /\ \A n \in 1..10 : g[n] = SanitizeAgain(g[n - 1])
  BY SanitizeRepeats
<1> HIDE DEF g
<1>2. 0 \in S
  <2>1. g[0].out = m
    BY <1>1 DEF FirstRound
  <2> QED
    BY <2>1, ItselfComesFrom
<1>3. ASSUME NEW k \in 0..10 - 1, k \in S
      PROVE  k + 1 \in S
  <2> DEFINE before == g[k].out
             after == g[k + 1].out
  <2>1. g[k] \in Rounds /\ g[k + 1] = SanitizeAgain(g[k]) /\ k + 1 \in 0..10
    BY <1>1
  <2>2. before \in Seq(Message) /\ ComesFrom(before, m, Len(m))
    BY <1>3, <2>1 DEF Rounds
  <2>3. after = before \/ after = SanitizePass(before)
    BY <2>1 DEF SanitizeAgain
  <2> HIDE DEF before, after
  <2>4. ComesFrom(SanitizePass(before), m, Len(m))
    BY <2>2, PassIsBacked, SanitizePassComesFrom, ComesThrough
  <2> QED
    BY <2>1, <2>2, <2>3, <2>4 DEF after
<1>4. \A k \in 0..10 : k \in S
  <2> HIDE DEF S
  <2> QED
    BY <1>2, <1>3, UpToInduction
<1>5. 10 \in S
  BY <1>4
<1> QED
  BY <1>1, <1>5

LEMMA RepairedComesFrom ==
  ASSUME NEW m \in Seq(Message)
  PROVE  ComesFrom(repairTranscript(m), m, Len(m))
<1> DEFINE g == RepairRounds(m)
           repaired == Repeated(RepairPass, m)
           S == {n \in 0..10 : ComesFrom(g[n].out, m, Len(m))}
<1>1. /\ repaired = g[10].out
      /\ g[0] = FirstRound(m) /\ \A n \in 0..10 : g[n] \in Rounds
      /\ \A n \in 1..10 : g[n] = RepairAgain(g[n - 1])
  BY RepairRepeats
<1>6. repairTranscript(m) = IF EndsWith(repaired, "results") THEN Front(repaired) ELSE repaired
  BY DEF repairTranscript
<1> HIDE DEF g, repaired
<1>2. 0 \in S
  <2>1. g[0].out = m
    BY <1>1 DEF FirstRound
  <2> QED
    BY <2>1, ItselfComesFrom
<1>3. ASSUME NEW k \in 0..10 - 1, k \in S
      PROVE  k + 1 \in S
  <2> DEFINE before == g[k].out
             after == g[k + 1].out
  <2>1. g[k] \in Rounds /\ g[k + 1] = RepairAgain(g[k]) /\ k + 1 \in 0..10
    BY <1>1
  <2>2. before \in Seq(Message) /\ ComesFrom(before, m, Len(m))
    BY <1>3, <2>1 DEF Rounds
  <2>3. after = before \/ after = RepairPass(before)
    BY <2>1 DEF RepairAgain
  <2> HIDE DEF before, after
  <2>4. ComesFrom(RepairPass(before), m, Len(m))
    BY <2>2, RepairPassType, RepairPassComesFrom, ComesThrough
  <2> QED
    BY <2>1, <2>2, <2>3, <2>4 DEF after
<1>4. \A k \in 0..10 : k \in S
  <2> HIDE DEF S
  <2> QED
    BY <1>2, <1>3, UpToInduction
<1>5. 10 \in S
  BY <1>4
<1>7. repaired \in Seq(Message) /\ ComesFrom(repaired, m, Len(m))
  BY <1>1, <1>5 DEF Rounds
<1>8. EndsWith(repaired, "results") => IsPrefixOf(Front(repaired), repaired)
  <2>1. SUFFICES ASSUME EndsWith(repaired, "results") PROVE IsPrefixOf(Front(repaired), repaired)
    OBVIOUS
  <2>2. repaired # <<>> /\ IsPrefixOf(repaired, repaired)
    BY <1>7, <2>1, EndOf, LenProperties DEF IsPrefixOf
  <2> QED
    BY <1>7, <2>2, FrontIsPrefix
<1>9. EndsWith(repaired, "results") => ComesFrom(Front(repaired), m, Len(m))
  BY <1>7, <1>8, PrefixComesFrom
<1> QED
  BY <1>6, <1>7, <1>9

\* The history a turn begins with is in the file.
LEMMA HistoryComesFrom ==
  ASSUME NEW m \in Seq(Message)
  PROVE  /\ sanitizeMessages(repairTranscript(m)) \in Seq(Message)
         /\ ComesFrom(sanitizeMessages(repairTranscript(m)), m, Len(m))
<1> DEFINE repaired == repairTranscript(m)
           history == sanitizeMessages(repaired)
<1>1. repaired \in Seq(Message) /\ ComesFrom(repaired, m, Len(m))
  BY RepairedType, RepairedComesFrom
<1> HIDE DEF repaired
<1>2. history \in Seq(Message) /\ ComesFrom(history, repaired, Len(repaired))
  BY <1>1, SanitizedIsAccepted, SanitizedComesFrom
<1> HIDE DEF history
<1>3. ComesFrom(history, m, Len(m))
  BY <1>1, <1>2, ComesThrough
<1> QED
  BY <1>2, <1>3 DEF history, repaired

-----------------------------------------------------------------------------
\* What a turn has sent, but for a summary, and the file it is to be found in.
Sent(messages) == IF IsAt(messages, 1, "summary") THEN Tail(messages) ELSE messages

InFile(messages, lines) == ComesFrom(Sent(messages), lines, Len(lines))

LEMMA BothGrow ==
  ASSUME NEW s \in Seq(Message), NEW m \in Seq(Message), NEW k \in Seq(Message),
         ComesFrom(s, m, Len(m))
  PROVE  /\ ComesFrom(s \o k, m \o k, Len(m \o k))
         /\ ComesFrom(s, m \o k, Len(m \o k))
<1>1. PICK f : Places(f, s, m, Len(m))
  BY DEF ComesFrom
<1> DEFINE n == Len(m)
           d == Len(k)
           a == Len(s)
           g == [i \in 1..d |-> n + i]
           h == f \o g
           t == s \o k
           b == m \o k
<1>2. n \in Nat /\ d \in Nat /\ a \in Nat
  BY LenProperties
<1>3. g \in Seq(Nat) /\ Len(g) = d /\ \A i \in 1..d : g[i] = n + i
  <2>1. \A i \in 1..d : n + i \in Nat
    BY <1>2
  <2> HIDE DEF n, d
  <2> QED
    BY <1>2, <2>1
<1> HIDE DEF g
<1>4. /\ f \in Seq(Nat) /\ Len(f) = a
      /\ \A i \in 1..a : f[i] \in 1..n /\ m[f[i]] = s[i]
      /\ \A i, j \in 1..a : i < j => f[i] < f[j]
  BY <1>1 DEF Places
<1>5. /\ t \in Seq(Message) /\ Len(t) = a + d
      /\ \A i \in 1..a + d : t[i] = IF i <= a THEN s[i] ELSE k[i - a]
  BY ConcatProperties
<1>6. /\ b \in Seq(Message) /\ Len(b) = n + d
      /\ \A i \in 1..n + d : b[i] = IF i <= n THEN m[i] ELSE k[i - n]
  BY ConcatProperties
<1>7. /\ h \in Seq(Nat) /\ Len(h) = a + d
      /\ \A i \in 1..a + d : h[i] = IF i <= a THEN f[i] ELSE g[i - a]
  <2>1. /\ h \in Seq(Nat) /\ Len(h) = Len(f) + Len(g)
        /\ \A i \in 1..Len(f) + Len(g) : h[i] = IF i <= Len(f) THEN f[i] ELSE g[i - Len(f)]
    BY <1>3, <1>4, ConcatProperties
  <2> HIDE DEF h, a, d
  <2> QED
    BY <1>3, <1>4, <2>1
<1> HIDE DEF h, t, b, n, d, a
<1>8. ASSUME NEW i \in 1..a + d
      PROVE  /\ i \in 1..a \/ i - a \in 1..d
             /\ i \in 1..a => h[i] = f[i] /\ h[i] \in 1..n /\ t[i] = s[i]
             /\ i - a \in 1..d => h[i] = n + (i - a) /\ t[i] = k[i - a]
  BY <1>2, <1>3, <1>4, <1>5, <1>7
<1>9. ASSUME NEW i \in 1..a + d PROVE h[i] \in 1..n + d /\ b[h[i]] = t[i]
  <2>1. CASE i \in 1..a
    <3>1. h[i] = f[i] /\ h[i] \in 1..n /\ t[i] = s[i] /\ m[f[i]] = s[i]
      BY <1>4, <1>8, <2>1
    <3>2. h[i] \in 1..n + d /\ h[i] <= n
      BY <1>2, <3>1
    <3> QED
      BY <1>6, <3>1, <3>2
  <2>2. CASE i - a \in 1..d
    <3>1. h[i] = n + (i - a) /\ t[i] = k[i - a]
      BY <1>8, <2>2
    <3>2. h[i] \in 1..n + d /\ ~ h[i] <= n /\ h[i] - n = i - a
      BY <1>2, <2>2, <3>1
    <3> QED
      BY <1>6, <3>1, <3>2
  <2> QED
    BY <1>8, <2>1, <2>2
<1>10. ASSUME NEW i \in 1..a + d, NEW j \in 1..a + d, i < j PROVE h[i] < h[j]
  <2>1. CASE i \in 1..a /\ j \in 1..a
    BY <1>4, <1>8, <1>10, <2>1
  <2>2. CASE i \in 1..a /\ j - a \in 1..d
    <3>1. h[i] \in 1..n /\ h[j] = n + (j - a)
      BY <1>8, <2>2
    <3> QED
      BY <1>2, <2>2, <3>1
  <2>3. CASE i - a \in 1..d /\ j - a \in 1..d
    <3>1. h[i] = n + (i - a) /\ h[j] = n + (j - a)
      BY <1>8, <2>3
    <3> QED
      BY <1>2, <1>10, <2>3, <3>1
  <2>4. (i \in 1..a \/ i - a \in 1..d) /\ (j \in 1..a \/ j - a \in 1..d)
    BY <1>8
  <2>5. ~ (i - a \in 1..d /\ j \in 1..a)
    BY <1>2, <1>10
  <2> QED
    BY <2>1, <2>2, <2>3, <2>4, <2>5
<1>11. Places(h, t, b, Len(b))
  BY <1>5, <1>6, <1>7, <1>9, <1>10 DEF Places
<1>12. ComesFrom(t, b, Len(b))
  BY <1>11 DEF ComesFrom
<1>13. IsPrefixOf(s, t)
  BY <1>2, <1>5 DEF IsPrefixOf, a
<1>14. ComesFrom(s, b, Len(b))
  BY <1>5, <1>12, <1>13, PrefixComesFrom
<1> QED
  BY <1>12, <1>14 DEF t, b

LEMMA NoLineIsASummary ==
  ASSUME NEW s, NEW m \in Seq(Line), Len(s) \in Nat, DOMAIN s = 1..Len(s),
         ComesFrom(s, m, Len(m))
  PROVE  Sent(s) = s
<1>1. \A x \in Line : x.kind # "summary"
  BY DEF Line
<1>2. PICK f : Places(f, s, m, Len(m))
  BY DEF ComesFrom
<1>3. \A i \in 1..Len(s) : s[i] \in Line
  BY <1>2, LenProperties DEF Places
<1> QED
  BY <1>1, <1>3 DEF Sent, IsAt

LEMMA SentGrows ==
  ASSUME NEW m \in Seq(Message), NEW k \in Seq(Line)
  PROVE  Sent(m) \in Seq(Message) /\ Sent(m \o k) = Sent(m) \o k
<1>1. k \in Seq(Message)
  BY LineTypes, SeqMonotonic
<1>2. CASE m = <<>>
  <2>1. m \o k = k
    BY <1>1, <1>2, ConcatEmptySeq
  <2>2. Sent(m) = m
    BY <1>2 DEF Sent, IsAt
  <2>3. Sent(k) = k
    BY <1>1, LenProperties, ItselfComesFrom, NoLineIsASummary
  <2> QED
    BY <2>1, <2>2, <2>3
<1>3. CASE m # <<>>
  <2> DEFINE mk == m \o k
             rest == Tail(m)
  <2>1. Len(m) \in Nat \ {0} /\ Len(k) \in Nat /\ DOMAIN m = 1..Len(m)
    BY <1>3, EmptySeq, LenProperties
  <2>2. /\ mk \in Seq(Message) /\ Len(mk) = Len(m) + Len(k) /\ DOMAIN mk = 1..Len(mk)
        /\ \A i \in 1..Len(m) + Len(k) : mk[i] = IF i <= Len(m) THEN m[i] ELSE k[i - Len(m)]
    BY <1>1, ConcatProperties, LenProperties
  <2> HIDE DEF mk
  <2>3. mk # <<>> /\ 1 \in DOMAIN m /\ 1 \in DOMAIN mk /\ mk[1] = m[1]
    <3>1. Len(mk) # 0 /\ 1 \in 1..Len(m) + Len(k) /\ 1 <= Len(m) /\ 1 \in 1..Len(m)
      BY <2>1, <2>2
    <3>2. mk[1] = m[1]
      BY <2>2, <3>1
    <3>3. mk # <<>>
      BY <3>1
    <3> QED
      BY <2>1, <2>2, <3>1, <3>2, <3>3
  <2>4. Tail(mk) = Tail(m) \o k
    <3>1. /\ Tail(mk) \in Seq(Message) /\ Len(Tail(mk)) = Len(mk) - 1
          /\ \A i \in 1..Len(Tail(mk)) : Tail(mk)[i] = mk[i + 1]
      BY <2>2, <2>3, HeadTailProperties
    <3>2. /\ rest \in Seq(Message) /\ Len(rest) = Len(m) - 1
          /\ \A i \in 1..Len(rest) : rest[i] = m[i + 1]
      BY <1>3, HeadTailProperties
    <3> HIDE DEF rest
    <3>3. /\ rest \o k \in Seq(Message) /\ Len(rest \o k) = Len(rest) + Len(k)
          /\ \A i \in 1..Len(rest) + Len(k) :
               (rest \o k)[i] = IF i <= Len(rest) THEN rest[i] ELSE k[i - Len(rest)]
      BY <1>1, <3>2, ConcatProperties
    <3>4. Len(Tail(mk)) = Len(rest \o k)
      BY <2>1, <2>2, <3>1, <3>2, <3>3
    <3>5. ASSUME NEW i \in 1..Len(Tail(mk)) PROVE Tail(mk)[i] = (rest \o k)[i]
      <4>1. i \in Nat /\ i + 1 \in 1..Len(m) + Len(k) /\ i \in 1..Len(rest) + Len(k)
        BY <2>1, <2>2, <3>1, <3>2
      <4>2. CASE i <= Len(rest)
        <5>1. i + 1 <= Len(m) /\ i \in 1..Len(rest)
          BY <2>1, <3>2, <4>1, <4>2
        <5> QED
          BY <2>2, <3>1, <3>2, <3>3, <4>1, <4>2, <5>1
      <4>3. CASE ~ i <= Len(rest)
        <5>1. ~ i + 1 <= Len(m) /\ i + 1 - Len(m) = i - Len(rest)
          BY <2>1, <3>2, <4>1, <4>3
        <5> QED
          BY <2>2, <3>1, <3>3, <4>1, <4>3, <5>1
      <4> QED
        BY <4>2, <4>3
    <3> QED
      BY <3>1, <3>3, <3>4, <3>5, SeqEqual DEF rest
  <2>5. Tail(m) \in Seq(Message)
    BY <1>3, HeadTailProperties
  <2>6. IsAt(mk, 1, "summary") <=> IsAt(m, 1, "summary")
    BY <2>3 DEF IsAt
  <2> QED
    BY <2>4, <2>5, <2>6 DEF Sent, mk
<1> QED
  BY <1>2, <1>3 DEF Sent

\* What a turn appends to its messages and to the file alike is in the file, and what
\* others append takes nothing away.
LEMMA StaysInFile ==
  ASSUME NEW messages \in Seq(Message), NEW lines \in Seq(Line), NEW k \in Seq(Line),
         InFile(messages, lines)
  PROVE  InFile(messages, lines \o k) /\ InFile(messages \o k, lines \o k)
<1>1. lines \in Seq(Message) /\ k \in Seq(Message)
  BY LineTypes, SeqMonotonic
<1>2. Sent(messages) \in Seq(Message) /\ Sent(messages \o k) = Sent(messages) \o k
  BY SentGrows
<1>3. /\ ComesFrom(Sent(messages) \o k, lines \o k, Len(lines \o k))
      /\ ComesFrom(Sent(messages), lines \o k, Len(lines \o k))
  BY <1>1, <1>2, BothGrow DEF InFile
<1> QED
  BY <1>2, <1>3 DEF InFile

LEMMA NothingIsInFile ==
  ASSUME NEW lines
  PROVE  InFile(<<>>, lines)
BY NothingComesFrom DEF InFile, Sent, IsAt

\* A turn that begins takes its history from the file, to which it appends what the
\* user has said; of that, compaction keeps the last messages.
LEMMA BegunIsInFile ==
  ASSUME NEW t \in Turns, log.lines \in Seq(Line), NEW o \in BeginOutcomes(t)
  PROVE  InFile(o.next.messages, log.lines \o o.lines)
<1> DEFINE user == Said("user")
           lines == log.lines
           history == sanitizeMessages(repairTranscript(lines))
           said == Append(history, user)
           file == lines \o <<user>>
           short == runCompaction(said, KeepRecent)
<1>1. lines \in Seq(Line) /\ lines \in Seq(Message)
  BY LineTypes, SeqMonotonic
<1>2. user \in Line /\ user \in Message /\ <<user>> \in Seq(Line) /\ <<user>> \in Seq(Message)
  BY LineTypes, LinesAre, SeqMonotonic
<1>3. PICK messages \in {said, short} : o = Outcome(<<user>>, Begun(t, messages))
  BY DEF BeginOutcomes, Begun
<1> HIDE DEF lines, user
<1>4. history \in Seq(Message) /\ ComesFrom(history, lines, Len(lines))
  BY <1>1, HistoryComesFrom
<1> HIDE DEF history
<1>5. said = history \o <<user>> /\ said \in Seq(Message) /\ Len(said) \in Nat
  BY <1>2, <1>4, LinesAre, LenProperties
<1>6. file \in Seq(Line)
  BY <1>1, <1>2, ConcatProperties
<1>7. ComesFrom(said, file, Len(file))
  BY <1>1, <1>2, <1>4, <1>5, BothGrow
<1> HIDE DEF said, file
<1>8. Sent(said) = said
  BY <1>5, <1>6, <1>7, LenProperties, NoLineIsASummary
<1> DEFINE part == SubSeq(said, SplitAt(said, KeepRecent) + 1, Len(said))
<1>9. part \in Seq(Message) /\ ComesFrom(part, said, Len(said))
  BY <1>5, SplitIs, PartComesFrom, SessionAssumption
<1> HIDE DEF part
<1>10. ComesFrom(part, file, Len(file))
  BY <1>5, <1>7, <1>9, ComesThrough
<1>11. Sent(short) = part /\ short \in Seq(Message)
  <2> DEFINE head == Said("summary")
             whole == <<head>> \o part
  <2>1. head \in Message /\ head.kind = "summary"
    BY DEF Message, Said
  <2>2. short = whole
    BY DEF runCompaction, part, short
  <2> HIDE DEF head
  <2>3. whole \in Seq(Message) /\ whole # <<>> /\ whole[1] = head /\ Tail(whole) = part
    BY <1>9, <2>1
  <2> HIDE DEF whole, short
  <2>4. 1 \in DOMAIN whole
    BY <2>3, EmptySeq, LenProperties
  <2> QED
    BY <2>1, <2>2, <2>3, <2>4 DEF Sent, IsAt
<1> HIDE DEF short
<1>12. InFile(messages, file) /\ messages \in Seq(Message)
  <2>1. CASE messages = said
    BY <1>5, <1>7, <1>8, <2>1 DEF InFile
  <2>2. CASE messages = short
    BY <1>10, <1>11, <2>2 DEF InFile
  <2> QED
    BY <2>1, <2>2
<1>13. o.lines = <<user>> /\ o.next = Begun(t, messages)
  BY <1>3 DEF Outcome
<1>14. o.next.messages = messages
  BY <1>12, <1>13, BegunIs
<1> QED
  BY <1>12, <1>13, <1>14 DEF file, lines

\* All other outcomes end the turn, or append to its messages what they append to
\* the file.
LEMMA OutcomeAppends ==
  ASSUME NEW r, NEW t \in Turns, NEW o \in StepOutcomes(r, t), t.phase # "pending",
         t.phase = "waiting_tool" => t.pending \in CallSets
  PROVE  o.next = Ended \/ o.next.messages = t.messages \o o.lines
<1>1. ASSUME NEW u \in Turns, u.messages = t.messages, NEW phase \in Phases,
             NEW lines \in Seq(Line), o = AtPhase(u, phase, lines)
      PROVE  o.next.messages = t.messages \o o.lines
  <2> DEFINE a == AtPhase(u, phase, lines)
  <2>1. a.lines = lines /\ a.next.messages = u.messages \o lines
    BY AtPhaseIs
  <2>2. o = a
    BY <1>1
  <2> HIDE DEF a
  <2> QED
    BY <1>1, <2>1, <2>2
<1>2. /\ <<>> \in Seq(Line)
      /\ \A x \in Line : <<x>> \in Seq(Line)
  OBVIOUS
<1>3. \A lines : \A a \in FinalizeFailed(lines) : a.next = Ended
  BY DEF FinalizeFailed, Outcome
<1>4. \A lines : Outcome(lines, Ended).next = Ended
  BY DEF Outcome
<1>5. Phases = {"none", "pending", "running", "waiting_llm", "waiting_tool",
                "waiting_approval", "suspended", "resumed", "ended"}
  BY DEF Phases
<1>6. CASE t.phase = "running"
  BY <1>1, <1>2, <1>5, <1>6 DEF StepOutcomes
<1>7. CASE t.phase = "waiting_llm"
  <2>1. o \in LlmAnswered \/ o \in LlmAskedForTools(t) \/ o \in LlmCutShort \/ o \in LlmFailed(t)
    BY <1>7 DEF StepOutcomes, LlmOutcomes
  <2>2. CASE o \in LlmAnswered
    BY <1>4, <2>2 DEF LlmAnswered
  <2>3. CASE o \in LlmAskedForTools(t)
    <3>1. PICK calls \in CallSets, phase \in {"waiting_tool", "waiting_approval"} :
            o = AtPhase(Asked(t, calls), phase, <<Use(calls)>>)
      BY <2>3 DEF LlmAskedForTools
    <3>2. Asked(t, calls) \in Turns /\ Asked(t, calls).messages = t.messages
      BY AskedIs
    <3>3. <<Use(calls)>> \in Seq(Line) /\ phase \in Phases
      BY <1>2, <1>5, LineTypes
    <3> QED
      BY <1>1, <3>1, <3>2, <3>3
  <2>4. CASE o \in LlmCutShort
    BY <1>3, <1>4, <2>4 DEF LlmCutShort
  <2>5. CASE o \in LlmFailed(t)
    BY <1>1, <1>2, <1>3, <1>5, <2>5 DEF LlmFailed
  <2> QED
    BY <2>1, <2>2, <2>3, <2>4, <2>5
<1>8. CASE t.phase = "waiting_approval"
  <2>1. o \in ApprovalOutcomes(t)
    BY <1>8 DEF StepOutcomes
  <2> QED
    BY <1>1, <1>2, <1>3, <1>5, <2>1 DEF ApprovalOutcomes
<1>9. CASE t.phase = "waiting_tool"
  <2>1. o \in ToolOutcomes(r, t)
    BY <1>9 DEF StepOutcomes
  <2>2. CASE o \in FinalizeFailed(<<>>) \cup FinalizeFailed(<<Results(t.pending)>>)
    BY <1>3, <2>2
  <2>3. CASE o = AtPhase(Served(t), "waiting_llm", <<Results(t.pending)>>)
    <3>1. Served(t) \in Turns /\ Served(t).messages = t.messages
      BY ServedIs
    <3>2. <<Results(t.pending)>> \in Seq(Line) /\ "waiting_llm" \in Phases
      BY <1>2, <1>5, <1>9, LineTypes
    <3> QED
      BY <1>1, <2>3, <3>1, <3>2
  <2> QED
    BY <2>1, <2>2, <2>3 DEF ToolOutcomes, Served
<1>10. CASE t.phase = "resumed"
  <2>1. PICK phase \in {"waiting_llm", "waiting_tool", "waiting_approval"} : o = AtPhase(t, phase, <<>>)
    BY <1>10 DEF StepOutcomes, ResumeOutcomes
  <2> QED
    BY <1>1, <1>2, <1>5, <2>1
<1>11. CASE t.phase \in {"none", "suspended", "ended"}
  BY <1>11 DEF StepOutcomes
<1> QED
  BY <1>5, <1>6, <1>7, <1>8, <1>9, <1>10, <1>11, TurnFields

LEMMA StepStaysInFile ==
  ASSUME NEW r \in RunIds, NEW t \in SoundTurns(r), log.lines \in Seq(Line),
         InFile(t.messages, log.lines), NEW o \in StepOutcomes(r, t)
  PROVE  InFile(o.next.messages, log.lines \o o.lines)
<1>1. /\ t \in Turns /\ t.messages \in Seq(Message)
      /\ t.phase = "waiting_tool" => t.pending \in CallSets
  BY TurnFields DEF SoundTurns, TurnIsSound
<1>2. o.lines \in Seq(Line)
  BY StepIsSound DEF SoundOutcome
<1>3. CASE t.phase = "pending"
  <2>1. o \in BeginOutcomes(t)
    BY <1>3 DEF StepOutcomes
  <2> QED
    BY <1>1, <2>1, BegunIsInFile
<1>4. CASE t.phase # "pending"
  <2>1. o.next = Ended \/ o.next.messages = t.messages \o o.lines
    BY <1>1, <1>4, OutcomeAppends
  <2>2. CASE o.next = Ended
    <3>1. o.next.messages = <<>>
      BY <2>2, NoTurnType DEF Ended, NoTurn
    <3> QED
      BY <3>1, NothingIsInFile
  <2>3. CASE o.next.messages = t.messages \o o.lines
    BY <1>1, <1>2, <2>3, StaysInFile
  <2> QED
    BY <2>1, <2>2, <2>3
<1> QED
  BY <1>3, <1>4

-----------------------------------------------------------------------------
\* Where messages are looked for one after another, each after the one before it.
FirstAfter(sent, lines, i, k) ==
  LET later == {j \in DOMAIN lines : j > k /\ lines[j] = sent[i]}
  IN  IF later = {} THEN Len(lines) + 1 ELSE Min(later)

FoundUpTo(sent, lines, n) ==
  CHOOSE Found : Found = [i \in 0..n |->
    IF i = 0 THEN 0 ELSE FirstAfter(sent, lines, i, Found[i - 1])]

LEMMA FirstAfterIs ==
  ASSUME NEW lines \in Seq(Message), NEW sent, NEW i, NEW k \in Nat
  PROVE  /\ FirstAfter(sent, lines, i, k) \in Nat
         /\ \A j \in 1..Len(lines) :
              j > k /\ lines[j] = sent[i] => FirstAfter(sent, lines, i, k) <= j
<1> DEFINE later == {j \in DOMAIN lines : j > k /\ lines[j] = sent[i]}
<1>1. Len(lines) \in Nat /\ DOMAIN lines = 1..Len(lines)
  BY LenProperties
<1>2. FirstAfter(sent, lines, i, k) = IF later = {} THEN Len(lines) + 1 ELSE Min(later)
  BY DEF FirstAfter
<1>3. /\ later \in SUBSET Nat
      /\ \A j \in 1..Len(lines) : j > k /\ lines[j] = sent[i] => j \in later
  BY <1>1
<1> HIDE DEF later
<1>4. CASE later = {}
  BY <1>1, <1>2, <1>3, <1>4
<1>5. CASE later # {}
  <2>1. PICK n \in later : \A j \in later : n <= j
    BY <1>3, <1>5, LeastExists
  <2>2. Min(later) \in later /\ \A j \in later : Min(later) <= j
    BY <2>1 DEF Min
  <2> QED
    BY <1>2, <1>3, <1>5, <2>2
<1> QED
  BY <1>4, <1>5

Findable(sent, lines) == \A i, k \in Nat : FirstAfter(sent, lines, i, k) \in Nat

Finds(g, sent, lines, n) ==
  /\ g[0] = 0 /\ \A i \in 0..n : g[i] \in Nat
  /\ \A i \in 1..n : g[i] = FirstAfter(sent, lines, i, g[i - 1])

LEMMA FoundUpToFinds ==
  ASSUME NEW sent, NEW lines, NEW n \in Nat, Findable(sent, lines)
  PROVE  Finds(FoundUpTo(sent, lines, n), sent, lines, n)
<1> DEFINE F == [i \in 1..n |-> [k \in Nat |-> FirstAfter(sent, lines, i, k)]]
<1>0. \A i \in 1..n : \A k \in Nat : FirstAfter(sent, lines, i, k) \in Nat
  BY DEF Findable
<1>1. F \in [1..n -> [Nat -> Nat]]
  BY <1>0
<1>2. PICK f \in [0..n -> Nat] : Follows(f, 0, F, n)
  <2> HIDE DEF F
  <2>1. 0 \in Nat
    OBVIOUS
  <2> QED
    BY <1>1, <2>1, StepsHaveResults
<1>3. f[0] = 0 /\ \A i \in 1..n : f[i] = FirstAfter(sent, lines, i, f[i - 1])
  <2>1. f[0] = 0 /\ \A i \in 1..n : f[i] = F[i][f[i - 1]]
    BY <1>2 DEF Follows
  <2>2. \A i \in 1..n : f[i - 1] \in Nat
    OBVIOUS
  <2> QED
    BY <2>1, <2>2
<1>4. f = [i \in 0..n |-> IF i = 0 THEN 0 ELSE FirstAfter(sent, lines, i, f[i - 1])]
  <2>1. f = [i \in 0..n |-> f[i]]
    OBVIOUS
  <2>2. \A i \in 0..n : f[i] = IF i = 0 THEN 0 ELSE FirstAfter(sent, lines, i, f[i - 1])
    BY <1>3
  <2> QED
    BY <2>1, <2>2
<1>5. FoundUpTo(sent, lines, n) =
        [i \in 0..n |-> IF i = 0 THEN 0
                        ELSE FirstAfter(sent, lines, i, FoundUpTo(sent, lines, n)[i - 1])]
  BY <1>4 DEF FoundUpTo
<1> DEFINE g == FoundUpTo(sent, lines, n)
           Typed == {k \in 0..n : g[k] \in Nat}
<1>6. g[0] = 0 /\ \A i \in 1..n : g[i] = FirstAfter(sent, lines, i, g[i - 1])
  <2>1. \A i \in 0..n : g[i] = IF i = 0 THEN 0 ELSE FirstAfter(sent, lines, i, g[i - 1])
    BY <1>5
  <2> HIDE DEF g
  <2>2. 0 \in 0..n /\ \A i \in 1..n : i \in 0..n /\ i # 0
    OBVIOUS
  <2> QED
    BY <2>1, <2>2
<1> HIDE DEF g
<1>7. 0 \in Typed
  BY <1>6
<1>8. ASSUME NEW k \in 0..n - 1, k \in Typed
      PROVE  k + 1 \in Typed
  <2> DEFINE i == k + 1
  <2>1. i \in 1..n /\ i \in 0..n /\ g[i] = FirstAfter(sent, lines, i, g[k]) /\ g[k] \in Nat
    BY <1>6, <1>8
  <2> HIDE DEF i
  <2>2. g[i] \in Nat
    BY <1>0, <2>1
  <2> QED
    BY <2>1, <2>2 DEF i
<1>9. \A k \in 0..n : k \in Typed
  <2> HIDE DEF Typed
  <2> QED
    BY <1>7, <1>8, UpToInduction
<1> QED
  BY <1>6, <1>9 DEF Finds, g

\* Messages that are in the file in that order are found so: each is found no later than where
\* it is.
LEMMA WhatIsThereIsFound ==
  ASSUME NEW sent \in Seq(Message), NEW lines \in Seq(Message),
         ComesFrom(sent, lines, Len(lines))
  PROVE  FoundUpTo(sent, lines, Len(sent))[Len(sent)] <= Len(lines)
<1>1. PICK f : Places(f, sent, lines, Len(lines))
  BY DEF ComesFrom
<1> DEFINE n == Len(sent)
           g == FoundUpTo(sent, lines, n)
           S == {k \in 0..n : k > 0 => g[k] <= f[k]}
<1>2. n \in Nat /\ Len(lines) \in Nat
  BY LenProperties
<1>3. /\ \A i \in 1..n : f[i] \in 1..Len(lines) /\ lines[f[i]] = sent[i]
      /\ \A i, j \in 1..n : i < j => f[i] < f[j]
  BY <1>1 DEF Places
<1>4. Findable(sent, lines)
  BY FirstAfterIs DEF Findable
<1> HIDE DEF n
<1>5. /\ g[0] = 0 /\ \A i \in 0..n : g[i] \in Nat
      /\ \A i \in 1..n : g[i] = FirstAfter(sent, lines, i, g[i - 1])
  <2>1. Finds(g, sent, lines, n)
    BY <1>2, <1>4, FoundUpToFinds
  <2> HIDE DEF g
  <2> QED
    BY <2>1 DEF Finds
<1> HIDE DEF g
<1>6. 0 \in S
  BY <1>2
<1>7. ASSUME NEW k \in 0..n - 1, k \in S
      PROVE  k + 1 \in S
  <2> DEFINE i == k + 1
             before == g[k]
             place == f[i]
  <2>1. k \in Nat /\ i \in 1..n /\ i - 1 = k /\ k \in 0..n /\ (k > 0 => k \in 1..n /\ k < i)
    BY <1>2
  <2>2. before \in Nat /\ g[i] = FirstAfter(sent, lines, i, before)
    BY <1>5, <2>1
  <2>3. place \in 1..Len(lines) /\ lines[place] = sent[i]
    BY <1>3, <2>1
  <2>4. place > before
    <3>1. CASE k = 0
      BY <1>2, <1>5, <2>3, <3>1
    <3>2. CASE k > 0
      <4>1. before <= f[k] /\ f[k] < f[i] /\ f[k] \in 1..Len(lines)
        BY <1>3, <1>7, <2>1, <3>2
      <4> QED
        BY <1>2, <2>2, <2>3, <4>1
    <3> QED
      BY <2>1, <3>1, <3>2
  <2> HIDE DEF before, place, i
  <2>5. FirstAfter(sent, lines, i, before) <= place
    BY <2>2, <2>3, <2>4, FirstAfterIs
  <2>6. g[i] <= place
    BY <2>2, <2>5
  <2> QED
    BY <2>1, <2>6 DEF i, place
<1>8. \A k \in 0..n : k \in S
  <2> HIDE DEF S
  <2> QED
    BY <1>2, <1>6, <1>7, UpToInduction
<1>9. n \in S /\ g[n] \in Nat
  BY <1>2, <1>5, <1>8
<1>10. g[n] <= Len(lines)
  <2>1. CASE n = 0
    BY <1>2, <1>5, <2>1
  <2>2. CASE n > 0
    <3>1. n \in 1..n /\ g[n] <= f[n]
      BY <1>2, <1>9, <2>2
    <3>2. f[n] \in 1..Len(lines)
      BY <1>3, <3>1
    <3> QED
      BY <1>2, <1>9, <3>1, <3>2
  <2> QED
    BY <1>2, <2>1, <2>2
<1> QED
  BY <1>10 DEF g, n

-----------------------------------------------------------------------------
\* As long as nobody has cleared the file or cut a line short.
FileKeepsWhatWasSent ==
  faults = 0 => ~ log.torn /\ \A r \in RunIds : InFile(turn[r].messages, log.lines)

LEMMA WholeLinesAreAppended ==
  ASSUME ~ log.torn, NEW lines \in Seq(Line), AppendToFile(lines, FALSE)
  PROVE  log'.lines = log.lines \o lines /\ ~ log'.torn
BY DEF AppendToFile

LEMMA FileStaysComplete == Spec => []FileKeepsWhatWasSent
<1>1. Init => FileKeepsWhatWasSent
  <2>1. SUFFICES ASSUME Init PROVE FileKeepsWhatWasSent
    OBVIOUS
  <2>2. \A r \in RunIds : turn[r].messages = <<>>
    BY <2>1, NoTurnType DEF Init
  <2>3. ~ log.torn
    BY <2>1 DEF Init
  <2> QED
    BY <2>2, <2>3, NothingIsInFile DEF FileKeepsWhatWasSent
<1>2. SessionIsSound /\ FileKeepsWhatWasSent /\ [Next]_vars => FileKeepsWhatWasSent'
  <2> SUFFICES ASSUME SessionIsSound, FileKeepsWhatWasSent, [Next]_vars, faults' = 0
               PROVE  ~ log'.torn /\ \A p \in RunIds : InFile(turn'[p].messages, log'.lines)
    BY DEF FileKeepsWhatWasSent, InFile
  <2> DEFINE Kept2 == ~ log'.torn /\ \A p \in RunIds : InFile(turn'[p].messages, log'.lines)
  <2>0. /\ log.lines \in Seq(Line) /\ turn \in [RunIds -> Turns]
        /\ \A r \in RunIds : turn[r] \in SoundTurns(r) /\ turn[r].messages \in Seq(Message)
        /\ faults \in Nat
    BY SessionAssumption, TurnFields DEF SessionIsSound, SoundTurns
  <2>h. ASSUME faults = 0
        PROVE  ~ log.torn /\ \A p \in RunIds : InFile(turn[p].messages, log.lines)
    BY <2>h DEF FileKeepsWhatWasSent
  <2>e. Ended.messages = <<>>
    BY NoTurnType DEF Ended, NoTurn
  \* A step appends lines, or nothing, and changes the messages of its turn.
  <2>a. ASSUME faults = 0, NEW lines \in Seq(Line), AppendToFile(lines, FALSE),
               NEW r \in RunIds, NEW u, turn' = [turn EXCEPT ![r] = u],
               InFile(u.messages, log.lines \o lines)
        PROVE  Kept2
    <3>1. log'.lines = log.lines \o lines /\ ~ log'.torn
      BY <2>a, <2>h, WholeLinesAreAppended
    <3>2. \A p \in RunIds : turn'[p] = IF p = r THEN u ELSE turn[p]
      BY <2>0, <2>a
    <3>3. ASSUME NEW p \in RunIds PROVE InFile(turn'[p].messages, log.lines \o lines)
      <4>1. InFile(turn[p].messages, log.lines \o lines)
        BY <2>0, <2>a, <2>h, StaysInFile
      <4> QED
        BY <2>a, <3>2, <4>1
    <3> QED
      BY <3>1, <3>3
  <2>b. ASSUME faults = 0, UNCHANGED log,
               NEW r \in RunIds, NEW u, turn' = [turn EXCEPT ![r] = u],
               u.messages = turn[r].messages \/ u.messages = <<>>
        PROVE  Kept2
    <3>1. \A p \in RunIds : turn'[p] = IF p = r THEN u ELSE turn[p]
      BY <2>0, <2>b
    <3>2. InFile(u.messages, log.lines)
      BY <2>b, <2>h, NothingIsInFile
    <3> QED
      BY <2>b, <2>h, <3>1, <3>2
  <2>1. ASSUME NEW r \in RunIds, NEW phase, turn' = [turn EXCEPT ![r].phase = phase],
               UNCHANGED <<log, faults>>
        PROVE  Kept2
    <3>1. [turn[r] EXCEPT !.phase = phase].messages = turn[r].messages
      BY <2>0 DEF Turns
    <3>2. turn' = [turn EXCEPT ![r] = [turn[r] EXCEPT !.phase = phase]]
      BY <2>1
    <3> QED
      BY <2>1, <2>b, <3>1, <3>2
  <2>2. ASSUME NEW r \in RunIds, StepReturns(r) PROVE Kept2
    <3>1. PICK o \in StepOutcomes(r, turn[r]) :
            AppendToFile(o.lines, FALSE) /\ turn' = [turn EXCEPT ![r] = o.next]
      BY <2>2 DEF StepReturns
    <3>2. faults = 0
      BY <2>2 DEF StepReturns
    <3>3. o.lines \in Seq(Line)
      BY <2>0, StepIsSound DEF SoundOutcome
    <3>4. InFile(o.next.messages, log.lines \o o.lines)
      BY <2>0, <2>h, <3>2, StepStaysInFile
    <3> QED
      BY <2>a, <3>1, <3>2, <3>3, <3>4
  <2>3. ASSUME NEW r \in RunIds, StepThrows(r) PROVE Kept2
    <3>1. PICK o \in StepOutcomes(r, turn[r]) :
            \E n \in 0..Len(o.lines) : AppendToFile(SubSeq(o.lines, 1, n), FALSE)
      BY <2>3 DEF StepThrows
    <3>2. PICK n \in 0..Len(o.lines) : AppendToFile(SubSeq(o.lines, 1, n), FALSE)
      BY <3>1
    <3>3. SubSeq(o.lines, 1, n) \in Seq(Line)
      <4>1. o.lines \in Seq(Line)
        BY <2>0, StepIsSound DEF SoundOutcome
      <4> QED
        BY <4>1, PartType
    <3>4. faults = 0 /\ turn' = [turn EXCEPT ![r] = Ended]
      BY <2>3 DEF StepThrows
    <3>5. InFile(Ended.messages, log.lines \o SubSeq(o.lines, 1, n))
      BY <2>e, NothingIsInFile
    <3> QED
      BY <2>a, <3>2, <3>3, <3>4, <3>5
  <2>4. ASSUME NEW r \in RunIds, abortTurn(r) PROVE Kept2
    <3>1. turn' = [turn EXCEPT ![r] = Ended] /\ UNCHANGED log /\ faults = 0
      BY <2>4 DEF abortTurn
    <3> QED
      BY <2>b, <2>e, <3>1
  <2>5. ASSUME NEW r \in RunIds, startTurn(r) \/ resumeTurn(r) PROVE Kept2
    BY <2>1, <2>5 DEF startTurn, resumeTurn
  <2>6. ASSUME (\E r \in RunIds : CrashInStep(r)) \/ clearSession PROVE FALSE
    <3>1. faults' = faults + 1
      BY <2>6 DEF CrashInStep, clearSession
    <3> QED
      BY <2>0, <3>1
  <2>7. ASSUME UNCHANGED vars PROVE Kept2
    BY <2>7, <2>h DEF vars
  <2> QED
    <3> HIDE DEF Kept2
    <3>1. Kept2
      BY <2>2, <2>3, <2>4, <2>5, <2>6, <2>7 DEF Next
    <3> QED
      BY <3>1 DEF Kept2
<1> QED
  BY <1>1, <1>2, SessionStaysSound, PTL DEF Spec

\* For any turns, calls and lengths of the file: what a turn has sent is in the file in
\* that order, however turns overlap and wherever a step fails.
THEOREM SentIsInTheFile == Spec => []RequestsComeFromTheFile
<1>1. SessionIsSound /\ FileKeepsWhatWasSent => RequestsComeFromTheFile
  <2> SUFFICES ASSUME SessionIsSound, FileKeepsWhatWasSent, faults = 0
               PROVE  RequestsComeFromTheFile
    BY DEF RequestsComeFromTheFile
  <2>1. ASSUME NEW r \in RunIds
        PROVE  LET sent == Sent(turn[r].messages)
               IN  FoundUpTo(sent, log.lines, Len(sent))[Len(sent)] <= Len(log.lines)
    <3> DEFINE sent == Sent(turn[r].messages)
               lines == log.lines
    <3>1. lines \in Seq(Line) /\ lines \in Seq(Message) /\ turn[r].messages \in Seq(Message)
      BY LineTypes, SeqMonotonic, TurnFields DEF SessionIsSound
    <3>2. ComesFrom(sent, lines, Len(lines))
      BY DEF FileKeepsWhatWasSent, InFile
    <3>3. sent \in Seq(Message)
      <4>1. <<>> \in Seq(Line)
        BY EmptySeq
      <4> QED
        BY <3>1, <4>1, SentGrows
    <3> HIDE DEF sent, lines
    <3>4. FoundUpTo(sent, lines, Len(sent))[Len(sent)] <= Len(lines)
      BY <3>1, <3>2, <3>3, WhatIsThereIsFound
    <3> QED
      BY <3>4 DEF sent, lines
  <2> QED
    BY <2>1 DEF RequestsComeFromTheFile, FoundUpTo, FirstAfter, Sent
<1> QED
  BY <1>1, SessionStaysSound, FileStaysComplete, PTL

-----------------------------------------------------------------------------
\* The messages of m at the places K, in their order.
Picks(f, s, m, K) ==
  /\ Places(f, s, m, Len(m))
  /\ \A q \in 1..Len(s) : f[q] \in K
  /\ \A i \in K : \E q \in 1..Len(s) : f[q] = i

IsPicked(s, m, K) == s \in Seq(Message) /\ \E f : Picks(f, s, m, K)

Picked(m, K) ==
  [n \in 1..Cardinality(K) |-> m[CHOOSE i \in K : Cardinality({j \in K : j <= i}) = n]]

\* What the places of a list are, as far as the proofs need to know.
LEMMA PickFields ==
  ASSUME NEW s \in Seq(Message), NEW m \in Seq(Message), NEW K, NEW f, Picks(f, s, m, K)
  PROVE  /\ Len(s) \in Nat /\ Len(m) \in Nat
         /\ f \in Seq(Nat) /\ Len(f) = Len(s)
         /\ \A q \in 1..Len(s) : f[q] \in 1..Len(m) /\ m[f[q]] = s[q]
         /\ \A q \in 1..Len(s) : f[q] \in K /\ f[q] \in Nat
         /\ \A q, r \in 1..Len(s) : (q < r <=> f[q] < f[r]) /\ (q = r <=> f[q] = f[r])
         /\ \A i \in K : i \in Nat /\ i \in 1..Len(m) /\ \E q \in 1..Len(s) : f[q] = i
<1>1. Len(s) \in Nat /\ Len(m) \in Nat
  BY LenProperties
<1>2. f \in Seq(Nat) /\ Len(f) = Len(s)
  BY DEF Picks, Places
<1>3. \A q \in 1..Len(s) : f[q] \in 1..Len(m) /\ m[f[q]] = s[q] /\ f[q] \in K
  BY DEF Picks, Places
<1>4. \A q \in 1..Len(s) : f[q] \in Nat
  BY <1>1, <1>3
<1>5. \A q, r \in 1..Len(s) : q < r => f[q] < f[r]
  BY DEF Picks, Places
<1>6. ASSUME NEW q \in 1..Len(s), NEW r \in 1..Len(s)
      PROVE  (q < r <=> f[q] < f[r]) /\ (q = r <=> f[q] = f[r])
  <2>1. (q < r => f[q] < f[r]) /\ (r < q => f[r] < f[q]) /\ f[q] \in Nat /\ f[r] \in Nat
    BY <1>4, <1>5
  <2>2. q \in Nat /\ r \in Nat
    BY <1>1
  <2>3. q < r \/ r < q \/ q = r
    BY <2>2
  <2> QED
    BY <2>1, <2>2, <2>3
<1>7. \A i \in K : \E q \in 1..Len(s) : f[q] = i
  BY DEF Picks
<1>8. \A i \in K : i \in Nat /\ i \in 1..Len(m)
  BY <1>3, <1>4, <1>7
<1> QED
  BY <1>1, <1>2, <1>3, <1>4, <1>6, <1>7, <1>8

\* Counting the places gives the same list.
LEMMA PickedIs ==
  ASSUME NEW m \in Seq(Message), NEW K, NEW s, IsPicked(s, m, K)
  PROVE  s = Picked(m, K)
<1>1. s \in Seq(Message)
  BY DEF IsPicked
<1>2. PICK f : Picks(f, s, m, K)
  BY DEF IsPicked
<1>3. /\ Len(s) \in Nat /\ Len(m) \in Nat
      /\ \A q \in 1..Len(s) : f[q] \in 1..Len(m) /\ m[f[q]] = s[q]
      /\ \A q \in 1..Len(s) : f[q] \in K /\ f[q] \in Nat
      /\ \A q, r \in 1..Len(s) : (q < r <=> f[q] < f[r]) /\ (q = r <=> f[q] = f[r])
      /\ \A i \in K : i \in Nat /\ \E q \in 1..Len(s) : f[q] = i
  BY <1>1, <1>2, PickFields
<1> DEFINE UpTo(i) == {j \in K : j <= i}
<1>4. ASSUME NEW q \in 0..Len(s), NEW S \in SUBSET K,
             \A r \in 1..Len(s) : r <= q <=> f[r] \in S
      PROVE  Cardinality(S) = q
  <2> DEFINE g == [r \in 1..q |-> f[r]]
  <2>1. q \in Nat /\ \A r \in 1..q : r \in 1..Len(s) /\ r <= q
    BY <1>3
  <2>2. g \in [1..q -> S] /\ \A r \in 1..q : g[r] = f[r]
    BY <1>4, <2>1
  <2> HIDE DEF g
  <2>3. g \in Injection(1..q, S)
    BY <1>3, <2>1, <2>2 DEF Injection, IsInjective
  <2>4. \A i \in S : \E r \in 1..q : g[r] = i
    <3>1. SUFFICES ASSUME NEW i \in S PROVE \E r \in 1..q : g[r] = i
      OBVIOUS
    <3>2. PICK r \in 1..Len(s) : f[r] = i
      BY <1>3
    <3>3. r \in 1..q
      BY <1>4, <2>1, <3>2
    <3> QED
      BY <2>2, <3>2, <3>3
  <2>5. g \in Surjection(1..q, S)
    BY <2>2, <2>4 DEF Surjection
  <2>6. ExistsBijection(1..q, S)
    BY <2>3, <2>5 DEF ExistsBijection, Bijection
  <2> QED
    BY <2>1, <2>6, FS_CountingElements
<1>5. Cardinality(K) = Len(s)
  <2>1. Len(s) \in 0..Len(s) /\ K \in SUBSET K /\ \A r \in 1..Len(s) : r <= Len(s) <=> f[r] \in K
    BY <1>3
  <2> QED
    BY <1>4, <2>1
<1>6. ASSUME NEW q \in 1..Len(s)
      PROVE  Cardinality(UpTo(f[q])) = q
  <2>1. \A r \in 1..Len(s) : r <= q <=> f[r] \in UpTo(f[q])
    BY <1>3
  <2>2. UpTo(f[q]) \in SUBSET K /\ q \in 0..Len(s)
    BY <1>3
  <2> HIDE DEF UpTo
  <2> QED
    BY <1>4, <2>1, <2>2
<1>7. ASSUME NEW n \in 1..Len(s)
      PROVE  (CHOOSE i \in K : Cardinality(UpTo(i)) = n) = f[n]
  <2>1. f[n] \in K /\ Cardinality(UpTo(f[n])) = n
    BY <1>3, <1>6
  <2>2. \A i \in K : Cardinality(UpTo(i)) = n => i = f[n]
    BY <1>3, <1>6
  <2> HIDE DEF UpTo
  <2> QED
    BY <2>1, <2>2
<1>8. \A n \in 1..Len(s) : m[CHOOSE i \in K : Cardinality(UpTo(i)) = n] = s[n]
  BY <1>3, <1>7
<1>9. Picked(m, K) = [n \in 1..Len(s) |-> s[n]]
  BY <1>5, <1>8 DEF Picked
<1> QED
  BY <1>1, <1>9, LenProperties

LEMMA NothingIsPicked ==
  ASSUME NEW m
  PROVE  IsPicked(<<>>, m, {})
<1>1. <<>> \in Seq(Message) /\ <<>> \in Seq(Nat)
  BY EmptySeq
<1>2. Picks(<<>>, <<>>, m, {})
  BY <1>1 DEF Picks, Places
<1> QED
  BY <1>1, <1>2 DEF IsPicked

LEMMA NextIsPicked ==
  ASSUME NEW m \in Seq(Message), NEW i \in 1..Len(m), NEW K, NEW s,
         IsPicked(s, m, K), \A j \in K : j < i
  PROVE  IsPicked(Append(s, m[i]), m, K \cup {i})
<1>1. s \in Seq(Message)
  BY DEF IsPicked
<1>2. PICK f : Picks(f, s, m, K)
  BY DEF IsPicked
<1>3. /\ Len(s) \in Nat /\ Len(m) \in Nat /\ f \in Seq(Nat) /\ Len(f) = Len(s)
      /\ \A q \in 1..Len(s) : f[q] \in 1..Len(m) /\ m[f[q]] = s[q]
      /\ \A q \in 1..Len(s) : f[q] \in K /\ f[q] \in Nat
      /\ \A q, r \in 1..Len(s) : (q < r <=> f[q] < f[r]) /\ (q = r <=> f[q] = f[r])
      /\ \A j \in K : j \in Nat /\ \E q \in 1..Len(s) : f[q] = j
  BY <1>1, <1>2, PickFields
<1> DEFINE g == Append(f, i)
           t == Append(s, m[i])
<1>4. i \in Nat /\ m[i] \in Message
  BY <1>3, LenProperties
<1>5. /\ t \in Seq(Message) /\ Len(t) = Len(s) + 1
      /\ \A q \in 1..Len(s) : t[q] = s[q]
      /\ t[Len(s) + 1] = m[i]
  BY <1>1, <1>4, AppendProperties
<1>6. /\ g \in Seq(Nat) /\ Len(g) = Len(s) + 1
      /\ \A q \in 1..Len(s) : g[q] = f[q]
      /\ g[Len(s) + 1] = i
  BY <1>3, <1>4, AppendProperties
<1> HIDE DEF g, t
<1>7. \A q \in 1..Len(t) : q \in 1..Len(s) \/ q = Len(s) + 1
  BY <1>3, <1>5
<1>8. ASSUME NEW q \in 1..Len(t)
      PROVE  g[q] \in 1..Len(m) /\ m[g[q]] = t[q] /\ g[q] \in K \cup {i}
  <2>1. CASE q \in 1..Len(s)
    BY <1>3, <1>5, <1>6, <2>1
  <2>2. CASE q = Len(s) + 1
    BY <1>5, <1>6, <2>2
  <2> QED
    BY <1>7, <2>1, <2>2
<1>9. ASSUME NEW q \in 1..Len(t), NEW r \in 1..Len(t), q < r
      PROVE  g[q] < g[r]
  <2>1. q \in 1..Len(s) /\ g[q] = f[q] /\ f[q] \in K
    BY <1>3, <1>5, <1>6, <1>9
  <2>2. CASE r \in 1..Len(s)
    BY <1>3, <1>6, <1>9, <2>1, <2>2
  <2>3. CASE r = Len(s) + 1
    BY <1>6, <2>1, <2>3
  <2> QED
    BY <1>7, <2>2, <2>3
<1>10. ASSUME NEW j \in K \cup {i}
       PROVE  \E q \in 1..Len(t) : g[q] = j
  <2>1. CASE j \in K
    <3>1. PICK q \in 1..Len(s) : f[q] = j
      BY <1>3, <2>1
    <3>2. q \in 1..Len(t) /\ g[q] = j
      BY <1>3, <1>5, <1>6, <3>1
    <3> QED
      BY <3>2
  <2>2. CASE j = i
    <3>1. Len(s) + 1 \in 1..Len(t)
      BY <1>3, <1>5
    <3> QED
      BY <1>6, <2>2, <3>1
  <2> QED
    BY <2>1, <2>2
<1>11. Places(g, t, m, Len(m))
  BY <1>5, <1>6, <1>8, <1>9 DEF Places
<1>12. Picks(g, t, m, K \cup {i})
  BY <1>8, <1>10, <1>11 DEF Picks
<1> QED
  BY <1>5, <1>12 DEF IsPicked, t

\* The last message picked is at the last place, and without it the others are picked.
LEMMA LastIsPicked ==
  ASSUME NEW m \in Seq(Message), NEW K, NEW s, IsPicked(s, m, K)
  PROVE  /\ s = <<>> <=> K = {}
         /\ s # <<>> => \E i \in K : /\ Last(s) = m[i] /\ \A j \in K : j <= i
                                     /\ IsPicked(Front(s), m, K \ {i})
<1>1. s \in Seq(Message)
  BY DEF IsPicked
<1>2. PICK f : Picks(f, s, m, K)
  BY DEF IsPicked
<1>3. /\ Len(s) \in Nat /\ Len(m) \in Nat /\ f \in Seq(Nat) /\ Len(f) = Len(s)
      /\ \A q \in 1..Len(s) : f[q] \in 1..Len(m) /\ m[f[q]] = s[q]
      /\ \A q \in 1..Len(s) : f[q] \in K /\ f[q] \in Nat
      /\ \A q, r \in 1..Len(s) : (q < r <=> f[q] < f[r]) /\ (q = r <=> f[q] = f[r])
      /\ \A j \in K : j \in Nat /\ \E q \in 1..Len(s) : f[q] = j
  BY <1>1, <1>2, PickFields
<1>4. s = <<>> <=> Len(s) = 0
  BY <1>1, EmptySeq
<1>5. s = <<>> => K = {}
  BY <1>3, <1>4
<1>6. ASSUME s # <<>>
      PROVE  \E i \in K : /\ Last(s) = m[i] /\ \A j \in K : j <= i
                          /\ IsPicked(Front(s), m, K \ {i})
  <2> DEFINE n == Len(s)
             t == Front(s)
             g == SubSeq(f, 1, n - 1)
             i == f[n]
  <2>1. /\ t \in Seq(Message) /\ Len(t) = n - 1 /\ Last(s) = s[n] /\ n \in Nat \ {0}
        /\ \A q \in 1..n - 1 : t[q] = s[q]
    BY <1>1, <1>6, FrontProperties
  <2>2. n \in 1..Len(s)
    BY <2>1
  <2>3. g \in Seq(Nat) /\ Len(g) = n - 1 /\ \A q \in 1..n - 1 : g[q] = f[q]
    <3> DEFINE k == n - 1
    <3>1. k \in Int /\ k \in Nat /\ \A q \in 1..k : f[q] \in Nat
      BY <1>3, <2>1
    <3> HIDE DEF k
    <3>2. /\ SubSeq(f, 1, k) \in Seq(Nat)
          /\ Len(SubSeq(f, 1, k)) = IF 1 <= k THEN k - 1 + 1 ELSE 0
          /\ \A q \in 1..k - 1 + 1 : SubSeq(f, 1, k)[q] = f[1 + q - 1]
      BY <3>1, SubSeqProperties
    <3>3. Len(SubSeq(f, 1, k)) = k /\ \A q \in 1..k : SubSeq(f, 1, k)[q] = f[q]
      BY <3>1, <3>2
    <3> QED
      BY <3>2, <3>3 DEF k
  <2>4. i \in K /\ Last(s) = m[i]
    BY <1>3, <2>1, <2>2
  <2>5. \A j \in K : j <= i
    <3>1. SUFFICES ASSUME NEW j \in K PROVE j <= i
      OBVIOUS
    <3>2. PICK q \in 1..Len(s) : f[q] = j
      BY <1>3
    <3>3. q < n \/ q = n
      BY <1>3
    <3>4. f[q] \in Nat /\ f[n] \in Nat /\ (q < n => f[q] < f[n])
      BY <1>3, <2>2
    <3> QED
      BY <3>2, <3>3, <3>4
  <2> HIDE DEF t, g, i
  <2>6. \A q \in 1..n - 1 : q \in 1..n /\ q # n
    BY <2>1
  <2>7. ASSUME NEW q \in 1..n - 1
        PROVE  g[q] \in 1..Len(m) /\ m[g[q]] = t[q] /\ g[q] \in K \ {i}
    <3>1. q \in 1..Len(s) /\ q # n /\ g[q] = f[q] /\ t[q] = s[q]
      BY <2>1, <2>3, <2>6
    <3>2. f[q] \in 1..Len(m) /\ m[f[q]] = s[q] /\ f[q] \in K
      BY <1>3, <3>1
    <3>3. f[q] # f[n]
      BY <1>3, <2>2, <3>1
    <3> QED
      BY <3>1, <3>2, <3>3 DEF i
  <2>8. \A q, r \in 1..n - 1 : q < r => g[q] < g[r]
    BY <1>3, <2>3, <2>6
  <2>9. Places(g, t, m, Len(m))
    BY <2>1, <2>3, <2>7, <2>8 DEF Places
  <2>10. ASSUME NEW j \in K \ {i}
         PROVE  \E q \in 1..Len(t) : g[q] = j
    <3>1. PICK q \in 1..Len(s) : f[q] = j
      BY <1>3
    <3>2. q \in 1..n - 1
      BY <1>3, <3>1 DEF i
    <3> QED
      BY <2>1, <2>3, <3>1, <3>2
  <2>11. Picks(g, t, m, K \ {i})
    BY <2>1, <2>7, <2>9, <2>10 DEF Picks
  <2>12. IsPicked(Front(s), m, K \ {i})
    BY <2>1, <2>11 DEF IsPicked, t
  <2> QED
    BY <2>4, <2>5, <2>12
<1> QED
  BY <1>5, <1>6

\* What is picked of what is picked.
LEMMA PickedThrough ==
  ASSUME NEW m \in Seq(Message), NEW s \in Seq(Message), NEW K, NEW f, Picks(f, s, m, K),
         NEW t, NEW S, IsPicked(t, s, S)
  PROVE  IsPicked(t, m, {f[q] : q \in S})
<1>1. t \in Seq(Message)
  BY DEF IsPicked
<1>2. PICK g : Picks(g, t, s, S)
  BY DEF IsPicked
<1>3. /\ Len(t) \in Nat /\ g \in Seq(Nat) /\ Len(g) = Len(t)
      /\ \A q \in 1..Len(t) : g[q] \in 1..Len(s) /\ s[g[q]] = t[q] /\ g[q] \in S
      /\ \A q, r \in 1..Len(t) : q < r => g[q] < g[r]
      /\ \A j \in S : \E q \in 1..Len(t) : g[q] = j
  BY <1>1, <1>2, PickFields
<1>4. /\ \A q \in 1..Len(s) : f[q] \in 1..Len(m) /\ m[f[q]] = s[q] /\ f[q] \in Nat
      /\ \A q, r \in 1..Len(s) : q < r => f[q] < f[r]
  BY PickFields
<1> DEFINE h == [i \in 1..Len(t) |-> f[g[i]]]
           T == {f[q] : q \in S}
<1>5. h \in Seq(Nat) /\ Len(h) = Len(t) /\ \A i \in 1..Len(t) : h[i] = f[g[i]]
  BY <1>3, <1>4
<1> HIDE DEF h
<1>6. ASSUME NEW i \in 1..Len(t)
      PROVE  h[i] \in 1..Len(m) /\ m[h[i]] = t[i] /\ h[i] \in T
  <2>1. g[i] \in 1..Len(s) /\ s[g[i]] = t[i] /\ g[i] \in S /\ h[i] = f[g[i]]
    BY <1>3, <1>5
  <2>2. f[g[i]] \in 1..Len(m) /\ m[f[g[i]]] = s[g[i]]
    BY <1>4, <2>1
  <2> QED
    BY <2>1, <2>2
<1>7. ASSUME NEW i \in 1..Len(t), NEW j \in 1..Len(t), i < j
      PROVE  h[i] < h[j]
  <2>1. g[i] \in 1..Len(s) /\ g[j] \in 1..Len(s) /\ g[i] < g[j]
    BY <1>3, <1>7
  <2>2. f[g[i]] < f[g[j]]
    BY <1>4, <2>1
  <2> QED
    BY <1>5, <2>2
<1>8. ASSUME NEW k \in T
      PROVE  \E i \in 1..Len(t) : h[i] = k
  <2>1. PICK q \in S : k = f[q]
    OBVIOUS
  <2>2. PICK i \in 1..Len(t) : g[i] = q
    BY <1>3
  <2> QED
    BY <1>5, <2>1, <2>2
<1>9. Places(h, t, m, Len(m))
  BY <1>5, <1>6, <1>7 DEF Places
<1> HIDE DEF T
<1>10. Picks(h, t, m, T)
  BY <1>6, <1>8, <1>9 DEF Picks
<1> QED
  BY <1>1, <1>10 DEF IsPicked, T

\* A list is what is picked of it at all its places, and nothing else is.
LEMMA AllIsPicked ==
  ASSUME NEW m \in Seq(Message), NEW s, IsPicked(s, m, 1..Len(m))
  PROVE  s = m
<1>1. Len(m) \in Nat
  BY LenProperties
<1> DEFINE f == [i \in 1..Len(m) |-> i]
<1>2. f \in Seq(Nat) /\ Len(f) = Len(m) /\ \A i \in 1..Len(m) : f[i] = i
  BY <1>1
<1> HIDE DEF f
<1>3. Places(f, m, m, Len(m))
  BY <1>2 DEF Places
<1>4. Picks(f, m, m, 1..Len(m))
  BY <1>2, <1>3 DEF Picks
<1>5. IsPicked(m, m, 1..Len(m))
  BY <1>4 DEF IsPicked
<1> QED
  BY <1>5, PickedIs

-----------------------------------------------------------------------------
\* What is said, and the requests that are answered, in full or with more.
PlainAt(m) == {i \in 1..Len(m) : m[i].kind \in {"user", "text"}}
AskedAt(m) == {i \in 1..Len(m) : m[i].kind = "use" /\ Answered(m, i)}
WholeAt(m) == {i \in AskedAt(m) : m[i + 1].calls = m[i].calls}

\* The places of what is said, of some requests and of the answers to some of them.
KeptAt(m, uses, answered) == PlainAt(m) \cup uses \cup {i + 1 : i \in answered}

Unspoilt(m) ==
  /\ m \in Seq(Message)
  /\ \A i \in 1..Len(m) : m[i].kind \in {"user", "text", "blank", "use", "results"}

LEMMA KeptFields ==
  ASSUME NEW m, Unspoilt(m)
  PROVE  /\ m \in Seq(Message) /\ Len(m) \in Nat
         /\ \A i \in AskedAt(m) : /\ i \in 1..Len(m) /\ m[i].kind = "use"
                                  /\ i + 1 \in 1..Len(m) /\ m[i + 1].kind = "results"
                                  /\ m[i].calls \subseteq m[i + 1].calls
         /\ \A i \in 1..Len(m) : m[i].kind = "use" /\ Answered(m, i) => i \in AskedAt(m)
         /\ \A i \in 1..Len(m) : ResultsFollow(m, i) <=>
              i + 1 \in 1..Len(m) /\ m[i + 1].kind = "results"
         /\ \A i \in 1..Len(m) : m[i].kind \in {"user", "text", "blank", "use", "results"}
<1>1. m \in Seq(Message) /\ Len(m) \in Nat /\ DOMAIN m = 1..Len(m)
  BY LenProperties DEF Unspoilt
<1> QED
  BY <1>1 DEF Unspoilt, AskedAt, Answered, ResultsFollow, IsAt

\* What the places kept can be, by their kinds.
LEMMA KeptKinds ==
  ASSUME NEW m, Unspoilt(m), NEW A \in SUBSET AskedAt(m), NEW B \in SUBSET A,
         NEW i \in 1..Len(m)
  PROVE  /\ m[i].kind \in {"user", "text"} => i \in KeptAt(m, A, B)
         /\ m[i].kind = "use" => (i \in KeptAt(m, A, B) <=> i \in A)
         /\ m[i].kind = "results" => (i \in KeptAt(m, A, B) <=> i - 1 \in B)
         /\ m[i].kind = "blank" => i \notin KeptAt(m, A, B)
<1>1. /\ Len(m) \in Nat
      /\ \A j \in AskedAt(m) : j \in 1..Len(m) /\ m[j].kind = "use" /\ m[j + 1].kind = "results"
  BY KeptFields
<1>2. \A j \in {k + 1 : k \in B} : j - 1 \in B /\ m[j].kind = "results"
  BY <1>1
<1>3. i - 1 \in B => i \in {k + 1 : k \in B}
  BY <1>1
<1>4. \A j \in A : m[j].kind = "use"
  BY <1>1
<1> QED
  BY <1>2, <1>3, <1>4 DEF KeptAt, PlainAt

\* repairTranscript() keeps in its first pass what is said and what is asked and answered.
LEMMA RepairPassPicks ==
  ASSUME NEW m, Unspoilt(m)
  PROVE  IsPicked(RepairPass(m), m, KeptAt(m, AskedAt(m), AskedAt(m)))
<1> DEFINE K == KeptAt(m, AskedAt(m), AskedAt(m))
           UpTo(k) == {j \in K : j <= k}
           g == RepairUpTo(m, Len(m))
           S == {k \in 0..Len(m) :
                   /\ IsPicked(g[k].out, m, UpTo(k))
                   /\ g[k].skip => /\ k \in 1..Len(m) /\ m[k].kind = "use"
                                   /\ k \notin AskedAt(m) /\ ResultsFollow(m, k)}
<1>1. /\ m \in Seq(Message)
      /\ Len(m) \in Nat /\ RepairPass(m) = g[Len(m)].out
      /\ g[0] = NothingSeen /\ \A i \in 0..Len(m) : g[i] \in Visits
      /\ \A i \in 1..Len(m) : g[i] = RepairVisit(g[i - 1], m, i)
  BY RepairPassVisits DEF Unspoilt
<1> HIDE DEF g
<1>2. K \subseteq 1..Len(m)
  BY KeptFields DEF KeptAt, PlainAt
<1>3. 0 \in S
  <2>1. UpTo(0) = {} /\ g[0].out = <<>> /\ ~ g[0].skip
    BY <1>1, <1>2 DEF NothingSeen, Seen
  <2> HIDE DEF UpTo
  <2>2. IsPicked(g[0].out, m, UpTo(0))
    BY <2>1, NothingIsPicked
  <2> QED
    BY <1>1, <2>1, <2>2
<1>4. ASSUME NEW k \in 0..Len(m) - 1, k \in S
      PROVE  k + 1 \in S
  <2> DEFINE i == k + 1
             now == g[i]
             seen == g[k]
  <2>1. /\ i \in 1..Len(m) /\ i - 1 = k /\ seen \in Visits /\ k \in Nat
        /\ now = RepairVisit(seen, m, i)
    BY <1>1
  <2>2. /\ IsPicked(seen.out, m, UpTo(k))
        /\ seen.skip => k \in 1..Len(m) /\ m[k].kind = "use" /\ k \notin AskedAt(m) /\ ResultsFollow(m, k)
    BY <1>4
  <2>3. /\ m[i].kind \in {"user", "text"} => i \in K
        /\ m[i].kind = "use" => (i \in K <=> i \in AskedAt(m))
        /\ m[i].kind = "results" => (i \in K <=> i - 1 \in AskedAt(m))
        /\ m[i].kind = "blank" => i \notin K
        /\ m[i].kind \in {"user", "text", "blank", "use", "results"}
    BY <2>1, KeptKinds, KeptFields
  <2> HIDE DEF now, seen, K
  <2>4. /\ i \in K => UpTo(i) = UpTo(k) \cup {i}
        /\ i \notin K => UpTo(i) = UpTo(k)
        /\ \A j \in UpTo(k) : j < i
    <3>1. /\ \A j \in K : j \in Nat /\ (j <= i <=> j <= k \/ j = i)
          /\ k < i /\ i <= i
      BY <1>1, <1>2, <2>1
    <3> HIDE DEF i
    <3>2. i \in K => UpTo(i) = UpTo(k) \cup {i}
      BY <3>1
    <3>3. i \notin K => UpTo(i) = UpTo(k)
      BY <3>1
    <3> QED
      BY <2>1, <3>1, <3>2, <3>3
  <2> HIDE DEF UpTo
  <2>5. seen.out \in Seq(Message)
    BY <2>1 DEF Visits
  <2>6. i \in K => IsPicked(Append(seen.out, m[i]), m, UpTo(i))
    <3>1. /\ m \in Seq(Message) /\ i \in 1..Len(m) /\ IsPicked(seen.out, m, UpTo(k))
          /\ \A j \in UpTo(k) : j < i
      BY <1>1, <2>1, <2>2, <2>4
    <3> HIDE DEF i
    <3>2. IsPicked(Append(seen.out, m[i]), m, UpTo(k) \cup {i})
      BY <3>1, NextIsPicked
    <3> QED
      BY <2>4, <3>2
  <2>7. i \notin K => IsPicked(seen.out, m, UpTo(i))
    BY <2>2, <2>4
  <2>8. m[i].kind = "results" => (EndsWith(seen.out, "use") <=> i \in K)
    <3>1. SUFFICES ASSUME m[i].kind = "results" PROVE EndsWith(seen.out, "use") <=> i \in K
      OBVIOUS
    <3>2. EndsWith(seen.out, "use") <=> seen.out # <<>> /\ Last(seen.out).kind = "use"
      BY <2>5, EndOf
    <3>3. ASSUME EndsWith(seen.out, "use") PROVE i \in K
      <4>1. PICK j \in UpTo(k) : Last(seen.out) = m[j] /\ \A l \in UpTo(k) : l <= j
        BY <1>1, <2>2, <3>2, <3>3, LastIsPicked
      <4>2. m[j].kind = "use" /\ j \in K /\ j <= k /\ j \in 1..Len(m)
        BY <1>2, <3>2, <3>3, <4>1 DEF UpTo
      <4>3. j \in AskedAt(m)
        BY <4>2, KeptKinds DEF K
      <4>4. j + 1 \in K
        BY <4>3 DEF K, KeptAt
      <4>5. j + 1 \notin UpTo(k)
        BY <4>1, <4>2
      <4> QED
        BY <2>1, <4>2, <4>4, <4>5 DEF UpTo
    <3>4. ASSUME i \in K PROVE EndsWith(seen.out, "use")
      <4>1. k \in AskedAt(m)
        BY <2>1, <2>3, <3>1, <3>4
      <4>2. k \in UpTo(k) /\ m[k].kind = "use"
        BY <2>1, <4>1, KeptFields DEF K, KeptAt, UpTo
      <4>3. seen.out # <<>>
        BY <1>1, <2>2, <4>2, LastIsPicked
      <4>4. PICK j \in UpTo(k) : Last(seen.out) = m[j] /\ \A l \in UpTo(k) : l <= j
        BY <1>1, <2>2, <4>3, LastIsPicked
      <4>5. j = k
        BY <1>2, <2>1, <4>2, <4>4 DEF UpTo
      <4> QED
        BY <3>2, <4>2, <4>3, <4>4, <4>5
    <3> QED
      BY <3>3, <3>4
  <2>9. CASE seen.skip \/ m[i].kind = "blank"
    <3>1. now = Dropped(seen, FALSE)
      BY <2>1, <2>9 DEF RepairVisit
    <3>2. i \notin K
      <4>1. CASE m[i].kind = "blank"
        BY <2>3, <4>1
      <4>2. CASE seen.skip
        <5>1. m[i].kind = "results" /\ i - 1 \notin AskedAt(m)
          BY <2>1, <2>2, <4>2, KeptFields
        <5> QED
          BY <2>3, <5>1
      <4> QED
        BY <2>9, <4>1, <4>2
    <3>3. now.out = seen.out /\ ~ now.skip
      BY <3>1 DEF Dropped, Seen
    <3> QED
      BY <2>1, <2>7, <3>2, <3>3 DEF now
  <2>10. CASE ~ (seen.skip \/ m[i].kind = "blank") /\ m[i].kind = "use" /\ ~ Answered(m, i)
    <3>1. now = Dropped(seen, ResultsFollow(m, i))
      BY <2>1, <2>10 DEF RepairVisit
    <3>2. i \notin AskedAt(m)
      BY <2>10 DEF AskedAt
    <3>3. i \notin K
      BY <2>3, <2>10, <3>2
    <3>4. now.out = seen.out /\ now.skip = ResultsFollow(m, i)
      BY <3>1 DEF Dropped, Seen
    <3> QED
      BY <2>1, <2>7, <2>10, <3>2, <3>3, <3>4 DEF now
  <2>11. CASE ~ (seen.skip \/ m[i].kind = "blank") /\ m[i].kind = "results"
                /\ ~ EndsWith(seen.out, "use")
    <3>1. now = Dropped(seen, FALSE)
      BY <2>1, <2>11 DEF RepairVisit
    <3>2. now.out = seen.out /\ ~ now.skip
      BY <3>1 DEF Dropped, Seen
    <3> QED
      BY <2>1, <2>7, <2>8, <2>11, <3>2 DEF now
  <2>12. CASE /\ ~ (seen.skip \/ m[i].kind = "blank")
              /\ ~ (m[i].kind = "use" /\ ~ Answered(m, i))
              /\ ~ (m[i].kind = "results" /\ ~ EndsWith(seen.out, "use"))
    <3>1. now = Kept(seen, m[i])
      BY <2>1, <2>12 DEF RepairVisit
    <3>2. i \in K
      <4>1. m[i].kind = "use" => i \in AskedAt(m)
        BY <2>1, <2>12 DEF AskedAt
      <4> QED
        BY <2>3, <2>8, <2>12, <4>1
    <3>3. now.out = Append(seen.out, m[i]) /\ ~ now.skip
      BY <3>1 DEF Kept, Seen
    <3>4. IsPicked(now.out, m, UpTo(i))
      BY <2>6, <3>2, <3>3
    <3> QED
      BY <2>1, <3>3, <3>4 DEF now
  <2> QED
    BY <2>9, <2>10, <2>11, <2>12
<1>5. Len(m) \in S
  <2> HIDE DEF S
  <2>1. \A k \in 0..Len(m) : k \in S
    BY <1>1, <1>3, <1>4, UpToInduction
  <2> QED
    BY <1>1, <2>1
<1>6. UpTo(Len(m)) = K
  BY <1>1, <1>2
<1> QED
  BY <1>1, <1>5, <1>6

\* Where answers come only right after their requests, and nothing is blank.
Tidy(m) ==
  /\ Unspoilt(m)
  /\ \A i \in 1..Len(m) : m[i].kind # "blank"
  /\ \A i \in 1..Len(m) : m[i].kind = "results" => i - 1 \in 1..Len(m) /\ m[i - 1].kind = "use"

\* A pass of sanitizeMessages() keeps there what is said and what is asked and
\* answered, and of the answers those that have nothing that was not asked for.
LEMMA SanitizePassPicks ==
  ASSUME NEW m, Tidy(m)
  PROVE  IsPicked(SanitizePass(m), m, KeptAt(m, AskedAt(m), WholeAt(m)))
<1> DEFINE K == KeptAt(m, AskedAt(m), WholeAt(m))
           UpTo(k) == {j \in K : j <= k}
           g == SanitizeUpTo(m, Len(m))
           S == {k \in 0..Len(m) :
                   /\ IsPicked(g[k].out, m, UpTo(k))
                   /\ g[k].skip <=> /\ k \in 1..Len(m) /\ m[k].kind = "use"
                                    /\ k \notin AskedAt(m) /\ ResultsFollow(m, k)}
<1>1. /\ m \in Seq(Message)
      /\ Len(m) \in Nat /\ SanitizePass(m) = g[Len(m)].out
      /\ g[0] = NothingSeen /\ \A i \in 0..Len(m) : g[i] \in Visits
      /\ \A i \in 1..Len(m) : g[i] = SanitizeVisit(g[i - 1], m, i)
  BY SanitizePassVisits DEF Tidy, Unspoilt
<1> HIDE DEF g
<1>2. Unspoilt(m) /\ WholeAt(m) \subseteq AskedAt(m) /\ K \subseteq 1..Len(m)
  BY KeptFields DEF KeptAt, PlainAt, WholeAt, Tidy
<1>3. 0 \in S
  <2>1. UpTo(0) = {} /\ g[0].out = <<>> /\ ~ g[0].skip
    BY <1>1, <1>2 DEF NothingSeen, Seen
  <2> HIDE DEF UpTo
  <2>2. IsPicked(g[0].out, m, UpTo(0))
    BY <2>1, NothingIsPicked
  <2> QED
    BY <1>1, <2>1, <2>2
<1>4. ASSUME NEW k \in 0..Len(m) - 1, k \in S
      PROVE  k + 1 \in S
  <2> DEFINE i == k + 1
             now == g[i]
             seen == g[k]
             matches == EndsWith(seen.out, "use") /\ m[i].calls \subseteq Last(seen.out).calls
  <2>1. /\ i \in 1..Len(m) /\ i - 1 = k /\ seen \in Visits /\ k \in Nat
        /\ now = SanitizeVisit(seen, m, i)
    BY <1>1
  <2>2. /\ IsPicked(seen.out, m, UpTo(k))
        /\ seen.skip <=> k \in 1..Len(m) /\ m[k].kind = "use" /\ k \notin AskedAt(m) /\ ResultsFollow(m, k)
    BY <1>4
  <2>3. /\ m[i].kind \in {"user", "text"} => i \in K
        /\ m[i].kind = "use" => (i \in K <=> i \in AskedAt(m))
        /\ m[i].kind = "results" => (i \in K <=> i - 1 \in WholeAt(m))
        /\ m[i].kind \in {"user", "text", "use", "results"}
    BY <1>2, <2>1, KeptKinds, KeptFields DEF Tidy
  <2> HIDE DEF now, seen, K
  <2>4. /\ i \in K => UpTo(i) = UpTo(k) \cup {i}
        /\ i \notin K => UpTo(i) = UpTo(k)
        /\ \A j \in UpTo(k) : j < i
    <3>1. /\ \A j \in K : j \in Nat /\ (j <= i <=> j <= k \/ j = i)
          /\ k < i /\ i <= i
      BY <1>1, <1>2, <2>1
    <3> HIDE DEF i
    <3>2. i \in K => UpTo(i) = UpTo(k) \cup {i}
      BY <3>1
    <3>3. i \notin K => UpTo(i) = UpTo(k)
      BY <3>1
    <3> QED
      BY <2>1, <3>1, <3>2, <3>3
  <2> HIDE DEF UpTo
  <2>5. seen.out \in Seq(Message)
    BY <2>1 DEF Visits
  <2>6. i \in K => IsPicked(Append(seen.out, m[i]), m, UpTo(i))
    <3>1. /\ m \in Seq(Message) /\ i \in 1..Len(m) /\ IsPicked(seen.out, m, UpTo(k))
          /\ \A j \in UpTo(k) : j < i
      BY <1>1, <2>1, <2>2, <2>4
    <3> HIDE DEF i
    <3>2. IsPicked(Append(seen.out, m[i]), m, UpTo(k) \cup {i})
      BY <3>1, NextIsPicked
    <3> QED
      BY <2>4, <3>2
  <2>7. i \notin K => IsPicked(seen.out, m, UpTo(i))
    BY <2>2, <2>4
  <2>8. m[i].kind = "results" /\ ~ seen.skip => (matches <=> i \in K)
    <3>1. SUFFICES ASSUME m[i].kind = "results", ~ seen.skip PROVE matches <=> i \in K
      OBVIOUS
    <3>2. k \in 1..Len(m) /\ m[k].kind = "use"
      BY <2>1, <3>1 DEF Tidy
    <3>3. EndsWith(seen.out, "use") <=> seen.out # <<>> /\ Last(seen.out).kind = "use"
      BY <2>5, EndOf
    <3>4. ASSUME matches PROVE i \in K
      <4>1. PICK j \in UpTo(k) : Last(seen.out) = m[j] /\ \A l \in UpTo(k) : l <= j
        BY <1>1, <2>2, <3>3, <3>4, LastIsPicked
      <4>2. m[j].kind = "use" /\ j \in K /\ j <= k /\ j \in 1..Len(m)
        BY <1>2, <3>3, <3>4, <4>1 DEF UpTo
      <4>3. ResultsFollow(m, k)
        BY <1>2, <2>1, <3>1, <3>2, KeptFields
      <4>4. k \in AskedAt(m)
        BY <2>2, <3>1, <3>2, <4>3
      <4>5. k \in UpTo(k)
        BY <2>1, <4>4 DEF K, KeptAt, UpTo
      <4>6. j = k
        BY <1>2, <2>1, <4>1, <4>2, <4>5
      <4>7. m[i].calls \subseteq m[k].calls /\ m[k].calls \subseteq m[i].calls
        BY <1>2, <2>1, <3>4, <4>1, <4>4, <4>6, KeptFields
      <4>8. k \in WholeAt(m)
        BY <4>4, <4>7 DEF WholeAt
      <4> QED
        BY <2>1, <2>3, <3>1, <4>8
    <3>5. ASSUME i \in K PROVE matches
      <4>1. k \in AskedAt(m) /\ m[i].calls = m[k].calls
        BY <2>1, <2>3, <3>1, <3>5 DEF WholeAt
      <4>2. k \in UpTo(k)
        BY <2>1, <4>1 DEF K, KeptAt, UpTo
      <4>3. seen.out # <<>>
        BY <1>1, <2>2, <4>2, LastIsPicked
      <4>4. PICK j \in UpTo(k) : Last(seen.out) = m[j] /\ \A l \in UpTo(k) : l <= j
        BY <1>1, <2>2, <4>3, LastIsPicked
      <4>5. j = k
        BY <1>2, <2>1, <4>2, <4>4 DEF UpTo
      <4> QED
        BY <3>2, <3>3, <4>1, <4>3, <4>4, <4>5
    <3> QED
      BY <3>4, <3>5
  <2> HIDE DEF matches
  <2>9. CASE seen.skip
    <3>1. now = Dropped(seen, FALSE)
      BY <2>1, <2>9 DEF SanitizeVisit
    <3>2. m[i].kind = "results" /\ i - 1 \notin WholeAt(m)
      BY <1>2, <2>1, <2>2, <2>9, KeptFields
    <3>3. now.out = seen.out /\ ~ now.skip
      BY <3>1 DEF Dropped, Seen
    <3> QED
      BY <2>1, <2>3, <2>7, <3>2, <3>3 DEF now
  <2>10. CASE ~ seen.skip /\ m[i].kind = "use" /\ ~ Answered(m, i)
    <3>1. now = Dropped(seen, ResultsFollow(m, i))
      BY <2>1, <2>10 DEF SanitizeVisit
    <3>2. i \notin AskedAt(m)
      BY <2>10 DEF AskedAt
    <3>3. i \notin K
      BY <2>3, <2>10, <3>2
    <3>4. now.out = seen.out /\ now.skip = ResultsFollow(m, i)
      BY <3>1 DEF Dropped, Seen
    <3> QED
      BY <2>1, <2>7, <2>10, <3>2, <3>3, <3>4 DEF now
  <2>11. CASE ~ seen.skip /\ m[i].kind = "results" /\ ~ matches
    <3>1. now = Dropped(seen, FALSE)
      BY <2>1, <2>11 DEF SanitizeVisit, matches
    <3>2. now.out = seen.out /\ ~ now.skip
      BY <3>1 DEF Dropped, Seen
    <3>3. IsPicked(now.out, m, UpTo(i))
      BY <2>7, <2>8, <2>11, <3>2
    <3> QED
      BY <2>1, <2>11, <3>2, <3>3 DEF now
  <2>12. CASE /\ ~ seen.skip
              /\ ~ (m[i].kind = "use" /\ ~ Answered(m, i))
              /\ ~ (m[i].kind = "results" /\ ~ matches)
    <3>1. now = Kept(seen, m[i])
      BY <2>1, <2>3, <2>12 DEF SanitizeVisit, matches
    <3>2. i \in K
      <4>1. m[i].kind = "use" => i \in AskedAt(m)
        BY <2>1, <2>12 DEF AskedAt
      <4> QED
        BY <2>3, <2>8, <2>12, <4>1
    <3>3. now.out = Append(seen.out, m[i]) /\ ~ now.skip
      BY <3>1 DEF Kept, Seen
    <3>4. IsPicked(now.out, m, UpTo(i))
      BY <2>6, <3>2, <3>3
    <3>5. m[i].kind = "use" => i \in AskedAt(m)
      BY <2>1, <2>12 DEF AskedAt
    <3> QED
      BY <2>1, <3>3, <3>4, <3>5 DEF now
  <2> QED
    BY <2>9, <2>10, <2>11, <2>12
<1>5. Len(m) \in S
  <2> HIDE DEF S
  <2>1. \A k \in 0..Len(m) : k \in S
    BY <1>1, <1>3, <1>4, UpToInduction
  <2> QED
    BY <1>1, <2>1
<1>6. UpTo(Len(m)) = K
  BY <1>1, <1>2
<1> QED
  BY <1>1, <1>5, <1>6

-----------------------------------------------------------------------------
\* What the passes come to: s has what is said of m, the requests uses, and the answers
\* to those of them that are answered.
HasKept(s, m, uses, answered) == IsPicked(s, m, KeptAt(m, uses, answered))

\* The places of such a list, by the places of the list it is picked from.
FindsKept(f, s, A, B) ==
  /\ \A q \in 1..Len(s) : s[q].kind = "use" <=> f[q] \in A
  /\ \A q \in 1..Len(s) : s[q].kind = "results" =>
       /\ f[q] - 1 \in B /\ q - 1 \in 1..Len(s) /\ f[q - 1] = f[q] - 1
  /\ \A q \in 1..Len(s) : f[q] \in B => q + 1 \in 1..Len(s) /\ f[q + 1] = f[q] + 1

LEMMA KeptPlaces ==
  ASSUME NEW m, Unspoilt(m), NEW A \in SUBSET AskedAt(m), NEW B \in SUBSET A,
         NEW s \in Seq(Message), NEW f, Picks(f, s, m, KeptAt(m, A, B))
  PROVE  FindsKept(f, s, A, B)
<1> DEFINE K == KeptAt(m, A, B)
<1>1. /\ Len(s) \in Nat /\ Len(m) \in Nat
      /\ \A q \in 1..Len(s) : f[q] \in 1..Len(m) /\ m[f[q]] = s[q]
      /\ \A q \in 1..Len(s) : f[q] \in K /\ f[q] \in Nat
      /\ \A q, r \in 1..Len(s) : (q < r <=> f[q] < f[r]) /\ (q = r <=> f[q] = f[r])
      /\ \A i \in K : i \in Nat /\ \E q \in 1..Len(s) : f[q] = i
  <2>1. m \in Seq(Message) /\ Picks(f, s, m, K)
    BY DEF Unspoilt
  <2> HIDE DEF K
  <2> QED
    BY <2>1, PickFields
<1>2. B \subseteq K /\ (\A i \in B : i + 1 \in K /\ i \in A) /\ A \subseteq K
  BY DEF KeptAt
<1>3. ASSUME NEW q \in 1..Len(s)
      PROVE  /\ s[q].kind = "use" <=> f[q] \in A
             /\ s[q].kind = "results" => f[q] - 1 \in B
  <2>1. f[q] \in 1..Len(m) /\ m[f[q]] = s[q] /\ f[q] \in KeptAt(m, A, B)
    BY <1>1
  <2>2. s[q].kind = "use" => f[q] \in A
    BY <2>1, KeptKinds
  <2>3. f[q] \in A => s[q].kind = "use"
    BY <2>1, KeptFields
  <2>4. s[q].kind = "results" => f[q] - 1 \in B
    BY <2>1, KeptKinds
  <2> QED
    BY <2>2, <2>3, <2>4
<1> HIDE DEF K
\* Nothing is between a request and its answer.
<1>4. ASSUME NEW q \in 1..Len(s), NEW r \in 1..Len(s), f[r] = f[q] + 1
      PROVE  r = q + 1
  <2>1. q < r /\ q \in Nat /\ r \in Nat
    <3>1. f[q] \in Nat /\ f[q] < f[r]
      BY <1>1, <1>4
    <3> QED
      BY <1>1, <3>1
  <2>2. ASSUME q + 1 < r PROVE FALSE
    <3>1. q + 1 \in 1..Len(s) /\ q < q + 1
      BY <1>1, <2>1, <2>2
    <3>2. f[q] < f[q + 1] /\ f[q + 1] < f[r] /\ f[q] \in Nat /\ f[q + 1] \in Nat
      BY <1>1, <2>2, <3>1
    <3> QED
      BY <1>4, <3>2
  <2> QED
    BY <2>1, <2>2
<1>5. ASSUME NEW q \in 1..Len(s), f[q] \in B
      PROVE  q + 1 \in 1..Len(s) /\ f[q + 1] = f[q] + 1
  <2>1. PICK r \in 1..Len(s) : f[r] = f[q] + 1
    BY <1>1, <1>2, <1>5
  <2> QED
    BY <1>4, <2>1
<1>6. ASSUME NEW q \in 1..Len(s), s[q].kind = "results"
      PROVE  q - 1 \in 1..Len(s) /\ f[q - 1] = f[q] - 1
  <2>1. f[q] - 1 \in B /\ f[q] \in Nat
    BY <1>1, <1>3, <1>6
  <2>2. PICK r \in 1..Len(s) : f[r] = f[q] - 1
    BY <1>1, <1>2, <2>1
  <2>3. q = r + 1 /\ r \in Nat
    BY <1>1, <1>4, <2>1, <2>2
  <2> QED
    BY <2>2, <2>3
<1> QED
  BY <1>3, <1>5, <1>6 DEF FindsKept

\* Another pass of sanitizeMessages() drops the requests without an answer, and the
\* answers with more than was asked for.
LEMMA SanitizePassKeeps ==
  ASSUME NEW m, Unspoilt(m), NEW A \in SUBSET AskedAt(m), NEW B \in SUBSET A,
         NEW s, HasKept(s, m, A, B)
  PROVE  /\ HasKept(SanitizePass(s), m, B, B \cap WholeAt(m))
         /\ A = B => RepairPass(s) = s
<1>1. s \in Seq(Message)
  BY DEF HasKept, IsPicked
<1>2. PICK f : Picks(f, s, m, KeptAt(m, A, B))
  BY DEF HasKept, IsPicked
<1>3. m \in Seq(Message)
  BY DEF Unspoilt
<1>4. /\ Len(s) \in Nat /\ Len(m) \in Nat
      /\ \A q \in 1..Len(s) : f[q] \in 1..Len(m) /\ m[f[q]] = s[q] /\ f[q] \in Nat
      /\ \A q \in 1..Len(s) : f[q] \in KeptAt(m, A, B)
      /\ \A i \in KeptAt(m, A, B) : \E q \in 1..Len(s) : f[q] = i
  BY <1>1, <1>2, <1>3, PickFields
<1>5. /\ \A q \in 1..Len(s) : s[q].kind = "use" <=> f[q] \in A
      /\ \A q \in 1..Len(s) : s[q].kind = "results" =>
           /\ f[q] - 1 \in B /\ q - 1 \in 1..Len(s) /\ f[q - 1] = f[q] - 1
      /\ \A q \in 1..Len(s) : f[q] \in B => q + 1 \in 1..Len(s) /\ f[q + 1] = f[q] + 1
  <2>1. FindsKept(f, s, A, B)
    BY <1>1, <1>2, KeptPlaces
  <2> QED
    BY <2>1 DEF FindsKept
<1>6. Tidy(s)
  <2>1. ASSUME NEW q \in 1..Len(s)
        PROVE  /\ s[q].kind \in {"user", "text", "use", "results"}
               /\ s[q].kind = "results" => q - 1 \in 1..Len(s) /\ s[q - 1].kind = "use"
    <3>1. f[q] \in 1..Len(m) /\ m[f[q]] = s[q] /\ f[q] \in KeptAt(m, A, B)
      BY <1>4
    <3>2. s[q].kind \in {"user", "text", "use", "results"}
      BY <3>1, KeptKinds, KeptFields
    <3>3. s[q].kind = "results" => q - 1 \in 1..Len(s) /\ f[q - 1] \in A
      BY <1>5
    <3> QED
      BY <1>5, <3>2, <3>3
  <2>2. Unspoilt(s)
    BY <1>1, <2>1 DEF Unspoilt
  <2> QED
    BY <2>1, <2>2 DEF Tidy
<1>7. Unspoilt(s)
  BY <1>6 DEF Tidy
<1>8. ASSUME NEW q \in 1..Len(s)
      PROVE  q \in AskedAt(s) <=> f[q] \in B
  <2>1. q \in AskedAt(s) => f[q] \in B
    <3>1. SUFFICES ASSUME q \in AskedAt(s) PROVE f[q] \in B
      OBVIOUS
    <3>2. q + 1 \in 1..Len(s) /\ s[q + 1].kind = "results"
      BY <1>7, <3>1, KeptFields
    <3>3. f[q + 1] - 1 \in B /\ f[q + 1 - 1] = f[q + 1] - 1
      BY <1>5, <3>2
    <3>4. q + 1 - 1 = q
      BY <1>4
    <3> QED
      BY <3>3, <3>4
  <2>2. f[q] \in B => q \in AskedAt(s)
    <3>1. SUFFICES ASSUME f[q] \in B PROVE q \in AskedAt(s)
      OBVIOUS
    <3>2. q + 1 \in 1..Len(s) /\ f[q + 1] = f[q] + 1
      BY <1>5, <3>1
    <3>3. s[q + 1] = m[f[q] + 1] /\ s[q] = m[f[q]] /\ f[q] \in AskedAt(m)
      BY <1>4, <3>1, <3>2
    <3>4. s[q + 1].kind = "results" /\ s[q].calls \subseteq s[q + 1].calls /\ s[q].kind = "use"
      BY <3>3, KeptFields
    <3> QED
      BY <1>1, <3>2, <3>4, LenProperties DEF AskedAt, Answered, IsAt
  <2> QED
    BY <2>1, <2>2
<1>9. ASSUME NEW q \in AskedAt(s)
      PROVE  /\ q \in 1..Len(s) /\ f[q] \in B /\ f[q + 1] = f[q] + 1
             /\ q \in WholeAt(s) <=> f[q] \in WholeAt(m)
  <2>1. q \in 1..Len(s) /\ f[q] \in B
    BY <1>8 DEF AskedAt
  <2>2. q + 1 \in 1..Len(s) /\ f[q + 1] = f[q] + 1
    BY <1>5, <2>1
  <2>3. s[q + 1] = m[f[q] + 1] /\ s[q] = m[f[q]]
    BY <1>4, <2>1, <2>2
  <2> QED
    BY <2>1, <2>2, <2>3 DEF WholeAt
<1>10. {f[q] : q \in KeptAt(s, AskedAt(s), WholeAt(s))} = KeptAt(m, B, B \cap WholeAt(m))
  <2>1. ASSUME NEW q \in KeptAt(s, AskedAt(s), WholeAt(s))
        PROVE  f[q] \in KeptAt(m, B, B \cap WholeAt(m))
    <3>1. CASE q \in PlainAt(s)
      BY <1>4, <3>1 DEF PlainAt, KeptAt
    <3>2. CASE q \in AskedAt(s)
      BY <1>9, <3>2 DEF KeptAt
    <3>3. CASE q \in {r + 1 : r \in WholeAt(s)}
      <4>1. PICK r \in WholeAt(s) : q = r + 1
        BY <3>3
      <4>2. r \in AskedAt(s)
        BY DEF WholeAt
      <4>3. f[q] = f[r] + 1 /\ f[r] \in B \cap WholeAt(m)
        BY <1>9, <4>1, <4>2
      <4> QED
        BY <4>3 DEF KeptAt
    <3> QED
      BY <3>1, <3>2, <3>3 DEF KeptAt
  <2>2. ASSUME NEW i \in KeptAt(m, B, B \cap WholeAt(m))
        PROVE  \E q \in KeptAt(s, AskedAt(s), WholeAt(s)) : f[q] = i
    <3>1. CASE i \in PlainAt(m)
      <4>1. PICK q \in 1..Len(s) : f[q] = i
        BY <1>4, <3>1 DEF KeptAt
      <4>2. q \in PlainAt(s)
        BY <1>4, <3>1, <4>1 DEF PlainAt
      <4> QED
        BY <4>1, <4>2 DEF KeptAt
    <3>2. CASE i \in B
      <4>1. PICK q \in 1..Len(s) : f[q] = i
        BY <1>4, <3>2 DEF KeptAt
      <4> QED
        BY <1>8, <3>2, <4>1 DEF KeptAt
    <3>3. CASE i \in {j + 1 : j \in B \cap WholeAt(m)}
      <4>1. PICK j \in B \cap WholeAt(m) : i = j + 1
        BY <3>3
      <4>2. PICK q \in 1..Len(s) : f[q] = j
        BY <1>4, <4>1 DEF KeptAt
      <4>3. q \in AskedAt(s)
        BY <1>8, <4>1, <4>2
      <4>4. q \in WholeAt(s) /\ f[q + 1] = i
        BY <1>9, <4>1, <4>2, <4>3
      <4> QED
        BY <4>4 DEF KeptAt
    <3> QED
      BY <3>1, <3>2, <3>3 DEF KeptAt
  <2> QED
    BY <2>1, <2>2
<1>11. HasKept(SanitizePass(s), m, B, B \cap WholeAt(m))
  <2>1. IsPicked(SanitizePass(s), s, KeptAt(s, AskedAt(s), WholeAt(s)))
    BY <1>6, SanitizePassPicks
  <2>2. IsPicked(SanitizePass(s), m, {f[q] : q \in KeptAt(s, AskedAt(s), WholeAt(s))})
    BY <1>1, <1>2, <1>3, <2>1, PickedThrough
  <2> QED
    BY <1>10, <2>2 DEF HasKept
<1>12. ASSUME A = B PROVE RepairPass(s) = s
  <2>1. IsPicked(RepairPass(s), s, KeptAt(s, AskedAt(s), AskedAt(s)))
    BY <1>7, RepairPassPicks
  <2>2. KeptAt(s, AskedAt(s), AskedAt(s)) = 1..Len(s)
    <3>1. ASSUME NEW q \in 1..Len(s)
          PROVE  q \in KeptAt(s, AskedAt(s), AskedAt(s))
      <4>1. s[q].kind \in {"user", "text", "use", "results"}
        BY <1>6, <1>7, KeptFields DEF Tidy
      <4>2. s[q].kind = "use" => q \in AskedAt(s)
        BY <1>5, <1>8, <1>12
      <4>3. s[q].kind = "results" => q - 1 \in AskedAt(s)
        BY <1>5, <1>8
      <4> QED
        BY <1>7, <4>1, <4>2, <4>3, KeptKinds
    <3>2. KeptAt(s, AskedAt(s), AskedAt(s)) \subseteq 1..Len(s)
      BY <1>7, KeptFields DEF KeptAt, PlainAt
    <3> QED
      BY <3>1, <3>2
  <2> QED
    BY <1>1, <2>1, <2>2, AllIsPicked
<1> QED
  BY <1>11, <1>12

\* A request that nothing follows but its answer.
FinalAt(m) == {i \in AskedAt(m) : \A j \in PlainAt(m) \cup AskedAt(m) : j <= i}

\* The first pass of repairTranscript() is enough.
LEMMA OneRepairIsEnough ==
  ASSUME NEW m, Unspoilt(m)
  PROVE  HasKept(Repeated(RepairPass, m), m, AskedAt(m), AskedAt(m))
<1> DEFINE p == RepairPass(m)
           g == RepairRounds(m)
           repaired == Repeated(RepairPass, m)
           S == {k \in 0..9 : g[k + 1].out = p}
<1>1. HasKept(p, m, AskedAt(m), AskedAt(m))
  BY RepairPassPicks DEF HasKept
<1>2. RepairPass(p) = p
  BY <1>1, SanitizePassKeeps
<1>3. /\ repaired = g[10].out
      /\ g[0] = FirstRound(m) /\ \A n \in 1..10 : g[n] = RepairAgain(g[n - 1])
  BY RepairRepeats DEF Unspoilt
<1>4. g[1].out = p
  BY <1>3 DEF RepairAgain, FirstRound
<1> HIDE DEF p, g
<1>5. ASSUME NEW k \in 0..9 - 1, k \in S
      PROVE  k + 1 \in S
  <2> DEFINE i == k + 1
  <2>1. i \in 0..9 /\ i + 1 \in 1..10 /\ i + 1 - 1 = i /\ g[i].out = p
    BY <1>5
  <2> HIDE DEF i
  <2>2. g[i + 1] = RepairAgain(g[i])
    BY <1>3, <2>1
  <2>3. g[i + 1].out = p
    BY <1>2, <2>1, <2>2 DEF RepairAgain
  <2> QED
    BY <2>1, <2>3 DEF i
<1>6. 0 \in S
  BY <1>4
<1>7. 9 \in S
  <2> HIDE DEF S
  <2>1. \A k \in 0..9 : k \in S
    BY <1>5, <1>6, UpToInduction
  <2> QED
    BY <2>1
<1> QED
  BY <1>1, <1>3, <1>7 DEF p

\* repairTranscript() keeps what is said and what is asked and answered, but for an
\* answer that nothing follows.
LEMMA RepairKeeps ==
  ASSUME NEW m, Unspoilt(m)
  PROVE  HasKept(repairTranscript(m), m, AskedAt(m), AskedAt(m) \ FinalAt(m))
<1> DEFINE p == Repeated(RepairPass, m)
           K == KeptAt(m, AskedAt(m), AskedAt(m))
<1>1. repairTranscript(m) = IF EndsWith(p, "results") THEN Front(p) ELSE p
  BY DEF repairTranscript
<1>2. HasKept(p, m, AskedAt(m), AskedAt(m))
  BY OneRepairIsEnough
<1> HIDE DEF p
<1>3. m \in Seq(Message) /\ p \in Seq(Message) /\ IsPicked(p, m, K)
  BY <1>2 DEF HasKept, IsPicked, Unspoilt
<1>4. EndsWith(p, "results") <=> p # <<>> /\ Last(p).kind = "results"
  BY <1>3, EndOf
<1>5. /\ Len(m) \in Nat
      /\ \A i \in AskedAt(m) : /\ i \in Nat /\ m[i].kind = "use"
                               /\ i \in 1..Len(m) /\ m[i + 1].kind = "results"
      /\ \A i \in PlainAt(m) : i \in Nat /\ m[i].kind \in {"user", "text"}
      /\ K \subseteq 1..Len(m)
  BY KeptFields DEF PlainAt, KeptAt
<1>6. \A i \in K : m[i].kind = "results" => i - 1 \in AskedAt(m)
  BY <1>5, KeptKinds
<1>7. PlainAt(m) \cup AskedAt(m) \subseteq K /\ \A i \in AskedAt(m) : i + 1 \in K
  BY DEF KeptAt
<1>8. ASSUME EndsWith(p, "results")
      PROVE  HasKept(Front(p), m, AskedAt(m), AskedAt(m) \ FinalAt(m))
  <2>1. PICK i \in K : /\ Last(p) = m[i] /\ \A j \in K : j <= i
                       /\ IsPicked(Front(p), m, K \ {i})
    BY <1>3, <1>4, <1>8, LastIsPicked
  <2>2. m[i].kind = "results" /\ i \in Nat /\ i - 1 \in AskedAt(m)
    BY <1>4, <1>5, <1>6, <1>8, <2>1
  <2>3. \A j \in PlainAt(m) \cup AskedAt(m) : j <= i - 1
    <3>1. SUFFICES ASSUME NEW j \in PlainAt(m) \cup AskedAt(m) PROVE j <= i - 1
      OBVIOUS
    <3>2. j <= i /\ j \in Nat /\ j # i
      BY <1>5, <1>7, <2>1, <2>2
    <3> QED
      BY <2>2, <3>2
  <2>4. FinalAt(m) = {i - 1}
    <3>1. i - 1 \in FinalAt(m)
      BY <2>2, <2>3 DEF FinalAt
    <3>2. ASSUME NEW j \in FinalAt(m) PROVE j = i - 1
      <4>1. i - 1 <= j /\ j <= i - 1 /\ j \in Nat
        BY <1>5, <2>2, <2>3 DEF FinalAt
      <4> QED
        BY <2>2, <4>1
    <3> QED
      BY <3>1, <3>2
  <2>5. K \ {i} = KeptAt(m, AskedAt(m), AskedAt(m) \ FinalAt(m))
    <3>1. i \notin PlainAt(m) \cup AskedAt(m)
      BY <2>2, <2>3
    <3>2. {j + 1 : j \in AskedAt(m)} \ {i} = {j + 1 : j \in AskedAt(m) \ {i - 1}}
      <4>1. ASSUME NEW j \in AskedAt(m) PROVE j + 1 = i <=> j = i - 1
        <5>1. j \in Nat /\ i \in Nat
          BY <1>5, <2>2
        <5> QED
          BY <5>1
      <4>2. \A j \in AskedAt(m) : j + 1 # i => j # i - 1
        BY <4>1
      <4>3. \A j \in AskedAt(m) \ {i - 1} : j + 1 # i
        BY <4>1
      <4>4. {j + 1 : j \in AskedAt(m)} \ {i} \subseteq {j + 1 : j \in AskedAt(m) \ {i - 1}}
        BY <4>2
      <4>5. {j + 1 : j \in AskedAt(m) \ {i - 1}} \subseteq {j + 1 : j \in AskedAt(m)} \ {i}
        BY <4>3
      <4> QED
        BY <4>4, <4>5
    <3> QED
      BY <2>4, <3>1, <3>2 DEF KeptAt
  <2> QED
    BY <2>1, <2>5 DEF HasKept
<1>9. ASSUME ~ EndsWith(p, "results")
      PROVE  FinalAt(m) = {}
  <2>1. SUFFICES ASSUME NEW l \in FinalAt(m) PROVE FALSE
    OBVIOUS
  <2>2. /\ l \in AskedAt(m) /\ l \in Nat /\ l + 1 \in K /\ m[l + 1].kind = "results"
        /\ \A j \in PlainAt(m) \cup AskedAt(m) : j <= l
    BY <1>5, <1>7 DEF FinalAt
  <2>3. p # <<>>
    BY <1>3, <2>2, LastIsPicked
  <2>4. PICK i \in K : Last(p) = m[i] /\ \A j \in K : j <= i
    BY <1>3, <2>3, LastIsPicked
  <2>5. l + 1 <= i /\ i \in Nat
    BY <1>5, <2>2, <2>4
  <2>6. i \notin PlainAt(m) \cup AskedAt(m)
    BY <2>2, <2>5
  <2>7. PICK j \in AskedAt(m) : i = j + 1
    BY <2>6 DEF KeptAt
  <2>8. j <= l /\ j \in Nat
    BY <1>5, <2>2
  <2>9. i = l + 1
    BY <2>2, <2>5, <2>7, <2>8
  <2> QED
    BY <1>4, <1>9, <2>2, <2>3, <2>4, <2>9
<1>10. ~ EndsWith(p, "results") => HasKept(p, m, AskedAt(m), AskedAt(m) \ FinalAt(m))
  <2>1. SUFFICES ASSUME ~ EndsWith(p, "results")
                 PROVE  HasKept(p, m, AskedAt(m), AskedAt(m) \ FinalAt(m))
    OBVIOUS
  <2>2. AskedAt(m) \ FinalAt(m) = AskedAt(m)
    BY <1>9, <2>1
  <2> QED
    BY <1>2, <2>2
<1> QED
  BY <1>1, <1>8, <1>10

\* Two passes of sanitizeMessages() are enough after that.
LEMMA SanitizeKeeps ==
  ASSUME NEW m, Unspoilt(m), NEW A \in SUBSET AskedAt(m), NEW B \in SUBSET A,
         NEW s, HasKept(s, m, A, B)
  PROVE  HasKept(sanitizeMessages(s), m, B \cap WholeAt(m), B \cap WholeAt(m))
<1> DEFINE W == B \cap WholeAt(m)
           once == SanitizePass(s)
           twice == SanitizePass(once)
           g == SanitizeRounds(s)
           S == {k \in 0..8 : g[k + 2].out = twice}
<1>1. B \in SUBSET AskedAt(m) /\ W \in SUBSET AskedAt(m) /\ W \in SUBSET B /\ W \in SUBSET W
      /\ W \cap WholeAt(m) = W
  OBVIOUS
<1>2. HasKept(once, m, B, W)
  BY SanitizePassKeeps
<1> HIDE DEF W, once
<1>3. HasKept(twice, m, W, W)
  <2>1. HasKept(SanitizePass(once), m, W, W \cap WholeAt(m))
    BY <1>1, <1>2, SanitizePassKeeps
  <2> QED
    BY <1>1, <2>1
<1>4. SanitizePass(twice) = twice
  <2> HIDE DEF twice
  <2>1. HasKept(SanitizePass(twice), m, W, W \cap WholeAt(m))
    BY <1>1, <1>3, SanitizePassKeeps
  <2>2. HasKept(SanitizePass(twice), m, W, W)
    BY <1>1, <2>1
  <2> QED
    BY <1>3, <2>2, PickedIs DEF HasKept, Unspoilt
<1>5. /\ sanitizeMessages(s) = g[10].out
      /\ g[0] = FirstRound(s) /\ \A n \in 0..10 : g[n] \in Rounds
      /\ \A n \in 1..10 : g[n] = SanitizeAgain(g[n - 1])
  <2>1. s \in Seq(Message)
    BY DEF HasKept, IsPicked
  <2> QED
    BY <2>1, SanitizeRepeats
<1> HIDE DEF g
<1>6. g[1] = SanitizeAgain(g[0]) /\ g[2] = SanitizeAgain(g[1])
  BY <1>5
<1>7. g[1].out = once /\ (g[1].changed \/ SanitizePass(once) = once)
  BY <1>5, <1>6 DEF SanitizeAgain, FirstRound, once
<1>8. g[2].out = twice
  BY <1>6, <1>7 DEF SanitizeAgain
<1> HIDE DEF twice
<1>9. 0 \in S
  BY <1>8
<1>10. ASSUME NEW k \in 0..8 - 1, k \in S
       PROVE  k + 1 \in S
  <2> DEFINE n == k + 3
  <2>1. k + 1 \in 0..8 /\ n \in 1..10 /\ n = k + 1 + 2 /\ n - 1 = k + 2 /\ g[k + 2].out = twice
    BY <1>10
  <2> HIDE DEF n
  <2>2. g[n] = SanitizeAgain(g[n - 1])
    BY <1>5, <2>1
  <2>3. g[n].out = twice
    BY <1>4, <2>1, <2>2 DEF SanitizeAgain
  <2> QED
    BY <2>1, <2>3
<1>11. 8 \in S
  <2> HIDE DEF S
  <2>1. \A k \in 0..8 : k \in S
    BY <1>9, <1>10, UpToInduction
  <2> QED
    BY <2>1
<1> QED
  BY <1>3, <1>5, <1>11 DEF W

\* What both repairs make of a list with nothing poisoned.
LEMMA RepairsKeep ==
  ASSUME NEW m, Unspoilt(m)
  PROVE  sanitizeMessages(repairTranscript(m)) = Repaired(m)
<1> DEFINE whole == (AskedAt(m) \ FinalAt(m)) \cap WholeAt(m)
           s == sanitizeMessages(repairTranscript(m))
<1>1. m \in Seq(Message) /\ DOMAIN m = 1..Len(m)
  BY LenProperties DEF Unspoilt
<1>2. IsPicked(s, m, KeptAt(m, whole, whole))
  <2>1. AskedAt(m) \ FinalAt(m) \in SUBSET AskedAt(m)
    OBVIOUS
  <2> QED
    BY <2>1, RepairKeeps, SanitizeKeeps DEF HasKept
<1>3. s = Picked(m, KeptAt(m, whole, whole))
  BY <1>1, <1>2, PickedIs
<1> HIDE DEF s
<1> DEFINE plain == {i \in DOMAIN m : m[i].kind \in {"user", "text"}}
           asked == {i \in DOMAIN m : m[i].kind = "use" /\ Answered(m, i)}
           final == {i \in asked : \A j \in plain \cup asked : j <= i}
           complete == {i \in asked \ final : m[i + 1].calls = m[i].calls}
           kept == plain \cup complete \cup {i + 1 : i \in complete}
<1>4. plain = PlainAt(m) /\ asked = AskedAt(m)
  BY <1>1 DEF PlainAt, AskedAt
<1>5. final = FinalAt(m)
  BY <1>4 DEF FinalAt
<1>6. complete = whole
  BY <1>4, <1>5 DEF WholeAt
<1>7. kept = KeptAt(m, whole, whole)
  BY <1>4, <1>6 DEF KeptAt
<1>8. Repaired(m) = [n \in 1..Cardinality(kept) |->
                       m[CHOOSE i \in kept : Cardinality({j \in kept : j <= i}) = n]]
  BY DEF Repaired
<1> HIDE DEF kept, whole
<1>9. Repaired(m) = Picked(m, kept)
  BY <1>8 DEF Picked
<1> QED
  BY <1>3, <1>7, <1>9 DEF s

\* For any turns, calls and lengths of the file: where nothing in it is poisoned, the
\* two repairs keep of it all that was said, and every exchange that is whole and does
\* not end it; ten passes of each are enough.
THEOREM RepairsLoseNoMore == Spec => []RepairLosesNoMore
<1>1. SessionIsSound => RepairLosesNoMore
  <2>1. SUFFICES ASSUME SessionIsSound,
                        \A i \in DOMAIN log.lines : log.lines[i].kind # "poisoned"
                 PROVE  sanitizeMessages(repairTranscript(log.lines)) = Repaired(log.lines)
    BY DEF RepairLosesNoMore
  <2> DEFINE m == log.lines
  <2>2. m \in Seq(Line) /\ m \in Seq(Message)
    BY <2>1, LineTypes DEF SessionIsSound
  <2>3. DOMAIN m = 1..Len(m) /\ \A i \in 1..Len(m) : m[i] \in Line
    BY <2>2, LenProperties
  <2>4. \A x \in Line : x.kind \in {"user", "text", "blank", "poisoned", "use", "results"}
    BY DEF Line
  <2>5. Unspoilt(m)
    BY <2>1, <2>2, <2>3, <2>4 DEF Unspoilt
  <2> QED
    BY <2>5, RepairsKeep
<1> QED
  BY <1>1, SessionStaysSound, PTL

=============================================================================
