---------------------------- MODULE SessionRepair ----------------------------
(***************************************************************************)
(* What a turn makes of the messages in its session file before it sends   *)
(* them to a model: repairTranscript() (core/session/repair.ts),           *)
(* sanitizeMessages() (agent/runner.ts) and, when they are too long, the   *)
(* split of splitForCompaction() (agent/compactor/structured.ts).          *)
(*                                                                         *)
(* A message is what these functions tell apart: text of a user or of the  *)
(* assistant, nothing but blanks, a failure that poisons the turn before   *)
(* it, an assistant's request for a set of tool calls, or a user message   *)
(* with the results of some.  Calls without an id or a name are left out,  *)
(* and so are results in one message with text: no turn writes them.       *)
(***************************************************************************)
EXTENDS Naturals, FiniteSets, SequencesExt

Said(kind) == [kind |-> kind, calls |-> {}]
Use(calls) == [kind |-> "use", calls |-> calls]
Results(calls) == [kind |-> "results", calls |-> calls]

IsAt(m, i, kind) == i \in DOMAIN m /\ m[i].kind = kind
EndsWith(m, kind) == IsAt(m, Len(m), kind)

\* The next message has results for every call of message i.
Answered(m, i) == IsAt(m, i + 1, "results") /\ m[i].calls \subseteq m[i + 1].calls

\* What follows a request that is passed over goes with it if it has results.
AnythingFollows(m, i) == i + 1 \in DOMAIN m
ResultsFollow(m, i) == IsAt(m, i + 1, "results")

-----------------------------------------------------------------------------
\* What a pass has made of the messages it has seen: those it has kept, and whether
\* it passes over the next.
Seen(out, skip) == [out |-> out, skip |-> skip]
NothingSeen == Seen(<<>>, FALSE)
Kept(seen, message) == Seen(Append(seen.out, message), FALSE)
Dropped(seen, skip) == Seen(seen.out, skip)

\* Ten passes at most, and none after one that changed nothing.
Repeated(Pass(_), m) ==
  LET Again(before) ==
        IF before.changed /\ Pass(before.out) # before.out
        THEN [out |-> Pass(before.out), changed |-> TRUE]
        ELSE [out |-> before.out, changed |-> FALSE]
      after[n \in 0..10] ==
        IF n = 0 THEN [out |-> m, changed |-> TRUE] ELSE Again(after[n - 1])
  IN  after[10].out

\* repairTranscript() comes to message i.  Passed over are blanks, requests that are not
\* answered by the next message, with that message if it has other results, and
\* results that do not come after a request.
RepairVisit(seen, m, i) ==
  IF seen.skip \/ m[i].kind = "blank" THEN Dropped(seen, FALSE) ELSE
  CASE m[i].kind = "use" /\ ~Answered(m, i) -> Dropped(seen, ResultsFollow(m, i))
    [] m[i].kind = "results" /\ ~EndsWith(seen.out, "use") -> Dropped(seen, FALSE)
    [] OTHER -> Kept(seen, m[i])

RepairPass(m) ==
  LET upTo[i \in 0..Len(m)] ==
        IF i = 0 THEN NothingSeen ELSE RepairVisit(upTo[i - 1], m, i)
  IN  upTo[Len(m)].out

\* Results at the very end go, though the request they answer stays.
repairTranscript(m) ==
  LET repaired == Repeated(RepairPass, m)
  IN  IF EndsWith(repaired, "results") THEN Front(repaired) ELSE repaired

\* What a poisoned answer takes with it: the exchange or the question before it.
Unpoisoned(out) ==
  IF EndsWith(out, "results")
  THEN IF EndsWith(Front(out), "use") THEN Front(Front(out)) ELSE Front(out)
  ELSE IF EndsWith(out, "user") THEN Front(out) ELSE out

\* sanitizeMessages() comes to message i.  It compares the calls both ways.
SanitizeVisit(seen, m, i) ==
  LET matches == EndsWith(seen.out, "use") /\ m[i].calls \subseteq Last(seen.out).calls
  IN  IF seen.skip THEN Dropped(seen, FALSE) ELSE
      CASE m[i].kind = "poisoned" -> Seen(Unpoisoned(seen.out), FALSE)
        [] m[i].kind = "use" /\ ~Answered(m, i) -> Dropped(seen, ResultsFollow(m, i))
        [] m[i].kind = "results" /\ ~matches -> Dropped(seen, FALSE)
        [] OTHER -> Kept(seen, m[i])

SanitizePass(m) ==
  LET upTo[i \in 0..Len(m)] ==
        IF i = 0 THEN NothingSeen ELSE SanitizeVisit(upTo[i - 1], m, i)
  IN  upTo[Len(m)].out

sanitizeMessages(m) == Repeated(SanitizePass, m)

-----------------------------------------------------------------------------
SplitAtCount(m, keep) == IF Len(m) <= keep THEN 0 ELSE Len(m) - keep

\* splitForCompaction(): how many messages the summary replaces.  The split moves
\* back while the first message kept would be a result.
SplitAt(m, keep) ==
  IF Len(m) <= keep THEN 0
  ELSE Max({s \in 0..(Len(m) - keep) : s = 0 \/ m[s + 1].kind # "results"})

\* A message of the user with the summary stands for what was before the split.
runCompaction(m, keep) == <<Said("summary")>> \o SubSeq(m, SplitAt(m, keep) + 1, Len(m))

-----------------------------------------------------------------------------
\* What a provider accepts: every request is followed by its results, and nothing
\* else is.
Accepted(m) ==
  \A i \in DOMAIN m :
    /\ m[i].kind = "use" => IsAt(m, i + 1, "results") /\ m[i + 1].calls = m[i].calls
    /\ m[i].kind = "results" => IsAt(m, i - 1, "use") /\ m[i - 1].calls = m[i].calls

\* What the two repairs amount to where nothing is poisoned: what was said and
\* what was asked and answered is kept, but for an answer that nothing follows.
Repaired(m) ==
  LET plain == {i \in DOMAIN m : m[i].kind \in {"user", "text"}}
      asked == {i \in DOMAIN m : m[i].kind = "use" /\ Answered(m, i)}
      final == {i \in asked : \A j \in plain \cup asked : j <= i}
      whole == {i \in asked \ final : m[i + 1].calls = m[i].calls}
      kept == plain \cup whole \cup {i + 1 : i \in whole}
  IN  [n \in 1..Cardinality(kept) |->
         m[CHOOSE i \in kept : Cardinality({j \in kept : j <= i}) = n]]

=============================================================================
