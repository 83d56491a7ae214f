------------------------------- MODULE TurnLine -------------------------------
(***************************************************************************)
(* What the queue of an agent promises: its turns stand in a line and      *)
(* begin at its head.  A turn that is to have the agent for itself begins  *)
(* when no other such turn is at work, and stays at the head until it has  *)
(* stopped; a brief one only begins there, or gives up its place.          *)
(***************************************************************************)
EXTENDS Naturals, Sequences

CONSTANTS
  Agents, Turns, AgentOf,
  Brief   \* turns that do not have the agent for themselves

VARIABLES
  line,   \* the turns of each agent in the order they came
  stage   \* of each turn: "out", "waiting", "working", "stopped"

vars == <<line, stage>>

Init ==
  /\ line = [a \in Agents |-> <<>>]
  /\ stage = [r \in Turns |-> "out"]

Alone(r) == \A q \in Turns \ Brief : AgentOf[q] = AgentOf[r] => stage[q] # "working"

AtHead(r) == line[AgentOf[r]] # <<>> /\ Head(line[AgentOf[r]]) = r

Join(r) ==
  /\ stage[r] = "out"
  /\ stage' = [stage EXCEPT ![r] = "waiting"]
  /\ line' = [line EXCEPT ![AgentOf[r]] = Append(@, r)]

\* One that cannot be begun at all stops at once.
Begin(r) ==
  /\ stage[r] = "waiting" /\ AtHead(r) /\ (r \notin Brief => Alone(r))
  /\ \E s \in {"working", "stopped"} : stage' = [stage EXCEPT ![r] = s]
  /\ UNCHANGED line

Stop(r) ==
  /\ stage[r] = "working"
  /\ stage' = [stage EXCEPT ![r] = "stopped"]
  /\ UNCHANGED line

Leave(r) ==
  /\ stage[r] = "stopped" \/ (r \in Brief /\ stage[r] = "working")
  /\ AtHead(r)
  /\ line' = [line EXCEPT ![AgentOf[r]] = Tail(@)]
  /\ UNCHANGED stage

Without(s, i) == [j \in 1..(Len(s) - 1) |-> IF j < i THEN s[j] ELSE s[j + 1]]

GiveUp(r) ==
  /\ r \in Brief /\ stage[r] = "waiting"
  /\ stage' = [stage EXCEPT ![r] = "stopped"]
  /\ \E i \in DOMAIN line[AgentOf[r]] :
       /\ line[AgentOf[r]][i] = r
       /\ line' = [line EXCEPT ![AgentOf[r]] = Without(@, i)]

Next == \E r \in Turns : Join(r) \/ Begin(r) \/ Stop(r) \/ Leave(r) \/ GiveUp(r)

Spec == Init /\ [][Next]_vars

=============================================================================
