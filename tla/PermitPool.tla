------------------------------ MODULE PermitPool ------------------------------
(***************************************************************************)
(* What the callers of RuntimeResourceGovernor rely on: per lane, a pool   *)
(* of permits.  Permits are granted only as far as the lane's limit        *)
(* allows, and a limit may be changed while permits are out.               *)
(***************************************************************************)
EXTENDS Integers, FiniteSets

CONSTANTS Calls, Lanes, LaneOf

VARIABLES
  limit,      \* permits each lane may have out
  holders     \* calls that hold a permit of their lane

PoolVars == <<limit, holders>>

On(calls, lane) == {c \in calls : LaneOf[c] = lane}

Init ==
  /\ limit \in [Lanes -> Nat \ {0}]
  /\ holders = {}

\* The calls newly granted fit, together with those that hold on.
GrantWithin(kept, granted, lim) ==
  \A l \in Lanes :
    On(granted, l) # {} => Cardinality(On(kept \cup granted, l)) <= lim[l]

Grant ==
  \E granted \in SUBSET Calls :
    /\ GrantWithin(holders, granted, limit)
    /\ holders' = holders \cup granted
    /\ UNCHANGED limit

\* A permit comes back and may go on to others.
Return(c) ==
  \E granted \in SUBSET Calls :
    /\ c \in holders
    /\ GrantWithin(holders \ {c}, granted, limit)
    /\ holders' = (holders \ {c}) \cup granted
    /\ UNCHANGED limit

Resize ==
  \E granted \in SUBSET Calls :
    /\ limit' \in [Lanes -> Nat \ {0}]
    /\ GrantWithin(holders, granted, limit')
    /\ holders' = holders \cup granted

Next == Grant \/ (\E c \in Calls : Return(c)) \/ Resize

Spec == Init /\ [][Next]_PoolVars

=============================================================================
