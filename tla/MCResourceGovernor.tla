-------------------------- MODULE MCResourceGovernor --------------------------
\* Four calls compete for the llm lane, two of them interactive and one with no
\* stated priority; one call uses the tool lane.
EXTENDS ResourceGovernor

CONSTANTS i1, i2, w1, s1, t1

MCCalls == {i1, i2, w1, s1, t1}
MCLanes == {"llm", "tool"}
MCLaneOf == [c \in MCCalls |-> IF c = t1 THEN "tool" ELSE "llm"]
MCPriorityOf ==
  [c \in MCCalls |-> CASE c \in {i1, i2} -> "interactive"
                       [] c = s1 -> "scheduler"
                       [] OTHER -> Unstated]
MCDefaultLimit == [l \in MCLanes |-> IF l = "llm" THEN 2 ELSE 1]
MCRawLimits == {0, 3, Unstated}
=============================================================================
