------------------------- MODULE MCAgentKernelService -------------------------
\* Two runs, of up to three and two steps or of two steps each.
EXTENDS AgentKernelService

CONSTANTS r1, r2

MCRunIds == {r1, r2}
MCUnequal == [r \in MCRunIds |-> IF r = r1 THEN 3 ELSE 2]
MCEqual == [r \in MCRunIds |-> 2]
MCNone == {}
MCSecond == {r2}
=============================================================================
