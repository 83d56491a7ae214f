--------------------------- MODULE MCWorkflowKernel ---------------------------
\* Two runs, of up to two steps and of one; the second one is waited for.
EXTENDS WorkflowKernel

CONSTANTS r1, r2

MCRunIds == {r1, r2}
MCLimit == [r \in MCRunIds |-> IF r = r1 THEN 2 ELSE 1]
MCAwaitedIds == {r2}
=============================================================================
