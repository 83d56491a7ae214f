----------------------------- MODULE MCAgentKernel -----------------------------
\* Two processes, one of higher priority.
EXTENDS AgentKernel

CONSTANTS p1, p2

MCPids == {p1, p2}
MCScore == [p \in MCPids |-> IF p = p1 THEN 300 ELSE 200]
=============================================================================
