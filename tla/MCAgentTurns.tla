----------------------------- MODULE MCAgentTurns -----------------------------
\* Agent A has a chat turn and one from a channel; A and B may each be delegated one.
EXTENDS AgentTurns

CONSTANTS A, B, chatA, chanA, meshA, meshB

MCAgents == {A, B}
MCRunIds == {chatA, chanA, meshA, meshB}
MCAgentOf == [r \in MCRunIds |-> IF r = meshB THEN B ELSE A]
MCKind ==
  [r \in MCRunIds |-> CASE r = chatA -> "chat"
                        [] r = chanA -> "channel"
                        [] OTHER -> "mesh"]
=============================================================================
