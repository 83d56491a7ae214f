CONSTANTS
  A = A
  B = B
  chatA = chatA
  chanA = chanA
  meshA = meshA
  meshB = meshB
  None = None
  Agents <- MCAgents
  RunIds <- MCRunIds
  AgentOf <- MCAgentOf
  Kind <- MCKind
  MaxRounds = 2
SPECIFICATION FairSpec
PROPERTY SendsReturn
CHECK_DEADLOCK FALSE
