-------------------------- MODULE MCCheckpointStore --------------------------
\* One process suffices: operations on different processes share nothing.
EXTENDS CheckpointStore

CONSTANTS p1

MCPids == {p1}
=============================================================================
