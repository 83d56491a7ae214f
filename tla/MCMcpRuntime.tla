----------------------------- MODULE MCMcpRuntime -----------------------------
EXTENDS McpRuntime

MCServers == {1, 2}
=============================================================================
