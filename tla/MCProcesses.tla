---------------------------- MODULE MCProcesses ----------------------------
EXTENDS Processes

MCPids == 1..4
=============================================================================
