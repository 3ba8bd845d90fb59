---------------------------- MODULE MCAgentSync ----------------------------
\* The two trust targets of the OT network, the daemon and a command.
EXTENDS AgentSync, TLC

CONSTANTS server, client, daemon, command

MCTargets == {server, client}
MCOrder   == <<server, client>>
MCProcs   == {daemon, command}
============================================================================
