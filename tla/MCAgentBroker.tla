---------------------------- MODULE MCAgentBroker ----------------------------
(* One node: its connections, one or two coordinators that send commands.   *)
EXTENDS AgentBroker
=============================================================================
