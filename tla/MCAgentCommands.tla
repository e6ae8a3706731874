-------------------------- MODULE MCAgentCommands --------------------------
EXTENDS AgentCommands

Cmd(type, epoch, expects) == [type |-> type, epoch |-> epoch, expects |-> expects]

\* One Prepare and one Start of the first Controller epoch, and the
\* reconciliation Cancels a restarted Controller can send.
MCCommands == {Cmd("prepare", 1, "reserved"), Cmd("start", 1, "preparing"),
               Cmd("cancel", 2, "preparing"), Cmd("cancel", 2, "running")}
============================================================================
