--------------------------- MODULE MCAgentGateway ---------------------------
(* Instances of AgentGateway for TLC.                                      *)
EXTENDS AgentGateway

CONSTANTS c1, c2, cli   \* two served chats, and "cli:direct"

MCServed == {c1, c2}
MCTwoChats == {c1, c2}
MCHome == {c1}
MCHomeAndCli == {c1, cli}
MCNobody == {}
MCBoth == {"cron", "beat"}
=============================================================================
