---------------------------- MODULE MCAgentMail ----------------------------
\* Two agents, each one process; a broadcast, then two messages for dario.
EXTENDS AgentMail

CONSTANTS dario, smith, wd, ws, m1, m2, m3

MCAgents == {dario, smith}
MCWorkers == {wd, ws}
MCAgentOf == [w \in MCWorkers |-> IF w = wd THEN dario ELSE smith]
MCMessages == {m1, m2, m3}
MCTo == [m \in MCMessages |-> IF m = m1 THEN MCAgents ELSE {dario}]
MCAge == [m \in MCMessages |-> IF m = m1 THEN 1 ELSE IF m = m2 THEN 2 ELSE 3]
MCInside == {<<x, x>> : x \in MCAgents}
=============================================================================
