---------------------------- MODULE MCTaskQueue ----------------------------
\* Two gateways of agent a and three tasks for it; one gateway of agent b, for
\* which there is nothing to do.
EXTENDS TaskQueue

CONSTANTS t1, t2, t3, w1, w2, w3, a, b

MCTasks == {t1, t2, t3}
MCWorkers == {w1, w2, w3}
MCTarget == [t \in MCTasks |-> a]
MCAgentOf == [w \in MCWorkers |-> IF w = w3 THEN b ELSE a]
\* t2 and t3 were created in the same second with the same priority.
MCRank == [t \in MCTasks |-> IF t = t1 THEN 1 ELSE 0]
=============================================================================
