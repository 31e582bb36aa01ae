--------------------------- MODULE MCDiscussions ---------------------------
\* The librarian and three other agents, each one process: a discussion may be
\* proposed before one of them has been heard.  Two discussions.
EXTENDS Discussions

CONSTANTS lib, x, y, z, wl, wx, wy, wz, d1, d2

MCAgents == {lib, x, y, z}
MCWorkers == {wl, wx, wy, wz}
MCAgentOf ==
    [w \in MCWorkers |-> CASE w = wl -> lib [] w = wx -> x [] w = wy -> y [] w = wz -> z]
MCTopics == {d1, d2}
MCAge == [d \in MCTopics |-> IF d = d1 THEN 1 ELSE 2]
=============================================================================
