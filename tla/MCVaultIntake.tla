--------------------------- MODULE MCVaultIntake ---------------------------
(* Instances of VaultIntake.                                               *)
EXTENDS VaultIntake

Writes(m, t, d, h, v, f, g) ==
    [x \in Sources |-> CASE x = "message_bus" -> m [] x = "task_queue" -> t
                         [] x = "debate_utxo" -> d [] x = "agent_heartbeat" -> h
                         [] x = "discussions" -> v [] x = "memory_md" -> f
                         [] x = "gitea" -> g]
MCPlans == {Writes(2, 0, 0, 0, 0, 0, 0), Writes(0, 2, 0, 0, 0, 0, 0),
            Writes(1, 1, 0, 0, 0, 0, 0), Writes(0, 0, 1, 0, 1, 0, 0),
            Writes(0, 0, 0, 1, 0, 0, 0), Writes(0, 0, 0, 0, 0, 2, 0),
            Writes(0, 0, 0, 0, 0, 0, 1)}
MCLimit == [x \in Tables |-> 1]
=============================================================================
