------------------------- MODULE MCVaultReflection -------------------------
(* Instances of VaultReflection.                                           *)
EXTENDS VaultReflection

CONSTANTS m1, m2, m3, m4
\* Two pairs, joined or not; a cycle.
MCEdgeLists == {<< <<m1, m2>>, <<m4, m3>> >>,
                << <<m2, m1>>, <<m3, m4>>, <<m3, m2>> >>,
                << <<m2, m1>>, <<m1, m3>>, <<m3, m2>> >>}
MCPlace == (m1 :> 2) @@ (m2 :> 3) @@ (m3 :> 1) @@ (m4 :> 4)
MCNoEdges == {<<>>}
MCOnePlace == m1 :> 1
=============================================================================
