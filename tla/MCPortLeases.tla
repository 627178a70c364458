---------------------------- MODULE MCPortLeases ----------------------------
(* Two projects whose port ranges overlap without being equal; a name of its *)
(* own for the environment of the second, two for those of the first.        *)
EXTENDS PortLeases, TLC

CONSTANTS e1, e2, e3, j1, j2, n1, n2, n3

MCEnvs     == {e1, e2, e3}
MCProjects == {j1, j2}
MCPorts    == 1 .. 5
MCNames    == {n1, n2, n3}
MCProject  == e1 :> j1 @@ e2 :> j1 @@ e3 :> j2
MCSlots    == j1 :> {{1, 2}, {3, 4}} @@ j2 :> {{2, 5}}

\* Names are compared within a project only, so only those of e1 and e2 matter.
MCInit == Init /\ {name[e1], name[e2]} \subseteq {n1, n2} /\ name[e3] = n3
MCSpec == MCInit /\ [][Next]_vars

\* e1 and e2 have one project, and n1 and n2 are names of its environments only.
Symmetry == {f @@ g : f \in Permutations({e1, e2}), g \in Permutations({n1, n2})}
=============================================================================
