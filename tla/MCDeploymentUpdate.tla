------------------------- MODULE MCDeploymentUpdate -------------------------
(* Small instances of DeploymentUpdate for TLC. *)
EXTENDS DeploymentUpdate, TLC

L(i, r, n) == [identity |-> i, profile |-> r, preset |-> 1, inputs |-> n]

\* Three releases: plans that skip one and plans from a common source.
MCReleases == {L(1, 1, 1), L(1, 2, 1), L(1, 3, 1)}
\* One release with either operator inputs, so plans lead both ways, and a
\* release that serves another world.
MCIdentities == {L(1, 1, 1), L(1, 1, 2), L(2, 2, 1)}
MCInitialLock == L(1, 1, 1)

MCSymmetry == Permutations(Proc)
=============================================================================
