------------------------------ MODULE MCBuilds ------------------------------
(* Instances of Builds for TLC. *)
EXTENDS BuildsRefinement, TLC

CONSTANTS p1, p2, p3

ThreeProcs == {p1, p2, p3}
NoBuilds == {}
FirstBuild == {0}

\* The processes are interchangeable; used by runs without temporal properties.
ProcSymmetry == Permutations(Procs)
=============================================================================
