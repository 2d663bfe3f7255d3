----------------------------- MODULE MCDeployment -----------------------------
(***************************************************************************)
(* Instances of Deployment for TLC.                                        *)
(***************************************************************************)
EXTENDS Deployment, TLC

Symmetry ==
  Permutations(Locations) \cup Permutations(Posts) \cup Permutations(Guards)
    \cup Permutations(Rows) \cup Permutations(Callers) \cup Permutations(Names)
    \cup Permutations(Categories)
==============================================================================
