---------------------------- MODULE MCImageBuild ----------------------------
(* Two builds on one host, which are alike.                                *)
EXTENDS ImageBuild, TLC

CONSTANTS b1, b2

MCBuild == {b1, b2}
Symmetry == Permutations(MCBuild)
=============================================================================
