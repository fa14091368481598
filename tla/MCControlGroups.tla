-------------------------- MODULE MCControlGroups --------------------------
(* Model-checking instance of ControlGroups: nodes, names and jobs are         *)
(* interchangeable.                                                         *)
EXTENDS ControlGroups, TLC

Symmetry == Permutations(Nodes) \cup Permutations(Names) \cup Permutations(Jobs)
=============================================================================
