---------------------------- MODULE MCContainers ----------------------------
(* Model-checking instances of Containers. *)
EXTENDS Containers, TLC

\* Hosts differ in nothing but their name.
HostSymmetry == Permutations(Hosts)

\* No step reads the answers of the one before: states that differ in ret
\* alone are one.
WithoutAnswers ==
  <<reach, config, sudoKnown, containerId, host, pc, last, history, meddles, calls>>
=============================================================================
