----------------------------- MODULE MCSshPool -----------------------------
(* Model-checking instance of SshPool. *)
EXTENDS SshPool, TLC

\* Hosts differ in nothing but their name.
HostSymmetry == Permutations(Hosts)
=============================================================================
