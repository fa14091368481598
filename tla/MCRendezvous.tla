---------------------------- MODULE MCRendezvous ----------------------------
(* Model-checking instance of Rendezvous. *)
EXTENDS Rendezvous, TLC

\* Workers differ in nothing but their name.
WorkerSymmetry == Permutations(Workers)
=============================================================================
