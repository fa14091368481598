-------------------------- MODULE MCParallelHandle --------------------------
(* Model-checking instances of ParallelHandle. *)
EXTENDS ParallelHandle

AllModes == [detailed : BOOLEAN, console : BOOLEAN, timeout : BOOLEAN]
\* Quiet calls that are given a timeout, as most of the library makes them.
QuietTimed == {m \in AllModes : m.timeout /\ ~m.console}
=============================================================================
