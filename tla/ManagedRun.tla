----------------------------- MODULE ManagedRun -----------------------------
(***************************************************************************)
(* What a scheduler-managed run promises, whatever files of earlier runs it   *)
(* finds, who is killed and what is lost: tests start only when every worker  *)
(* has joined, a worker stays until this run was marked done or has gone      *)
(* silent, and the next run of the job begins as the first one did.           *)
(*                                                                         *)
(* Silence is a heartbeat that has ended, or rank 0 that has, with nothing to *)
(* tell the workers.  A worker may fail or be killed at any time; the tests   *)
(* go on without it.  Rendezvous implements this module.                     *)
(***************************************************************************)
EXTENDS Naturals

CONSTANT
  Workers    \* the ranks other than 0

VARIABLES
  run,       \* number of the run in its scheduler job
  rank0,     \* "starting", "testing", "ending" or "over"
  joined,    \* workers whose agents rank 0 knows
  marked,    \* rank 0 has told the workers that the run is done
  silent,    \* the workers may hear nothing more of rank 0
  worker     \* each worker: still on, or how it ended

vars == <<run, rank0, joined, marked, silent, worker>>

Fresh ==
  /\ rank0 = "starting"
  /\ joined = {} /\ marked = FALSE /\ silent = FALSE
  /\ worker = [w \in Workers |-> "on"]

Init == run = 1 /\ Fresh

\* An earlier run leaves nothing to the next one.
NewRun == run' = run + 1 /\ Fresh'

Join(w) ==
  /\ worker[w] = "on" /\ rank0 # "over"
  /\ joined' = joined \cup {w}
  /\ UNCHANGED <<run, rank0, marked, silent, worker>>

Begin ==
  /\ rank0 = "starting" /\ joined = Workers
  /\ rank0' = "testing"
  /\ UNCHANGED <<run, joined, marked, silent, worker>>

\* The tests end, or somebody has not joined in time.
Wind ==
  /\ rank0 \in {"starting", "testing"}
  /\ rank0' = "ending"
  /\ UNCHANGED <<run, joined, marked, silent, worker>>

Mark ==
  /\ rank0 = "ending"
  /\ marked' = TRUE
  /\ UNCHANGED <<run, rank0, joined, silent, worker>>

Exit ==
  /\ rank0 = "ending" /\ marked
  /\ rank0' = "over"
  /\ UNCHANGED <<run, joined, marked, silent, worker>>

\* A start that fails is marked, or too early for anybody to watch, or goes unheard.
Fail ==
  /\ rank0 = "starting"
  /\ rank0' = "over"
  /\ \/ marked' = TRUE /\ UNCHANGED silent
     \/ joined = {} /\ UNCHANGED <<marked, silent>>
     \/ silent' = TRUE /\ UNCHANGED marked
  /\ UNCHANGED <<run, joined, worker>>

Crash ==
  /\ rank0 # "over"
  /\ rank0' = "over" /\ silent' = TRUE
  /\ UNCHANGED <<run, joined, marked, worker>>

Silence ==
  /\ rank0 # "over"
  /\ silent' = TRUE
  /\ UNCHANGED <<run, rank0, joined, marked, worker>>

End(w, how) ==
  /\ worker[w] = "on"
  /\ worker' = [worker EXCEPT ![w] = how]
  /\ UNCHANGED <<run, rank0, joined, marked, silent>>

Done(w) == w \in joined /\ marked /\ End(w, "ok")
GiveUp(w) == w \in joined /\ silent /\ End(w, "gaveUp")

Next ==
  \/ NewRun \/ Begin \/ Wind \/ Mark \/ Exit \/ Fail \/ Crash \/ Silence
  \/ \E w \in Workers : Join(w) \/ Done(w) \/ GiveUp(w) \/ End(w, "down")

Spec == Init /\ [][Next]_vars
=============================================================================
