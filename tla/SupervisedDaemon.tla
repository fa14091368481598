-------------------------- MODULE SupervisedDaemon --------------------------
(***************************************************************************)
(* What the supervision of the Go daemon promises, whatever is reloaded,     *)
(* restarted or crashes: the backend runs one daemon at a time.              *)
(*                                                                         *)
(* A backend that replaces its process image forgets the daemon it had, which *)
(* lives on beside the next one; every image for itself starts a daemon only  *)
(* when it has none, and none after its application has ended.  A daemon ends *)
(* at any time, and ends at the latest with the application of the image that *)
(* started it.  DaemonLifecycle implements this module.                      *)
(***************************************************************************)
EXTENDS Naturals

CONSTANTS
  Pids,      \* daemon processes
  Images     \* process images of the backend, numbered from zero

VARIABLES
  image,     \* the one that runs
  over,      \* its application has ended
  daemons    \* the daemons alive that each image has started

vars == <<image, over, daemons>>

Init ==
  /\ image = 0 /\ over = FALSE
  /\ daemons = [i \in Images |-> {}]

Start(p) ==
  /\ ~over
  /\ daemons[image] = {} /\ \A i \in Images : p \notin daemons[i]
  /\ daemons' = [daemons EXCEPT ![image] = {p}]
  /\ UNCHANGED <<image, over>>

End(p) ==
  /\ daemons' = [i \in Images |-> daemons[i] \ {p}]
  /\ UNCHANGED <<image, over>>

\* The application shuts down and takes along what it was still starting.
Close ==
  /\ ~over /\ over' = TRUE
  /\ daemons' = [daemons EXCEPT ![image] = {}]
  /\ UNCHANGED image

\* The container goes down, and every process with it.
GoDown ==
  /\ ~over /\ over' = TRUE
  /\ daemons' = [i \in Images |-> {}]
  /\ UNCHANGED image

Replace ==
  /\ ~over
  /\ image' = image + 1
  /\ UNCHANGED <<over, daemons>>

Next == (\E p \in Pids : Start(p) \/ End(p)) \/ Close \/ GoDown \/ Replace

Spec == Init /\ [][Next]_vars
=============================================================================
