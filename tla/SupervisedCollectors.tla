------------------------ MODULE SupervisedCollectors ------------------------
(***************************************************************************)
(* What the supervision of the collectors promises, whatever crashes, is      *)
(* reloaded or restarts by itself: a collector that runs has one task, which  *)
(* works with the ssh manager that was there when it started; and the manager *)
(* is taken away or replaced only while no collector that uses it runs.      *)
(* CollectorTasks implements this module.                                    *)
(***************************************************************************)

CONSTANTS
  Names,     \* the collectors
  SshNames,  \* those that use the manager
  Managers,  \* the managers there may be
  NoManager

VARIABLES
  manager,   \* the ssh manager of now
  tasks      \* the manager of each collector's task; empty while it does not run

vars == <<manager, tasks>>

Init ==
  /\ manager = NoManager
  /\ tasks = [n \in Names |-> {}]

\* Collectors of ns that do not run are started; one that uses ssh needs a manager.
Start(ns, m) ==
  /\ \A n \in ns : tasks[n] = {}
  /\ m = NoManager => ns \cap SshNames = {}
  /\ tasks' = [n \in Names |-> IF n \in ns THEN {m} ELSE tasks[n]]

\* The application starts, a reload ends, a crashed collector is restarted.
Run(ns) ==
  /\ Start(ns, manager)
  /\ UNCHANGED manager

\* The manager is replaced, or taken away for a while, and collectors are started
\* in the same breath where nothing has to be waited for.
Renew(m, ns) ==
  /\ \A n \in SshNames : tasks[n] = {}
  /\ manager' = m
  /\ Start(ns, m)

\* A task crashes, returns or takes its cancellation.
Stop(n) ==
  /\ tasks' = [tasks EXCEPT ![n] = {}]
  /\ UNCHANGED manager

Next ==
  \/ \E ns \in SUBSET Names :
       Run(ns) \/ \E m \in Managers : Renew(m, ns)
  \/ \E n \in Names : Stop(n)

Spec == Init /\ [][Next]_vars
=============================================================================
