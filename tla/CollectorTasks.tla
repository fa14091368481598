--------------------------- MODULE CollectorTasks ---------------------------
(***************************************************************************)
(* The collector tasks of the monitor backend: _start_collector_task, which  *)
(* restarts a task that crashed, the part of the reload that cancels and     *)
(* restarts collectors, the start and the shutdown of the application.       *)
(*                                                                         *)
(* One event loop runs everything: an action is the code between two awaits. *)
(* A done callback and what it schedules run in later turns of the loop.     *)
(***************************************************************************)
EXTENDS Naturals

CONSTANTS
  Names,        \* REGISTERED_COLLECTORS
  SshNames,     \* restarted when the ssh section changed
  RcclNames,    \* restarted when the rccl section changed
  MaxCrashes,   \* bound: exceptions that leave a collector's run()
  MaxReloads    \* bound: reloads that concern collectors

ASSUME CollectorAssumption ==
  /\ SshNames \subseteq Names /\ RcclNames \subseteq Names
  /\ MaxCrashes \in Nat /\ MaxReloads \in Nat

VARIABLES
  collecting,   \* app_state.is_collecting
  mgr,          \* app_state.ssh_manager (0: None)
  reg,          \* app_state.collector_tasks[n], and the manager it runs with
  strays,       \* live tasks of n that collector_tasks has forgotten
  callback,     \* what a crash of n has queued in the event loop
  sleeping,     \* restart tasks of n in their backoff
  pc,           \* where the reload, the start or the shutdown is
  rl,           \* the reload's locals
  crashes, reloads

vars == <<collecting, mgr, reg, strays, callback, sleeping, pc, rl, crashes, reloads>>
loop == <<callback, sleeping>>
bounds == <<crashes, reloads>>

-----------------------------------------------------------------------------
(* Types *)

Managers == 0..(MaxReloads + 1)
NotStarted == [st |-> "none", mgr |-> 0]
Task == [st : {"none", "live", "cancelling", "cancelled", "failed", "returned"},
         mgr : Managers]
Locals == [todo : SUBSET Names, at : SUBSET Names, names : SUBSET Names, ssh : BOOLEAN]
RlNone == [todo |-> {}, at |-> {}, names |-> {}, ssh |-> FALSE]

TypeOK ==
  /\ collecting \in BOOLEAN /\ mgr \in Managers
  /\ reg \in [Names -> Task] /\ strays \in [Names -> Nat]
  /\ callback \in [Names -> {"none", "done", "schedule"}]
  /\ sleeping \in [Names -> Nat]
  /\ pc \in {"down", "idle", "cancel", "between", "await", "gone"}
  /\ rl \in Locals
  /\ crashes \in 0..MaxCrashes /\ reloads \in 0..MaxReloads

-----------------------------------------------------------------------------
(* Tasks *)

Live(n) == reg[n].st \in {"live", "cancelling"}
To(n, s) == [st |-> s, mgr |-> reg[n].mgr]

\* _start_collector_task for each of ns: the new task replaces the old in the
\* registry, whatever that is doing.
Start(ns, m) ==
  /\ reg' = [n \in Names |-> IF n \in ns THEN [st |-> "live", mgr |-> m] ELSE reg[n]]
  /\ strays' = [n \in Names |-> IF n \in ns /\ Live(n) THEN strays[n] + 1 ELSE strays[n]]

\* An exception leaves run(): the done callback is queued.
Crash(n) ==
  /\ Live(n) /\ crashes < MaxCrashes
  /\ crashes' = crashes + 1
  /\ reg' = [reg EXCEPT ![n] = To(n, "failed")]
  /\ callback' = [callback EXCEPT ![n] = "done"]
  /\ UNCHANGED <<collecting, mgr, strays, sleeping, pc, rl, reloads>>

\* The task takes its CancelledError; nothing follows.
Cancelled(n) ==
  /\ reg[n].st = "cancelling"
  /\ reg' = [reg EXCEPT ![n] = To(n, "cancelled")]
  /\ UNCHANGED <<collecting, mgr, strays, loop, pc, rl, bounds>>

\* A task that was started after the shutdown began has nothing to do.
Returns(n) ==
  /\ reg[n].st = "live" /\ ~collecting
  /\ reg' = [reg EXCEPT ![n] = To(n, "returned")]
  /\ UNCHANGED <<collecting, mgr, strays, loop, pc, rl, bounds>>

\* _on_done
OnDone(n) ==
  /\ callback[n] = "done"
  /\ callback' = [callback EXCEPT ![n] = IF collecting THEN "schedule" ELSE "none"]
  /\ UNCHANGED <<collecting, mgr, reg, strays, sleeping, pc, rl, bounds>>

\* The task the reload awaits is over, or was before it came to it: awaiting a task
\* that is over does not yield.
Awaited(n) ==
  pc = "cancel" /\ ~Live(n) /\ (rl.at = {n} \/ (rl.at = {} /\ n \in rl.todo))

\* _schedule_restart; a reload that awaits the same task is woken before.
Schedule(n) ==
  /\ callback[n] = "schedule" /\ ~(rl.at = {n})
  /\ callback' = [callback EXCEPT ![n] = "none"]
  /\ sleeping' = [sleeping EXCEPT ![n] = @ + 1]
  /\ UNCHANGED <<collecting, mgr, reg, strays, pc, rl, bounds>>

\* Variant: without a manager there is nothing to restart.
Restart_NeedsManager(n) ==
  /\ sleeping[n] > 0
  /\ sleeping' = [sleeping EXCEPT ![n] = @ - 1]
  /\ IF mgr # 0 THEN Start({n}, mgr) ELSE UNCHANGED <<reg, strays>>
  /\ UNCHANGED <<collecting, mgr, callback, pc, rl, bounds>>

\* _restart after its backoff: it looks at nothing and takes the manager of now.
Restart(n) ==
  /\ sleeping[n] > 0
  /\ sleeping' = [sleeping EXCEPT ![n] = @ - 1]
  /\ Start({n}, mgr)
  /\ UNCHANGED <<collecting, mgr, callback, pc, rl, bounds>>

-----------------------------------------------------------------------------
(* The application *)

\* lifespan: with nodes there is a manager, and every collector starts.
Startup(nodes) ==
  /\ pc = "down"
  /\ pc' = "idle"
  /\ IF nodes
     THEN mgr' = 1 /\ collecting' = TRUE /\ Start(Names, 1)
     ELSE UNCHANGED <<mgr, collecting, reg, strays>>
  /\ UNCHANGED <<loop, rl, bounds>>

\* is_collecting goes down and every registered task is cancelled, a restart that
\* sleeps among them.
Shutdown ==
  /\ pc = "idle"
  /\ pc' = "gone"
  /\ collecting' = FALSE
  /\ reg' = [n \in Names |-> IF Live(n) THEN To(n, "cancelling") ELSE reg[n]]
  /\ sleeping' = [n \in Names |-> IF sleeping[n] > 0 THEN sleeping[n] - 1 ELSE 0]
  /\ UNCHANGED <<mgr, strays, callback, rl, bounds>>

\* Variant: a change of the ssh section forgets the collectors of RCCL.
ReloadBegin_Forgets(ssh, rccl, polling) ==
  /\ pc = "idle" /\ reloads < MaxReloads /\ (ssh \/ rccl \/ polling)
  /\ reloads' = reloads + 1
  /\ LET names == IF polling THEN Names
                  ELSE (IF ssh THEN SshNames \ RcclNames ELSE {})
                       \cup (IF rccl THEN RcclNames ELSE {}) IN
     rl' = [todo |-> names, at |-> {}, names |-> names, ssh |-> ssh]
  /\ pc' = "cancel"
  /\ UNCHANGED <<collecting, mgr, reg, strays, loop, crashes>>

\* Which collectors a change concerns.
ReloadBegin(ssh, rccl, polling) ==
  /\ pc = "idle" /\ reloads < MaxReloads /\ (ssh \/ rccl \/ polling)
  /\ reloads' = reloads + 1
  /\ LET names == IF polling THEN Names
                  ELSE (IF ssh THEN SshNames ELSE {})
                       \cup (IF rccl THEN RcclNames ELSE {}) IN
     rl' = [todo |-> names, at |-> {}, names |-> names, ssh |-> ssh]
  /\ pc' = "cancel"
  /\ UNCHANGED <<collecting, mgr, reg, strays, loop, crashes>>

Doing(todo, at) == [todo |-> todo, at |-> at, names |-> rl.names, ssh |-> rl.ssh]

\* The next collector of the set, in any order, still runs: cancel and await.
ReloadCancel(n) ==
  /\ pc = "cancel" /\ rl.at = {} /\ n \in rl.todo /\ Live(n)
  /\ rl' = Doing(rl.todo, {n})
  /\ reg' = [reg EXCEPT ![n] = To(n, "cancelling")]
  /\ UNCHANGED <<collecting, mgr, strays, loop, pc, bounds>>

\* Awaiting a task that failed raises its exception: the reload is over, before it
\* has looked at the restart that is pending or restarted what it has cancelled.
ReloadRaises(n) ==
  /\ Awaited(n) /\ reg[n].st = "failed"
  /\ pc' = "idle" /\ rl' = RlNone
  /\ UNCHANGED <<collecting, mgr, reg, strays, loop, bounds>>

\* Variant: whatever the task died of is swallowed.
ReloadCancelled_Swallows(n) ==
  /\ Awaited(n)
  /\ sleeping' = [sleeping EXCEPT ![n] = IF @ > 0 THEN @ - 1 ELSE 0]
  /\ rl' = Doing(rl.todo \ {n}, {})
  /\ UNCHANGED <<collecting, mgr, reg, strays, callback, pc, bounds>>

\* Variant: a restart is taken off whether or not there is one.
ReloadCancelled_Always(n) ==
  /\ Awaited(n) /\ reg[n].st # "failed"
  /\ sleeping' = [sleeping EXCEPT ![n] = @ - 1]
  /\ rl' = Doing(rl.todo \ {n}, {})
  /\ UNCHANGED <<collecting, mgr, reg, strays, callback, pc, bounds>>

\* Otherwise its restart task, if it has one, is cancelled as well.
ReloadCancelled(n) ==
  /\ Awaited(n) /\ reg[n].st # "failed"
  /\ sleeping' = [sleeping EXCEPT ![n] = IF @ > 0 THEN @ - 1 ELSE 0]
  /\ rl' = Doing(rl.todo \ {n}, {})
  /\ UNCHANGED <<collecting, mgr, reg, strays, callback, pc, bounds>>

\* The last step of a reload: with a manager, new collectors for the set.
Finish(m) ==
  /\ IF m # 0 THEN collecting' = TRUE /\ Start(rl.names, m)
     ELSE UNCHANGED <<collecting, reg, strays>>
  /\ pc' = "idle" /\ rl' = RlNone

AllCancelled == pc = "cancel" /\ rl.at = {} /\ rl.todo = {}

ReloadFinish ==
  /\ AllCancelled /\ ~rl.ssh
  /\ Finish(mgr)
  /\ UNCHANGED <<mgr, loop, bounds>>

\* Direct ssh: the new manager and the new collectors come in one piece.
ReloadDirect ==
  /\ AllCancelled /\ rl.ssh
  /\ mgr' = reloads + 1
  /\ Finish(reloads + 1)
  /\ UNCHANGED <<loop, bounds>>

\* Through a jump host there is none while the daemon stops and the key is
\* fetched, then a new one while the daemon starts.
ReloadJump ==
  /\ AllCancelled /\ rl.ssh
  /\ mgr' = 0 /\ pc' = "between"
  /\ UNCHANGED <<collecting, reg, strays, loop, rl, bounds>>

ReloadManager ==
  /\ pc = "between"
  /\ mgr' = reloads + 1 /\ pc' = "await"
  /\ UNCHANGED <<collecting, reg, strays, loop, rl, bounds>>

ReloadAwaited ==
  /\ pc = "await"
  /\ Finish(mgr)
  /\ UNCHANGED <<mgr, loop, bounds>>

-----------------------------------------------------------------------------
(* The specification *)

Init ==
  /\ collecting = FALSE /\ mgr = 0
  /\ reg = [n \in Names |-> NotStarted] /\ strays = [n \in Names |-> 0]
  /\ callback = [n \in Names |-> "none"] /\ sleeping = [n \in Names |-> 0]
  /\ pc = "down" /\ rl = RlNone
  /\ crashes = 0 /\ reloads = 0

Loop(n) == OnDone(n) \/ Schedule(n) \/ Restart(n) \/ Cancelled(n) \/ Returns(n)
Reload(n) == ReloadCancel(n) \/ ReloadRaises(n) \/ ReloadCancelled(n)
Next ==
  \/ \E n \in Names : Loop(n) \/ Reload(n) \/ Crash(n)
  \/ \E nodes \in BOOLEAN : Startup(nodes)
  \/ \E ssh, rccl, polling \in BOOLEAN : ReloadBegin(ssh, rccl, polling)
  \/ Shutdown \/ ReloadFinish \/ ReloadDirect \/ ReloadJump
  \/ ReloadManager \/ ReloadAwaited

Spec == Init /\ [][Next]_vars

\* The event loop serves every callback and every task, a reload whose await is over
\* among them, and a backoff ends.
Resumes(n) == ReloadRaises(n) \/ ReloadCancelled(n)
FairSpec == Spec /\ \A n \in Names : WF_vars(Loop(n)) /\ WF_vars(Resumes(n))

-----------------------------------------------------------------------------
(* Properties *)

\* OneTask: a collector never runs twice, though a crash restarts it and a reload
\* replaces it, each without asking the other.
OneTask == \A n \in Names : strays[n] = 0 /\ (Live(n) => sleeping[n] = 0)

\* OneTaskEach: seen from outside the collectors are supervised as in module
\* SupervisedCollectors: none is started while it runs, each starts with the manager
\* of that moment, and the manager changes only while nobody who uses it runs.
\* Callbacks, backoffs and the steps of a reload do not show.
Supervised == INSTANCE SupervisedCollectors WITH
  NoManager <- 0, manager <- mgr,
  tasks <- [n \in Names |-> IF Live(n) THEN {reg[n].mgr} ELSE {}]
OneTaskEach == Supervised!Spec

\* ManagerIsCurrent: a collector that uses ssh works with the manager of now, and
\* none runs while a reload has taken the manager away.
ManagerIsCurrent ==
  \A n \in SshNames : reg[n].st = "live" /\ collecting => reg[n].mgr = mgr /\ mgr # 0

\* CrashedComesBack: a collector that crashed runs again, as long as collecting goes
\* on, whatever reloads are tried meanwhile.
CrashedComesBack ==
  \A n \in Names : reg[n].st = "failed" ~> (reg[n].st = "live" \/ ~collecting)

\* NoneLeftDown (violated): main.py:702 says a reload ends with "Restart only the
\* affected collectors": none it has cancelled is down once it is over. The reload
\* that meets a collector that crashed ends early and leaves the others cancelled.
NoneLeftDown == pc = "idle" /\ collecting => \A n \in Names : reg[n].st # "cancelled"
=============================================================================
