------------------------ MODULE CollectorTasksProofs ------------------------
(***************************************************************************)
(* TypeOK, OneTask and ManagerIsCurrent hold in every behaviour of            *)
(* CollectorTasks, for any collectors and any number of crashes and reloads. *)
(*                                                                         *)
(* The automatic restart and the reload never ask each other. The invariant   *)
(* says why that is enough: a restart is pending for a collector that failed  *)
(* and for no other, and the reload starts only collectors it has made quiet.  *)
(***************************************************************************)
EXTENDS CollectorTasks, TLAPS

\* Neither runs nor will run by itself.
Quiet(n) ==
  /\ reg[n].st \in {"none", "cancelled", "returned"}
  /\ sleeping[n] = 0 /\ callback[n] = "none"

RestartInv ==
  \A n \in Names :
    /\ strays[n] = 0 /\ sleeping[n] \in {0, 1}
    /\ sleeping[n] = 1 => callback[n] = "none"
    /\ sleeping[n] = 1 \/ callback[n] # "none" => reg[n].st = "failed"

ReloadInv ==
  /\ pc = "cancel" => rl.at \subseteq rl.todo /\ \A n \in rl.names \ rl.todo : Quiet(n)
  /\ pc \in {"between", "await"} => rl.ssh /\ \A n \in rl.names : Quiet(n)
  /\ pc \in {"cancel", "between", "await"} /\ rl.ssh => SshNames \subseteq rl.names

MgrInv ==
  /\ pc \in {"down", "gone"} => ~collecting
  /\ ~collecting /\ pc # "gone" => \A n \in Names : reg[n].st = "none"
  /\ collecting /\ pc # "between" => mgr # 0
  /\ pc = "await" => mgr # 0

IInv == TypeOK /\ RestartInv /\ ReloadInv /\ MgrInv /\ ManagerIsCurrent

-----------------------------------------------------------------------------

LEMMA RecordTypes ==
  /\ NotStarted \in Task /\ NotStarted.st = "none"
  /\ RlNone \in Locals
BY CollectorAssumption DEF NotStarted, Task, Managers, RlNone, Locals

LEMMA ToType ==
  ASSUME TypeOK, NEW n \in Names,
         NEW s \in {"failed", "cancelled", "returned", "cancelling"}
  PROVE  To(n, s) \in Task /\ To(n, s).st = s /\ To(n, s).mgr = reg[n].mgr
<1>1. reg[n] \in Task BY DEF TypeOK
<1> QED BY <1>1 DEF To, Task

LEMMA LiveType == \A m \in Managers :
  /\ [st |-> "live", mgr |-> m] \in Task
  /\ [st |-> "live", mgr |-> m].st = "live" /\ [st |-> "live", mgr |-> m].mgr = m
BY DEF Task

LEMMA LocalsType ==
  ASSUME TypeOK
  PROVE  /\ rl.todo \subseteq Names /\ rl.at \subseteq Names /\ rl.names \subseteq Names
         /\ rl.ssh \in BOOLEAN
         /\ \A todo \in SUBSET Names, at \in SUBSET Names :
              /\ Doing(todo, at) \in Locals
              /\ Doing(todo, at).todo = todo /\ Doing(todo, at).at = at
              /\ Doing(todo, at).names = rl.names /\ Doing(todo, at).ssh = rl.ssh
BY DEF TypeOK, Locals, Doing

\* What Start does to the collectors that are not live.
LEMMA Started ==
  ASSUME TypeOK, NEW ns \in SUBSET Names, NEW m \in Managers, Start(ns, m),
         \A n \in ns : ~Live(n)
  PROVE  /\ reg' \in [Names -> Task] /\ strays' \in [Names -> Nat]
         /\ \A n \in Names : strays'[n] = strays[n]
         /\ \A n \in ns : reg'[n].st = "live" /\ reg'[n].mgr = m
         /\ \A n \in Names \ ns : reg'[n] = reg[n]
BY LiveType DEF Start, TypeOK

LEMMA InitIInv == Init => IInv
<1> SUFFICES ASSUME Init PROVE IInv OBVIOUS
<1>1. TypeOK
  <2>1. 0 \in Managers /\ 0 \in 0..MaxCrashes /\ 0 \in 0..MaxReloads
    BY CollectorAssumption DEF Managers
  <2> QED BY <2>1, RecordTypes DEF Init, TypeOK
<1>2. RestartInv /\ ReloadInv /\ MgrInv BY RecordTypes DEF Init, RestartInv, ReloadInv, MgrInv
<1>3. ManagerIsCurrent BY RecordTypes DEF Init, ManagerIsCurrent
<1> QED BY <1>1, <1>2, <1>3 DEF IInv

-----------------------------------------------------------------------------
(* The steps of one collector *)

\* A step of n that leaves the reload and the manager alone and does not make n live.
LEMMA OneCollector ==
  ASSUME IInv, TypeOK', NEW n \in Names,
         UNCHANGED <<collecting, mgr, strays, pc, rl>>,
         \A m \in Names \ {n} : /\ reg'[m] = reg[m] /\ sleeping'[m] = sleeping[m]
                                /\ callback'[m] = callback[m],
         ~Quiet(n),
         reg'[n].st # "live" \/ reg'[n] = reg[n],
         ~collecting /\ pc # "gone" => reg'[n].st = "none",
         /\ sleeping'[n] \in {0, 1}
         /\ sleeping'[n] = 1 => callback'[n] = "none"
         /\ sleeping'[n] = 1 \/ callback'[n] # "none" => reg'[n].st = "failed"
  PROVE  IInv'
<1>1. RestartInv' BY DEF RestartInv, IInv
<1>2. ReloadInv' BY LocalsType DEF ReloadInv, IInv, Quiet
<1>3. MgrInv' BY DEF MgrInv, IInv
<1>4. ManagerIsCurrent' BY CollectorAssumption DEF ManagerIsCurrent, IInv
<1> QED BY <1>1, <1>2, <1>3, <1>4 DEF IInv

LEMMA CrashStep == ASSUME IInv, NEW n \in Names, Crash(n) PROVE IInv'
<1>1. reg[n].st \in {"live", "cancelling"} /\ callback[n] = "none" /\ sleeping[n] = 0
  BY DEF Crash, Live, IInv, RestartInv
<1>2. TypeOK' BY ToType, CollectorAssumption DEF Crash, TypeOK, IInv
<1>3. reg'[n].st = "failed" BY ToType DEF Crash, IInv, TypeOK
<1> QED BY <1>1, <1>2, <1>3, OneCollector DEF Crash, IInv, TypeOK, Quiet, MgrInv

LEMMA CancelledStep == ASSUME IInv, NEW n \in Names, Cancelled(n) \/ Returns(n) PROVE IInv'
<1>1. reg[n].st \in {"live", "cancelling"} /\ callback[n] = "none" /\ sleeping[n] = 0
  BY DEF Cancelled, Returns, IInv, RestartInv
<1>2. TypeOK' BY ToType DEF Cancelled, Returns, TypeOK, IInv, loop, bounds
<1>3. reg'[n].st \in {"cancelled", "returned"}
  BY ToType DEF Cancelled, Returns, IInv, TypeOK
<1> QED BY <1>1, <1>2, <1>3, OneCollector
       DEF Cancelled, Returns, IInv, TypeOK, Quiet, MgrInv, loop

LEMMA CallbackStep == ASSUME IInv, NEW n \in Names, OnDone(n) \/ Schedule(n) PROVE IInv'
<1>1. reg[n].st = "failed" /\ callback[n] # "none" /\ sleeping[n] = 0
  BY DEF OnDone, Schedule, IInv, RestartInv
<1>2. TypeOK' BY DEF OnDone, Schedule, TypeOK, IInv, bounds
<1>3. /\ sleeping'[n] \in {0, 1} /\ (sleeping'[n] = 1 => callback'[n] = "none")
      /\ UNCHANGED reg
  BY <1>1 DEF OnDone, Schedule, TypeOK, IInv
<1> QED BY <1>1, <1>2, <1>3, OneCollector
       DEF OnDone, Schedule, IInv, TypeOK, Quiet, MgrInv

LEMMA RestartStep == ASSUME IInv, NEW n \in Names, Restart(n) PROVE IInv'
<1>1. reg[n].st = "failed" /\ sleeping[n] = 1 /\ callback[n] = "none"
  BY DEF Restart, IInv, RestartInv
<1>2. mgr \in Managers /\ ~Live(n) BY <1>1 DEF IInv, TypeOK, Live
<1>3. /\ reg' \in [Names -> Task] /\ strays' \in [Names -> Nat]
      /\ \A m \in Names : strays'[m] = strays[m]
      /\ reg'[n].st = "live" /\ reg'[n].mgr = mgr
      /\ \A m \in Names \ {n} : reg'[m] = reg[m]
  <2>1. {n} \in SUBSET Names /\ Start({n}, mgr) /\ \A m \in {n} : ~Live(m) /\ TypeOK
    BY <1>2 DEF Restart, IInv
  <2> QED BY <1>2, <2>1, Started
<1>4. /\ sleeping' \in [Names -> Nat] /\ sleeping'[n] = 0
      /\ \A m \in Names \ {n} : sleeping'[m] = sleeping[m]
  BY <1>1 DEF Restart, IInv, TypeOK
<1>5. TypeOK' BY <1>3, <1>4 DEF Restart, TypeOK, IInv, bounds
<1>6. RestartInv' BY <1>1, <1>3, <1>4 DEF Restart, RestartInv, IInv
<1>7. ReloadInv' BY <1>1, <1>3, <1>4, LocalsType DEF Restart, ReloadInv, IInv, Quiet
<1>8. collecting \/ pc = "gone" BY <1>1 DEF IInv, MgrInv
<1>9. MgrInv' BY <1>3, <1>8 DEF Restart, MgrInv, IInv
<1>10. n \in SshNames /\ collecting => mgr # 0
  BY <1>1 DEF IInv, MgrInv, ReloadInv, Quiet
<1>11. ManagerIsCurrent'
  BY <1>3, <1>10, CollectorAssumption DEF Restart, ManagerIsCurrent, IInv
<1> QED BY <1>5, <1>6, <1>7, <1>9, <1>11 DEF IInv

-----------------------------------------------------------------------------
(* The steps of the application *)

LEMMA StartupStep == ASSUME IInv, NEW nodes \in BOOLEAN, Startup(nodes) PROVE IInv'
<1>1. /\ pc = "down" /\ ~collecting /\ \A n \in Names : reg[n].st = "none"
      /\ \A n \in Names : sleeping[n] = 0 /\ callback[n] = "none"
  BY DEF Startup, IInv, MgrInv, RestartInv
<1>2. CASE nodes
  <2>1. 1 \in Managers BY CollectorAssumption DEF Managers
  <2>2. \A n \in Names : ~Live(n) BY <1>1 DEF Live
  <2>3. /\ reg' \in [Names -> Task] /\ strays' \in [Names -> Nat]
        /\ \A n \in Names : strays'[n] = strays[n] /\ reg'[n].mgr = 1
        /\ mgr' = 1 /\ collecting' = TRUE
    BY <1>2, <2>1, <2>2, Started DEF Startup, IInv
  <2>4. TypeOK' BY <2>1, <2>3 DEF Startup, TypeOK, IInv, loop, bounds
  <2>5. RestartInv' BY <1>1, <2>3 DEF Startup, RestartInv, IInv, loop
  <2>6. ReloadInv' /\ MgrInv' BY <2>3 DEF Startup, ReloadInv, MgrInv
  <2>7. ManagerIsCurrent' BY <2>3, CollectorAssumption DEF ManagerIsCurrent
  <2> QED BY <2>4, <2>5, <2>6, <2>7 DEF IInv
<1>3. CASE ~nodes
  <2>1. TypeOK' BY <1>3 DEF Startup, TypeOK, IInv, loop, bounds
  <2>2. RestartInv' BY <1>3 DEF Startup, RestartInv, IInv, loop
  <2>3. ReloadInv' /\ MgrInv' /\ ManagerIsCurrent'
    BY <1>1, <1>3 DEF Startup, ReloadInv, MgrInv, ManagerIsCurrent
  <2> QED BY <2>1, <2>2, <2>3 DEF IInv
<1> QED BY <1>2, <1>3

LEMMA ShutdownStep == ASSUME IInv, Shutdown PROVE IInv'
<1>1. \A n \in Names : /\ reg'[n] \in Task
                       /\ reg'[n].st = "failed" <=> reg[n].st = "failed"
  BY ToType DEF Shutdown, IInv, TypeOK, Live
<1>2. \A n \in Names : sleeping'[n] = 0 BY DEF Shutdown, IInv, RestartInv
<1>3. reg' \in [Names -> Task] BY <1>1 DEF Shutdown
<1>4. sleeping' \in [Names -> Nat] BY <1>2 DEF Shutdown
<1>5. TypeOK' BY <1>3, <1>4 DEF Shutdown, TypeOK, IInv, bounds
<1>6. RestartInv' BY <1>1, <1>2 DEF Shutdown, RestartInv, IInv
<1>7. ReloadInv' /\ MgrInv' /\ ManagerIsCurrent'
  BY DEF Shutdown, ReloadInv, MgrInv, ManagerIsCurrent
<1> QED BY <1>5, <1>6, <1>7 DEF IInv

LEMMA ReloadBeginStep ==
  ASSUME IInv, NEW ssh \in BOOLEAN, NEW rccl \in BOOLEAN, NEW polling \in BOOLEAN,
         ReloadBegin(ssh, rccl, polling)
  PROVE  IInv'
<1> DEFINE names == IF polling THEN Names
                    ELSE (IF ssh THEN SshNames ELSE {}) \cup (IF rccl THEN RcclNames ELSE {})
<1>1. names \in SUBSET Names /\ (ssh => SshNames \subseteq names)
  BY CollectorAssumption
<1>2. /\ rl' = [todo |-> names, at |-> {}, names |-> names, ssh |-> ssh]
      /\ pc' = "cancel" /\ pc = "idle" /\ reloads' = reloads + 1 /\ reloads < MaxReloads
      /\ UNCHANGED <<collecting, mgr, reg, strays, callback, sleeping, crashes>>
  BY DEF ReloadBegin, loop
<1> HIDE DEF names
<1>3. /\ rl' \in Locals /\ rl'.todo = names /\ rl'.at = {} /\ rl'.names = names
      /\ rl'.ssh = ssh
  BY <1>1, <1>2 DEF Locals
<1>4. reloads' \in 0..MaxReloads BY <1>2, CollectorAssumption DEF IInv, TypeOK
<1>5. TypeOK' BY <1>2, <1>3, <1>4 DEF TypeOK, IInv
<1>6. RestartInv' BY <1>2 DEF RestartInv, IInv
<1>7. ReloadInv' BY <1>1, <1>2, <1>3 DEF ReloadInv
<1>8. MgrInv' /\ ManagerIsCurrent' BY <1>2 DEF MgrInv, ManagerIsCurrent, IInv
<1> QED BY <1>5, <1>6, <1>7, <1>8 DEF IInv

LEMMA ReloadCancelStep == ASSUME IInv, NEW n \in Names, ReloadCancel(n) PROVE IInv'
<1>1. /\ pc = "cancel" /\ n \in rl.todo /\ Live(n) /\ callback[n] = "none"
      /\ sleeping[n] = 0
      /\ UNCHANGED <<collecting, mgr, strays, callback, sleeping, pc, crashes, reloads>>
  BY DEF ReloadCancel, IInv, RestartInv, Live, loop, bounds
<1>2. /\ rl' \in Locals /\ rl'.todo = rl.todo /\ rl'.at = {n} /\ rl'.names = rl.names
      /\ rl'.ssh = rl.ssh
  BY LocalsType DEF ReloadCancel, IInv
<1>3. /\ reg' \in [Names -> Task] /\ reg'[n].st = "cancelling"
      /\ \A m \in Names \ {n} : reg'[m] = reg[m]
  BY ToType DEF ReloadCancel, IInv, TypeOK
<1>4. TypeOK' BY <1>1, <1>2, <1>3 DEF TypeOK, IInv
<1>5. RestartInv' BY <1>1, <1>3 DEF RestartInv, IInv
<1>6. ReloadInv' BY <1>1, <1>2, <1>3, LocalsType DEF ReloadInv, Quiet, IInv
<1>7. MgrInv' BY <1>1, <1>3 DEF MgrInv, Live, IInv
<1>8. ManagerIsCurrent' BY <1>1, <1>3, CollectorAssumption DEF ManagerIsCurrent, IInv
<1> QED BY <1>4, <1>5, <1>6, <1>7, <1>8 DEF IInv

LEMMA ReloadRaisesStep == ASSUME IInv, NEW n \in Names, ReloadRaises(n) PROVE IInv'
<1>1. TypeOK' BY RecordTypes DEF ReloadRaises, TypeOK, IInv, loop, bounds
<1>2. RestartInv' BY DEF ReloadRaises, RestartInv, IInv, loop
<1>3. ReloadInv' BY DEF ReloadRaises, ReloadInv
<1>4. MgrInv' /\ ManagerIsCurrent'
  BY DEF ReloadRaises, Awaited, MgrInv, ManagerIsCurrent, IInv
<1> QED BY <1>1, <1>2, <1>3, <1>4 DEF IInv

\* A collector the reload is done with is quiet.
LEMMA ReloadCancelledStep == ASSUME IInv, NEW n \in Names, ReloadCancelled(n) PROVE IInv'
<1>1. pc = "cancel" /\ ~Live(n) /\ reg[n].st # "failed" /\ n \in rl.todo
  BY DEF ReloadCancelled, Awaited, IInv, ReloadInv
<1>2. Quiet(n)
  <2>1. reg[n] \in Task BY DEF IInv, TypeOK
  <2> QED BY <1>1, <2>1 DEF Live, Quiet, Task, IInv, RestartInv
<1>3. UNCHANGED <<collecting, mgr, reg, strays, callback, pc, crashes, reloads, sleeping>>
  BY <1>2 DEF ReloadCancelled, bounds, Quiet, IInv, TypeOK
<1>4. /\ rl' \in Locals /\ rl'.todo = rl.todo \ {n} /\ rl'.at = {}
      /\ rl'.names = rl.names /\ rl'.ssh = rl.ssh
  BY LocalsType DEF ReloadCancelled, IInv
<1>5. TypeOK' BY <1>3, <1>4 DEF TypeOK, IInv
<1>6. RestartInv' BY <1>3 DEF RestartInv, IInv
<1>7. ReloadInv' BY <1>1, <1>2, <1>3, <1>4 DEF ReloadInv, Quiet, IInv
<1>8. MgrInv' /\ ManagerIsCurrent' BY <1>3 DEF MgrInv, ManagerIsCurrent, IInv
<1> QED BY <1>5, <1>6, <1>7, <1>8 DEF IInv

\* The end of a reload, with the manager m that is there afterwards.
LEMMA FinishStep ==
  ASSUME IInv, NEW m \in Managers, Finish(m), mgr' = m, UNCHANGED <<callback, sleeping>>,
         UNCHANGED bounds, pc \in {"cancel", "await"}, \A n \in rl.names : Quiet(n),
         m = mgr \/ (m # 0 /\ SshNames \subseteq rl.names)
  PROVE  IInv'
<1>1. rl.names \in SUBSET Names /\ \A n \in rl.names : ~Live(n)
  BY LocalsType DEF IInv, Quiet, Live
<1>2. pc' = "idle" /\ rl' = RlNone BY DEF Finish
<1>3. CASE m # 0
  <2>1. collecting' = TRUE /\ Start(rl.names, m) BY <1>3 DEF Finish
  <2>2. /\ reg' \in [Names -> Task] /\ strays' \in [Names -> Nat]
        /\ \A n \in Names : strays'[n] = strays[n]
        /\ \A n \in rl.names : reg'[n].st = "live" /\ reg'[n].mgr = m
        /\ \A n \in Names \ rl.names : reg'[n] = reg[n]
    BY <1>1, <2>1, Started DEF IInv
  <2>3. TypeOK' BY <1>2, <2>1, <2>2, RecordTypes DEF TypeOK, IInv, bounds
  <2>4. RestartInv' BY <2>2 DEF RestartInv, IInv, Quiet
  <2>5. ReloadInv' BY <1>2 DEF ReloadInv
  <2>6. MgrInv' BY <1>2, <1>3, <2>1 DEF MgrInv
  <2>7. ManagerIsCurrent'
    <3> SUFFICES ASSUME NEW n \in SshNames, reg'[n].st = "live"
                 PROVE  reg'[n].mgr = m
      BY <1>3 DEF ManagerIsCurrent
    <3>1. n \in Names BY CollectorAssumption
    <3>2. CASE n \in rl.names BY <2>2, <3>2
    <3>3. CASE n \notin rl.names
      <4>1. reg'[n] = reg[n] /\ m = mgr BY <2>2, <3>1, <3>3
      <4>2. collecting BY <3>1, <4>1 DEF IInv, MgrInv
      <4> QED BY <4>1, <4>2 DEF IInv, ManagerIsCurrent
    <3> QED BY <3>2, <3>3
  <2> QED BY <2>3, <2>4, <2>5, <2>6, <2>7 DEF IInv
<1>4. CASE m = 0
  <2>1. UNCHANGED <<collecting, reg, strays, mgr>> BY <1>4 DEF Finish
  <2>2. TypeOK' BY <1>2, <2>1, RecordTypes DEF TypeOK, IInv, bounds
  <2>3. RestartInv' BY <2>1 DEF RestartInv, IInv
  <2>4. ReloadInv' BY <1>2 DEF ReloadInv
  <2>5. MgrInv' BY <1>2, <2>1 DEF MgrInv, IInv
  <2>6. ManagerIsCurrent' BY <2>1 DEF ManagerIsCurrent, IInv
  <2> QED BY <2>2, <2>3, <2>4, <2>5, <2>6 DEF IInv
<1> QED BY <1>3, <1>4

LEMMA NextManager == TypeOK => reloads + 1 \in Managers /\ reloads + 1 # 0
BY CollectorAssumption DEF TypeOK, Managers

LEMMA FinishSteps ==
  ASSUME IInv, ReloadFinish \/ ReloadDirect \/ ReloadAwaited
  PROVE  IInv'
<1>1. CASE ReloadFinish
  <2>1. \A n \in rl.names : Quiet(n)
    BY <1>1 DEF ReloadFinish, AllCancelled, IInv, ReloadInv
  <2>2. mgr \in Managers BY DEF IInv, TypeOK
  <2> QED BY <1>1, <2>1, <2>2, FinishStep DEF ReloadFinish, AllCancelled, loop
<1>2. CASE ReloadDirect
  <2>1. (\A n \in rl.names : Quiet(n)) /\ SshNames \subseteq rl.names
    BY <1>2 DEF ReloadDirect, AllCancelled, IInv, ReloadInv
  <2>2. reloads + 1 \in Managers /\ reloads + 1 # 0 BY NextManager DEF IInv
  <2> QED BY <1>2, <2>1, <2>2, FinishStep DEF ReloadDirect, AllCancelled, loop
<1>3. CASE ReloadAwaited
  <2>1. \A n \in rl.names : Quiet(n) BY <1>3 DEF ReloadAwaited, IInv, ReloadInv
  <2>2. mgr \in Managers BY DEF IInv, TypeOK
  <2> QED BY <1>3, <2>1, <2>2, FinishStep DEF ReloadAwaited, loop
<1> QED BY <1>1, <1>2, <1>3

\* Nobody who uses the manager lives while it is replaced.
LEMMA JumpSteps == ASSUME IInv, ReloadJump \/ ReloadManager PROVE IInv'
<1>1. /\ rl.ssh /\ SshNames \subseteq rl.names /\ \A n \in rl.names : Quiet(n)
      /\ UNCHANGED <<collecting, reg, strays, callback, sleeping, rl, crashes, reloads>>
  BY DEF ReloadJump, ReloadManager, AllCancelled, IInv, ReloadInv, loop, bounds
<1>2. mgr' \in Managers /\ (ReloadManager => mgr' # 0)
  <2>1. 0 \in Managers BY CollectorAssumption DEF Managers
  <2> QED BY <2>1, NextManager DEF ReloadJump, ReloadManager, IInv
<1>3. TypeOK' BY <1>1, <1>2 DEF ReloadJump, ReloadManager, TypeOK, IInv
<1>4. RestartInv' BY <1>1 DEF RestartInv, IInv
<1>5. ReloadInv' BY <1>1 DEF ReloadJump, ReloadManager, ReloadInv, Quiet, IInv
<1>6. MgrInv' BY <1>1, <1>2 DEF ReloadJump, ReloadManager, AllCancelled, MgrInv, IInv
<1>7. ManagerIsCurrent' BY <1>1 DEF ManagerIsCurrent, Quiet
<1> QED BY <1>3, <1>4, <1>5, <1>6, <1>7 DEF IInv

-----------------------------------------------------------------------------

LEMMA Inductive == IInv /\ [Next]_vars => IInv'
<1> SUFFICES ASSUME IInv, [Next]_vars PROVE IInv' OBVIOUS
<1>1. CASE UNCHANGED vars
  <2>1. TypeOK' /\ RestartInv'
    BY <1>1 DEF vars, loop, bounds, IInv, TypeOK, RestartInv
  <2>2. ReloadInv' /\ MgrInv' /\ ManagerIsCurrent'
    BY <1>1 DEF vars, IInv, ReloadInv, MgrInv, ManagerIsCurrent, Quiet
  <2> QED BY <2>1, <2>2 DEF IInv
<1>2. CASE \E n \in Names : Loop(n) \/ Reload(n) \/ Crash(n)
  BY <1>2, CrashStep, CancelledStep, CallbackStep, RestartStep, ReloadCancelStep,
     ReloadRaisesStep, ReloadCancelledStep DEF Loop, Reload
<1>3. CASE \E nodes \in BOOLEAN : Startup(nodes) BY <1>3, StartupStep
<1>4. CASE \E ssh, rccl, polling \in BOOLEAN : ReloadBegin(ssh, rccl, polling)
  BY <1>4, ReloadBeginStep
<1>5. CASE \/ Shutdown \/ ReloadFinish \/ ReloadDirect \/ ReloadJump
           \/ ReloadManager \/ ReloadAwaited
  BY <1>5, ShutdownStep, FinishSteps, JumpSteps
<1> QED BY <1>1, <1>2, <1>3, <1>4, <1>5 DEF Next

\* The inductive invariant holds in every state a behaviour reaches.
THEOREM CollectorInvariant == Spec => []IInv
BY InitIInv, Inductive, PTL DEF Spec

\* TypeOK: every variable has its type, for all parameters.
THEOREM CollectorTypeOK == Spec => []TypeOK
<1>1. IInv => TypeOK BY DEF IInv
<1> QED BY CollectorInvariant, <1>1, PTL

\* OneTask: crashes, restarts and reloads never make a collector run twice.
THEOREM CollectorOneTask == Spec => []OneTask
<1>1. IInv => OneTask BY DEF IInv, RestartInv, OneTask, Live
<1> QED BY CollectorInvariant, <1>1, PTL

\* ManagerIsCurrent: no collector that uses ssh runs with a manager that was
\* replaced, or while there is none.
THEOREM CollectorManagerIsCurrent == Spec => []ManagerIsCurrent
<1>1. IInv => ManagerIsCurrent BY DEF IInv
<1> QED BY CollectorInvariant, <1>1, PTL

-----------------------------------------------------------------------------
(* Reloads that meet no crash *)

\* As long as nothing has crashed, what is cancelled while collecting goes on
\* belongs to a reload that will start it again.
InHand ==
  /\ pc = "cancel" => rl.todo \subseteq rl.names
  /\ crashes = 0 /\ collecting =>
       \A n \in Names :
         /\ reg[n].st # "failed"
         /\ reg[n].st \in {"cancelling", "cancelled"}
              => pc \in {"cancel", "between", "await"} /\ n \in rl.names

LEMMA InHandLoop ==
  ASSUME IInv, InHand, NEW n \in Names, Loop(n) \/ Reload(n) \/ Crash(n)
  PROVE  InHand'
<1>0. /\ TypeOK /\ crashes \in Nat /\ n \in Names /\ reg[n] \in Task
  BY CollectorAssumption DEF IInv, TypeOK
<1>1. CASE Crash(n)
  <2>1. crashes' # 0 /\ UNCHANGED <<pc, rl>> BY <1>0, <1>1 DEF Crash
  <2> QED BY <2>1 DEF InHand
<1>2. CASE OnDone(n) \/ Schedule(n)
  BY <1>2 DEF OnDone, Schedule, InHand, bounds
<1>3. CASE Cancelled(n)
  BY <1>0, <1>3, ToType DEF Cancelled, InHand, bounds, TypeOK
<1>4. CASE Returns(n) BY <1>4 DEF Returns, InHand
<1>5. CASE Restart(n)
  <2>1. reg[n].st = "failed" BY <1>5 DEF Restart, IInv, RestartInv
  <2> QED BY <1>0, <1>5, <2>1 DEF Restart, InHand, bounds
<1>6. CASE ReloadCancel(n)
  <2>1. n \in rl.names /\ rl'.names = rl.names
    BY <1>0, <1>6, LocalsType DEF ReloadCancel, InHand
  <2>2. rl'.todo = rl.todo BY <1>0, <1>6, LocalsType DEF ReloadCancel
  <2> QED BY <1>0, <1>6, <2>1, <2>2, ToType DEF ReloadCancel, InHand, bounds, TypeOK
<1>7. CASE ReloadRaises(n)
  BY <1>7 DEF ReloadRaises, InHand, bounds
<1>8. CASE ReloadCancelled(n)
  <2>1. rl'.names = rl.names /\ rl'.todo \subseteq rl.todo
    BY <1>0, <1>8, LocalsType DEF ReloadCancelled
  <2> QED BY <1>8, <2>1 DEF ReloadCancelled, InHand, bounds
<1> QED BY <1>1, <1>2, <1>3, <1>4, <1>5, <1>6, <1>7, <1>8 DEF Loop, Reload

\* A reload that ends has started every collector it had in hand.
LEMMA InHandFinish ==
  ASSUME IInv, InHand, NEW m \in Managers, Finish(m), UNCHANGED bounds,
         pc \in {"cancel", "await"}, \A n \in rl.names : Quiet(n),
         m = mgr \/ m # 0
  PROVE  InHand'
<1>1. rl.names \in SUBSET Names /\ \A n \in rl.names : ~Live(n)
  BY LocalsType DEF IInv, Quiet, Live
<1>0. pc' = "idle" BY DEF Finish
<1>2. CASE m # 0
  <2>1. /\ \A n \in rl.names : reg'[n].st = "live"
        /\ \A n \in Names \ rl.names : reg'[n] = reg[n]
    BY <1>1, <1>2, Started DEF Finish, IInv
  <2>2. ~collecting => \A n \in Names : reg[n].st = "none"
    BY DEF IInv, MgrInv
  <2> QED BY <1>0, <2>1, <2>2 DEF InHand, bounds
<1>3. CASE m = 0
  <2>1. mgr = 0 /\ collecting' = collecting BY <1>3 DEF Finish
  <2>2. ~collecting BY <2>1 DEF IInv, MgrInv
  <2> QED BY <1>0, <2>1, <2>2 DEF InHand
<1> QED BY <1>2, <1>3

LEMMA InHandNext == IInv /\ InHand /\ [Next]_vars => InHand'
<1> SUFFICES ASSUME IInv, InHand, [Next]_vars PROVE InHand' OBVIOUS
<1>1. CASE \E n \in Names : Loop(n) \/ Reload(n) \/ Crash(n)
  BY <1>1, InHandLoop
<1>2. ASSUME NEW nodes \in BOOLEAN, Startup(nodes) PROVE InHand'
  <2>1. ~collecting /\ \A n \in Names : reg[n].st = "none" /\ ~Live(n)
    BY <1>2 DEF Startup, IInv, MgrInv, Live
  <2>2. 1 \in Managers BY CollectorAssumption DEF Managers
  <2>3. nodes => \A n \in Names : reg'[n].st = "live"
    BY <1>2, <2>1, <2>2, Started DEF Startup, IInv
  <2>4. pc' = "idle" /\ (~nodes => ~collecting') BY <1>2, <2>1 DEF Startup
  <2> QED BY <2>3, <2>4 DEF InHand
<1>3. ASSUME NEW ssh \in BOOLEAN, NEW rccl \in BOOLEAN, NEW polling \in BOOLEAN,
             ReloadBegin(ssh, rccl, polling)
      PROVE  InHand'
  BY <1>3 DEF ReloadBegin, InHand, loop
<1>4. CASE Shutdown BY <1>4 DEF Shutdown, InHand
<1>5. CASE ReloadFinish
  <2>1. \A n \in rl.names : Quiet(n)
    BY <1>5 DEF ReloadFinish, AllCancelled, IInv, ReloadInv
  <2>2. mgr \in Managers BY DEF IInv, TypeOK
  <2> QED BY <1>5, <2>1, <2>2, InHandFinish DEF ReloadFinish, AllCancelled
<1>6. CASE ReloadDirect
  <2>1. \A n \in rl.names : Quiet(n)
    BY <1>6 DEF ReloadDirect, AllCancelled, IInv, ReloadInv
  <2>2. reloads + 1 \in Managers /\ reloads + 1 # 0 BY NextManager DEF IInv
  <2> QED BY <1>6, <2>1, <2>2, InHandFinish DEF ReloadDirect, AllCancelled
<1>7. CASE ReloadAwaited
  <2>1. \A n \in rl.names : Quiet(n) BY <1>7 DEF ReloadAwaited, IInv, ReloadInv
  <2>2. mgr \in Managers BY DEF IInv, TypeOK
  <2> QED BY <1>7, <2>1, <2>2, InHandFinish DEF ReloadAwaited
<1>8. CASE ReloadJump \/ ReloadManager
  BY <1>8 DEF ReloadJump, ReloadManager, AllCancelled, InHand, bounds
<1>9. CASE UNCHANGED vars BY <1>9 DEF vars, InHand, bounds
<1> QED BY <1>1, <1>2, <1>3, <1>4, <1>5, <1>6, <1>7, <1>8, <1>9 DEF Next

\* NoneLeftDown: reloads alone leave no collector down. As long as no collector has
\* crashed, every reload that ends has restarted all it cancelled; what the run
\* finds otherwise takes a crash.
THEOREM CollectorNoneLeftDown == Spec => [](crashes = 0 => NoneLeftDown)
<1>1. Init => InHand BY DEF Init, InHand
<1>2. InHand => (crashes = 0 => NoneLeftDown) BY DEF InHand, NoneLeftDown
<1> QED BY <1>1, <1>2, InHandNext, CollectorInvariant, PTL DEF Spec

-----------------------------------------------------------------------------
(* One task each *)

TasksOf(n) == IF Live(n) THEN {reg[n].mgr} ELSE {}
Tasks == [n \in Names |-> TasksOf(n)]

\* Without nodes there is no manager, and nothing that could be started after the
\* shutdown.
GoneInv == pc = "gone" /\ mgr = 0 => \A n \in Names : reg[n].st = "none"

LEMMA GoneNext == IInv /\ GoneInv /\ [Next]_vars => GoneInv'
<1> SUFFICES ASSUME IInv, GoneInv, [Next]_vars, pc' = "gone", mgr' = 0
             PROVE  \A n \in Names : reg'[n].st = "none"
  BY DEF GoneInv
<1>1. CASE Shutdown
  <2>1. mgr = 0 /\ pc = "idle" BY <1>1 DEF Shutdown
  <2>2. ~collecting BY <2>1 DEF IInv, MgrInv
  <2>3. \A n \in Names : reg[n].st = "none" BY <2>1, <2>2 DEF IInv, MgrInv
  <2> QED BY <1>1, <2>3 DEF Shutdown, Live
<1>2. CASE ~Shutdown
  <2>1. pc = "gone" /\ mgr = 0 /\ UNCHANGED reg
    <3>1. ASSUME NEW n \in Names, Loop(n) \/ Reload(n) \/ Crash(n)
          PROVE  pc = "gone" /\ mgr = 0
      BY <3>1 DEF Loop, Reload, Crash, OnDone, Schedule, Restart, Cancelled, Returns,
                  ReloadCancel, ReloadRaises, ReloadCancelled
    <3>2. ASSUME NEW n \in Names, Loop(n) \/ Reload(n) \/ Crash(n)
          PROVE  UNCHANGED reg
      <4>1. reg[n].st = "none" /\ pc = "gone" BY <3>1, <3>2 DEF GoneInv
      <4>2. sleeping[n] = 0
        BY <4>1 DEF IInv, RestartInv
      <4> QED
        BY <3>2, <4>1, <4>2 DEF Loop, Reload, Crash, OnDone, Schedule, Restart, Cancelled,
             Returns, ReloadCancel, ReloadRaises, ReloadCancelled, Live
    <3> QED
      BY <1>2, <3>1, <3>2 DEF Next, Startup, ReloadBegin, ReloadFinish, ReloadDirect,
           ReloadJump, ReloadManager, ReloadAwaited, Finish, vars
  <2> QED BY <2>1 DEF GoneInv
<1> QED BY <1>1, <1>2

\* Where a task neither begins nor ends, nothing shows.
LEMMA TasksFrame ==
  ASSUME \A n \in Names : Live(n)' = Live(n) /\ (Live(n) => reg'[n].mgr = reg[n].mgr)
  PROVE  UNCHANGED Tasks
BY DEF Tasks, TasksOf

LEMMA SameTasks == ASSUME UNCHANGED reg PROVE UNCHANGED Tasks
BY TasksFrame DEF Live

LEMMA StartShows ==
  ASSUME TypeOK, NEW ns \in SUBSET Names, NEW m \in Managers, Start(ns, m),
         \A n \in ns : ~Live(n), m = 0 => ns \cap SshNames = {}
  PROVE  Supervised!Start(ns, m)
<1>1. \A n \in ns : Tasks[n] = {} BY DEF Tasks, TasksOf
<1>2. ASSUME NEW n \in Names
      PROVE  TasksOf(n)' = IF n \in ns THEN {m} ELSE Tasks[n]
  <2>1. reg'[n] = IF n \in ns THEN [st |-> "live", mgr |-> m] ELSE reg[n]
    BY DEF Start
  <2>2. CASE n \in ns
    <3>1. reg'[n].st = "live" /\ reg'[n].mgr = m BY <2>1, <2>2
    <3> QED BY <2>2, <3>1 DEF TasksOf, Live
  <2>3. CASE n \notin ns BY <2>1, <2>3 DEF Tasks, TasksOf, Live
  <2> QED BY <2>2, <2>3
<1>3. Tasks' = [n \in Names |-> IF n \in ns THEN {m} ELSE Tasks[n]]
  BY <1>2 DEF Tasks
<1> QED BY <1>1, <1>3 DEF Supervised!Start, Tasks, TasksOf

\* A task that ends.
LEMMA EndShows ==
  ASSUME TypeOK, NEW n \in Names, NEW s \in {"failed", "cancelled", "returned"},
         reg' = [reg EXCEPT ![n] = To(n, s)], UNCHANGED mgr
  PROVE  Supervised!Stop(n)
<1>1. ~Live(n)' /\ \A o \in Names \ {n} : reg'[o] = reg[o]
  BY ToType DEF Live, TypeOK
<1>2. \A o \in Names : TasksOf(o)' = IF o = n THEN {} ELSE Tasks[o]
  BY <1>1 DEF Tasks, TasksOf, Live
<1>3. Tasks' = [Tasks EXCEPT ![n] = {}]
  BY <1>2 DEF Tasks
<1> QED BY <1>3 DEF Supervised!Stop, Tasks, TasksOf

\* What the restart of a crashed collector and the end of a reload have in common.
LEMMA RunShows ==
  ASSUME TypeOK, NEW ns \in SUBSET Names, Start(ns, mgr), UNCHANGED mgr,
         \A n \in ns : ~Live(n), mgr = 0 => ns \cap SshNames = {}
  PROVE  Supervised!Next
<1>1. mgr \in Managers BY DEF TypeOK
<1>2. PICK m \in Managers : m = mgr BY <1>1
<1>3. Supervised!Start(ns, m) BY <1>2, StartShows DEF Start
<1>4. Supervised!Run(ns)
  BY <1>2, <1>3 DEF Supervised!Run, Supervised!Start, Tasks, TasksOf
<1> QED BY <1>4 DEF Supervised!Next

LEMMA RestartShows ==
  ASSUME IInv, GoneInv, NEW n \in Names, Restart(n)
  PROVE  Supervised!Next
<1>1. reg[n].st = "failed" /\ ~Live(n)
  BY DEF Restart, IInv, RestartInv, Live
<1>2. ASSUME mgr = 0 PROVE n \notin SshNames
  <2>1. collecting \/ pc = "gone" BY <1>1 DEF IInv, MgrInv
  <2>2. pc # "gone" BY <1>1, <1>2 DEF GoneInv
  <2>3. pc = "between" BY <1>2, <2>1, <2>2 DEF IInv, MgrInv
  <2> QED BY <1>1, <2>3 DEF IInv, ReloadInv, Quiet
<1> QED BY <1>1, <1>2, RunShows DEF Restart, IInv

\* The collectors a reload has in hand are those whose manager it replaces.
LEMMA RenewShows ==
  ASSUME IInv, NEW m \in Managers, NEW ns \in SUBSET Names, mgr' = m,
         rl.ssh, pc \in {"cancel", "between", "await"}, \A n \in rl.names : Quiet(n),
         \/ ns = {} /\ UNCHANGED reg
         \/ ns = rl.names /\ m # 0 /\ Start(ns, m)
  PROVE  Supervised!Next
<1>1. \A n \in SshNames : n \in Names /\ ~Live(n)
  BY CollectorAssumption DEF IInv, ReloadInv, Quiet, Live
<1>2. \A n \in SshNames : Tasks[n] = {} BY <1>1 DEF Tasks, TasksOf
<1>3. Supervised!Start(ns, m)
  <2>1. CASE ns = {} /\ UNCHANGED reg
    <3>1. Tasks' = [n \in Names |-> Tasks[n]] BY <2>1, SameTasks DEF Tasks
    <3> QED BY <2>1, <3>1 DEF Supervised!Start, Tasks, TasksOf
  <2>2. CASE ns = rl.names /\ m # 0 /\ Start(ns, m)
    BY <2>2, StartShows DEF IInv, Quiet, Live
  <2> QED BY <2>1, <2>2
<1>4. Supervised!Renew(m, ns)
  BY <1>2, <1>3 DEF Supervised!Renew, Tasks, TasksOf
<1> QED BY <1>4 DEF Supervised!Next

LEMMA SupervisedNext ==
  IInv /\ GoneInv /\ [Next]_vars => [Supervised!Next]_(Supervised!vars)
<1> SUFFICES ASSUME IInv, GoneInv, [Next]_vars
             PROVE  Supervised!Next \/ UNCHANGED Supervised!vars
  OBVIOUS
<1>0. TypeOK /\ rl.names \in SUBSET Names BY LocalsType DEF IInv
<1>a. ASSUME UNCHANGED <<reg, mgr>> PROVE UNCHANGED Supervised!vars
  BY <1>a, SameTasks DEF Supervised!vars, Tasks, TasksOf
<1>1. ASSUME NEW n \in Names, Crash(n) \/ Cancelled(n) \/ Returns(n)
      PROVE  Supervised!Next
  BY <1>0, <1>1, EndShows DEF Crash, Cancelled, Returns, Supervised!Next
<1>2. ASSUME NEW n \in Names,
             OnDone(n) \/ Schedule(n) \/ ReloadRaises(n) \/ ReloadCancelled(n)
      PROVE  UNCHANGED Supervised!vars
  BY <1>a, <1>2 DEF OnDone, Schedule, ReloadRaises, ReloadCancelled
<1>3. ASSUME NEW n \in Names, Restart(n) PROVE Supervised!Next
  BY <1>3, RestartShows
<1>4. ASSUME NEW n \in Names, ReloadCancel(n) PROVE UNCHANGED Supervised!vars
  <2>1. /\ reg'[n].st = "cancelling" /\ reg'[n].mgr = reg[n].mgr /\ Live(n)
        /\ \A o \in Names \ {n} : reg'[o] = reg[o]
    BY <1>0, <1>4, ToType DEF ReloadCancel, TypeOK
  <2>2. UNCHANGED Tasks BY <2>1, TasksFrame DEF Live
  <2> QED BY <1>4, <2>2 DEF ReloadCancel, Supervised!vars, Tasks, TasksOf
<1>5. ASSUME NEW nodes \in BOOLEAN, Startup(nodes)
      PROVE  Supervised!Next \/ UNCHANGED Supervised!vars
  <2>1. CASE ~nodes BY <1>5, <1>a, <2>1 DEF Startup
  <2>2. CASE nodes
    <3>1. mgr' = 1 /\ Start(Names, 1) BY <1>5, <2>2 DEF Startup
    <3>2. \A n \in Names : ~Live(n) BY <1>5 DEF Startup, IInv, MgrInv, Live
    <3>3. 1 \in Managers BY CollectorAssumption DEF Managers
    <3>4. Supervised!Start(Names, 1) BY <1>0, <3>1, <3>2, <3>3, StartShows
    <3>5. \A n \in SshNames : Tasks[n] = {}
      BY <3>2, CollectorAssumption DEF Tasks, TasksOf
    <3>6. Supervised!Renew(1, Names)
      BY <3>1, <3>4, <3>5 DEF Supervised!Renew, Tasks, TasksOf
    <3> QED BY <3>3, <3>6 DEF Supervised!Next
  <2> QED BY <2>1, <2>2
<1>6. ASSUME NEW ssh \in BOOLEAN, NEW rccl \in BOOLEAN, NEW polling \in BOOLEAN,
             ReloadBegin(ssh, rccl, polling)
      PROVE  UNCHANGED Supervised!vars
  BY <1>a, <1>6 DEF ReloadBegin
<1>7. CASE Shutdown
  <2>1. \A n \in Names :
          Live(n)' = Live(n) /\ (Live(n) => reg'[n].mgr = reg[n].mgr)
    BY <1>0, <1>7, ToType DEF Shutdown, Live
  <2>2. UNCHANGED Tasks BY <2>1, TasksFrame
  <2> QED BY <1>7, <2>2 DEF Shutdown, Supervised!vars, Tasks, TasksOf
<1>8. CASE ReloadFinish \/ ReloadAwaited
  <2>1. /\ Finish(mgr) /\ UNCHANGED mgr
        /\ \A n \in rl.names : ~Live(n)
    BY <1>8 DEF ReloadFinish, ReloadAwaited, AllCancelled, IInv, ReloadInv, Quiet, Live
  <2>2. CASE mgr = 0 BY <1>a, <2>1, <2>2 DEF Finish
  <2>3. CASE mgr # 0 BY <1>0, <2>1, <2>3, RunShows DEF Finish
  <2> QED BY <2>2, <2>3
<1>9. CASE ReloadDirect
  <2>1. reloads + 1 \in Managers /\ reloads + 1 # 0 BY <1>0, NextManager
  <2>2. /\ rl.ssh /\ pc = "cancel" /\ \A n \in rl.names : Quiet(n)
        /\ mgr' = reloads + 1 /\ Start(rl.names, reloads + 1)
    BY <1>9, <2>1 DEF ReloadDirect, AllCancelled, Finish, IInv, ReloadInv
  <2> QED BY <1>0, <2>1, <2>2, RenewShows
<1>10. CASE ReloadJump \/ ReloadManager
  <2>1. /\ rl.ssh /\ pc \in {"cancel", "between"} /\ \A n \in rl.names : Quiet(n)
        /\ mgr' \in {0, reloads + 1} /\ UNCHANGED reg
    BY <1>10 DEF ReloadJump, ReloadManager, AllCancelled, IInv, ReloadInv
  <2>2. mgr' \in Managers
    <3>1. 0 \in Managers BY CollectorAssumption DEF Managers
    <3>2. CASE mgr' = 0 BY <3>1, <3>2
    <3>3. CASE mgr' # 0 BY <1>0, <2>1, <3>3, NextManager
    <3> QED BY <3>2, <3>3
  <2>3. PICK m \in Managers : mgr' = m BY <2>2
  <2>4. {} \in SUBSET Names OBVIOUS
  <2> QED BY <2>1, <2>3, <2>4, RenewShows
<1>11. CASE UNCHANGED vars BY <1>a, <1>11 DEF vars
<1> QED
  BY <1>1, <1>2, <1>3, <1>4, <1>5, <1>6, <1>7, <1>8, <1>9, <1>10, <1>11
  DEF Next, Loop, Reload

\* OneTaskEach: the collectors implement their supervision: none is started while it
\* runs, each starts with the manager of that moment, and the manager changes only
\* while no collector that uses it runs, whatever crashes and reloads.
THEOREM CollectorOneTaskEach == Spec => OneTaskEach
<1>1. Init => Supervised!Init
  BY RecordTypes DEF Init, Supervised!Init, Live
<1>2. Init => GoneInv BY DEF Init, GoneInv
<1> QED
  BY <1>1, <1>2, GoneNext, SupervisedNext, CollectorInvariant, PTL
  DEF Spec, OneTaskEach, Supervised!Spec
=============================================================================
