----------------------- MODULE DaemonLifecycleProofs -----------------------
(* Proofs about DaemonLifecycle, for any configurations and bounds. *)
EXTENDS DaemonLifecycle, TLAPS

\* The states in which the supervisor answers for a process.
Owning == {"spawning", "poll", "deliver", "wait"}
Own(p) == Alive(p) /\ proc[p].gen = gen

\* A live daemon of this process image is the supervisor's.
Owned == \A p \in Pids : Own(p) => lc.pc \in Owning /\ p = lc.proc
Young == \A p \in Pids : Alive(p) => proc[p].gen <= gen

\* What go_collector takes for the daemon is the supervisor's, or not alive.
Registered ==
  /\ lc.pc \in {"poll", "deliver", "wait"} => dproc = lc.proc
  /\ lc.pc = "spawning" => dproc # lc.proc
  /\ Alive(dproc) => proc[dproc].gen = gen
  /\ lc.pc \in Owning /\ Alive(lc.proc) => proc[lc.proc].gen = gen

\* While a daemon is being stopped the supervisor starts no other.
Stopping ==
  pc \in {"stopping", "halting"} =>
    /\ stopping
    /\ lc.pc \in {"poll", "deliver", "wait", "ended"}
    /\ lc.pc # "ended" => lc.proc = rl.proc

Quiet ==
  /\ pc = "down" => lc.pc = "off" /\ mgr = NoMgr
  /\ pc = "fetch" => lc.pc = "off"
  /\ pc = "gone" => lc.pc \in {"off", "aborting"}

\* A daemon dials as the supervisor's manager says.
Dials ==
  lc.pc \in Owning /\ Alive(lc.proc) => proc[lc.proc].dial = lc.mgr.conf

\* Manager, supervisor and settings go together, unless a reload is between the
\* change of the settings and its end, or failed there.
Together == mgr.conf = settings /\ (settings \in Jump => lc.mgr = mgr)
Agree ==
  /\ pc = "await" => Together
  /\ pc = "inplace" => settings \notin Jump
  /\ (pc \in {"boot", "idle", "nudge", "refetch", "redeliver"}
        \/ (pc = "cancel" /\ ~rl.ssh))
     /\ ~lost /\ mgr # NoMgr
     => Together

OwnInv == Owned /\ OneDaemon /\ Young /\ Registered /\ Stopping /\ Quiet
ApplyInv == Dials /\ Agree

-----------------------------------------------------------------------------
(* Type correctness *)

\* refresh_nodes changes what a daemon knows, not whether and how it runs.
LEMMA RefreshedKeeps ==
  ASSUME TypeOK, NEW m \in Msg
  PROVE  /\ Refreshed(m) \in [Pids -> Daemon]
         /\ \A p \in Pids : /\ Refreshed(m)[p].st = proc[p].st
                            /\ Refreshed(m)[p].gen = proc[p].gen
                            /\ Refreshed(m)[p].dial = proc[p].dial
<1>1. CASE ~Answers
  BY <1>1 DEF Refreshed, TypeOK
<1>2. CASE Answers
  <2>1. sock \in Pids /\ proc[sock] \in Daemon /\ proc \in [Pids -> Daemon]
    BY <1>2, DaemonAssumption DEF Answers, TypeOK, Pids
  <2>2. /\ Updated(proc[sock], m) \in Daemon
        /\ Updated(proc[sock], m).st = proc[sock].st
        /\ Updated(proc[sock], m).gen = proc[sock].gen
        /\ Updated(proc[sock], m).dial = proc[sock].dial
    BY <2>1 DEF Updated, Daemon, Msg
  <2> QED  BY <1>2, <2>1, <2>2 DEF Refreshed
<1> QED  BY <1>1, <1>2

\* The records at rest have their types.
LEMMA RestTypes ==
  /\ NoMgr \in Mgr /\ RlNone \in Locals /\ Dead \in Daemon /\ LcOff \in Supervisor
  /\ 0 \in 0..MaxProcs /\ 0 \in 0..MaxExecs
<1>1. NoMgr \in Mgr
  BY DEF NoMgr, Mgr
<1>2. 0 \in 0..MaxProcs /\ 0 \in 0..MaxExecs
  BY DaemonAssumption
<1>3. RlNone \in Locals
  BY <1>2 DEF RlNone, Locals
<1>4. Dead \in Daemon
  BY <1>2 DEF Dead, Daemon
<1>5. LcOff \in Supervisor
  BY <1>1, <1>2 DEF LcOff, Supervisor, LcPc
<1> QED  BY <1>1, <1>2, <1>3, <1>4, <1>5

LEMMA StartType ==
  ASSUME NEW m \in Mgr, StartSupervisor(m)
  PROVE  mgr' \in Mgr /\ lc' \in Supervisor
BY RestTypes DEF StartSupervisor, Supervisor, LcPc

LEMMA ExitType == ASSUME TypeOK PROVE AfterExit \in Supervisor
<1>1. lc \in Supervisor /\ lc.restarts + 1 \in Nat
  BY DEF TypeOK, Supervisor
<1>2. \A c \in LcPc, n \in Nat :
        /\ [lc EXCEPT !.pc = c] \in Supervisor
        /\ [lc EXCEPT !.restarts = n, !.pc = c] \in Supervisor
  BY <1>1 DEF Supervisor
<1>3. {"ended", "aborting", "top"} \subseteq LcPc
  BY DEF LcPc
<1> QED  BY <1>1, <1>2, <1>3 DEF AfterExit

LEMMA KeyMsgType ==
  ASSUME TypeOK
  PROVE  KeyMsg \in Msg
BY DaemonAssumption DEF Msg, KeyMsg, TypeOK, Supervisor, Mgr

LEMMA CancelType ==
  ASSUME TypeOK, NEW to, NEW ps \in [Pids -> Daemon], CancelSupervisor(to, ps)
  PROVE  /\ proc' \in [Pids -> Daemon]
         /\ late' \subseteq Msg /\ lc' \in Supervisor /\ pc' = to
BY RestTypes, KeyMsgType DEF CancelSupervisor, TypeOK

\* Both branches of _stop_daemon.
LEMMA StopType ==
  ASSUME TypeOK, NEW wait \in Steps, NEW to \in Steps, StopDaemon(wait, to)
  PROVE  /\ proc' \in [Pids -> Daemon] /\ rl' \in Locals /\ lc' \in Supervisor
         /\ late' \subseteq Msg /\ pc' \in Steps /\ stopping' \in BOOLEAN
         /\ sock' \in 0..MaxProcs /\ mgr' \in Mgr
<1>1. CASE Alive(dproc)
  <2>1. dproc \in Pids /\ proc[dproc] \in Daemon
    BY <1>1, DaemonAssumption DEF Alive, TypeOK, Pids
  <2>2. [proc EXCEPT ![dproc].st = "term"] \in [Pids -> Daemon]
    BY <2>1 DEF Daemon, TypeOK
  <2>3. [rl EXCEPT !.proc = dproc] \in Locals
    BY DEF TypeOK, Locals
  <2> QED  BY <1>1, <2>2, <2>3 DEF StopDaemon, TypeOK
<1>2. CASE ~Alive(dproc)
  <2>1. proc \in [Pids -> Daemon] /\ CancelSupervisor(to, proc)
    BY <1>2 DEF StopDaemon, TypeOK
  <2>2. 0 \in 0..MaxProcs
    BY DaemonAssumption
  <2> QED  BY <1>2, <2>1, <2>2, CancelType, RestTypes DEF StopDaemon, TypeOK
<1> QED  BY <1>1, <1>2

\* The key of a node is fetched for configurations with a jump host only.
AtJump == pc \in {"stopping", "fetch", "refetch"} => settings \in Jump

LEMMA JumpOnly == Spec => []AtJump
<1>1. Init => AtJump
  BY DEF Init, AtJump
<1>2. AtJump /\ [Next]_vars => AtJump'
  <2> SUFFICES ASSUME AtJump, [Next]_vars PROVE AtJump'
    OBVIOUS
  <2> USE DEF AtJump, store, backend, bounds
  <2>1. CASE Supervise
    BY <2>1 DEF Supervise, LcSpawn, LcRegister, LcReady, LcNotReady, LcDeliver, LcExit,
                OsExit, LcRest
  <2>2. CASE Trouble
    BY <2>2 DEF Trouble, LcSpawnFails, ReloadRaises, LateCall, Crash, LcRest, Report
  <2>3. CASE Daemons
    BY <2>3 DEF Daemons, Listen, Dies
  <2>4. CASE Answer
    BY <2>4 DEF Answer, ReloadCollectors, ReloadNudge, ReloadRedeliver, ReloadUpdated,
                ReloadInPlace, ReloadStop, ReloadStopped, ReloadRestart, ReloadWaited,
                ReloadRefetch, StopDaemon, Stopped, CancelSupervisor, Report, AppRest
  <2>5. CASE Application
    BY <2>4, <2>5 DEF Application, Startup, Booted, Halted, Stopped, CancelSupervisor,
                AppRest
  <2>6. CASE Requests
    BY <2>6 DEF Requests, Shutdown, StopDaemon, CancelSupervisor, Exec, UploadKey, Edit,
                ReloadBegin, Report, AppRest
  <2>7. CASE UNCHANGED vars
    BY <2>7 DEF vars
  <2> QED  BY <2>1, <2>2, <2>3, <2>5, <2>6, <2>7 DEF Next
<1> QED  BY <1>1, <1>2, PTL DEF Spec

\* TypeOK: every variable has its type; a node key belongs to a jump configuration.
THEOREM DaemonTypeOK == Spec => []TypeOK
<1>1. Init => TypeOK
  <2> SUFFICES ASSUME Init PROVE TypeOK
    OBVIOUS
  <2>1. disk \in Files /\ keys \subseteq Confs
    BY DEF Init, Files
  <2>2. proc \in [Pids -> Daemon] /\ pc \in Steps
    BY RestTypes DEF Init, Steps
  <2> QED  BY <2>1, <2>2, RestTypes DEF Init, TypeOK
<1>2. TypeOK /\ AtJump /\ [Next]_vars => TypeOK'
  <2> SUFFICES ASSUME TypeOK, AtJump, [Next]_vars PROVE TypeOK'
    OBVIOUS
  <2> USE DaemonAssumption, RestTypes DEF TypeOK, store, backend, bounds
  <2>1. CASE LcSpawn
    <3>1. PICK p \in FreePids :
            /\ proc' = [proc EXCEPT ![p] =
                 [st |-> "starting", gen |-> gen, dial |-> lc.mgr.conf,
                  cred |-> lc.mgr.conf, key |-> None, nodes |-> lc.mgr.nodes]]
            /\ lc' = [lc EXCEPT !.pc = "spawning", !.proc = p]
      BY <2>1 DEF LcSpawn
    <3>2. p \in Pids /\ p \in 0..MaxProcs
      BY DEF FreePids, Pids
    <3>3. lc' \in Supervisor /\ lc.mgr \in Mgr
      BY <3>1, <3>2 DEF Supervisor, LcPc
    <3>4. proc' \in [Pids -> Daemon]
      BY <3>1, <3>2, <3>3 DEF Daemon, Mgr
    <3> QED  BY <2>1, <3>3, <3>4 DEF LcSpawn, LcRest
  <2>2. CASE LcRegister
    BY <2>2 DEF LcRegister, LcRest, Supervisor, LcPc
  <2>3. CASE LcReady
    BY <2>3 DEF LcReady, LcRest, Supervisor, LcPc
  <2>4. CASE LcNotReady
    <3>1. proc' \in [Pids -> Daemon]
      BY <2>4 DEF LcNotReady
    <3>2. lc' \in Supervisor
      BY <2>4 DEF LcNotReady, Supervisor, LcPc
    <3>3. faults' \in Nat
      BY <2>4 DEF LcNotReady, Fault
    <3> QED  BY <2>4, <3>1, <3>2, <3>3 DEF LcNotReady, LcRest
  <2>5. CASE LcDeliver
    BY <2>5, RefreshedKeeps, KeyMsgType DEF LcDeliver, LcRest, Supervisor, LcPc
  <2>6. CASE LcExit
    BY <2>6, ExitType DEF LcExit, LcRest
  <2>7. CASE OsExit
    BY <2>7 DEF OsExit, Steps
  <2>8. CASE LcSpawnFails
    BY <2>8, ExitType DEF LcSpawnFails, LcRest, Fault
  <2>9. CASE ReloadRaises
    BY <2>9 DEF ReloadRaises, Report, Fault, Steps
  <2>10. CASE LateCall
    BY <2>10, RefreshedKeeps DEF LateCall
  <2>11. CASE \E p \in Pids : Crash(p)
    BY <2>11 DEF Crash, Fault
  <2>12. CASE \E p \in Pids : Listen(p)
    <3>1. PICK p \in Pids : Listen(p)
      BY <2>12
    <3>2. proc' \in [Pids -> Daemon]
      BY <3>1 DEF Listen, Daemon
    <3>3. sock' \in 0..MaxProcs
      BY <3>1 DEF Listen, Pids
    <3> QED  BY <3>1, <3>2, <3>3 DEF Listen
  <2>13. CASE \E p \in Pids : Dies(p)
    BY <2>13 DEF Dies
  <2>14. CASE ReloadCollectors
    BY <2>14 DEF ReloadCollectors, Report, AppRest, Steps
  <2>15. CASE ReloadNudge
    BY <2>15, RefreshedKeeps DEF ReloadNudge, Report, Steps, Msg, Locals
  <2>16. CASE ReloadRedeliver
    BY <2>16, RefreshedKeeps DEF ReloadRedeliver, Report, Steps, Msg, Locals
  <2>17. CASE ReloadUpdated
    BY <2>17, RefreshedKeeps DEF ReloadUpdated, Report, Steps, Msg, Mgr, Locals
  <2>18. CASE ReloadInPlace
    BY <2>18 DEF ReloadInPlace, AppRest, Steps
  <2>19. CASE ReloadStop
    BY <2>19, StopType DEF ReloadStop, Steps
  <2>20. CASE ReloadStopped
    BY <2>20, CancelType DEF ReloadStopped, Stopped, Steps
  <2>21. CASE ReloadRestart
    <3>1. [conf |-> settings, nodes |-> rl.nodes] \in Mgr
      BY DEF Mgr, Locals
    <3>2. mgr' \in Mgr /\ lc' \in Supervisor
      BY <2>21, <3>1, StartType DEF ReloadRestart
    <3>3. nodeKey' \in Jump \cup {None}
      BY <2>21 DEF ReloadRestart, AtJump
    <3> QED  BY <2>21, <3>2, <3>3 DEF ReloadRestart, StartSupervisor, AppRest, Steps
  <2>22. CASE ReloadWaited
    BY <2>22 DEF ReloadWaited, Report, AppRest, Steps
  <2>23. CASE \E ok \in BOOLEAN : ReloadRefetch(ok)
    <3>1. PICK ok \in BOOLEAN : ReloadRefetch(ok)
      BY <2>23
    <3>2. nodeKey' \in Jump \cup {None}
      BY <3>1 DEF ReloadRefetch, AtJump
    <3>3. pc' \in Steps /\ rl' \in Locals /\ last' \in {"none", "ok", "failed"}
      BY <3>1 DEF ReloadRefetch, Report, Steps
    <3> QED  BY <3>1, <3>2, <3>3 DEF ReloadRefetch, AppRest
  <2>24. CASE Startup
    <3>1. disk \in Mgr /\ disk.conf \in Confs
      BY DEF Mgr, Files
    <3>2. mgr' \in Mgr /\ lc' \in Supervisor
      BY <2>24, <3>1, StartType DEF Startup
    <3>3. /\ nodeKey' \in Jump \cup {None}
          /\ stopping' \in BOOLEAN /\ ready' \in BOOLEAN /\ pc' \in Steps
      BY <2>24 DEF Startup, StartSupervisor, Steps
    <3> QED  BY <2>24, <3>1, <3>2, <3>3 DEF Startup, AppRest
  <2>25. CASE Booted
    BY <2>25 DEF Booted, AppRest, Steps
  <2>26. CASE Halted
    BY <2>26, CancelType DEF Halted, Stopped, Steps
  <2>27. CASE Shutdown
    BY <2>27, StopType DEF Shutdown, Steps
  <2>28. CASE Exec
    <3>1. gen' \in 0..MaxExecs
      BY <2>28 DEF Exec
    <3> QED  BY <2>28, <3>1 DEF Exec, Steps
  <2>29. CASE UploadKey
    BY <2>29 DEF UploadKey, Files
  <2>30. CASE \E c \in Confs, n \in NodeLists : Edit(c, n)
    BY <2>30 DEF Edit, Files
  <2>31. CASE \E b \in BOOLEAN : ReloadBegin(b)
    <3>1. PICK polling \in BOOLEAN : ReloadBegin(polling)
      BY <2>31
    <3>2. disk.conf \in Confs /\ disk.nodes \in NodeLists \cup {None}
      BY DEF Files
    <3>3. CASE disk.nodes = None \/ disk.conf \notin keys
      <4>1. Report("failed") /\ (lost' = (lost \/ settings # disk.conf))
        BY <3>1, <3>3 DEF ReloadBegin
      <4>2. lost' \in BOOLEAN
        BY <4>1
      <4>3. rl' \in Locals /\ pc' \in Steps /\ last' \in {"none", "ok", "failed"}
        BY <4>1 DEF Report, Steps
      <4> QED  BY <3>1, <3>2, <4>2, <4>3 DEF ReloadBegin, AppRest
    <3>4. CASE ~(disk.nodes = None \/ disk.conf \notin keys)
      <4>1. pc' \in {"cancel", "refetch", "nudge"}
        BY <3>1, <3>4 DEF ReloadBegin
      <4>2. rl' = [nodes |-> disk.nodes, ssh |-> settings # disk.conf, proc |-> 0]
        BY <3>1, <3>4 DEF ReloadBegin
      <4>3. rl' \in Locals
        BY <4>2, <3>2 DEF Locals
      <4> QED  BY <3>1, <3>2, <3>4, <4>1, <4>3 DEF ReloadBegin, AppRest, Steps
    <3> QED  BY <3>3, <3>4
  <2>32. CASE UNCHANGED vars
    BY <2>32 DEF vars
  <2> QED
    BY <2>1, <2>2, <2>3, <2>4, <2>5, <2>6, <2>7, <2>8, <2>9, <2>10, <2>11, <2>12, <2>13, <2>14, <2>15, <2>16, <2>17, <2>18, <2>19, <2>20, <2>21, <2>22, <2>23, <2>24, <2>25, <2>26, <2>27, <2>28, <2>29, <2>30, <2>31, <2>32
    DEF Next, Supervise, Trouble, Daemons, Answer, Application, Requests
<1> QED  BY <1>1, <1>2, JumpOnly, PTL DEF Spec

-----------------------------------------------------------------------------
(* Who runs *)

\* What a call of the daemon changes is invisible to the invariant.
LEMMA CallKeepsOwn ==
  ASSUME TypeOK, OwnInv, NEW m \in Msg, proc' = Refreshed(m),
         UNCHANGED <<gen, dproc, stopping>>, lc'.proc = lc.proc,
         \/ UNCHANGED <<lc, pc, rl, mgr>>
         \/ UNCHANGED lc /\ pc' = "idle"
         \/ lc.pc = "deliver" /\ lc'.pc = "wait" /\ UNCHANGED <<pc, rl, mgr>>
  PROVE  OwnInv'
<1>1. \A p \in 0..MaxProcs :
        /\ Alive(p)' = Alive(p)
        /\ p # 0 => proc'[p].gen = proc[p].gen
  BY RefreshedKeeps, DaemonAssumption DEF Alive, Pids, TypeOK
<1>2. \A p \in Pids : p \in 0..MaxProcs /\ p # 0
  BY DEF Pids
<1>3. dproc \in 0..MaxProcs /\ lc.proc \in 0..MaxProcs /\ ~Alive(0)
  BY DEF TypeOK, Supervisor, Alive
<1>4. (lc'.pc \in Owning) = (lc.pc \in Owning)
  BY DEF Owning
<1>5. Owned' /\ OneDaemon' /\ Young'
  BY <1>1, <1>2, <1>4 DEF OwnInv, Owned, OneDaemon, Young, Own
<1>6. Registered'
  BY <1>1, <1>3, <1>4 DEF OwnInv, Registered
<1>7. Stopping' /\ Quiet'
  BY DEF OwnInv, Stopping, Quiet
<1> QED  BY <1>5, <1>6, <1>7 DEF OwnInv

\* Stopping the daemon: it is the supervisor's, and the supervisor goes with it.
LEMMA StopOwn ==
  ASSUME TypeOK, OwnInv, NEW wait \in {"stopping", "halting"},
         NEW to \in {"fetch", "gone"}, StopDaemon(wait, to),
         pc \in {"idle", "cancel"}, UNCHANGED <<gen, dproc>>
  PROVE  OwnInv'
<1> USE DaemonAssumption
    DEF OwnInv, Owned, OneDaemon, Young, Registered, Stopping, Quiet, Own, Owning, Alive
<1>1. CASE Alive(dproc)
  <2>1. dproc \in Pids /\ proc[dproc] \in Daemon /\ proc \in [Pids -> Daemon]
    BY <1>1 DEF TypeOK, Pids
  <2>2. /\ lc.pc \in {"poll", "deliver", "wait"} /\ lc.proc = dproc
        /\ stopping' /\ pc' = wait /\ UNCHANGED <<lc, mgr>>
        /\ rl'.proc = dproc
        /\ proc' = [proc EXCEPT ![dproc].st = "term"]
    BY <1>1, <2>1 DEF StopDaemon, TypeOK, Locals
  <2>3. \A p \in Pids : /\ proc'[p].gen = proc[p].gen
                         /\ Alive(p)' = Alive(p)
    BY <1>1, <2>1, <2>2 DEF Daemon
  <2> QED  BY <2>1, <2>2, <2>3
<1>2. CASE ~Alive(dproc)
  <2>1. /\ lc' = LcOff /\ pc' = to /\ mgr' = NoMgr /\ stopping'
        /\ proc' = IF lc.pc = "spawning" THEN [proc EXCEPT ![lc.proc] = Dead] ELSE proc
    BY <1>2 DEF StopDaemon, CancelSupervisor
  <2>2. \A p \in Pids : \/ (proc'[p].st = proc[p].st /\ proc'[p].gen = proc[p].gen)
                         \/ proc'[p] = Dead
    BY <2>1 DEF TypeOK
  <2>3. \A p \in Pids : ~Own(p)'
    BY <1>2, <2>1 DEF TypeOK, Pids, Dead
  <2>4. ~Alive(dproc)'
    BY <1>2, <2>2 DEF TypeOK, Pids, Dead
  <2>5. Owned' /\ OneDaemon' /\ Young'
    BY <2>2, <2>3 DEF Dead, TypeOK
  <2> QED  BY <2>1, <2>4, <2>5 DEF LcOff
<1> QED  BY <1>1, <1>2

LEMMA OwnStep == TypeOK /\ OwnInv /\ [Next]_vars => OwnInv'
<1> SUFFICES ASSUME TypeOK, OwnInv, [Next]_vars PROVE OwnInv'
  OBVIOUS
<1> USE DaemonAssumption
    DEF store, backend, bounds, OwnInv, Owned, OneDaemon, Young, Registered, Stopping,
        Quiet, Own, Owning, Alive
<1>1. CASE LcSpawn
  <2>1. PICK p \in FreePids :
          /\ proc' = [proc EXCEPT ![p] =
               [st |-> "starting", gen |-> gen, dial |-> lc.mgr.conf,
                cred |-> lc.mgr.conf, key |-> None, nodes |-> lc.mgr.nodes]]
          /\ lc' = [lc EXCEPT !.pc = "spawning", !.proc = p]
    BY <1>1 DEF LcSpawn
  <2>2. p \in Pids /\ p # dproc /\ p # 0 /\ lc.pc = "top" /\ pc \notin {"down", "gone"}
    BY <1>1 DEF FreePids, Pids, LcSpawn, Up
  <2>3. /\ lc'.pc = "spawning" /\ lc'.proc = p /\ proc'[p].gen = gen
        /\ \A q \in Pids : q # p => proc'[q] = proc[q]
    BY <2>1, <2>2 DEF TypeOK, Supervisor
  <2>4. UNCHANGED <<gen, dproc, pc, stopping, rl, mgr>>
    BY <1>1 DEF LcSpawn, LcRest
  <2>5. pc \notin {"stopping", "halting", "fetch"} /\ \A q \in Pids : ~Own(q)
    BY <2>2 DEF OwnInv, Owned, Owning, Stopping, Quiet
  <2>6. Owned' /\ OneDaemon' /\ Young'
    BY <2>2, <2>3, <2>4, <2>5
      DEF OwnInv, Owned, OneDaemon, Young, Own, Owning, Alive, TypeOK
  <2>7. Registered'
    BY <2>2, <2>3, <2>4, <2>5 DEF OwnInv, Registered, Owning, Alive, TypeOK, Pids
  <2> QED  BY <2>2, <2>3, <2>4, <2>5, <2>6, <2>7 DEF OwnInv, Stopping, Quiet
<1>2. CASE LcRegister
  BY <1>2
  DEF LcRegister, LcRest, Up, TypeOK, Pids, Supervisor, Daemon
<1>3. CASE LcReady
  BY <1>3
  DEF LcReady, LcRest, Up, TypeOK, Pids, Supervisor, Daemon
<1>4. CASE LcNotReady
  BY <1>4
  DEF LcNotReady, LcRest, Up, Fault, Dead, TypeOK, Pids, Supervisor, Daemon
<1>5. CASE LcDeliver
  BY <1>5, KeyMsgType, CallKeepsOwn DEF LcDeliver, LcRest, TypeOK, Supervisor
<1>6. CASE LcExit
  BY <1>6
  DEF LcExit, LcRest, AfterExit, Up, TypeOK, Pids, Supervisor, Daemon
<1>7. CASE OsExit
  BY <1>7
  DEF OsExit, Up, Dead, TypeOK, Pids, Supervisor, Daemon
<1>8. CASE LcSpawnFails
  BY <1>8
  DEF LcSpawnFails, LcRest, AfterExit, Up, Fault, TypeOK, Pids, Supervisor, Daemon
<1>9. CASE ReloadRaises
  BY <1>9
  DEF ReloadRaises, Report, TypeOK, Pids, Supervisor, Daemon
<1>10. CASE LateCall
  BY <1>10, CallKeepsOwn DEF LateCall, TypeOK
<1>11. CASE \E p \in Pids : Crash(p)
  BY <1>11
  DEF Crash, Fault, Dead, TypeOK, Pids, Supervisor, Daemon
<1>12. CASE \E p \in Pids : Listen(p)
  <2>1. PICK p \in Pids : Listen(p)
    BY <1>12
  <2>2. UNCHANGED <<gen, dproc, lc, pc, rl, stopping, mgr>>
    BY <2>1 DEF Listen
  <2>3. \A q \in 0..MaxProcs :
          /\ Alive(q)' = Alive(q)
          /\ q # 0 => proc'[q].gen = proc[q].gen
    BY <2>1 DEF Listen, Alive, TypeOK, Pids, Daemon
  <2>4. /\ \A q \in Pids : q \in 0..MaxProcs /\ q # 0
        /\ dproc \in 0..MaxProcs /\ lc.proc \in 0..MaxProcs /\ ~Alive(0)
    BY DEF TypeOK, Supervisor, Pids, Alive
  <2>5. Owned' /\ OneDaemon' /\ Young' /\ Registered'
    BY <2>2, <2>3, <2>4 DEF OwnInv, Owned, OneDaemon, Young, Registered, Own
  <2> QED  BY <2>2, <2>5 DEF OwnInv, Stopping, Quiet
<1>13. CASE \E p \in Pids : Dies(p)
  BY <1>13
  DEF Dies, Dead, TypeOK, Pids, Supervisor, Daemon
<1>14. CASE ReloadCollectors
  BY <1>14
  DEF ReloadCollectors, Report, AppRest, TypeOK, Pids, Supervisor, Daemon
<1>15. CASE ReloadNudge
  BY <1>15, CallKeepsOwn DEF ReloadNudge, Report, TypeOK, Msg, Locals
<1>16. CASE ReloadRedeliver
  BY <1>16, CallKeepsOwn DEF ReloadRedeliver, Report, TypeOK, Msg, Locals
<1>17. CASE ReloadUpdated
  BY <1>17, CallKeepsOwn DEF ReloadUpdated, Report, TypeOK, Msg, Locals
<1>18. CASE ReloadInPlace
  BY <1>18
  DEF ReloadInPlace, AppRest, TypeOK, Pids, Supervisor, Daemon
<1>19. CASE ReloadStop
  <2>1. CASE lc.pc = "off"
    BY <1>19, <2>1 DEF ReloadStop, OwnInv, Owned, OneDaemon, Young, Registered, Stopping,
                   Quiet, Own, Owning, Alive
  <2>2. CASE lc.pc # "off"
    BY <1>19, <2>2, StopOwn DEF ReloadStop
  <2> QED  BY <2>1, <2>2
<1>20. CASE ReloadStopped
  BY <1>20
 
    DEF ReloadStopped, Stopped, CancelSupervisor, LcOff, Dead, TypeOK, Pids, Supervisor,
        Daemon
<1>21. CASE ReloadRestart
  BY <1>21
  DEF ReloadRestart, StartSupervisor, LcOff, AppRest, TypeOK, Pids, Supervisor, Daemon
<1>22. CASE ReloadWaited
  BY <1>22
  DEF ReloadWaited, Report, AppRest, TypeOK, Pids, Supervisor, Daemon
<1>23. CASE \E ok \in BOOLEAN : ReloadRefetch(ok)
  BY <1>23
  DEF ReloadRefetch, Report, AppRest, TypeOK, Pids, Supervisor, Daemon
<1>24. CASE Startup
  BY <1>24
  DEF Startup, StartSupervisor, LcOff, AppRest, TypeOK, Pids, Supervisor, Daemon
<1>25. CASE Booted
  BY <1>25
  DEF Booted, AppRest, TypeOK, Pids, Supervisor, Daemon
<1>26. CASE Halted
  BY <1>26
  DEF Halted, Stopped, CancelSupervisor, LcOff, Dead, TypeOK, Pids, Supervisor, Daemon
<1>27. CASE Shutdown
  BY <1>27, StopOwn DEF Shutdown
<1>28. CASE Exec
  BY <1>28
  DEF Exec, Serving, LcOff, TypeOK, Pids, Supervisor, Daemon
<1>29. CASE UploadKey
  BY <1>29
  DEF UploadKey, TypeOK, Pids, Supervisor, Daemon
<1>30. CASE \E c \in Confs, n \in NodeLists : Edit(c, n)
  BY <1>30
  DEF Edit, TypeOK, Pids, Supervisor, Daemon
<1>31. CASE \E b \in BOOLEAN : ReloadBegin(b)
  BY <1>31
  DEF ReloadBegin, Report, AppRest, TypeOK, Pids, Supervisor, Daemon
<1>32. CASE UNCHANGED vars
  BY <1>32
  DEF vars, TypeOK, Pids, Supervisor, Daemon
<1> QED
  BY <1>1, <1>2, <1>3, <1>4, <1>5, <1>6, <1>7, <1>8, <1>9, <1>10, <1>11, <1>12, <1>13, <1>14, <1>15, <1>16, <1>17, <1>18, <1>19, <1>20, <1>21, <1>22, <1>23, <1>24, <1>25, <1>26, <1>27, <1>28, <1>29, <1>30, <1>31, <1>32
  DEF Next, Supervise, Trouble, Daemons, Answer, Application, Requests

-----------------------------------------------------------------------------
(* What a reload applies *)

LEMMA StopApply ==
  ASSUME TypeOK, ApplyInv, NEW wait \in {"stopping", "halting"},
         NEW to \in {"fetch", "gone"}, StopDaemon(wait, to)
  PROVE  ApplyInv'
<1>1. pc' \in {"stopping", "halting", "fetch", "gone"}
  BY DEF StopDaemon, CancelSupervisor
<1>2. CASE Alive(dproc)
  <2>1. UNCHANGED lc /\ proc' = [proc EXCEPT ![dproc].st = "term"]
    BY <1>2 DEF StopDaemon
  <2>2. lc.proc # 0 => /\ Alive(lc.proc)' => Alive(lc.proc)
                       /\ proc'[lc.proc].dial = proc[lc.proc].dial
    BY <1>2, <2>1 DEF Alive, TypeOK, Supervisor, Pids, Daemon
  <2> QED  BY <1>1, <2>1, <2>2 DEF ApplyInv, Agree, Dials, Owning, Alive
<1>3. CASE ~Alive(dproc)
  BY <1>1, <1>3 DEF StopDaemon, CancelSupervisor, LcOff, ApplyInv, Agree, Dials, Owning
<1> QED  BY <1>2, <1>3

LEMMA ApplyStep == TypeOK /\ AtJump /\ OwnInv /\ ApplyInv /\ [Next]_vars => ApplyInv'
<1> SUFFICES ASSUME TypeOK, AtJump, OwnInv, ApplyInv, [Next]_vars PROVE ApplyInv'
  OBVIOUS
<1> USE DaemonAssumption
    DEF store, backend, bounds, ApplyInv, Dials, Agree, Together, Owning, Alive
<1>1. CASE LcSpawn
  BY <1>1
  DEF LcSpawn, LcRest, FreePids, Up, TypeOK, Pids, Supervisor, Daemon
<1>2. CASE LcRegister
  BY <1>2
  DEF LcRegister, LcRest, Up, TypeOK, Pids, Supervisor, Daemon
<1>3. CASE LcReady
  BY <1>3
  DEF LcReady, LcRest, Up, TypeOK, Pids, Supervisor, Daemon
<1>4. CASE LcNotReady
  BY <1>4
  DEF LcNotReady, LcRest, Up, Fault, Dead, TypeOK, Pids, Supervisor, Daemon
<1>5. CASE LcDeliver
  BY <1>5, RefreshedKeeps, KeyMsgType
  DEF LcDeliver, LcRest, KeyMsg, TypeOK, Pids, Supervisor, Locals, Msg
<1>6. CASE LcExit
  BY <1>6
  DEF LcExit, LcRest, AfterExit, Up, TypeOK, Pids, Supervisor, Daemon
<1>7. CASE OsExit
  BY <1>7
  DEF OsExit, Up, Dead, TypeOK, Pids, Supervisor, Daemon
<1>8. CASE LcSpawnFails
  BY <1>8
  DEF LcSpawnFails, LcRest, AfterExit, Up, Fault, TypeOK, Pids, Supervisor, Daemon
<1>9. CASE ReloadRaises
  BY <1>9
  DEF ReloadRaises, Report, TypeOK, Pids, Supervisor, Daemon
<1>10. CASE LateCall
  BY <1>10, RefreshedKeeps, KeyMsgType
  DEF LateCall, TypeOK, Pids, Supervisor, Locals, Msg
<1>11. CASE \E p \in Pids : Crash(p)
  BY <1>11
  DEF Crash, Fault, Dead, TypeOK, Pids, Supervisor, Daemon
<1>12. CASE \E p \in Pids : Listen(p)
  BY <1>12
  DEF Listen, TypeOK, Pids, Supervisor, Daemon
<1>13. CASE \E p \in Pids : Dies(p)
  BY <1>13
  DEF Dies, Dead, TypeOK, Pids, Supervisor, Daemon
<1>14. CASE ReloadCollectors
  BY <1>14
  DEF ReloadCollectors, Report, AppRest, TypeOK, Pids, Supervisor, Daemon
<1>15. CASE ReloadNudge
  BY <1>15, RefreshedKeeps, KeyMsgType
  DEF ReloadNudge, Report, TypeOK, Pids, Supervisor, Locals, Msg
<1>16. CASE ReloadRedeliver
  BY <1>16, RefreshedKeeps, KeyMsgType
  DEF ReloadRedeliver, Report, TypeOK, Pids, Supervisor, Locals, Msg
<1>17. CASE ReloadUpdated
  BY <1>17, RefreshedKeeps, KeyMsgType
  DEF ReloadUpdated, Report, TypeOK, Pids, Supervisor, Locals, Msg
<1>18. CASE ReloadInPlace
  BY <1>18
  DEF ReloadInPlace, AppRest, TypeOK, Pids, Supervisor, Daemon
<1>19. CASE ReloadStop
  <2>1. CASE lc.pc = "off"
    BY <1>19, <2>1 DEF ReloadStop
  <2>2. CASE lc.pc # "off"
    <3>1. StopDaemon("stopping", "fetch")
      BY <1>19, <2>2 DEF ReloadStop
    <3> QED  BY <3>1, StopApply
  <2> QED  BY <2>1, <2>2
<1>20. CASE ReloadStopped
  BY <1>20
 
    DEF ReloadStopped, Stopped, CancelSupervisor, LcOff, Dead, TypeOK, Pids, Supervisor,
        Daemon
<1>21. CASE ReloadRestart
  BY <1>21
  DEF ReloadRestart, StartSupervisor, LcOff, AppRest, TypeOK, Pids, Supervisor, Daemon
<1>22. CASE ReloadWaited
  BY <1>22
  DEF ReloadWaited, Report, AppRest, TypeOK, Pids, Supervisor, Daemon
<1>23. CASE \E ok \in BOOLEAN : ReloadRefetch(ok)
  BY <1>23
  DEF ReloadRefetch, Report, AppRest, TypeOK, Pids, Supervisor, Daemon
<1>24. CASE Startup
  <2>1. lc.pc = "off" /\ mgr = NoMgr
    BY <1>24 DEF Startup, OwnInv, Quiet
  <2>2. lc'.pc \notin Owning
    BY <1>24, <2>1 DEF Startup, StartSupervisor, LcOff
  <2>3. pc' \in {"boot", "idle"} /\ (mgr' # NoMgr => mgr' = disk /\ lc'.mgr = disk)
    BY <1>24, <2>1 DEF Startup, StartSupervisor, LcOff
  <2> QED  BY <1>24, <2>2, <2>3 DEF Startup, AppRest
<1>25. CASE Booted
  BY <1>25
  DEF Booted, AppRest, TypeOK, Pids, Supervisor, Daemon
<1>26. CASE Halted
  BY <1>26
  DEF Halted, Stopped, CancelSupervisor, LcOff, Dead, TypeOK, Pids, Supervisor, Daemon
<1>27. CASE Shutdown
  BY <1>27, StopApply DEF Shutdown
<1>28. CASE Exec
  BY <1>28
  DEF Exec, Serving, LcOff, TypeOK, Pids, Supervisor, Daemon
<1>29. CASE UploadKey
  BY <1>29
  DEF UploadKey, TypeOK, Pids, Supervisor, Daemon
<1>30. CASE \E c \in Confs, n \in NodeLists : Edit(c, n)
  BY <1>30
  DEF Edit, TypeOK, Pids, Supervisor, Daemon
<1>31. CASE \E b \in BOOLEAN : ReloadBegin(b)
  <2>1. PICK polling \in BOOLEAN : ReloadBegin(polling)
    BY <1>31
  <2>2. pc = "idle" /\ settings' = disk.conf /\ UNCHANGED <<mgr, lc, dproc, proc>>
    BY <2>1 DEF ReloadBegin, AppRest
  <2>3. CASE disk.nodes = None \/ disk.conf \notin keys
    BY <2>1, <2>2, <2>3 DEF ReloadBegin, Report
  <2>4. CASE ~(disk.nodes = None \/ disk.conf \notin keys)
    <3>1. /\ pc' \in {"cancel", "nudge", "refetch"}
          /\ settings # disk.conf => pc' = "cancel"
          /\ rl'.ssh = (settings # disk.conf) /\ lost' = lost
      BY <2>1, <2>4 DEF ReloadBegin
    <3> QED  BY <2>2, <3>1
  <2> QED  BY <2>3, <2>4
<1>32. CASE UNCHANGED vars
  BY <1>32
  DEF vars, TypeOK, Pids, Supervisor, Daemon
<1> QED
  BY <1>1, <1>2, <1>3, <1>4, <1>5, <1>6, <1>7, <1>8, <1>9, <1>10, <1>11, <1>12, <1>13, <1>14, <1>15, <1>16, <1>17, <1>18, <1>19, <1>20, <1>21, <1>22, <1>23, <1>24, <1>25, <1>26, <1>27, <1>28, <1>29, <1>30, <1>31, <1>32
  DEF Next, Supervise, Trouble, Daemons, Answer, Application, Requests

-----------------------------------------------------------------------------
(* The theorems *)

THEOREM DaemonInvariant == Spec => [](TypeOK /\ OwnInv /\ ApplyInv)
<1>1. Init => OwnInv /\ ApplyInv /\ AtJump
  BY DaemonAssumption
  DEF Init, OwnInv, Owned, OneDaemon, Young, Registered, Stopping, Quiet, Own, Owning,
      ApplyInv, Dials, Agree, Together, AtJump, Alive, Pids, Dead, LcOff, NoMgr
<1>2. TypeOK /\ OwnInv /\ [Next]_vars => OwnInv'
  BY OwnStep
<1>3. TypeOK /\ AtJump /\ OwnInv /\ ApplyInv /\ [Next]_vars => ApplyInv'
  BY ApplyStep
<1> QED  BY <1>1, <1>2, <1>3, DaemonTypeOK, JumpOnly, PTL DEF Spec

\* OneDaemon: no process image of the backend ever has two daemons.
THEOREM DaemonOneDaemon == Spec => []OneDaemon
<1>1. OwnInv => OneDaemon
  BY DEF OwnInv
<1> QED  BY <1>1, DaemonInvariant, PTL

\* NothingLeftBehind: a backend that has shut down leaves no daemon of its own.
THEOREM DaemonNothingLeftBehind == Spec => []NothingLeftBehind
<1>1. OwnInv => NothingLeftBehind
  BY DEF OwnInv, Owned, Quiet, Own, Owning, NothingLeftBehind
<1> QED  BY <1>1, DaemonInvariant, PTL

\* ReloadApplies: a reload that reports success has been applied to the manager and,
\* behind a jump host, to supervisor and daemon.
THEOREM DaemonReloadApplies == Spec => []ReloadApplies
<1>1. TypeOK /\ OwnInv /\ ApplyInv => ReloadApplies
  <2> SUFFICES ASSUME TypeOK, OwnInv, ApplyInv, pc = "idle", ~lost, mgr # NoMgr
               PROVE  /\ mgr.conf = settings
                      /\ settings \in Jump =>
                           /\ lc.mgr = mgr
                           /\ Alive(dproc) => proc[dproc].dial = settings
    BY DEF ReloadApplies
  <2>1. mgr.conf = settings /\ (settings \in Jump => lc.mgr = mgr)
    BY DEF ApplyInv, Agree, Together
  <2>2. Alive(dproc) => Own(dproc) /\ dproc \in Pids
    BY DEF OwnInv, Registered, Own, Alive, TypeOK, Pids
  <2>3. Alive(dproc) => lc.pc \in Owning /\ dproc = lc.proc
    BY <2>2 DEF OwnInv, Owned
  <2>4. Alive(dproc) => proc[dproc].dial = lc.mgr.conf
    BY <2>3 DEF ApplyInv, Dials
  <2> QED  BY <2>1, <2>4
<1> QED  BY <1>1, DaemonInvariant, PTL

-----------------------------------------------------------------------------
(* One daemon at a time *)

Gens == 0..MaxExecs
DaemonsOfAll == [i \in Gens |-> DaemonsOf(i)]

\* Daemons that only change what they know do not show.
LEMMA DaemonsFrame ==
  ASSUME \A p \in Pids : /\ Alive(p)' = Alive(p)
                         /\ Alive(p) => proc'[p].gen = proc[p].gen
  PROVE  UNCHANGED DaemonsOfAll
BY DEF DaemonsOfAll, DaemonsOf

LEMMA SameDaemons == ASSUME UNCHANGED proc PROVE UNCHANGED DaemonsOfAll
BY DaemonsFrame DEF Alive

LEMMA CallFrame ==
  ASSUME TypeOK, NEW m \in Msg, proc' = Refreshed(m) PROVE UNCHANGED DaemonsOfAll
<1>1. \A p \in Pids : Alive(p)' = Alive(p) /\ proc'[p].gen = proc[p].gen
  BY RefreshedKeeps DEF Alive
<1> QED  BY <1>1, DaemonsFrame

\* A daemon that is gone shows as its end.
LEMMA DeadEnds ==
  ASSUME TypeOK, NEW p \in Pids, proc' = [proc EXCEPT ![p] = Dead],
         UNCHANGED gen, (pc' = "gone") = (pc = "gone")
  PROVE  Supervision!End(p)
<1>1. ASSUME NEW i \in Gens PROVE DaemonsOf(i)' = DaemonsOf(i) \ {p}
  BY DEF DaemonsOf, Alive, Dead, TypeOK
<1>2. DaemonsOfAll' = [i \in Gens |-> DaemonsOfAll[i] \ {p}]
  BY <1>1 DEF DaemonsOfAll
<1> QED  BY <1>2 DEF Supervision!End, DaemonsOfAll, Gens

LEMMA SpawnStarts ==
  ASSUME TypeOK, OwnInv, LcSpawn
  PROVE  \E p \in Pids : Supervision!Start(p)
<1>1. PICK p \in FreePids :
        proc' = [proc EXCEPT ![p] =
          [st |-> "starting", gen |-> gen, dial |-> lc.mgr.conf,
           cred |-> lc.mgr.conf, key |-> None, nodes |-> lc.mgr.nodes]]
  BY DEF LcSpawn
<1>2. p \in Pids /\ p # 0 /\ ~Alive(p) /\ pc # "gone" /\ lc.pc = "top"
      /\ UNCHANGED <<gen, pc>>
  BY DEF FreePids, Pids, LcSpawn, Up, LcRest
<1>3. DaemonsOf(gen) = {}
  BY <1>2 DEF OwnInv, Owned, Own, Owning, DaemonsOf
<1>4. gen \in Gens
  BY DEF TypeOK, Gens
<1>5. \A i \in Gens : p \notin DaemonsOf(i)
  BY <1>2 DEF DaemonsOf
<1>6. /\ proc'[p].st = "starting" /\ proc'[p].gen = gen
      /\ \A q \in Pids \ {p} : proc'[q] = proc[q]
  BY <1>1, <1>2 DEF TypeOK
<1>7. DaemonsOf(gen)' = {p}
  BY <1>2, <1>3, <1>6 DEF DaemonsOf, Alive
<1>8. \A i \in Gens \ {gen} : DaemonsOf(i)' = DaemonsOf(i)
  BY <1>2, <1>6 DEF DaemonsOf, Alive
<1>9. DaemonsOfAll' = [DaemonsOfAll EXCEPT ![gen] = {p}]
  <2>1. \A i \in Gens : DaemonsOf(i)' = IF i = gen THEN {p} ELSE DaemonsOf(i)
    BY <1>2, <1>7, <1>8
  <2> QED  BY <1>2, <1>4, <2>1 DEF DaemonsOfAll, Gens
<1> QED
  BY <1>2, <1>3, <1>4, <1>5, <1>9 DEF Supervision!Start, DaemonsOfAll, Gens

\* Cancelling the supervisor, while the application goes on or with its end.
LEMMA CancelShows ==
  ASSUME TypeOK, OwnInv, OwnInv', NEW to \in {"fetch", "gone"},
         CancelSupervisor(to, proc), pc # "gone", UNCHANGED gen
  PROVE  Supervision!Next \/ UNCHANGED Supervision!vars
<1>1. \/ proc' = proc
      \/ lc.pc = "spawning" /\ proc' = [proc EXCEPT ![lc.proc] = Dead]
  BY DEF CancelSupervisor
<1>2. lc'.pc = "off" /\ pc' = to
  BY DEF CancelSupervisor, LcOff
<1>3. CASE to = "fetch"
  <2>1. CASE proc' = proc
    BY <1>2, <1>3, <2>1, SameDaemons DEF Supervision!vars, DaemonsOfAll, Gens
  <2>2. CASE lc.proc = 0
    <3>1. lc.proc \notin Pids
      BY <2>2 DEF Pids
    <3>2. proc' = proc
      BY <1>1, <3>1 DEF TypeOK
    <3> QED  BY <2>1, <3>2
  <2>3. CASE lc.proc # 0 /\ proc' = [proc EXCEPT ![lc.proc] = Dead]
    <3>1. lc.proc \in Pids
      BY <2>3, DaemonAssumption DEF TypeOK, Supervisor, Pids
    <3> QED  BY <1>2, <1>3, <2>3, <3>1, DeadEnds DEF Supervision!Next
  <2> QED  BY <1>1, <2>1, <2>2, <2>3
<1>4. CASE to = "gone"
  <2>1. DaemonsOf(gen)' = {}
    BY <1>2 DEF OwnInv, Owned, Own, Owning, DaemonsOf
  <2>2. ASSUME NEW i \in Gens \ {gen} PROVE DaemonsOf(i)' = DaemonsOf(i)
    <3>1. CASE proc' = proc
      BY <3>1 DEF DaemonsOf, Alive
    <3>2. CASE lc.pc = "spawning" /\ proc' = [proc EXCEPT ![lc.proc] = Dead]
      <4>1. Alive(lc.proc) => proc[lc.proc].gen = gen
        BY <3>2 DEF OwnInv, Registered, Owning
      <4> QED  BY <3>2, <4>1 DEF DaemonsOf, Alive, Dead, TypeOK, Pids
    <3> QED  BY <1>1, <3>1, <3>2
  <2>3. DaemonsOfAll' = [DaemonsOfAll EXCEPT ![gen] = {}]
    BY <2>1, <2>2 DEF DaemonsOfAll, Gens, TypeOK
  <2>4. Supervision!Close
    BY <1>2, <1>4, <2>3 DEF Supervision!Close, DaemonsOfAll, Gens
  <2> QED  BY <2>4 DEF Supervision!Next
<1> QED  BY <1>3, <1>4

\* A daemon that is told to stop is alive until it goes.
LEMMA StopShows ==
  ASSUME TypeOK, OwnInv, OwnInv', NEW wait \in {"stopping", "halting"},
         NEW to \in {"fetch", "gone"}, StopDaemon(wait, to), pc # "gone", UNCHANGED gen
  PROVE  Supervision!Next \/ UNCHANGED Supervision!vars
<1>1. CASE Alive(dproc)
  <2>1. dproc \in Pids /\ proc[dproc] \in Daemon /\ proc \in [Pids -> Daemon]
    BY <1>1, DaemonAssumption DEF Alive, TypeOK, Pids
  <2>2. proc' = [proc EXCEPT ![dproc].st = "term"] /\ pc' = wait
    BY <1>1 DEF StopDaemon
  <2>3. \A p \in Pids : Alive(p)' = Alive(p) /\ proc'[p].gen = proc[p].gen
    BY <1>1, <2>1, <2>2 DEF Alive, Daemon
  <2> QED  BY <2>2, <2>3, DaemonsFrame DEF Supervision!vars, DaemonsOfAll, Gens
<1>2. CASE ~Alive(dproc)
  BY <1>2, CancelShows DEF StopDaemon
<1> QED  BY <1>1, <1>2

\* The steps that leave every daemon as it is, and neither end the application nor
\* replace the image.
LEMMA OtherSteps ==
  ASSUME TypeOK,
         \/ LcRegister \/ LcReady \/ LcExit \/ LcSpawnFails \/ ReloadRaises
         \/ ReloadCollectors \/ ReloadInPlace \/ ReloadRestart \/ ReloadWaited
         \/ Startup \/ Booted \/ UploadKey
         \/ \E ok \in BOOLEAN : ReloadRefetch(ok)
         \/ \E c \in Confs, n \in NodeLists : Edit(c, n)
         \/ \E polling \in BOOLEAN : ReloadBegin(polling)
  PROVE  UNCHANGED Supervision!vars
<1>1. UNCHANGED <<proc, gen>> /\ (pc' = "gone") = (pc = "gone")
  BY DEF LcRegister, LcReady, LcExit, LcSpawnFails, LcRest, ReloadRaises,
         ReloadCollectors, ReloadInPlace, ReloadRestart, ReloadWaited, Startup, Booted,
         UploadKey, ReloadRefetch, Edit, ReloadBegin, Report, AppRest, store, backend
<1> QED  BY <1>1, SameDaemons DEF Supervision!vars, DaemonsOfAll, Gens

LEMMA Calls ==
  ASSUME TypeOK,
         LcDeliver \/ LateCall \/ ReloadNudge \/ ReloadRedeliver \/ ReloadUpdated
  PROVE  UNCHANGED Supervision!vars
<1>1. UNCHANGED gen /\ (pc' = "gone") = (pc = "gone")
  BY DEF LcDeliver, LcRest, LateCall, ReloadNudge, ReloadRedeliver, ReloadUpdated,
         Report, bounds
<1>2. \E m \in Msg : proc' = Refreshed(m)
  <2>1. CASE LcDeliver
    BY <2>1, KeyMsgType DEF LcDeliver
  <2>2. CASE LateCall
    BY <2>2 DEF LateCall, TypeOK
  <2>3. /\ rl.nodes \in NodeLists \cup {None} /\ settings \in Confs \cup {None}
        /\ nodeKey \in Confs \cup {None}
    BY DaemonAssumption DEF TypeOK, Locals
  <2>4. CASE ReloadNudge
    BY <2>3, <2>4 DEF ReloadNudge, Msg
  <2>5. CASE ReloadRedeliver
    BY <2>3, <2>5 DEF ReloadRedeliver, Msg
  <2>6. CASE ReloadUpdated
    BY <2>3, <2>6 DEF ReloadUpdated, Msg
  <2> QED  BY <2>1, <2>2, <2>4, <2>5, <2>6
<1> QED  BY <1>1, <1>2, CallFrame DEF Supervision!vars, DaemonsOfAll, Gens

\* The steps of the daemons, and of the supervisor that kills one.
LEMMA DaemonShows ==
  ASSUME TypeOK, NEW p \in 0..MaxProcs, Listen(p) \/ Dies(p) \/ Crash(p)
           \/ (LcNotReady /\ p = lc.proc)
  PROVE  Supervision!Next \/ UNCHANGED Supervision!vars
<1>1. UNCHANGED gen /\ (pc' = "gone") = (pc = "gone")
  BY DEF Listen, Dies, Crash, LcNotReady, LcRest, bounds
<1>2. CASE p = 0
  <2>1. CASE LcNotReady /\ p = lc.proc
    <3>1. UNCHANGED proc
      BY <1>2, <2>1 DEF LcNotReady, TypeOK, Pids
    <3> QED  BY <1>1, <3>1, SameDaemons DEF Supervision!vars, DaemonsOfAll, Gens
  <2>2. CASE Listen(p) \/ Dies(p) \/ Crash(p)
    <3>1. 0 \notin Pids
      BY DEF Pids
    <3>2. UNCHANGED proc
      BY <1>2, <2>2, <3>1 DEF Listen, Dies, Crash, TypeOK
    <3> QED  BY <1>1, <3>2, SameDaemons DEF Supervision!vars, DaemonsOfAll, Gens
  <2> QED  BY <2>1, <2>2
<1>3. CASE p # 0
  <2>1. p \in Pids
    BY <1>3, DaemonAssumption DEF Pids
  <2>2. CASE Listen(p)
    <3>1. \A q \in Pids : Alive(q)' = Alive(q) /\ proc'[q].gen = proc[q].gen
      BY <2>1, <2>2 DEF Listen, Alive, TypeOK, Daemon
    <3> QED  BY <1>1, <3>1, DaemonsFrame DEF Supervision!vars, DaemonsOfAll, Gens
  <2>3. CASE Dies(p) \/ Crash(p) \/ (LcNotReady /\ p = lc.proc)
    <3>1. proc' = [proc EXCEPT ![p] = Dead]
      BY <2>3 DEF Dies, Crash, LcNotReady
    <3> QED  BY <1>1, <2>1, <3>1, DeadEnds DEF Supervision!Next
  <2> QED  BY <2>2, <2>3
<1> QED  BY <1>2, <1>3

LEMMA OsExitShows == ASSUME TypeOK, OsExit PROVE Supervision!GoDown
<1>1. pc # "gone" /\ pc' = "gone" /\ UNCHANGED gen
  BY DEF OsExit, Up, bounds
<1>2. \A i \in Gens : DaemonsOf(i)' = {}
  BY DEF OsExit, DaemonsOf, Alive, Dead
<1>3. DaemonsOfAll' = [i \in Gens |-> {}]
  BY <1>2 DEF DaemonsOfAll
<1> QED  BY <1>1, <1>3 DEF Supervision!GoDown, DaemonsOfAll, Gens

LEMMA SupervisionNext ==
  TypeOK /\ OwnInv /\ OwnInv' /\ [Next]_vars => [Supervision!Next]_(Supervision!vars)
<1> SUFFICES ASSUME TypeOK, OwnInv, OwnInv', [Next]_vars
             PROVE  Supervision!Next \/ UNCHANGED Supervision!vars
  OBVIOUS
<1>1. CASE LcSpawn
  BY <1>1, SpawnStarts DEF Supervision!Next
<1>2. CASE OsExit
  BY <1>2, OsExitShows DEF Supervision!Next
<1>3. CASE LcNotReady \/ \E p \in Pids : Listen(p) \/ Dies(p) \/ Crash(p)
  <2>1. lc.proc \in 0..MaxProcs /\ \A p \in Pids : p \in 0..MaxProcs
    BY DEF TypeOK, Supervisor, Pids
  <2> QED  BY <1>3, <2>1, DaemonShows
<1>4. CASE LcDeliver \/ LateCall \/ ReloadNudge \/ ReloadRedeliver \/ ReloadUpdated
  BY <1>4, Calls
<1>5. CASE ReloadStop
  <2>1. CASE lc.pc = "off"
    <3>1. UNCHANGED <<proc, gen>> /\ pc # "gone" /\ pc' # "gone"
      BY <1>5, <2>1 DEF ReloadStop, bounds
    <3> QED  BY <3>1, SameDaemons DEF Supervision!vars, DaemonsOfAll, Gens
  <2>2. CASE lc.pc # "off"
    BY <1>5, <2>2, StopShows DEF ReloadStop, bounds
  <2> QED  BY <2>1, <2>2
<1>6. CASE Shutdown
  BY <1>6, StopShows DEF Shutdown, bounds
<1>7. CASE ReloadStopped \/ Halted
  BY <1>7, CancelShows DEF ReloadStopped, Halted, Stopped, bounds
<1>8. CASE Exec
  <2>1. pc # "gone" /\ pc' # "gone" /\ gen' = gen + 1 /\ UNCHANGED proc
    BY <1>8 DEF Exec, Serving
  <2>2. Supervision!Replace
    BY <2>1, SameDaemons DEF Supervision!Replace, DaemonsOfAll, Gens
  <2> QED  BY <2>2 DEF Supervision!Next
<1>9. CASE UNCHANGED vars
  <2>1. UNCHANGED <<proc, gen, pc>>
    BY <1>9 DEF vars, bounds
  <2> QED  BY <2>1, SameDaemons DEF Supervision!vars, DaemonsOfAll, Gens
<1> QED
  BY <1>1, <1>2, <1>3, <1>4, <1>5, <1>6, <1>7, <1>8, <1>9, OtherSteps
  DEF Next, Supervise, Trouble, Daemons, Answer, Application, Requests

\* OneAtATime: the backend implements the supervision of one daemon at a time: no
\* image starts a daemon beside a living one or after its application has ended,
\* whatever is reloaded, crashes or is cancelled half way.
THEOREM DaemonOneAtATime == Spec => OneAtATime
<1>1. Init => Supervision!Init
  BY DaemonAssumption DEF Init, Supervision!Init, DaemonsOf, Alive, Dead
<1> QED
  BY <1>1, SupervisionNext, DaemonInvariant, PTL DEF Spec, OneAtATime, Supervision!Spec

-----------------------------------------------------------------------------
(* How far the promise of the key holds *)

\* Nothing has crashed or failed to start, no configuration was saved and the process
\* image is the first.
Calm == faults = 0 /\ gen = 0 /\ edits = 0
Working == {"boot", "idle", "cancel", "nudge", "refetch", "redeliver"}

\* While the application works, one daemon is started, the socket file is its own, and
\* the key goes to it as soon as it is known: with the first delivery, or with the one
\* that follows a key fetched later.
Held ==
  /\ settings = disk.conf /\ ~rl.ssh /\ late = {}
  /\ lc.pc \notin {"ended", "aborting"}
  /\ lc.pc \in {"off", "top"} => sock = 0
  /\ lc.pc \in Owning =>
       /\ lc.proc # 0
       /\ proc[lc.proc].st \in {"starting", "listening"}
       /\ sock = IF proc[lc.proc].st = "listening" THEN lc.proc ELSE 0
  /\ lc.pc \in {"deliver", "wait"} => sock # 0
  /\ lc.pc = "deliver" => nodeKey # None /\ lc.key = nodeKey
  /\ lc.pc = "wait" /\ nodeKey # None /\ pc # "redeliver"
       => proc[lc.proc].key = nodeKey
  /\ pc = "refetch" => nodeKey = None

KeyInv ==
  Calm => /\ pc \in Working \cup {"down", "halting", "gone"}
          /\ pc = "down" => sock = 0 /\ late = {} /\ lc.pc = "off" /\ ~rl.ssh
          /\ pc \in Working => Held

LEMMA CalmSteps ==
  ASSUME TypeOK, [Next]_vars, Calm'
  PROVE  /\ Calm
         /\ \/ LcSpawn \/ LcRegister \/ LcReady \/ LcNotReady \/ LcDeliver \/ LcExit
            \/ OsExit \/ LateCall \/ Daemons \/ Application \/ Shutdown
            \/ (\E polling \in BOOLEAN : ReloadBegin(polling))
            \/ UNCHANGED vars
         /\ faults' = faults
<1>1. faults \in Nat /\ gen \in Nat /\ edits \in Nat
  BY DaemonAssumption DEF TypeOK
<1>2. ~Fault BY <1>1 DEF Calm, Fault
<1>3. ~LcSpawnFails /\ ~ReloadRaises /\ \A p \in Pids : ~Crash(p)
  BY <1>2 DEF LcSpawnFails, ReloadRaises, Crash
<1>4. ~Exec /\ ~UploadKey /\ \A c \in Confs, n \in NodeLists : ~Edit(c, n)
  BY <1>1 DEF Calm, Exec, UploadKey, Edit
<1>5. \/ LcSpawn \/ LcRegister \/ LcReady \/ LcNotReady \/ LcDeliver \/ LcExit
      \/ OsExit \/ LateCall \/ Daemons \/ Application \/ Shutdown
      \/ (\E polling \in BOOLEAN : ReloadBegin(polling))
      \/ UNCHANGED vars
  BY <1>3, <1>4 DEF Next, Supervise, Trouble, Requests
<1>6. UNCHANGED <<faults, gen, edits>>
  <2>1. CASE LcSpawn \/ LcRegister \/ LcReady \/ LcDeliver \/ LcExit
    BY <2>1 DEF LcSpawn, LcRegister, LcReady, LcDeliver, LcExit, LcRest
  <2>2. CASE LcNotReady BY <2>2, <1>2 DEF LcNotReady, LcRest
  <2>3. CASE OsExit \/ LateCall \/ Daemons \/ UNCHANGED vars
    BY <2>3 DEF OsExit, LateCall, Daemons, Listen, Dies, bounds, vars
  <2>4. CASE Startup \/ Booted \/ Halted \/ Shutdown
    BY <2>4 DEF Startup, Booted, Halted, Stopped, Shutdown, AppRest, bounds
  <2>5. CASE Answer
    BY <2>5 DEF Answer, ReloadCollectors, ReloadNudge, ReloadRedeliver, ReloadUpdated,
         ReloadInPlace, ReloadStop, ReloadStopped, Stopped, ReloadRestart, ReloadWaited,
         ReloadRefetch, AppRest, bounds
  <2>6. CASE \E polling \in BOOLEAN : ReloadBegin(polling)
    BY <2>6 DEF ReloadBegin, AppRest
  <2> QED BY <1>5, <2>1, <2>2, <2>3, <2>4, <2>5, <2>6 DEF Application
<1> QED BY <1>5, <1>6 DEF Calm

\* The one daemon there is belongs to the supervisor.
LEMMA Lone ==
  ASSUME TypeOK, OwnInv, Calm, NEW p \in Pids, Alive(p)
  PROVE  lc.pc \in Owning /\ p = lc.proc
<1>1. proc[p].gen = gen
  BY DaemonAssumption DEF OwnInv, Young, Calm, TypeOK, Daemon
<1> QED BY <1>1 DEF OwnInv, Owned, Own

\* A call that carries no configuration changes the key of the one daemon, or nothing
\* if it has no key to give.
LEMMA CallKey ==
  ASSUME TypeOK, OwnInv, Held, NEW m \in Msg, m.cred = None, lc.pc \in Owning
  PROVE  /\ Refreshed(m)[lc.proc].st = proc[lc.proc].st
         /\ m.key = None => Refreshed(m)[lc.proc].key = proc[lc.proc].key
         /\ lc.pc \in {"deliver", "wait"} /\ m.key # None
              => Refreshed(m)[lc.proc].key = m.key
<1>1. lc.proc \in Pids /\ lc.proc # 0 /\ proc[lc.proc] \in Daemon
      /\ proc \in [Pids -> Daemon]
  BY DEF Held, TypeOK, Supervisor, Pids
<1>2. Refreshed(m)[lc.proc].st = proc[lc.proc].st BY <1>1, RefreshedKeeps
<1>3. Updated(proc[lc.proc], m).key = IF m.key = None THEN proc[lc.proc].key ELSE m.key
  BY <1>1 DEF Updated, Daemon, Msg
<1>4. sock \in {0, lc.proc} BY DEF Held
<1>5. Answers => Refreshed(m) = [proc EXCEPT ![lc.proc] = Updated(proc[lc.proc], m)]
  BY <1>4 DEF Answers, Refreshed
<1>6. lc.pc \in {"deliver", "wait"} => Answers
  BY <1>1 DEF Answers, Held, OwnInv, Registered, Owning, Alive
<1>7. ~Answers => Refreshed(m) = proc BY DEF Refreshed
<1>8. CASE Answers
  <2>1. Refreshed(m)[lc.proc] = Updated(proc[lc.proc], m) BY <1>1, <1>5, <1>8
  <2> QED BY <1>2, <1>3, <2>1
<1>9. CASE ~Answers BY <1>2, <1>6, <1>7, <1>9
<1> QED BY <1>8, <1>9

\* The supervisor's steps.
LEMMA SupervisorHeld ==
  ASSUME TypeOK, OwnInv, Calm, Held, pc \in Working, UNCHANGED faults,
         LcSpawn \/ LcRegister \/ LcReady \/ LcNotReady \/ LcDeliver \/ LcExit
  PROVE  Held' /\ pc' = pc
<1> USE DEF Held, Owning, LcRest, store
<1>1. CASE LcSpawn
  <2>1. PICK p \in FreePids :
          /\ proc' = [proc EXCEPT ![p] =
               [st |-> "starting", gen |-> gen, dial |-> lc.mgr.conf,
                cred |-> lc.mgr.conf, key |-> None, nodes |-> lc.mgr.nodes]]
          /\ lc' = [lc EXCEPT !.pc = "spawning", !.proc = p]
    BY <1>1 DEF LcSpawn
  <2>2. p \in Pids /\ p # 0 /\ lc.pc = "top" /\ UNCHANGED <<sock, pc>>
    BY <1>1 DEF LcSpawn, FreePids, Pids
  <2>3. lc'.pc = "spawning" /\ lc'.proc = p /\ proc'[p].st = "starting"
    BY <2>1, <2>2 DEF TypeOK, Supervisor
  <2> QED BY <1>1, <2>2, <2>3 DEF LcSpawn
<1>2. CASE LcRegister
  <2>1. lc.pc = "spawning" /\ lc'.pc = "poll" /\ lc'.proc = lc.proc
    BY <1>2 DEF LcRegister, TypeOK, Supervisor
  <2> QED BY <1>2, <2>1 DEF LcRegister
<1>3. CASE LcReady
  <2>1. /\ lc.pc = "poll" /\ sock # 0 /\ lc'.proc = lc.proc /\ lc'.key = nodeKey
        /\ lc'.pc = IF nodeKey # None THEN "deliver" ELSE "wait"
    BY <1>3 DEF LcReady, TypeOK, Supervisor
  <2> QED BY <1>3, <2>1 DEF LcReady
<1>4. CASE LcNotReady
  <2>1. lc.pc = "poll" /\ sock = 0 BY <1>4 DEF LcNotReady
  <2>2. proc[lc.proc].st = "starting" BY <2>1
  <2>3. faults' = faults + 1 BY <1>4, <2>2 DEF LcNotReady, Fault
  <2> QED BY <2>3 DEF TypeOK
<1>5. CASE LcDeliver
  <2>1. /\ lc.pc = "deliver" /\ lc'.proc = lc.proc /\ lc'.pc = "wait"
        /\ proc' = Refreshed(KeyMsg)
        /\ UNCHANGED <<sock, pc, nodeKey, settings, disk, rl, late>>
    BY <1>5 DEF LcDeliver, TypeOK, Supervisor
  <2>2. KeyMsg \in Msg /\ KeyMsg.cred = None /\ KeyMsg.key = nodeKey /\ nodeKey # None
    BY <2>1, KeyMsgType DEF KeyMsg
  <2>3. proc'[lc.proc].st = proc[lc.proc].st /\ proc'[lc.proc].key = nodeKey
    BY <2>1, <2>2, CallKey
  <2> QED BY <2>1, <2>3
<1>6. CASE LcExit BY <1>6 DEF LcExit
<1> QED BY <1>1, <1>2, <1>3, <1>4, <1>5, <1>6

\* A daemon that comes up binds the socket file; none goes.
LEMMA DaemonsHeld ==
  ASSUME TypeOK, OwnInv, Calm, Held, pc \in Working, Daemons
  PROVE  Held' /\ pc' = pc
<1>1. PICK p \in Pids : Listen(p) \/ Dies(p) BY DEF Daemons
<1>2. p # 0 /\ Alive(p) BY <1>1 DEF Listen, Dies, Alive, Pids
<1>3. lc.pc \in Owning /\ p = lc.proc BY <1>2, Lone
<1>4. Listen(p) BY <1>1, <1>3 DEF Held, Dies
<1>5. sock' = p /\ UNCHANGED <<pc, lc, nodeKey, settings, disk, rl, late>>
  BY <1>4 DEF Listen, store, backend
<1>6. proc'[p].st = "listening" /\ proc'[p].key = proc[p].key
  <2>1. PICK d \in Daemon : proc[p] = d BY DEF TypeOK
  <2>2. proc' = [proc EXCEPT ![p] = [d EXCEPT !.st = "listening"]]
    BY <1>4, <2>1 DEF Listen
  <2>3. proc'[p] = [d EXCEPT !.st = "listening"] BY <2>2 DEF TypeOK
  <2> QED BY <2>1, <2>3 DEF Daemon
<1> QED BY <1>2, <1>3, <1>5, <1>6 DEF Held, Owning

\* The handlers' steps.
LEMMA HandlerHeld ==
  ASSUME TypeOK, OwnInv, Calm, Held, pc \in Working,
         \/ Startup \/ Booted \/ Halted \/ Answer \/ Shutdown
         \/ \E polling \in BOOLEAN : ReloadBegin(polling)
  PROVE  /\ pc' \in Working \cup {"halting", "gone"}
         /\ pc' \in Working => Held'
<1> USE DEF Working, AppRest, store, backend
<1>1. CASE Startup BY <1>1 DEF Startup
<1>2. CASE Booted BY <1>2 DEF Booted, Held
<1>3. CASE Halted BY <1>3 DEF Halted, Stopped
<1>4. CASE Shutdown
  BY <1>4 DEF Shutdown, StopDaemon, CancelSupervisor
<1>5. CASE \E polling \in BOOLEAN : ReloadBegin(polling)
  <2>1. PICK polling \in BOOLEAN : ReloadBegin(polling) BY <1>5
  <2>2. /\ pc = "idle" /\ settings' = disk.conf
        /\ UNCHANGED <<disk, proc, sock, late, nodeKey, lc>>
    BY <2>1 DEF ReloadBegin
  <2>3. /\ pc' \in {"idle", "cancel", "refetch", "nudge"} /\ ~rl'.ssh
        /\ pc' = "refetch" => nodeKey = None
    <3>1. settings = disk.conf BY DEF Held
    <3>2. CASE disk.nodes = None \/ disk.conf \notin keys
      BY <2>1, <3>2 DEF ReloadBegin, Report, RlNone
    <3>3. CASE ~(disk.nodes = None \/ disk.conf \notin keys)
      <4>1. rl' = [nodes |-> disk.nodes, ssh |-> FALSE, proc |-> 0]
        BY <2>1, <3>1, <3>3 DEF ReloadBegin
      <4>2. pc' = IF polling THEN "cancel"
                  ELSE IF disk.conf \in Jump /\ nodeKey = None THEN "refetch"
                  ELSE "nudge"
        BY <2>1, <3>1, <3>3 DEF ReloadBegin
      <4> QED BY <4>1, <4>2
    <3> QED BY <3>2, <3>3
  <2> QED BY <2>2, <2>3 DEF Held
<1>6. CASE ReloadCollectors \/ ReloadWaited
  BY <1>6 DEF ReloadCollectors, ReloadWaited, Report, RlNone, Held
<1>7. CASE ReloadUpdated \/ ReloadInPlace \/ ReloadStop \/ ReloadStopped \/ ReloadRestart
  BY <1>7 DEF ReloadUpdated, ReloadInPlace, ReloadStop, ReloadStopped, Stopped,
       ReloadRestart, Held
<1>8. CASE \E ok \in BOOLEAN : ReloadRefetch(ok)
  <2>1. /\ pc = "refetch" /\ UNCHANGED <<proc, sock, late, lc, settings, disk>>
        /\ \/ pc' = "redeliver" /\ UNCHANGED rl
           \/ pc' = "idle" /\ nodeKey' = None /\ rl' = RlNone
    BY <1>8 DEF ReloadRefetch, Report
  <2> QED BY <2>1 DEF Held, RlNone
<1>9. CASE ReloadNudge \/ ReloadRedeliver
  <2>1. /\ pc \in {"nudge", "redeliver"} /\ pc' = "idle" /\ rl' = RlNone
        /\ UNCHANGED <<sock, late, lc, nodeKey, settings, disk>>
    BY <1>9 DEF ReloadNudge, ReloadRedeliver, Report
  <2>2. PICK m \in Msg :
          /\ proc' = Refreshed(m) /\ m.cred = None
          /\ m.key = IF pc = "nudge" THEN None ELSE nodeKey
    <3> DEFINE msg(k) == [nodes |-> rl.nodes, cred |-> None, key |-> k]
    <3>1. msg(None) \in Msg /\ msg(nodeKey) \in Msg
      BY DaemonAssumption DEF Msg, TypeOK, Locals
    <3>2. CASE ReloadNudge BY <3>1, <3>2 DEF ReloadNudge
    <3>3. CASE ReloadRedeliver BY <3>1, <3>3 DEF ReloadRedeliver
    <3> QED BY <1>9, <3>2, <3>3
  <2>3. lc.pc \in Owning =>
          /\ proc'[lc.proc].st = proc[lc.proc].st
          /\ m.key = None => proc'[lc.proc].key = proc[lc.proc].key
          /\ lc.pc \in {"deliver", "wait"} /\ m.key # None
               => proc'[lc.proc].key = m.key
    BY <2>1, <2>2, CallKey
  <2>4. lc.pc = "wait" /\ nodeKey # None => proc'[lc.proc].key = nodeKey
    BY <2>1, <2>2, <2>3 DEF Held, Owning
  <2> QED BY <2>1, <2>3, <2>4 DEF Held, RlNone
<1> QED
  BY <1>1, <1>2, <1>3, <1>4, <1>5, <1>6, <1>7, <1>8, <1>9 DEF Answer

LEMMA KeyStep == TypeOK /\ OwnInv /\ KeyInv /\ [Next]_vars => KeyInv'
<1> SUFFICES ASSUME TypeOK, OwnInv, KeyInv, [Next]_vars, Calm'
             PROVE  /\ pc' \in Working \cup {"down", "halting", "gone"}
                    /\ pc' = "down" => sock' = 0 /\ late' = {} /\ lc'.pc = "off" /\ ~rl'.ssh
                    /\ pc' \in Working => Held'
  BY DEF KeyInv
<1>1. /\ Calm /\ UNCHANGED faults
      /\ \/ LcSpawn \/ LcRegister \/ LcReady \/ LcNotReady \/ LcDeliver \/ LcExit
         \/ OsExit \/ LateCall \/ Daemons \/ Application \/ Shutdown
         \/ (\E polling \in BOOLEAN : ReloadBegin(polling))
         \/ UNCHANGED vars
  BY CalmSteps
<1>2. /\ pc \in Working \cup {"down", "halting", "gone"}
      /\ pc = "down" => sock = 0 /\ late = {} /\ lc.pc = "off" /\ ~rl.ssh
      /\ pc \in Working => Held
  BY <1>1 DEF KeyInv
<1>3. CASE UNCHANGED vars
  BY <1>2, <1>3 DEF vars, store, backend, Held
<1>4. CASE pc \in Working /\ ~UNCHANGED vars
  <2>1. CASE LcSpawn \/ LcRegister \/ LcReady \/ LcNotReady \/ LcDeliver \/ LcExit
    BY <1>1, <1>2, <1>4, <2>1, SupervisorHeld DEF Working
  <2>2. CASE Daemons BY <1>1, <1>2, <1>4, <2>2, DaemonsHeld DEF Working
  <2>3. CASE OsExit BY <2>3 DEF OsExit, Working
  <2>4. CASE LateCall BY <1>2, <1>4, <2>4 DEF LateCall, Held
  <2>5. CASE Application \/ Shutdown \/ \E polling \in BOOLEAN : ReloadBegin(polling)
    BY <1>1, <1>2, <1>4, <2>5, HandlerHeld DEF Application, Working
  <2> QED BY <1>1, <1>4, <2>1, <2>2, <2>3, <2>4, <2>5
<1>5. CASE pc = "down" /\ ~UNCHANGED vars
  <2>1. ~LateCall /\ ~Daemons
    <3>1. ~LateCall BY <1>2, <1>5 DEF LateCall
    <3>2. ASSUME NEW p \in Pids, Listen(p) \/ Dies(p) PROVE FALSE
      <4>1. Alive(p) BY <3>2 DEF Listen, Dies, Alive, Pids
      <4> QED BY <1>1, <1>2, <1>5, <4>1, Lone DEF Owning
    <3> QED BY <3>1, <3>2 DEF Daemons
  <2>2. Startup
    BY <1>1, <1>5, <2>1 DEF LcSpawn, LcRegister, LcReady, LcNotReady, LcDeliver, LcExit,
         OsExit, Up, Application, Booted, Halted, Stopped, Answer, Shutdown, ReloadBegin,
         ReloadCollectors, ReloadNudge, ReloadRedeliver, ReloadUpdated, ReloadInPlace,
         ReloadStop, ReloadStopped, ReloadRestart, ReloadWaited, ReloadRefetch
  <2>3. /\ settings' = disk.conf /\ UNCHANGED <<sock, late, rl, disk>>
        /\ \/ pc' = "idle" /\ UNCHANGED lc
           \/ pc' = "boot" /\ lc' = [LcOff EXCEPT !.pc = "top", !.mgr = disk]
    BY <2>2 DEF Startup, StartSupervisor, AppRest, store
  <2>4. lc'.pc \in {"off", "top"} BY <1>2, <1>5, <2>3 DEF LcOff
  <2> QED BY <1>2, <1>5, <2>3, <2>4 DEF Held, Working, Owning
<1>6. CASE pc \in {"halting", "gone"}
  <2>1. pc' \in {"halting", "gone"}
    BY <1>1, <1>6 DEF LcSpawn, LcRegister, LcReady, LcNotReady, LcDeliver, LcExit,
         OsExit, LcRest, LateCall, Daemons, Listen, Dies, Application, Startup, Booted,
         Halted, Stopped, CancelSupervisor, Answer, Shutdown, ReloadBegin,
         ReloadCollectors, ReloadNudge, ReloadRedeliver, ReloadUpdated, ReloadInPlace,
         ReloadStop, ReloadStopped, ReloadRestart, ReloadWaited, ReloadRefetch, vars
  <2> QED BY <2>1 DEF Working
<1> QED BY <1>2, <1>3, <1>4, <1>5, <1>6

\* KeyFollowsTheDaemon, as far as it holds: as long as nothing has crashed or failed to
\* start, no configuration was saved and the process image is the first, a daemon the
\* supervisor waits for has the key of its jump host, whenever that was fetched.
THEOREM DaemonKeyUntilCrash ==
  Spec => [](faults = 0 /\ gen = 0 /\ edits = 0 => KeyFollowsTheDaemon)
<1>1. Init => KeyInv
  BY DEF Init, KeyInv, Working, LcOff, RlNone
<1>2. KeyInv => (faults = 0 /\ gen = 0 /\ edits = 0 => KeyFollowsTheDaemon)
  BY DEF KeyInv, Calm, Working, Held, KeyFollowsTheDaemon
<1> QED BY <1>1, <1>2, KeyStep, DaemonInvariant, PTL DEF Spec
=============================================================================
