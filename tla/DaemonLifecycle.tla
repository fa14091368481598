--------------------------- MODULE DaemonLifecycle ---------------------------
(***************************************************************************)
(* The monitor backend as the supervisor of the Go daemon: the task          *)
(* _run_daemon_lifecycle, _stop_daemon, the configuration reload, the        *)
(* start and the shutdown of the application, and the restart endpoint,     *)
(* which replaces the backend's process image.                              *)
(*                                                                         *)
(* Everything in the backend runs on one event loop: an action is the code   *)
(* between two awaits.  Daemons are processes of their own; the socket file  *)
(* stays behind when one is killed.  A call of the daemon runs in a worker   *)
(* thread, and goes on when the task that awaits it is cancelled.            *)
(*                                                                         *)
(* A configuration stands for the whole ssh section of cluster.yaml with     *)
(* key authentication; Jump are those that go through a jump host.  Starting *)
(* and stopping the collectors is in module CollectorTasks.                  *)
(***************************************************************************)
EXTENDS Naturals, FiniteSets

CONSTANTS
  Confs, Jump,     \* ssh configurations, and those with a jump host
  NodeLists,       \* contents of nodes.txt
  MaxDaemonRestarts,
  MaxProcs,        \* bound: daemon processes that anything still refers to
  MaxFaults,       \* bound: crashes, failed starts, timeouts, raising collectors
  MaxEdits,        \* bound: saved configurations and uploaded keys
  MaxReloads, MaxExecs

ASSUME DaemonAssumption ==
  /\ Jump \subseteq Confs
  /\ MaxDaemonRestarts \in Nat /\ MaxProcs \in Nat \ {0} /\ MaxFaults \in Nat
  /\ MaxEdits \in Nat /\ MaxReloads \in Nat /\ MaxExecs \in Nat

None == "none"
ASSUME NoneAssumption == None \notin Confs /\ None \notin NodeLists

VARIABLES
  disk,      \* cluster.yaml and nodes.txt
  keys,      \* configurations whose key file is in the container
  settings,  \* config_module.settings
  mgr,       \* app_state.ssh_manager: its configuration and host list, or NoMgr
  nodeKey,   \* app_state.node_key_bytes: the key of a jump configuration, or None
  stopping,  \* _daemon_stopping
  ready,     \* _daemon_ready_event is set
  dproc,     \* go_collector._daemon_proc (0: None)
  lc,        \* the lifecycle task
  proc,      \* the daemon processes
  sock,      \* the process that bound the socket file, alive or not (0: no file)
  pc,        \* the handler in progress: start, reload or shutdown
  rl,        \* its locals
  last,      \* what the last reload reported
  late,      \* calls of the daemon whose task was cancelled, still queued
  lost,      \* a failed reload kept a changed configuration in settings (history)
  gen,       \* process image of the backend
  faults, edits, reloads

backend == <<settings, mgr, nodeKey, stopping, ready>>
store == <<disk, keys>>
bounds == <<gen, faults, edits, reloads>>
vars == <<store, backend, dproc, lc, proc, sock, pc, rl, last, late, lost, bounds>>

-----------------------------------------------------------------------------
(* Types *)

Pids == 1..MaxProcs
Files == [conf : Confs, nodes : NodeLists \cup {None}]
NoMgr == [conf |-> None, nodes |-> None]
Mgr == [conf : Confs \cup {None}, nodes : NodeLists \cup {None}]
Msg == [nodes : NodeLists \cup {None}, cred : Confs \cup {None},
        key : Confs \cup {None}]
Daemon == [st : {"dead", "starting", "listening", "term"},
           gen : 0..MaxExecs,
           dial : Confs \cup {None},      \* how it connects, fixed when it starts
           cred : Confs \cup {None},      \* user and key path
           key : Confs \cup {None},       \* key held in memory only
           nodes : NodeLists \cup {None}]
Dead == [st |-> "dead", gen |-> 0, dial |-> None, cred |-> None,
         key |-> None, nodes |-> None]
LcPc == {"off", "top", "spawning", "poll", "deliver", "wait", "ended", "aborting"}
Supervisor == [pc : LcPc, mgr : Mgr, proc : 0..MaxProcs, restarts : Nat,
               key : Jump \cup {None}]
LcOff == [pc |-> "off", mgr |-> NoMgr, proc |-> 0, restarts |-> 0, key |-> None]
Locals == [nodes : NodeLists \cup {None}, ssh : BOOLEAN, proc : 0..MaxProcs]
RlNone == [nodes |-> None, ssh |-> FALSE, proc |-> 0]
Steps == {"down", "boot", "idle", "cancel", "nudge", "refetch", "redeliver",
          "stopping", "fetch", "await", "inplace", "halting", "gone"}

TypeOK ==
  /\ disk \in Files /\ keys \subseteq Confs
  /\ settings \in Confs \cup {None} /\ mgr \in Mgr
  /\ nodeKey \in Jump \cup {None}
  /\ stopping \in BOOLEAN /\ ready \in BOOLEAN
  /\ dproc \in 0..MaxProcs /\ sock \in 0..MaxProcs
  /\ lc \in Supervisor
  /\ proc \in [Pids -> Daemon]
  /\ pc \in Steps
  /\ rl \in Locals
  /\ last \in {"none", "ok", "failed"}
  /\ late \subseteq Msg /\ lost \in BOOLEAN
  /\ gen \in 0..MaxExecs
  /\ faults \in Nat /\ edits \in Nat /\ reloads \in Nat

-----------------------------------------------------------------------------
(* Daemon processes *)

Alive(p) == p # 0 /\ proc[p].st \in {"starting", "listening", "term"}
Fault == faults < MaxFaults /\ faults' = faults + 1

\* runServer: any old socket file is removed and a new one bound.
Listen(p) ==
  /\ proc[p].st = "starting"
  /\ proc' = [proc EXCEPT ![p].st = "listening"]
  /\ sock' = p
  /\ UNCHANGED <<store, backend, dproc, lc, pc, rl, last, late, lost, bounds>>

\* Killed, out of memory, a panic, or os.Exit(1) of main: the file stays.
Crash(p) ==
  /\ proc[p].st \in {"starting", "listening"}
  /\ Fault
  /\ proc' = [proc EXCEPT ![p] = Dead]
  /\ UNCHANGED <<store, backend, dproc, lc, sock, pc, rl, last, late, lost,
                 gen, edits, reloads>>

\* After SIGTERM: the signal handler removes the file and exits, or the process
\* dies before the handler is installed or by the SIGKILL that follows.
Dies(p) ==
  /\ proc[p].st = "term"
  /\ proc' = [proc EXCEPT ![p] = Dead]
  /\ sock' \in {0, sock}
  /\ UNCHANGED <<store, backend, dproc, lc, pc, rl, last, late, lost, bounds>>

\* is_daemon_ready, and somebody behind the socket to answer.
Answers == Alive(dproc) /\ sock # 0 /\ proc[sock].st = "listening"

\* handleRefreshNodes and UpdateCredentials: an empty field is left as it is, and a
\* key path takes the place of a key in memory.
Updated(d, m) ==
  [d EXCEPT !.nodes = m.nodes,
            !.cred = IF m.cred = None THEN d.cred ELSE m.cred,
            !.key = IF m.key = None /\ m.cred = None THEN d.key ELSE m.key]

\* The effect of a call: it reaches whoever listens behind the socket.
Refreshed(m) ==
  IF Answers THEN [proc EXCEPT ![sock] = Updated(proc[sock], m)] ELSE proc

\* A call whose task was cancelled gets its worker thread at last.
LateCall ==
  \E m \in late :
    /\ proc' = Refreshed(m)
    /\ late' = late \ {m}
    /\ UNCHANGED <<store, backend, dproc, lc, sock, pc, rl, last, lost, bounds>>

-----------------------------------------------------------------------------
(* The lifecycle task *)

Up == pc \notin {"down", "gone"}
LcRest == <<store, settings, mgr, nodeKey, stopping, pc, rl, last, late, lost, gen,
            edits, reloads>>

\* A process number nothing refers to any more.
FreePids == {p \in Pids : ~Alive(p) /\ p \notin {sock, dproc, lc.proc}}

\* The backoff is over: write the hosts file and start a daemon on the manager
\* the task was given.
LcSpawn ==
  /\ Up /\ lc.pc = "top" /\ FreePids # {}
  /\ LET p == CHOOSE q \in FreePids : TRUE IN
     /\ proc' = [proc EXCEPT ![p] =
                   [st |-> "starting", gen |-> gen, dial |-> lc.mgr.conf,
                    cred |-> lc.mgr.conf, key |-> None, nodes |-> lc.mgr.nodes]]
     /\ lc' = [lc EXCEPT !.pc = "spawning", !.proc = p]
  /\ UNCHANGED <<LcRest, ready, dproc, sock, faults>>

LcRegister ==
  /\ Up /\ lc.pc = "spawning"
  /\ dproc' = lc.proc
  /\ lc' = [lc EXCEPT !.pc = "poll"]
  /\ UNCHANGED <<LcRest, ready, proc, sock, faults>>

\* _wait_socket_ready looks for the file, whoever left it.
LcReady ==
  /\ Up /\ lc.pc = "poll" /\ sock # 0
  /\ lc' = [lc EXCEPT !.pc = IF nodeKey # None THEN "deliver" ELSE "wait",
                      !.key = nodeKey]
  /\ ready' = (ready \/ nodeKey = None)
  /\ UNCHANGED <<LcRest, dproc, proc, sock, faults>>

\* After 30 s without a file the daemon is killed; one that came up in time is
\* not, one that crashed before had nothing more to lose.
LcNotReady ==
  /\ Up /\ lc.pc = "poll" /\ sock = 0
  /\ IF proc[lc.proc].st = "starting" THEN Fault ELSE UNCHANGED faults
  /\ proc' = [proc EXCEPT ![lc.proc] = Dead]
  /\ lc' = [lc EXCEPT !.pc = "wait"]
  /\ UNCHANGED <<LcRest, ready, dproc, sock>>

\* Nobody looks at the answer; no answer is an empty one.
KeyMsg == [nodes |-> lc.mgr.nodes, cred |-> None, key |-> lc.key]
LcDeliver ==
  /\ Up /\ lc.pc = "deliver"
  /\ proc' = Refreshed(KeyMsg)
  /\ lc' = [lc EXCEPT !.pc = "wait"]
  /\ ready' = TRUE
  /\ UNCHANGED <<LcRest, dproc, sock, faults>>

\* What follows an exit of the daemon or an exception of the loop's body.
AfterExit ==
  IF stopping THEN [lc EXCEPT !.pc = "ended"]
  ELSE [lc EXCEPT !.restarts = @ + 1,
                  !.pc = IF lc.restarts + 1 > MaxDaemonRestarts THEN "aborting"
                         ELSE "top"]

LcExit ==
  /\ Up /\ lc.pc = "wait" /\ proc[lc.proc].st = "dead"
  /\ dproc' = 0
  /\ lc' = AfterExit
  /\ UNCHANGED <<LcRest, ready, proc, sock, faults>>

\* create_subprocess_exec or the write of the hosts file raises.
LcSpawnFails ==
  /\ Up /\ lc.pc = "top"
  /\ Fault
  /\ dproc' = 0
  /\ lc' = AfterExit
  /\ UNCHANGED <<LcRest, ready, proc, sock>>

\* os._exit: the container goes down and takes every process along.
OsExit ==
  /\ Up /\ lc.pc = "aborting"
  /\ pc' = "gone"
  /\ proc' = [p \in Pids |-> IF Alive(p) THEN Dead
                             ELSE proc[p]]
  /\ UNCHANGED <<store, backend, dproc, lc, sock, rl, last, late, lost, bounds>>

-----------------------------------------------------------------------------
(* The application *)

AppRest == <<store, proc, sock, late, gen, faults, edits>>

\* Variant: _daemon_stopping is not reset.
StartSupervisor_Deaf(m) ==
  /\ mgr' = m
  /\ ready' = FALSE /\ UNCHANGED stopping
  /\ lc' = [LcOff EXCEPT !.pc = "top", !.mgr = m]

\* create_task(_run_daemon_lifecycle(ssh_manager)) with a new ready event.
StartSupervisor(m) ==
  /\ mgr' = m
  /\ stopping' = FALSE /\ ready' = FALSE
  /\ lc' = [LcOff EXCEPT !.pc = "top", !.mgr = m]

\* Variant: a node key is fetched without a jump host.
Startup_AnyKey ==
  /\ pc = "down"
  /\ settings' = disk.conf
  /\ IF disk.nodes = None
     THEN pc' = "idle" /\ UNCHANGED <<mgr, nodeKey, stopping, ready, lc>>
     ELSE /\ pc' = "boot"
          /\ nodeKey' \in {None, disk.conf}
          /\ StartSupervisor(disk)
  /\ UNCHANGED <<AppRest, dproc, rl, last, lost, reloads>>

\* lifespan: without nodes nothing is started.
Startup ==
  /\ pc = "down"
  /\ settings' = disk.conf
  /\ IF disk.nodes = None
     THEN pc' = "idle" /\ UNCHANGED <<mgr, nodeKey, stopping, ready, lc>>
     ELSE /\ pc' = "boot"
          /\ nodeKey' \in {None} \cup (Jump \cap {disk.conf})
          /\ StartSupervisor(disk)
  /\ UNCHANGED <<AppRest, dproc, rl, last, lost, reloads>>

\* At most 35 s: enough for a daemon that comes up, not for one that is killed
\* after 30 s, crashes, or whose first call waits for a thread.
Waited == ready \/ lc.restarts > 0 \/ lc.pc \in {"deliver", "wait"}

Booted ==
  /\ pc = "boot" /\ Waited
  /\ pc' = "idle"
  /\ UNCHANGED <<AppRest, backend, dproc, lc, rl, last, lost, reloads>>

\* POST /config/update writes both files; it insists on a node.
Serving == pc \notin {"down", "boot", "halting", "gone"}
Edit(c, n) ==
  /\ Serving /\ edits < MaxEdits
  /\ edits' = edits + 1
  /\ disk' = [conf |-> c, nodes |-> n]
  /\ UNCHANGED <<keys, backend, dproc, lc, proc, sock, pc, rl, last, late, lost,
                 gen, faults, reloads>>

UploadKey ==
  /\ Serving /\ edits < MaxEdits
  /\ edits' = edits + 1
  /\ keys' = keys \cup {disk.conf}
  /\ UNCHANGED <<disk, backend, dproc, lc, proc, sock, pc, rl, last, late, lost,
                 gen, faults, reloads>>

-----------------------------------------------------------------------------
(* The reload *)

Report(outcome) == pc' = "idle" /\ last' = outcome /\ rl' = RlNone

\* The new settings replace the old ones before anything is checked.  Both node
\* lists are read from the file now, so they never differ.  polling stands for a
\* change of the sections that concern the collectors only.
ReloadBegin(polling) ==
  /\ pc = "idle" /\ reloads < MaxReloads
  /\ reloads' = reloads + 1
  /\ settings' = disk.conf
  /\ LET changed == settings # disk.conf IN
     IF disk.nodes = None \/ disk.conf \notin keys
     THEN Report("failed") /\ lost' = (lost \/ changed)
     ELSE /\ pc' = CASE changed \/ polling -> "cancel"
                     [] ~changed /\ ~polling /\ disk.conf \in Jump /\ nodeKey = None
                          -> "refetch"
                     [] OTHER -> "nudge"
          /\ rl' = [nodes |-> disk.nodes, ssh |-> changed, proc |-> 0]
          /\ UNCHANGED <<last, lost>>
  /\ UNCHANGED <<AppRest, mgr, nodeKey, stopping, ready, dproc, lc>>

\* Awaiting a collector that crashed raises what it died of.
ReloadRaises ==
  /\ pc = "cancel"
  /\ Fault
  /\ Report("failed") /\ lost' = (lost \/ rl.ssh)
  /\ UNCHANGED <<store, backend, dproc, lc, proc, sock, late, gen, edits,
                 reloads>>

\* Only collectors are restarted.
ReloadCollectors ==
  /\ pc = "cancel" /\ ~rl.ssh
  /\ Report("ok")
  /\ UNCHANGED <<AppRest, backend, dproc, lc, lost, reloads>>

ReloadNudge ==
  /\ pc = "nudge"
  /\ proc' = Refreshed([nodes |-> rl.nodes, cred |-> None, key |-> None])
  /\ Report("ok")
  /\ UNCHANGED <<store, backend, dproc, lc, sock, late, lost, bounds>>

\* The key of the jump host is missing: fetch it, and if that works deliver it.
ReloadRefetch(ok) ==
  /\ pc = "refetch"
  /\ nodeKey' = IF ok THEN settings ELSE None
  /\ IF ok THEN pc' = "redeliver" /\ UNCHANGED <<rl, last>> ELSE Report("ok")
  /\ UNCHANGED <<AppRest, settings, mgr, stopping, ready, dproc, lc, lost, reloads>>

ReloadRedeliver ==
  /\ pc = "redeliver"
  /\ proc' = Refreshed([nodes |-> rl.nodes, cred |-> None, key |-> nodeKey])
  /\ Report("ok")
  /\ UNCHANGED <<store, backend, dproc, lc, sock, late, lost, bounds>>

\* Direct ssh: the daemon is updated where it runs and the manager is replaced.
ReloadInPlace ==
  /\ pc = "cancel" /\ rl.ssh /\ settings \notin Jump
  /\ pc' = "inplace"
  /\ UNCHANGED <<AppRest, backend, dproc, lc, rl, last, lost, reloads>>

\* Variant: the daemon gets the new configuration, the collectors keep the manager.
ReloadUpdated_DaemonOnly ==
  /\ pc = "inplace"
  /\ proc' = Refreshed([nodes |-> rl.nodes, cred |-> settings, key |-> None])
  /\ nodeKey' = None
  /\ Report("ok") /\ lost' = FALSE
  /\ UNCHANGED <<store, settings, mgr, stopping, ready, dproc, lc, sock, late, bounds>>

ReloadUpdated ==
  /\ pc = "inplace"
  /\ proc' = Refreshed([nodes |-> rl.nodes, cred |-> settings, key |-> None])
  /\ nodeKey' = None
  /\ mgr' = [conf |-> settings, nodes |-> rl.nodes]
  /\ Report("ok") /\ lost' = FALSE
  /\ UNCHANGED <<store, settings, stopping, ready, dproc, lc, sock, late, bounds>>

-----------------------------------------------------------------------------
(* Stopping the daemon, for a reload through a jump host or for good *)

\* Variant: the process that is being started is left alone.
CancelSupervisor_Orphan(to, ps) ==
  /\ proc' = ps
  /\ late' = IF lc.pc = "deliver" THEN late \cup {KeyMsg} ELSE late
  /\ lc' = LcOff
  /\ pc' = to

\* Cancelling the task: asyncio kills a process it was still waiting to start; a
\* call in a worker thread is not stopped.
CancelSupervisor(to, ps) ==
  /\ proc' = IF lc.pc = "spawning" THEN [ps EXCEPT ![lc.proc] = Dead] ELSE ps
  /\ late' = IF lc.pc = "deliver" THEN late \cup {KeyMsg} ELSE late
  /\ lc' = LcOff
  /\ pc' = to

\* _stop_daemon and the cancellation: terminate a daemon that runs and wait for
\* it; with none running there is nothing to wait for.
StopDaemon(wait, to) ==
  /\ stopping' = TRUE
  /\ IF Alive(dproc)
     THEN /\ proc' = [proc EXCEPT ![dproc].st = "term"]
          /\ rl' = [rl EXCEPT !.proc = dproc]
          /\ pc' = wait
          /\ UNCHANGED <<lc, sock, late, mgr>>
     ELSE /\ sock' = 0
          /\ CancelSupervisor(to, proc)
          /\ mgr' = NoMgr
          /\ UNCHANGED rl

\* Variant: the daemon is not waited for.
Stopped_Impatient(wait, to) ==
  /\ pc = wait
  /\ sock' = 0
  /\ CancelSupervisor(to, proc)
  /\ mgr' = NoMgr
  /\ UNCHANGED <<store, settings, nodeKey, stopping, ready, dproc, rl, last, lost,
                 bounds>>

\* The socket file is removed, the task cancelled and the manager dropped.
Stopped(wait, to) ==
  /\ pc = wait /\ ~Alive(rl.proc)
  /\ sock' = 0
  /\ CancelSupervisor(to, proc)
  /\ mgr' = NoMgr
  /\ UNCHANGED <<store, settings, nodeKey, stopping, ready, dproc, rl, last, lost,
                 bounds>>

ReloadStop ==
  /\ pc = "cancel" /\ rl.ssh /\ settings \in Jump
  /\ IF lc.pc = "off"
     THEN pc' = "fetch" /\ mgr' = NoMgr /\ UNCHANGED <<stopping, proc, rl, lc, sock, late>>
     ELSE StopDaemon("stopping", "fetch")
  /\ UNCHANGED <<store, settings, nodeKey, ready, dproc, last, lost, bounds>>

ReloadStopped == Stopped("stopping", "fetch")

\* The key is fetched or not; a new manager and a new supervisor either way.
ReloadRestart ==
  /\ pc = "fetch"
  /\ nodeKey' \in {None, settings}
  /\ StartSupervisor([conf |-> settings, nodes |-> rl.nodes])
  /\ pc' = "await"
  /\ UNCHANGED <<AppRest, settings, dproc, rl, last, lost, reloads>>

ReloadWaited ==
  /\ pc = "await" /\ Waited
  /\ Report("ok") /\ lost' = FALSE
  /\ UNCHANGED <<AppRest, backend, dproc, lc, reloads>>

\* The end of lifespan; the server has answered its last request.
Shutdown ==
  /\ pc = "idle"
  /\ StopDaemon("halting", "gone")
  /\ UNCHANGED <<store, settings, nodeKey, ready, dproc, last, lost, bounds>>

Halted == Stopped("halting", "gone")

\* POST /restart: os.execv, one second after the answer, whatever goes on.  The
\* processes stay, the backend forgets them.
Exec ==
  /\ Serving /\ gen < MaxExecs
  /\ gen' = gen + 1
  /\ pc' = "down"
  /\ settings' = None /\ mgr' = NoMgr /\ nodeKey' = None
  /\ stopping' = FALSE /\ ready' = FALSE
  /\ dproc' = 0 /\ lc' = LcOff /\ rl' = RlNone
  /\ last' = "none" /\ late' = {} /\ lost' = FALSE
  /\ UNCHANGED <<store, proc, sock, faults, edits, reloads>>

-----------------------------------------------------------------------------
(* The specification *)

Init ==
  /\ disk \in Files /\ keys = {disk.conf}
  /\ settings = None /\ mgr = NoMgr /\ nodeKey = None
  /\ stopping = FALSE /\ ready = FALSE
  /\ dproc = 0 /\ lc = LcOff
  /\ proc = [p \in Pids |-> Dead] /\ sock = 0
  /\ pc = "down" /\ rl = RlNone /\ last = "none"
  /\ late = {} /\ lost = FALSE
  /\ gen = 0 /\ faults = 0 /\ edits = 0 /\ reloads = 0

Supervise == LcSpawn \/ LcRegister \/ LcReady \/ LcNotReady \/ LcDeliver \/ LcExit
             \/ OsExit
Trouble == LcSpawnFails \/ ReloadRaises \/ LateCall
           \/ \E p \in Pids : Crash(p)
Daemons == \E p \in Pids : Listen(p) \/ Dies(p)
Answer == ReloadCollectors \/ ReloadNudge \/ ReloadRedeliver \/ ReloadUpdated
          \/ ReloadInPlace \/ ReloadStop \/ ReloadStopped \/ ReloadRestart
          \/ ReloadWaited \/ \E ok \in BOOLEAN : ReloadRefetch(ok)
Application == Startup \/ Booted \/ Halted \/ Answer
Requests == Shutdown \/ Exec \/ UploadKey
            \/ (\E c \in Confs, n \in NodeLists : Edit(c, n))
            \/ \E polling \in BOOLEAN : ReloadBegin(polling)

Next == Supervise \/ Trouble \/ Daemons \/ Application \/ Requests

Spec == Init /\ [][Next]_vars

\* The event loop serves every task; a daemon comes up, and dies when told to.
FairSpec == Spec /\ WF_vars(Supervise) /\ WF_vars(Daemons) /\ WF_vars(Application)

-----------------------------------------------------------------------------
(* Properties *)

\* OneDaemon: a process image of the backend never has two daemons alive, neither
\* after a crash, nor when a reload replaces the supervisor in the middle of a
\* start, nor while a daemon that is told to stop has not gone yet.
OneDaemon ==
  \A p, q \in Pids :
    Alive(p) /\ Alive(q) /\ proc[p].gen = proc[q].gen => p = q

\* OneAtATime: seen from outside the backend supervises one daemon, as in module
\* SupervisedDaemon: a process image starts a daemon only when it has none alive and
\* its application has not ended, and leaves none when it ends.  Sockets, keys,
\* reloads, the backoff and the task that is cancelled half way do not show.
DaemonsOf(i) == {p \in Pids : Alive(p) /\ proc[p].gen = i}
Supervision == INSTANCE SupervisedDaemon WITH
  Images <- 0..MaxExecs, image <- gen, over <- (pc = "gone"),
  daemons <- [i \in 0..MaxExecs |-> DaemonsOf(i)]
OneAtATime == Supervision!Spec

\* NothingLeftBehind: once the application has shut down, no daemon of it runs and
\* nothing will start one.
NothingLeftBehind ==
  pc = "gone" => \A p \in Pids : Alive(p) => proc[p].gen # gen

\* ReloadApplies: after a reload that reported success the manager has the
\* configuration that settings hold, and behind a jump host the supervisor works
\* with that manager and the daemon it runs dials through that host, whatever
\* crashed meanwhile -- unless an earlier reload failed after it had replaced the
\* settings, or nothing was ever started.
ReloadApplies ==
  pc = "idle" /\ last = "ok" /\ ~lost /\ mgr # NoMgr =>
    /\ mgr.conf = settings
    /\ settings \in Jump =>
         /\ lc.mgr = mgr
         /\ Alive(dproc) => proc[dproc].dial = settings

\* ComesBack: as long as it is supervised, a daemon in the end listens where the
\* backend looks for it.  A replaced process image is excepted: the daemon it
\* forgot may still be starting, and takes the socket away from its successor.
Reachable == Answers /\ sock = dproc
ComesBack == <>[](Reachable \/ lc.pc = "off" \/ pc = "gone" \/ gen > 0)

\* KeyFollowsTheDaemon (violated): app/main.py:107 says that the node key is
\* "retained across daemon crash-restarts so each new process receives the key
\* immediately after its socket opens".
KeyFollowsTheDaemon ==
  lc.pc = "wait" /\ pc = "idle" /\ nodeKey # None /\ sock = lc.proc
    /\ proc[lc.proc].st = "listening" /\ late = {}
  => proc[lc.proc].key = nodeKey

=============================================================================
