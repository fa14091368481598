# Verification of CVS

CVS (the Cluster Validation Suite) runs validation, benchmark and training tests on a GPU
cluster and monitors it. Most of its lines are test bodies, parsers and reports; the part
that is hard to get right is the machinery underneath: the processes of a managed run that
find each other through files, the SSH fan-out that forgets hosts which stop answering, the
containers it starts on a fleet, the monitor's daemon with its shared connection cache, the
backend that supervises that daemon and its own collectors, and the fleet manager's
background jobs. This directory holds TLA+ models of that machinery, the TLC configurations
that check them on small instances, and TLAPS proofs of what holds for every instance.

Paths below are relative to `src/cvs/`; `cluster-mon` stands for
`monitors/cluster-mon`.

## 1. Inventory

### The parts of the system

| part | state it keeps | operations | hard behaviour | modelled in |
|---|---|---|---|---|
| **Managed run** `core/agent/lifecycle.py`, `core/run_layout.py` | marker files in a shared `agent_dir`, the agent registry, the heartbeat thread, one state per worker process | rank 0: clear, mint token, bind, serve, publish, beat, wait for registrations, run tests, stop; worker: poll, serve, register, watch | files read one at a time while they are rewritten; crashes; a second run in the same job directory; a silence threshold racing a heartbeat | `Rendezvous` |
| **HTTP agent** `core/agent/http_agent.py`, `http_client.py`, `messages.py` | `exec_busy`, the process registry, the groups of the processes it spawned | `POST /exec`, `/register`, `/shutdown`, `GET /health`; client fan-out | a read time-out while the agent is still busy, shutdown racing a spawn, children that outlive their shell | `AgentExec` (registration in `Rendezvous`) |
| **Parallel handle** `lib/parallel/` | `reachable_hosts`, `unreachable_hosts`, the client; per call: the output of each host | `exec`, `exec_cmd_list`, `prune_nodes`; `upload_file` and friends | hosts that fail or time out half way, a prune decided by a second look, worker processes that see a part of the fleet | `ParallelHandle`, promise in `FleetExec` |
| **Orchestrators** `core/orchestrators/`, **Docker runtime** `core/runtimes/docker.py` | `container_id`, `sudo_prefix`, and on every host an image and a container of one name | `setup_containers`, `teardown_containers`, `exec`, verification | a command that worked on some hosts only, hosts lost between a probe and an action, a time-out of a command that later succeeds | `Containers` |
| **Collector daemon (Go)** `cluster-mon/go-collector` | connection cache, reachable and unreachable sets, credentials, inventory, nudge channel | `exec`, `refresh_nodes`, background sweep, `ProbeSubset`, keepalive | four kinds of goroutine that decide outside the locks | `SshPool` |
| **Monitor backend (Python)** `cluster-mon/backend/app/main.py`, `core/go_collector.py`, `collectors/base.py` | the daemon's process, its socket file, the node key; the SSH manager and the settings; a registry of collector tasks | supervise the daemon, reload the configuration, restart collectors that crash, start and shut down, replace the process image | tasks that await while what they hold is replaced, a daemon that dies and leaves its socket, exceptions that come out of an `await` on another task | `DaemonLifecycle`, `CollectorTasks` |
| **Fleet manager, control node groups** `monitors/metrics_exp/server/fleet_manager/api/routes/control_nodegroups.py` | rows of a database, Prometheus target files, jobs in memory | verify, install, add and delete nodes, rename and delete a group | jobs that overlap on the same row, each with a session that loaded it earlier; a restart in the middle of a job | `ControlGroups` |
| **Scheduler detection** `core/scheduler.py` | none (pure functions of the environment) | detect, expand host lists, rank | nested brackets, zero padding, ranks that must agree on all nodes | not modelled |
| **Command line** `cli_plugins/`, `main.py`, `conftest.py`, `runners/` | none of their own beyond one process | build an orchestrator, start pytest, exit codes | sequential | not modelled |
| **Test libraries** `lib/inference`, `lib/training`, `lib/preflight`, `lib/rccl_lib.py` and others | the state of the job they drive, on the hosts | build command lines, poll logs, parse results | pure I/O over the parallel handle; no concurrency of their own beyond it | not modelled |
| **Reports and parsers** `lib/report`, `lib/html_lib.py`, `parsers/`, `schema/` | none | format results | wording and layout | not modelled |
| **Other monitor collectors, API, front end** | caches of the last sample | poll, serve | read-only views over the collectors | not modelled |
| **Tests and inputs** `tests/`, `input/`, `unittests/` | none | test bodies and sample files | they exercise the parts above | not modelled |

### How they interact

```
cvs run ── managed? ──> Rank0Runner / WorkerRunner      (files + HTTP)   Rendezvous
   │                        └─ HTTP agent on each node                   AgentExec
   └─ pytest ─> orchestrator ─> container runtime                        Containers
                     │                 │ self.all.exec(...)
                     └──── parallel handle <┘   promise: FleetExec
                               └─ ssh to the fleet                       ParallelHandle
monitor backend ── unix socket ──> collector daemon ── ssh pool          SshPool
   │  └─ supervisor task: start, wait for socket, send key, restart      DaemonLifecycle
   └─ collector tasks, restarted on a crash, replaced by a reload        CollectorTasks
fleet manager ── jobs ──> rows ──> target files ──> Prometheus           ControlGroups
```

`Containers` is composed of the orchestrator and of `FleetExec`, the abstract
specification of a parallel handle, and `ParallelHandle` is shown to implement
`FleetExec`; so what is proved of the container life cycle rests on the handle's
promise and not on its time-outs, parts and merges (section 4, *Composition*). Four
more parts have an abstract specification that says what the rest of the system may
expect of them, without files, sockets, callbacks or half-done steps: `ManagedRun`,
`CommandSlot`, `SupervisedDaemon`, `SupervisedCollectors`.

### What makes each part correct

* Managed run: a worker leaves only when its own rank 0 is done or silent; every
  request carries the token that is accepted; the tests meet a complete cluster file
  of their own run; every run terminates.
* Parallel handle: a call is one step; an exit code is the command's own; no healthy
  host is dropped; each command of a list runs on its host.
* HTTP agent: one command at a time; clients are told what happened; a refusal means
  somebody else is being served; deadlines and later shutdowns leave a command that has
  returned alone; a command with a time-out ends, whatever it leaves behind.
* Containers: setup says True only when every host runs the container; nothing
  started is forgotten; a container that may be in use is never removed by a run
  that does not own it.
* SSH pool: no host falls between the sets, or is in both; one connection per host; a nudge
  is never lost; the sets converge to what the nodes are.
* Supervision: one daemon at a time, none after the shutdown; after a reload the daemon
  is the one the new settings describe; a daemon that died comes back.
* Collectors: none runs twice or with a manager that is gone; one that crashed runs
  again; a reload leaves none down.
* Control groups: a row says *installing* only while somebody installs; nothing a group
  does takes an active node of its own out of the files that are scraped.

PROJECT.json lists, under `hazards`, the places in the code where one of these could
go wrong, with the property that would notice, or why none can.

## 2. Modules

| module | role |
|---|---|
| `ManagedRun` | what a managed run promises: when tests start, when a worker may leave, what one run leaves to the next |
| `Rendezvous` | the managed run; `MCRendezvous` adds symmetry, `RendezvousProofs` the proofs |
| `SshPool` | the daemon's pool and its handlers; `MCSshPool`, `SshPoolProofs` |
| `CommandSlot` | what an agent promises the clients of `/v1/exec`: one command at a time, one true answer each |
| `AgentExec` | exec and shutdown of one agent, its processes, its clients; `MCAgentExec` picks the jobs, `AgentExecProofs` |
| `FleetExec` | what a parallel handle promises: a call is one step that answers for all hosts |
| `ParallelHandle` | the handle, in one process and sharded; `MCParallelHandle`, `ParallelHandleProofs` |
| `Containers` | container life cycle over `FleetExec`; `MCContainers`, `ContainersProofs` |
| `SupervisedDaemon` | what the supervision promises: each process image has one daemon at a time, none after its end |
| `DaemonLifecycle` | the backend as supervisor of the daemon; `MCDaemonLifecycle`, `DaemonLifecycleProofs` |
| `SupervisedCollectors` | what restarts and reloads promise: one task per collector, with the manager of its start |
| `CollectorTasks` | the backend's collector tasks; `MCCollectorTasks`, `CollectorTasksProofs` |
| `ControlGroups` | jobs and requests of a control node group; `MCControlGroups`, `ControlGroupsProofs` |

Definitions whose names end in `_Something` next to a definition of the same stem are
mutants (or "variants"): plausible bugs of that code, none of which the specification uses.
They show that each property can fail.

### Rendezvous

One action per step of `Rank0Runner.start` and `stop`, of the heartbeat thread and of
`WorkerRunner`. A marker file is the number of the run that wrote it, 0 when it is
absent; that number stands for the contents too (token, host, port of run *v*). The
order of `clear()` and of `publish()` is in the sequences `ClearOrder` and
`PublishOrder`; a worker's poll is one action per file, in the order of
`_read_rendezvous`, so the files can change between two reads.

*Environment.* Rank 0 and every worker may be killed at any step, any step of
`start()` may raise, a heartbeat write may fail, an answer to a registration may be
lost, and a new run may begin in the same directory at any moment. (`agent_dir` is
named after the scheduler's job alone, and nothing empties it at the end of a run.)

*Promise.* `OneManagedRun` maps rank 0's phases to *starting*, *testing*, *ending* and
*over*, a worker's to *on* or how it ended; *silent* is a heartbeat thread that died or a
rank 0 that crashed. Clearing and publishing files, polls and pulses are stutters.

*Time.* `age[w]` counts heartbeat intervals since worker `w` saw progress. The one
timing assumption is in `Prompt`: a live heartbeat thread pulses in every interval a
worker counts, rank 0's own step between two file operations takes less than one
interval, and so does one poll of the worker.

### SshPool

Three batches of sessions (`Exec`, the background sweep, `ProbeSubset`), one keepalive
per connection and the `refresh_nodes` handler share `conns` and the two sets. Each
lock region of the Go code is one action; everything a goroutine does between two
regions is another. A session goes through the phases of `SessionPhase`; `drop` works
by name, as in the code, so it may close an entry that somebody else is using
(`Cut`). A credential is a generation number. A node is `up`, `refused`, `silent`
(drops packets) or `hung` (accepts TCP, never answers the handshake).

*Left out.* The jump-host dialer (the same cache code with another dial function);
`Probe`, `AddNodes` and `RemoveNodes`, which the daemon never calls; `Close`, after
which the process exits; `probeErrs` and the text of results. *Bounded.* One
`refresh_nodes` message and one `ProbeSubset` at a time; the daemon handles a
connection's messages in order, the backend opens one connection per message and
waits for its answer.

### AgentExec

The handler of a request is cut where it awaits: `Post` (check and set of `exec_busy` in one
piece), `Fork`, `Register` (between the two the process exists and the registry does not
know it), the wait, which ends by `Collect` or `DeadlinePasses`, and in FILE mode `Written`.
`_terminate_process_group` is `SigTerm`, in the turn of the loop in which it begins, then
`GraceOver`, and `Kill` a turn later, when the shell may have ended; its wait is the guard
of `Collect` or `ShutdownEnds`. A command is a shell that may end at any time with any code,
or never, and children that hold the pipes, have redirected their output, or ignore SIGTERM.
`got` is what the caller of `_SyncHTTPClient.run_command` sees, so `timed_out` has become a
`Timeout`. A client whose read deadline passed hears nothing more; the handler goes on.

*Agent's end.* `Shutdown` takes the snapshot of the registry and signals nobody: the
terminations handed to `gather` run later, each as `Terminate`, and `ending[r]` is how far
the one of `r` has come. In between the handler of `r` may return, and then SIGTERM, or
later SIGKILL, reaches what the returned command left in its group (section 5).
`SignalsTheCurrent` says that this is the only way: the snapshot holds commands in progress
only, and whoever is signalled is in progress or was in the snapshot. `ShutdownEnds` is the
SIGTERM the handler sends to its own process. `lifecycle.py:184` runs uvicorn in a thread,
where no signal handler can be installed, so the process ends at once, with the handlers in
it; `Gone` is `stop()`, which joins for five seconds, or a crash. Processes have sessions of
their own and stay.

*Promise.* `OneSlotServer` maps the handler's points to *unsent*, *served* and *over*, the
shell to the command and `got` to what the client heard. Registration, deadlines,
signals, children and the steps of a shutdown are stutters.

*Assumed.* The second that the read deadline allows beyond the timeout and the grace period
covers a fork and a response, so a client gives up only on a killed process the kernel does
not end or on a slow write. *Left out.* The number of a group whose last process is gone may
be given to another, which a late signal would reach; authorisation (`Rendezvous` has the
tokens), `/health`, output and its truncation, requests that find no agent.

### FleetExec and ParallelHandle

`FleetExec` has four operations: `Call` (a call begins), `Exec` (it returns a
dictionary that answers for every host), `Raise`, `Prune`. `ParallelHandle` is
`ParallelHandle.exec` / `exec_cmd_list` with `stop_on_errors` off, the worker
processes of `ParallelHandleSharder` and the merge of `MultiProcessParallelHandle`.
`hostsPerShard` is chosen in the initial state and never changes. A call is split
into: connect each host, all connections joined, read each host's streams in
inventory order, check the hosts whose exception is one of the pruning types once
more, forget those that fail again and overwrite their answers, return. The mapping
to `FleetExec` is the identity on `reach` and `ret`, `sharded` being `use_mp`.

Command lists are sequences. `ExecCmdList(written, ...)` is called with the list of the
commands of `written`, the whole inventory or the hosts that could be reached when the
caller looked, now or before others were lost; a command is named by the host it was
written for. In one process the list goes to parallel-ssh as it is, which pairs it with
its hosts by position (`Zip`). The sharded handle pairs it with the inventory or with the
reachable hosts, whichever has its length, keeps the commands of reachable hosts in
inventory order (`Filtered`), gives each worker a chunk of the hosts and the slice of the
commands that begins where the chunks before it end (`ChunkOf`, `ShardCommands`), and the
worker pairs the two by position again (`Assigned`). A list of any other length is refused
(`RefuseCmdList`), which maps to `Fleet!Raise`. `RightHostSharded` says that after all this
each host has its own command.

*External.* parallel-ssh is outside the repository. From how the code uses it the
model takes: `run_command` connects all hosts and keeps an exception per host when
`stop_on_errors` is off; `host_args` are paired with the client's hosts by position
and a list that is too long is not an error; the streams of a host that goes away
end, and its exit code stays `None`. The connectivity check is one look at `up`.

*Left out.* File transfers, `reboot_connections` and `destroy_clients`, which change
no state of the handle; `stop_on_errors` and the session retry it enables; the HTTP
transport, of which `AgentExec` has the agent's side.

### Containers

`setup_containers` with its three life times, the steps of
`DockerRuntime.setup_containers` (image from a tar, with a registry login, or public),
the undo of a partial start, `teardown_containers` and `exec`. Each docker command is
one `Fleet!Exec`; what it did on the hosts, `done`, is tied to the answers only where
an answer says so: `ok` implies that it was done, `fail` that it was not, and a host
that was lost or timed out says nothing. `docker rm ... || true` answers `ok` whatever
happened (`CommandOrTrue`). A `docker run` nobody waits for any more may still
succeed (`late`, `LateRun`), and operators or reboots change a host at any moment
(`Meddle`).

*Assumed.* The handle works in one process; a sharded one raises at the first detailed
call that prints (section 5). *Left out.*
`setup_sshd`, the MPI launch, the composition of `docker` arguments; `cleanup` has no
caller.

### DaemonLifecycle

The backend is one event loop, so an action is what runs between two awaits. `lc` is the
task `_run_daemon_lifecycle` (`LcSpawn` and `LcRegister` are the two halves of
`create_subprocess_exec`, then the poll for the socket file, the delivery of the key and
the wait for the process), `pc` and `rl` are the handler that runs: the start, a reload,
the shutdown. `StopDaemon` is `_stop_daemon`, which sets the flag, cancels the
task wherever it is and waits for the process. A daemon is a process of its own that
opens its socket some time after it began and may die at any moment, leaving the file
(`sock` is the process that bound it, dead or alive). A call of the daemon runs in a
worker thread: cancelling the task that awaits it does not take it back (`late`).
`Exec` is `POST /restart`, which replaces the process image and leaves the children.

A configuration stands for the whole ssh section; `Jump` are those with a jump host,
for which a reload stops the daemon, fetches the key and starts anew, while the others
are updated in place. *Bounded.* Processes, faults, saved configurations, reloads,
process images. *Left out.* In-memory passwords, the probe and the node status, the
web-socket broadcast, port forwarding. *Promise.* `OneAtATime`: the daemons alive, by the
process image that started them; sockets, keys and the steps of a reload do not show.

### CollectorTasks

`reg[n]` is `app_state.collector_tasks[n]`. A crash queues the done callback (`OnDone`),
which queues `Schedule`, which creates the task that sleeps its backoff and then starts
the collector again (`Restart`): three turns of the loop, between which a reload may
run. The reload cancels the collectors of a section in any order, awaits each and then
cancels the pending restart. Awaiting a task that is over does not yield; awaiting one
that failed raises (`ReloadRaises`). Through a jump host `ssh_manager` is `None` while
the daemon stops. `strays[n]` counts tasks that run although the registry has
forgotten them. Reloads are serialised by their lock, and the shutdown begins when
the server has answered the last request.

*Promise.* `OneTaskEach`: each collector's task, as the manager it works with. What is
queued, sleeps or awaits does not show, and cancelling shows when it takes effect.

*Left out.* Reloads that change nothing or fail their checks, which touch no
collector; what a collector does in one round.

### ControlGroups

Every handler and every job is a coroutine of one loop and each has a database session.
`task[j][n]` is `install_single_node` of job `j`, with `loaded`, the status its session
believes the row to have. Two rules of the session matter: an attribute set to the value
that was loaded is not written, and after a commit nothing is loaded until it is read
again. So the outcome of an installation is written unless it equals what was
loaded when the connection stood (`Connected` reads `node.hostname`), and a verdict or a
failed connection is always written. `interrupted` records
the nodes whose work a restart of the process cut off, as nothing resumes it.

`targets[m]` are the files of the name `m`, whoever has it; `JobEnd` writes those of the
name that was read when the job began. A rename leaves the files where they are and frees
the old name, which is unique among groups but not reserved. The other groups are the
action `OthersWrite`: they write or remove the files of a name at any time, and of any
name, because a job of theirs may have begun under a name that this group has by now, and
because names that differ only in characters which are replaced share their files. What they
take out of sight is remembered in `ousted` until this group writes its files again.
`ActiveIsScraped` is about the group's own steps: none takes an active node out. After a
rename another group can (create one under the old name, install or delete it), and until a
refresh, an installation or a deletion of a node writes the new name's files the node is
not scraped. Which names others have at the moment is not a variable: they may take any
that is free and give it up, so it restricts nothing but a `Rename` that is refused.

*External.* SQLAlchemy and the database: the two rules above, and that an `UPDATE` of a
deleted row changes nothing. *Left out.* Failures of the database or of a file write, a
change of `control_type` (the exporter files of the old type stay), SSH keys, Grafana.

## 3. Runs

| run | configuration | states | what it shows |
|---|---|---|---|
| `rendezvous` | 2 workers, 2 runs in one job, 3 silent beats, fair | 325 000 | type; `NeverUnauthorized`, `TestsReachAgents`, `GiveUpOnlyOnSilence`; refinement `OneManagedRun`; `RunEnds` |
| `ssh_pool` | 1 node (up, refused, silent), 2 dial slots, 2 credential generations, 1 refresh, 1 fault, fair | 339 000 | `NoHostLost`, `NudgeNotLost`, `SetsDisjoint`, `OneConnectionPerHost`; `UpIsReachable`, `RefusedIsNoticed` |
| `agent_exec` | 2 requests, 5 kinds of jobs, 1 shutdown, fair | 866 000 | type; `OneCommand`, `ToldTheTruth`, `SignalsTheCurrent`; refinement `OneSlotServer`; `ExecEnds`, `ShutdownCompletes` |
| `phandle` | 2 hosts, in one process and one host per worker process, all modes, fair | 217 000 | type; `RightHostSharded`, `AnswerIsTrue`, `HealthyKept`, refinement `OneStep`; `CallReturns` |
| `containers` | 2 hosts, three life times, every source, 3 operations, 1 outside change | 892 000 | type; `SetupMeansAllRun`, `RunningKept`, `NothingForgotten` |
| `daemon_lifecycle` | 3 configurations (2 with a jump host), 4 processes, 2 faults, 2 edits, 2 reloads, 1 replaced image, fair | 1 870 000 | type; `NothingLeftBehind`, `ReloadApplies`; refinement `OneAtATime`; `ComesBack` |
| `collector_tasks` | 3 collectors, 3 crashes, 2 reloads, fair | 27 500 | type; `ManagerIsCurrent`; refinement `OneTaskEach`; `CrashedComesBack` |
| `control_groups` | 2 nodes, 2 names, 2 jobs with one place each, 1 verification per node, other groups | 1 532 000 | `InstallingIsWorkedOn`, `ActiveIsScraped` |

A refinement is checked as a property of its run: every step of the detailed module is a
step of the abstract one or a stutter. `RefusedOnlyWhenServing`, `NoEarlyExit`, `OneDaemon`
and `OneTask` say in terms of the code what the abstract steps have as guards; they are
proved, but no run repeats them.

Four further runs end in a counterexample, each to a sentence the repository says of
itself; PROJECT.json quotes the sentence under `findings`.

| run | property | what happens |
|---|---|---|
| `rendezvous_stale` | `RendezvousIsCurrent` | a worker of a second run in the job reads the first run's host and port before rank 0 clears them, never reads them again, and fails |
| `phandle_misaligned` | `RightHost` | in one process, after host 1 was pruned host 2 runs host 1's command |
| `daemon_key_lost` | `KeyFollowsTheDaemon` | the supervisor takes the socket file of a dead daemon for its successor's, and the key goes to nobody |
| `collectors_left_down` | `NoneLeftDown` | a reload awaits a collector that crashed, ends with its exception, and leaves those it had cancelled down |

### Why these bounds are enough

* *Rendezvous.* Two runs are what it takes for stale files; a third only repeats the
  second, as a file remembers nothing but its last writer. Two workers interact only
  through rank 0's registry and cluster file, which need a pair to be incomplete.
  `StaleBeats` is the constant of the code (three).
* *SshPool.* Hosts share only the dial slots and the credentials, and three tasks on
  one host already compete for two slots. Larger instances pass as well, too slowly
  for the suite: two refreshes with a fault (1.2 million states, `up` and `refused`),
  and two hosts without faults. The safety properties are proved for every instance.
* *AgentExec.* The slot admits one request, so two are the one that holds it and one
  that is refused or follows. The five jobs have every mode, limit and kind of children;
  all thirty-two take five million states and more. Safety is proved for every instance.
* *ParallelHandle.* Two hosts give both a part of two hosts (a time-out on one marks
  the other) and two parts of one. A list of the inventory that meets a handle without
  host 1 is what shifts the positions. Slices of two commands need three hosts, which pass
  without the liveness property (2.3 million states). All of it but `CallReturns` is
  proved, for all slices.
* *Containers.* Partial success needs two hosts; three operations are a setup, a
  teardown or exec and another setup. `WithoutAnswers` hides `ret`, which no step
  reads before it is overwritten. Symmetric hosts. All its properties are proved.

* *DaemonLifecycle.* Two jump configurations are what it takes for a daemon that dials
  through the old host; two reloads, for one that meets what the first left. Four
  processes are the one that is registered, the one that owns the socket, the one being
  started and one more. The restart limit is 1 instead of the code's constant, so that it
  is reached. Safety is proved for every instance.
* *CollectorTasks.* One collector of each kind of section; three crashes, so that
  a restart and two reloads each meet one. Safety is proved for every instance.
* *Types.* The type invariants of `SshPool` and `ControlGroups` are proved only; their
  runs spend their states on more.
* *ControlGroups.* Two jobs on two nodes with one place each overlap on a row, in the file
  and in the queue. Two names are a rename, the old one free to others. Both properties are
  proved for every instance.

`CHECK_DEADLOCK FALSE` is set where the system really stops: a run of a job that has ended,
a pool whose bounds are used up, an orchestrator after its last operation, a backend that
has shut down.

### Fairness

* *Rendezvous.* Weak fairness of each process: rank 0 continues, which includes that
  the tests end; a worker's deadline passes in the end; strong fairness of `Tick`,
  since time passes although each poll disables the tick for a moment. Nothing is
  assumed of crashes, lost answers or later runs.
* *SshPool.* Weak fairness of each goroutine; the ticker and the collectors go on.
  Sessions get strong fairness, as a slot of `dialSem` (a Go channel, first come first
  served) is free again and again. Nodes are under no obligation.
* *AgentExec.* The event loop takes up each coroutine that can go on, a timeout passes,
  and the kernel ends a killed shell in the end. A command is under no obligation, nor
  are its children; an inactivity timeout may never pass, so `ExecEnds` speaks of
  requests with a timeout.
* *ParallelHandle.* Weak fairness of connecting, of reading a host whose streams
  ended **or** whose time-out expired, of the checks and of the return. A node need
  never finish a command, which is why `CallReturns` speaks of calls with a time-out.
* *DaemonLifecycle.* The event loop takes up the supervisor and the handler in progress; a
  daemon that was started opens its socket or dies, and dies when told to. Crashes are
  bounded, requests are under no obligation.
* *CollectorTasks.* The loop runs what is queued, a backoff ends, and a reload whose await
  is over goes on. A reload need not begin or end otherwise.

## 4. Theorems

All proofs are checked by TLAPS for every value of the constants, under the named
assumptions of the modules (sizes are natural numbers, sets have the members the code
knows). Proof modules: `RendezvousProofs`, `SshPoolProofs`, `AgentExecProofs`,
`ParallelHandleProofs`, `ContainersProofs`, `DaemonLifecycleProofs`,
`CollectorTasksProofs`, `ControlGroupsProofs`.

* **Rendezvous** (any number of workers and runs): `TypeOK`, `NoEarlyExit`,
  `NeverUnauthorized`, `TestsReachAgents`, `GiveUpOnlyOnSilence`. None is inductive
  alone. The invariant ties each control point of rank 0 to the files it has cleared
  or written so far (`FilesInv`): from the end of `clear` on, every file is 0 or of
  this run, and the port is there only when token, host and interval are. Since the
  token is read last, a worker that holds this run's port holds this run's token;
  since `done` is cleared before a port is published, the `done` a watching worker
  sees is of its own run. A second part bounds a worker's age by the pulses it has
  not yet seen.
* **SshPool** (any inventory, dial slots, bounds): `TypeOK`, `NoHostLost`,
  `NudgeNotLost`, `OneConnectionPerHost`, `SetsDisjoint`. `NoHostLost` and
  `NudgeNotLost` are inductive together; the proof frames the many steps that touch no
  set. `SetsDisjoint` (no host in both sets until the inventory changes a second time)
  is not inductive, as `Refresh` writes one set only for a host it adds. `EarlyInv`
  makes it so: until the first change reaches the sets, every session, keepalive,
  cached entry and set member is of the inventory, so an added host is in neither set.
  `SshPoolOverlapOnlyByAdding` says, without a bound, that no other step makes an overlap.
* **AgentExec** (any number of requests, any jobs): `TypeOK`, `OneCommand`,
  `ToldTheTruth`, `RefusedOnlyWhenServing`, `SignalsTheCurrent`. The last needs that
  whatever is registered is in progress (`RegistryFollows`). `OneCommand` needs
  `AgentInv`: at most one handler is past the check and the flag says whether there is
  one (`OneSlot`), and while the agent lives a running shell belongs to a handler that
  has not returned (`ShellsFollow`), so the handler that forks is the only one that
  could own a shell.
* **ParallelHandle** (any number of hosts, shard sizes, modes): `TypeOK`,
  `AnswerIsTrue`, `HealthyKept`, `RightHostSharded`, and `OneStep`: every step
  implements a step of `FleetExec` or a stutter. The invariant `CallInv` says that
  the parts cover the reachable hosts, that a part has answered for all its hosts
  before it forgets any, that what it forgets was seen down since the call began, and
  that an answer with an exit code agrees with what became of the command. For
  `RightHostSharded` the positions are followed through the pairings: `Position` is
  one-to-one and onto (so `InOrder` lists each host where `Position` says), a chunk is an
  interval of positions that begins after as many hosts as the chunks before it have
  (`BeforeChunk`), so the slice's `k`-th command is that of the chunk's `k`-th host.
* **Containers** (any hosts and bounds): `TypeOK`, `NothingForgotten`,
  `SetupMeansAllRun`, and `RunningKept` under the hypothesis that no host writes to
  stderr; without it one such line makes it false (section 5). The invariant
  `CtrInv`: a launch begins only with `container_id` set, and under a life time other
  than `per_run` only where the probe found nothing running.

* **DaemonLifecycle** (any configurations, node lists and bounds): `TypeOK`,
  `OneDaemon`, `NothingLeftBehind`, `ReloadApplies`. `OwnInv` says where a living daemon
  of this process image is known: it is the one that is registered, or the one the
  supervisor is about to register, or the one being stopped; so a supervisor that
  starts another has seen its own die. `ApplyInv` relates the manager to the settings at
  each step of a reload, and the daemon's dialer to the manager of its supervisor.
* **CollectorTasks** (any collectors and bounds): `TypeOK`, `OneTask`,
  `ManagerIsCurrent`. A restart is queued or sleeps only for a task that failed and still
  stands in the registry, and the collectors a reload is about to start have neither a
  task nor a restart.
* **ControlGroups** (any nodes, names, jobs, places and verifications): `TypeOK`,
  `InstallingIsWorkedOn`, `ActiveIsScraped`. The strengthening is that some installation
  of a row that says *installing* **will write**: it has loaded nothing yet, or has
  loaded *installing*; the session's rule can then not swallow its outcome. Of the other
  groups nothing is assumed.

### Refinements

Each proof has the same shape: the initial states map to initial states, and there is one
step per action that names the abstract step it is, or shows a stutter; the inductive
invariant above supplies the abstract guard.

* **`OneStep`**: `ParallelHandle` implements `FleetExec`.
* **`OneManagedRun`**: `Rendezvous` implements `ManagedRun`. That a new run begins as the
  first did needs `FilesInv`, since nothing empties the directory: `Done(w)` may read a file
  of which only the number in it says that it is of this run. `GiveUp(w)` needs the bound on
  ages; a rank 0 whose start failed is the awkward case, as it marks the run before it has
  closed its agent.
* **`OneSlotServer`**: `AgentExec` implements `CommandSlot`. `OneSlot` gives the guards of
  `Accept` and `Refuse`, `ShellsFollow` those of `Run` and `Finish`: a handler answers only
  when the shell is no longer running. What a shutdown signals is a stutter,
  the command's end and the answer are steps of their own.
* **`OneAtATime`**: `DaemonLifecycle` implements `SupervisedDaemon`. `OwnInv` gives the guard
  of `Start`; a reload that cancels the supervisor between the two halves of a start shows
  as `End` of a daemon that was never registered.
* **`OneTaskEach`**: `CollectorTasks` implements `SupervisedCollectors`. A reload replaces the
  manager only when all it cancelled are over (`Renew`). A restart that finds no manager
  is possible only for a collector that uses none, which takes one more invariant, for
  after the shutdown (`GoneInv`).

### Composition

`ContainersUseFleet` proves that what the orchestrator does with its handle is a behaviour of
`FleetExec`: every step is a step of the handle's specification or leaves it alone.
`ParallelHandleOneStep` proves that a handle behaves like that. Together they let the
theorems about `Containers` stand for the code, in which the orchestrator calls the real
handle, without a product of the two state spaces.

### How far the refuted promises hold

Each violation run has a theorem beside it that says where the sentence of the repository
is true, so the counterexample's cause is shown to be the only one.

| promise | violated by | holds, for every instance |
|---|---|---|
| `RightHost` | `phandle_misaligned` | as long as no host was given up (`ParallelHandleRightHostUntilLoss`) |
| `RendezvousIsCurrent` | `rendezvous_stale` | in the first run of a job (`RendezvousCurrentInFirstRun`); in later runs a worker with stale files is accepted by nobody (`RendezvousStaleLeadsNowhere`) |
| `NoneLeftDown` | `collectors_left_down` | until a collector crashes (`CollectorNoneLeftDown`) |
| `KeyFollowsTheDaemon` | `daemon_key_lost` | until something crashes or fails to start, a configuration is saved or the process image is replaced, whenever the key was fetched (`DaemonKeyUntilCrash`). The invariant `Held`: one daemon is ever started, the socket file is its own, and the key reaches it with the first delivery or with the one after a later fetch |
### What stays with TLC

`RunEnds`, `UpIsReachable`, `RefusedIsNoticed`, `CallReturns`, `ExecEnds`,
`ShutdownCompletes`, `ComesBack`, `CrashedComesBack`. They are liveness under fairness;
proving them needs ENABLED, which is outside what the prover handles. Their safety half
(what the waiting process can and cannot see meanwhile) is in the invariants above. All
other properties of the passing runs are theorems.

Not yet proved, and worth it next: an abstract specification for the SSH pool (a cache
that serves each host by one connection and never forgets one) and for the control groups
(an installation as one step on a row and its target).

## 5. Observed, not claimed

Further places where the code does less than a reader may expect, seen while the
models were written; no run is spent on them.

* `_print_merged_outputs` (`lib/parallel/multiprocess_phandle.py:204`) calls
  `splitlines()` on each value, which is a dict for `detailed=True`, so a sharded detailed
  call with the default `print_console` raises after the command ran everywhere.
* `/v1/shutdown` is documented as "Terminate every process this agent has spawned"
  (`core/agent/http_agent.py:323`). A shell that is forked but not registered, one whose
  request arrives during the grace period, and children that a finished command left
  behind all survive it; and its own answer is lost (see *Agent's end*). A command that
  returns between the snapshot and its termination is signalled all the same: "already
  exited" (`:100`) is met with ProcessLookupError only if it left nothing in its group.
* `ExecResponse` says that after a time-out "exit_code reflects the kill signal
  (negative)" (`core/agent/messages.py:93`). A shell that has ended while a child holds the
  pipes, or that traps SIGTERM, leaves its own code beside `timed_out`.
* `is_running` filters on `status=running`, so a container that is stopped on every
  host counts as "genuinely absent" (`core/orchestrators/container.py:391`) and is
  replaced.
* `container_id` is set before anything starts and stays set when the start fails, so
  `exec` passes its check "if no containers are currently running" with none.
* `docker rm -f ... || true` makes `teardown_containers` answer True for a removal
  that failed.
* A node that drops packets may end each dial with an error that matches
  `context.DeadlineExceeded`, which `isConnError` takes for a slow command; such a
  node can stay reachable. `RefusedIsNoticed` is the part that holds.
* One `OSError` from a touch ends the heartbeat thread (`core/agent/lifecycle.py:157`),
  which is there "so workers can tell rank 0 is still running" (`:134`): the workers
  leave while the tests run. The model has the step (`Rendezvous`).
* `Refresh` sets the node list "to exactly the given set"
  (`go-collector/pkg/pssh/pool.go:183`), but a sweep that began before publishes its
  verdict afterwards (`probe.go:250`) and puts a removed host back. If a credential
  change then moves it to unreachable and the inventory adds it back, `pool.go:211` makes
  it reachable and leaves it unreachable too: health counts it twice, and `Exec`, whose
  "pre-existing unreachable nodes are excluded" (`:358`), runs on it. TLC finds the path
  with `MaxRefresh = 2`; `SshPoolOverlapOnlyByAdding` shows that it is the only kind of
  step, and `SshPoolExcludedUntilReadded` that `Exec`'s comment is true until the second
  change of the inventory.
* `UpdateCredentials` says connections of the old credentials "cannot be re-used"
  (`pool.go:249`); a handshake in flight is cached after it (`pool.go:519`).
* `ProbeTimeout` is "the per-host deadline for a single connectivity check"
  (`probe.go:12`), but the handshake through a dialed socket has none (`pool.go:498`). A
  node that accepts TCP and never speaks SSH (`hung` in `SshPool`) holds the sweep for
  good. The run leaves `hung` out, since no recovery can be promised with it; the
  theorems hold with it.
* A line on stderr makes a container that runs look absent
  (`core/runtimes/docker.py:212`), although `_partition_by_status` says that `absent`
  means "no such container is running" (`core/orchestrators/container.py:286`), and it is
  removed.

Of the monitor backend (`cluster-mon/backend/app/main.py`):

* A reload replaces the settings (`:444`) before it checks nodes and keys. When a check
  fails, uploading the key and reloading again reports no changes (`lost` in
  `DaemonLifecycle`; `ReloadApplies` excepts exactly this).
* A reload that cancels the supervisor while it delivers the key leaves the call queued
  in its worker thread; it can reach the next daemon and replace the key of the new jump
  host by that of the old one, with nothing crashed (`late`, `LateCall`). This is why
  `DaemonKeyUntilCrash` excepts saved configurations.
* `nodes_changed` (`:464`) compares two lists read from the same file, and is never true.
  A reload for a polling or rccl change does not send the node list.
* Without nodes at the start the backend is "Waiting for user to configure nodes via web
  UI" (`:954`); a reload in direct mode then creates a manager and never a daemon.
* A change from a jump host to direct access updates the daemon in place, though its
  dialer was fixed when it started; a direct reload leaves the supervisor with the old
  manager, which the next restart uses. `restart_count` is never reset, so rare crashes
  add up to the limit.
* `POST /restart` is "a graceful shutdown and restart" (`api/restart.py`), but `os.execv`
  leaves the daemon running.
* The collectors' backoff never grows: each `_start_collector_task` has a fresh
  `_backoff` (`:365`), "exponential" in its docstring. The inspector is not
  restarted when ssh changes, and one that crashes during a jump reload restarts with no
  manager; `ManagerIsCurrent` speaks of the collectors a reload does restart.

Of the fleet manager:

* A job that ends while `delete_control_node_group` awaits Grafana writes the target files
  of the group again, so they outlive it ("Delete a control node group and all its
  nodes, Prometheus targets", `control_nodegroups.py:598`). `ActiveIsScraped` therefore
  speaks of active nodes being scraped and not of others not being.
* A rename leaves the files of the old name (`control_nodegroups.py:586`), though files
  are found by name alone (`services/prometheus_config.py:236`): a group that is then
  created under that name and installed, refreshed or deleted takes the first group's
  active nodes out of what Prometheus reads, with no error anywhere. A refresh of the
  renamed group repairs it. Names such as `a-1` and `a_1` share their files all along.
* A verification takes an active node back to connected and leaves its target; two
  requests may install on one node at once; after a restart a row stays *installing*, a
  status that even `force` does not select (`:817`).
* GPU node groups handle requests in threads, so a deletion may overwrite the newer
  target list of a job. `SSHManager.connect` returns False instead of raising, which
  `async with` ignores.
* Each installation keeps a database connection while it awaits ssh. The pool has 30 and a
  request may ask for 50 at once; the thirty-first blocks the event loop.

## 6. Not modelled

The models stand for the small part of the repository that has concurrency, failure or
ordering of its own. Most of its lines are of other kinds, which is why the mapped share
of the lines is low and stays low:

* **Tests and the libraries they use** (`tests/`, `lib/inference`, `lib/training`,
  `lib/rccl_lib.py`, `lib/anc_lib.py`, `lib/verify_lib.py`, ...): one thread that builds a
  command line, calls the parallel handle, polls a log and parses what comes back. A call
  of the handle is a step of `FleetExec`; the rest is text.
* **Preflight checks** (`lib/preflight`): independent checks over the handle, and reports.
* **Reports, parsers, schemas** (`lib/html_lib.py`, `lib/preflight/report.py`, `parsers/`,
  `schema/`): layout and formats, with no state.
* **Scheduler detection and host lists** (`core/scheduler.py`): a function of the
  environment that takes strings apart; a model that abstracts characters leaves nothing
  of it, and one that keeps them is the program.
* **Bare-metal orchestrator, factory, command line, pytest integration**: one call each, in
  sequence. What they drive is in `Rendezvous`, `Containers` and `FleetExec`.
* **Parallel handle**: file transfers, `reboot_connections`, `destroy_clients` (no state
  of the handle), `stop_on_errors` and the session retry it enables, the HTTP transport.
* **Containers**: `setup_sshd` and the MPI launch, sequences of commands whose failures
  raise; the composition of `docker` arguments.
* **Monitor backend**: the connectivity probe and node status (written by one task, read by
  views), the web-socket broadcast (a bounded queue per client, a slow client is
  disconnected),
  port forwarding, installers, log and metrics endpoints.
* **Fleet manager**: GPU node groups, whose protocol is that of the control node groups;
  monitoring servers, alerts, Grafana provisioning, proxies for queries: requests that
  write one row or one file or build a document.
* **Collector scripts, health scripts, front end**: one-shot programs and views.
