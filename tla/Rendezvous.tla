----------------------------- MODULE Rendezvous -----------------------------
(***************************************************************************)
(* The life of one scheduler-managed CVS run, and of the runs that follow  *)
(* it inside the same scheduler job.                                       *)
(*                                                                         *)
(* Rank 0 clears the markers an earlier run left in the shared agent_dir,  *)
(* mints a bearer token, serves HTTP, publishes where it listens, pulses   *)
(* rank0.alive and waits for the workers to register before it writes      *)
(* cluster_agents.json and runs pytest.  A worker polls the same files,    *)
(* reading them one at a time, starts an agent of its own, registers over  *)
(* HTTP and then watches the heartbeat until rank 0 is done or silent.     *)
(*                                                                         *)
(* run_dir is named after SLURM_JOB_ID alone (run_layout.py), so a second  *)
(* step or a requeue of the job finds the files of the run before it.  A   *)
(* value v in file[f] says that the run numbered v wrote file f; 0 says    *)
(* that f is absent.  The same number stands for what the file carries: a  *)
(* token, a host, a port are those of run v.                               *)
(***************************************************************************)
EXTENDS Naturals, Sequences

CONSTANTS
  Workers,     \* the ranks other than 0
  MaxRun,      \* bound: runs started in one scheduler job
  StaleBeats   \* silent heartbeat intervals after which a worker gives up

ASSUME RendezvousAssumption ==
  /\ MaxRun \in Nat \ {0}
  /\ StaleBeats \in Nat \ {0, 1}

VARIABLES
  run,       \* number of the current run in this job
  file,      \* agent_dir: which run wrote each marker file, 0 when absent
  cluster,   \* cluster_agents.json: its run (0: absent) and each agent's port
  r0,        \* control point of rank 0's process
  step,      \* next file of a clear or publish in progress
  auth,      \* token rank 0's HTTP agent accepts, 0 while it is not auth
  registry,  \* rank 0's AgentRegistry: run of the agent each worker announced
  hb,        \* rank 0's heartbeat thread
  pc,        \* control point of each worker
  got,       \* what each worker read of the rendezvous
  agent,     \* each worker's HTTP agent: its run (0: down) and its token
  fresh,     \* rank0.alive was touched since the worker last looked
  age,       \* heartbeat intervals since the worker last saw progress
  beaten     \* the heartbeat thread pulsed in the interval each worker counts

r0vars == <<r0, step, auth, registry, hb>>
wvars == <<pc, got, agent, fresh, age>>
vars == <<run, file, cluster, r0vars, wvars, beaten>>

-----------------------------------------------------------------------------
(* Types *)

Runs == 0 .. MaxRun
Ages == 0 .. StaleBeats
FileName == {"secret", "host", "port", "alive", "interval", "done"}

Rank0Phase == {"clear", "token", "bind", "serve", "publish", "beat", "wait",
               "test", "stop", "mark", "close", "exited", "failed", "crashed"}
Polling == {"poll1", "poll2", "poll3", "poll4"}   \* next read of _rendezvous
WorkerPhase == Polling \cup {"serve", "register", "watch", "stat",
                             "ok", "gaveUp", "failed", "killed"}

Rank0Ended == {"exited", "failed", "crashed"}
WorkerEnded == {"ok", "gaveUp", "failed", "killed"}

TypeOK ==
  /\ run \in 1 .. MaxRun
  /\ file \in [FileName -> Runs]
  /\ cluster \in [run : Runs, port : [Workers -> Runs]]
  /\ r0 \in Rank0Phase
  /\ step \in 1 .. 6
  /\ auth \in Runs
  /\ registry \in [Workers -> Runs]
  /\ hb \in {"off", "running", "stopped", "dead"}
  /\ pc \in [Workers -> WorkerPhase]
  /\ got \in [Workers -> [host : Runs, port : Runs, token : Runs]]
  /\ agent \in [Workers -> [run : Runs, token : Runs]]
  /\ fresh \in [Workers -> BOOLEAN]
  /\ age \in [Workers -> Ages]
  /\ beaten \in [Workers -> BOOLEAN]

-----------------------------------------------------------------------------
(* Initial state: the first run of the job finds an empty agent_dir. *)

NothingRead == [host |-> 0, port |-> 0, token |-> 0]
AgentDown == [run |-> 0, token |-> 0]

Init ==
  /\ run = 1
  /\ file = [f \in FileName |-> 0]
  /\ cluster = [run |-> 0, port |-> [w \in Workers |-> 0]]
  /\ r0 = "clear" /\ step = 1
  /\ auth = 0
  /\ registry = [w \in Workers |-> 0]
  /\ hb = "off"
  /\ pc = [w \in Workers |-> "poll1"]
  /\ got = [w \in Workers |-> NothingRead]
  /\ agent = [w \in Workers |-> AgentDown]
  /\ fresh = [w \in Workers |-> TRUE]
  /\ age = [w \in Workers |-> 0]
  /\ beaten = [w \in Workers |-> FALSE]

\* A second srun step, or a requeue, in the same job: every process of the
\* current run is gone, whatever it was doing, and new ones start on the files
\* it left behind.
NextRun ==
  /\ run < MaxRun
  /\ run' = run + 1
  /\ r0' = "clear" /\ step' = 1
  /\ auth' = 0
  /\ registry' = [w \in Workers |-> 0]
  /\ hb' = "off"
  /\ pc' = [w \in Workers |-> "poll1"]
  /\ got' = [w \in Workers |-> NothingRead]
  /\ agent' = [w \in Workers |-> AgentDown]
  /\ fresh' = [w \in Workers |-> TRUE]
  /\ age' = [w \in Workers |-> 0]
  /\ beaten' = [w \in Workers |-> FALSE]
  /\ UNCHANGED <<file, cluster>>

-----------------------------------------------------------------------------
(* Rank 0: Rank0Runner.start *)

ClearOrder_KeepsDone == <<"secret", "host", "port", "alive", "interval">>
ClearOrder_Extra ==
  <<"secret", "host", "port", "alive", "interval", "done", "cluster_agents">>

\* clear() unlinks the leftovers one by one, in this order.
ClearOrder == <<"secret", "host", "port", "alive", "interval", "done">>

\* publish() writes the port last: a worker that finds it finds the rest.
PublishOrder == <<"host", "interval", "port">>

Write(f) == file' = [file EXCEPT ![f] = run]

Clear ==
  /\ r0 = "clear"
  /\ file' = [file EXCEPT ![ClearOrder[step]] = 0]
  /\ IF step < Len(ClearOrder)
       THEN step' = step + 1 /\ r0' = "clear"
       ELSE step' = 1 /\ r0' = "token"
  /\ UNCHANGED <<run, cluster, auth, registry, hb, wvars, beaten>>

CreateToken ==
  /\ r0 = "token"
  /\ Write("secret")
  /\ r0' = "bind"
  /\ UNCHANGED <<run, cluster, step, auth, registry, hb, wvars, beaten>>

\* HttpAgentServer binds its socket in the constructor.
Bind ==
  /\ r0 = "bind"
  /\ r0' = "serve"
  /\ UNCHANGED <<run, file, cluster, step, auth, registry, hb, wvars, beaten>>

\* The lifespan hook reads the token and registers rank 0 itself; start()
\* returns once the server accepts connections.
Serve ==
  /\ r0 = "serve"
  /\ file["secret"] # 0
  /\ auth' = file["secret"]
  /\ r0' = "publish" /\ step' = 1
  /\ UNCHANGED <<run, file, cluster, registry, hb, wvars, beaten>>

Publish ==
  /\ r0 = "publish"
  /\ Write(PublishOrder[step])
  /\ IF step < Len(PublishOrder)
       THEN step' = step + 1 /\ r0' = "publish"
       ELSE step' = 1 /\ r0' = "beat"
  /\ UNCHANGED <<run, cluster, auth, registry, hb, wvars, beaten>>

\* rank0.alive gets a new mtime: every worker that looks will see it move.
Touch ==
  /\ Write("alive")
  /\ fresh' = [w \in Workers |-> TRUE]
  /\ beaten' = [w \in Workers |-> TRUE]

StartHeartbeat ==
  /\ r0 = "beat"
  /\ Touch
  /\ hb' = "running"
  /\ r0' = "wait"
  /\ UNCHANGED <<run, cluster, step, auth, registry, pc, got, agent, age>>

\* An exception before the try block leaves no marker; inside it the handler
\* marks the run done and stops the server.  The marker may fail to be written
\* too, and then nothing tells the workers.
StartFails ==
  /\ auth' = 0
  /\ \/ /\ r0 \in {"clear", "token", "bind"}
        /\ r0' = "failed"
        /\ UNCHANGED file
     \/ /\ r0 \in {"serve", "publish", "beat"}
        /\ \/ Write("done") /\ r0' = "failed"
           \/ UNCHANGED file /\ r0' = "crashed"
  /\ UNCHANGED <<run, cluster, step, registry, hb, wvars, beaten>>

-----------------------------------------------------------------------------
(* Rank 0: the heartbeat thread *)

Pulse ==
  /\ hb = "running"
  /\ Touch
  /\ UNCHANGED <<run, cluster, r0vars, pc, got, agent, age>>

\* Heartbeat._run has no handler: one failed touch ends the thread.
PulseFails ==
  /\ hb = "running"
  /\ hb' = "dead"
  /\ UNCHANGED <<run, file, cluster, r0, step, auth, registry, wvars, beaten>>

-----------------------------------------------------------------------------
(* Rank 0: wait, run the tests, stop *)

Registered == {w \in Workers : registry[w] # 0}

CreateClusterFile_Partial ==
  /\ r0 = "wait"
  /\ cluster' = [run |-> run, port |-> registry]
  /\ r0' = "test"
  /\ UNCHANGED <<run, file, step, auth, registry, hb, wvars, beaten>>

\* ClusterFile.create: every scheduler host, or no file at all.
CreateClusterFile ==
  /\ r0 = "wait"
  /\ Registered = Workers
  /\ cluster' = [run |-> run, port |-> registry]
  /\ r0' = "test"
  /\ UNCHANGED <<run, file, step, auth, registry, hb, wvars, beaten>>

\* The registration deadline passed with a rank missing (ValueError), or the
\* file could not be written (OSError): cvs run exits 1 through stop().
ClusterFileFails ==
  /\ r0 = "wait"
  /\ r0' = "stop"
  /\ UNCHANGED <<run, file, cluster, step, auth, registry, hb, wvars, beaten>>

TestsEnd ==
  /\ r0 = "test"
  /\ r0' = "stop"
  /\ UNCHANGED <<run, file, cluster, step, auth, registry, hb, wvars, beaten>>

StopHeartbeat ==
  /\ r0 = "stop"
  /\ hb' = IF hb = "running" THEN "stopped" ELSE hb
  /\ r0' = "mark"
  /\ UNCHANGED <<run, file, cluster, step, auth, registry, wvars, beaten>>

MarkDone ==
  /\ r0 = "mark"
  /\ Write("done")
  /\ r0' = "close"
  /\ UNCHANGED <<run, cluster, step, auth, registry, hb, wvars, beaten>>

CloseServer ==
  /\ r0 = "close"
  /\ auth' = 0
  /\ r0' = "exited"
  /\ UNCHANGED <<run, file, cluster, step, registry, hb, wvars, beaten>>

\* Rank 0 is killed, or the write of rank0.done in stop() raises.
Rank0Crash ==
  /\ r0 \notin Rank0Ended
  /\ r0' = "crashed"
  /\ auth' = 0
  /\ hb' = IF hb = "running" THEN "dead" ELSE hb
  /\ UNCHANGED <<run, file, cluster, step, registry, wvars, beaten>>

-----------------------------------------------------------------------------
(* Worker: WorkerRunner.start *)

Goto(w, phase) == pc' = [pc EXCEPT ![w] = phase]

\* One read of a poll of _rendezvous: an absent file sends the poll back to its
\* first read after a sleep.
ReadFile(w, at, f, next) ==
  /\ pc[w] = at
  /\ IF file[f] = 0
       THEN /\ Goto(w, "poll1")
            /\ got' = [got EXCEPT ![w] = NothingRead]
       ELSE /\ Goto(w, next)
            /\ got' = CASE f = "host"   -> [got EXCEPT ![w].host = file[f]]
                        [] f = "port"   -> [got EXCEPT ![w].port = file[f]]
                        [] f = "secret" -> [got EXCEPT ![w].token = file[f]]
                        [] OTHER        -> got
  /\ UNCHANGED <<run, file, cluster, r0vars, agent, fresh, age, beaten>>

ReadRendezvous_TokenFirst(w) ==
  \/ ReadFile(w, "poll1", "secret", "poll2")
  \/ ReadFile(w, "poll2", "host", "poll3")
  \/ ReadFile(w, "poll3", "port", "poll4")
  \/ ReadFile(w, "poll4", "interval", "serve")

\* _read_rendezvous reads host, port and interval; the token comes last.
ReadRendezvous(w) ==
  \/ ReadFile(w, "poll1", "host", "poll2")
  \/ ReadFile(w, "poll2", "port", "poll3")
  \/ ReadFile(w, "poll3", "interval", "poll4")
  \/ ReadFile(w, "poll4", "secret", "serve")

\* The worker's own agent reads the token file again when its server starts.
WorkerServe(w) ==
  /\ pc[w] = "serve"
  /\ file["secret"] # 0
  /\ agent' = [agent EXCEPT ![w] = [run |-> run, token |-> file["secret"]]]
  /\ Goto(w, "register")
  /\ UNCHANGED <<run, file, cluster, r0vars, got, fresh, age, beaten>>

\* The host and port the worker read lead to rank 0's server of this run.
Reaches(w) == auth # 0 /\ got[w].host = run /\ got[w].port = run

\* The finally clause of start() stops the agent on every way out.
Leave(w, phase) ==
  /\ Goto(w, phase)
  /\ agent' = [agent EXCEPT ![w] = AgentDown]

\* The registry takes the entry; the answer reaches the worker, or is lost and
\* the POST is retried.
Accepted(w) ==
  /\ registry' = [registry EXCEPT ![w] = agent[w].run]
  /\ \/ /\ Goto(w, "watch")
        /\ fresh' = [fresh EXCEPT ![w] = TRUE]
        /\ age' = [age EXCEPT ![w] = 0]
     \/ UNCHANGED <<pc, fresh, age>>
  /\ UNCHANGED agent

\* verify_auth answers 401 and _register raises: no retry below 500.
Refused(w) == Leave(w, "failed") /\ UNCHANGED <<registry, fresh, age>>

\* One POST of _register that rank 0 answers.
Register(w) ==
  /\ pc[w] = "register"
  /\ Reaches(w)
  /\ IF got[w].token = auth THEN Accepted(w) ELSE Refused(w)
  /\ UNCHANGED <<run, file, cluster, r0, step, auth, hb, got, beaten>>

\* A deadline passes: no rendezvous, no server, or no answer to the POSTs.
WorkerTimesOut(w) ==
  /\ pc[w] \in Polling \cup {"serve", "register"}
  /\ Leave(w, "failed")
  /\ UNCHANGED <<run, file, cluster, r0vars, got, fresh, age, beaten>>

\* _watch, first half of an iteration: is rank0.done there?
WatchDone(w) ==
  /\ pc[w] = "watch"
  /\ IF file["done"] # 0
       THEN Leave(w, "ok")
       ELSE Goto(w, "stat") /\ UNCHANGED agent
  /\ UNCHANGED <<run, file, cluster, r0vars, got, fresh, age, beaten>>

Silent_OneBeat(w) == age[w] >= 1
Silent_Never(w) == FALSE

\* Three heartbeat intervals without progress.
Silent(w) == age[w] >= StaleBeats

\* _watch, second half: did rank0.alive move, and if not, for how long?
WatchAlive(w) ==
  /\ pc[w] = "stat"
  /\ \/ /\ fresh[w] /\ file["alive"] # 0
        /\ fresh' = [fresh EXCEPT ![w] = FALSE]
        /\ age' = [age EXCEPT ![w] = 0]
        /\ Goto(w, "watch")
        /\ UNCHANGED agent
     \/ /\ ~(fresh[w] /\ file["alive"] # 0)
        /\ IF Silent(w)
             THEN Leave(w, "gaveUp")
             ELSE Goto(w, "watch") /\ UNCHANGED agent
        /\ UNCHANGED <<fresh, age>>
  /\ UNCHANGED <<run, file, cluster, r0vars, got, beaten>>

WorkerKilled(w) ==
  /\ pc[w] \notin WorkerEnded
  /\ Leave(w, "killed")
  /\ UNCHANGED <<run, file, cluster, r0vars, got, fresh, age, beaten>>

-----------------------------------------------------------------------------
(* Time *)

\* Rank 0's own file operations, and one poll of a worker, take less than a
\* heartbeat interval; a live heartbeat thread pulses in every interval.
Prompt(w) ==
  /\ hb = "running" => beaten[w]
  /\ r0 \notin {"beat", "mark"}
  /\ pc[w] = "watch"

\* One heartbeat interval passes for a watching worker, by its own clock.
Tick(w) ==
  /\ Prompt(w)
  /\ age[w] < StaleBeats
  /\ age' = [age EXCEPT ![w] = @ + 1]
  /\ beaten' = [beaten EXCEPT ![w] = FALSE]
  /\ UNCHANGED <<run, file, cluster, r0vars, pc, got, agent, fresh>>

-----------------------------------------------------------------------------

Rank0Step ==
  \/ Clear \/ CreateToken \/ Bind \/ Serve \/ Publish \/ StartHeartbeat
  \/ CreateClusterFile \/ ClusterFileFails \/ TestsEnd
  \/ StopHeartbeat \/ MarkDone \/ CloseServer

WorkerStep(w) ==
  \/ ReadRendezvous(w) \/ WorkerServe(w) \/ Register(w)
  \/ WorkerTimesOut(w) \/ WatchDone(w) \/ WatchAlive(w)

Next ==
  \/ NextRun
  \/ Rank0Step \/ StartFails \/ Rank0Crash
  \/ Pulse \/ PulseFails
  \/ \E w \in Workers : WorkerStep(w) \/ WorkerKilled(w) \/ Tick(w)

Spec == Init /\ [][Next]_vars

\* The processes of a run take their steps; the tests end; a deadline passes in
\* the end for a worker that polls or posts in vain; and time passes, also for a
\* worker that keeps watching (each poll disables Tick only for a moment).
Fairness ==
  /\ WF_vars(Rank0Step)
  /\ WF_vars(Pulse)
  /\ \A w \in Workers :
       /\ WF_vars(WorkerStep(w))
       /\ WF_vars(WorkerTimesOut(w))
       /\ SF_vars(Tick(w))

FairSpec == Spec /\ Fairness

-----------------------------------------------------------------------------
(* Properties *)

\* A worker returns 0 only because rank 0 of its own run marked the run done:
\* the rank0.done that an earlier run left behind never ends a worker early,
\* so no agent leaves while rank 0 of its run still needs it.
NoEarlyExit ==
  \A w \in Workers :
    pc[w] = "ok" => /\ file["done"] = run
                    /\ r0 \in {"close"} \cup Rank0Ended

\* OneManagedRun: seen from outside the processes of a job are a sequence of runs as
\* in module ManagedRun: tests begin only when every worker has joined this run, a
\* worker ends only after this run was marked done or fell silent, and files that an
\* earlier run left change nothing.  Reads, tokens, ports and pulses do not show.
Rank0Shown ==
  CASE r0 = "test" -> "testing"
    [] r0 \in {"stop", "mark", "close"} -> "ending"
    [] r0 \in Rank0Ended -> "over"
    [] OTHER -> "starting"
WorkerShown(w) ==
  CASE pc[w] \in {"ok", "gaveUp"} -> pc[w]
    [] pc[w] \in {"failed", "killed"} -> "down"
    [] OTHER -> "on"

Managed == INSTANCE ManagedRun WITH
  rank0 <- Rank0Shown, joined <- Registered,
  marked <- (file["done"] = run),
  silent <- (hb = "dead" \/ r0 = "crashed"),
  worker <- [w \in Workers |-> WorkerShown(w)]
OneManagedRun == Managed!Spec

\* A worker whose POST reaches rank 0 of its run presents the token rank 0
\* accepts, although it read host, port and token one by one while an earlier
\* run's files were being cleared and rewritten: it is never turned away by 401.
NeverUnauthorized ==
  \A w \in Workers :
    pc[w] = "register" /\ Reaches(w) => got[w].token = auth

\* While rank 0 runs the tests, cluster_agents.json is the one of this run, it
\* has a port for every scheduler host, and every listed agent that is still up
\* accepts the token the file points at, although each agent read the token file
\* on its own.
TestsReachAgents ==
  r0 = "test" =>
    /\ cluster.run = run
    /\ \A w \in Workers :
         /\ cluster.port[w] = run
         /\ agent[w].run # 0 => agent[w] = [run |-> run, token |-> file["secret"]]

\* A worker gives up (returns 1) only after rank 0's heartbeat thread died or
\* rank 0 went away without writing rank0.done: a live heartbeat, and a clean
\* stop, are never mistaken for silence.
GiveUpOnlyOnSilence ==
  \A w \in Workers : pc[w] = "gaveUp" => hb = "dead" \/ r0 = "crashed"

\* clear()'s doc: the leftovers of a previous run are removed, so what a worker
\* takes for the rendezvous is the one of its own run.
RendezvousIsCurrent ==
  \A w \in Workers : pc[w] = "register" => got[w].port = run

\* A run never hangs: with tests that end, rank 0 and every worker terminate,
\* whatever was lost, whoever was killed, and however many runs share the job.
RunEnds ==
  <>[](r0 \in Rank0Ended /\ \A w \in Workers : pc[w] \in WorkerEnded)
=============================================================================
