----------------------------- MODULE Containers -----------------------------
(***************************************************************************)
(* The container life cycle of an orchestrator: ContainerOrchestrator over  *)
(* DockerRuntime, every docker command of which is one call of the parallel *)
(* handle self.all, here the step FleetExec promises of it.                 *)
(*                                                                         *)
(* All hosts use one container name.  Between two commands the host may do  *)
(* what it likes: an operator or a reboot starts, stops or removes the      *)
(* container, and a docker run the handle stopped waiting for may still     *)
(* succeed.  The handle works in one process: a sharded one raises on the   *)
(* first detailed call, see PrintRaises of ParallelHandle.                     *)
(***************************************************************************)
EXTENDS Naturals, FiniteSets

CONSTANTS
  Hosts,
  Lifetimes,   \* values of container.lifetime to consider
  Sources,     \* where the image comes from: "tar", "registry", "public"
  Noisy,       \* hosts where commands write to stderr as well
  MaxMeddle,   \* bound: changes from outside
  MaxCalls     \* bound: calls of the orchestrator's operations

ASSUME ContainersAssumption ==
  /\ Lifetimes \subseteq {"no_launch", "per_run", "persistent"}
  /\ Sources \subseteq {"tar", "registry", "public"}
  /\ Noisy \subseteq Hosts
  /\ MaxMeddle \in Nat /\ MaxCalls \in Nat

VARIABLES
  reach, ret,    \* the handle self.all
  lifetime,      \* container.lifetime
  source,        \* image_tar, runtime.args.registry, or neither
  sudoKnown,     \* sudo_prefix has been probed
  containerId,   \* container_id is set
  images,        \* hosts that have the image
  box,           \* the container of that name on each host
  mine,          \* hosts whose container this orchestrator started
  late,          \* hosts with a docker run nobody waits for any more
  pc,            \* the next command of the operation in progress
  last,          \* the operation that ended last and what it returned
  found,         \* boxes as the probe saw them (history)
  meddled,       \* hosts changed from outside since the probe (history)
  torn,          \* teardown was called (history)
  meddles, calls

handle == <<reach, ret>>
config == <<lifetime, source>>
host == <<images, box, mine, late>>
history == <<found, meddled, torn>>
vars == <<handle, config, sudoKnown, containerId, host, pc, last, history,
          meddles, calls>>

Fleet == INSTANCE FleetExec WITH sharded <- FALSE

-----------------------------------------------------------------------------
(* Types *)

Boxes == {"none", "running", "stopped"}
Steps == {"idle", "verify", "attach", "tarcheck", "load", "login", "check",
          "pull", "remove", "run", "undo", "teardown", "exec"}
Outcomes == {"none", "true", "false", "raised"}

TypeOK ==
  /\ reach \subseteq Hosts /\ ret \in Fleet!Returns
  /\ lifetime \in Lifetimes /\ source \in Sources
  /\ sudoKnown \in BOOLEAN /\ containerId \in BOOLEAN
  /\ images \subseteq Hosts
  /\ box \in [Hosts -> Boxes] /\ found \in [Hosts -> Boxes]
  /\ mine \subseteq {h \in Hosts : box[h] # "none"}
  /\ late \subseteq Hosts
  /\ pc \in Steps
  /\ last \in [op : {"none", "setup", "teardown", "exec"}, result : Outcomes]
  /\ meddled \subseteq Hosts /\ torn \in BOOLEAN
  /\ meddles \in 0..MaxMeddle /\ calls \in 0..MaxCalls

Init ==
  /\ Fleet!Init
  /\ lifetime \in Lifetimes /\ source \in Sources
  /\ sudoKnown = FALSE /\ containerId = FALSE
  /\ images \in SUBSET Hosts
  /\ box \in [Hosts -> Boxes]
  /\ mine = {} /\ late = {}
  /\ pc = "idle"
  /\ last = [op |-> "none", result |-> "none"]
  /\ found = box /\ meddled = {} /\ torn = FALSE
  /\ meddles = 0 /\ calls = 0

-----------------------------------------------------------------------------
(* One command on the fleet *)

\* self.all.exec(cmd, detailed=True) where the command succeeds on the hosts
\* in done.  The exit code of a host that answers says so; one that is given
\* up on, or that timed out, says nothing.
Command(done) ==
  /\ sudoKnown
  /\ done \subseteq reach
  /\ \E lost \in SUBSET reach, ans \in [Hosts -> {"ok", "fail", "abort"}] :
       /\ Fleet!Exec(lost, ans)
       /\ \A h \in Hosts : /\ ans[h] = "ok" => h \in done
                           /\ ans[h] = "fail" => h \notin done

\* The same for a command that ends in "|| true".
CommandOrTrue(done) ==
  /\ sudoKnown
  /\ done \subseteq reach
  /\ \E lost \in SUBSET reach, ans \in [Hosts -> {"ok", "abort"}] :
       Fleet!Exec(lost, ans)

\* docker rm -f on the hosts in done; a mutant that keeps the ownership.
Removed_KeepsMine(done) ==
  /\ box' = [h \in Hosts |-> IF h \in done THEN "none" ELSE box[h]]
  /\ UNCHANGED mine
Removed(done) ==
  /\ box' = [h \in Hosts |-> IF h \in done THEN "none" ELSE box[h]]
  /\ mine' = mine \ done

\* docker run -d --name: it fails where the name is taken.
Free == {h \in Hosts : box[h] = "none"}
Started(done) ==
  /\ box' = [h \in Hosts |-> IF h \in done THEN "running" ELSE box[h]]
  /\ mine' = mine \cup done

Answered(code) == {h \in Hosts : ret'.ans[h] = code}
AllOk == Answered("ok") = Hosts

\* The operation returns.
Leave(op, result) ==
  /\ pc' = "idle"
  /\ last' = [op |-> op, result |-> result]

Operation == CASE pc = "teardown" -> "teardown" [] pc = "exec" -> "exec" [] OTHER -> "setup"

\* sudo_prefix asks every host once in the life of the orchestrator.
SudoPrefix ==
  /\ pc # "idle" /\ ~sudoKnown
  /\ \E lost \in SUBSET reach, ans \in [Hosts -> {"text", "abort"}] : Fleet!Exec(lost, ans)
  /\ sudoKnown' = TRUE
  /\ UNCHANGED <<config, containerId, host, pc, last, history, meddles, calls>>

\* A call of the handle raises and the operation with it, whatever the
\* command did before.
ExecRaises ==
  /\ pc # "idle"
  /\ Fleet!Raise({})
  /\ Leave(Operation, "raised")
  /\ \E done \in SUBSET reach :
       CASE pc \in {"remove", "undo", "teardown"} -> Removed(done) /\ UNCHANGED images
         [] pc = "run" -> Started(done \cap Free) /\ UNCHANGED images
         [] pc \in {"load", "pull"} -> images' = images \cup done /\ UNCHANGED <<box, mine>>
         [] OTHER -> UNCHANGED <<images, box, mine>>
  /\ UNCHANGED <<config, sudoKnown, containerId, late, history, meddles, calls>>

-----------------------------------------------------------------------------
(* setup_containers *)

\* Where _launch_containers begins in the runtime.
FirstOf == CASE source = "tar" -> "tarcheck" [] source = "registry" -> "login" [] OTHER -> "check"

\* The branch on container.lifetime; _launch_containers sets container_id
\* before it starts anything.
Setup ==
  /\ pc = "idle" /\ calls < MaxCalls
  /\ calls' = calls + 1
  /\ pc' = CASE lifetime = "no_launch" -> "verify"
             [] lifetime = "persistent" -> "attach"
             [] OTHER -> FirstOf
  /\ containerId' = (containerId \/ lifetime = "per_run")
  /\ found' = box /\ meddled' = {}
  /\ UNCHANGED <<handle, config, sudoKnown, host, last, torn, meddles>>

\* is_running: docker ps prints the name of the running container, and the
\* whole output, stderr included, is compared with that name;
\* _partition_by_status sorts the hosts.
Running == {h \in Answered("ok") : box[h] = "running" /\ h \notin Noisy}
Absent == Answered("ok") \ Running
\* Mutant: only a non-zero exit code is a failed probe.
ProbeFailed_Nonzero == Answered("fail")
ProbeFailed == Hosts \ Answered("ok")

Seen == found' = box /\ meddled' = {} /\ UNCHANGED torn

\* verify_containers_running.
Verify ==
  /\ pc = "verify"
  /\ \E done \in SUBSET reach : Command(done)
  /\ IF Absent = {} /\ ProbeFailed = {}
     THEN containerId' = TRUE /\ Leave("setup", "true")
     ELSE UNCHANGED containerId /\ Leave("setup", "false")
  /\ Seen
  /\ UNCHANGED <<config, sudoKnown, host, meddles, calls>>

\* Mutant: a container that runs on some hosts only is started anew.
Attach_Partial ==
  /\ pc = "attach"
  /\ \E done \in SUBSET reach : Command(done)
  /\ \/ /\ ProbeFailed # {}
        /\ Leave("setup", "false") /\ UNCHANGED containerId
     \/ /\ ProbeFailed = {} /\ Absent = {}
        /\ containerId' = TRUE /\ Leave("setup", "true")
     \/ /\ ProbeFailed = {} /\ Absent # {}
        /\ containerId' = TRUE /\ pc' = FirstOf /\ UNCHANGED last
  /\ Seen
  /\ UNCHANGED <<config, sudoKnown, host, meddles, calls>>

\* The persistent branch: attach, refuse, or start where none was found.
Attach ==
  /\ pc = "attach"
  /\ \E done \in SUBSET reach : Command(done)
  /\ \/ /\ ProbeFailed # {} \/ (Running # {} /\ Absent # {})
        /\ Leave("setup", "false") /\ UNCHANGED containerId
     \/ /\ ProbeFailed = {} /\ Running # {} /\ Absent = {}
        /\ containerId' = TRUE /\ Leave("setup", "true")
     \/ /\ ProbeFailed = {} /\ Running = {}
        /\ containerId' = TRUE /\ pc' = FirstOf /\ UNCHANGED last
  /\ Seen
  /\ UNCHANGED <<config, sudoKnown, host, meddles, calls>>

\* One step of DockerRuntime.setup_containers that leaves the boxes alone: on
\* to the first of the two steps if every host answered zero.
Prepare(step, succeed, otherwise) ==
  /\ pc = step
  /\ IF AllOk THEN pc' = succeed /\ UNCHANGED last
     ELSE IF otherwise = "fail" THEN Leave("setup", "false")
     ELSE pc' = otherwise /\ UNCHANGED last
  /\ UNCHANGED <<config, sudoKnown, containerId, box, mine, late, history, meddles, calls>>

TarCheck ==
  /\ \E done \in SUBSET (reach \cap images) : Command(done)
  /\ Prepare("tarcheck", "check", "load") /\ UNCHANGED images

\* docker load; the tar may hold the image under another name.
Load ==
  /\ \E done \in SUBSET reach : /\ Command(done)
                                /\ \E got \in {{}, done} : images' = images \cup got
  /\ Prepare("load", "check", "fail")

Login ==
  /\ \E done \in SUBSET reach : Command(done)
  /\ Prepare("login", "check", "fail") /\ UNCHANGED images

CheckImage ==
  /\ \E done \in SUBSET (reach \cap images) : Command(done)
  /\ Prepare("check", "remove", "pull") /\ UNCHANGED images

Pull ==
  /\ \E done \in SUBSET reach : Command(done) /\ images' = images \cup done
  /\ Prepare("pull", "remove", "fail")

\* Whatever the answers are, the next command follows.
RemoveStale ==
  /\ pc = "remove"
  /\ \E done \in SUBSET reach : CommandOrTrue(done) /\ Removed(done)
  /\ pc' = "run"
  /\ UNCHANGED <<config, sudoKnown, containerId, images, late, last, history, meddles, calls>>

Run ==
  /\ pc = "run"
  /\ \E done \in SUBSET (reach \cap Free) :
       /\ Command(done)
       /\ Started(done)
       /\ \E l \in SUBSET ((reach \cap Answered("abort")) \ done) : late' = late \cup l
  /\ IF AllOk THEN Leave("setup", "true") ELSE pc' = "undo" /\ UNCHANGED last
  /\ UNCHANGED <<config, sudoKnown, containerId, images, history, meddles, calls>>

\* Mutant: a start that failed is forgotten.
Undo_ForgetsId ==
  /\ pc = "undo"
  /\ \E done \in SUBSET reach : CommandOrTrue(done) /\ Removed(done)
  /\ Leave("setup", "false")
  /\ containerId' = FALSE
  /\ UNCHANGED <<config, sudoKnown, images, late, history, meddles, calls>>

\* teardown_containers of the runtime, after a partial start.
Undo ==
  /\ pc = "undo"
  /\ \E done \in SUBSET reach : CommandOrTrue(done) /\ Removed(done)
  /\ Leave("setup", "false")
  /\ UNCHANGED <<config, sudoKnown, containerId, images, late, history, meddles, calls>>

-----------------------------------------------------------------------------
(* teardown_containers, exec *)

Teardown ==
  /\ pc = "idle" /\ calls < MaxCalls
  /\ calls' = calls + 1
  /\ torn' = TRUE
  /\ IF lifetime # "per_run" \/ ~containerId
     THEN Leave("teardown", "true")
     ELSE pc' = "teardown" /\ UNCHANGED last
  /\ UNCHANGED <<handle, config, sudoKnown, containerId, host, found, meddled, meddles>>

\* container_id is forgotten whatever the hosts answered.
TeardownRemove ==
  /\ pc = "teardown"
  /\ \E done \in SUBSET reach : CommandOrTrue(done) /\ Removed(done)
  /\ containerId' = FALSE
  /\ Leave("teardown", IF AllOk THEN "true" ELSE "false")
  /\ UNCHANGED <<config, sudoKnown, images, late, history, meddles, calls>>

\* exec: a RuntimeError without a container_id.
Exec ==
  /\ pc = "idle" /\ calls < MaxCalls
  /\ calls' = calls + 1
  /\ IF containerId THEN pc' = "exec" /\ UNCHANGED last ELSE Leave("exec", "raised")
  /\ UNCHANGED <<handle, config, sudoKnown, containerId, host, history, meddles>>

DockerExec ==
  /\ pc = "exec"
  /\ \E done \in SUBSET {h \in reach : box[h] = "running"} : Command(done)
  /\ Leave("exec", "true")
  /\ UNCHANGED <<config, sudoKnown, containerId, host, history, meddles, calls>>

-----------------------------------------------------------------------------
(* The hosts *)

\* An operator or a reboot.
Meddle(h, b) ==
  /\ meddles < MaxMeddle /\ box[h] # b
  /\ b = "stopped" => box[h] = "running"
  /\ meddles' = meddles + 1
  /\ box' = [box EXCEPT ![h] = b]
  /\ mine' = IF b = "none" THEN mine \ {h} ELSE mine
  /\ meddled' = meddled \cup {h}
  /\ UNCHANGED <<handle, config, sudoKnown, containerId, images, late, pc, last,
                 found, torn, calls>>

\* A docker run that was given up on ends, too late for anyone to know.
LateRun(h) ==
  /\ h \in late
  /\ late' = late \ {h}
  /\ IF box[h] = "none" THEN Started({h}) ELSE UNCHANGED <<box, mine>>
  /\ UNCHANGED <<handle, config, sudoKnown, containerId, images, pc, last, history,
                 meddles, calls>>

-----------------------------------------------------------------------------

Next ==
  \/ SudoPrefix \/ ExecRaises
  \/ Setup \/ Verify \/ Attach
  \/ TarCheck \/ Load \/ Login \/ CheckImage \/ Pull \/ RemoveStale \/ Run \/ Undo
  \/ Teardown \/ TeardownRemove \/ Exec \/ DockerExec
  \/ \E h \in Hosts : LateRun(h) \/ \E b \in Boxes : Meddle(h, b)

Spec == Init /\ [][Next]_vars

-----------------------------------------------------------------------------
(* Properties *)

\* setup_containers returns True only when the container runs on every host,
\* the hosts that were lost or could not be asked included.
SetupMeansAllRun ==
  [][pc # "idle" /\ pc' = "idle" /\ last' = [op |-> "setup", result |-> "true"]
       => \A h \in Hosts : box'[h] = "running"]_vars

\* Under persistent and no_launch the orchestrator removes no container that
\* ran when the fleet was asked, unless somebody changed the host since; for hosts
\* that write nothing to stderr (Noisy).
RunningKept ==
  [][lifetime # "per_run" /\ meddles' = meddles =>
       \A h \in Hosts \ meddled :
         found[h] = "running" /\ box[h] = "running" => box'[h] = "running"]_vars

\* What setup_containers started, or may have, stays known to the
\* orchestrator until somebody calls teardown_containers.
NothingForgotten == ~torn /\ mine \cup late # {} => containerId
=============================================================================
