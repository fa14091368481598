--------------------------- MODULE ControlGroups ---------------------------
(***************************************************************************)
(* A control node group of the fleet manager: the verification and the       *)
(* installation of its nodes as background jobs, the requests that add and    *)
(* delete nodes, rename or delete the group, and the target files Prometheus  *)
(* reads. A file belongs to a name, not to a group: the other groups are here  *)
(* as what they do to the files.                                            *)
(*                                                                         *)
(* Every handler and every job is a coroutine of one event loop: an action   *)
(* is the code between two awaits. Each has a database session of its own:   *)
(* what a session has loaded may be old when it writes, and a session does   *)
(* not write a status equal to the one it has loaded.                       *)
(***************************************************************************)
EXTENDS Naturals, FiniteSets

CONSTANTS
  Nodes,          \* rows of control_nodes; the number of a row is never used again
  Names,          \* names of groups, as the files spell them
  Jobs,           \* installation requests
  ParallelLimit,  \* parallel_limit of a request
  MaxVerify       \* bound: verifications of a node at one time

ASSUME ControlAssumption == ParallelLimit \in Nat \ {0} /\ MaxVerify \in Nat

VARIABLES
  status,       \* the status column of each row
  group,        \* the group: there, in its DELETE handler, gone
  name,         \* its name
  targets,      \* the target files of each name
  job,          \* run_installation: its stage and the name it read
  task,         \* install_single_node(n) of job j, and the status it has loaded
  verifying,    \* verify_single_node(n) between its two commits
  interrupted,  \* nodes whose work a restart of the process cut off
  ousted        \* history: nodes another group's write took out of the files

vars == <<status, group, name, targets, job, task, verifying, interrupted, ousted>>
work == <<job, task, verifying>>

-----------------------------------------------------------------------------
(* Types *)

Known == {"pending", "connected", "installing", "active", "error", "unreachable"}
Status == Known \cup {"absent", "deleted"}
At(p) == [ph |-> p, loaded |-> "pending"]   \* nothing loaded
Task == [ph : {"none", "queued", "started", "working", "done"}, loaded : Known]
Job == [st : {"free", "queued", "running", "ended"}, name : Names \cup {""}]
Free == [st |-> "free", name |-> ""]
Ended == [st |-> "ended", name |-> ""]

TypeOK ==
  /\ status \in [Nodes -> Status]
  /\ group \in {"present", "deleting", "deleted"} /\ name \in Names
  /\ targets \in [Names -> SUBSET Nodes]
  /\ job \in [Jobs -> Job] /\ task \in [Jobs -> [Nodes -> Task]]
  /\ verifying \in [Nodes -> Nat]
  /\ interrupted \subseteq Nodes /\ ousted \subseteq Nodes

-----------------------------------------------------------------------------
(* The rows *)

Exists(n) == status[n] \in Known
Active == {n \in Nodes : status[n] = "active"}

\* An UPDATE finds the row or nothing.
Write(n, s) == IF Exists(n) THEN [status EXCEPT ![n] = s] ELSE status

-----------------------------------------------------------------------------
(* The target files *)

\* Prometheus reads the files of all names.
Listed == UNION {targets[m] : m \in Names}

\* The group writes the files of name m: whatever they held is gone.
WriteTargets(m, ns) ==
  /\ targets' = [targets EXCEPT ![m] = ns]
  /\ ousted' = ousted \ ns

-----------------------------------------------------------------------------
(* verify_single_node *)

VerifyBegin(n) ==
  /\ Exists(n) /\ verifying[n] < MaxVerify
  /\ status' = [status EXCEPT ![n] = "pending"]
  /\ verifying' = [verifying EXCEPT ![n] = @ + 1]
  /\ UNCHANGED <<group, name, targets, job, task, interrupted, ousted>>

\* The commit has expired what was loaded: the verdict is always written.
VerifyEnd(n, s) ==
  /\ verifying[n] > 0 /\ s \in {"connected", "unreachable"}
  /\ status' = Write(n, s)
  /\ verifying' = [verifying EXCEPT ![n] = @ - 1]
  /\ UNCHANGED <<group, name, targets, job, task, interrupted, ousted>>

-----------------------------------------------------------------------------
(* install_exporters and run_installation *)

Eligible(force) ==
  IF force THEN {"connected", "active", "error", "pending"} ELSE {"connected"}

\* A job that is over leaves nothing behind.
End(j) ==
  /\ job' = [job EXCEPT ![j] = Ended]
  /\ task' = [task EXCEPT ![j] = [n \in Nodes |-> At("none")]]

\* The request chooses among the nodes that are eligible now.
Request(j, ns, force) ==
  /\ job[j].st = "free" /\ group # "deleted"
  /\ ns # {} /\ \A n \in ns : status[n] \in Eligible(force)
  /\ job' = [job EXCEPT ![j].st = "queued"]
  /\ task' = [task EXCEPT ![j] = [n \in Nodes |->
                IF n \in ns THEN At("queued") ELSE At("none")]]
  /\ UNCHANGED <<status, group, name, targets, verifying, interrupted, ousted>>

\* The job reads the group and the nodes again.
RunInstallation(j) ==
  /\ job[j].st = "queued"
  /\ IF group = "deleted"
     THEN End(j)
     ELSE /\ job' = [job EXCEPT ![j] = [st |-> "running", name |-> name]]
          /\ task' = [task EXCEPT ![j] = [n \in Nodes |->
                        IF Exists(n) THEN task[j][n] ELSE At("none")]]
  /\ UNCHANGED <<status, group, name, targets, verifying, interrupted, ousted>>

\* The job's semaphore has a place.
SlotFree(j) ==
  Cardinality({n \in Nodes : task[j][n].ph \in {"started", "working"}}) < ParallelLimit

\* install_single_node marks the row, if it is still there.
InstallBegin(j, n) ==
  /\ job[j].st = "running" /\ task[j][n].ph = "queued" /\ SlotFree(j)
  /\ IF Exists(n)
     THEN /\ status' = [status EXCEPT ![n] = "installing"]
          /\ task' = [task EXCEPT ![j][n] = At("started")]
          /\ interrupted' = interrupted \ {n}
     ELSE /\ task' = [task EXCEPT ![j][n] = At("done")]
          /\ UNCHANGED <<status, interrupted>>
  /\ UNCHANGED <<group, name, targets, job, verifying, ousted>>

\* No connection: what the commit has expired is written without being read.
ConnectFails(j, n) ==
  /\ task[j][n].ph = "started"
  /\ status' = Write(n, "unreachable")
  /\ task' = [task EXCEPT ![j][n] = At("done")]
  /\ UNCHANGED <<group, name, targets, job, verifying, interrupted, ousted>>

\* node.hostname loads the row again, with the status it has by now.
Connected(j, n) ==
  /\ task[j][n].ph = "started"
  /\ task' = IF Exists(n)
             THEN [task EXCEPT ![j][n] = [ph |-> "working", loaded |-> status[n]]]
             ELSE [task EXCEPT ![j][n] = At("done")]
  /\ UNCHANGED <<status, group, name, targets, job, verifying, interrupted, ousted>>

\* Variant: an incomplete installation only says so in its message.
InstallEnds_Message(j, n, s) ==
  /\ task[j][n].ph = "working" /\ s \in {"active", "error"}
  /\ status' = IF s = task[j][n].loaded \/ s = "error" THEN status ELSE Write(n, s)
  /\ task' = [task EXCEPT ![j][n] = At("done")]
  /\ UNCHANGED <<group, name, targets, job, verifying, interrupted, ousted>>

\* The outcome, or the exception; not written if it is what the session has loaded.
InstallEnds(j, n, s) ==
  /\ task[j][n].ph = "working" /\ s \in {"active", "error"}
  /\ status' = IF s = task[j][n].loaded THEN status ELSE Write(n, s)
  /\ task' = [task EXCEPT ![j][n] = At("done")]
  /\ UNCHANGED <<group, name, targets, job, verifying, interrupted, ousted>>

AllDone(j) == \A n \in Nodes : task[j][n].ph \in {"none", "done"}

\* Variant: only the nodes of this job are written.
JobEnd_OwnNodes(j) ==
  /\ job[j].st = "running" /\ AllDone(j)
  /\ WriteTargets(job[j].name, {n \in Active : task[j][n].ph = "done"})
  /\ End(j)
  /\ UNCHANGED <<status, group, name, verifying, interrupted>>

\* After the last task the job reads all rows of the group and writes the target
\* files of the name it began with.
JobEnd(j) ==
  /\ job[j].st = "running" /\ AllDone(j)
  /\ WriteTargets(job[j].name, Active)
  /\ End(j)
  /\ UNCHANGED <<status, group, name, verifying, interrupted>>

-----------------------------------------------------------------------------
(* The other requests *)

AddNode(n) ==
  /\ group # "deleted" /\ status[n] = "absent"
  /\ status' = [status EXCEPT ![n] = "pending"]
  /\ UNCHANGED <<group, name, targets, work, interrupted, ousted>>

DeleteNode(n) ==
  /\ Exists(n)
  /\ status' = [status EXCEPT ![n] = "deleted"]
  /\ WriteTargets(name, Active \ {n})
  /\ UNCHANGED <<group, name, work, interrupted>>

RefreshTargets ==
  /\ group # "deleted"
  /\ WriteTargets(name, Active)
  /\ UNCHANGED <<status, group, name, work, interrupted>>

\* update_control_node_group: the files keep the old name, which is free from now
\* on. A name that another group has is refused; it may give it up any time.
Rename(m) ==
  /\ group # "deleted" /\ m # name
  /\ name' = m
  /\ UNCHANGED <<status, group, targets, work, interrupted, ousted>>

\* delete_control_node_group takes the target files away, then awaits Prometheus
\* and Grafana, then deletes the rows.
DeleteGroup ==
  /\ group = "present"
  /\ group' = "deleting"
  /\ WriteTargets(name, {})
  /\ UNCHANGED <<status, name, work, interrupted>>

GroupDeleted ==
  /\ group = "deleting"
  /\ group' = "deleted"
  /\ status' = [n \in Nodes |-> IF Exists(n) THEN "deleted" ELSE status[n]]
  /\ UNCHANGED <<name, targets, work, interrupted, ousted>>

\* Another group writes or removes the files of a name: one that this group gave up
\* and it has taken, one it gave up itself after its job had begun, or one that the
\* files spell as they spell its own. Its nodes are not of this group.
OthersWrite(m) ==
  /\ targets[m] # {}
  /\ targets' = [targets EXCEPT ![m] = {}]
  /\ ousted' = ousted \cup (Active \cap (Listed \ Listed'))
  /\ UNCHANGED <<status, group, name, work, interrupted>>

\* The process is replaced: rows and files stay, jobs and handlers do not.
Restart ==
  /\ job' = [j \in Jobs |-> IF job[j].st = "free" THEN job[j]
                            ELSE Ended]
  /\ task' = [j \in Jobs |-> [n \in Nodes |-> At("none")]]
  /\ verifying' = [n \in Nodes |-> 0]
  /\ group' = IF group = "deleting" THEN "present" ELSE group
  /\ interrupted' = interrupted \cup
       {n \in Nodes : group = "deleting"
                      \/ \E j \in Jobs : job[j].st = "running" /\ task[j][n].ph # "none"}
  /\ UNCHANGED <<status, name, targets, ousted>>

-----------------------------------------------------------------------------
(* The specification *)

\* create_control_node_group; one that is created with nodes adds them next.
Init ==
  /\ status = [n \in Nodes |-> "absent"]
  /\ group = "present" /\ name \in Names
  /\ targets = [m \in Names |-> {}]
  /\ job = [j \in Jobs |-> Free]
  /\ task = [j \in Jobs |-> [n \in Nodes |-> At("none")]]
  /\ verifying = [n \in Nodes |-> 0]
  /\ interrupted = {} /\ ousted = {}

Verify(n) == VerifyBegin(n) \/ \E s \in {"connected", "unreachable"} : VerifyEnd(n, s)
Install(j, n) ==
  \/ InstallBegin(j, n) \/ ConnectFails(j, n) \/ Connected(j, n)
  \/ \E s \in {"active", "error"} : InstallEnds(j, n, s)

Next ==
  \/ \E n \in Nodes : Verify(n) \/ AddNode(n) \/ DeleteNode(n)
  \/ \E j \in Jobs, ns \in SUBSET Nodes, force \in BOOLEAN : Request(j, ns, force)
  \/ \E j \in Jobs : RunInstallation(j) \/ JobEnd(j) \/ \E n \in Nodes : Install(j, n)
  \/ \E m \in Names : Rename(m) \/ OthersWrite(m)
  \/ RefreshTargets \/ DeleteGroup \/ GroupDeleted \/ Restart

Spec == Init /\ [][Next]_vars

-----------------------------------------------------------------------------
(* Properties *)

\* InstallingIsWorkedOn: a row says "installing" only while an installation is at
\* work on that node, though verifications and other installations write the same
\* row meanwhile and a session may not write what it believes to be there; only a
\* restart of the process leaves it behind.
InstallingIsWorkedOn ==
  \A n \in Nodes : status[n] = "installing" =>
    \/ n \in interrupted
    \/ \E j \in Jobs : task[j][n].ph \in {"started", "working"}

\* ActiveIsScraped: a node that is active is in the files Prometheus reads, under
\* one of the group's names, or a job that will put it there is under way, as long as
\* the group is not being deleted and no restart cut its job off: nothing the group
\* does, overlapping jobs, deletions, a rename, takes it out by itself. But a rename
\* gives the name up with the nodes still in its files, and another group that takes
\* the name takes them out (ousted), until this group writes its files again.
ActiveIsScraped ==
  group = "present" => \A n \in Active :
    \/ n \in Listed \/ n \in ousted
    \/ n \in interrupted
    \/ \E j \in Jobs : job[j].st = "running" /\ task[j][n].ph # "none"
=============================================================================
