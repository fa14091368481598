------------------------ MODULE ControlGroupsProofs ------------------------
(***************************************************************************)
(* TypeOK, InstallingIsWorkedOn and ActiveIsScraped hold in every behaviour   *)
(* of ControlGroups, for any number of nodes, names and jobs.                *)
(*                                                                         *)
(* The invariant says which installation is at work on a row marked           *)
(* "installing": one that will load the row, or has loaded it as such and so  *)
(* will write its outcome. A session that has loaded anything else may write  *)
(* nothing, and is never the last. The other groups may write the files of any *)
(* name at any time; what they take out is remembered, so that only the group's *)
(* own steps are left to lose a node.                                       *)
(***************************************************************************)
EXTENDS ControlGroups, TLAPS

WillWrite(j, n) ==
  \/ task[j][n].ph = "started"
  \/ task[j][n].ph = "working" /\ task[j][n].loaded = "installing"

WorkInv ==
  \A n \in Nodes : status[n] = "installing" =>
    n \in interrupted \/ \E j \in Jobs : WillWrite(j, n)

\* Tasks are at work in running jobs only, and those have a name.
JobInv ==
  \A j \in Jobs :
    /\ job[j].st = "running" => job[j].name \in Names
    /\ \A n \in Nodes : task[j][n].ph \notin {"none", "queued"} => job[j].st = "running"

IInv == TypeOK /\ WorkInv /\ JobInv /\ ActiveIsScraped

-----------------------------------------------------------------------------

LEMMA RecordTypes ==
  /\ At("none") \in Task /\ At("queued") \in Task /\ At("started") \in Task
  /\ At("done") \in Task
  /\ At("none").ph = "none" /\ At("queued").ph = "queued"
  /\ At("started").ph = "started" /\ At("done").ph = "done"
  /\ Free \in Job /\ Ended \in Job /\ Free.st = "free" /\ Ended.st = "ended"
BY DEF At, Task, Free, Ended, Job, Known

LEMMA TaskSteps ==
  /\ \A s \in Known : [ph |-> "working", loaded |-> s] \in Task
  /\ \A t \in Task : t.loaded \in Known
BY DEF Task

LEMMA JobSteps ==
  ASSUME NEW b \in Job
  PROVE  /\ [b EXCEPT !.st = "queued"] \in Job /\ [b EXCEPT !.st = "queued"].st = "queued"
         /\ \A m \in Names : [st |-> "running", name |-> m] \in Job
BY DEF Job

LEMMA WriteType ==
  ASSUME TypeOK, NEW n \in Nodes, NEW s \in Known
  PROVE  /\ Write(n, s) \in [Nodes -> Status]
         /\ \A m \in Nodes : m # n => Write(n, s)[m] = status[m]
         /\ Write(n, s)[n] \in {s, status[n]}
         /\ Exists(n) => Write(n, s)[n] = s
         /\ ~Exists(n) => Write(n, s)[n] \notin Known
BY DEF TypeOK, Write, Exists, Status

\* What a write of the group leaves in the files.
LEMMA WriteTargetsType ==
  ASSUME TypeOK, NEW m \in Names, NEW ns \in SUBSET Nodes, WriteTargets(m, ns)
  PROVE  /\ targets' \in [Names -> SUBSET Nodes] /\ ousted' \subseteq Nodes
         /\ ns \subseteq Listed'
BY DEF TypeOK, WriteTargets, Listed

LEMMA InitIInv == Init => IInv
<1> SUFFICES ASSUME Init PROVE IInv OBVIOUS
<1>1. TypeOK BY RecordTypes DEF Init, TypeOK, Status
<1>2. WorkInv BY DEF Init, WorkInv
<1>3. JobInv BY RecordTypes DEF Init, JobInv
<1>4. ActiveIsScraped BY DEF Init, ActiveIsScraped, Active
<1> QED BY <1>1, <1>2, <1>3, <1>4 DEF IInv

\* The type of every variable after a step.
LEMMA TypeStep == ASSUME TypeOK, [Next]_vars PROVE TypeOK'
<1> USE RecordTypes
<1>1. CASE UNCHANGED vars BY <1>1 DEF vars, TypeOK
<1>2. ASSUME NEW n \in Nodes, VerifyBegin(n) PROVE TypeOK'
  BY <1>2 DEF VerifyBegin, TypeOK, Status, Known
<1>3. ASSUME NEW n \in Nodes, NEW s \in {"connected", "unreachable"}, VerifyEnd(n, s)
      PROVE TypeOK'
  <2>1. status' \in [Nodes -> Status] BY <1>3, WriteType DEF VerifyEnd, Known
  <2>2. verifying' \in [Nodes -> Nat] BY <1>3 DEF VerifyEnd, TypeOK
  <2> QED BY <1>3, <2>1, <2>2 DEF VerifyEnd, TypeOK
<1>4. ASSUME NEW n \in Nodes, AddNode(n) PROVE TypeOK'
  BY <1>4 DEF AddNode, TypeOK, Status, Known, work
<1>5. ASSUME NEW n \in Nodes, DeleteNode(n) PROVE TypeOK'
  BY <1>5 DEF DeleteNode, WriteTargets, TypeOK, Status, Active, work
<1>6. ASSUME NEW j \in Jobs, NEW ns \in SUBSET Nodes, NEW force \in BOOLEAN,
             Request(j, ns, force)
      PROVE TypeOK'
  <2>1. job' \in [Jobs -> Job] BY <1>6, JobSteps DEF Request, TypeOK
  <2>2. task' \in [Jobs -> [Nodes -> Task]] BY <1>6 DEF Request, TypeOK
  <2> QED BY <1>6, <2>1, <2>2 DEF Request, TypeOK
<1>7. ASSUME NEW j \in Jobs, RunInstallation(j) PROVE TypeOK'
  <2>1. job' \in [Jobs -> Job]
    BY <1>7, JobSteps DEF RunInstallation, End, TypeOK
  <2>2. task' \in [Jobs -> [Nodes -> Task]]
    <3>1. CASE group = "deleted" BY <1>7, <3>1 DEF RunInstallation, End, TypeOK
    <3>2. CASE group # "deleted"
      <4>1. [n \in Nodes |-> IF Exists(n) THEN task[j][n] ELSE At("none")] \in [Nodes -> Task]
        BY DEF TypeOK
      <4> QED BY <1>7, <3>2, <4>1 DEF RunInstallation, TypeOK
    <3> QED BY <3>1, <3>2
  <2> QED BY <1>7, <2>1, <2>2 DEF RunInstallation, TypeOK
<1>8. ASSUME NEW j \in Jobs, JobEnd(j) PROVE TypeOK'
  <2>1. job' \in [Jobs -> Job] /\ task' \in [Jobs -> [Nodes -> Task]]
    BY <1>8 DEF JobEnd, End, TypeOK
  <2>2. targets' \in [Names -> SUBSET Nodes] /\ ousted' \subseteq Nodes
    BY <1>8 DEF JobEnd, WriteTargets, TypeOK, Active
  <2> QED BY <1>8, <2>1, <2>2 DEF JobEnd, TypeOK
<1>9. ASSUME NEW j \in Jobs, NEW n \in Nodes, InstallBegin(j, n) PROVE TypeOK'
  <2>1. task' \in [Jobs -> [Nodes -> Task]]
    <3>1. CASE Exists(n)
      <4>1. task' = [task EXCEPT ![j][n] = At("started")] BY <1>9, <3>1 DEF InstallBegin
      <4> QED BY <4>1 DEF TypeOK
    <3>2. CASE ~Exists(n) BY <1>9, <3>2 DEF InstallBegin, TypeOK
    <3> QED BY <3>1, <3>2
  <2>2. status' \in [Nodes -> Status] /\ interrupted' \subseteq Nodes
    BY <1>9 DEF InstallBegin, TypeOK, Status, Known
  <2> QED BY <1>9, <2>1, <2>2 DEF InstallBegin, TypeOK
<1>10. ASSUME NEW j \in Jobs, NEW n \in Nodes, ConnectFails(j, n) PROVE TypeOK'
  <2>1. status' \in [Nodes -> Status] BY <1>10, WriteType DEF ConnectFails, Known
  <2>2. task' \in [Jobs -> [Nodes -> Task]] BY <1>10 DEF ConnectFails, TypeOK
  <2> QED BY <1>10, <2>1, <2>2 DEF ConnectFails, TypeOK
<1>11. ASSUME NEW j \in Jobs, NEW n \in Nodes, Connected(j, n) PROVE TypeOK'
  <2>1. task' \in [Jobs -> [Nodes -> Task]]
    BY <1>11, TaskSteps DEF Connected, Exists, TypeOK
  <2> QED BY <1>11, <2>1 DEF Connected, TypeOK
<1>12. ASSUME NEW j \in Jobs, NEW n \in Nodes, NEW s \in {"active", "error"},
              InstallEnds(j, n, s)
       PROVE TypeOK'
  <2>1. status' \in [Nodes -> Status]
    BY <1>12, WriteType DEF InstallEnds, Known, TypeOK
  <2>2. task' \in [Jobs -> [Nodes -> Task]] BY <1>12 DEF InstallEnds, TypeOK
  <2> QED BY <1>12, <2>1, <2>2 DEF InstallEnds, TypeOK
<1>13. ASSUME NEW m \in Names, Rename(m) PROVE TypeOK'
  BY <1>13 DEF Rename, TypeOK, work
<1>18. ASSUME NEW m \in Names, OthersWrite(m) PROVE TypeOK'
  BY <1>18 DEF OthersWrite, TypeOK, Active, work
<1>14. CASE RefreshTargets BY <1>14 DEF RefreshTargets, WriteTargets, TypeOK, Active, work
<1>15. CASE DeleteGroup BY <1>15 DEF DeleteGroup, WriteTargets, TypeOK, work
<1>16. CASE GroupDeleted BY <1>16 DEF GroupDeleted, TypeOK, Status, work
<1>17. CASE Restart
  <2>1. job' \in [Jobs -> Job] /\ task' \in [Jobs -> [Nodes -> Task]]
    BY <1>17 DEF Restart, TypeOK
  <2>2. verifying' \in [Nodes -> Nat] /\ interrupted' \subseteq Nodes
    BY <1>17 DEF Restart, TypeOK
  <2> QED BY <1>17, <2>1, <2>2 DEF Restart, TypeOK
<1> QED BY <1>1, <1>2, <1>3, <1>4, <1>5, <1>6, <1>7, <1>8, <1>9, <1>10, <1>11, <1>12,
          <1>13, <1>14, <1>15, <1>16, <1>17, <1>18 DEF Next, Verify, Install

\* An action that leaves tasks, and marks no row, keeps who is at work.
LEMMA WorkKept ==
  ASSUME TypeOK, WorkInv, UNCHANGED task, interrupted \subseteq interrupted',
         \A n \in Nodes : status'[n] = "installing" => status[n] = "installing"
  PROVE  WorkInv'
BY DEF WorkInv, WillWrite

\* A step of one task: the others keep their rows.
LEMMA TaskStep ==
  ASSUME TypeOK, TypeOK', WorkInv, JobInv, NEW j \in Jobs, NEW n \in Nodes,
         job[j].st = "running", UNCHANGED job,
         \A i \in Jobs, m \in Nodes : i # j \/ m # n => task'[i][m] = task[i][m],
         \A m \in Nodes : m # n => status'[m] = status[m],
         \A m \in Nodes : m # n /\ m \in interrupted => m \in interrupted',
         status'[n] = "installing" =>
           n \in interrupted' \/ \E i \in Jobs : WillWrite(i, n)'
  PROVE  WorkInv' /\ JobInv'
<1>1. WorkInv'
  <2> SUFFICES ASSUME NEW m \in Nodes, status'[m] = "installing"
               PROVE  m \in interrupted' \/ \E i \in Jobs : WillWrite(i, m)'
    BY DEF WorkInv
  <2>1. CASE m = n BY <2>1
  <2>2. CASE m # n BY <2>2 DEF WorkInv, WillWrite
  <2> QED BY <2>1, <2>2
<1>2. JobInv' BY DEF JobInv
<1> QED BY <1>1, <1>2

LEMMA WorkStep == ASSUME TypeOK, TypeOK', WorkInv, JobInv, [Next]_vars
                  PROVE WorkInv' /\ JobInv'
<1> USE RecordTypes
<1>1. CASE UNCHANGED vars BY <1>1 DEF vars, WorkInv, WillWrite, JobInv
<1>2. ASSUME NEW n \in Nodes, VerifyBegin(n) PROVE WorkInv' /\ JobInv'
  BY <1>2, WorkKept DEF VerifyBegin, TypeOK, JobInv
<1>3. ASSUME NEW n \in Nodes, NEW s \in {"connected", "unreachable"}, VerifyEnd(n, s)
      PROVE WorkInv' /\ JobInv'
  <2>1. \A m \in Nodes : status'[m] = "installing" => status[m] = "installing"
    <3> TAKE m \in Nodes
    <3>1. CASE m = n BY <1>3, <3>1, WriteType DEF VerifyEnd, Known
    <3>2. CASE m # n BY <1>3, <3>2, WriteType DEF VerifyEnd, Known
    <3> QED BY <3>1, <3>2
  <2> QED BY <1>3, <2>1, WorkKept DEF VerifyEnd, JobInv
<1>4. ASSUME NEW n \in Nodes, AddNode(n) \/ DeleteNode(n) PROVE WorkInv' /\ JobInv'
  BY <1>4, WorkKept DEF AddNode, DeleteNode, work, TypeOK, JobInv
<1>5. ASSUME NEW j \in Jobs, NEW ns \in SUBSET Nodes, NEW force \in BOOLEAN,
             Request(j, ns, force)
      PROVE WorkInv' /\ JobInv'
  <2>1. \A m \in Nodes : task[j][m].ph \in {"none", "queued"}
    BY <1>5 DEF Request, JobInv
  <2>2. \A m \in Nodes : task'[j][m].ph \in {"none", "queued"}
    BY <1>5 DEF Request, TypeOK
  <2>3. \A i \in Jobs \ {j} : task'[i] = task[i] /\ job'[i] = job[i]
    BY <1>5 DEF Request, TypeOK
  <2>4. job'[j].st # "running" BY <1>5 DEF Request, TypeOK, Job
  <2>5. WorkInv' BY <1>5, <2>1, <2>3 DEF Request, WorkInv, WillWrite
  <2>6. JobInv' BY <2>2, <2>3, <2>4 DEF JobInv
  <2> QED BY <2>5, <2>6
<1>6. ASSUME NEW j \in Jobs, RunInstallation(j) \/ JobEnd(j) PROVE WorkInv' /\ JobInv'
  <2>1. \A m \in Nodes : task[j][m].ph \in {"none", "queued", "done"}
    BY <1>6 DEF RunInstallation, JobEnd, AllDone, JobInv
  <2>2. \A m \in Nodes : task'[j][m].ph \in {"none", "queued"}
    <3>1. CASE RunInstallation(j)
      <4>1. \A m \in Nodes : task[j][m].ph \in {"none", "queued"}
        BY <3>1 DEF RunInstallation, JobInv
      <4> QED BY <3>1, <4>1 DEF RunInstallation, End, TypeOK
    <3>2. CASE JobEnd(j) BY <3>2 DEF JobEnd, End, TypeOK
    <3> QED BY <1>6, <3>1, <3>2
  <2>3. \A i \in Jobs \ {j} : task'[i] = task[i] /\ job'[i] = job[i]
    BY <1>6 DEF RunInstallation, JobEnd, End, TypeOK
  <2>4. job'[j].st = "running" => job'[j].name \in Names
    BY <1>6 DEF RunInstallation, JobEnd, End, TypeOK
  <2>5. WorkInv' BY <1>6, <2>1, <2>3 DEF RunInstallation, JobEnd, WorkInv, WillWrite
  <2>6. JobInv' BY <2>2, <2>3, <2>4 DEF JobInv
  <2> QED BY <2>5, <2>6
<1>7. ASSUME NEW j \in Jobs, NEW n \in Nodes, InstallBegin(j, n)
      PROVE WorkInv' /\ JobInv'
  <2>1. job[j].st = "running" /\ UNCHANGED job BY <1>7 DEF InstallBegin
  <2>2. \A i \in Jobs, m \in Nodes : i # j \/ m # n => task'[i][m] = task[i][m]
    BY <1>7 DEF InstallBegin, TypeOK
  <2>3. \A m \in Nodes : m # n => status'[m] = status[m]
    BY <1>7 DEF InstallBegin, TypeOK
  <2>4. status'[n] = "installing" => WillWrite(j, n)'
    <3>1. CASE Exists(n) BY <1>7, <3>1 DEF InstallBegin, WillWrite, TypeOK
    <3>2. CASE ~Exists(n) BY <1>7, <3>2 DEF InstallBegin, Exists, Known
    <3> QED BY <3>1, <3>2
  <2>5. \A m \in Nodes : m # n /\ m \in interrupted => m \in interrupted'
    BY <1>7 DEF InstallBegin
  <2> QED BY <2>1, <2>2, <2>3, <2>4, <2>5, TaskStep
<1>8. ASSUME NEW j \in Jobs, NEW n \in Nodes, ConnectFails(j, n)
      PROVE WorkInv' /\ JobInv'
  <2>1. job[j].st = "running" /\ UNCHANGED job BY <1>8 DEF ConnectFails, JobInv
  <2>2. \A i \in Jobs, m \in Nodes : i # j \/ m # n => task'[i][m] = task[i][m]
    BY <1>8 DEF ConnectFails, TypeOK
  <2>3. /\ \A m \in Nodes : m # n => status'[m] = status[m]
        /\ status'[n] # "installing"
    BY <1>8, WriteType DEF ConnectFails, Known
  <2> QED BY <1>8, <2>1, <2>2, <2>3, TaskStep DEF ConnectFails
<1>9. ASSUME NEW j \in Jobs, NEW n \in Nodes, Connected(j, n)
      PROVE WorkInv' /\ JobInv'
  <2>1. job[j].st = "running" /\ UNCHANGED job BY <1>9 DEF Connected, JobInv
  <2>2. \A i \in Jobs, m \in Nodes : i # j \/ m # n => task'[i][m] = task[i][m]
    BY <1>9 DEF Connected, TypeOK
  <2>3. status'[n] = "installing" => WillWrite(j, n)'
    <3>1. CASE Exists(n) BY <1>9, <3>1 DEF Connected, WillWrite, TypeOK
    <3>2. CASE ~Exists(n) BY <1>9, <3>2 DEF Connected, Exists, Known
    <3> QED BY <3>1, <3>2
  <2> QED BY <1>9, <2>1, <2>2, <2>3, TaskStep DEF Connected
<1>10. ASSUME NEW j \in Jobs, NEW n \in Nodes, NEW s \in {"active", "error"},
              InstallEnds(j, n, s)
       PROVE WorkInv' /\ JobInv'
  <2>1. job[j].st = "running" /\ UNCHANGED job BY <1>10 DEF InstallEnds, JobInv
  <2>2. \A i \in Jobs, m \in Nodes : i # j \/ m # n => task'[i][m] = task[i][m]
    BY <1>10 DEF InstallEnds, TypeOK
  <2>3. \A m \in Nodes : m # n => status'[m] = status[m]
    BY <1>10, WriteType DEF InstallEnds, Known
  <2>4. status'[n] = "installing" =>
          n \in interrupted' \/ \E i \in Jobs : WillWrite(i, n)'
    <3> SUFFICES ASSUME status'[n] = "installing", n \notin interrupted'
                 PROVE  \E i \in Jobs : WillWrite(i, n)'
      OBVIOUS
    <3>1. s = task[j][n].loaded /\ status[n] = "installing"
      BY <1>10, WriteType DEF InstallEnds, Known
    <3>2. ~WillWrite(j, n) BY <1>10, <3>1 DEF WillWrite, InstallEnds
    <3>3. PICK i \in Jobs : WillWrite(i, n)
      BY <1>10, <3>1 DEF WorkInv, InstallEnds
    <3> QED BY <2>2, <3>2, <3>3 DEF WillWrite
  <2> QED BY <1>10, <2>1, <2>2, <2>3, <2>4, TaskStep DEF InstallEnds
<1>11. ASSUME NEW m \in Names, Rename(m) \/ OthersWrite(m) PROVE WorkInv' /\ JobInv'
  BY <1>11, WorkKept DEF Rename, OthersWrite, work, JobInv
<1>12. CASE RefreshTargets \/ DeleteGroup
  BY <1>12, WorkKept DEF RefreshTargets, DeleteGroup, work, JobInv
<1>13. CASE GroupDeleted
  BY <1>13, WorkKept DEF GroupDeleted, work, JobInv, Exists, Known
<1>14. CASE Restart
  <2>1. \A j \in Jobs, n \in Nodes : task[j][n].ph \in {"started", "working"} =>
          n \in interrupted'
    BY <1>14 DEF Restart, JobInv
  <2>2. WorkInv' BY <1>14, <2>1 DEF Restart, WorkInv, WillWrite
  <2>3. JobInv' BY <1>14 DEF Restart, JobInv
  <2> QED BY <2>2, <2>3
<1> QED BY <1>1, <1>2, <1>3, <1>4, <1>5, <1>6, <1>7, <1>8, <1>9, <1>10, <1>11, <1>12,
          <1>13, <1>14 DEF Next, Verify, Install

LEMMA ScrapedStep ==
  ASSUME TypeOK, TypeOK', JobInv, JobInv', ActiveIsScraped, [Next]_vars
  PROVE ActiveIsScraped'
<1> DEFINE InView(n) == n \in Listed \/ n \in ousted
           Coming(n) == \E j \in Jobs : job[j].st = "running" /\ task[j][n].ph # "none"
<1> SUFFICES ASSUME group' = "present", NEW n \in Nodes, status'[n] = "active"
             PROVE  InView(n)' \/ n \in interrupted' \/ Coming(n)'
  BY DEF ActiveIsScraped, Active
<1> USE RecordTypes
<1>0. group = "present" /\ status[n] = "active" =>
        InView(n) \/ n \in interrupted \/ Coming(n)
  BY DEF ActiveIsScraped, Active
\* The group writes the files of one name again.
<1>1. ASSUME NEW m \in Names, WriteTargets(m, Active') PROVE InView(n)'
  BY <1>1, WriteTargetsType DEF TypeOK, Active
\* Nothing that keeps an active node in view changes.
<1>2. ASSUME UNCHANGED <<group, targets, interrupted, ousted, job, task>>, status[n] = "active"
      PROVE  InView(n)' \/ n \in interrupted' \/ Coming(n)'
  BY <1>0, <1>2 DEF Listed
<1>3. CASE UNCHANGED vars BY <1>2, <1>3 DEF vars
<1>4. ASSUME NEW k \in Nodes, NEW s \in {"connected", "unreachable"},
             VerifyBegin(k) \/ VerifyEnd(k, s)
      PROVE  InView(n)' \/ n \in interrupted' \/ Coming(n)'
  <2>1. status[n] = "active"
    <3>1. CASE VerifyBegin(k) BY <3>1 DEF VerifyBegin, TypeOK
    <3>2. CASE VerifyEnd(k, s)
      <4>1. CASE k = n BY <3>2, <4>1, WriteType DEF VerifyEnd, Known
      <4>2. CASE k # n BY <3>2, <4>2, WriteType DEF VerifyEnd, Known
      <4> QED BY <4>1, <4>2
    <3> QED BY <1>4, <3>1, <3>2
  <2> QED BY <1>2, <1>4, <2>1 DEF VerifyBegin, VerifyEnd
<1>5. ASSUME NEW k \in Nodes, AddNode(k)
      PROVE  InView(n)' \/ n \in interrupted' \/ Coming(n)'
  BY <1>2, <1>5 DEF AddNode, work, TypeOK
<1>6. ASSUME NEW k \in Nodes, DeleteNode(k) PROVE InView(n)'
  <2>1. n # k /\ n \in Active \ {k} /\ name \in Names
    BY <1>6 DEF DeleteNode, TypeOK, Active
  <2> QED BY <1>6, <2>1, WriteTargetsType DEF DeleteNode, Active
<1>7. ASSUME NEW j \in Jobs, NEW ns \in SUBSET Nodes, NEW force \in BOOLEAN,
             Request(j, ns, force)
      PROVE  InView(n)' \/ n \in interrupted' \/ Coming(n)'
  <2>1. Coming(n) => Coming(n)'
    <3> SUFFICES ASSUME NEW i \in Jobs, job[i].st = "running", task[i][n].ph # "none"
                 PROVE  job'[i].st = "running" /\ task'[i][n].ph # "none"
      OBVIOUS
    <3>1. i # j BY <1>7 DEF Request
    <3> QED BY <1>7, <3>1 DEF Request, TypeOK
  <2> QED BY <1>0, <1>7, <2>1 DEF Request, Listed
<1>8. ASSUME NEW j \in Jobs, RunInstallation(j)
      PROVE  InView(n)' \/ n \in interrupted' \/ Coming(n)'
  <2>1. Coming(n) => Coming(n)'
    <3> SUFFICES ASSUME NEW i \in Jobs, job[i].st = "running", task[i][n].ph # "none"
                 PROVE  job'[i].st = "running" /\ task'[i][n].ph # "none"
      OBVIOUS
    <3>1. i # j BY <1>8 DEF RunInstallation
    <3> QED BY <1>8, <3>1 DEF RunInstallation, End, TypeOK
  <2> QED BY <1>0, <1>8, <2>1 DEF RunInstallation, Listed
<1>9. ASSUME NEW j \in Jobs, JobEnd(j) PROVE InView(n)'
  <2>1. job[j].name \in Names BY <1>9 DEF JobEnd, JobInv
  <2> QED BY <1>1, <1>9, <2>1 DEF JobEnd, Active
<1>10. ASSUME NEW j \in Jobs, NEW k \in Nodes, InstallBegin(j, k)
       PROVE  InView(n)' \/ n \in interrupted' \/ Coming(n)'
  <2>1. status[n] = "active" BY <1>10 DEF InstallBegin, TypeOK
  <2>2. n \in interrupted => n \in interrupted' \/ n = k BY <1>10 DEF InstallBegin
  <2>3. n # k \/ Coming(n)'
    <3>1. CASE n = k
      <4>1. task'[j][n].ph # "none" BY <1>10, <3>1 DEF InstallBegin, TypeOK
      <4> QED BY <1>10, <4>1 DEF InstallBegin
    <3> QED BY <3>1
  <2>4. n # k /\ Coming(n) => Coming(n)' BY <1>10 DEF InstallBegin, TypeOK
  <2> QED BY <1>0, <1>10, <2>1, <2>2, <2>3, <2>4 DEF InstallBegin, Listed
<1>11. ASSUME NEW j \in Jobs, NEW k \in Nodes, NEW s \in {"active", "error"},
              ConnectFails(j, k) \/ Connected(j, k) \/ InstallEnds(j, k, s)
       PROVE  InView(n)' \/ n \in interrupted' \/ Coming(n)'
  <2>1. UNCHANGED <<group, targets, interrupted, ousted, job>> /\ job[j].st = "running"
    BY <1>11 DEF ConnectFails, Connected, InstallEnds, JobInv
  <2>2. task'[j][k].ph # "none"
    BY <1>11 DEF ConnectFails, Connected, InstallEnds, TypeOK
  <2>3. \A i \in Jobs, m \in Nodes : i # j \/ m # k => task'[i][m] = task[i][m]
    BY <1>11 DEF ConnectFails, Connected, InstallEnds, TypeOK
  <2>4. CASE n = k BY <2>1, <2>2, <2>4
  <2>5. CASE n # k
    <3>1. status'[n] = status[n]
      BY <1>11, <2>5, WriteType DEF ConnectFails, Connected, InstallEnds, Known
    <3> QED BY <1>0, <2>1, <2>3, <2>5, <3>1 DEF Listed
  <2> QED BY <2>4, <2>5
<1>12. ASSUME NEW m \in Names, Rename(m)
       PROVE  InView(n)' \/ n \in interrupted' \/ Coming(n)'
  BY <1>2, <1>12 DEF Rename, work
\* What another group takes out of the files it takes from an active node.
<1>16. ASSUME NEW m \in Names, OthersWrite(m)
       PROVE  InView(n)' \/ n \in interrupted' \/ Coming(n)'
  BY <1>0, <1>16 DEF OthersWrite, Active, work
<1>13. CASE RefreshTargets
  <2>1. name \in Names BY DEF TypeOK
  <2> QED BY <1>1, <1>13, <2>1 DEF RefreshTargets, Active
<1>14. CASE DeleteGroup \/ GroupDeleted BY <1>14 DEF DeleteGroup, GroupDeleted
<1>15. CASE Restart
  <2>1. group # "present" => n \in interrupted' BY <1>15 DEF Restart
  <2>2. Coming(n) => n \in interrupted' BY <1>15 DEF Restart
  <2> QED BY <1>0, <1>15, <2>1, <2>2 DEF Restart, Listed
<1> QED BY <1>3, <1>4, <1>5, <1>6, <1>7, <1>8, <1>9, <1>10, <1>11, <1>12, <1>13, <1>14,
          <1>15, <1>16 DEF Next, Verify, Install

-----------------------------------------------------------------------------

\* The inductive invariant holds in every state a behaviour reaches.
THEOREM ControlInvariant == Spec => []IInv
<1>1. IInv /\ [Next]_vars => IInv'
  BY TypeStep, WorkStep, ScrapedStep DEF IInv
<1> QED BY InitIInv, <1>1, PTL DEF Spec

\* TypeOK: every variable has its type, for all parameters.
THEOREM ControlTypeOK == Spec => []TypeOK
<1>1. IInv => TypeOK BY DEF IInv
<1> QED BY ControlInvariant, <1>1, PTL

\* InstallingIsWorkedOn: no row is left "installing" by overlapping verifications,
\* installations and deletions.
THEOREM ControlInstallingIsWorkedOn == Spec => []InstallingIsWorkedOn
<1>1. IInv => InstallingIsWorkedOn
  BY DEF IInv, WorkInv, WillWrite, InstallingIsWorkedOn
<1> QED BY ControlInvariant, <1>1, PTL

\* ActiveIsScraped: an active node is in the target files or on its way there, or
\* what another group wrote has taken it out since the group last wrote its files.
THEOREM ControlActiveIsScraped == Spec => []ActiveIsScraped
<1>1. IInv => ActiveIsScraped BY DEF IInv
<1> QED BY ControlInvariant, <1>1, PTL

=============================================================================
