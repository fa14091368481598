-------------------------- MODULE RendezvousProofs --------------------------
(***************************************************************************)
(* Proofs about Rendezvous, for every set of workers, every number of runs *)
(* in one job and every staleness threshold above one heartbeat.           *)
(*                                                                         *)
(* The argument is about the directory: once rank 0 has minted the token   *)
(* of its run, no file of an earlier run is left (FilesInv), so whatever a *)
(* worker reads after that, and whatever leads it to rank 0's server, is   *)
(* of this run (ReadInv).  AgentInv carries that to the registry and the   *)
(* cluster file, PulseInv counts the heartbeats a worker may miss.         *)
(***************************************************************************)
EXTENDS Rendezvous, TLAPS

Starting == {"clear", "token", "bind", "serve", "publish"}
Pulsing == {"wait", "test", "stop"}
Stopping == {"mark", "close", "exited"}

\* What the phase of rank 0 says of the directory, the server and the thread.
FilesInv ==
  /\ \A f \in FileName : file[f] <= run
  /\ r0 = "clear" => /\ \A f \in FileName : file[f] # run
                     /\ \A i \in 1 .. 6 : i < step => file[ClearOrder[i]] = 0
  /\ r0 = "token" => \A f \in FileName : file[f] = 0
  /\ file["secret"] = run => \A f \in FileName : file[f] \in {0, run}
  /\ r0 \in {"bind", "serve", "publish", "beat"} \cup Pulsing \cup Stopping
       => file["secret"] = run
  /\ file["host"] = run => file["secret"] = run
  /\ file["port"] = run => file["secret"] = run
  /\ r0 \in Starting => file["port"] # run
  /\ r0 = "publish" => step <= 3
  /\ file["done"] = run => r0 \in {"close"} \cup Rank0Ended
  /\ r0 \in {"close", "exited"} => file["done"] = run
  /\ r0 = "failed" /\ file["port"] = run => file["done"] = run
  /\ auth # 0 => auth = run /\ file["secret"] = run
  /\ r0 \in Starting \cup {"beat", "failed"} => hb = "off"
  /\ r0 \in Pulsing => hb \in {"running", "dead"}
  /\ r0 \in Stopping => hb \in {"stopped", "dead"}
  /\ r0 = "crashed" => hb # "running"
  /\ hb = "running" => file["alive"] = run

\* What a worker holds of this run's rendezvous.
ReadInvOf(w) ==
  /\ got[w].host = run => file["host"] = run
  /\ got[w].port = run => file["port"] = run
  /\ got[w].token = run => file["secret"] = run
  /\ pc[w] \in {"serve", "register"} /\ got[w].host = run => got[w].token = run
  /\ pc[w] \in {"watch", "stat"} => got[w].token = run /\ got[w].port = run
  /\ pc[w] = "ok" => file["done"] = run

\* A worker's agent, and what rank 0's registry holds of it.
AgentInvOf(w) ==
  /\ agent[w].run # 0 => /\ agent[w].run = run
                         /\ got[w].token = run => agent[w].token = run
  /\ pc[w] = "register" => agent[w].run = run
  /\ registry[w] # 0 => registry[w] = run /\ got[w].token = run
  /\ pc[w] \in Polling \cup {"serve"} => registry[w] = 0 /\ agent[w].run = 0

\* The cluster file the tests run on.
ClusterInv ==
  r0 = "test" => /\ cluster.run = run
                 /\ \A w \in Workers : cluster.port[w] = run /\ registry[w] = run

\* The worker has seen, or is about to see, a pulse at most one interval old.
Quiet(w) == age[w] <= 1 \/ (fresh[w] /\ file["alive"] # 0)

PulseInvOf(w) ==
  /\ hb = "running" /\ pc[w] \in {"watch", "stat"}
       => fresh[w] \/ age[w] = 0 \/ (age[w] <= 1 /\ ~beaten[w])
  /\ pc[w] = "stat" => Quiet(w) \/ hb = "dead" \/ r0 = "crashed"
  /\ pc[w] = "watch" => \/ Quiet(w) \/ file["done"] = run
                        \/ hb = "dead" \/ r0 = "crashed"
  /\ pc[w] = "gaveUp" => hb = "dead" \/ r0 = "crashed"

ReadInv == \A w \in Workers : ReadInvOf(w)
AgentInv == ClusterInv /\ \A w \in Workers : AgentInvOf(w)
PulseInv == \A w \in Workers : PulseInvOf(w)

IInv == TypeOK /\ FilesInv /\ ReadInv /\ AgentInv /\ PulseInv
-----------------------------------------------------------------------------

\* Run numbers are naturals, and a run below the bound has a successor in range.
LEMMA RunsFacts ==
  /\ 0 \in Runs
  /\ \A r \in 1 .. MaxRun : r \in Runs
  /\ \A r \in Runs : r \in Nat /\ (r < MaxRun => r + 1 \in 1 .. MaxRun)
BY RendezvousAssumption DEF Runs

\* The ages a worker counts are naturals and close under one more tick.
LEMMA AgesFacts ==
  /\ 0 \in Ages
  /\ \A a \in Ages : a \in Nat /\ (a < StaleBeats => a + 1 \in Ages)
BY RendezvousAssumption DEF Ages

\* The phase names used below are phases.
LEMMA PhaseFacts ==
  /\ Rank0Phase = Starting \cup {"beat"} \cup Pulsing \cup Stopping
                  \cup {"failed", "crashed"}
  /\ {"serve", "register", "watch", "stat", "ok", "gaveUp", "failed", "killed"}
       \subseteq WorkerPhase
  /\ {"poll1", "poll2", "poll3", "poll4"} \subseteq WorkerPhase
BY DEF Rank0Phase, Starting, Pulsing, Stopping, WorkerPhase, Polling

\* clear() visits each of the six marker files once.
LEMMA ClearOrderFacts ==
  /\ Len(ClearOrder) = 6
  /\ \A f \in FileName : \E i \in 1 .. 6 : ClearOrder[i] = f
  /\ \A i \in 1 .. 6 : ClearOrder[i] \in FileName
BY DEF ClearOrder, FileName

\* publish() writes host, interval and port, in this order.
LEMMA PublishOrderFacts ==
  /\ Len(PublishOrder) = 3
  /\ PublishOrder[1] = "host" /\ PublishOrder[2] = "interval"
  /\ PublishOrder[3] = "port"
BY DEF PublishOrder

\* Leaving keeps the types of the control points and of the agents.
LEMMA LeaveType ==
  ASSUME TypeOK, NEW w \in Workers, NEW p \in WorkerPhase, Leave(w, p)
  PROVE  /\ pc' \in [Workers -> WorkerPhase]
         /\ agent' \in [Workers -> [run : Runs, token : Runs]]
BY RunsFacts DEF TypeOK, Leave, Goto, AgentDown

\* So does a move of one worker.
LEMMA GotoType ==
  ASSUME TypeOK, NEW w \in Workers, NEW p \in WorkerPhase, Goto(w, p)
  PROVE  pc' \in [Workers -> WorkerPhase]
BY DEF TypeOK, Goto

\* One read of the rendezvous poll keeps every type.
LEMMA ReadType ==
  ASSUME TypeOK, NEW w \in Workers, NEW at, NEW f \in FileName,
         NEW next \in WorkerPhase, ReadFile(w, at, f, next)
  PROVE  TypeOK'
<1>. USE RunsFacts, PhaseFacts
<1>1. file[f] \in Runs
  BY DEF TypeOK
<1>2. pc' \in [Workers -> WorkerPhase]
  BY GotoType DEF ReadFile
<1>3. got[w] \in [host : Runs, port : Runs, token : Runs]
  BY DEF TypeOK
<1>4. got' \in [Workers -> [host : Runs, port : Runs, token : Runs]]
  <2>1. CASE file[f] = 0
    BY <2>1 DEF TypeOK, ReadFile, NothingRead
  <2>2. CASE file[f] # 0 /\ f = "host"
    BY <2>2, <1>1, <1>3 DEF TypeOK, ReadFile
  <2>3. CASE file[f] # 0 /\ f = "port"
    BY <2>3, <1>1, <1>3 DEF TypeOK, ReadFile
  <2>4. CASE file[f] # 0 /\ f = "secret"
    BY <2>4, <1>1, <1>3 DEF TypeOK, ReadFile
  <2>5. CASE file[f] # 0 /\ f \notin {"host", "port", "secret"}
    BY <2>5 DEF TypeOK, ReadFile
  <2>. QED
    BY <2>1, <2>2, <2>3, <2>4, <2>5
<1>. QED
  BY <1>2, <1>4 DEF TypeOK, ReadFile, r0vars

\* Every variable keeps its type, for every number of workers and runs.
THEOREM RendezvousTypeOK == Spec => []TypeOK
<1>. USE RunsFacts, AgesFacts, PhaseFacts
<1>1. Init => TypeOK
  <2>1. 1 \in 1 .. MaxRun
    BY RendezvousAssumption
  <2>. QED
    BY <2>1 DEF Init, TypeOK, Rank0Phase, NothingRead, AgentDown
<1>2. TypeOK /\ [Next]_vars => TypeOK'
  <2>. SUFFICES ASSUME TypeOK, [Next]_vars
                PROVE  TypeOK'
    OBVIOUS
  <2>. USE DEF TypeOK, r0vars, wvars
  <2>1. CASE NextRun
    BY <2>1 DEF NextRun, Rank0Phase, NothingRead, AgentDown
  <2>2. CASE Clear
    BY <2>2, ClearOrderFacts DEF Clear, Rank0Phase
  <2>3. CASE CreateToken
    BY <2>3 DEF CreateToken, Write, Rank0Phase
  <2>4. CASE Bind
    BY <2>4 DEF Bind, Rank0Phase
  <2>5. CASE Serve
    <3>1. file["secret"] \in Runs
      BY DEF FileName
    <3>. QED
      BY <2>5, <3>1 DEF Serve, Rank0Phase
  <2>6. CASE Publish
    <3>1. file' \in [FileName -> Runs]
      BY <2>6 DEF Publish, Write
    <3>2. step' \in 1 .. 6 /\ r0' \in Rank0Phase
      BY <2>6, PublishOrderFacts DEF Publish, Rank0Phase
    <3>. QED
      BY <2>6, <3>1, <3>2 DEF Publish
  <2>7. CASE StartHeartbeat
    BY <2>7 DEF StartHeartbeat, Touch, Write, Rank0Phase
  <2>8. CASE CreateClusterFile
    BY <2>8 DEF CreateClusterFile, Rank0Phase
  <2>9. CASE ClusterFileFails
    BY <2>9 DEF ClusterFileFails, Rank0Phase
  <2>10. CASE TestsEnd
    BY <2>10 DEF TestsEnd, Rank0Phase
  <2>11. CASE StopHeartbeat
    BY <2>11 DEF StopHeartbeat, Rank0Phase
  <2>12. CASE MarkDone
    BY <2>12 DEF MarkDone, Write, Rank0Phase
  <2>13. CASE CloseServer
    BY <2>13 DEF CloseServer, Rank0Phase
  <2>14. CASE StartFails
    BY <2>14 DEF StartFails, Write, Rank0Phase
  <2>15. CASE Rank0Crash
    BY <2>15 DEF Rank0Crash, Rank0Phase
  <2>16. CASE Pulse
    BY <2>16 DEF Pulse, Touch, Write
  <2>17. CASE PulseFails
    BY <2>17 DEF PulseFails
  <2>18. ASSUME NEW w \in Workers, ReadRendezvous(w)
        PROVE  TypeOK'
    BY <2>18, ReadType DEF ReadRendezvous, FileName
  <2>19. ASSUME NEW w \in Workers, WorkerServe(w)
        PROVE  TypeOK'
    <3>1. file["secret"] \in Runs
      BY DEF FileName
    <3>. QED
      BY <2>19, <3>1, GotoType DEF WorkerServe
  <2>20. ASSUME NEW w \in Workers, Register(w)
        PROVE  TypeOK'
    <3>1. CASE got[w].token = auth
      <4>1. agent[w].run \in Runs
        OBVIOUS
      <4>2. registry' \in [Workers -> Runs]
        BY <4>1, <3>1, <2>20 DEF Register, Accepted
      <4>3. pc' \in [Workers -> WorkerPhase]
        BY <3>1, <2>20, GotoType DEF Register, Accepted
      <4>4. fresh' \in [Workers -> BOOLEAN] /\ age' \in [Workers -> Ages]
        BY <3>1, <2>20 DEF Register, Accepted
      <4>. QED
        BY <3>1, <2>20, <4>2, <4>3, <4>4 DEF Register, Accepted
    <3>2. CASE got[w].token # auth
      BY <3>2, <2>20, LeaveType DEF Register, Refused
    <3>. QED
      BY <3>1, <3>2
  <2>21. ASSUME NEW w \in Workers, WorkerTimesOut(w)
        PROVE  TypeOK'
    BY <2>21, LeaveType DEF WorkerTimesOut
  <2>22. ASSUME NEW w \in Workers, WatchDone(w)
        PROVE  TypeOK'
    BY <2>22, LeaveType, GotoType DEF WatchDone
  <2>23. ASSUME NEW w \in Workers, WatchAlive(w)
        PROVE  TypeOK'
    <3>1. /\ pc' \in [Workers -> WorkerPhase]
          /\ agent' \in [Workers -> [run : Runs, token : Runs]]
      BY <2>23, LeaveType, GotoType DEF WatchAlive
    <3>2. fresh' \in [Workers -> BOOLEAN] /\ age' \in [Workers -> Ages]
      BY <2>23 DEF WatchAlive
    <3>. QED
      BY <2>23, <3>1, <3>2 DEF WatchAlive
  <2>24. ASSUME NEW w \in Workers, WorkerKilled(w)
        PROVE  TypeOK'
    BY <2>24, LeaveType DEF WorkerKilled
  <2>25. ASSUME NEW w \in Workers, Tick(w)
        PROVE  TypeOK'
    <3>1. age[w] \in Ages /\ age[w] < StaleBeats
      BY <2>25 DEF Tick
    <3>2. age' \in [Workers -> Ages]
      BY <2>25, <3>1 DEF Tick
    <3>3. beaten' \in [Workers -> BOOLEAN]
      BY <2>25 DEF Tick
    <3>. QED
      BY <2>25, <3>2, <3>3 DEF Tick
  <2>26. CASE UNCHANGED vars
    BY <2>26 DEF vars
  <2>27. QED
    BY <2>1, <2>2, <2>3, <2>4, <2>5, <2>6, <2>7, <2>8, <2>9, <2>10, <2>11, <2>12, <2>13, <2>14, <2>15, <2>16, <2>17, <2>18, <2>19, <2>20, <2>21, <2>22, <2>23, <2>24, <2>25, <2>26
    DEF Next, Rank0Step, WorkerStep
<1>3. QED
  BY <1>1, <1>2, PTL DEF Spec

-----------------------------------------------------------------------------
(* The actions of a worker and its clock touch nothing of rank 0 but the    *)
(* registry, and nothing of any other worker.                              *)

WorkerAction(w) == WorkerStep(w) \/ WorkerKilled(w) \/ Tick(w)

\* A worker's action changes no file and nothing of rank 0 but its registry.
LEMMA WorkerFrame ==
  ASSUME NEW w \in Workers, WorkerAction(w)
  PROVE  UNCHANGED <<run, file, cluster, r0, step, auth, hb>>
BY DEF WorkerAction, WorkerStep, ReadRendezvous, ReadFile, WorkerServe,
       Register, WorkerTimesOut, WatchDone, WatchAlive, WorkerKilled, Tick, r0vars

-----------------------------------------------------------------------------
(* FilesInv *)

\* The directory of the first run is empty.
LEMMA FilesInit == Init => FilesInv
BY DEF Init, FilesInv, FileName, Starting, Pulsing, Stopping, Rank0Ended

\* FilesInv is inductive.
LEMMA FilesNext ==
  ASSUME TypeOK, FilesInv, [Next]_vars
  PROVE  FilesInv'
<1>. USE DEF FilesInv, Starting, Pulsing, Stopping, Rank0Ended
<1>0. /\ \A f \in FileName : file[f] \in Nat
      /\ run \in Nat /\ step \in Nat
      /\ {"secret", "host", "port", "alive", "interval", "done"} = FileName
  BY RunsFacts DEF TypeOK, FileName
<1>1. CASE NextRun
  BY <1>0, <1>1 DEF NextRun, TypeOK
<1>2. CASE Clear
  <2>1. \A f \in FileName : file'[f] # run /\ file'[f] <= run
    BY <1>0, <1>2 DEF Clear, TypeOK
  <2>2. \A i \in 1 .. 6 : i <= step => file'[ClearOrder[i]] = 0
    BY <1>0, <1>2, ClearOrderFacts DEF Clear, TypeOK
  <2>3. CASE step < 6
    BY <1>0, <1>2, <2>1, <2>2, <2>3, ClearOrderFacts DEF Clear
  <2>4. CASE step = 6
    <3>1. \A f \in FileName : file'[f] = 0
      BY <2>2, <2>4, ClearOrderFacts
    <3>. QED
      BY <1>0, <1>2, <2>1, <2>4, <3>1, ClearOrderFacts DEF Clear
  <2>. QED
    BY <2>3, <2>4 DEF TypeOK
<1>3. CASE CreateToken
  BY <1>0, <1>3 DEF CreateToken, Write, TypeOK
<1>4. CASE Bind
  BY <1>0, <1>4 DEF Bind, TypeOK
<1>5. CASE Serve
  BY <1>0, <1>5 DEF Serve, TypeOK
<1>6. CASE Publish
  BY <1>0, <1>6, PublishOrderFacts DEF Publish, Write, TypeOK
<1>7. CASE StartHeartbeat
  BY <1>0, <1>7 DEF StartHeartbeat, Touch, Write, TypeOK
<1>8. CASE CreateClusterFile
  BY <1>0, <1>8 DEF CreateClusterFile, TypeOK
<1>9. CASE ClusterFileFails
  BY <1>0, <1>9 DEF ClusterFileFails, TypeOK
<1>10. CASE TestsEnd
  BY <1>0, <1>10 DEF TestsEnd, TypeOK
<1>11. CASE StopHeartbeat
  BY <1>0, <1>11 DEF StopHeartbeat, TypeOK
<1>12. CASE MarkDone
  BY <1>0, <1>12 DEF MarkDone, Write, TypeOK
<1>13. CASE CloseServer
  BY <1>0, <1>13 DEF CloseServer, TypeOK
<1>14. CASE StartFails
  <2>1. CASE r0 \in {"clear", "token", "bind"}
    BY <1>0, <1>14, <2>1 DEF StartFails, TypeOK
  <2>2. CASE r0 \in {"serve", "publish", "beat"} /\ Write("done") /\ r0' = "failed"
    BY <1>0, <1>14, <2>2 DEF StartFails, Write, TypeOK
  <2>3. CASE r0 \in {"serve", "publish", "beat"} /\ UNCHANGED file /\ r0' = "crashed"
    BY <1>0, <1>14, <2>3 DEF StartFails, TypeOK
  <2>. QED
    BY <1>14, <2>1, <2>2, <2>3 DEF StartFails
<1>15. CASE Rank0Crash
  BY <1>0, <1>15 DEF Rank0Crash, TypeOK
<1>16. CASE Pulse
  BY <1>0, <1>16 DEF Pulse, Touch, Write, r0vars, TypeOK
<1>17. CASE PulseFails
  BY <1>0, <1>17 DEF PulseFails, TypeOK
<1>18. ASSUME NEW w \in Workers, WorkerAction(w)
      PROVE  FilesInv'
  BY <1>18, WorkerFrame
<1>19. CASE UNCHANGED vars
  BY <1>19 DEF vars, r0vars
<1>. QED
  BY <1>1, <1>2, <1>3, <1>4, <1>5, <1>6, <1>7, <1>8, <1>9, <1>10, <1>11, <1>12, <1>13, <1>14, <1>15, <1>16, <1>17, <1>18, <1>19
  DEF Next, Rank0Step, WorkerAction

-----------------------------------------------------------------------------
(* Frames: rank 0 leaves the workers alone and never takes back a file of   *)
(* its own run; a worker leaves the others alone.                          *)

Rank0Action == Rank0Step \/ StartFails \/ Rank0Crash \/ Pulse \/ PulseFails

\* Rank 0 moves no worker, and keeps every file its own run has written.
LEMMA Rank0Frame ==
  ASSUME TypeOK, FilesInv, Rank0Action
  PROVE  /\ UNCHANGED <<run, registry, pc, got, agent, age>>
         /\ \A f \in FileName : file[f] = run => file'[f] = run
<1>. USE DEF Write, r0vars, wvars
<1>1. UNCHANGED <<run, registry, pc, got, agent, age>>
  BY DEF Rank0Action, Rank0Step, StartFails, Rank0Crash, Pulse, PulseFails, Clear,
         CreateToken, Bind, Serve, Publish, StartHeartbeat, CreateClusterFile,
         ClusterFileFails, TestsEnd, StopHeartbeat, MarkDone, CloseServer, Touch
<1>2. ASSUME NEW f \in FileName, file[f] = run
      PROVE  file'[f] = run
  <2>1. r0 # "clear"
    BY <1>2 DEF FilesInv
  <2>. QED
    BY <1>2, <2>1
    DEF TypeOK, Rank0Action, Rank0Step, StartFails, Rank0Crash, Pulse, PulseFails,
        Clear, CreateToken, Bind, Serve, Publish, StartHeartbeat,
        CreateClusterFile, ClusterFileFails, TestsEnd, StopHeartbeat, MarkDone,
        CloseServer, Touch
<1>. QED
  BY <1>1, <1>2

\* A worker's action leaves the state of the other workers alone.
LEMMA OtherWorkers ==
  ASSUME TypeOK, NEW v \in Workers, WorkerAction(v), NEW w \in Workers \ {v}
  PROVE  /\ pc'[w] = pc[w] /\ got'[w] = got[w] /\ agent'[w] = agent[w]
         /\ registry'[w] = registry[w] /\ fresh'[w] = fresh[w]
         /\ age'[w] = age[w] /\ beaten'[w] = beaten[w]
<1>. USE DEF TypeOK, r0vars, Goto, Leave
<1>1. CASE ReadRendezvous(v)
  BY <1>1 DEF ReadRendezvous, ReadFile
<1>2. CASE WorkerServe(v)
  BY <1>2 DEF WorkerServe
<1>3. CASE Register(v)
  BY <1>3 DEF Register, Accepted, Refused
<1>4. CASE WorkerTimesOut(v) \/ WorkerKilled(v)
  BY <1>4 DEF WorkerTimesOut, WorkerKilled
<1>5. CASE WatchDone(v)
  BY <1>5 DEF WatchDone
<1>6. CASE WatchAlive(v)
  BY <1>6 DEF WatchAlive
<1>7. CASE Tick(v)
  BY <1>7 DEF Tick
<1>. QED
  BY <1>1, <1>2, <1>3, <1>4, <1>5, <1>6, <1>7 DEF WorkerAction, WorkerStep

-----------------------------------------------------------------------------
(* ReadInv *)

\* What a worker has read of its own run stays true of the directory.
LEMMA ReadNext ==
  ASSUME TypeOK, FilesInv, ReadInv, [Next]_vars
  PROVE  ReadInv'
<1>. SUFFICES ASSUME NEW w \in Workers
              PROVE  ReadInvOf(w)'
  BY DEF ReadInv
<1>0. /\ ReadInvOf(w)
      /\ {"secret", "host", "port", "alive", "interval", "done"} = FileName
      /\ run \in 1 .. MaxRun /\ 1 .. MaxRun \subseteq Nat \ {0}
  BY RunsFacts, RendezvousAssumption DEF ReadInv, FileName, TypeOK
<1>1. CASE NextRun
  BY <1>0, <1>1 DEF NextRun, ReadInvOf, NothingRead
<1>2. CASE Rank0Action
  BY <1>0, <1>2, Rank0Frame DEF ReadInvOf
<1>3. ASSUME NEW v \in Workers \ {w}, WorkerAction(v)
      PROVE  ReadInvOf(w)'
  BY <1>0, <1>3, OtherWorkers, WorkerFrame DEF ReadInvOf
<1>4. CASE WorkerAction(w)
  <2>0. UNCHANGED <<run, file>>
    BY <1>4, WorkerFrame
  <2>. USE <1>0, <2>0 DEF ReadInvOf, TypeOK, Goto, Leave
  <2>1. CASE ReadRendezvous(w)
    <3>1. CASE ReadFile(w, "poll1", "host", "poll2")
      BY <3>1 DEF ReadFile, NothingRead
    <3>2. CASE ReadFile(w, "poll2", "port", "poll3")
      BY <3>2 DEF ReadFile, NothingRead
    <3>3. CASE ReadFile(w, "poll3", "interval", "poll4")
      BY <3>3 DEF ReadFile, NothingRead
    <3>4. CASE ReadFile(w, "poll4", "secret", "serve")
      BY <3>4 DEF ReadFile, NothingRead, FilesInv
    <3>. QED
      BY <2>1, <3>1, <3>2, <3>3, <3>4 DEF ReadRendezvous
  <2>2. CASE WorkerServe(w)
    BY <2>2 DEF WorkerServe
  <2>3. CASE Register(w)
    BY <2>3 DEF Register, Accepted, Refused, Reaches, FilesInv
  <2>4. CASE WorkerTimesOut(w) \/ WorkerKilled(w)
    BY <2>4 DEF WorkerTimesOut, WorkerKilled
  <2>5. CASE WatchDone(w)
    BY <2>5 DEF WatchDone, FilesInv
  <2>6. CASE WatchAlive(w)
    BY <2>6 DEF WatchAlive
  <2>7. CASE Tick(w)
    BY <2>7 DEF Tick
  <2>. QED
    BY <1>4, <2>1, <2>2, <2>3, <2>4, <2>5, <2>6, <2>7 DEF WorkerAction, WorkerStep
<1>5. CASE UNCHANGED vars
  BY <1>0, <1>5 DEF vars, wvars, ReadInvOf
<1>. QED
  BY <1>1, <1>2, <1>3, <1>4, <1>5 DEF Next, Rank0Action, WorkerAction

-----------------------------------------------------------------------------
(* AgentInv *)

\* Agents, registry and cluster file belong to the run that uses them.
LEMMA AgentNext ==
  ASSUME TypeOK, FilesInv, ReadInv, AgentInv, [Next]_vars
  PROVE  AgentInv'
<1>0. /\ {"secret", "host", "port", "alive", "interval", "done"} = FileName
      /\ run \in 1 .. MaxRun /\ 1 .. MaxRun \subseteq Nat \ {0}
  BY RunsFacts, RendezvousAssumption DEF FileName, TypeOK
<1>1. ASSUME NEW w \in Workers
      PROVE  AgentInvOf(w)'
  <2>0. AgentInvOf(w) /\ ReadInvOf(w)
    BY DEF AgentInv, ReadInv
  <2>1. CASE NextRun
    BY <1>0, <2>1 DEF NextRun, AgentInvOf, NothingRead, AgentDown
  <2>2. CASE Rank0Action
    BY <1>0, <2>0, <2>2, Rank0Frame DEF AgentInvOf
  <2>3. ASSUME NEW v \in Workers \ {w}, WorkerAction(v)
        PROVE  AgentInvOf(w)'
    BY <2>0, <2>3, OtherWorkers, WorkerFrame DEF AgentInvOf
  <2>4. CASE WorkerAction(w)
    <3>0. UNCHANGED <<run, file>>
      BY <2>4, WorkerFrame
    <3>. USE <1>0, <2>0, <3>0 DEF AgentInvOf, TypeOK, Goto, Leave, AgentDown, r0vars
    <3>1. CASE ReadRendezvous(w)
      BY <3>1 DEF ReadRendezvous, ReadFile, NothingRead, Polling
    <3>2. CASE WorkerServe(w)
      BY <3>2 DEF WorkerServe, ReadInvOf, Polling
    <3>3. CASE Register(w)
      <4>1. CASE got[w].token = auth
        <5>1. got[w].token = run /\ pc[w] = "register" /\ agent[w].run = run
          BY <3>3, <4>1 DEF Register, Reaches, FilesInv
        <5>2. /\ registry'[w] = run /\ pc'[w] \in {"register", "watch"}
              /\ UNCHANGED <<got, agent>>
          BY <3>3, <4>1, <5>1 DEF Register, Accepted
        <5>. QED
          BY <5>1, <5>2 DEF Polling
      <4>2. CASE got[w].token # auth
        BY <3>3, <4>2 DEF Register, Refused, Polling
      <4>. QED
        BY <4>1, <4>2
    <3>4. CASE WorkerTimesOut(w) \/ WorkerKilled(w)
      BY <3>4 DEF WorkerTimesOut, WorkerKilled, Polling
    <3>5. CASE WatchDone(w)
      BY <3>5 DEF WatchDone, Polling
    <3>6. CASE WatchAlive(w)
      BY <3>6 DEF WatchAlive, Polling
    <3>7. CASE Tick(w)
      BY <3>7 DEF Tick
    <3>. QED
      BY <2>4, <3>1, <3>2, <3>3, <3>4, <3>5, <3>6, <3>7
      DEF WorkerAction, WorkerStep
  <2>5. CASE UNCHANGED vars
    BY <2>0, <2>5 DEF vars, r0vars, wvars, AgentInvOf
  <2>. QED
    BY <2>1, <2>2, <2>3, <2>4, <2>5 DEF Next, Rank0Action, WorkerAction
<1>2. ClusterInv'
  <2>. USE DEF ClusterInv, r0vars, wvars
  <2>0. ClusterInv /\ \A w \in Workers : AgentInvOf(w)
    BY DEF AgentInv
  <2>1. CASE CreateClusterFile
    BY <2>0, <2>1 DEF CreateClusterFile, Registered, AgentInvOf
  <2>2. CASE Pulse \/ PulseFails
    BY <2>0, <2>2 DEF Pulse, PulseFails
  <2>3. ASSUME NEW v \in Workers, WorkerAction(v)
        PROVE  ClusterInv'
    <3>1. \A w \in Workers : registry[w] = run => registry'[w] = run
      <4>. SUFFICES ASSUME NEW w \in Workers, registry[w] = run
                    PROVE  registry'[w] = run
        OBVIOUS
      <4>1. CASE w # v
        BY <2>3, <4>1, OtherWorkers
      <4>2. CASE w = v
        BY <1>0, <2>0, <2>3, <4>2
        DEF WorkerAction, WorkerStep, ReadRendezvous, ReadFile, WorkerServe,
            Register, Accepted, Refused, WorkerTimesOut, WatchDone, WatchAlive,
            WorkerKilled, Tick, AgentInvOf, TypeOK
      <4>. QED
        BY <4>1, <4>2
    <3>. QED
      BY <2>0, <2>3, <3>1, WorkerFrame
  <2>4. CASE NextRun \/ Clear \/ CreateToken \/ Bind \/ Serve \/ Publish
             \/ StartHeartbeat \/ ClusterFileFails \/ TestsEnd \/ StopHeartbeat
             \/ MarkDone \/ CloseServer \/ StartFails \/ Rank0Crash
    BY <2>4 DEF NextRun, Clear, CreateToken, Bind, Serve, Publish, StartHeartbeat,
                ClusterFileFails, TestsEnd, StopHeartbeat, MarkDone, CloseServer,
                StartFails, Rank0Crash
  <2>5. CASE UNCHANGED vars
    BY <2>0, <2>5 DEF vars
  <2>. QED
    BY <2>1, <2>2, <2>3, <2>4, <2>5 DEF Next, Rank0Step, WorkerAction
<1>. QED
  BY <1>1, <1>2 DEF AgentInv

-----------------------------------------------------------------------------
(* PulseInv *)

\* Between two pulses a worker counts at most one interval, below its threshold.
LEMMA PulseNext ==
  ASSUME TypeOK, FilesInv, ReadInv, PulseInv, [Next]_vars
  PROVE  PulseInv'
<1>. SUFFICES ASSUME NEW w \in Workers
              PROVE  PulseInvOf(w)'
  BY DEF PulseInv
<1>0. /\ PulseInvOf(w) /\ ReadInvOf(w)
      /\ {"secret", "host", "port", "alive", "interval", "done"} = FileName
      /\ run \in 1 .. MaxRun /\ 1 .. MaxRun \subseteq Nat \ {0}
      /\ age[w] \in Nat /\ StaleBeats \in Nat /\ StaleBeats >= 2
  BY RunsFacts, AgesFacts, RendezvousAssumption
  DEF PulseInv, ReadInv, FileName, TypeOK
<1>. USE DEF Quiet, PulseInvOf
<1>1. CASE NextRun
  BY <1>0, <1>1 DEF NextRun
<1>2. CASE Pulse \/ StartHeartbeat
  <2>1. /\ fresh'[w] /\ file'["alive"] # 0
        /\ UNCHANGED <<pc, age>>
    BY <1>0, <1>2 DEF Pulse, StartHeartbeat, Touch, Write, TypeOK, r0vars
  <2>2. CASE Pulse
    BY <1>0, <2>1, <2>2 DEF Pulse, r0vars
  <2>3. CASE StartHeartbeat
    BY <1>0, <2>1, <2>3 DEF StartHeartbeat, FilesInv
  <2>. QED
    BY <1>2, <2>2, <2>3
<1>3. CASE PulseFails \/ Rank0Crash
  BY <1>0, <1>3 DEF PulseFails, Rank0Crash, wvars
<1>4. CASE Clear \/ CreateToken \/ Bind \/ Serve \/ Publish
  <2>1. pc[w] \notin {"watch", "stat"}
    BY <1>0, <1>4 DEF Clear, CreateToken, Bind, Serve, Publish, ReadInvOf,
                      FilesInv, Starting
  <2>. QED
    BY <1>0, <1>4, <2>1 DEF Clear, CreateToken, Bind, Serve, Publish, wvars
<1>5. CASE CreateClusterFile \/ ClusterFileFails \/ TestsEnd \/ CloseServer
  BY <1>0, <1>5 DEF CreateClusterFile, ClusterFileFails, TestsEnd, CloseServer, wvars
<1>6. CASE StopHeartbeat
  BY <1>0, <1>6 DEF StopHeartbeat, wvars, TypeOK, FilesInv, Pulsing
<1>7. CASE MarkDone
  BY <1>0, <1>7 DEF MarkDone, Write, wvars, TypeOK
<1>8. CASE StartFails
  BY <1>0, <1>8 DEF StartFails, Write, wvars, TypeOK
<1>9. ASSUME NEW v \in Workers \ {w}, WorkerAction(v)
      PROVE  PulseInvOf(w)'
  BY <1>0, <1>9, OtherWorkers, WorkerFrame
<1>10. CASE WorkerAction(w)
  <2>0. UNCHANGED <<run, file, r0, hb>>
    BY <1>10, WorkerFrame
  <2>. USE <1>0, <2>0 DEF TypeOK, Goto, Leave
  <2>1. CASE ReadRendezvous(w)
    BY <2>1 DEF ReadRendezvous, ReadFile, NothingRead
  <2>2. CASE WorkerServe(w)
    BY <2>2 DEF WorkerServe
  <2>3. CASE Register(w)
    BY <2>3 DEF Register, Accepted, Refused
  <2>4. CASE WorkerTimesOut(w) \/ WorkerKilled(w)
    BY <2>4 DEF WorkerTimesOut, WorkerKilled
  <2>5. CASE WatchDone(w)
    BY <2>5 DEF WatchDone
  <2>6. CASE WatchAlive(w)
    BY <2>6 DEF WatchAlive, Silent, FilesInv
  <2>7. CASE Tick(w)
    BY <2>7 DEF Tick, Prompt, FilesInv, Starting, Pulsing, Stopping, Rank0Phase,
                Rank0Ended, ReadInvOf
  <2>. QED
    BY <1>10, <2>1, <2>2, <2>3, <2>4, <2>5, <2>6, <2>7 DEF WorkerAction, WorkerStep
<1>11. CASE UNCHANGED vars
  BY <1>0, <1>11 DEF vars, r0vars, wvars
<1>. QED
  BY <1>1, <1>2, <1>3, <1>4, <1>5, <1>6, <1>7, <1>8, <1>9, <1>10, <1>11
  DEF Next, Rank0Step, WorkerAction

-----------------------------------------------------------------------------
(* The theorems *)

\* The conjunction of the invariants holds in every reachable state.
LEMMA Inductive == Spec => []IInv
<1>1. Init => IInv
  <2>1. Init => TypeOK
    <3>1. 1 \in 1 .. MaxRun
      BY RendezvousAssumption
    <3>. QED
      BY <3>1, RunsFacts, AgesFacts, PhaseFacts
      DEF Init, TypeOK, Rank0Phase, NothingRead, AgentDown
  <2>2. Init => ReadInv /\ AgentInv /\ PulseInv
    BY DEF Init, ReadInv, ReadInvOf, AgentInv, ClusterInv, AgentInvOf, PulseInv,
           PulseInvOf, NothingRead, AgentDown
  <2>. QED
    BY <2>1, <2>2, FilesInit DEF IInv
<1>2. IInv /\ [Next]_vars /\ TypeOK' => IInv'
  BY FilesNext, ReadNext, AgentNext, PulseNext DEF IInv
<1>. QED
  BY <1>1, <1>2, RendezvousTypeOK, PTL DEF Spec

\* No worker returns 0 before rank 0 of its own run has marked the run done,
\* whatever rank0.done an earlier run left in the job's directory.
THEOREM RendezvousNoEarlyExit == Spec => []NoEarlyExit
<1>1. IInv => NoEarlyExit
  BY DEF IInv, TypeOK, FilesInv, ReadInv, ReadInvOf, NoEarlyExit
<1>. QED
  BY <1>1, Inductive, PTL

\* A worker that reaches rank 0 of its run is never answered 401.
THEOREM RendezvousNeverUnauthorized == Spec => []NeverUnauthorized
<1>1. IInv => NeverUnauthorized
  BY DEF IInv, FilesInv, ReadInv, ReadInvOf, NeverUnauthorized, Reaches
<1>. QED
  BY <1>1, Inductive, PTL

\* The tests run on a complete cluster file of their own run, whose live agents
\* accept the token of that run.
THEOREM RendezvousTestsReachAgents == Spec => []TestsReachAgents
<1>1. IInv => TestsReachAgents
  <2>. SUFFICES ASSUME IInv, r0 = "test"
                PROVE  TestsReachAgents
    BY DEF TestsReachAgents
  <2>1. run # 0 /\ file["secret"] = run
    BY RendezvousAssumption DEF IInv, TypeOK, FilesInv, Pulsing
  <2>2. cluster.run = run
    BY DEF IInv, AgentInv, ClusterInv
  <2>3. ASSUME NEW w \in Workers
        PROVE  /\ cluster.port[w] = run
               /\ agent[w].run # 0
                    => agent[w] = [run |-> run, token |-> file["secret"]]
    <3>1. cluster.port[w] = run /\ registry[w] = run
      BY DEF IInv, AgentInv, ClusterInv
    <3>2. got[w].token = run
      BY <2>1, <3>1 DEF IInv, AgentInv, AgentInvOf
    <3>3. agent[w].run # 0 => agent[w].run = run /\ agent[w].token = run
      BY <3>2 DEF IInv, AgentInv, AgentInvOf
    <3>4. agent[w] \in [run : Runs, token : Runs]
      BY DEF IInv, TypeOK
    <3>. QED
      BY <2>1, <3>1, <3>3, <3>4
  <2>. QED
    BY <2>2, <2>3 DEF TestsReachAgents
<1>. QED
  BY <1>1, Inductive, PTL

\* With a threshold of two heartbeats or more, a worker gives up only when the
\* heartbeat thread died or rank 0 went away without writing rank0.done.
THEOREM RendezvousGiveUpOnlyOnSilence == Spec => []GiveUpOnlyOnSilence
<1>1. IInv => GiveUpOnlyOnSilence
  BY DEF IInv, PulseInv, PulseInvOf, GiveUpOnlyOnSilence
<1>. QED
  BY <1>1, Inductive, PTL

-----------------------------------------------------------------------------
(* How far a stale rendezvous gets *)

\* The port a worker holds is one some run of the job has published, and it is
\* this run's when rank 0 has the worker in its registry.
PortInvOf(w) ==
  /\ got[w].port <= run
  /\ pc[w] \in {"poll3", "poll4", "serve", "register"} => got[w].port # 0
  /\ registry[w] # 0 => got[w].port = run

PortInv == \A w \in Workers : PortInvOf(w)

LEMMA PortNext == IInv /\ PortInv /\ [Next]_vars => PortInv'
<1>. SUFFICES ASSUME IInv, PortInv, [Next]_vars, NEW w \in Workers
              PROVE  PortInvOf(w)'
  BY DEF PortInv
<1>0. /\ TypeOK /\ FilesInv /\ PortInvOf(w) /\ AgentInvOf(w)
      /\ {"secret", "host", "port", "alive", "interval", "done"} = FileName
      /\ run \in 1 .. MaxRun /\ 1 .. MaxRun \subseteq Nat \ {0}
      /\ got[w].port \in Nat /\ file["port"] \in Nat /\ file["port"] <= run
  <2>1. TypeOK /\ FilesInv /\ PortInvOf(w) /\ AgentInvOf(w)
    BY DEF IInv, PortInv, AgentInv
  <2>. QED
    BY <2>1, RunsFacts, RendezvousAssumption DEF TypeOK, FileName, FilesInv
<1>. USE DEF PortInvOf
<1>1. CASE NextRun
  BY <1>0, <1>1 DEF NextRun, NothingRead, TypeOK
<1>2. CASE Rank0Action
  BY <1>0, <1>2, Rank0Frame
<1>3. ASSUME NEW v \in Workers \ {w}, WorkerAction(v)
      PROVE  PortInvOf(w)'
  BY <1>0, <1>3, OtherWorkers, WorkerFrame
<1>4. CASE WorkerAction(w)
  <2>0. UNCHANGED run
    BY <1>4, WorkerFrame
  <2>. USE <1>0, <2>0 DEF TypeOK, Goto, Leave, r0vars
  <2>1. CASE ReadRendezvous(w)
    <3>0. registry' = registry /\ registry[w] = 0
      BY <2>1 DEF ReadRendezvous, ReadFile, AgentInvOf, Polling
    <3>1. CASE ReadFile(w, "poll1", "host", "poll2")
      <4>1. got'[w].port \in {0, got[w].port} /\ pc'[w] \in {"poll1", "poll2"}
        BY <3>1 DEF ReadFile, NothingRead
      <4>. QED
        BY <3>0, <4>1
    <3>2. CASE ReadFile(w, "poll2", "port", "poll3")
      BY <3>0, <3>2 DEF ReadFile, NothingRead
    <3>3. CASE ReadFile(w, "poll3", "interval", "poll4")
      BY <3>0, <3>3 DEF ReadFile, NothingRead
    <3>4. CASE ReadFile(w, "poll4", "secret", "serve")
      BY <3>0, <3>4 DEF ReadFile, NothingRead
    <3>. QED
      BY <2>1, <3>1, <3>2, <3>3, <3>4 DEF ReadRendezvous
  <2>2. CASE WorkerServe(w)
    BY <2>2 DEF WorkerServe
  <2>3. CASE Register(w)
    BY <2>3 DEF Register, Accepted, Refused, Reaches
  <2>4. CASE WorkerTimesOut(w) \/ WorkerKilled(w)
    BY <2>4 DEF WorkerTimesOut, WorkerKilled
  <2>5. CASE WatchDone(w) \/ WatchAlive(w) \/ Tick(w)
    BY <2>5 DEF WatchDone, WatchAlive, Tick
  <2>. QED
    BY <1>4, <2>1, <2>2, <2>3, <2>4, <2>5 DEF WorkerAction, WorkerStep
<1>5. CASE UNCHANGED vars
  BY <1>0, <1>5 DEF vars, r0vars, wvars
<1>. QED
  BY <1>1, <1>2, <1>3, <1>4, <1>5 DEF Next, Rank0Action, WorkerAction

LEMMA PortInvariant == Spec => [](IInv /\ PortInv)
<1>1. Init => PortInv
  <2>. SUFFICES ASSUME Init, NEW w \in Workers
                PROVE  PortInvOf(w)
    BY DEF PortInv
  <2>1. run = 1 /\ got[w].port = 0 /\ pc[w] = "poll1" /\ registry[w] = 0
    BY DEF Init, NothingRead
  <2>. QED
    BY <2>1 DEF PortInvOf
<1>. QED
  BY <1>1, PortNext, Inductive, PTL DEF Spec

\* In the first run of a job a worker finds the rendezvous of its own run: what
\* clear() promises can only fail in a later run, where the worker may read
\* before rank 0 has cleared the directory.
THEOREM RendezvousCurrentInFirstRun == Spec => [](run = 1 => RendezvousIsCurrent)
<1>1. IInv /\ PortInv => (run = 1 => RendezvousIsCurrent)
  <2>. SUFFICES ASSUME IInv, PortInv, run = 1, NEW w \in Workers, pc[w] = "register"
                PROVE  got[w].port = 1
    BY DEF RendezvousIsCurrent
  <2>1. got[w].port \in Runs
    BY DEF IInv, TypeOK
  <2>2. got[w].port \in Nat
    BY <2>1, RunsFacts
  <2>3. got[w].port # 0 /\ got[w].port <= 1
    BY DEF PortInv, PortInvOf
  <2>. QED
    BY <2>2, <2>3
<1>. QED
  BY <1>1, PortInvariant, PTL

\* A stale rendezvous leads nowhere: a worker that rank 0 has registered, or
\* that watches its heartbeat, holds the port and the token of its own run, so
\* no worker is in the cluster file, and none waits for rank0.done, on account
\* of files an earlier run left (_read_rendezvous, _register, _watch).
StaleLeadsNowhere ==
  \A w \in Workers :
    registry[w] # 0 \/ pc[w] \in {"watch", "stat"}
      => got[w].port = run /\ got[w].token = run

THEOREM RendezvousStaleLeadsNowhere == Spec => []StaleLeadsNowhere
<1>1. IInv /\ PortInv => StaleLeadsNowhere
  BY DEF IInv, ReadInv, ReadInvOf, AgentInv, AgentInvOf, PortInv, PortInvOf,
         StaleLeadsNowhere
<1>. QED
  BY <1>1, PortInvariant, PTL

-----------------------------------------------------------------------------
(* The sequence of managed runs *)

Marked == file["done"] = run
Silenced == hb = "dead" \/ r0 = "crashed"
WorkersShown == [w \in Workers |-> WorkerShown(w)]

\* Rank 0's server is up only between its start and its close; nobody is
\* registered before; who watches is registered.
ShownInv ==
  /\ auth # 0 => r0 \in {"publish", "beat", "mark", "close"} \cup Pulsing
  /\ r0 \in {"clear", "token", "bind", "serve"} => Registered = {}
  /\ \A w \in Workers : pc[w] \in {"watch", "stat"} => registry[w] # 0

LEMMA ShownNext == IInv /\ ShownInv /\ [Next]_vars => ShownInv'
<1>. SUFFICES ASSUME IInv, ShownInv, [Next]_vars
              PROVE  ShownInv'
  OBVIOUS
<1>. USE DEF ShownInv, Registered, Pulsing
<1>1. CASE NextRun
  BY <1>1 DEF NextRun
<1>2. CASE Rank0Action
  <2>1. UNCHANGED <<registry, pc>>
    BY <1>2, Rank0Frame DEF IInv
  <2>2. r0' \in {"clear", "token", "bind", "serve"}
          => r0 \in {"clear", "token", "bind", "serve"}
    BY <1>2 DEF Rank0Action, Rank0Step, StartFails, Rank0Crash, Pulse, PulseFails, Clear,
         CreateToken, Bind, Serve, Publish, StartHeartbeat, CreateClusterFile,
         ClusterFileFails, TestsEnd, StopHeartbeat, MarkDone, CloseServer, r0vars
  <2>3. auth' # 0 => r0' \in {"publish", "beat", "mark", "close"} \cup Pulsing
    BY <1>2 DEF Rank0Action, Rank0Step, StartFails, Rank0Crash, Pulse, PulseFails, Clear,
         CreateToken, Bind, Serve, Publish, StartHeartbeat, CreateClusterFile,
         ClusterFileFails, TestsEnd, StopHeartbeat, MarkDone, CloseServer, r0vars
  <2>. QED
    BY <2>1, <2>2, <2>3
<1>3. ASSUME NEW v \in Workers, WorkerAction(v)
      PROVE  ShownInv'
  <2>1. UNCHANGED <<r0, auth, run>>
    BY <1>3, WorkerFrame
  <2>2. \A w \in Workers \ {v} : pc'[w] = pc[w] /\ registry'[w] = registry[w]
    BY <1>3, OtherWorkers DEF IInv
  <2>3. CASE Register(v)
    <3>1. r0 \notin {"clear", "token", "bind", "serve"}
      BY <2>3 DEF Register, Reaches
    <3>2. registry'[v] # 0 \/ pc'[v] \notin {"watch", "stat"}
      <4>1. agent[v].run # 0
        BY <2>3, RendezvousAssumption DEF Register, IInv, AgentInv, AgentInvOf, TypeOK
      <4>. QED
        BY <2>3, <4>1 DEF Register, Accepted, Refused, Leave, Goto, IInv, TypeOK
    <3>. QED
      BY <2>1, <2>2, <3>1, <3>2
  <2>4. CASE ~Register(v)
    <3>1. registry' = registry
      BY <1>3, <2>4 DEF WorkerAction, WorkerStep, ReadRendezvous, ReadFile, WorkerServe,
           WorkerTimesOut, WatchDone, WatchAlive, WorkerKilled, Tick, r0vars
    <3>2. pc'[v] \in {"watch", "stat"} => pc[v] \in {"watch", "stat"}
      BY <1>3, <2>4 DEF WorkerAction, WorkerStep, ReadRendezvous, ReadFile, WorkerServe,
           WorkerTimesOut, WatchDone, WatchAlive, WorkerKilled, Tick, Leave, Goto, IInv,
           TypeOK
    <3>. QED
      BY <2>1, <2>2, <3>1, <3>2
  <2>. QED
    BY <2>3, <2>4
<1>4. CASE UNCHANGED vars
  BY <1>4 DEF vars, r0vars, wvars
<1>. QED
  BY <1>1, <1>2, <1>3, <1>4 DEF Next, Rank0Action, WorkerAction

\* What rank 0 does shows in its phase, the mark and the silence alone.
LEMMA Rank0Shows ==
  ASSUME IInv, ShownInv, Rank0Action
  PROVE  Managed!Next \/ UNCHANGED Managed!vars
<1>0. /\ UNCHANGED <<run, Registered, WorkersShown>>
      /\ Marked => Marked'
  BY Rank0Frame DEF IInv, Registered, WorkersShown, WorkerShown, Marked, FileName
<1>. DEFINE Shows == UNCHANGED Managed!vars
<1>. USE DEF Rank0Shown, Rank0Ended, Marked, Silenced, WorkersShown, Write, r0vars
<1>1. CASE Clear
  <2>1. ~Marked /\ ~Marked'
    <3>1. file["done"] # run /\ run # 0
      BY <1>1, RunsFacts DEF Clear, IInv, FilesInv, FileName, TypeOK
    <3>. QED
      BY <1>1, <3>1 DEF Clear, IInv, TypeOK, FileName
  <2>. QED
    BY <1>0, <1>1, <2>1 DEF Clear, Managed!vars
<1>2. CASE CreateToken \/ Bind \/ Serve \/ StartHeartbeat \/ StopHeartbeat \/ Pulse
  <2>1. Marked' = Marked
    BY <1>2 DEF CreateToken, Bind, Serve, StartHeartbeat, StopHeartbeat, Pulse, Touch, IInv,
                TypeOK, FileName
  <2>2. Silenced' = Silenced
    BY <1>2 DEF CreateToken, Bind, Serve, StartHeartbeat, StopHeartbeat, Pulse, Touch, IInv,
                FilesInv
  <2>3. Rank0Shown' = Rank0Shown
    BY <1>2 DEF CreateToken, Bind, Serve, StartHeartbeat, StopHeartbeat, Pulse
  <2>. QED
    BY <1>0, <2>1, <2>2, <2>3 DEF Managed!vars
<1>3. CASE Publish
  <2>1. PublishOrder[step] \in {"host", "interval", "port"}
    BY <1>3, PublishOrderFacts DEF Publish, IInv, FilesInv, TypeOK
  <2>2. Marked' = Marked
    BY <1>3, <2>1 DEF Publish, IInv, TypeOK, FileName
  <2>. QED
    BY <1>0, <1>3, <2>2 DEF Publish, Managed!vars
<1>4. CASE CreateClusterFile
  <2>1. Managed!Begin
    BY <1>0, <1>4 DEF CreateClusterFile, Managed!Begin
  <2>. QED
    BY <2>1 DEF Managed!Next
<1>5. CASE ClusterFileFails \/ TestsEnd
  <2>1. Managed!Wind
    BY <1>0, <1>5 DEF ClusterFileFails, TestsEnd, Managed!Wind
  <2>. QED
    BY <2>1 DEF Managed!Next
<1>6. CASE MarkDone
  <2>1. Marked'
    BY <1>6 DEF MarkDone, IInv, TypeOK, FileName
  <2>2. Managed!Mark
    BY <1>0, <1>6, <2>1 DEF MarkDone, Managed!Mark
  <2>. QED
    BY <2>2 DEF Managed!Next
<1>7. CASE CloseServer
  <2>1. Marked
    BY <1>7 DEF CloseServer, IInv, FilesInv
  <2>2. Managed!Exit
    BY <1>0, <1>7, <2>1 DEF CloseServer, Managed!Exit
  <2>. QED
    BY <2>2 DEF Managed!Next
<1>8. CASE StartFails
  <2>1. CASE r0 \in {"clear", "token", "bind"} /\ r0' = "failed" /\ UNCHANGED file
    <3>1. Managed!Fail
      BY <1>0, <1>8, <2>1 DEF StartFails, Managed!Fail, ShownInv
    <3>. QED
      BY <3>1 DEF Managed!Next
  <2>2. CASE r0 \in {"serve", "publish", "beat"} /\ r0' = "failed" /\ Write("done")
    <3>1. Marked'
      BY <1>0, <2>2 DEF IInv, TypeOK, FileName
    <3>2. Managed!Fail
      BY <1>0, <1>8, <2>2, <3>1 DEF StartFails, Managed!Fail
    <3>. QED
      BY <3>2 DEF Managed!Next
  <2>3. CASE r0 \in {"serve", "publish", "beat"} /\ r0' = "crashed" /\ UNCHANGED file
    <3>1. Managed!Crash
      BY <1>0, <1>8, <2>3 DEF StartFails, Managed!Crash
    <3>. QED
      BY <3>1 DEF Managed!Next
  <2>. QED
    BY <1>8, <2>1, <2>2, <2>3 DEF StartFails
<1>9. CASE Rank0Crash
  <2>1. Managed!Crash
    BY <1>0, <1>9 DEF Rank0Crash, Managed!Crash, IInv, TypeOK, Rank0Phase
  <2>. QED
    BY <2>1 DEF Managed!Next
<1>10. CASE PulseFails
  <2>1. r0 \notin Rank0Ended
    BY <1>10 DEF PulseFails, IInv, FilesInv, Starting, Stopping, Pulsing
  <2>2. Managed!Silence
    BY <1>0, <1>10, <2>1 DEF PulseFails, Managed!Silence
  <2>. QED
    BY <2>2 DEF Managed!Next
<1>. QED
  BY <1>1, <1>2, <1>3, <1>4, <1>5, <1>6, <1>7, <1>8, <1>9, <1>10 DEF Rank0Action, Rank0Step

\* One worker of those that are shown ends.
LEMMA EndShows ==
  ASSUME IInv, NEW w \in Workers, NEW p \in {"ok", "gaveUp", "failed", "killed"},
         pc[w] \notin WorkerEnded, Goto(w, p), UNCHANGED <<run, file, r0, hb, registry>>
  PROVE  Managed!End(w, IF p \in {"ok", "gaveUp"} THEN p ELSE "down")
<1>1. WorkersShown[w] = "on"
  BY DEF WorkersShown, WorkerShown, WorkerEnded
<1>2. WorkersShown' =
        [WorkersShown EXCEPT ![w] = IF p \in {"ok", "gaveUp"} THEN p ELSE "down"]
  BY DEF WorkersShown, WorkerShown, Goto, IInv, TypeOK
<1>3. UNCHANGED <<run, Rank0Shown, Registered, Marked, Silenced>>
  BY DEF Rank0Shown, Registered, Marked, Silenced
<1>. QED
  BY <1>1, <1>2, <1>3 DEF Managed!End, WorkersShown, Marked, Silenced

\* A worker that goes on does not show.
LEMMA OnShows ==
  ASSUME IInv, NEW w \in Workers, NEW p \in WorkerPhase \ WorkerEnded,
         pc[w] \notin WorkerEnded, Goto(w, p)
  PROVE  UNCHANGED WorkersShown
<1>1. WorkersShown[w] = "on" /\ WorkersShown' = [WorkersShown EXCEPT ![w] = "on"]
  BY DEF WorkersShown, WorkerShown, Goto, WorkerEnded, IInv, TypeOK
<1>. QED
  BY <1>1 DEF WorkersShown

LEMMA RegisterShows ==
  ASSUME IInv, ShownInv, NEW w \in Workers, Register(w)
  PROVE  Managed!Next \/ UNCHANGED Managed!vars
<1>0. /\ pc[w] = "register" /\ pc[w] \notin WorkerEnded
      /\ UNCHANGED <<run, file, r0, hb, Marked, Silenced, Rank0Shown>>
  BY DEF Register, WorkerEnded, Marked, Silenced, Rank0Shown
<1>1. CASE Refused(w)
  <2>1. Managed!End(w, "down")
    BY <1>0, <1>1, EndShows DEF Refused, Leave
  <2>. QED
    BY <2>1 DEF Managed!Next
<1>2. CASE Accepted(w)
  <2>1. agent[w].run # 0
    BY <1>0, RendezvousAssumption DEF IInv, AgentInv, AgentInvOf, TypeOK
  <2>2. Registered' = Registered \cup {w}
    BY <1>2, <2>1 DEF Accepted, Registered, IInv, TypeOK
  <2>3. UNCHANGED WorkersShown
    <3>1. "watch" \in WorkerPhase \ WorkerEnded
      BY DEF WorkerPhase, WorkerEnded
    <3>2. CASE Goto(w, "watch")
      BY <1>0, <3>1, <3>2, OnShows
    <3>3. CASE UNCHANGED pc
      BY <3>3 DEF WorkersShown, WorkerShown
    <3>. QED
      BY <1>2, <3>2, <3>3 DEF Accepted
  <2>4. WorkersShown[w] = "on"
    BY <1>0 DEF WorkersShown, WorkerShown
  <2>5. Rank0Shown # "over"
    BY DEF Register, Reaches, ShownInv, Rank0Shown, Rank0Ended, Pulsing
  <2>6. Managed!Join(w)
    BY <1>0, <2>2, <2>3, <2>4, <2>5 DEF Managed!Join, WorkersShown, Marked, Silenced
  <2>. QED
    BY <2>6 DEF Managed!Next
<1>. QED
  BY <1>1, <1>2 DEF Register

\* A worker leaves for one of the three reasons the runs allow.
LEMMA WorkerShows ==
  ASSUME IInv, ShownInv, NEW w \in Workers, WorkerAction(w)
  PROVE  Managed!Next \/ UNCHANGED Managed!vars
<1>0. UNCHANGED <<run, file, r0, hb, Marked, Silenced, Rank0Shown>>
  BY WorkerFrame DEF Marked, Silenced, Rank0Shown
<1>1. CASE Register(w)
  BY <1>1, RegisterShows
<1>2. CASE WorkerTimesOut(w) \/ WorkerKilled(w)
  <2>1. pc[w] \notin WorkerEnded /\ UNCHANGED registry
        /\ (Goto(w, "failed") \/ Goto(w, "killed"))
    BY <1>2 DEF WorkerTimesOut, WorkerKilled, Polling, WorkerEnded, Leave, r0vars
  <2>2. Managed!End(w, "down")
    BY <1>0, <2>1, EndShows
  <2>. QED
    BY <2>2 DEF Managed!Next
<1>3. CASE ReadRendezvous(w) \/ WorkerServe(w)
  <2>1. /\ pc[w] \notin WorkerEnded /\ UNCHANGED registry
        /\ \E p \in WorkerPhase \ WorkerEnded : Goto(w, p)
    BY <1>3 DEF ReadRendezvous, ReadFile, WorkerServe, WorkerEnded, WorkerPhase, Polling,
                r0vars
  <2>2. UNCHANGED <<Registered, WorkersShown>>
    BY <2>1, OnShows DEF Registered
  <2>. QED
    BY <1>0, <2>2 DEF Managed!vars, WorkersShown, Marked, Silenced
<1>4. CASE WatchDone(w)
  <2>1. pc[w] = "watch" /\ pc[w] \notin WorkerEnded /\ UNCHANGED registry
        /\ w \in Registered
    BY <1>4 DEF WatchDone, WorkerEnded, ShownInv, Registered, r0vars
  <2>2. CASE file["done"] # 0
    <3>1. Marked
      BY <2>1, <2>2 DEF IInv, FilesInv, ReadInv, ReadInvOf, FileName, Marked
    <3>2. Managed!End(w, "ok")
      BY <1>0, <1>4, <2>1, <2>2, EndShows DEF WatchDone, Leave
    <3>3. Managed!Done(w)
      BY <2>1, <3>1, <3>2 DEF Managed!Done, Marked
    <3>. QED
      BY <3>3 DEF Managed!Next
  <2>3. CASE file["done"] = 0
    <3>1. "stat" \in WorkerPhase \ WorkerEnded
      BY DEF WorkerPhase, WorkerEnded
    <3>2. UNCHANGED <<Registered, WorkersShown>>
      BY <1>4, <2>1, <2>3, <3>1, OnShows DEF WatchDone, Registered
    <3>. QED
      BY <1>0, <3>2 DEF Managed!vars, WorkersShown, Marked, Silenced
  <2>. QED
    BY <2>2, <2>3
<1>5. CASE WatchAlive(w)
  <2>1. pc[w] = "stat" /\ pc[w] \notin WorkerEnded /\ UNCHANGED registry
        /\ w \in Registered
    BY <1>5 DEF WatchAlive, WorkerEnded, ShownInv, Registered, r0vars
  <2>2. CASE Goto(w, "watch")
    <3>1. "watch" \in WorkerPhase \ WorkerEnded
      BY DEF WorkerPhase, WorkerEnded
    <3>2. UNCHANGED <<Registered, WorkersShown>>
      BY <2>1, <2>2, <3>1, OnShows DEF Registered
    <3>. QED
      BY <1>0, <3>2 DEF Managed!vars, WorkersShown, Marked, Silenced
  <2>3. CASE ~(fresh[w] /\ file["alive"] # 0) /\ Silent(w) /\ Leave(w, "gaveUp")
    <3>1. ~Quiet(w)
      <4>1. age[w] \in Nat
        BY AgesFacts DEF IInv, TypeOK
      <4>2. age[w] > 1
        BY <2>3, <4>1, RendezvousAssumption DEF Silent
      <4>. QED
        BY <2>3, <4>1, <4>2 DEF Quiet
    <3>2. Silenced
      BY <2>1, <3>1 DEF IInv, PulseInv, PulseInvOf, Silenced
    <3>3. Managed!End(w, "gaveUp")
      BY <1>0, <2>1, <2>3, EndShows DEF Leave
    <3>4. Managed!GiveUp(w)
      BY <2>1, <3>2, <3>3 DEF Managed!GiveUp, Silenced
    <3>. QED
      BY <3>4 DEF Managed!Next
  <2>. QED
    BY <1>5, <2>2, <2>3 DEF WatchAlive
<1>6. CASE Tick(w)
  <2>1. UNCHANGED <<registry, pc>>
    BY <1>6 DEF Tick, r0vars
  <2>2. UNCHANGED <<Registered, WorkersShown>>
    BY <2>1 DEF Registered, WorkersShown, WorkerShown
  <2>. QED
    BY <1>0, <2>2 DEF Managed!vars, WorkersShown, Marked, Silenced
<1>. QED
  BY <1>1, <1>2, <1>3, <1>4, <1>5, <1>6 DEF WorkerAction, WorkerStep

\* Whatever the run before left, the next one begins afresh.
LEMMA NextRunShows == ASSUME IInv, NextRun PROVE Managed!NewRun
<1>1. run' = run + 1 /\ file' = file /\ file["done"] <= run
  BY DEF NextRun, IInv, FilesInv, FileName
<1>2. file["done"] # run + 1
  BY <1>1, RunsFacts DEF IInv, TypeOK, FileName
<1>3. /\ Rank0Shown' = "starting" /\ Registered' = {}
      /\ ~Silenced' /\ WorkersShown' = [w \in Workers |-> "on"]
  BY DEF NextRun, Rank0Shown, Rank0Ended, Registered, Silenced, WorkersShown, WorkerShown
<1>. QED
  BY <1>1, <1>2, <1>3 DEF Managed!NewRun, Managed!Fresh, Silenced, WorkersShown

LEMMA ManagedNext == IInv /\ ShownInv /\ [Next]_vars => [Managed!Next]_(Managed!vars)
<1>. SUFFICES ASSUME IInv, ShownInv, [Next]_vars
              PROVE  Managed!Next \/ UNCHANGED Managed!vars
  OBVIOUS
<1>1. CASE NextRun
  BY <1>1, NextRunShows DEF Managed!Next
<1>2. CASE Rank0Action
  BY <1>2, Rank0Shows
<1>3. ASSUME NEW w \in Workers, WorkerAction(w)
      PROVE  Managed!Next \/ UNCHANGED Managed!vars
  BY <1>3, WorkerShows
<1>4. CASE UNCHANGED vars
  BY <1>4 DEF vars, r0vars, wvars, Managed!vars, Rank0Shown, Registered, WorkerShown
<1>. QED
  BY <1>1, <1>2, <1>3, <1>4 DEF Next, Rank0Action, WorkerAction

\* OneManagedRun: the processes of a job implement the sequence of managed runs:
\* tests begin with every worker joined, a worker ends only after the mark or the
\* silence of its own run, and each run begins as if it were the first.
THEOREM RendezvousIsManagedRun == Spec => OneManagedRun
<1>1. Init => Managed!Init /\ ShownInv
  BY DEF Init, Managed!Init, Managed!Fresh, Rank0Shown, Rank0Ended, Registered,
         WorkerShown, ShownInv, FileName
<1>. QED
  BY <1>1, ShownNext, ManagedNext, Inductive, PTL DEF Spec, OneManagedRun, Managed!Spec
=============================================================================
