-------------------------- MODULE AgentExecProofs --------------------------
(***************************************************************************)
(* Proofs about AgentExec for every set of requests and of jobs.           *)
(***************************************************************************)
EXTENDS AgentExec, TLAPS

-----------------------------------------------------------------------------
(* Type correctness *)

LEMMA TermType ==
  ASSUME NEW r \in Requests, SigTerm(r), TypeOK
  PROVE  termed' \subseteq Requests /\ kids' \in [Requests -> Children]
  BY DEF SigTerm, Children, TypeOK

LEMMA KillType ==
  ASSUME NEW r \in Requests, SigKill(r), TypeOK
  PROVE  killed' \subseteq Requests /\ kids' \in [Requests -> Children]
  BY DEF SigKill, Children, TypeOK

LEMMA TypeInit == Init => TypeOK
<1>1. NoJob \in AllJobs
  BY DEF NoJob, AllJobs, Valid, Modes, Limits, Children
<1>2. Init => job \in [Requests -> AllJobs]
  BY <1>1 DEF Init
<1>3. Init => alive \in BOOLEAN /\ busy \in BOOLEAN
  BY DEF Init
<1> QED  BY <1>2, <1>3 DEF Init, TypeOK, Points, Children, Outcomes, Phases

LEMMA TypeNext == TypeOK /\ [Next]_vars => TypeOK'
<1> SUFFICES ASSUME TypeOK, [Next]_vars PROVE TypeOK'
  OBVIOUS
<1> USE DEF Outcomes, Points, Serving, InProgress, Phases
<1>1. ASSUME NEW r \in Requests, Post(r) PROVE TypeOK'
  BY <1>1, AgentExecAssumption DEF TypeOK, Post, At, Go, procs, stop
<1>2. ASSUME NEW r \in Requests, SpawnFails(r) PROVE TypeOK'
  BY <1>2 DEF TypeOK, SpawnFails, At, Answer, Go, Tell, procs, stop
<1>3. ASSUME NEW r \in Requests, Fork(r) PROVE TypeOK'
  <2>1. job[r].kids \in Children
    BY DEF TypeOK, AllJobs
  <2> QED  BY <1>3, <2>1 DEF TypeOK, Fork, At, Go, agent, stop
<1>4. ASSUME NEW r \in Requests, Register(r) PROVE TypeOK'
  BY <1>4 DEF TypeOK, Register, At, Go, procs, stop
<1>5. ASSUME NEW r \in Requests, DeadlinePasses(r) PROVE TypeOK'
  <2>1. termed' \subseteq Requests /\ kids' \in [Requests -> Children]
    BY <1>5, TermType DEF DeadlinePasses
  <2> QED  BY <1>5, <2>1 DEF TypeOK, DeadlinePasses, At, Go, agent, stop
<1>6. ASSUME NEW r \in Requests, GraceOver(r) PROVE TypeOK'
  BY <1>6 DEF TypeOK, GraceOver, Go, agent, procs
<1>16. ASSUME NEW r \in Requests, Kill(r) PROVE TypeOK'
  <2>1. killed' \subseteq Requests /\ kids' \in [Requests -> Children]
    BY <1>16, KillType DEF Kill
  <2> QED  BY <1>16, <2>1 DEF TypeOK, Kill, Go, agent
<1>17. ASSUME NEW r \in Requests, Terminate(r) PROVE TypeOK'
  <2>1. termed' \subseteq Requests /\ kids' \in [Requests -> Children]
    BY <1>17, TermType DEF Terminate
  <2> QED  BY <1>17, <2>1 DEF TypeOK, Terminate, agent
<1>7. ASSUME NEW r \in Requests, Collect(r) PROVE TypeOK'
  <2>1. Told(r) \in Outcomes
    BY DEF Told
  <2> QED
    BY <1>7, <2>1 DEF TypeOK, Collect, Respond, Answer, At, Go, Tell, procs, stop
<1>8. ASSUME NEW r \in Requests, Written(r) PROVE TypeOK'
  <2>1. Told(r) \in Outcomes
    BY DEF Told
  <2> QED  BY <1>8, <2>1 DEF TypeOK, Written, Answer, At, Go, Tell, procs, stop
<1>9. ASSUME NEW r \in Requests, ReadTimeout(r) PROVE TypeOK'
  BY <1>9 DEF TypeOK, ReadTimeout, Tell, agent, procs, stop
<1>10. ASSUME NEW r \in Requests, ShellExits(r) PROVE TypeOK'
  BY <1>10 DEF TypeOK, ShellExits, agent, stop
<1>11. ASSUME NEW r \in Requests, ChildrenExit(r) PROVE TypeOK'
  BY <1>11 DEF TypeOK, ChildrenExit, agent, stop, Children
<1>12. ASSUME NEW r \in Requests, Reaped(r) PROVE TypeOK'
  BY <1>12 DEF TypeOK, Reaped, agent, stop, Exits
<1>13. CASE Shutdown
  BY <1>13 DEF TypeOK, Shutdown, agent, procs
<1>14. CASE ShutdownEnds \/ Gone
  <2>1. AgentEnds /\ shut' \in {"no", "waiting", "exited"}
    BY <1>14 DEF ShutdownEnds, Gone, TypeOK
  <2>2. pc' \in [Requests -> Points] /\ got' \in [Requests -> Outcomes]
    BY <2>1 DEF AgentEnds, TypeOK
  <2> QED  BY <2>1, <2>2 DEF TypeOK, AgentEnds, procs
<1>15. CASE UNCHANGED vars
  BY <1>15 DEF TypeOK, vars, agent, procs, stop
<1> QED
  BY <1>1, <1>2, <1>3, <1>4, <1>5, <1>6, <1>7, <1>8, <1>9, <1>10, <1>11, <1>12,
     <1>13, <1>14, <1>15, <1>16, <1>17 DEF Next, Handler

\* The state of the agent, its processes and its clients always has its type.
THEOREM AgentExecTypeOK == Spec => []TypeOK
<1> QED  BY TypeInit, TypeNext, PTL DEF Spec

-----------------------------------------------------------------------------
(* The inductive invariant *)

\* One handler at a time is past the check of exec_busy, and the flag says whether
\* there is one.
OneSlot ==
  /\ \A r, s \in Requests : pc[r] \in Serving /\ pc[s] \in Serving => r = s
  /\ alive => (busy <=> \E r \in Requests : pc[r] \in Serving)
  /\ ~alive => \A r \in Requests : pc[r] \notin Serving

\* Where a handler is says what its shell may be: in particular, a shell outlives its
\* handler only together with the agent.
ShellsFollow ==
  \A r \in Requests :
    /\ pc[r] \in {"new", "spawning"} => shell[r] = "none"
    /\ pc[r] \in {"forked"} \cup InProgress => shell[r] # "none"
    /\ pc[r] = "writing" => shell[r] \in Exits
    /\ alive /\ shell[r] = "running" => pc[r] \in {"forked"} \cup InProgress

\* What is registered is in progress; what is in the snapshot was.
RegistryFollows ==
  \A r \in Requests :
    /\ r \in registry => pc[r] \in InProgress
    /\ ending[r] # "none" => pc[r] \in InProgress \cup {"writing", "done"}
    /\ r \in timedOut => pc[r] \in InProgress \cup {"writing", "done"}
                         /\ job[r].limit # "none"

\* A client has an answer only from a handler that is done.
AnswersFollow ==
  \A r \in Requests :
    /\ got[r] = "unsent" => pc[r] = "new"
    /\ got[r] \in {"zero", "nonzero", "timeout", "refused", "error"} => pc[r] = "done"

AgentInv ==
  OneSlot /\ ShellsFollow /\ RegistryFollows /\ AnswersFollow /\ OneCommand
  /\ ToldTheTruth

LEMMA InvInit == Init => AgentInv
  BY DEF Init, AgentInv, OneSlot, ShellsFollow, RegistryFollows, AnswersFollow,
         OneCommand, ToldTheTruth, Serving, InProgress

-----------------------------------------------------------------------------
(* Steps *)

\* A handler that goes on without changing its place in the slot.
LEMMA SlotFrame ==
  ASSUME TypeOK, OneSlot, NEW r \in Requests, NEW p \in Serving,
         pc[r] \in Serving, Go(r, p), UNCHANGED <<alive, busy>>
  PROVE  OneSlot'
  BY DEF TypeOK, OneSlot, Go

\* A handler that ends gives the slot back.
LEMMA SlotAnswer ==
  ASSUME TypeOK, OneSlot, NEW r \in Requests, NEW o, pc[r] \in Serving, alive,
         Answer(r, o), UNCHANGED alive
  PROVE  OneSlot'
  BY DEF TypeOK, OneSlot, Answer, Go, Serving, InProgress

\* An answer that says what happened keeps what clients were told true.
Honest(r, o) ==
  /\ o \in {"zero", "nonzero", "timeout", "error"}
  /\ o \in {"zero", "nonzero"} => r \notin timedOut
  /\ o = "zero" => shell[r] = "zero"
  /\ o = "nonzero" => shell[r] # "zero"
  /\ o = "timeout" => r \in timedOut

LEMMA ToldHonest ==
  ASSUME TypeOK, NEW r \in Requests, shell[r] \in Exits
  PROVE  Honest(r, Told(r))
  BY DEF Told, Honest

LEMMA AnswerTrue ==
  ASSUME TypeOK, AgentInv, NEW r \in Requests, NEW o, Honest(r, o), Answer(r, o),
         shell[r] \in Exits, UNCHANGED <<job, timedOut, shell>>
  PROVE  AnswersFollow' /\ ToldTheTruth'
<1>1. got' = [got EXCEPT ![r] = o] \/ UNCHANGED got
  BY DEF Answer, Tell
<1>2. pc' = [pc EXCEPT ![r] = "done"]
  BY DEF Answer, Go
<1>3. got'[r] # "unsent"
  <2>1. got[r] # "unsent"
    BY DEF AgentInv, ShellsFollow, AnswersFollow, Exits
  <2> QED  BY <1>1, <2>1 DEF Honest, TypeOK
<1>4. AnswersFollow'
  BY <1>1, <1>2, <1>3 DEF AnswersFollow, AgentInv, TypeOK
<1>5. \A s \in Requests : got'[s] = got[s] \/ (s = r /\ got'[s] = o)
  BY <1>1 DEF TypeOK
<1>6. r \in timedOut => job[r].limit # "none"
  BY DEF AgentInv, RegistryFollows
<1>7. ToldTheTruth'
  BY <1>5, <1>6 DEF ToldTheTruth, AgentInv, Honest, Exits
<1> QED  BY <1>4, <1>7

\* The one handler that is being served owns whatever shell is running.
LEMMA OneShell ==
  ASSUME TypeOK, AgentInv, NEW r \in Requests, alive, pc[r] \in Serving
  PROVE  \A s \in Requests \ {r} : shell[s] # "running" /\ pc[s] \notin Serving
  BY DEF AgentInv, OneSlot, ShellsFollow, Serving, InProgress

LEMMA InvPost ==
  ASSUME TypeOK, AgentInv, NEW r \in Requests, Post(r)
  PROVE  AgentInv'
<1> USE DEF TypeOK, AgentInv, Post, At, Go, procs, stop
<1>1. OneSlot'
  BY DEF OneSlot, Serving, InProgress
<1>2. ShellsFollow'
  BY DEF ShellsFollow, InProgress
<1>3. RegistryFollows'
  BY DEF RegistryFollows, InProgress
<1>4. AnswersFollow'
  BY DEF AnswersFollow
<1>5. OneCommand'
  BY DEF OneCommand
<1>6. ToldTheTruth'
  BY DEF ToldTheTruth, AnswersFollow, ShellsFollow, RegistryFollows
<1> QED  BY <1>1, <1>2, <1>3, <1>4, <1>5, <1>6

LEMMA InvStart ==
  ASSUME TypeOK, AgentInv, NEW r \in Requests,
         SpawnFails(r) \/ Fork(r) \/ Register(r)
  PROVE  AgentInv'
<1>1. CASE SpawnFails(r)
  <2> USE <1>1 DEF TypeOK, AgentInv, SpawnFails, At, procs, stop
  <2>1. OneSlot'
    BY SlotAnswer DEF Serving, InProgress
  <2>2. ShellsFollow' /\ RegistryFollows' /\ AnswersFollow' /\ OneCommand'
    BY DEF ShellsFollow, RegistryFollows, AnswersFollow, OneCommand, Answer, Go, Tell,
           InProgress
  <2>3. ToldTheTruth'
    BY DEF ToldTheTruth, Answer, Tell, ShellsFollow
  <2> QED  BY <2>1, <2>2, <2>3
<1>2. CASE Fork(r)
  <2> USE <1>2 DEF TypeOK, AgentInv, Fork, At, agent, stop
  <2>1. OneSlot'
    BY SlotFrame DEF Serving, InProgress
  <2>2. ShellsFollow' /\ RegistryFollows' /\ AnswersFollow'
    BY DEF ShellsFollow, RegistryFollows, AnswersFollow, Go
  <2>3. OneCommand'
    <3>1. pc[r] \in Serving
      BY DEF Serving, InProgress
    <3>2. \A s \in Requests \ {r} : shell[s] # "running"
      BY <3>1, OneShell
    <3> QED  BY <3>2 DEF OneCommand
  <2>4. ToldTheTruth'
    BY DEF ToldTheTruth, AnswersFollow
  <2> QED  BY <2>1, <2>2, <2>3, <2>4
<1>3. CASE Register(r)
  <2> USE <1>3 DEF TypeOK, AgentInv, Register, At, procs, stop
  <2>1. OneSlot'
    BY SlotFrame DEF Serving, InProgress
  <2>2. ShellsFollow' /\ RegistryFollows' /\ AnswersFollow' /\ OneCommand'
    BY DEF ShellsFollow, RegistryFollows, AnswersFollow, OneCommand, Go, InProgress
  <2>3. ToldTheTruth'
    BY DEF ToldTheTruth
  <2> QED  BY <2>1, <2>2, <2>3
<1> QED  BY <1>1, <1>2, <1>3

LEMMA InvDeadline ==
  ASSUME TypeOK, AgentInv, NEW r \in Requests, DeadlinePasses(r)
  PROVE  AgentInv'
<1> USE DEF TypeOK, AgentInv, DeadlinePasses, At, agent, stop
<1>1. OneSlot'
  BY SlotFrame DEF Serving, InProgress
<1>2. ShellsFollow' /\ RegistryFollows' /\ AnswersFollow' /\ OneCommand'
  BY DEF ShellsFollow, RegistryFollows, AnswersFollow, OneCommand, Go, InProgress
<1>3. ToldTheTruth'
  BY DEF ToldTheTruth, AnswersFollow
<1> QED  BY <1>1, <1>2, <1>3

\* Steps of the processes and of the clock that move no handler.
LEMMA InvProcess ==
  ASSUME TypeOK, AgentInv, NEW r \in Requests,
         ShellExits(r) \/ ChildrenExit(r) \/ Reaped(r)
  PROVE  AgentInv'
<1>1. UNCHANGED <<agent, pc, job, timedOut, stop, got>>
  BY DEF ShellExits, ChildrenExit, Reaped
<1>2. \A s \in Requests :
        shell'[s] = shell[s] \/ (shell[s] = "running" /\ shell'[s] \in Exits)
  BY DEF ShellExits, ChildrenExit, Reaped, TypeOK, Exits
<1> USE <1>1, <1>2 DEF TypeOK, AgentInv, agent, stop
<1>3. OneSlot' /\ RegistryFollows' /\ AnswersFollow'
  BY DEF OneSlot, RegistryFollows, AnswersFollow
<1>4. ShellsFollow' /\ OneCommand'
  BY DEF ShellsFollow, OneCommand, Exits
<1>5. ToldTheTruth'
  BY DEF ToldTheTruth, Exits
<1> QED  BY <1>3, <1>4, <1>5

\* The steps of a _terminate_process_group, of a handler or of the shutdown.
LEMMA InvTermination ==
  ASSUME TypeOK, AgentInv, NEW r \in Requests,
         GraceOver(r) \/ Kill(r) \/ Terminate(r)
  PROVE  AgentInv'
<1>1. UNCHANGED <<alive, busy, registry, job, timedOut, shell, got>> /\ alive
  BY DEF GraceOver, Kill, Terminate, agent, procs
<1>2. \/ UNCHANGED pc
      \/ pc[r] \in InProgress /\ pc' = [pc EXCEPT ![r] = "killing"]
      \/ pc[r] \in InProgress /\ pc' = [pc EXCEPT ![r] = "reaping"]
  BY DEF GraceOver, Kill, Terminate, Go, InProgress
<1>3. \A s \in Requests : ending[s] = "none" <=> ending'[s] = "none"
  BY DEF GraceOver, Kill, Terminate, TypeOK
<1>4. \A s \in Requests : pc'[s] = pc[s] \/ (pc[s] \in InProgress /\ pc'[s] \in InProgress)
  BY <1>2 DEF TypeOK, InProgress
<1> USE <1>1, <1>3, <1>4 DEF AgentInv
<1>5. OneSlot'
  BY DEF OneSlot, Serving
<1>6. ShellsFollow' /\ AnswersFollow'
  BY DEF ShellsFollow, AnswersFollow, InProgress
<1>7. RegistryFollows'
  BY DEF RegistryFollows
<1>8. OneCommand' /\ ToldTheTruth'
  BY DEF OneCommand, ToldTheTruth
<1> QED  BY <1>5, <1>6, <1>7, <1>8

LEMMA InvCollect ==
  ASSUME TypeOK, AgentInv, NEW r \in Requests, Collect(r)
  PROVE  AgentInv'
<1> USE DEF TypeOK, AgentInv, Collect, At, procs, stop
<1>1. pc[r] \in InProgress /\ shell[r] \in Exits /\ alive
  BY DEF Finished, InProgress
<1>2. OneSlot'
  BY <1>1, SlotFrame, SlotAnswer DEF Respond, Serving, InProgress
<1>3. ShellsFollow'
  BY <1>1 DEF ShellsFollow, Respond, Answer, Go, Exits
<1>4. RegistryFollows'
  BY <1>1 DEF RegistryFollows, Respond, Answer, Go
<1>5. OneCommand'
  BY DEF OneCommand
<1>6. AnswersFollow' /\ ToldTheTruth'
  <2>1. CASE job[r].mode = "file"
    BY <1>1, <2>1 DEF Respond, Go, AnswersFollow, ToldTheTruth
  <2>2. CASE job[r].mode # "file"
    BY <1>1, <2>2, ToldHonest, AnswerTrue DEF Respond
  <2> QED  BY <2>1, <2>2
<1> QED  BY <1>2, <1>3, <1>4, <1>5, <1>6

LEMMA InvWritten ==
  ASSUME TypeOK, AgentInv, NEW r \in Requests, Written(r)
  PROVE  AgentInv'
<1> USE DEF TypeOK, AgentInv, Written, At, procs, stop
<1>1. OneSlot'
  BY SlotAnswer DEF Serving, InProgress
<1>2. ShellsFollow' /\ RegistryFollows' /\ OneCommand'
  BY DEF ShellsFollow, RegistryFollows, OneCommand, Answer, Go, InProgress
<1>3. shell[r] \in Exits
  BY DEF ShellsFollow
<1>4. Honest(r, "error")
  BY DEF Honest
<1>5. AnswersFollow' /\ ToldTheTruth'
  BY <1>3, <1>4, ToldHonest, AnswerTrue
<1> QED  BY <1>1, <1>2, <1>5

LEMMA InvReadTimeout ==
  ASSUME TypeOK, AgentInv, NEW r \in Requests, ReadTimeout(r)
  PROVE  AgentInv'
  BY DEF TypeOK, AgentInv, ReadTimeout, Tell, agent, procs, stop, OneSlot, ShellsFollow,
         RegistryFollows, AnswersFollow, OneCommand, ToldTheTruth

LEMMA InvEnds ==
  ASSUME TypeOK, AgentInv, Shutdown \/ ShutdownEnds \/ Gone
  PROVE  AgentInv'
<1>1. CASE Shutdown
  <2> USE <1>1 DEF TypeOK, AgentInv, Shutdown, agent
  <2>1. OneSlot' /\ ShellsFollow' /\ AnswersFollow' /\ OneCommand' /\ ToldTheTruth'
    BY DEF OneSlot, ShellsFollow, AnswersFollow, OneCommand, ToldTheTruth, procs
  <2>2. RegistryFollows'
    BY DEF RegistryFollows
  <2> QED  BY <2>1, <2>2
<1>2. CASE ShutdownEnds \/ Gone
  <2>1. AgentEnds
    BY <1>2 DEF ShutdownEnds, Gone
  <2> USE <2>1 DEF TypeOK, AgentInv, AgentEnds, procs
  <2>2. OneSlot'
    BY DEF OneSlot, Serving, InProgress
  <2>3. ShellsFollow' /\ OneCommand'
    BY DEF ShellsFollow, OneCommand, Serving, InProgress
  <2>4. RegistryFollows' /\ AnswersFollow'
    BY DEF RegistryFollows, AnswersFollow, Serving, InProgress
  <2>5. ToldTheTruth'
    BY DEF ToldTheTruth
  <2> QED  BY <2>2, <2>3, <2>4, <2>5
<1> QED  BY <1>1, <1>2

LEMMA InvNext == TypeOK /\ AgentInv /\ [Next]_vars => AgentInv'
<1> SUFFICES ASSUME TypeOK, AgentInv, [Next]_vars PROVE AgentInv'
  OBVIOUS
<1>1. CASE UNCHANGED vars
  BY <1>1 DEF vars, agent, procs, stop, AgentInv, OneSlot, ShellsFollow,
              RegistryFollows, AnswersFollow, OneCommand, ToldTheTruth
<1>2. CASE Next
  BY <1>2, InvPost, InvStart, InvDeadline, InvProcess, InvTermination, InvCollect, InvWritten,
     InvReadTimeout, InvEnds DEF Next, Handler
<1> QED  BY <1>1, <1>2

LEMMA Inductive == Spec => [](TypeOK /\ AgentInv)
<1>1. Init => TypeOK /\ AgentInv
  BY TypeInit, InvInit
<1>2. (TypeOK /\ AgentInv) /\ [Next]_vars => (TypeOK /\ AgentInv)'
  BY TypeNext, InvNext
<1> QED  BY <1>1, <1>2, PTL DEF Spec

-----------------------------------------------------------------------------
(* Results *)

\* At most one shell that the agent started is running, whatever becomes of the
\* requests, of their deadlines and of the agent.
THEOREM OneCommandAtATime == Spec => []OneCommand
<1> QED  BY Inductive, PTL DEF AgentInv

\* What clients are told of their commands is what happened to them.
THEOREM ClientsToldTheTruth == Spec => []ToldTheTruth
<1> QED  BY Inductive, PTL DEF AgentInv

LEMMA RefusedStep ==
  ASSUME TypeOK, AgentInv, [Next]_vars, NEW r \in Requests,
         got[r] = "unsent", got'[r] = "refused"
  PROVE  \E s \in Requests \ {r} : pc[s] \in Serving
<1>1. pc[r] = "new" /\ pc[r] \notin Serving
  BY DEF AgentInv, AnswersFollow, Serving, InProgress
<1>2. Post(r)
  BY <1>1 DEF Next, Handler, Post, SpawnFails, Fork, Register, DeadlinePasses, GraceOver,
              Kill, Terminate, Collect, Written, ReadTimeout, ShellExits, ChildrenExit, Reaped, Shutdown,
              ShutdownEnds, Gone, AgentEnds, Respond, Answer, Go, Tell, At, TypeOK, vars
<1>3. alive /\ busy
  BY <1>2 DEF Post, At, TypeOK
<1> QED  BY <1>1, <1>3 DEF AgentInv, OneSlot

\* A client is refused only while another one is being served.
THEOREM RefusedWhenServing == Spec => RefusedOnlyWhenServing
<1>1. TypeOK /\ AgentInv /\ [Next]_vars
      => [\A r \in Requests : got[r] = "unsent" /\ got'[r] = "refused"
            => \E s \in Requests \ {r} : pc[s] \in Serving]_vars
  BY RefusedStep
<1> QED  BY <1>1, Inductive, PTL DEF Spec, RefusedOnlyWhenServing

\* The snapshot is taken of the registry, which holds what is in progress.
LEMMA SnapshotStep ==
  ASSUME TypeOK, AgentInv, [Next]_vars, NEW r \in Requests,
         ending[r] = "none", ending'[r] # "none"
  PROVE  pc[r] \in InProgress
<1>1. Shutdown
  BY DEF Next, Handler, Post, SpawnFails, Fork, Register, DeadlinePasses, GraceOver, Kill,
         Terminate, Collect, Written, ReadTimeout, ShellExits, ChildrenExit, Reaped,
         ShutdownEnds, Gone, AgentEnds, stop, vars, TypeOK
<1>2. r \in registry
  BY <1>1 DEF Shutdown
<1> QED  BY <1>2 DEF AgentInv, RegistryFollows

LEMMA SignalStep ==
  ASSUME TypeOK, AgentInv, [Next]_vars, NEW r \in Requests,
         r \in (termed' \ termed) \cup (killed' \ killed)
  PROVE  pc[r] \in InProgress \/ ending[r] # "none"
<1>1. ASSUME NEW s \in Requests, Kill(s) \/ Terminate(s)
      PROVE  pc[r] \in InProgress \/ ending[r] # "none"
  BY <1>1 DEF Kill, Terminate, SigKill, SigTerm, InProgress
<1>2. ASSUME NEW s \in Requests, DeadlinePasses(s) PROVE pc[r] \in InProgress
  BY <1>2 DEF DeadlinePasses, At, SigTerm, InProgress
<1> QED
  BY <1>1, <1>2
     DEF Next, Handler, Post, SpawnFails, Fork, Register, GraceOver, Collect, Written,
         ReadTimeout, ShellExits, ChildrenExit, Reaped, Shutdown, ShutdownEnds, Gone,
         AgentEnds, procs, vars

\* A signal goes to a command that is in progress, or that was when the shutdown took
\* its snapshot; a command that had returned by then is never signalled.
THEOREM SignalsCurrent == Spec => SignalsTheCurrent
<1>1. TypeOK /\ AgentInv /\ [Next]_vars
      => [\A r \in Requests :
            /\ ending[r] = "none" /\ ending'[r] # "none" => pc[r] \in InProgress
            /\ r \in (termed' \ termed) \cup (killed' \ killed)
                 => pc[r] \in InProgress \/ ending[r] # "none"]_vars
  BY SnapshotStep, SignalStep
<1> QED  BY <1>1, Inductive, PTL DEF Spec, SignalsTheCurrent

-----------------------------------------------------------------------------
(* The one-command server *)

StageOf == [r \in Requests |-> Stage(r)]
HeardOf == [r \in Requests |-> Heard(r)]

\* A client waits exactly for a handler that is at work.
Hearing ==
  \A r \in Requests :
    /\ pc[r] = "new" => got[r] = "unsent"
    /\ got[r] = "waiting" => pc[r] \in Serving

LEMMA HearingNext == TypeOK /\ Hearing /\ [Next]_vars => Hearing'
<1> SUFFICES ASSUME TypeOK, Hearing, [Next]_vars PROVE Hearing'
  OBVIOUS
<1> USE DEF Serving, InProgress
<1>1. ASSUME NEW r \in Requests, Post(r) PROVE Hearing'
  BY <1>1 DEF TypeOK, Hearing, Post, At, Go
<1>2. ASSUME NEW r \in Requests, SpawnFails(r) \/ Written(r) PROVE Hearing'
  <2>1. Told(r) # "waiting"
    BY DEF Told
  <2> QED  BY <1>2, <2>1 DEF TypeOK, Hearing, SpawnFails, Written, Answer, At, Go, Tell
<1>3. ASSUME NEW r \in Requests, Fork(r) \/ Register(r) \/ DeadlinePasses(r)
      PROVE  Hearing'
  BY <1>3 DEF TypeOK, Hearing, Fork, Register, DeadlinePasses, At, Go
<1>4. ASSUME NEW r \in Requests, Collect(r) PROVE Hearing'
  <2>1. Told(r) # "waiting"
    BY DEF Told
  <2> QED  BY <1>4, <2>1 DEF TypeOK, Hearing, Collect, Respond, Answer, At, Go, Tell
<1>5. ASSUME NEW r \in Requests,
             ShellExits(r) \/ ChildrenExit(r) \/ Reaped(r) \/ Terminate(r)
      PROVE  Hearing'
  BY <1>5 DEF Hearing, ShellExits, ChildrenExit, Reaped, Terminate
<1>10. ASSUME NEW r \in Requests, GraceOver(r) \/ Kill(r) PROVE Hearing'
  BY <1>10 DEF TypeOK, Hearing, GraceOver, Kill, Go
<1>6. ASSUME NEW r \in Requests, ReadTimeout(r) PROVE Hearing'
  BY <1>6 DEF TypeOK, Hearing, ReadTimeout, Tell
<1>7. CASE Shutdown
  BY <1>7 DEF Hearing, Shutdown
<1>8. CASE ShutdownEnds \/ Gone
  BY <1>8 DEF TypeOK, Hearing, ShutdownEnds, Gone, AgentEnds
<1>9. CASE UNCHANGED vars
  BY <1>9 DEF Hearing, vars
<1> QED
  BY <1>1, <1>2, <1>3, <1>4, <1>5, <1>6, <1>7, <1>8, <1>9, <1>10 DEF Next, Handler

\* How a step of a handler shows: in the place of its request, and nowhere else.
LEMMA StageMoves ==
  ASSUME TypeOK, NEW r \in Requests, NEW p \in Points, Go(r, p)
  PROVE  StageOf' = [StageOf EXCEPT ![r] =
           IF p = "new" THEN "unsent" ELSE IF p \in Serving THEN "served" ELSE "over"]
  BY DEF StageOf, Stage, Go, TypeOK

LEMMA HeardMoves ==
  ASSUME TypeOK, NEW r \in Requests, NEW o \in Outcomes, got' = [got EXCEPT ![r] = o]
  PROVE  HeardOf' = [HeardOf EXCEPT ![r] =
           IF o \in {"unsent", "waiting"} THEN "nothing" ELSE o]
  BY DEF HeardOf, Heard, TypeOK

LEMMA StageFrame == ASSUME UNCHANGED pc PROVE UNCHANGED StageOf
  BY DEF StageOf, Stage

LEMMA HeardFrame == ASSUME UNCHANGED got PROVE UNCHANGED HeardOf
  BY DEF HeardOf, Heard

\* The slot is free exactly when the flag is down.
LEMMA FreeIsIdle ==
  ASSUME TypeOK, AgentInv, alive
  PROVE  ~busy <=> \A s \in Requests : StageOf[s] # "served"
  BY DEF StageOf, Stage, AgentInv, OneSlot, TypeOK, Serving, InProgress

\* The answer of a handler is a Finish.
LEMMA AnswerFinishes ==
  ASSUME TypeOK, AgentInv, NEW r \in Requests, NEW o, Answer(r, o), alive,
         pc[r] \in Serving, shell[r] # "running", UNCHANGED <<alive, shell>>,
         o \in Slot!TruthOf(shell[r])
  PROVE  Slot!Finish(r)
<1>1. StageOf' = [StageOf EXCEPT ![r] = "over"]
  BY StageMoves DEF Answer, Points, Serving, InProgress
<1>2. StageOf[r] = "served" /\ (HeardOf[r] = "nothing" <=> got[r] = "waiting")
  <2>1. got[r] # "unsent"
    BY DEF AgentInv, AnswersFollow, Serving, InProgress
  <2> QED  BY <2>1 DEF StageOf, Stage, HeardOf, Heard, TypeOK, Outcomes, Serving, InProgress
<1>3. o \in Outcomes \ {"unsent", "waiting"}
  BY DEF Slot!TruthOf, Outcomes
<1>4. IF HeardOf[r] = "nothing" THEN HeardOf' = [HeardOf EXCEPT ![r] = o]
      ELSE UNCHANGED HeardOf
  <2>1. CASE got[r] = "waiting"
    BY <1>2, <1>3, <2>1, HeardMoves DEF Answer, Tell
  <2>2. CASE got[r] # "waiting"
    BY <1>2, <2>2, HeardFrame DEF Answer, Tell
  <2> QED  BY <2>1, <2>2
<1> QED  BY <1>1, <1>2, <1>4 DEF Slot!Finish, StageOf, HeardOf

LEMMA ToldIsTrue ==
  ASSUME TypeOK, NEW r \in Requests, shell[r] \in Exits
  PROVE  Told(r) \in Slot!TruthOf(shell[r]) /\ "error" \in Slot!TruthOf(shell[r])
  BY DEF Told, Slot!TruthOf, Exits

LEMMA SlotPost ==
  ASSUME TypeOK, AgentInv, Hearing, NEW r \in Requests, Post(r)
  PROVE  Slot!Accept(r) \/ Slot!Refuse(r)
<1>1. alive /\ UNCHANGED <<alive, shell>> /\ StageOf[r] = "unsent"
  BY DEF Post, At, procs, StageOf, Stage
<1>2. CASE busy
  <2>1. StageOf' = [StageOf EXCEPT ![r] = "over"]
    BY <1>2, StageMoves DEF Post, Points, Serving, InProgress
  <2>2. HeardOf' = [HeardOf EXCEPT ![r] = "refused"]
    BY <1>2, HeardMoves DEF Post, Outcomes
  <2> QED
    BY <1>1, <1>2, <2>1, <2>2, FreeIsIdle DEF Slot!Refuse, Slot!Free, StageOf, HeardOf
<1>3. CASE ~busy
  <2>1. StageOf' = [StageOf EXCEPT ![r] = "served"]
    BY <1>3, StageMoves DEF Post, Points, Serving, InProgress
  <2>2. HeardOf' = [HeardOf EXCEPT ![r] = "nothing"]
    BY <1>3, HeardMoves DEF Post, Outcomes
  <2>3. HeardOf[r] = "nothing"
    BY DEF HeardOf, Heard, Hearing, Post, At
  <2>4. UNCHANGED HeardOf
    BY <2>2, <2>3 DEF HeardOf
  <2> QED
    BY <1>1, <1>3, <2>1, <2>4, FreeIsIdle DEF Slot!Accept, Slot!Free, StageOf, HeardOf
<1> QED  BY <1>2, <1>3

\* A command starts in a slot in which nothing runs.
LEMMA SlotFork ==
  ASSUME TypeOK, AgentInv, NEW r \in Requests, Fork(r)
  PROVE  Slot!Run(r)
<1>1. alive /\ pc[r] = "spawning" /\ pc[r] \in Serving
  BY DEF Fork, At, Serving, InProgress
<1>2. shell[r] = "none" /\ \A s \in Requests : shell[s] # "running"
  BY <1>1, OneShell DEF AgentInv, ShellsFollow
<1>3. StageOf[r] = "served" /\ StageOf' = [StageOf EXCEPT ![r] = "served"]
  BY <1>1, StageMoves DEF Fork, Points, Serving, InProgress, StageOf, Stage
<1>4. UNCHANGED StageOf
  BY <1>3 DEF StageOf
<1>5. UNCHANGED <<alive, HeardOf>>
  BY HeardFrame DEF Fork, agent
<1> QED
  BY <1>1, <1>2, <1>3, <1>4, <1>5 DEF Slot!Run, Fork, StageOf, HeardOf

\* A handler at work that goes on does not show.
LEMMA SlotGoesOn ==
  ASSUME TypeOK, NEW r \in Requests, NEW p \in Serving, pc[r] \in Serving, Go(r, p),
         UNCHANGED <<alive, shell, got>>
  PROVE  UNCHANGED Slot!vars
<1>1. StageOf[r] = "served" /\ StageOf' = [StageOf EXCEPT ![r] = "served"]
  BY StageMoves DEF Points, Serving, InProgress, StageOf, Stage
<1>2. UNCHANGED StageOf
  BY <1>1 DEF StageOf
<1> QED  BY <1>2, HeardFrame DEF Slot!vars, StageOf, HeardOf

LEMMA SlotExit ==
  ASSUME NEW r \in Requests, ShellExits(r) \/ Reaped(r)
  PROVE  Slot!Exit(r)
<1>1. UNCHANGED <<alive, StageOf, HeardOf>>
  BY StageFrame, HeardFrame DEF ShellExits, Reaped, agent
<1>2. shell[r] = "running" /\ \E e \in Slot!Exits : shell' = [shell EXCEPT ![r] = e]
  BY DEF ShellExits, Reaped, Exits, Slot!Exits
<1> QED  BY <1>1, <1>2 DEF Slot!Exit, StageOf, HeardOf

\* Signals, deaths of children and the start of a shutdown do not show either.
LEMMA SlotQuiet ==
  ASSUME UNCHANGED <<alive, pc, shell, got>>
  PROVE  UNCHANGED Slot!vars
  BY StageFrame, HeardFrame DEF Slot!vars, StageOf, HeardOf

LEMMA SlotAnswers ==
  ASSUME TypeOK, AgentInv, NEW r \in Requests,
         SpawnFails(r) \/ Collect(r) \/ Written(r)
  PROVE  Slot!Finish(r) \/ UNCHANGED Slot!vars
<1>1. CASE SpawnFails(r)
  <2>1. alive /\ pc[r] \in Serving /\ shell[r] = "none" /\ UNCHANGED <<alive, shell>>
    BY <1>1 DEF SpawnFails, At, Serving, InProgress, procs, AgentInv, ShellsFollow
  <2>2. "error" \in Slot!TruthOf(shell[r])
    BY DEF Slot!TruthOf
  <2> QED  BY <1>1, <2>1, <2>2, AnswerFinishes DEF SpawnFails
<1>2. CASE Collect(r)
  <2>1. alive /\ pc[r] \in Serving /\ shell[r] \in Exits /\ UNCHANGED <<alive, shell>>
    BY <1>2 DEF Collect, At, Finished, Serving, InProgress, procs
  <2>2. CASE job[r].mode = "file"
    BY <1>2, <2>1, <2>2, SlotGoesOn DEF Collect, Respond, Serving, InProgress
  <2>3. CASE job[r].mode # "file"
    BY <1>2, <2>1, <2>3, ToldIsTrue, AnswerFinishes DEF Collect, Respond, Exits
  <2> QED  BY <2>2, <2>3
<1>3. CASE Written(r)
  <2>1. alive /\ pc[r] \in Serving /\ shell[r] \in Exits /\ UNCHANGED <<alive, shell>>
    BY <1>3 DEF Written, At, Serving, InProgress, procs, AgentInv, ShellsFollow
  <2> QED  BY <1>3, <2>1, ToldIsTrue, AnswerFinishes DEF Written, Exits
<1> QED  BY <1>1, <1>2, <1>3

\* A client gives up on a handler that is at work.
LEMMA SlotGiveUp ==
  ASSUME TypeOK, AgentInv, NEW r \in Requests, ReadTimeout(r)
  PROVE  Slot!GiveUp(r)
<1>1. alive /\ StageOf[r] = "served" /\ HeardOf[r] = "nothing"
  BY DEF ReadTimeout, StageOf, Stage, HeardOf, Heard, Serving, InProgress, AgentInv, OneSlot
<1>2. HeardOf' = [HeardOf EXCEPT ![r] = "lost"]
  BY HeardMoves DEF ReadTimeout, Tell, Outcomes
<1>3. UNCHANGED <<alive, shell, StageOf>>
  BY StageFrame DEF ReadTimeout, agent, procs
<1> QED  BY <1>1, <1>2, <1>3 DEF Slot!GiveUp, StageOf, HeardOf

LEMMA SlotDown ==
  ASSUME TypeOK, AgentInv, Hearing, ShutdownEnds \/ Gone
  PROVE  Slot!Down
<1>1. alive /\ AgentEnds
  BY DEF ShutdownEnds, Gone
<1>2. ASSUME NEW r \in Requests
      PROVE  /\ Stage(r)' = IF Stage(r) = "served" THEN "over" ELSE Stage(r)
             /\ Heard(r)' = IF Stage(r) = "served" /\ Heard(r) = "nothing"
                            THEN "lost" ELSE Heard(r)
  <2>1. got[r] = "waiting" <=> Stage(r) = "served" /\ Heard(r) = "nothing"
    BY DEF Hearing, Stage, Heard, AgentInv, AnswersFollow, Serving, InProgress, TypeOK,
           Outcomes
  <2>2. /\ pc'[r] = IF pc[r] \in Serving THEN "done" ELSE pc[r]
        /\ got'[r] = IF got[r] = "waiting" THEN "lost" ELSE got[r]
    BY <1>1 DEF AgentEnds
  <2> QED  BY <2>1, <2>2 DEF Stage, Heard, Serving, InProgress
<1>3. alive' = FALSE /\ UNCHANGED shell
  BY <1>1 DEF AgentEnds, procs
<1>4. /\ StageOf' = [r \in Requests |->
           IF StageOf[r] = "served" THEN "over" ELSE StageOf[r]]
      /\ HeardOf' = [r \in Requests |->
           IF StageOf[r] = "served" /\ HeardOf[r] = "nothing" THEN "lost" ELSE HeardOf[r]]
  BY <1>2 DEF StageOf, HeardOf
<1> QED  BY <1>1, <1>3, <1>4 DEF Slot!Down, StageOf, HeardOf

LEMMA SlotInit == Init => Slot!Init
<1> SUFFICES ASSUME Init PROVE Slot!Init
  OBVIOUS
<1>1. /\ StageOf = [r \in Requests |-> "unsent"]
      /\ HeardOf = [r \in Requests |-> "nothing"]
  BY DEF Init, StageOf, Stage, HeardOf, Heard
<1> QED  BY <1>1 DEF Init, Slot!Init, StageOf, HeardOf

LEMMA SlotNext == TypeOK /\ AgentInv /\ Hearing /\ [Next]_vars => [Slot!Next]_(Slot!vars)
<1> SUFFICES ASSUME TypeOK, AgentInv, Hearing, [Next]_vars
             PROVE  Slot!Next \/ UNCHANGED Slot!vars
  OBVIOUS
<1>1. ASSUME NEW r \in Requests, Post(r) PROVE Slot!Next
  BY <1>1, SlotPost DEF Slot!Next
<1>2. ASSUME NEW r \in Requests, Fork(r) PROVE Slot!Next
  BY <1>2, SlotFork DEF Slot!Next
<1>3. ASSUME NEW r \in Requests, Register(r) \/ DeadlinePasses(r)
      PROVE  UNCHANGED Slot!vars
  BY <1>3, SlotGoesOn DEF Register, DeadlinePasses, At, Serving, InProgress, agent, procs
<1>4. ASSUME NEW r \in Requests, SpawnFails(r) \/ Collect(r) \/ Written(r)
      PROVE  Slot!Next \/ UNCHANGED Slot!vars
  BY <1>4, SlotAnswers DEF Slot!Next
<1>5. ASSUME NEW r \in Requests, ShellExits(r) \/ Reaped(r) PROVE Slot!Next
  BY <1>5, SlotExit DEF Slot!Next
<1>6. ASSUME NEW r \in Requests, Terminate(r) \/ ChildrenExit(r)
      PROVE  UNCHANGED Slot!vars
  BY <1>6, SlotQuiet DEF Terminate, ChildrenExit, agent
<1>11. ASSUME NEW r \in Requests, GraceOver(r) \/ Kill(r) PROVE UNCHANGED Slot!vars
  <2>1. UNCHANGED <<alive, shell, got>>
    BY <1>11 DEF GraceOver, Kill, agent, procs
  <2>2. CASE UNCHANGED pc
    BY <2>1, <2>2, SlotQuiet
  <2>3. CASE pc[r] \in Serving /\ \E p \in {"killing", "reaping"} : Go(r, p)
    BY <2>1, <2>3, SlotGoesOn DEF Serving, InProgress
  <2> QED  BY <1>11, <2>2, <2>3 DEF GraceOver, Kill, Serving, InProgress
<1>7. ASSUME NEW r \in Requests, ReadTimeout(r) PROVE Slot!Next
  BY <1>7, SlotGiveUp DEF Slot!Next
<1>8. CASE Shutdown
  BY <1>8, SlotQuiet DEF Shutdown, agent, procs
<1>9. CASE ShutdownEnds \/ Gone
  BY <1>9, SlotDown DEF Slot!Next
<1>10. CASE UNCHANGED vars
  BY <1>10, SlotQuiet DEF vars, agent, procs
<1> QED
  BY <1>1, <1>2, <1>3, <1>4, <1>5, <1>6, <1>7, <1>8, <1>9, <1>10, <1>11
     DEF Next, Handler

\* The agent implements the one-command server: it refuses only while it serves,
\* answers each request at most once and only when the command is over, and no
\* command starts beside another, whatever deadlines, signals and shutdowns do.
THEOREM AgentIsOneSlotServer == Spec => OneSlotServer
<1>1. Init => Slot!Init /\ Hearing
  BY SlotInit DEF Init, Hearing
<1> QED  BY <1>1, HearingNext, SlotNext, Inductive, PTL DEF Spec, OneSlotServer, Slot!Spec

=============================================================================
