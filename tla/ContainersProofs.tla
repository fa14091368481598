-------------------------- MODULE ContainersProofs --------------------------
(***************************************************************************)
(* Proofs about Containers for every set of hosts and every bound on the    *)
(* calls and on what happens from outside.                                  *)
(***************************************************************************)
EXTENDS Containers, TLAPS

-----------------------------------------------------------------------------
(* Type correctness *)

LEMMA NothingType == Fleet!Nothing \in [Hosts -> Fleet!Answer]
  BY DEF Fleet!Nothing, Fleet!Answer

\* One command on the fleet leaves a handle of its type.
LEMMA ExecType ==
  ASSUME reach \subseteq Hosts, NEW lost, NEW ans \in [Hosts -> Fleet!Answer],
         Fleet!Exec(lost, ans)
  PROVE  reach' \subseteq Hosts /\ ret' \in Fleet!Returns
  BY DEF Fleet!Exec, Fleet!Returns

LEMMA CommandType ==
  ASSUME reach \subseteq Hosts, NEW done, Command(done) \/ CommandOrTrue(done)
  PROVE  reach' \subseteq Hosts /\ ret' \in Fleet!Returns
<1>1. CASE Command(done)
  <2>1. PICK lost \in SUBSET reach, ans \in [Hosts -> {"ok", "fail", "abort"}] :
          Fleet!Exec(lost, ans)
    BY <1>1 DEF Command
  <2>2. ans \in [Hosts -> Fleet!Answer]
    BY DEF Fleet!Answer
  <2> QED  BY <2>1, <2>2, ExecType
<1>2. CASE CommandOrTrue(done)
  <2>1. PICK lost \in SUBSET reach, ans \in [Hosts -> {"ok", "abort"}] :
          Fleet!Exec(lost, ans)
    BY <1>2 DEF CommandOrTrue
  <2>2. ans \in [Hosts -> Fleet!Answer]
    BY DEF Fleet!Answer
  <2> QED  BY <2>1, <2>2, ExecType
<1> QED  BY <1>1, <1>2

\* What a docker command does to the boxes keeps mine among them.
BoxesOK == /\ box \in [Hosts -> Boxes]
           /\ mine \subseteq {h \in Hosts : box[h] # "none"}

LEMMA BoxType ==
  ASSUME BoxesOK, NEW done \in SUBSET Hosts, Removed(done) \/ Started(done)
  PROVE  BoxesOK'
<1>1. box' \in [Hosts -> Boxes]
  BY DEF Removed, Started, BoxesOK, Boxes
<1>2. \A h \in mine' : h \in Hosts /\ box'[h] # "none"
  BY DEF Removed, Started, BoxesOK
<1> QED  BY <1>1, <1>2 DEF BoxesOK

LastType == [op : {"none", "setup", "teardown", "exec"}, result : Outcomes]

LEMMA LeaveType ==
  ASSUME NEW op \in {"setup", "teardown", "exec"}, NEW r \in Outcomes, Leave(op, r)
  PROVE  pc' \in Steps /\ last' \in LastType
  BY DEF Leave, LastType, Steps

LEMMA FirstType == FirstOf \in Steps
  BY DEF FirstOf, Steps

LEMMA TypeInit == Init => TypeOK
<1> SUFFICES ASSUME Init PROVE TypeOK
  OBVIOUS
<1>1. reach \subseteq Hosts /\ ret \in Fleet!Returns
  BY NothingType DEF Init, Fleet!Init, Fleet!Returns
<1>2. meddles \in 0..MaxMeddle /\ calls \in 0..MaxCalls
  BY ContainersAssumption, SMT DEF Init
<1> QED  BY <1>1, <1>2 DEF Init, TypeOK, Steps, Outcomes

\* The steps of setup_containers that leave the boxes alone.
LEMMA PrepareType ==
  ASSUME TypeOK, NEW step, NEW succeed \in Steps, NEW otherwise \in Steps \cup {"fail"},
         Prepare(step, succeed, otherwise), images' \subseteq Hosts,
         reach' \subseteq Hosts, ret' \in Fleet!Returns
  PROVE  TypeOK'
<1>1. pc' \in Steps /\ last' \in LastType
  BY DEF Prepare, TypeOK, Leave, LastType, Outcomes, Steps
<1> QED  BY <1>1 DEF Prepare, TypeOK, config, history, LastType

LEMMA TypeNext == TypeOK /\ [Next]_vars => TypeOK'
<1> SUFFICES ASSUME TypeOK, [Next]_vars PROVE TypeOK'
  OBVIOUS
<1>0. reach \subseteq Hosts /\ images \subseteq Hosts /\ BoxesOK
  BY DEF TypeOK, BoxesOK
<1>1. CASE SudoPrefix
  <2>1. PICK lost \in SUBSET reach, ans \in [Hosts -> {"text", "abort"}] :
          Fleet!Exec(lost, ans)
    BY <1>1 DEF SudoPrefix
  <2>2. ans \in [Hosts -> Fleet!Answer]
    BY DEF Fleet!Answer
  <2>3. reach' \subseteq Hosts /\ ret' \in Fleet!Returns
    BY <1>0, <2>1, <2>2, ExecType
  <2> QED  BY <1>1, <2>3 DEF SudoPrefix, TypeOK, config, host, history
<1>2. CASE ExecRaises
  <2>1. reach' \subseteq Hosts /\ ret' \in Fleet!Returns
    BY <1>0, <1>2, NothingType DEF ExecRaises, Fleet!Raise, Fleet!Returns
  <2>2. Operation \in {"setup", "teardown", "exec"} /\ "raised" \in Outcomes
    BY DEF Operation, Outcomes
  <2>3. pc' \in Steps /\ last' \in LastType
    BY <1>2, <2>2, LeaveType DEF ExecRaises
  <2>4. PICK done \in SUBSET reach :
          \/ (Removed(done) \/ Started(done \cap Free)) /\ UNCHANGED images
          \/ images' \subseteq images \cup done /\ UNCHANGED <<box, mine>>
    BY <1>2 DEF ExecRaises
  <2>5. BoxesOK' /\ images' \subseteq Hosts
    <3>1. done \subseteq Hosts /\ done \cap Free \subseteq Hosts
      BY <1>0
    <3>2. UNCHANGED <<box, mine>> => BoxesOK'
      BY <1>0 DEF BoxesOK
    <3> QED  BY <1>0, <2>4, <3>1, <3>2, BoxType
  <2> QED  BY <1>2, <2>1, <2>3, <2>5
           DEF ExecRaises, TypeOK, BoxesOK, LastType, config, history
<1>3. CASE Setup
  <2>1. pc' \in Steps
    BY <1>3, FirstType DEF Setup, Steps
  <2>2. calls' \in 0..MaxCalls
    BY <1>3, ContainersAssumption, SMT DEF Setup, TypeOK
  <2> QED  BY <1>3, <2>1, <2>2 DEF Setup, TypeOK, handle, config, host
<1>4. CASE Verify
  <2>1. reach' \subseteq Hosts /\ ret' \in Fleet!Returns
    BY <1>0, <1>4, CommandType DEF Verify
  <2>2. pc' \in Steps /\ last' \in LastType
    BY <1>4, LeaveType DEF Verify, Outcomes
  <2> QED  BY <1>4, <2>1, <2>2 DEF Verify, TypeOK, LastType, config, host, Seen
<1>5. CASE Attach
  <2>1. reach' \subseteq Hosts /\ ret' \in Fleet!Returns
    BY <1>0, <1>5, CommandType DEF Attach
  <2>2. pc' \in Steps /\ last' \in LastType
    BY <1>5, LeaveType, FirstType DEF Attach, Outcomes, TypeOK, LastType
  <2>3. containerId' \in BOOLEAN
    BY <1>5 DEF Attach, TypeOK
  <2> QED  BY <1>5, <2>1, <2>2, <2>3 DEF Attach, TypeOK, LastType, config, host, Seen
<1>6. CASE TarCheck \/ Login \/ CheckImage
  <2>1. (reach' \subseteq Hosts /\ ret' \in Fleet!Returns) /\ images' = images
    BY <1>0, <1>6, CommandType DEF TarCheck, Login, CheckImage
  <2> QED  BY <1>0, <1>6, <2>1, PrepareType DEF TarCheck, Login, CheckImage, Steps
<1>7. CASE Load \/ Pull
  <2>1. PICK done \in SUBSET reach : Command(done) /\ images' \subseteq images \cup done
    BY <1>7 DEF Load, Pull
  <2>2. reach' \subseteq Hosts /\ ret' \in Fleet!Returns /\ images' \subseteq Hosts
    BY <1>0, <2>1, CommandType
  <2> QED  BY <1>7, <2>2, PrepareType DEF Load, Pull, Steps
<1>8. CASE RemoveStale
  <2>1. PICK done \in SUBSET reach : CommandOrTrue(done) /\ Removed(done)
    BY <1>8 DEF RemoveStale
  <2>2. reach' \subseteq Hosts /\ ret' \in Fleet!Returns /\ BoxesOK'
    BY <1>0, <2>1, CommandType, BoxType
  <2> QED  BY <1>8, <2>2 DEF RemoveStale, TypeOK, BoxesOK, Steps, config, history
<1>9. CASE Run
  <2>1. PICK done \in SUBSET (reach \cap Free) :
          /\ Command(done) /\ Started(done)
          /\ \E l \in SUBSET ((reach \cap Answered("abort")) \ done) : late' = late \cup l
    BY <1>9 DEF Run
  <2>2. /\ reach' \subseteq Hosts /\ ret' \in Fleet!Returns /\ BoxesOK'
        /\ late' \subseteq Hosts
    BY <1>0, <2>1, CommandType, BoxType DEF TypeOK
  <2>3. pc' \in Steps /\ last' \in LastType
    BY <1>9, LeaveType DEF Run, Outcomes, Steps, TypeOK, LastType
  <2> QED  BY <1>9, <2>2, <2>3 DEF Run, TypeOK, BoxesOK, LastType, config, history
<1>10. CASE Undo \/ TeardownRemove
  <2>1. PICK done \in SUBSET reach : CommandOrTrue(done) /\ Removed(done)
    BY <1>10 DEF Undo, TeardownRemove
  <2>2. reach' \subseteq Hosts /\ ret' \in Fleet!Returns /\ BoxesOK'
    BY <1>0, <2>1, CommandType, BoxType
  <2>3. pc' \in Steps /\ last' \in LastType
    BY <1>10, LeaveType DEF Undo, TeardownRemove, Outcomes
  <2> QED  BY <1>10, <2>2, <2>3
           DEF Undo, TeardownRemove, TypeOK, BoxesOK, LastType, config, history
<1>11. CASE Teardown \/ Exec
  <2>1. pc' \in Steps /\ last' \in LastType
    BY <1>11, LeaveType DEF Teardown, Exec, Outcomes, Steps, TypeOK, LastType
  <2>2. calls' \in 0..MaxCalls
    BY <1>11, ContainersAssumption, SMT DEF Teardown, Exec, TypeOK
  <2> QED  BY <1>11, <2>1, <2>2
           DEF Teardown, Exec, TypeOK, LastType, handle, config, host, history
<1>12. CASE DockerExec
  <2>1. reach' \subseteq Hosts /\ ret' \in Fleet!Returns
    BY <1>0, <1>12, CommandType DEF DockerExec
  <2>2. pc' \in Steps /\ last' \in LastType
    BY <1>12, LeaveType DEF DockerExec, Outcomes
  <2> QED  BY <1>12, <2>1, <2>2 DEF DockerExec, TypeOK, LastType, config, host, history
<1>13. ASSUME NEW h \in Hosts, LateRun(h) PROVE TypeOK'
  <2>1. BoxesOK'
    BY <1>0, <1>13, BoxType DEF LateRun, BoxesOK
  <2> QED  BY <1>13, <2>1 DEF LateRun, TypeOK, BoxesOK, handle, config, history
<1>14. ASSUME NEW h \in Hosts, NEW b \in Boxes, Meddle(h, b) PROVE TypeOK'
  <2>1. box' \in [Hosts -> Boxes]
    BY <1>0, <1>14 DEF Meddle, BoxesOK
  <2>2. \A g \in mine' : g \in Hosts /\ box'[g] # "none"
    BY <1>0, <1>14 DEF Meddle, BoxesOK
  <2>3. meddles' \in 0..MaxMeddle
    BY <1>14, ContainersAssumption, SMT DEF Meddle, TypeOK
  <2> QED  BY <1>14, <2>1, <2>2, <2>3 DEF Meddle, TypeOK, handle, config
<1>15. CASE UNCHANGED vars
  BY <1>15 DEF TypeOK, vars, handle, config, host, history
<1> QED  BY <1>1, <1>2, <1>3, <1>4, <1>5, <1>6, <1>7, <1>8, <1>9, <1>10, <1>11,
            <1>12, <1>13, <1>14, <1>15 DEF Next

\* Every variable of the orchestrator keeps its type.
THEOREM ContainersTypeOK == Spec => []TypeOK
  BY TypeInit, TypeNext, PTL DEF Spec

-----------------------------------------------------------------------------
(* The inductive invariant *)

\* container_id is set before anything is started and forgotten by a teardown
\* only; a launch under persistent begins where nothing was found running.
Launching == {"tarcheck", "load", "login", "check", "pull", "remove", "run", "undo"}
Owned == ~torn /\ mine \cup late # {} => containerId
LaunchKnown == pc \in Launching => containerId
TeardownIsPerRun == pc = "teardown" => torn /\ lifetime = "per_run"
NothingFound ==
  Noisy = {} /\ lifetime # "per_run" /\ pc \in Launching
    => \A h \in Hosts : found[h] # "running"
CtrInv == Owned /\ LaunchKnown /\ TeardownIsPerRun /\ NothingFound

LEMMA InvInit == Init => CtrInv
  BY DEF Init, CtrInv, Owned, LaunchKnown, TeardownIsPerRun, NothingFound, Launching

LEMMA FirstLaunches == FirstOf \in Launching
  BY DEF FirstOf, Launching

\* Steps that own nothing new and forget nothing.
LEMMA OwnedFrame ==
  ASSUME CtrInv, containerId' = containerId, torn' = torn, lifetime' = lifetime,
         found' = found, mine' \cup late' \subseteq mine \cup late,
         pc' \in Launching \cup {"teardown"}
           => pc' = pc \/ (pc \in Launching /\ pc' # "teardown")
  PROVE  CtrInv'
  BY DEF CtrInv, Owned, LaunchKnown, TeardownIsPerRun, NothingFound, Launching

LEMMA OwnedStutter ==
  ASSUME CtrInv, UNCHANGED <<containerId, torn, lifetime, found, pc>>,
         mine' \cup late' \subseteq mine \cup late
  PROVE  CtrInv'
  BY DEF CtrInv, Owned, LaunchKnown, TeardownIsPerRun, NothingFound

\* A probe that answers for every host and finds nothing running tells the truth
\* where stderr is quiet.
LEMMA ProbeIsTrue ==
  ASSUME Noisy = {}, ProbeFailed = {}, Running = {}
  PROVE  \A h \in Hosts : box[h] # "running"
  BY DEF ProbeFailed, Running

LEMMA InvNext == TypeOK /\ CtrInv /\ [Next]_vars => CtrInv'
<1> SUFFICES ASSUME TypeOK, CtrInv, [Next]_vars PROVE CtrInv'
  OBVIOUS
<1>0. SUFFICES ASSUME ~(UNCHANGED <<containerId, torn, lifetime, found, pc>>
                         /\ mine' \cup late' \subseteq mine \cup late)
               PROVE  CtrInv'
  BY OwnedStutter
<1>1. CASE SudoPrefix
  BY <1>0, <1>1 DEF SudoPrefix, config, host, history
<1>2. CASE ExecRaises
  <2>1. /\ pc' = "idle" /\ UNCHANGED <<containerId, late, torn, lifetime, found>>
        /\ mine' \subseteq mine \/ pc = "run"
    BY <1>2 DEF ExecRaises, Leave, Removed, Started, config, history
  <2> QED  BY <2>1 DEF CtrInv, Owned, LaunchKnown, TeardownIsPerRun, NothingFound,
                       Launching
<1>3. CASE Setup
  <2>1. lifetime \in {"no_launch", "per_run", "persistent"}
    BY ContainersAssumption DEF TypeOK
  <2>2. /\ UNCHANGED <<torn, mine, late, lifetime>>
        /\ containerId' = (containerId \/ lifetime = "per_run")
        /\ pc' \in Launching \cup {"teardown"} => lifetime = "per_run" /\ pc' # "teardown"
    BY <1>3, <2>1, FirstLaunches DEF Setup, host, config, Launching
  <2> QED  BY <2>2 DEF CtrInv, Owned, LaunchKnown, TeardownIsPerRun, NothingFound,
                       Launching
<1>4. CASE Verify
  <2>1. /\ pc' = "idle" /\ UNCHANGED <<mine, late, torn, lifetime>>
        /\ containerId => containerId'
    BY <1>4 DEF Verify, Leave, Seen, host, config
  <2> QED  BY <2>1 DEF CtrInv, Owned, LaunchKnown, TeardownIsPerRun, NothingFound,
                       Launching
<1>5. CASE Attach
  <2>1. /\ UNCHANGED <<mine, late, torn, lifetime>> /\ found' = box
        /\ containerId => containerId'
        /\ \/ pc' = "idle"
           \/ ProbeFailed = {} /\ Running = {} /\ containerId' /\ pc' \in Launching
    BY <1>5, FirstLaunches DEF Attach, Leave, Seen, host, config
  <2>2. NothingFound'
    <3> SUFFICES ASSUME Noisy = {}, pc' \in Launching
                 PROVE  \A h \in Hosts : box[h] # "running"
      BY <2>1 DEF NothingFound
    <3> QED  BY <2>1, ProbeIsTrue DEF Launching
  <2> QED  BY <2>1, <2>2 DEF CtrInv, Owned, LaunchKnown, TeardownIsPerRun, Launching
<1>6. CASE TarCheck \/ Load \/ Login \/ CheckImage \/ Pull
  <2>1. /\ UNCHANGED <<containerId, mine, late, torn, lifetime, found>>
        /\ pc \in Launching /\ pc' \in Launching \cup {"idle"}
    BY <1>6 DEF TarCheck, Load, Login, CheckImage, Pull, Prepare, Leave, Launching,
                config, history
  <2> QED  BY <2>1, OwnedFrame DEF Launching
<1>7. CASE RemoveStale \/ Undo
  <2>1. /\ UNCHANGED <<containerId, late, torn, lifetime, found>>
        /\ mine' \subseteq mine
        /\ pc \in Launching /\ pc' \in Launching \cup {"idle"}
    BY <1>7 DEF RemoveStale, Undo, Removed, Leave, Launching, config, history
  <2> QED  BY <2>1, OwnedFrame DEF Launching
<1>8. CASE Run
  <2>1. /\ UNCHANGED <<containerId, torn, lifetime, found>>
        /\ pc = "run" /\ pc' \in {"idle", "undo"}
    BY <1>8 DEF Run, Leave, config, history
  <2> QED  BY <2>1 DEF CtrInv, Owned, LaunchKnown, TeardownIsPerRun, NothingFound,
                       Launching
<1>9. CASE Teardown
  <2>1. /\ UNCHANGED <<containerId, lifetime>> /\ torn' /\ pc = "idle"
        /\ pc' = "idle" \/ (pc' = "teardown" /\ lifetime = "per_run")
    BY <1>9 DEF Teardown, Leave, config
  <2> QED  BY <2>1 DEF CtrInv, Owned, LaunchKnown, TeardownIsPerRun, NothingFound,
                       Launching
<1>10. CASE TeardownRemove
  <2>1. torn' /\ pc' = "idle"
    BY <1>10 DEF TeardownRemove, Leave, history, CtrInv, TeardownIsPerRun
  <2> QED  BY <2>1 DEF CtrInv, Owned, LaunchKnown, TeardownIsPerRun, NothingFound,
                       Launching
<1>11. CASE Exec \/ DockerExec
  <2>1. /\ UNCHANGED <<containerId, mine, late, torn, lifetime, found>>
        /\ pc' \in {"idle", "exec"}
    BY <1>11 DEF Exec, DockerExec, Leave, host, config, history
  <2> QED  BY <2>1, OwnedFrame DEF Launching
<1>12. ASSUME NEW h \in Hosts, LateRun(h) PROVE CtrInv'
  <2>1. mine' \cup late' \subseteq mine \cup late
    BY <1>12 DEF LateRun, Started
  <2> QED  BY <1>0, <1>12, <2>1 DEF LateRun, config, history
<1>13. ASSUME NEW h \in Hosts, NEW b \in Boxes, Meddle(h, b) PROVE CtrInv'
  <2>1. mine' \cup late' \subseteq mine \cup late /\ torn' = torn
    BY <1>13 DEF Meddle
  <2> QED  BY <1>0, <1>13, <2>1 DEF Meddle, config
<1>14. CASE UNCHANGED vars
  BY <1>0, <1>14 DEF vars, config, host, history
<1> QED  BY <1>1, <1>2, <1>3, <1>4, <1>5, <1>6, <1>7, <1>8, <1>9, <1>10, <1>11,
            <1>12, <1>13, <1>14 DEF Next

LEMMA Inductive == Spec => [](TypeOK /\ CtrInv)
<1>1. Init => TypeOK /\ CtrInv
  BY TypeInit, InvInit
<1>2. TypeOK /\ CtrInv /\ [Next]_vars => TypeOK' /\ CtrInv'
  BY TypeNext, InvNext
<1> QED  BY <1>1, <1>2, PTL DEF Spec

-----------------------------------------------------------------------------
(* What the orchestrator promises *)

\* Nothing setup_containers started, or may have, is forgotten before a teardown
\* is asked for (container_id in container.py).
THEOREM ContainersNothingForgotten == Spec => []NothingForgotten
<1>1. CtrInv => NothingForgotten
  BY DEF CtrInv, Owned, NothingForgotten
<1> QED  BY <1>1, Inductive, PTL

\* A step that ends a setup with True leaves the container running everywhere.
LEMMA SetupEnds ==
  ASSUME TypeOK, [Next]_vars, pc # "idle", pc' = "idle",
         last' = [op |-> "setup", result |-> "true"]
  PROVE  \A h \in Hosts : box'[h] = "running"
<1>1. CASE Verify
  <2>1. ProbeFailed = {} /\ Absent = {} /\ box' = box
    BY <1>1 DEF Verify, Leave, host
  <2> QED  BY <2>1 DEF ProbeFailed, Absent, Running
<1>2. CASE Attach
  <2>1. ProbeFailed = {} /\ Absent = {} /\ box' = box
    BY <1>2, FirstLaunches DEF Attach, Leave, host, Launching
  <2> QED  BY <2>1 DEF ProbeFailed, Absent, Running
<1>3. CASE Run
  <2>1. PICK done \in SUBSET (reach \cap Free) : Command(done) /\ Started(done)
    BY <1>3 DEF Run
  <2>2. AllOk
    BY <1>3 DEF Run, Leave
  <2>3. PICK lost \in SUBSET reach, ans \in [Hosts -> {"ok", "fail", "abort"}] :
          Fleet!Exec(lost, ans) /\ \A h \in Hosts : ans[h] = "ok" => h \in done
    BY <2>1 DEF Command
  <2>4. Hosts \subseteq done
    BY <2>2, <2>3 DEF AllOk, Answered, Fleet!Exec
  <2> QED  BY <2>1, <2>4 DEF Started
<1>4. ~(SudoPrefix \/ Setup \/ Teardown \/ Exec \/ RemoveStale)
  BY DEF SudoPrefix, Setup, Teardown, Exec, RemoveStale
<1>5. ~(ExecRaises \/ Undo \/ TeardownRemove \/ DockerExec)
  BY DEF ExecRaises, Undo, TeardownRemove, DockerExec, Leave
<1>6. ~(TarCheck \/ Load \/ Login \/ CheckImage \/ Pull)
  BY DEF TarCheck, Load, Login, CheckImage, Pull, Prepare, Leave
<1>7. ~ \E h \in Hosts : LateRun(h) \/ \E b \in Boxes : Meddle(h, b)
  BY DEF LateRun, Meddle
<1>8. ~ UNCHANGED vars
  BY DEF vars
<1> QED  BY <1>1, <1>2, <1>3, <1>4, <1>5, <1>6, <1>7, <1>8 DEF Next

\* setup_containers returns True only when the container runs on every host.
THEOREM ContainersSetupMeansAllRun == Spec => SetupMeansAllRun
<1>1. TypeOK /\ [Next]_vars
        => (pc # "idle" /\ pc' = "idle" /\ last' = [op |-> "setup", result |-> "true"]
              => \A h \in Hosts : box'[h] = "running")
  BY SetupEnds
<1> QED  BY <1>1, ContainersTypeOK, PTL DEF Spec, SetupMeansAllRun

\* The boxes a command may take away are gone only in a launch or a teardown.
LEMMA RunningStays ==
  ASSUME TypeOK, CtrInv, [Next]_vars, Noisy = {}, lifetime # "per_run",
         meddles' = meddles, NEW h \in Hosts, found[h] = "running", box[h] = "running"
  PROVE  box'[h] = "running"
<1>1. pc \notin Launching /\ pc # "teardown"
  BY DEF CtrInv, NothingFound, TeardownIsPerRun
<1>2. CASE ExecRaises
  BY <1>1, <1>2 DEF ExecRaises, Launching
<1>3. ~(TarCheck \/ Load \/ Login \/ CheckImage \/ Pull \/ RemoveStale \/ Run \/ Undo)
  BY <1>1 DEF TarCheck, Load, Login, CheckImage, Pull, Prepare, RemoveStale, Run,
              Undo, Launching
<1>4. ~TeardownRemove
  BY <1>1 DEF TeardownRemove
<1>5. ASSUME NEW g \in Hosts, LateRun(g) PROVE box'[h] = "running"
  BY <1>5 DEF LateRun, Started
<1>6. ASSUME NEW g \in Hosts, NEW b \in Boxes PROVE ~Meddle(g, b)
  BY DEF Meddle, TypeOK
<1>7. CASE SudoPrefix \/ Setup \/ Verify \/ Attach \/ Teardown \/ Exec \/ DockerExec
  BY <1>7 DEF SudoPrefix, Setup, Verify, Attach, Teardown, Exec, DockerExec, host
<1>8. CASE UNCHANGED vars
  BY <1>8 DEF vars, host
<1> QED  BY <1>2, <1>3, <1>4, <1>5, <1>6, <1>7, <1>8 DEF Next

\* Where no host writes to stderr, the orchestrator removes no container that ran
\* when the fleet was asked (the persistent branch of setup_containers).
THEOREM ContainersRunningKept == Noisy = {} => (Spec => RunningKept)
<1> SUFFICES ASSUME Noisy = {} PROVE Spec => RunningKept
  OBVIOUS
<1>1. TypeOK /\ CtrInv /\ [Next]_vars
        => (lifetime # "per_run" /\ meddles' = meddles =>
              \A h \in Hosts \ meddled :
                found[h] = "running" /\ box[h] = "running" => box'[h] = "running")
  BY RunningStays
<1> QED  BY <1>1, Inductive, PTL DEF Spec, RunningKept

-----------------------------------------------------------------------------
(* What the orchestrator asks of the handle *)

\* A command, with or without "|| true", is one call of the handle.
LEMMA CommandMaps ==
  ASSUME reach \subseteq Hosts, NEW done, Command(done) \/ CommandOrTrue(done)
  PROVE  Fleet!Next
<1>1. PICK lost \in SUBSET reach, ans \in [Hosts -> {"ok", "fail", "abort"}] :
        Fleet!Exec(lost, ans)
  BY DEF Command, CommandOrTrue
<1>2. lost \in SUBSET Hosts /\ ans \in [Hosts -> Fleet!Answer]
  BY <1>1 DEF Fleet!Answer
<1> QED  BY <1>1, <1>2 DEF Fleet!Next

LEMMA HandleNext == TypeOK /\ [Next]_vars => [Fleet!Next]_(Fleet!vars)
<1> SUFFICES ASSUME TypeOK, [Next]_vars PROVE [Fleet!Next]_(Fleet!vars)
  OBVIOUS
<1>0. reach \subseteq Hosts
  BY DEF TypeOK
<1>1. CASE SudoPrefix
  <2>1. PICK lost \in SUBSET reach, ans \in [Hosts -> {"text", "abort"}] :
          Fleet!Exec(lost, ans)
    BY <1>1 DEF SudoPrefix
  <2>2. lost \in SUBSET Hosts /\ ans \in [Hosts -> Fleet!Answer]
    BY <1>0, <2>1 DEF Fleet!Answer
  <2> QED  BY <2>1, <2>2 DEF Fleet!Next
<1>2. CASE ExecRaises
  BY <1>2 DEF ExecRaises, Fleet!Next
<1>3. CASE Verify \/ Attach \/ TarCheck \/ Load \/ Login \/ CheckImage \/ Pull
           \/ RemoveStale \/ Run \/ Undo \/ TeardownRemove \/ DockerExec
  <2>1. \E done : Command(done) \/ CommandOrTrue(done)
    BY <1>3 DEF Verify, Attach, TarCheck, Load, Login, CheckImage, Pull, RemoveStale,
                Run, Undo, TeardownRemove, DockerExec
  <2> QED  BY <1>0, <2>1, CommandMaps
<1>4. CASE Setup \/ Teardown \/ Exec
  BY <1>4 DEF Setup, Teardown, Exec, handle, Fleet!vars
<1>5. ASSUME NEW h \in Hosts, LateRun(h) \/ \E b \in Boxes : Meddle(h, b)
      PROVE  UNCHANGED Fleet!vars
  BY <1>5 DEF LateRun, Meddle, handle, Fleet!vars
<1>6. CASE UNCHANGED vars
  BY <1>6 DEF vars, handle, Fleet!vars
<1> QED  BY <1>1, <1>2, <1>3, <1>4, <1>5, <1>6 DEF Next

\* The orchestrator drives its handle only through the steps FleetExec allows: every
\* docker command of every operation is one call of the handle, and nothing else
\* touches it. ParallelHandleOneStep says that the handle implements those steps: what
\* the one module relies on is what the other keeps.
THEOREM ContainersUseFleet == Spec => Fleet!Spec
<1>1. Init => Fleet!Init
  BY DEF Init
<1>2. Spec => Fleet!Init /\ [][Fleet!Next]_(Fleet!vars)
  BY <1>1, HandleNext, ContainersTypeOK, PTL DEF Spec
<1> QED  BY <1>2 DEF Fleet!Spec
=============================================================================
