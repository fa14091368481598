----------------------------- MODULE AgentExec -----------------------------
(***************************************************************************)
(* POST /v1/exec and POST /v1/shutdown of one HTTP agent, the processes it  *)
(* spawns and the clients that wait for it.                                 *)
(*                                                                         *)
(* A request is the coroutine of its handler, cut where it awaits; the      *)
(* event loop runs one piece at a time.  A command is a shell in a process  *)
(* group of its own, with or without children that the shell leaves behind. *)
(* A client gives up when its read deadline passes; the handler goes on.    *)
(* Nothing is restarted: an agent lives as long as its run.                 *)
(***************************************************************************)

CONSTANTS
  Requests,  \* the exec requests that are ever sent
  Jobs       \* what they may ask for, and the children their shells leave

Modes == {"exit_code", "inline", "file"}
Limits == {"none", "timeout", "inactivity"}
\* pipe: keeps stdout and stderr open; daemon: redirected them away;
\* stubborn: as pipe, and ignores SIGTERM.
Children == {"none", "pipe", "daemon", "stubborn"}

\* _inactivity_timeout_requires_captured_output.
Valid(j) == j.limit = "inactivity" => j.mode # "exit_code"
AllJobs == {j \in [mode : Modes, limit : Limits, kids : Children] : Valid(j)}

ASSUME AgentExecAssumption == Jobs \subseteq AllJobs

VARIABLES
  alive,     \* the agent's process
  busy,      \* app.state.exec_busy
  registry,  \* process_registry
  pc,        \* where the handler of a request awaits
  job,       \* what a request asked for
  timedOut,  \* requests whose handler gave up on the command
  shell,     \* the shell of a command, or the exit code it left
  kids,      \* what else lives in its process group
  termed,    \* groups that were sent SIGTERM
  killed,    \* groups that were sent SIGKILL
  shut,      \* the shutdown handler
  ending,    \* how far its termination of a group has come
  got        \* what the client made of its request

agent == <<alive, busy, registry>>
procs == <<shell, kids, termed, killed>>
stop == <<shut, ending>>
vars == <<agent, pc, job, timedOut, procs, stop, got>>

-----------------------------------------------------------------------------
(* Types *)

\* Between its registration and its removal from the registry.
InProgress == {"running", "terminating", "killing", "reaping"}
Serving == {"spawning", "forked", "writing"} \cup InProgress
Points == {"new", "done"} \cup Serving
\* none: not in the shutdown's snapshot of the registry.
Phases == {"none", "pending", "waiting", "killing", "reaping"}
Exits == {"zero", "nonzero", "signal"}
\* lost: HTTPConnectionError; refused: 409; error: any other status;
\* timeout: the answer said timed_out, which becomes pssh's Timeout.
Outcomes == {"unsent", "waiting", "zero", "nonzero", "timeout", "refused",
             "error", "lost"}

TypeOK ==
  /\ alive \in BOOLEAN /\ busy \in BOOLEAN
  /\ registry \subseteq Requests
  /\ pc \in [Requests -> Points]
  /\ job \in [Requests -> AllJobs]
  /\ timedOut \subseteq Requests
  /\ shell \in [Requests -> {"none", "running"} \cup Exits]
  /\ kids \in [Requests -> Children]
  /\ termed \subseteq Requests /\ killed \subseteq Requests
  /\ shut \in {"no", "waiting", "exited"}
  /\ ending \in [Requests -> Phases]
  /\ got \in [Requests -> Outcomes]

NoJob == [mode |-> "inline", limit |-> "none", kids |-> "none"]

Init ==
  /\ alive = TRUE /\ busy = FALSE /\ registry = {}
  /\ pc = [r \in Requests |-> "new"]
  /\ job = [r \in Requests |-> NoJob]
  /\ timedOut = {}
  /\ shell = [r \in Requests |-> "none"]
  /\ kids = [r \in Requests |-> "none"]
  /\ termed = {} /\ killed = {}
  /\ shut = "no" /\ ending = [r \in Requests |-> "none"]
  /\ got = [r \in Requests |-> "unsent"]

-----------------------------------------------------------------------------
(* Requests *)

At(r, p) == alive /\ pc[r] = p
Go(r, p) == pc' = [pc EXCEPT ![r] = p]
\* A client that gave up hears nothing any more.
Tell(r, o) == got' = IF got[r] = "waiting" THEN [got EXCEPT ![r] = o] ELSE got

\* The first half of run_cmd: exec_busy is checked and set with no await between.
Post(r) ==
  /\ At(r, "new")
  /\ \E j \in Jobs : job' = [job EXCEPT ![r] = j]
  /\ IF busy
     THEN Go(r, "done") /\ got' = [got EXCEPT ![r] = "refused"] /\ UNCHANGED busy
     ELSE Go(r, "spawning") /\ got' = [got EXCEPT ![r] = "waiting"] /\ busy' = TRUE
  /\ UNCHANGED <<alive, registry, timedOut, procs, stop>>

\* The finally of run_cmd, and the answer.
Answer(r, o) ==
  /\ Go(r, "done")
  /\ busy' = FALSE
  /\ Tell(r, o)

\* Mutant: no finally around _run_cmd.
SpawnFails_StaysBusy(r) ==
  /\ At(r, "spawning")
  /\ Go(r, "done")
  /\ Tell(r, "error")
  /\ UNCHANGED <<agent, job, timedOut, procs, stop>>

\* create_subprocess_shell raises: no such directory, no more processes.
SpawnFails(r) ==
  /\ At(r, "spawning")
  /\ Answer(r, "error")
  /\ UNCHANGED <<alive, registry, job, timedOut, procs, stop>>

\* create_subprocess_shell forks, and awaits the pipes.
Fork(r) ==
  /\ At(r, "spawning")
  /\ Go(r, "forked")
  /\ shell' = [shell EXCEPT ![r] = "running"]
  /\ kids' = [kids EXCEPT ![r] = job[r].kids]
  /\ UNCHANGED <<agent, job, timedOut, termed, killed, stop, got>>

Register(r) ==
  /\ At(r, "forked")
  /\ Go(r, "running")
  /\ registry' = registry \cup {r}
  /\ UNCHANGED <<alive, busy, job, timedOut, procs, stop, got>>

-----------------------------------------------------------------------------
(* Processes *)

\* A shell ends by itself, or because a signal reached it that it did not trap.
ShellExits(r) ==
  /\ shell[r] = "running"
  /\ \E e \in Exits : shell' = [shell EXCEPT ![r] = e]
  /\ UNCHANGED <<agent, pc, job, timedOut, kids, termed, killed, stop, got>>

ChildrenExit(r) ==
  /\ kids[r] # "none"
  /\ kids' = [kids EXCEPT ![r] = "none"]
  /\ UNCHANGED <<agent, pc, job, timedOut, shell, termed, killed, stop, got>>

\* Somebody lives in the group of r: otherwise killpg is a ProcessLookupError.
Inhabited(r) == shell[r] = "running" \/ kids[r] # "none"

SigTerm(r) ==
  /\ termed' = IF Inhabited(r) THEN termed \cup {r} ELSE termed
  /\ kids' = IF kids[r] = "stubborn" THEN kids ELSE [kids EXCEPT ![r] = "none"]

SigKill(r) ==
  /\ killed' = IF Inhabited(r) THEN killed \cup {r} ELSE killed
  /\ kids' = [kids EXCEPT ![r] = "none"]

\* Mutant: a shutdown does not go on to SIGKILL.
GraceOver_NotAtShutdown(r) ==
  /\ alive /\ shell[r] = "running"
  /\ pc[r] = "terminating" /\ Go(r, "killing")
  /\ UNCHANGED <<agent, job, timedOut, procs, stop, got>>

\* The grace period is over and the shell has not ended: for the handler that is past
\* its deadline, or for the shutdown.
GraceOver(r) ==
  /\ alive /\ shell[r] = "running"
  /\ \/ pc[r] = "terminating" /\ Go(r, "killing") /\ UNCHANGED ending
     \/ /\ ending[r] = "waiting" /\ ending' = [ending EXCEPT ![r] = "killing"]
        /\ UNCHANGED pc
  /\ UNCHANGED <<agent, job, timedOut, procs, shut, got>>

\* SIGKILL, a turn of the loop later: the shell may have ended meanwhile.
Kill(r) ==
  /\ alive
  /\ \/ pc[r] = "killing" /\ Go(r, "reaping") /\ UNCHANGED ending
     \/ /\ ending[r] = "killing" /\ ending' = [ending EXCEPT ![r] = "reaping"]
        /\ UNCHANGED pc
  /\ SigKill(r)
  /\ UNCHANGED <<agent, job, timedOut, shell, termed, shut, got>>

\* The kernel is done with a killed shell, which may take it a while.
Reaped(r) ==
  /\ r \in killed /\ shell[r] = "running"
  /\ shell' = [shell EXCEPT ![r] = "signal"]
  /\ UNCHANGED <<agent, pc, job, timedOut, kids, termed, killed, stop, got>>

-----------------------------------------------------------------------------
(* The end of a command *)

\* The wait is over: the shell, and where output is captured both streams.
Finished(r) ==
  /\ shell[r] \in Exits
  /\ job[r].mode = "exit_code" \/ kids[r] \in {"none", "daemon"}

\* Mutant: the deadline is armed for the shell alone.
DeadlinePasses_ShellOnly(r) ==
  /\ At(r, "running") /\ job[r].limit # "none" /\ shell[r] = "running"
  /\ Go(r, "terminating")
  /\ timedOut' = timedOut \cup {r}
  /\ SigTerm(r)
  /\ UNCHANGED <<agent, job, shell, killed, stop, got>>

\* timeout or inactivity_timeout: it may pass at the moment the command ends.
DeadlinePasses(r) ==
  /\ At(r, "running") /\ job[r].limit # "none"
  /\ Go(r, "terminating")
  /\ timedOut' = timedOut \cup {r}
  /\ SigTerm(r)
  /\ UNCHANGED <<agent, job, shell, killed, stop, got>>

\* Mutant: a signal's number is handed on as the outcome.
Told_Signal(r) == IF r \in timedOut THEN "timeout" ELSE shell[r]

\* Mutant: timed_out stays out of band.
Told_ExitCodeOnly(r) == IF shell[r] = "zero" THEN "zero" ELSE "nonzero"

\* What the client makes of an ExecResponse.
Told(r) ==
  IF r \in timedOut THEN "timeout"
  ELSE IF shell[r] = "zero" THEN "zero" ELSE "nonzero"

\* The handler is done with the process; FILE mode has its output to write.
Respond(r) ==
  IF job[r].mode = "file"
  THEN Go(r, "writing") /\ UNCHANGED <<busy, got>>
  ELSE Answer(r, Told(r))

\* Mutant: a command that is over its deadline is left to die.
Collect_NoWait(r) ==
  /\ \/ At(r, "running") /\ Finished(r)
     \/ At(r, "terminating") \/ At(r, "reaping")
  /\ registry' = registry \ {r}
  /\ Respond(r)
  /\ UNCHANGED <<alive, job, timedOut, procs, stop>>

\* Mutant: only a command that was over its deadline is unregistered.
Collect_StaysRegistered(r) ==
  /\ \/ At(r, "running") /\ Finished(r)
     \/ (At(r, "terminating") \/ At(r, "reaping")) /\ shell[r] \in Exits
  /\ registry' = IF r \in timedOut THEN registry \ {r} ELSE registry
  /\ Respond(r)
  /\ UNCHANGED <<alive, job, timedOut, procs, stop>>

\* _run_cmd from the end of its wait to its return.
Collect(r) ==
  /\ \/ At(r, "running") /\ Finished(r)
     \/ (At(r, "terminating") \/ At(r, "reaping")) /\ shell[r] \in Exits
  /\ registry' = registry \ {r}
  /\ Respond(r)
  /\ UNCHANGED <<alive, job, timedOut, procs, stop>>

\* FILE mode: the output is on the shared file system, or could not be put there.
Written(r) ==
  /\ At(r, "writing")
  /\ Answer(r, Told(r)) \/ Answer(r, "error")
  /\ UNCHANGED <<alive, registry, job, timedOut, procs, stop>>

\* The read deadline passes: it allows for the timeout, the grace period and a
\* second more, so only a process the kernel cannot end or a slow file system is late.
ReadTimeout(r) ==
  /\ got[r] = "waiting" /\ job[r].limit = "timeout"
  /\ pc[r] \in {"writing", "reaping"}
  /\ Tell(r, "lost")
  /\ UNCHANGED <<agent, pc, job, timedOut, procs, stop>>

-----------------------------------------------------------------------------
(* The end of the agent *)

\* run_shutdown takes its snapshot; gather schedules one termination for each entry.
Shutdown ==
  /\ alive /\ shut = "no"
  /\ shut' = "waiting"
  /\ ending' = [r \in Requests |-> IF r \in registry THEN "pending" ELSE "none"]
  /\ UNCHANGED <<agent, pc, job, timedOut, procs, got>>

\* A termination of the snapshot runs, in a later turn of the loop: the handler of
\* the command may have returned in between.
Terminate(r) ==
  /\ alive /\ ending[r] = "pending"
  /\ ending' = [ending EXCEPT ![r] = "waiting"]
  /\ SigTerm(r)
  /\ UNCHANGED <<agent, pc, job, timedOut, shell, killed, shut, got>>

\* The process ends where it stands; the groups have sessions of their own.
AgentEnds ==
  /\ alive' = FALSE /\ busy' = FALSE /\ registry' = {}
  /\ pc' = [r \in Requests |-> IF pc[r] \in Serving THEN "done" ELSE pc[r]]
  /\ got' = [r \in Requests |-> IF got[r] = "waiting" THEN "lost" ELSE got[r]]
  /\ UNCHANGED <<job, timedOut, procs, ending>>

\* Every termination is over, its shell having ended or left nobody to signal: SIGTERM
\* to the agent itself, which ends it at once, since uvicorn runs outside the main thread.
ShutdownEnds ==
  /\ alive /\ shut = "waiting"
  /\ \A r \in Requests :
       ending[r] = "none" \/ (ending[r] \in {"waiting", "reaping"} /\ shell[r] # "running")
  /\ shut' = "exited"
  /\ AgentEnds

\* stop() of a finished run, which waits five seconds at most, or a crash.
Gone == alive /\ AgentEnds /\ UNCHANGED shut

-----------------------------------------------------------------------------
(* The specification *)

\* What the agent does for a request, and to its command.
Handler(r) ==
  \/ SpawnFails(r) \/ Fork(r) \/ Register(r) \/ DeadlinePasses(r)
  \/ GraceOver(r) \/ Kill(r) \/ Collect(r) \/ Written(r) \/ Terminate(r)

Next ==
  \/ \E r \in Requests :
       \/ Post(r) \/ Handler(r) \/ ReadTimeout(r)
       \/ ShellExits(r) \/ ChildrenExit(r) \/ Reaped(r)
  \/ Shutdown \/ ShutdownEnds \/ Gone

Spec == Init /\ [][Next]_vars

\* The event loop runs every coroutine that can go on, a timeout passes, and the
\* kernel ends what was killed.  Nothing makes a command end by itself, and one that
\* writes something now and then never meets an inactivity timeout.
Fairness ==
  /\ \A r \in Requests :
       /\ WF_vars(SpawnFails(r) \/ Fork(r)) /\ WF_vars(Register(r))
       /\ WF_vars(job[r].limit = "timeout" /\ DeadlinePasses(r))
       /\ WF_vars(Terminate(r)) /\ WF_vars(GraceOver(r)) /\ WF_vars(Kill(r))
       /\ WF_vars(Reaped(r))
       /\ WF_vars(Collect(r)) /\ WF_vars(Written(r))
  /\ WF_vars(ShutdownEnds)

LiveSpec == Spec /\ Fairness

-----------------------------------------------------------------------------
(* Properties *)

\* The agent never runs two commands at once: whatever order requests, deadlines,
\* kills and a shutdown come in, at most one shell it started is running (exec_busy
\* is given back only after the process was waited for).
OneCommand ==
  \A r, s \in Requests : shell[r] = "running" /\ shell[s] = "running" => r = s

\* What a client is told is what happened: an exit code is the one its shell left
\* within its limits, and no shell is left running behind an answer.
ToldTheTruth ==
  \A r \in Requests :
    /\ got[r] \in {"zero", "nonzero"} => r \notin timedOut
    /\ got[r] = "zero" => shell[r] = "zero"
    /\ got[r] = "nonzero" => shell[r] \in Exits \ {"zero"}
    /\ got[r] = "timeout" => shell[r] \in Exits /\ job[r].limit # "none"
    /\ got[r] = "error" => shell[r] # "running"

\* A request is refused with 409 only while another one is really being served:
\* exec_busy never outlives its handler, however that ended.
RefusedOnlyWhenServing ==
  [][\A r \in Requests : got[r] = "unsent" /\ got'[r] = "refused"
       => \E s \in Requests \ {r} : pc[s] \in Serving]_vars

\* OneSlotServer: seen from its clients the agent is the one-command server of module
\* CommandSlot: it refuses only while it serves, answers each request once and only
\* when the command is over, and starts no command beside another.  Registration,
\* deadlines, signals, the registry and the terminations of a shutdown do not show.
Stage(r) ==
  IF pc[r] = "new" THEN "unsent" ELSE IF pc[r] \in Serving THEN "served" ELSE "over"
Heard(r) == IF got[r] \in {"unsent", "waiting"} THEN "nothing" ELSE got[r]

Slot == INSTANCE CommandSlot WITH
  up <- alive, command <- shell,
  stage <- [r \in Requests |-> Stage(r)],
  heard <- [r \in Requests |-> Heard(r)]
OneSlotServer == Slot!Spec

\* A command whose handler has returned is left alone, with what it put into the
\* background: no deadline signals its group and no shutdown that is asked for later.
\* A shutdown signals what its snapshot holds, which was in progress when it was
\* taken; that one's handler may return before the signal is sent.
SignalsTheCurrent ==
  [][\A r \in Requests :
       /\ ending[r] = "none" /\ ending'[r] # "none" => pc[r] \in InProgress
       /\ r \in (termed' \ termed) \cup (killed' \ killed)
            => pc[r] \in InProgress \/ ending[r] # "none"]_vars

\* A command with a timeout is over at some time, whatever it leaves behind: the
\* handler answers even when a child holds the pipes or ignores SIGTERM.
ExecEnds ==
  \A r \in Requests :
    (pc[r] \in Serving /\ job[r].limit = "timeout") ~> (pc[r] = "done")

\* A shutdown that was asked for ends the agent, also when a shell ignores SIGTERM.
ShutdownCompletes == (shut = "waiting") ~> ~alive

=============================================================================
