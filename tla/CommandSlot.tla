---------------------------- MODULE CommandSlot ----------------------------
(***************************************************************************)
(* What an HTTP agent promises the clients of /v1/exec: one command at a     *)
(* time, and one answer to every request.                                   *)
(*                                                                         *)
(* A request is refused for no other reason than that another one is being    *)
(* served.  One that is served may run its command, and is answered only when *)
(* that command is over, with what became of it or with an error; its client  *)
(* may have given up before.  An agent that ends leaves the command it was    *)
(* running to itself, takes no more requests, and the client it was serving   *)
(* hears nothing.  AgentExec implements this module.                         *)
(***************************************************************************)

CONSTANT
  Requests   \* the exec requests that are ever sent

VARIABLES
  up,        \* the agent runs
  stage,     \* how far each request has come
  command,   \* its command, or the exit it left
  heard      \* what its client was told

vars == <<up, stage, command, heard>>

Exits == {"zero", "nonzero", "signal"}

\* A command that was cut short by its deadline is reported as a timeout; a number
\* other than zero stands for an exit code as well as for a signal.
TruthOf(c) ==
  {"error"} \cup (IF c = "none" THEN {}
                  ELSE {"timeout", IF c = "zero" THEN "zero" ELSE "nonzero"})

Init ==
  /\ up = TRUE
  /\ stage = [r \in Requests |-> "unsent"]
  /\ command = [r \in Requests |-> "none"]
  /\ heard = [r \in Requests |-> "nothing"]

Free == \A s \in Requests : stage[s] # "served"

Accept(r) ==
  /\ up /\ stage[r] = "unsent" /\ Free
  /\ stage' = [stage EXCEPT ![r] = "served"]
  /\ UNCHANGED <<up, command, heard>>

Refuse(r) ==
  /\ up /\ stage[r] = "unsent" /\ ~Free
  /\ stage' = [stage EXCEPT ![r] = "over"]
  /\ heard' = [heard EXCEPT ![r] = "refused"]
  /\ UNCHANGED <<up, command>>

\* A command starts once, and no other is running then.
Run(r) ==
  /\ up /\ stage[r] = "served" /\ command[r] = "none"
  /\ \A s \in Requests : command[s] # "running"
  /\ command' = [command EXCEPT ![r] = "running"]
  /\ UNCHANGED <<up, stage, heard>>

\* It ends when it likes to or has to, whether or not its agent still runs.
Exit(r) ==
  /\ command[r] = "running"
  /\ \E e \in Exits : command' = [command EXCEPT ![r] = e]
  /\ UNCHANGED <<up, stage, heard>>

\* The answer, which a client that gave up does not hear.
Finish(r) ==
  /\ up /\ stage[r] = "served" /\ command[r] # "running"
  /\ stage' = [stage EXCEPT ![r] = "over"]
  /\ IF heard[r] = "nothing"
     THEN \E t \in TruthOf(command[r]) : heard' = [heard EXCEPT ![r] = t]
     ELSE UNCHANGED heard
  /\ UNCHANGED <<up, command>>

GiveUp(r) ==
  /\ up /\ stage[r] = "served" /\ heard[r] = "nothing"
  /\ heard' = [heard EXCEPT ![r] = "lost"]
  /\ UNCHANGED <<up, stage, command>>

Down ==
  /\ up /\ up' = FALSE
  /\ stage' = [r \in Requests |-> IF stage[r] = "served" THEN "over" ELSE stage[r]]
  /\ heard' = [r \in Requests |-> IF stage[r] = "served" /\ heard[r] = "nothing"
                                  THEN "lost" ELSE heard[r]]
  /\ UNCHANGED command

Next ==
  \/ \E r \in Requests :
       Accept(r) \/ Refuse(r) \/ Run(r) \/ Exit(r) \/ Finish(r) \/ GiveUp(r)
  \/ Down

Spec == Init /\ [][Next]_vars
=============================================================================
