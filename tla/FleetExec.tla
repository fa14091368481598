----------------------------- MODULE FleetExec -----------------------------
(***************************************************************************)
(* What a parallel handle promises its callers: a call to exec or           *)
(* exec_cmd_list, once begun, is one step that answers for the whole fleet. *)
(*                                                                         *)
(* A handle only ever forgets hosts.  A host it still knew when the call    *)
(* began gets an answer; one that the call gave up on is answered "abort";  *)
(* one given up on earlier is answered "abort" again when the handle works  *)
(* in one process, and is missing from the dictionary when the work is      *)
(* sharded over worker processes.  ParallelHandle implements this module.   *)
(***************************************************************************)
EXTENDS Naturals, FiniteSets

CONSTANT
  Hosts      \* the inventory the handle was built with

VARIABLES
  sharded,   \* the work is sharded over worker processes
  reach,     \* reachable_hosts
  ret        \* what the last call gave its caller

vars == <<sharded, reach, ret>>

\* ok, fail: exit code zero, not zero; text: output without an exit code;
\* abort: exit code -1, an exception or an ABORT line; absent: no entry.
Answer == {"ok", "fail", "text", "abort", "absent"}
Nothing == [h \in Hosts |-> "absent"]
Returns == [kind : {"none", "raise", "dict"}, ans : [Hosts -> Answer]]

\* The dictionaries a call may return when it gives up on the hosts in lost.
Dict(lost, ans) ==
  \A h \in Hosts :
    CASE h \in lost            -> ans[h] = "abort"
      [] h \in reach \ lost    -> ans[h] # "absent"
      [] OTHER                 -> ans[h] = IF sharded THEN "absent" ELSE "abort"

Init ==
  /\ sharded \in BOOLEAN
  /\ reach = Hosts
  /\ ret = [kind |-> "none", ans |-> Nothing]

\* A call begins: the caller has no answer until it ends.
Call ==
  /\ ret' = [kind |-> "none", ans |-> Nothing]
  /\ UNCHANGED reach

\* The call returns.
Exec(lost, ans) ==
  /\ lost \subseteq reach
  /\ Dict(lost, ans)
  /\ reach' = reach \ lost
  /\ ret' = [kind |-> "dict", ans |-> ans]

\* The call raises; a caller learns nothing of what was done.
Raise(lost) ==
  /\ lost \subseteq reach
  /\ reach' = reach \ lost
  /\ ret' = [kind |-> "raise", ans |-> Nothing]

\* prune_nodes.
Prune(dead) ==
  /\ reach' = reach \ dead
  /\ UNCHANGED ret

\* How a handle works is settled when it is built.
Next ==
  /\ UNCHANGED sharded
  /\ \/ Call
     \/ \E lost \in SUBSET Hosts, ans \in [Hosts -> Answer] : Exec(lost, ans)
     \/ \E lost \in SUBSET Hosts : Raise(lost) \/ Prune(lost)

Spec == Init /\ [][Next]_vars
=============================================================================
