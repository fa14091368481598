--------------------------- MODULE ParallelHandle ---------------------------
(***************************************************************************)
(* The parallel handle over SSH: MultiProcessParallelHandle, the worker     *)
(* processes of ParallelHandleSharder and the ParallelHandle that does the  *)
(* work, with stop_on_errors = False as the orchestrators build it.         *)
(*                                                                         *)
(* A call starts its command on every host the handle still knows.  The     *)
(* hosts form one part, or one part per worker process when sharded.  Each  *)
(* part connects all its hosts, reads the streams one host after the other  *)
(* in inventory order, checks the connectivity of the hosts that failed,    *)
(* and forgets those that fail again; the parent merges the parts when      *)
(* every worker has ended.  Nodes go down and come back at any time.        *)
(*                                                                         *)
(* A command is named by the host it was written for.  A list of hosts is a *)
(* set here, as all of them keep the order of the inventory.                *)
(***************************************************************************)
EXTENDS Naturals, Sequences, FiniteSets

CONSTANTS
  N,           \* length of host_list
  ShardSizes,  \* values of ParallelConfig.hosts_per_shard to consider
  Modes        \* arguments of exec: detailed, print_console, timeout given

ASSUME ParallelHandleAssumption ==
  /\ N \in Nat \ {0} /\ ShardSizes \subseteq Nat
  /\ Modes \subseteq [detailed : BOOLEAN, console : BOOLEAN, timeout : BOOLEAN]

VARIABLES
  hostsPerShard,  \* of this handle; 0 disables sharding
  up,        \* hosts that answer a connectivity check
  reach,     \* reachable_hosts
  unreach,   \* unreachable_hosts
  call,      \* the call in progress, or the last one
  parts,     \* the chunks of hosts the call works on
  stage,     \* how far each part is
  bad,       \* what a part's connectivity check found
  cmd,       \* the command a host was given in this call; 0: none
  fate,      \* what became of that command on the host
  exc,       \* item.exception
  out,       \* cmd_output of the part the host belongs to
  ret,       \* what the last call gave its caller
  down       \* hosts seen down since the call began (history)

handle == <<hostsPerShard, reach, unreach>>
items == <<cmd, fate, exc, out>>
vars == <<up, handle, call, parts, stage, bad, items, ret, down>>

-----------------------------------------------------------------------------
(* Types *)

Hosts == 1..N
\* use_mp.
sharded == hostsPerShard > 0 /\ N > hostsPerShard

Fleet == INSTANCE FleetExec

Calls == [op : {"exec", "list"}, busy : BOOLEAN, detailed : BOOLEAN,
          console : BOOLEAN, timeout : BOOLEAN]
Stages == {"connect", "read", "prune", "done", "raised"}
\* cut: the stream ended and no exit code was ever seen.
Fates == {"none", "running", "zero", "nonzero", "cut"}
\* conn: ConnectionError or SessionError; other: not a pruning candidate.
Excs == {"none", "conn", "other", "timeout"}
\* prune_exception_types.
PruneTypes == {"conn", "timeout"}

TypeOK ==
  /\ hostsPerShard \in ShardSizes
  /\ up \subseteq Hosts /\ reach \subseteq Hosts /\ unreach \subseteq Hosts
  /\ call \in Calls
  /\ parts \subseteq SUBSET Hosts
  /\ stage \in [parts -> Stages]
  /\ bad \in [parts -> SUBSET Hosts]
  /\ cmd \in [Hosts -> 0..N]
  /\ fate \in [Hosts -> Fates]
  /\ exc \in [Hosts -> Excs]
  /\ out \in [Hosts -> Fleet!Answer]
  /\ ret \in Fleet!Returns
  /\ down \subseteq Hosts

\* What is left of a call when none is in progress.
Idle == [op |-> "exec", busy |-> FALSE, detailed |-> FALSE,
         console |-> FALSE, timeout |-> FALSE]

Init ==
  /\ up \in SUBSET Hosts
  /\ hostsPerShard \in ShardSizes
  /\ reach = Hosts /\ unreach = {}
  /\ call = Idle
  /\ parts = {}
  /\ stage = [S \in {} |-> "done"] /\ bad = [S \in {} |-> {}]
  /\ cmd = [h \in Hosts |-> 0]
  /\ fate = [h \in Hosts |-> "none"]
  /\ exc = [h \in Hosts |-> "none"]
  /\ out = Fleet!Nothing
  /\ ret = [kind |-> "none", ans |-> Fleet!Nothing]
  /\ down = {}

-----------------------------------------------------------------------------
(* Starting a call *)

\* The locals of a call, as they begin and as they end.
NoParts == parts' = {} /\ stage' = [S \in {} |-> "done"] /\ bad' = [S \in {} |-> {}]
Fresh ==
  /\ fate' = [h \in Hosts |-> "none"]
  /\ exc' = [h \in Hosts |-> "none"]
  /\ out' = Fleet!Nothing

\* Where h stands in the list of the hosts S, from 1; that list.
Position(h, S) == Cardinality({g \in S : g <= h})
InOrder(S) == [k \in 1..Cardinality(S) |-> CHOOSE h \in S : Position(h, S) = k]
Rank(h) == Position(h, reach)

\* chunk_hosts; a handle without shards is one part.
ChunkOf(h) == {g \in reach : (Rank(g) - 1) \div hostsPerShard
                                = (Rank(h) - 1) \div hostsPerShard}
Chunks == IF sharded THEN {ChunkOf(h) : h \in reach} ELSE {reach}

Begin(c, assigned) ==
  /\ call' = [c EXCEPT !.busy = TRUE]
  /\ parts' = Chunks
  /\ stage' = [S \in Chunks |-> "connect"]
  /\ bad' = [S \in Chunks |-> {}]
  /\ cmd' = assigned
  /\ Fresh
  /\ ret' = [kind |-> "none", ans |-> Fleet!Nothing]
  /\ down' = Hosts \ up
  /\ UNCHANGED <<up, handle>>

\* exec: the same command everywhere.
Exec(m) ==
  /\ ~call.busy
  /\ Begin([op |-> "exec", busy |-> TRUE, detailed |-> m.detailed,
            console |-> m.console, timeout |-> m.timeout],
           [h \in Hosts |-> IF h \in reach THEN h ELSE 0])

\* zip: the k-th of the hosts S gets the k-th of the list.  parallel-ssh pairs its
\* host_args with the hosts of the client in the same way, and ignores what is left over.
Zip(S, list) == [h \in S |-> list[Position(h, S)]]

\* Mutant: the list is cut into slices as the caller wrote it.
Filtered_AsWritten(list) == list

\* command_by_host, and from it filtered_commands, one for each reachable host.
Filtered(list) ==
  LET cmdHosts == IF Len(list) = N THEN Hosts ELSE reach
      commandByHost == Zip(cmdHosts, list)
  IN [k \in 1..Cardinality(reach) |-> commandByHost[InOrder(reach)[k]]]

\* shard_commands of the chunk S: offset counts the hosts of the chunks before it.
ShardCommands(list, S) ==
  LET offset == Cardinality({g \in reach : \A h \in S : g < h})
  IN SubSeq(Filtered(list), offset + 1, offset + Cardinality(S))

\* What each host is given to run.  When sharded, a worker gets one chunk of the hosts
\* and its slice of the commands; otherwise parallel-ssh gets the list as it is.
Assigned(list) ==
  [h \in Hosts |->
     IF h \notin reach THEN 0
     ELSE IF sharded THEN Zip(ChunkOf(h), ShardCommands(list, ChunkOf(h)))[h]
     ELSE Zip(reach, list)[h]]

\* The sharded handle takes lists of these lengths.
Accepted(list) == sharded => Len(list) \in {N, Cardinality(reach)}

\* exec_cmd_list for a list that was written for the whole inventory or for the hosts
\* that were reachable when the caller looked, now or earlier.
ExecCmdList(written, timeout) ==
  /\ ~call.busy
  /\ reach \subseteq written /\ Accepted(InOrder(written))
  /\ Begin([op |-> "list", busy |-> TRUE, detailed |-> FALSE,
            console |-> TRUE, timeout |-> timeout],
           Assigned(InOrder(written)))

\* Any other list is a ValueError.
RefuseCmdList(written) ==
  /\ ~call.busy
  /\ reach \subseteq written /\ ~Accepted(InOrder(written))
  /\ ret' = [kind |-> "raise", ans |-> Fleet!Nothing]
  /\ UNCHANGED <<up, handle, call, parts, stage, bad, items, down>>

-----------------------------------------------------------------------------
(* One part of the call *)

InPart(S, s) == S \in parts /\ stage[S] = s

\* parallel-ssh connects to the host and starts the command, or keeps the
\* exception.  A node that is up may still refuse the login.
Connect(S, h) ==
  /\ InPart(S, "connect")
  /\ h \in S /\ fate[h] = "none" /\ exc[h] = "none"
  /\ \/ h \in up /\ fate' = [fate EXCEPT ![h] = "running"] /\ UNCHANGED exc
     \/ \E e \in IF h \in up THEN {"other"} ELSE {"conn"} :
          exc' = [exc EXCEPT ![h] = e] /\ UNCHANGED fate
  /\ UNCHANGED <<up, handle, call, parts, stage, bad, cmd, out, ret, down>>

\* Mutant: the failed connections are not counted.
Connected_AllStarted(S) ==
  /\ InPart(S, "connect")
  /\ \A h \in S : fate[h] # "none"
  /\ stage' = [stage EXCEPT ![S] = "read"]
  /\ UNCHANGED <<up, handle, call, parts, bad, items, ret, down>>

\* run_command has joined every connection attempt.
Connected(S) ==
  /\ InPart(S, "connect")
  /\ \A h \in S : fate[h] # "none" \/ exc[h] # "none"
  /\ stage' = [stage EXCEPT ![S] = "read"]
  /\ UNCHANGED <<up, handle, call, parts, bad, items, ret, down>>

Unread(S) == {h \in S : out[h] = "absent"}
\* The loop takes the hosts in inventory order.
Turn(S, h) ==
  InPart(S, "read") /\ h \in Unread(S) /\ \A g \in Unread(S) : h <= g

\* Mutants: an exit code of None stays None, or passes for zero.
Ended_NoneKept(f) ==
  IF ~call.detailed THEN "text"
  ELSE CASE f = "zero" -> "ok" [] f = "nonzero" -> "fail" [] OTHER -> "none"
Ended_NoneIsZero(f) ==
  IF ~call.detailed THEN "text" ELSE IF f = "nonzero" THEN "fail" ELSE "ok"

\* The exit code the loop records when no exception is set.
Ended(f) ==
  IF ~call.detailed THEN "text"
  ELSE CASE f = "zero" -> "ok" [] f = "nonzero" -> "fail" [] OTHER -> "abort"

\* The loop body of _process_output for an item whose streams ended.
ReadItem(S, h) ==
  /\ Turn(S, h)
  /\ exc[h] = "none" => fate[h] \in {"zero", "nonzero", "cut"}
  /\ out' = [out EXCEPT ![h] = IF exc[h] # "none" THEN "abort" ELSE Ended(fate[h])]
  /\ UNCHANGED <<up, handle, call, parts, stage, bad, cmd, fate, exc, ret, down>>

\* The read times out, and _handle_timeout_exception sets the exception on
\* every item of the part that has none, the ones read before included.
ReadTimeout(S, h) ==
  /\ Turn(S, h)
  /\ call.timeout /\ fate[h] = "running" /\ exc[h] = "none"
  /\ exc' = [g \in Hosts |-> IF g \in S /\ exc[g] = "none" THEN "timeout" ELSE exc[g]]
  /\ out' = [out EXCEPT ![h] = "abort"]
  /\ UNCHANGED <<up, handle, call, parts, stage, bad, cmd, fate, ret, down>>

\* Anything but a Timeout leaves _process_output as it is.
ReadRaises(S) ==
  /\ InPart(S, "read") /\ Unread(S) # {}
  /\ stage' = [stage EXCEPT ![S] = "raised"]
  /\ UNCHANGED <<up, handle, call, parts, bad, items, ret, down>>

\* Mutant: the exception alone decides.
Check_NoProbe(S) ==
  /\ InPart(S, "read") /\ Unread(S) = {}
  /\ bad' = [bad EXCEPT ![S] = {h \in S : exc[h] \in PruneTypes}]
  /\ stage' = [stage EXCEPT ![S] = "prune"]
  /\ UNCHANGED <<up, handle, call, parts, items, ret, down>>

\* prune_unreachable_hosts: the candidates are tried once more.
Check(S) ==
  /\ InPart(S, "read") /\ Unread(S) = {}
  /\ bad' = [bad EXCEPT ![S] = {h \in S : exc[h] \in PruneTypes /\ h \notin up}]
  /\ stage' = [stage EXCEPT ![S] = "prune"]
  /\ UNCHANGED <<up, handle, call, parts, items, ret, down>>

\* Mutant: the output of a forgotten host stays as it was read.
PruneFailed_NotInformed(S) ==
  /\ InPart(S, "prune")
  /\ stage' = [stage EXCEPT ![S] = "done"]
  /\ UNCHANGED <<up, handle, call, parts, bad, items, ret, down>>

\* prune_nodes and inform_unreachability.
PruneFailed(S) ==
  /\ InPart(S, "prune")
  /\ out' = [h \in Hosts |-> IF h \in bad[S] THEN "abort" ELSE out[h]]
  /\ stage' = [stage EXCEPT ![S] = "done"]
  /\ UNCHANGED <<up, handle, call, parts, bad, cmd, fate, exc, ret, down>>

-----------------------------------------------------------------------------
(* The parent *)

Leave ==
  /\ call' = Idle
  /\ NoParts /\ Fresh
  /\ cmd' = [h \in Hosts |-> 0]
  /\ down' = {}
  /\ UNCHANGED up

Raised == \E S \in parts : stage[S] = "raised"
AllEnded == \A S \in parts : stage[S] \in {"done", "raised"}
Lost == UNION {bad[S] : S \in parts}
\* _print_merged_outputs splits the lines of a dictionary.
PrintRaises == sharded /\ call.console /\ call.detailed /\ reach # {}

\* fut.result() raises, or exec does, before anything is merged.
ReturnRaise ==
  /\ call.busy /\ AllEnded /\ Raised
  /\ Leave
  /\ ret' = [kind |-> "raise", ans |-> Fleet!Nothing]
  /\ UNCHANGED handle

\* Mutant: hosts forgotten earlier are left out of every dictionary.
Return_NewlyLostOnly ==
  /\ call.busy /\ AllEnded /\ ~Raised
  /\ Leave
  /\ reach' = reach \ Lost
  /\ unreach' = unreach \cup Lost
  /\ UNCHANGED hostsPerShard
  /\ ret' = IF PrintRaises THEN [kind |-> "raise", ans |-> Fleet!Nothing]
            ELSE [kind |-> "dict", ans |-> out]

\* _sync_phandle_state, or _merge_shard_returns and _print_merged_outputs.  A
\* handle of one process also answers for the hosts it forgot earlier.
Return ==
  /\ call.busy /\ AllEnded /\ ~Raised
  /\ Leave
  /\ reach' = reach \ Lost
  /\ unreach' = unreach \cup Lost
  /\ UNCHANGED hostsPerShard
  /\ ret' = IF PrintRaises
            THEN [kind |-> "raise", ans |-> Fleet!Nothing]
            ELSE [kind |-> "dict",
                  ans |-> [h \in Hosts |-> IF ~sharded /\ h \in unreach
                                           THEN "abort" ELSE out[h]]]

\* prune_nodes, called by the owner of the handle.
PruneNodes(dead) ==
  /\ ~call.busy
  /\ reach \cap dead # {}
  /\ reach' = reach \ dead
  /\ unreach' = unreach \cup (reach \cap dead)
  /\ UNCHANGED <<hostsPerShard, up, call, parts, stage, bad, items, ret, down>>

-----------------------------------------------------------------------------
(* The nodes *)

\* The command ends; on a node that is down, its stream just ends.
Finish(h) ==
  /\ fate[h] = "running"
  /\ \E f \in IF h \in up THEN {"zero", "nonzero", "cut"} ELSE {"cut"} :
       fate' = [fate EXCEPT ![h] = f]
  /\ UNCHANGED <<up, handle, call, parts, stage, bad, cmd, exc, out, ret, down>>

GoDown(h) ==
  /\ h \in up
  /\ up' = up \ {h}
  /\ down' = IF call.busy THEN down \cup {h} ELSE down
  /\ UNCHANGED <<handle, call, parts, stage, bad, items, ret>>

ComeUp(h) ==
  /\ h \notin up
  /\ up' = up \cup {h}
  /\ UNCHANGED <<handle, call, parts, stage, bad, items, ret, down>>

-----------------------------------------------------------------------------

Work(S) ==
  \/ \E h \in S : Connect(S, h) \/ ReadItem(S, h) \/ ReadTimeout(S, h)
  \/ Connected(S) \/ ReadRaises(S) \/ Check(S) \/ PruneFailed(S)

Next ==
  \/ \E m \in Modes :
       Exec(m) \/ \E written \in SUBSET Hosts : ExecCmdList(written, m.timeout)
  \/ \E written \in SUBSET Hosts : RefuseCmdList(written)
  \/ \E S \in parts : Work(S)
  \/ ReturnRaise \/ Return
  \/ \E dead \in SUBSET Hosts : PruneNodes(dead)
  \/ \E h \in Hosts : Finish(h) \/ GoDown(h) \/ ComeUp(h)

Spec == Init /\ [][Next]_vars

\* parallel-ssh's connect and read timers, and the executor, keep a call going.
Fairness ==
  /\ \A S \in SUBSET Hosts :
       /\ \A h \in S : /\ WF_vars(Connect(S, h))
                       /\ WF_vars(ReadItem(S, h) \/ ReadTimeout(S, h))
       /\ WF_vars(Connected(S)) /\ WF_vars(Check(S)) /\ WF_vars(PruneFailed(S))
  /\ WF_vars(ReturnRaise) /\ WF_vars(Return)

LiveSpec == Spec /\ Fairness

-----------------------------------------------------------------------------
(* Properties *)

Returning == call.busy /\ ~call'.busy

\* An exit code that reaches the caller is the command's own: zero only if it
\* ended with zero on that host, whatever timed out, was cut or was merged
\* around it (_process_output, _merge_shard_returns).
AnswerIsTrue ==
  [][Returning /\ ret'.kind = "dict" =>
       \A h \in Hosts :
         /\ ret'.ans[h] = "ok" => fate[h] = "zero"
         /\ ret'.ans[h] = "fail" => fate[h] = "nonzero"]_vars

\* A call gives up on no host that answered throughout it, though a time-out
\* on one host marks every host of the part (prune_unreachable_hosts).
HealthyKept == [][call.busy => reach \ reach' \subseteq down]_vars

\* A call looks to its callers like one step of FleetExec.
OneStep == Fleet!Spec

\* cmd_list[i] runs on hosts[i] and nowhere else, before and after hosts were
\* lost (the contract of exec_cmd_list).
RightHost == \A h \in Hosts : fate[h] # "none" => cmd[h] = h

\* The sharded handle keeps that contract, also for lists the caller wrote before hosts
\* were lost: the parent pairs the list with the inventory, drops the commands of lost
\* hosts and cuts the rest at the same places as the hosts, so that the worker, which
\* pairs by position, gives each host its own; and a list it cannot pair is refused.
RightHostSharded == sharded => RightHost

\* A call that was given a timeout returns, whatever the nodes do.
CallReturns == call.busy /\ call.timeout ~> ~call.busy
=============================================================================
