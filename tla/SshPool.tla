------------------------------ MODULE SshPool ------------------------------
(***************************************************************************)
(* The collector daemon's SSH pool (go-collector/pkg/pssh) behind the       *)
(* message handlers of cmd/gpu-collector/main.go.                           *)
(*                                                                         *)
(* Four kinds of goroutine share one cache of connections and one pair of   *)
(* sets, reachable and unreachable: a fleet-wide Exec with its double check *)
(* of failed hosts, the background sweep over the unreachable hosts, the    *)
(* ProbeSubset of freshly added hosts and one keepalive per connection.     *)
(* Everything they decide is decided outside the locks.  The refresh        *)
(* handler changes the inventory and the credentials under them.            *)
(*                                                                         *)
(* A credential is a generation number; a cached connection remembers the   *)
(* one it authenticated with.  An entry leaves the cache only by being      *)
(* closed, so a session whose phase is "run" uses the entry now cached for  *)
(* its host, and "cut" says that somebody closed it meanwhile.              *)
(***************************************************************************)
EXTENDS Naturals, FiniteSets

CONSTANTS
  Hosts,
  Links,       \* what a node can be: "up", "refused", "silent", "hung"
  DialCap,     \* concurrent handshakes (dialSem)
  MaxCred,     \* bound: credential generations
  MaxRefresh,  \* bound: refresh_nodes messages
  MaxFault     \* bound: changes of a node's link

ASSUME SshPoolAssumption ==
  /\ "up" \in Links /\ Links \subseteq {"up", "refused", "silent", "hung"}
  /\ DialCap \in Nat \ {0}
  /\ MaxCred \in Nat \ {0} /\ MaxRefresh \in Nat /\ MaxFault \in Nat

VARIABLES
  link,         \* the node behind each host name
  cred,         \* generation of user / keyPath / keyBytes in the pool
  conns,        \* cached connection per host; cred 0: none
  all,          \* the inventory
  reachable,
  unreachable,
  sess,         \* the runSession of each goroutine on each host
  exec,         \* phase of the Exec request
  bg,           \* phase of the background goroutine
  probedOnce,
  reprobe,      \* the nudge channel, of capacity one
  sub,          \* a ProbeSubset goroutine is running
  hd,           \* the refresh_nodes handler
  ka,           \* the keepalive goroutine that declared a host dead
  owed,         \* hosts a credential change moved, not yet swept (history)
  refreshes,    \* refresh_nodes messages so far
  faults        \* link changes so far

sets == <<all, reachable, unreachable>>
vars == <<link, cred, conns, sets, sess, exec, bg, probedOnce, reprobe, sub,
          hd, ka, owed, refreshes, faults>>

-----------------------------------------------------------------------------
(* Types *)

Tasks == {"exec", "bg", "sub"}
Probers == {"bg", "sub"}
Creds == 0 .. MaxCred

\* look: about to look into the cache; dial: handshake in progress, outside the
\* locks; run, cut: holds an entry, open or closed; fail, late: a connection
\* error or a deadline was met and the drop is still to come; bad, slow: the
\* error was returned; down, missed: the caller has classified it.
SessionPhase == {"idle", "look", "dial", "run", "cut", "fail", "late",
                 "ok", "bad", "slow", "missed", "down"}
Returned == {"idle", "ok", "bad", "slow"}

NoConn == [cred |-> 0, broken |-> FALSE]
NoRefresh == [at |-> "idle", hosts |-> {}, removed |-> {}]

TypeOK ==
  /\ link \in [Hosts -> Links]
  /\ cred \in 1 .. MaxCred
  /\ conns \in [Hosts -> [cred : Creds, broken : BOOLEAN]]
  /\ all \in SUBSET Hosts
  /\ reachable \in SUBSET Hosts
  /\ unreachable \in SUBSET Hosts
  /\ sess \in [Tasks -> [Hosts -> [at : SessionPhase, cred : Creds]]]
  /\ exec \in {"off", "run", "check", "prune"}
  /\ bg \in {"snap", "probe", "wait"}
  /\ probedOnce \in BOOLEAN
  /\ reprobe \in BOOLEAN
  /\ sub \in BOOLEAN
  /\ hd \in [at : {"idle", "state", "refresh", "drop"},
             hosts : SUBSET Hosts, removed : SUBSET Hosts]
  /\ ka \in [Hosts -> {"idle", "drop", "prune", "dropAgain"}]
  /\ owed \in SUBSET Hosts
  /\ refreshes \in 0 .. MaxRefresh
  /\ faults \in 0 .. MaxFault

-----------------------------------------------------------------------------
(* New: every node starts unreachable and the first sweep is on its way *)

NoSession == [at |-> "idle", cred |-> 0]

Init ==
  /\ link \in [Hosts -> Links]
  /\ cred = 1
  /\ conns = [h \in Hosts |-> NoConn]
  /\ all \in SUBSET Hosts
  /\ reachable = {}
  /\ unreachable = all
  /\ sess = [t \in Tasks |-> [h \in Hosts |-> NoSession]]
  /\ exec = "off" /\ bg = "snap" /\ sub = FALSE
  /\ probedOnce = FALSE
  /\ reprobe = FALSE
  /\ hd = NoRefresh
  /\ ka = [h \in Hosts |-> "idle"]
  /\ owed = {}
  /\ refreshes = 0 /\ faults = 0

-----------------------------------------------------------------------------
(* The connection cache *)

\* The sessions of S, once the cached entries of H are closed.
Cut(S, H) ==
  [t \in Tasks |-> [h \in Hosts |->
     IF h \in H /\ S[t][h].at = "run" THEN [S[t][h] EXCEPT !.at = "cut"]
                                      ELSE S[t][h]]]

\* drop(h) for the hosts of H, the sessions being S: whatever entry is cached
\* under the name is closed, not only the one the caller was using.
Drop(H, S) ==
  /\ conns' = [h \in Hosts |-> IF h \in H THEN NoConn ELSE conns[h]]
  /\ sess' = Cut(S, H)

At(t, h) == sess[t][h].at
SetAt(t, h, phase) == [sess EXCEPT ![t][h].at = phase]

\* Phases of the hosts of H in one batch of sessions, the others idle.
Batch(t, H) ==
  [sess EXCEPT ![t] = [h \in Hosts |->
     IF h \in H THEN [at |-> "look", cred |-> 0] ELSE NoSession]]
Over(t) == [sess EXCEPT ![t] = [h \in Hosts |-> NoSession]]

Dialing == {p \in Tasks \X Hosts : At(p[1], p[2]) = "dial"}

\* conn(): a hit, or a slot of dialSem and the credentials of this moment.
Lookup(t, h) ==
  /\ At(t, h) = "look"
  /\ \/ /\ conns[h].cred # 0
        /\ sess' = SetAt(t, h, "run")
     \/ /\ conns[h].cred = 0
        /\ Cardinality(Dialing) < DialCap
        /\ sess' = [sess EXCEPT ![t][h] = [at |-> "dial", cred |-> cred]]
  /\ UNCHANGED <<link, cred, conns, sets, exec, bg, probedOnce, reprobe, sub,
                 hd, ka, owed, refreshes, faults>>

Dialed_KeepsBoth(t, h) ==
  /\ conns' = [conns EXCEPT ![h] = [cred |-> sess[t][h].cred, broken |-> FALSE]]
  /\ sess' = SetAt(t, h, "run")

\* The final check under the write lock: the entry of a concurrent dial wins.
Dialed(t, h) ==
  /\ conns' = IF conns[h].cred # 0 THEN conns
              ELSE [conns EXCEPT ![h] = [cred |-> sess[t][h].cred, broken |-> FALSE]]
  /\ sess' = SetAt(t, h, "run")

\* A TCP timeout matches context.DeadlineExceeded or does not, as the timer of
\* the dial or that of the socket fires first; any other failure is a connection
\* error.  A credential replaced meanwhile may be refused.  No deadline covers
\* the handshake, so a node that accepts the connection and then says nothing
\* keeps the dial, and its slot, for ever.
Dial(t, h) ==
  /\ At(t, h) = "dial"
  /\ \/ link[h] = "up" /\ Dialed(t, h)
     \/ /\ link[h] \in {"refused", "silent"} \/ (link[h] = "up" /\ sess[t][h].cred # cred)
        /\ sess' = SetAt(t, h, "bad") /\ UNCHANGED conns
     \/ link[h] = "silent" /\ sess' = SetAt(t, h, "slow") /\ UNCHANGED conns
  /\ UNCHANGED <<link, cred, sets, exec, bg, probedOnce, reprobe, sub, hd, ka,
                 owed, refreshes, faults>>

\* NewSession and CombinedOutput: the command ends, or meets a closed or broken
\* connection, or the deadline.  A command of Exec may outlast its deadline on a
\* healthy node; "echo OK" does not.  A session still waiting for a slot of the
\* entry's semaphore returns at the deadline without dropping anything.
Run(t, h) ==
  LET healthy == At(t, h) = "run" /\ ~conns[h].broken IN
  /\ At(t, h) \in {"run", "cut"}
  /\ \/ healthy /\ sess' = SetAt(t, h, "ok")
     \/ ~healthy /\ sess' = SetAt(t, h, "fail")
     \/ /\ (t = "exec" /\ exec = "run") \/ (~healthy /\ link[h] # "up")
        /\ sess' = SetAt(t, h, "late")
     \/ t = "exec" /\ exec = "run" /\ sess' = SetAt(t, h, "slow")
  /\ UNCHANGED <<link, cred, conns, sets, exec, bg, probedOnce, reprobe, sub,
                 hd, ka, owed, refreshes, faults>>

\* runSession drops the host on its way out.
RunDrops(t, h) ==
  /\ At(t, h) \in {"fail", "late"}
  /\ Drop({h}, SetAt(t, h, IF At(t, h) = "fail" THEN "bad" ELSE "slow"))
  /\ UNCHANGED <<link, cred, sets, exec, bg, probedOnce, reprobe, sub, hd, ka,
                 owed, refreshes, faults>>

Session(t, h) == Lookup(t, h) \/ Dial(t, h) \/ Run(t, h) \/ RunDrops(t, h)

-----------------------------------------------------------------------------
(* Exec, pruneAfterExec, checkConnectivity, pruneNodes *)

Are(t, phases) == \A h \in Hosts : At(t, h) \in phases
Those(t, phase) == {h \in Hosts : At(t, h) = phase}

ExecStart ==
  /\ exec = "off"
  /\ reachable # {}
  /\ exec' = "run"
  /\ sess' = Batch("exec", reachable)
  /\ UNCHANGED <<link, cred, conns, sets, bg, probedOnce, reprobe, sub, hd, ka,
                 owed, refreshes, faults>>

\* Only connection errors are checked again, on the same pool.
ExecCollect ==
  /\ exec = "run" /\ Are("exec", Returned)
  /\ IF Those("exec", "bad") = {}
       THEN exec' = "off" /\ sess' = Over("exec")
       ELSE exec' = "check" /\ sess' = Batch("exec", Those("exec", "bad"))
  /\ UNCHANGED <<link, cred, conns, sets, bg, probedOnce, reprobe, sub, hd, ka,
                 owed, refreshes, faults>>

StillDown_TimeoutsOnly == Those("exec", "slow")

\* Any failure of the second attempt counts.
StillDown == Those("exec", "bad") \cup Those("exec", "slow")

PruneNodes_Forgets(H) ==
  /\ reachable' = reachable \ H
  /\ UNCHANGED <<all, unreachable>>

PruneNodes_Copies(H) ==
  /\ unreachable' = unreachable \cup H
  /\ UNCHANGED <<all, reachable>>

\* The state part of pruneNodes; it knows nothing of the inventory.
PruneNodes(H) ==
  /\ reachable' = reachable \ H
  /\ unreachable' = unreachable \cup H
  /\ UNCHANGED all

ExecPrune ==
  /\ exec = "check" /\ Are("exec", Returned)
  /\ IF StillDown = {}
       THEN exec' = "off" /\ sess' = Over("exec") /\ UNCHANGED sets
       ELSE /\ exec' = "prune"
            /\ PruneNodes(StillDown)
            /\ sess' = [sess EXCEPT !["exec"] = [h \in Hosts |->
                 IF h \in StillDown THEN [at |-> "down", cred |-> 0] ELSE NoSession]]
  /\ UNCHANGED <<link, cred, conns, bg, probedOnce, reprobe, sub, hd, ka, owed,
                 refreshes, faults>>

\* pruneNodes drops the pruned hosts after it released the state lock; the
\* results go back with the last of them.
ExecDrops ==
  /\ exec = "prune"
  /\ \E h \in Those("exec", "down") : Drop({h}, SetAt("exec", h, "idle"))
  /\ exec' = IF Cardinality(Those("exec", "down")) = 1 THEN "off" ELSE "prune"
  /\ UNCHANGED <<link, cred, sets, bg, probedOnce, reprobe, sub, hd, ka, owed,
                 refreshes, faults>>

-----------------------------------------------------------------------------
(* reprobeUnreachable, runBackground, ProbeSubset *)

\* The collecting loop drops a host whose probe failed, once more.
ProbeMissed(t, h) ==
  /\ At(t, h) \in {"bad", "slow"}
  /\ Drop({h}, SetAt(t, h, "missed"))
  /\ UNCHANGED <<link, cred, sets, exec, bg, probedOnce, reprobe, sub, hd, ka,
                 owed, refreshes, faults>>

SweepStart ==
  /\ bg = "snap"
  /\ bg' = "probe"
  /\ sess' = Batch("bg", unreachable)
  /\ owed' = owed \ unreachable
  /\ UNCHANGED <<link, cred, conns, sets, exec, probedOnce, reprobe, sub, hd, ka,
                 refreshes, faults>>

SweepPublish_Forgets ==
  /\ bg = "probe" /\ Are("bg", {"idle", "ok", "missed"})
  /\ sess' = Over("bg")
  /\ bg' = "wait" /\ probedOnce' = TRUE
  /\ UNCHANGED <<link, cred, conns, sets, exec, reprobe, sub, hd, ka, owed,
                 refreshes, faults>>

\* The recovered hosts are promoted; the others keep what they are.
SweepPublish ==
  /\ bg = "probe" /\ Are("bg", {"idle", "ok", "missed"})
  /\ unreachable' = unreachable \ Those("bg", "ok")
  /\ reachable' = reachable \cup Those("bg", "ok")
  /\ sess' = Over("bg")
  /\ bg' = "wait" /\ probedOnce' = TRUE
  /\ owed' = owed \ Those("bg", "ok")
  /\ UNCHANGED <<link, cred, conns, all, exec, reprobe, sub, hd, ka, refreshes,
                 faults>>

SweepTick ==
  /\ bg = "wait"
  /\ bg' = "snap"
  /\ UNCHANGED <<link, cred, conns, sets, sess, exec, probedOnce, reprobe, sub,
                 hd, ka, owed, refreshes, faults>>

\* The nudges are drained before the sweep reads the unreachable set.
SweepNudge ==
  /\ bg = "wait" /\ reprobe
  /\ bg' = "snap" /\ reprobe' = FALSE
  /\ UNCHANGED <<link, cred, conns, sets, sess, exec, probedOnce, sub, hd, ka,
                 owed, refreshes, faults>>

\* ProbeSubset writes a verdict for each of its hosts, as they were given to it.
SubsetPublish ==
  /\ sub /\ Are("sub", {"idle", "ok", "missed"})
  /\ reachable' = (reachable \cup Those("sub", "ok")) \ Those("sub", "missed")
  /\ unreachable' = (unreachable \ Those("sub", "ok")) \cup Those("sub", "missed")
  /\ sess' = Over("sub")
  /\ sub' = FALSE
  /\ owed' = owed \ Those("sub", "ok")
  /\ UNCHANGED <<link, cred, conns, all, exec, bg, probedOnce, reprobe, hd, ka,
                 refreshes, faults>>

-----------------------------------------------------------------------------
(* handleRefreshNodes: UpdateCredentials, Refresh *)

TriggerReprobe == reprobe' = TRUE

\* The inventory half of a message without credentials starts at once; with
\* credentials the cache is emptied first, under connMu.  Bound: one message
\* and one ProbeSubset at a time.
RefreshArrives(newCred, H) ==
  /\ hd.at = "idle" /\ ~sub
  /\ refreshes < MaxRefresh
  /\ refreshes' = refreshes + 1
  /\ IF newCred
       THEN /\ cred < MaxCred
            /\ cred' = cred + 1
            /\ Drop(Hosts, sess)
            /\ hd' = [at |-> "state", hosts |-> H, removed |-> {}]
       ELSE /\ hd' = [at |-> "refresh", hosts |-> H, removed |-> {}]
            /\ UNCHANGED <<cred, conns, sess>>
  /\ UNCHANGED <<link, sets, exec, bg, probedOnce, reprobe, sub, ka, owed, faults>>

UpdateCredentials_NoNudge ==
  /\ hd.at = "state"
  /\ unreachable' = unreachable \cup reachable
  /\ reachable' = {}
  /\ owed' = owed \cup reachable
  /\ hd' = [hd EXCEPT !.at = "refresh"]
  /\ UNCHANGED <<link, cred, conns, all, sess, exec, bg, probedOnce, sub, ka,
                 reprobe, refreshes, faults>>

\* Every reachable node is to be dialed again with the new credentials.
UpdateCredentials ==
  /\ hd.at = "state"
  /\ unreachable' = unreachable \cup reachable
  /\ reachable' = {}
  /\ owed' = owed \cup reachable
  /\ TriggerReprobe
  /\ hd' = [hd EXCEPT !.at = "refresh"]
  /\ UNCHANGED <<link, cred, conns, all, sess, exec, bg, probedOnce, sub, ka,
                 refreshes, faults>>

\* Refresh, under stateMu: added hosts are reachable until ProbeSubset says
\* otherwise, removed hosts are in neither set.
Refresh ==
  LET removed == all \ hd.hosts
      added == hd.hosts \ all IN
  /\ hd.at = "refresh"
  /\ all' = hd.hosts
  /\ reachable' = (reachable \ removed) \cup added
  /\ unreachable' = unreachable \ removed
  /\ owed' = owed \ removed
  /\ hd' = [at |-> "drop", hosts |-> added, removed |-> removed]
  /\ UNCHANGED <<link, cred, conns, sess, exec, bg, probedOnce, reprobe, sub, ka,
                 refreshes, faults>>

\* Then the connections of the removed hosts are closed, one lock each.
RefreshDrops ==
  /\ hd.at = "drop"
  /\ \E h \in hd.removed :
       /\ Drop({h}, sess)
       /\ hd' = [hd EXCEPT !.removed = @ \ {h}]
  /\ UNCHANGED <<link, cred, sets, exec, bg, probedOnce, reprobe, sub, ka, owed,
                 refreshes, faults>>

\* The sweep is nudged and the added hosts get a ProbeSubset of their own.
RefreshAnswers ==
  /\ hd.at = "drop" /\ hd.removed = {}
  /\ TriggerReprobe
  /\ IF hd.hosts = {}
       THEN UNCHANGED <<sub, sess>>
       ELSE sub' = TRUE /\ sess' = Batch("sub", hd.hosts)
  /\ hd' = NoRefresh
  /\ UNCHANGED <<link, cred, conns, sets, exec, bg, probedOnce, ka, owed,
                 refreshes, faults>>

-----------------------------------------------------------------------------
(* keepalive *)

\* The third miss in a row, the entry not cancelled when it was counted.
KeepaliveDead(h) ==
  /\ ka[h] = "idle"
  /\ conns[h].cred # 0 /\ conns[h].broken
  /\ ka' = [ka EXCEPT ![h] = "drop"]
  /\ UNCHANGED <<link, cred, conns, sets, sess, exec, bg, probedOnce, reprobe,
                 sub, hd, owed, refreshes, faults>>

\* drop, and pruneNodes, which drops again.
KeepaliveDrops(h) ==
  /\ ka[h] \in {"drop", "dropAgain"}
  /\ Drop({h}, sess)
  /\ ka' = [ka EXCEPT ![h] = IF @ = "drop" THEN "prune" ELSE "idle"]
  /\ UNCHANGED <<link, cred, sets, exec, bg, probedOnce, reprobe, sub, hd, owed,
                 refreshes, faults>>

KeepalivePrunes(h) ==
  /\ ka[h] = "prune"
  /\ PruneNodes({h})
  /\ ka' = [ka EXCEPT ![h] = "dropAgain"]
  /\ UNCHANGED <<link, cred, conns, sess, exec, bg, probedOnce, reprobe, sub, hd,
                 owed, refreshes, faults>>

-----------------------------------------------------------------------------
(* The nodes *)

\* A node goes down, or comes back with its old connections gone.
LinkChanges(h, l) ==
  /\ faults < MaxFault
  /\ l # link[h]
  /\ faults' = faults + 1
  /\ link' = [link EXCEPT ![h] = l]
  /\ conns' = [conns EXCEPT ![h].broken = conns[h].cred # 0]
  /\ UNCHANGED <<cred, sets, sess, exec, bg, probedOnce, reprobe, sub, hd, ka,
                 owed, refreshes>>

-----------------------------------------------------------------------------

ExecStep ==
  \/ ExecCollect \/ ExecPrune \/ ExecDrops
  \/ \E h \in Hosts : Session("exec", h)

Probe(t) == \E h \in Hosts : Session(t, h) \/ ProbeMissed(t, h)
Handler == UpdateCredentials \/ Refresh \/ RefreshDrops \/ RefreshAnswers
Keepalive(h) == KeepaliveDead(h) \/ KeepaliveDrops(h) \/ KeepalivePrunes(h)

Next ==
  \/ ExecStart \/ ExecStep
  \/ SweepStart \/ SweepPublish \/ SweepTick \/ SweepNudge \/ Probe("bg")
  \/ SubsetPublish \/ Probe("sub")
  \/ Handler
  \/ \E newCred \in BOOLEAN, H \in SUBSET Hosts : RefreshArrives(newCred, H)
  \/ \E h \in Hosts : Keepalive(h)
  \/ \E h \in Hosts, l \in Links : LinkChanges(h, l)

Spec == Init /\ [][Next]_vars

\* Goroutines run, the ticker ticks, the collectors keep sending Exec requests;
\* every session and every dial in progress goes on, whatever the others do.
Fairness ==
  /\ WF_vars(ExecStart) /\ WF_vars(ExecCollect \/ ExecPrune \/ ExecDrops)
  /\ WF_vars(SweepStart) /\ WF_vars(SweepPublish) /\ WF_vars(SweepTick)
  /\ WF_vars(SubsetPublish) /\ WF_vars(Handler)
  /\ \A h \in Hosts :
       /\ WF_vars(Keepalive(h))
       /\ \A t \in Tasks : SF_vars(Session(t, h))
       /\ \A t \in Probers : WF_vars(ProbeMissed(t, h))

FairSpec == Spec /\ Fairness

-----------------------------------------------------------------------------
(* Properties *)

\* No host of the inventory is ever lost: however verdicts, prunes, credential
\* changes and inventory changes interleave, each host stays in a set that
\* somebody looks at, Exec at the reachable ones and the sweep at the others.
NoHostLost == all \subseteq reachable \cup unreachable

\* A host that a credential change moved to unreachable is swept again without
\* waiting for the ticker: until the sweep has read the set, a nudge is queued or
\* the sweep is about to read it.
NudgeNotLost == owed # {} => reprobe \/ bg = "snap"

\* Until the inventory changes a second time, however verdicts, prunes and the
\* moves of a credential change interleave, no host is in both sets: the lists that
\* health reports add up to the inventory, and Exec leaves the unreachable alone.
SetsDisjoint == refreshes <= 1 => reachable \cap unreachable = {}

\* A cached connection is never replaced while it is open: two goroutines that
\* dial the same host, before and after a credential change, end with one entry,
\* and the connection of the loser is not left open outside the cache.
OneConnectionPerHost ==
  [][\A h \in Hosts :
       conns[h].cred # 0 /\ conns'[h].cred # 0
         => conns'[h].cred = conns[h].cred]_vars

\* A node that refuses connections for good does not stay reachable while
\* commands are run, although a healthy-looking entry may be cached for it, the
\* sweep skips it, and a verdict from before it went down may promote it once
\* more: the keepalive, or Exec's double check, takes it out (prune.go).
RefusedIsNoticed ==
  \A h \in Hosts : <>[](link[h] = "refused") => []<>(h \notin reachable)

\* A node that is up, and in the inventory, for good is reachable in the end,
\* whatever stale verdict, drop or prune was still under way.
UpIsReachable ==
  \A h \in Hosts : <>[](link[h] = "up" /\ h \in all) => <>[](h \in reachable)
=============================================================================
