--------------------------- MODULE SshPoolProofs ---------------------------
(***************************************************************************)
(* Proofs about SshPool for every inventory, every number of dial slots and *)
(* every bound: what is proved holds whatever the nodes do.                 *)
(***************************************************************************)
EXTENDS SshPool, TLAPS

SessType == [Tasks -> [Hosts -> [at : SessionPhase, cred : Creds]]]
ConnType == [Hosts -> [cred : Creds, broken : BOOLEAN]]

-----------------------------------------------------------------------------
(* What the operators on sessions and connections return *)

LEMMA CredFacts == 0 \in Creds /\ 1 \in Creds /\ 1 .. MaxCred \subseteq Creds
  BY SshPoolAssumption, SMT DEF Creds

LEMMA NoConnType == NoConn \in [cred : Creds, broken : BOOLEAN]
  BY CredFacts DEF NoConn

LEMMA NoSessionType == NoSession \in [at : SessionPhase, cred : Creds]
  BY CredFacts DEF NoSession, SessionPhase

\* Closing entries keeps every session in its type.
LEMMA CutType ==
  ASSUME NEW S \in SessType, NEW H PROVE Cut(S, H) \in SessType
<1>1. \A t \in Tasks, h \in Hosts :
        (IF h \in H /\ S[t][h].at = "run" THEN [S[t][h] EXCEPT !.at = "cut"]
                                          ELSE S[t][h])
          \in [at : SessionPhase, cred : Creds]
  BY DEF SessType, SessionPhase
<1> QED  BY <1>1 DEF Cut, SessType

LEMMA SetAtType ==
  ASSUME sess \in SessType, NEW t \in Tasks, NEW h \in Hosts,
         NEW phase \in SessionPhase
  PROVE  SetAt(t, h, phase) \in SessType
  BY DEF SetAt, SessType

LEMMA BatchType ==
  ASSUME sess \in SessType, NEW t \in Tasks, NEW H
  PROVE  Batch(t, H) \in SessType /\ Over(t) \in SessType
<1>1. [at |-> "look", cred |-> 0] \in [at : SessionPhase, cred : Creds]
  BY CredFacts DEF SessionPhase
<1> QED  BY <1>1, NoSessionType DEF Batch, Over, SessType

LEMMA DropType ==
  ASSUME conns \in ConnType, NEW S \in SessType, NEW H, Drop(H, S)
  PROVE  conns' \in ConnType /\ sess' \in SessType
  BY CutType, NoConnType DEF Drop, ConnType

-----------------------------------------------------------------------------
(* Type correctness *)

LEMMA TypeInit == Init => TypeOK
<1> SUFFICES ASSUME Init PROVE TypeOK
  OBVIOUS
<1>1. cred \in 1 .. MaxCred /\ refreshes \in 0 .. MaxRefresh /\ faults \in 0 .. MaxFault
  BY SshPoolAssumption, SMT DEF Init
<1>2. sess \in [Tasks -> [Hosts -> [at : SessionPhase, cred : Creds]]]
  BY NoSessionType DEF Init
<1>3. conns \in [Hosts -> [cred : Creds, broken : BOOLEAN]]
  BY NoConnType DEF Init
<1> QED  BY <1>1, <1>2, <1>3 DEF Init, TypeOK, NoRefresh

LEMMA SessionTypes ==
  ASSUME TypeOK, NEW t \in Tasks, NEW h \in Hosts, Session(t, h)
  PROVE  TypeOK'
<1> USE DEF TypeOK
<1>0. sess \in SessType /\ conns \in ConnType
  BY DEF SessType, ConnType
<1>1. CASE Lookup(t, h)
  <2>1. sess' \in SessType
    <3>1. [at |-> "dial", cred |-> cred] \in [at : SessionPhase, cred : Creds]
      BY CredFacts DEF SessionPhase
    <3>2. "run" \in SessionPhase  BY DEF SessionPhase
    <3>3. CASE sess' = SetAt(t, h, "run")
      BY <1>0, <3>2, <3>3, SetAtType
    <3>4. CASE sess' = [sess EXCEPT ![t][h] = [at |-> "dial", cred |-> cred]]
      BY <1>0, <3>1, <3>4 DEF SessType
    <3> QED  BY <1>1, <3>3, <3>4 DEF Lookup
  <2> QED  BY <1>1, <2>1 DEF Lookup, sets, SessType
<1>2. CASE Dial(t, h)
  <2>1. sess' \in SessType
    <3>1. {"run", "bad", "slow"} \subseteq SessionPhase  BY DEF SessionPhase
    <3> QED  BY <1>0, <1>2, <3>1, SetAtType DEF Dial, Dialed
  <2>2. conns' \in ConnType
    <3>1. [cred |-> sess[t][h].cred, broken |-> FALSE]
            \in [cred : Creds, broken : BOOLEAN]
      BY <1>0 DEF SessType
    <3> QED  BY <1>0, <1>2, <3>1 DEF Dial, Dialed, ConnType
  <2> QED  BY <1>2, <2>1, <2>2 DEF Dial, sets, SessType, ConnType
<1>3. CASE Run(t, h)
  <2>1. {"ok", "fail", "late", "slow"} \subseteq SessionPhase
    BY DEF SessionPhase
  <2>2. sess' \in SessType
    BY <1>0, <1>3, <2>1, SetAtType DEF Run
  <2> QED  BY <1>3, <2>2 DEF Run, sets, SessType
<1>4. CASE RunDrops(t, h)
  <2>1. {"bad", "slow"} \subseteq SessionPhase  BY DEF SessionPhase
  <2>2. SetAt(t, h, IF At(t, h) = "fail" THEN "bad" ELSE "slow") \in SessType
    BY <1>0, <2>1, SetAtType
  <2>3. conns' \in ConnType /\ sess' \in SessType
    BY <1>0, <1>4, <2>2, DropType DEF RunDrops
  <2> QED  BY <1>4, <2>3 DEF RunDrops, sets, SessType, ConnType
<1> QED  BY <1>1, <1>2, <1>3, <1>4 DEF Session

LEMMA ProbeTypes ==
  ASSUME TypeOK, NEW t \in Probers, Probe(t)
  PROVE  TypeOK'
<1>0. t \in Tasks  BY DEF Probers, Tasks
<1>1. ASSUME NEW h \in Hosts, ProbeMissed(t, h) PROVE TypeOK'
  <2>1. sess \in SessType /\ conns \in ConnType
    BY DEF TypeOK, SessType, ConnType
  <2>2. "missed" \in SessionPhase  BY DEF SessionPhase
  <2>3. SetAt(t, h, "missed") \in SessType
    BY <1>0, <2>1, <2>2, SetAtType
  <2>4. conns' \in ConnType /\ sess' \in SessType
    BY <1>1, <2>1, <2>3, DropType DEF ProbeMissed
  <2> QED  BY <1>1, <2>4 DEF ProbeMissed, sets, TypeOK, SessType, ConnType
<1> QED  BY <1>0, <1>1, SessionTypes DEF Probe

LEMMA ExecTypes ==
  ASSUME TypeOK, ExecStart \/ ExecStep
  PROVE  TypeOK'
<1> USE DEF TypeOK
<1>0. /\ sess \in SessType /\ conns \in ConnType
      /\ "exec" \in Tasks
  BY DEF SessType, ConnType, Tasks
<1>1. CASE ExecStart
  <2>1. sess' \in SessType  BY <1>0, <1>1, BatchType DEF ExecStart
  <2> QED  BY <1>1, <2>1 DEF ExecStart, sets, SessType
<1>2. CASE ExecCollect
  <2>1. sess' = Over("exec") \/ sess' = Batch("exec", Those("exec", "bad"))
    BY <1>2 DEF ExecCollect
  <2> DEFINE failed == Those("exec", "bad")
  <2>2. Over("exec") \in SessType
    BY <1>0, BatchType
  <2>3. Batch("exec", failed) \in SessType
    BY <1>0, BatchType
  <2>4. sess' \in SessType  BY <2>1, <2>2, <2>3
  <2> QED  BY <1>2, <2>4 DEF ExecCollect, sets, SessType
<1>3. CASE ExecPrune
  <2>1. sess' \in SessType
    <3>1. [at |-> "down", cred |-> 0] \in [at : SessionPhase, cred : Creds]
      BY CredFacts DEF SessionPhase
    <3>2. CASE StillDown = {}
      BY <1>0, <1>3, <3>2, BatchType DEF ExecPrune
    <3>3. CASE StillDown # {}
      <4>1. sess' = [sess EXCEPT !["exec"] = [h \in Hosts |->
              IF h \in StillDown THEN [at |-> "down", cred |-> 0] ELSE NoSession]]
        BY <1>3, <3>3 DEF ExecPrune
      <4> QED  BY <1>0, <3>1, <4>1, NoSessionType DEF SessType
    <3> QED  BY <3>2, <3>3
  <2>2. reachable' \in SUBSET Hosts /\ unreachable' \in SUBSET Hosts /\ all' = all
    BY <1>3 DEF ExecPrune, PruneNodes, StillDown, Those, sets
  <2> QED  BY <1>3, <2>1, <2>2 DEF ExecPrune, sets, SessType
<1>4. CASE ExecDrops
  <2>1. PICK h \in Hosts : Drop({h}, SetAt("exec", h, "idle"))
    BY <1>4 DEF ExecDrops, Those
  <2>2. "idle" \in SessionPhase  BY DEF SessionPhase
  <2>3. SetAt("exec", h, "idle") \in SessType  BY <1>0, <2>2, SetAtType
  <2>4. conns' \in ConnType /\ sess' \in SessType
    BY <1>0, <2>1, <2>3, DropType
  <2> QED  BY <1>4, <2>4 DEF ExecDrops, sets, SessType, ConnType
<1> QED  BY <1>0, <1>1, <1>2, <1>3, <1>4, SessionTypes DEF ExecStep

LEMMA SweepTypes ==
  ASSUME TypeOK, SweepStart \/ SweepPublish \/ SweepTick \/ SweepNudge \/ SubsetPublish
  PROVE  TypeOK'
<1> USE DEF TypeOK
<1>0. sess \in SessType /\ "bg" \in Tasks /\ "sub" \in Tasks
  BY DEF SessType, Tasks
<1>1. CASE SweepStart
  <2>1. sess' \in SessType  BY <1>0, <1>1, BatchType DEF SweepStart
  <2> QED  BY <1>1, <2>1 DEF SweepStart, sets, SessType
<1>2. CASE SweepPublish
  <2>1. sess' \in SessType  BY <1>0, <1>2, BatchType DEF SweepPublish
  <2> QED  BY <1>2, <2>1 DEF SweepPublish, Those, sets, SessType
<1>3. CASE SweepTick
  BY <1>3 DEF SweepTick, sets
<1>4. CASE SweepNudge
  BY <1>4 DEF SweepNudge, sets
<1>5. CASE SubsetPublish
  <2>1. sess' \in SessType  BY <1>0, <1>5, BatchType DEF SubsetPublish
  <2> QED  BY <1>5, <2>1 DEF SubsetPublish, Those, sets, SessType
<1> QED  BY <1>1, <1>2, <1>3, <1>4, <1>5

LEMMA HandlerTypes ==
  ASSUME TypeOK,
         Handler \/ \E newCred \in BOOLEAN, H \in SUBSET Hosts : RefreshArrives(newCred, H)
  PROVE  TypeOK'
<1> USE DEF TypeOK
<1>0. sess \in SessType /\ conns \in ConnType /\ "sub" \in Tasks
  BY DEF SessType, ConnType, Tasks
<1>1. CASE UpdateCredentials
  BY <1>1 DEF UpdateCredentials, TriggerReprobe
<1>2. CASE Refresh
  BY <1>2 DEF Refresh
<1>3. CASE RefreshDrops
  <2>1. PICK h \in hd.removed : Drop({h}, sess) /\ hd' = [hd EXCEPT !.removed = @ \ {h}]
    BY <1>3 DEF RefreshDrops
  <2>2. conns' \in ConnType /\ sess' \in SessType
    BY <1>0, <2>1, DropType
  <2> QED  BY <1>3, <2>1, <2>2 DEF RefreshDrops, sets, SessType, ConnType
<1>4. CASE RefreshAnswers
  <2>1. sess' \in SessType  BY <1>0, <1>4, BatchType DEF RefreshAnswers
  <2> QED  BY <1>4, <2>1 DEF RefreshAnswers, TriggerReprobe, NoRefresh, sets, SessType
<1>5. ASSUME NEW newCred \in BOOLEAN, NEW H \in SUBSET Hosts, RefreshArrives(newCred, H)
      PROVE TypeOK'
  <2>1. conns' \in ConnType /\ sess' \in SessType
    BY <1>0, <1>5, DropType DEF RefreshArrives
  <2>2. refreshes' \in 0 .. MaxRefresh /\ cred' \in 1 .. MaxCred
    BY <1>5, SshPoolAssumption, SMT DEF RefreshArrives
  <2> QED  BY <1>5, <2>1, <2>2 DEF RefreshArrives, sets, SessType, ConnType
<1> QED  BY <1>1, <1>2, <1>3, <1>4, <1>5 DEF Handler

LEMMA NodeTypes ==
  ASSUME TypeOK, NEW h \in Hosts, Keepalive(h) \/ \E l \in Links : LinkChanges(h, l)
  PROVE  TypeOK'
<1> USE DEF TypeOK
<1>0. sess \in SessType /\ conns \in ConnType
  BY DEF SessType, ConnType
<1>1. CASE KeepaliveDead(h)
  BY <1>1 DEF KeepaliveDead, sets
<1>2. CASE KeepaliveDrops(h)
  <2>1. conns' \in ConnType /\ sess' \in SessType
    BY <1>0, <1>2, DropType DEF KeepaliveDrops
  <2> QED  BY <1>2, <2>1 DEF KeepaliveDrops, sets, SessType, ConnType
<1>3. CASE KeepalivePrunes(h)
  BY <1>3 DEF KeepalivePrunes, PruneNodes
<1>4. ASSUME NEW l \in Links, LinkChanges(h, l) PROVE TypeOK'
  <2>1. conns' \in ConnType
    <3>1. (conns[h].cred # 0) \in BOOLEAN
      OBVIOUS
    <3>2. PICK b \in BOOLEAN : conns' = [conns EXCEPT ![h].broken = b]
      BY <1>4, <3>1 DEF LinkChanges
    <3>3. [conns[h] EXCEPT !.broken = b] \in [cred : Creds, broken : BOOLEAN]
      BY <1>0 DEF ConnType
    <3> QED  BY <1>0, <3>2, <3>3 DEF ConnType
  <2>2. faults' \in 0 .. MaxFault
    BY <1>4, SshPoolAssumption, SMT DEF LinkChanges
  <2> QED  BY <1>4, <2>1, <2>2 DEF LinkChanges, sets, ConnType
<1> QED  BY <1>1, <1>2, <1>3, <1>4 DEF Keepalive

LEMMA TypeNext == TypeOK /\ [Next]_vars => TypeOK'
<1> SUFFICES ASSUME TypeOK, [Next]_vars PROVE TypeOK'
  OBVIOUS
<1>1. CASE UNCHANGED vars
  BY <1>1 DEF TypeOK, vars, sets
<1>2. CASE Next
  <2>1. "bg" \in Probers /\ "sub" \in Probers  BY DEF Probers
  <2> QED  BY <1>2, <2>1, ExecTypes, SweepTypes, ProbeTypes, HandlerTypes, NodeTypes
           DEF Next
<1> QED  BY <1>1, <1>2

\* The pool keeps its types.
THEOREM SshPoolTypeOK == Spec => []TypeOK
  BY TypeInit, TypeNext, PTL DEF Spec

-----------------------------------------------------------------------------
(* The inventory and the nudge *)

\* What a sweep owes is in the set it reads.
OwedInv == owed \subseteq unreachable

IInv == NoHostLost /\ OwedInv /\ NudgeNotLost

LEMMA InvInit == Init => IInv
  BY DEF Init, IInv, NoHostLost, OwedInv, NudgeNotLost

\* Steps that leave the sets, the sweep and its nudge alone.
LEMMA InvFrame ==
  ASSUME IInv, UNCHANGED <<sets, bg, reprobe, owed>> PROVE IInv'
  BY DEF IInv, NoHostLost, OwedInv, NudgeNotLost, sets

LEMMA InvNext == IInv /\ [Next]_vars => IInv'
<1> SUFFICES ASSUME IInv, [Next]_vars PROVE IInv'
  OBVIOUS
<1> USE DEF IInv, NoHostLost, OwedInv, NudgeNotLost
<1>1. CASE UNCHANGED vars
  BY <1>1, InvFrame DEF vars
<1>2. ASSUME NEW t \in Tasks, NEW h \in Hosts, Session(t, h) PROVE IInv'
  BY <1>2, InvFrame DEF Session, Lookup, Dial, Run, RunDrops
<1>3. ASSUME NEW t, NEW h, ProbeMissed(t, h) PROVE IInv'
  BY <1>3, InvFrame DEF ProbeMissed
<1>4. CASE ExecStart \/ ExecCollect \/ ExecDrops
  BY <1>4, InvFrame DEF ExecStart, ExecCollect, ExecDrops
<1>5. CASE ExecPrune
  BY <1>5 DEF ExecPrune, PruneNodes, sets
<1>6. CASE SweepStart
  BY <1>6 DEF SweepStart, sets
<1>7. CASE SweepPublish
  BY <1>7 DEF SweepPublish
<1>8. CASE SweepTick \/ SweepNudge
  BY <1>8 DEF SweepTick, SweepNudge, sets
<1>9. CASE SubsetPublish
  BY <1>9 DEF SubsetPublish
<1>10. CASE UpdateCredentials
  BY <1>10 DEF UpdateCredentials, TriggerReprobe
<1>11. CASE Refresh
  BY <1>11 DEF Refresh
<1>12. CASE RefreshDrops \/ RefreshAnswers
  BY <1>12 DEF RefreshDrops, RefreshAnswers, TriggerReprobe, sets
<1>13. ASSUME NEW newCred, NEW H, RefreshArrives(newCred, H) PROVE IInv'
  BY <1>13, InvFrame DEF RefreshArrives
<1>14. ASSUME NEW h, KeepaliveDead(h) \/ KeepaliveDrops(h) PROVE IInv'
  BY <1>14, InvFrame DEF KeepaliveDead, KeepaliveDrops
<1>15. ASSUME NEW h, KeepalivePrunes(h) PROVE IInv'
  BY <1>15 DEF KeepalivePrunes, PruneNodes
<1>16. ASSUME NEW h, NEW l, LinkChanges(h, l) PROVE IInv'
  BY <1>16, InvFrame DEF LinkChanges
<1>17. {"exec", "bg", "sub"} = Tasks  BY DEF Tasks
<1> QED
  BY <1>1, <1>2, <1>3, <1>4, <1>5, <1>6, <1>7, <1>8, <1>9, <1>10, <1>11, <1>12,
     <1>13, <1>14, <1>15, <1>16, <1>17
  DEF Next, ExecStep, Probe, Handler, Keepalive

\* Every host of the inventory stays in one of the sets somebody looks at.
THEOREM SshPoolNoHostLost == Spec => []NoHostLost
<1>1. IInv => NoHostLost  BY DEF IInv
<1> QED  BY <1>1, InvInit, InvNext, PTL DEF Spec

\* No credential change has to wait for the ticker.
THEOREM SshPoolNudgeNotLost == Spec => []NudgeNotLost
<1>1. IInv => NudgeNotLost  BY DEF IInv
<1> QED  BY <1>1, InvInit, InvNext, PTL DEF Spec

-----------------------------------------------------------------------------
(* The cache *)

OneConnection ==
  \A h \in Hosts :
    conns[h].cred # 0 /\ conns'[h].cred # 0 => conns'[h].cred = conns[h].cred

\* drop leaves an entry alone or removes it.
LEMMA DropKeeps ==
  ASSUME NEW H, NEW S, Drop(H, S) PROVE OneConnection
  BY DEF Drop, OneConnection, NoConn

LEMMA CacheNext == TypeOK /\ [Next]_vars => OneConnection
<1> SUFFICES ASSUME TypeOK, [Next]_vars PROVE OneConnection
  OBVIOUS
<1>0. conns \in ConnType  BY DEF TypeOK, ConnType
<1>1. CASE UNCHANGED conns
  BY <1>1 DEF OneConnection
<1>2. ASSUME NEW t \in Tasks, NEW h \in Hosts, Session(t, h) PROVE OneConnection
  <2>1. CASE Lookup(t, h) \/ Run(t, h)
    BY <1>1, <2>1 DEF Lookup, Run
  <2>2. CASE Dial(t, h)
    <3>1. CASE Dialed(t, h)
      BY <1>0, <3>1 DEF Dialed, OneConnection, ConnType
    <3> QED  BY <1>1, <2>2, <3>1 DEF Dial
  <2>3. CASE RunDrops(t, h)
    BY <2>3, DropKeeps DEF RunDrops
  <2> QED  BY <1>2, <2>1, <2>2, <2>3 DEF Session
<1>3. ASSUME NEW t, NEW h, ProbeMissed(t, h) PROVE OneConnection
  BY <1>3, DropKeeps DEF ProbeMissed
<1>4. CASE ExecDrops
  BY <1>4, DropKeeps DEF ExecDrops
<1>5. CASE RefreshDrops
  BY <1>5, DropKeeps DEF RefreshDrops
<1>6. ASSUME NEW newCred, NEW H, RefreshArrives(newCred, H) PROVE OneConnection
  BY <1>1, <1>6, DropKeeps DEF RefreshArrives
<1>7. ASSUME NEW h, KeepaliveDrops(h) PROVE OneConnection
  BY <1>7, DropKeeps DEF KeepaliveDrops
<1>8. ASSUME NEW h \in Hosts, NEW l, LinkChanges(h, l) PROVE OneConnection
  BY <1>0, <1>8 DEF LinkChanges, OneConnection, ConnType
<1>9. CASE \/ ExecStart \/ ExecCollect \/ ExecPrune \/ SweepStart \/ SweepPublish
           \/ SweepTick \/ SweepNudge \/ SubsetPublish \/ UpdateCredentials
           \/ Refresh \/ RefreshAnswers
           \/ \E h \in Hosts : KeepaliveDead(h) \/ KeepalivePrunes(h)
           \/ UNCHANGED vars
  BY <1>1, <1>9
  DEF ExecStart, ExecCollect, ExecPrune, SweepStart, SweepPublish, SweepTick,
      SweepNudge, SubsetPublish, UpdateCredentials, Refresh, RefreshAnswers,
      KeepaliveDead, KeepalivePrunes, vars
<1>10. {"exec", "bg", "sub"} = Tasks  BY DEF Tasks
<1> QED
  BY <1>2, <1>3, <1>4, <1>5, <1>6, <1>7, <1>8, <1>9, <1>10
  DEF Next, ExecStep, Probe, Handler, Keepalive

\* A cached connection is never replaced while it is open, whoever dials.
THEOREM SshPoolOneConnection == Spec => OneConnectionPerHost
<1>1. TypeOK /\ [Next]_vars
        => [\A h \in Hosts :
              conns[h].cred # 0 /\ conns'[h].cred # 0
                => conns'[h].cred = conns[h].cred]_vars
  BY CacheNext DEF OneConnection
<1> QED  BY <1>1, SshPoolTypeOK, PTL DEF Spec, OneConnectionPerHost

-----------------------------------------------------------------------------
(* One verdict per host *)

Overlap == reachable \cap unreachable

\* Only the inventory can put a host into both sets, and only by adding it: what
\* every other step writes for a host it writes for both.
OverlapStep == Overlap' \subseteq Overlap \cup (all' \ all)

LEMMA PruneKeepsApart ==
  ASSUME NEW H, PruneNodes(H) PROVE OverlapStep
  BY DEF PruneNodes, OverlapStep, Overlap

LEMMA OverlapNext == [Next]_vars => OverlapStep
<1> SUFFICES ASSUME [Next]_vars PROVE OverlapStep
  OBVIOUS
<1>0. ASSUME UNCHANGED sets PROVE OverlapStep
  BY <1>0 DEF sets, OverlapStep, Overlap
<1>1. CASE UNCHANGED vars
  BY <1>0, <1>1 DEF vars
<1>2. ASSUME NEW t, NEW h, Session(t, h) \/ ProbeMissed(t, h) PROVE OverlapStep
  BY <1>0, <1>2 DEF Session, Lookup, Dial, Run, RunDrops, ProbeMissed
<1>3. CASE ExecStart \/ ExecCollect \/ ExecDrops
  BY <1>0, <1>3 DEF ExecStart, ExecCollect, ExecDrops
<1>4. CASE ExecPrune
  BY <1>0, <1>4, PruneKeepsApart DEF ExecPrune
<1>5. CASE SweepStart \/ SweepTick \/ SweepNudge
  BY <1>0, <1>5 DEF SweepStart, SweepTick, SweepNudge
<1>6. CASE SweepPublish
  BY <1>6 DEF SweepPublish, OverlapStep, Overlap
<1>7. CASE SubsetPublish
  <2>1. Those("sub", "ok") \cap Those("sub", "missed") = {}
    BY DEF Those
  <2> QED  BY <1>7, <2>1 DEF SubsetPublish, OverlapStep, Overlap
<1>8. CASE UpdateCredentials
  BY <1>8 DEF UpdateCredentials, OverlapStep, Overlap
<1>9. CASE Refresh
  BY <1>9 DEF Refresh, OverlapStep, Overlap
<1>10. CASE RefreshDrops \/ RefreshAnswers
  BY <1>0, <1>10 DEF RefreshDrops, RefreshAnswers
<1>11. ASSUME NEW newCred, NEW H, RefreshArrives(newCred, H) PROVE OverlapStep
  BY <1>0, <1>11 DEF RefreshArrives
<1>12. ASSUME NEW h, Keepalive(h) PROVE OverlapStep
  <2>1. CASE KeepaliveDead(h) \/ KeepaliveDrops(h)
    BY <1>0, <2>1 DEF KeepaliveDead, KeepaliveDrops
  <2>2. CASE KeepalivePrunes(h)
    BY <2>2, PruneKeepsApart DEF KeepalivePrunes
  <2> QED  BY <1>12, <2>1, <2>2 DEF Keepalive
<1>13. ASSUME NEW h, NEW l, LinkChanges(h, l) PROVE OverlapStep
  BY <1>0, <1>13 DEF LinkChanges
<1> QED
  BY <1>1, <1>2, <1>3, <1>4, <1>5, <1>6, <1>7, <1>8, <1>9, <1>10, <1>11, <1>12, <1>13
  DEF Next, ExecStep, Probe, Handler

\* A host comes to be in both sets only by a refresh that adds it (back) to the
\* inventory: no verdict, prune or credential change ever puts it there.
THEOREM SshPoolOverlapOnlyByAdding ==
  Spec => [][(reachable \cap unreachable)'
               \subseteq (reachable \cap unreachable) \cup (all' \ all)]_vars
<1>1. [Next]_vars
        => [(reachable \cap unreachable)'
              \subseteq (reachable \cap unreachable) \cup (all' \ all)]_vars
  BY OverlapNext DEF OverlapStep, Overlap
<1> QED  BY <1>1, PTL DEF Spec

LEMMA InventoryOnlyByRefresh == [Next]_vars /\ ~Refresh => all' = all
<1>1. ASSUME NEW t, NEW h, Session(t, h) \/ ProbeMissed(t, h) PROVE UNCHANGED all
  BY <1>1 DEF Session, Lookup, Dial, Run, RunDrops, ProbeMissed, sets
<1>2. ASSUME NEW h, Keepalive(h) PROVE UNCHANGED all
  BY <1>2 DEF Keepalive, KeepaliveDead, KeepaliveDrops, KeepalivePrunes, PruneNodes,
              sets
<1>3. CASE ExecStart \/ ExecCollect \/ ExecPrune \/ ExecDrops
  BY <1>3 DEF ExecStart, ExecCollect, ExecPrune, ExecDrops, PruneNodes, sets
<1> QED
  BY <1>1, <1>2, <1>3
  DEF Next, ExecStep, SweepStart, SweepPublish, SweepTick, SweepNudge, SubsetPublish,
      Probe, Handler, UpdateCredentials, RefreshDrops, RefreshAnswers, RefreshArrives,
      LinkChanges, sets, vars

\* Until the first refresh has changed the inventory, ...
Early == refreshes = 0 \/ (refreshes = 1 /\ hd.at \in {"state", "refresh"})

\* ... everything the goroutines hold or remember is a host of it.
SessionsKnown == \A t \in Tasks, h \in Hosts : At(t, h) # "idle" => h \in all
CacheKnown == \A h \in Hosts : ka[h] # "idle" \/ conns[h].cred # 0 => h \in all
SetsKnown == reachable \cup unreachable \subseteq all

InventoryKnown == SetsKnown /\ SessionsKnown /\ CacheKnown

EarlyInv ==
  /\ Early => InventoryKnown
  /\ hd.at # "idle" => refreshes # 0

LEMMA EarlyInit == Init => EarlyInv
  BY DEF Init, EarlyInv, Early, InventoryKnown, SetsKnown, SessionsKnown,
         CacheKnown, NoRefresh, NoSession, NoConn, At

\* Closing entries wakes no session and caches nothing.
LEMMA DropKnown ==
  ASSUME CacheKnown, UNCHANGED <<all, ka>>, NEW H, NEW S \in SessType, Drop(H, S),
         \A t \in Tasks, h \in Hosts : S[t][h].at # "idle" => h \in all
  PROVE  CacheKnown' /\ SessionsKnown'
<1>1. \A t \in Tasks, h \in Hosts : sess'[t][h].at # "idle" => S[t][h].at # "idle"
  BY DEF Drop, Cut, SessType
<1> QED  BY <1>1 DEF Drop, CacheKnown, SessionsKnown, At, NoConn

LEMMA BatchKnown ==
  ASSUME TypeOK, SessionsKnown, NEW t \in Tasks, NEW H \in SUBSET all,
         UNCHANGED all, sess' = Batch(t, H) \/ sess' = Over(t)
  PROVE  SessionsKnown'
<1>1. sess \in SessType  BY DEF TypeOK, SessType
<1>2. ASSUME NEW u \in Tasks, NEW g \in Hosts, sess'[u][g].at # "idle"
      PROVE  g \in all
  <2>1. CASE u # t
    <3>1. sess'[u] = sess[u]  BY <1>1, <2>1 DEF Batch, Over, SessType
    <3> QED  BY <1>2, <3>1 DEF SessionsKnown, At
  <2>2. CASE u = t
    <3>1. sess'[t][g] = NoSession \/ g \in H
      BY <1>1 DEF Batch, Over, SessType
    <3> QED  BY <1>2, <2>2, <3>1 DEF NoSession
  <2> QED  BY <2>1, <2>2
<1> QED  BY <1>2 DEF SessionsKnown, At

LEMMA SessionKnown ==
  ASSUME TypeOK, InventoryKnown, NEW t \in Tasks, NEW h \in Hosts,
         Session(t, h) \/ ProbeMissed(t, h)
  PROVE  InventoryKnown'
<1> USE DEF InventoryKnown
<1>0. /\ UNCHANGED <<all, ka>> /\ SetsKnown' /\ At(t, h) # "idle"
      /\ sess \in SessType /\ h \in all
  BY DEF Session, Lookup, Dial, Run, RunDrops, ProbeMissed, sets, SetsKnown,
         SessionsKnown, TypeOK, SessType
<1>1. \A s : \A u \in Tasks, g \in Hosts : SetAt(t, h, s)[u][g].at # "idle" => g \in all
  BY <1>0 DEF SetAt, SessionsKnown, At, SessType
<1>2. CASE Lookup(t, h)
  <2>1. sess' = SetAt(t, h, "run")
          \/ sess' = [sess EXCEPT ![t][h] = [at |-> "dial", cred |-> cred]]
    BY <1>2 DEF Lookup
  <2>2. SessionsKnown'
    <3>1. CASE sess' = SetAt(t, h, "run")
      BY <1>0, <1>1, <3>1 DEF SessionsKnown, At
    <3>2. CASE sess' = [sess EXCEPT ![t][h] = [at |-> "dial", cred |-> cred]]
      <4>1. ASSUME NEW u \in Tasks, NEW g \in Hosts, ~(u = t /\ g = h)
            PROVE  sess'[u][g] = sess[u][g]
        BY <1>0, <3>2, <4>1 DEF SessType
      <4> QED  BY <1>0, <4>1 DEF SessionsKnown, At
    <3> QED  BY <2>1, <3>1, <3>2
  <2> QED  BY <1>0, <1>2, <2>2 DEF Lookup, CacheKnown
<1>3. CASE Dial(t, h) \/ Run(t, h)
  <2>1. sess' \in {SetAt(t, h, s) : s \in SessionPhase}
    BY <1>3 DEF Dial, Dialed, Run, SessionPhase
  <2>2. SessionsKnown'
    BY <1>0, <1>1, <2>1 DEF SessionsKnown, At
  <2>3. \A g \in Hosts : conns'[g].cred # 0 => conns[g].cred # 0 \/ g = h
    BY <1>3 DEF Dial, Dialed, Run, TypeOK
  <2> QED  BY <1>0, <2>2, <2>3 DEF CacheKnown
<1>4. CASE RunDrops(t, h) \/ ProbeMissed(t, h)
  <2>1. PICK s \in SessionPhase : Drop({h}, SetAt(t, h, s))
    BY <1>4 DEF RunDrops, ProbeMissed, SessionPhase
  <2>2. SetAt(t, h, s) \in SessType
    BY <1>0, SetAtType
  <2> QED  BY <1>0, <1>1, <2>1, <2>2, DropKnown
<1> QED  BY <1>2, <1>3, <1>4 DEF Session

LEMMA ExecKnown ==
  ASSUME TypeOK, InventoryKnown, ExecStart \/ ExecCollect \/ ExecPrune \/ ExecDrops
  PROVE  InventoryKnown'
<1> USE DEF InventoryKnown
<1>0. /\ "exec" \in Tasks /\ sess \in SessType /\ UNCHANGED <<all, ka>>
      /\ \A s : s # "idle" => Those("exec", s) \subseteq all
  BY DEF Tasks, TypeOK, SessType, ExecStart, ExecCollect, ExecPrune, ExecDrops,
         PruneNodes, sets, Those, SessionsKnown
<1>1. CASE ExecStart
  <2>1. SessionsKnown'
    BY <1>0, <1>1, BatchKnown DEF ExecStart, SetsKnown
  <2> QED  BY <1>1, <2>1 DEF ExecStart, sets, SetsKnown, CacheKnown
<1>2. CASE ExecCollect
  <2>1. Those("exec", "bad") \subseteq all
    BY <1>0
  <2>2. sess' = Batch("exec", Those("exec", "bad")) \/ sess' = Over("exec")
    BY <1>2 DEF ExecCollect
  <2>3. SessionsKnown'
    BY <1>0, <2>1, <2>2, BatchKnown
  <2> QED  BY <1>2, <2>3 DEF ExecCollect, sets, SetsKnown, CacheKnown
<1>3. CASE ExecPrune
  <2>1. StillDown \subseteq all
    BY <1>0 DEF StillDown
  <2>2. SetsKnown'
    BY <1>3, <2>1 DEF ExecPrune, PruneNodes, sets, SetsKnown
  <2>3. SessionsKnown'
    <3>1. CASE StillDown = {}
      BY <1>0, <1>3, <3>1, BatchKnown DEF ExecPrune
    <3>2. CASE StillDown # {}
      BY <1>0, <1>3, <2>1, <3>2
      DEF ExecPrune, SessionsKnown, At, NoSession, SessType
    <3> QED  BY <3>1, <3>2
  <2> QED  BY <1>3, <2>2, <2>3 DEF ExecPrune, PruneNodes, sets, CacheKnown
<1>4. CASE ExecDrops
  <2>1. PICK h \in Hosts : Drop({h}, SetAt("exec", h, "idle"))
    BY <1>4 DEF ExecDrops, Those
  <2>2. SetAt("exec", h, "idle") \in SessType
    BY <1>0, SetAtType DEF SessionPhase
  <2>3. \A u \in Tasks, g \in Hosts :
          SetAt("exec", h, "idle")[u][g].at # "idle" => g \in all
    BY <1>0 DEF SetAt, SessionsKnown, At, SessType
  <2>4. CacheKnown' /\ SessionsKnown'
    BY <1>0, <2>1, <2>2, <2>3, DropKnown
  <2> QED  BY <1>4, <2>4 DEF ExecDrops, sets, SetsKnown
<1> QED  BY <1>1, <1>2, <1>3, <1>4

LEMMA SweepKnown ==
  ASSUME TypeOK, InventoryKnown,
         SweepStart \/ SweepPublish \/ SweepTick \/ SweepNudge \/ SubsetPublish
  PROVE  InventoryKnown'
<1> USE DEF InventoryKnown
<1>0. /\ "bg" \in Tasks /\ "sub" \in Tasks /\ UNCHANGED <<all, ka, conns>>
      /\ \A t \in Tasks : \A s : s # "idle" => Those(t, s) \subseteq all
  BY DEF Tasks, SweepStart, SweepPublish, SweepTick, SweepNudge, SubsetPublish,
         sets, Those, SessionsKnown
<1>1. CacheKnown'
  BY <1>0 DEF CacheKnown
<1>2. SetsKnown'
  BY <1>0 DEF SweepStart, SweepPublish, SweepTick, SweepNudge, SubsetPublish, sets,
              SetsKnown
<1>3. SessionsKnown'
  <2>1. CASE SweepStart
    BY <1>0, <2>1, BatchKnown DEF SweepStart, SetsKnown
  <2>2. CASE SweepPublish \/ SubsetPublish
    BY <1>0, <2>2, BatchKnown DEF SweepPublish, SubsetPublish
  <2>3. CASE SweepTick \/ SweepNudge
    BY <2>3 DEF SweepTick, SweepNudge, sets, SessionsKnown, At
  <2> QED  BY <2>1, <2>2, <2>3
<1> QED  BY <1>1, <1>2, <1>3

LEMMA NodeKnown ==
  ASSUME TypeOK, InventoryKnown, NEW h \in Hosts,
         Keepalive(h) \/ \E l \in Links : LinkChanges(h, l)
  PROVE  InventoryKnown'
<1> USE DEF InventoryKnown
<1>1. CASE KeepaliveDead(h)
  BY <1>1 DEF KeepaliveDead, sets, SetsKnown, SessionsKnown, CacheKnown, At, TypeOK
<1>2. CASE KeepaliveDrops(h)
  <2>0. h \in all /\ UNCHANGED sets
    BY <1>2 DEF KeepaliveDrops, CacheKnown
  <2>1. /\ \A g \in Hosts : ka'[g] # "idle" => g \in all
        /\ ka' \in [Hosts -> {"idle", "drop", "prune", "dropAgain"}]
    BY <1>2, <2>0 DEF KeepaliveDrops, CacheKnown, TypeOK
  <2>2. \A g \in Hosts : conns'[g].cred # 0 => conns[g].cred # 0
    BY <1>2 DEF KeepaliveDrops, Drop, NoConn
  <2>3. SessionsKnown'
    <3>1. \A t \in Tasks, g \in Hosts :
            sess'[t][g].at # "idle" => sess[t][g].at # "idle"
      BY <1>2 DEF KeepaliveDrops, Drop, Cut, TypeOK
    <3> QED  BY <2>0, <3>1 DEF SessionsKnown, At, sets
  <2> QED  BY <2>0, <2>1, <2>2, <2>3 DEF sets, SetsKnown, CacheKnown
<1>3. CASE KeepalivePrunes(h)
  <2>1. h \in all
    BY <1>3 DEF KeepalivePrunes, CacheKnown
  <2> QED  BY <1>3, <2>1
           DEF KeepalivePrunes, PruneNodes, SetsKnown, SessionsKnown, CacheKnown, At,
               TypeOK
<1>4. ASSUME NEW l \in Links, LinkChanges(h, l) PROVE InventoryKnown'
  <2>1. \A g \in Hosts : conns'[g].cred = conns[g].cred
    BY <1>4 DEF LinkChanges, TypeOK
  <2> QED  BY <1>4, <2>1
           DEF LinkChanges, sets, SetsKnown, SessionsKnown, CacheKnown, At
<1> QED  BY <1>1, <1>2, <1>3, <1>4 DEF Keepalive

LEMMA EarlyNext == TypeOK /\ EarlyInv /\ [Next]_vars => EarlyInv'
<1> SUFFICES ASSUME TypeOK, EarlyInv, [Next]_vars PROVE EarlyInv'
  OBVIOUS
<1> USE DEF EarlyInv
<1>0. refreshes \in Nat
  BY SshPoolAssumption, SMT DEF TypeOK
<1>2. ASSUME NEW newCred \in BOOLEAN, NEW H \in SUBSET Hosts, RefreshArrives(newCred, H)
      PROVE  EarlyInv'
  <2>1. refreshes' = refreshes + 1 /\ refreshes' # 0
    BY <1>0, <1>2, SMT DEF RefreshArrives
  <2>2. CASE refreshes = 0
    <3>1. InventoryKnown  BY <2>2 DEF Early
    <3>2. UNCHANGED <<sets, ka>>  BY <1>2 DEF RefreshArrives
    <3>3. CacheKnown' /\ SessionsKnown'
      <4>1. CASE Drop(Hosts, sess)
        <5>1. sess \in SessType  BY DEF TypeOK, SessType
        <5>2. \A t \in Tasks, h \in Hosts : sess[t][h].at # "idle" => h \in all
          BY <3>1 DEF InventoryKnown, SessionsKnown, At
        <5> QED  BY <3>1, <3>2, <4>1, <5>1, <5>2, DropKnown DEF InventoryKnown, sets
      <4>2. CASE UNCHANGED <<conns, sess>>
        BY <3>1, <3>2, <4>2 DEF InventoryKnown, sets, CacheKnown, SessionsKnown, At
      <4> QED  BY <1>2, <4>1, <4>2 DEF RefreshArrives
    <3> QED  BY <2>1, <3>1, <3>2, <3>3 DEF InventoryKnown, SetsKnown, sets
  <2>3. CASE refreshes # 0
    <3>1. refreshes' # 1  BY <1>0, <2>1, <2>3, SMT
    <3> QED  BY <2>1, <3>1 DEF Early
  <2> QED  BY <2>2, <2>3
<1>3. CASE UpdateCredentials
  <2>1. refreshes' = refreshes /\ hd.at = "state" /\ hd'.at = "refresh"
    BY <1>3 DEF UpdateCredentials, TypeOK
  <2>2. InventoryKnown => InventoryKnown'
    BY <1>3 DEF UpdateCredentials, InventoryKnown, SetsKnown, SessionsKnown,
                CacheKnown, At
  <2> QED  BY <2>1, <2>2 DEF Early
<1>4. CASE Refresh
  BY <1>4 DEF Refresh, Early
<1>5. CASE RefreshDrops
  <2>1. refreshes' = refreshes /\ hd.at = "drop" /\ hd'.at = "drop" /\ UNCHANGED <<sets, ka>>
    BY <1>5 DEF RefreshDrops, TypeOK
  <2>2. InventoryKnown => InventoryKnown'
    <3>1. sess \in SessType  BY DEF TypeOK, SessType
    <3> QED  BY <1>5, <2>1, <3>1, DropKnown
             DEF RefreshDrops, InventoryKnown, SetsKnown, SessionsKnown, At, sets
  <2> QED  BY <2>1, <2>2 DEF Early
<1>6. CASE RefreshAnswers
  BY <1>6 DEF RefreshAnswers, NoRefresh, Early
<1>7. CASE Handler \/ \E newCred \in BOOLEAN, H \in SUBSET Hosts :
                        RefreshArrives(newCred, H)
  BY <1>2, <1>3, <1>4, <1>5, <1>6, <1>7 DEF Handler
<1>8. CASE \/ ExecStart \/ ExecStep
           \/ SweepStart \/ SweepPublish \/ SweepTick \/ SweepNudge \/ Probe("bg")
           \/ SubsetPublish \/ Probe("sub")
           \/ \E h \in Hosts : Keepalive(h)
           \/ \E h \in Hosts, l \in Links : LinkChanges(h, l)
           \/ UNCHANGED vars
  <2>1. ASSUME NEW t, NEW h, Session(t, h) \/ ProbeMissed(t, h)
        PROVE  UNCHANGED <<hd, refreshes>>
    BY <2>1 DEF Session, Lookup, Dial, Run, RunDrops, ProbeMissed
  <2>2. UNCHANGED <<hd, refreshes>>
    BY <1>8, <2>1
    DEF ExecStart, ExecStep, ExecCollect, ExecPrune, ExecDrops, SweepStart,
        SweepPublish, SweepTick, SweepNudge, SubsetPublish, Probe, Keepalive,
        KeepaliveDead, KeepaliveDrops, KeepalivePrunes, LinkChanges, vars
  <2>3. Early' => Early
    BY <2>2 DEF Early
  <2>4. ASSUME InventoryKnown PROVE InventoryKnown'
    <3>0. Tasks = {"exec", "bg", "sub"}  BY DEF Tasks
    <3>1. CASE ExecStart \/ ExecStep
      BY <2>4, <3>0, <3>1, SessionKnown, ExecKnown DEF ExecStep
    <3>2. CASE SweepStart \/ SweepPublish \/ SweepTick \/ SweepNudge \/ SubsetPublish
      BY <2>4, <3>2, SweepKnown
    <3>3. CASE Probe("bg") \/ Probe("sub")
      BY <2>4, <3>0, <3>3, SessionKnown DEF Probe
    <3>4. CASE \/ \E h \in Hosts : Keepalive(h)
               \/ \E h \in Hosts, l \in Links : LinkChanges(h, l)
      BY <2>4, <3>4, NodeKnown
    <3>5. CASE UNCHANGED vars
      BY <2>4, <3>5
      DEF vars, sets, InventoryKnown, SetsKnown, SessionsKnown, CacheKnown, At
    <3> QED  BY <1>8, <3>1, <3>2, <3>3, <3>4, <3>5
  <2> QED  BY <2>2, <2>3, <2>4
<1> QED  BY <1>7, <1>8 DEF Next

DisjointInv == EarlyInv /\ SetsDisjoint

LEMMA DisjointInit == Init => DisjointInv
  BY EarlyInit DEF Init, DisjointInv, SetsDisjoint

LEMMA DisjointNext == TypeOK /\ DisjointInv /\ [Next]_vars => DisjointInv'
<1> SUFFICES ASSUME TypeOK, DisjointInv, [Next]_vars PROVE DisjointInv'
  OBVIOUS
<1>1. EarlyInv'
  BY EarlyNext DEF DisjointInv
<1>2. ASSUME refreshes' <= 1 PROVE Overlap' = {}
  <2>1. refreshes \in Nat /\ (refreshes' = refreshes \/ refreshes' = refreshes + 1)
    <3>1. refreshes \in Nat
      BY SshPoolAssumption, SMT DEF TypeOK
    <3>2. ASSUME NEW t, NEW h, Session(t, h) \/ ProbeMissed(t, h)
          PROVE  UNCHANGED refreshes
      BY <3>2 DEF Session, Lookup, Dial, Run, RunDrops, ProbeMissed
    <3> QED
      BY <3>1, <3>2
      DEF Next, ExecStart, ExecStep, ExecCollect, ExecPrune, ExecDrops, SweepStart,
          SweepPublish, SweepTick, SweepNudge, SubsetPublish, Probe, Handler,
          UpdateCredentials, Refresh, RefreshDrops, RefreshAnswers, RefreshArrives,
          Keepalive, KeepaliveDead, KeepaliveDrops, KeepalivePrunes, LinkChanges, vars
  <2>2. refreshes <= 1
    BY <1>2, <2>1, SMT
  <2>3. Overlap = {}
    BY <2>2 DEF DisjointInv, SetsDisjoint, Overlap
  <2>4. CASE Refresh
    <3>1. Early
      <4>1. refreshes # 0 /\ hd.at = "refresh"
        BY <2>4 DEF DisjointInv, EarlyInv, Refresh
      <4>2. refreshes = 1
        BY <2>1, <2>2, <4>1, SMT
      <4> QED  BY <4>1, <4>2 DEF Early
    <3>2. unreachable \subseteq all
      BY <3>1 DEF DisjointInv, EarlyInv, InventoryKnown, SetsKnown
    <3> QED  BY <2>3, <2>4, <3>2 DEF Refresh, Overlap
  <2>5. CASE ~Refresh
    <3>1. all' = all
      BY <2>5, InventoryOnlyByRefresh
    <3> QED  BY <2>3, <3>1, OverlapNext DEF OverlapStep
  <2> QED  BY <2>4, <2>5
<1> QED  BY <1>1, <1>2 DEF DisjointInv, SetsDisjoint, Overlap

\* Until the inventory changes a second time no host is in both sets.
THEOREM SshPoolSetsDisjoint == Spec => []SetsDisjoint
<1>1. DisjointInv => SetsDisjoint  BY DEF DisjointInv
<1> QED  BY <1>1, DisjointInit, DisjointNext, SshPoolTypeOK, PTL DEF Spec

\* Until then Exec leaves the unreachable nodes alone, as its comment promises:
\* it takes a host that was removed and added back to break the promise.
THEOREM SshPoolExcludedUntilReadded ==
  Spec => [][ExecStart /\ refreshes <= 1
               => Those("exec", "look")' \cap unreachable = {}]_vars
<1>1. TypeOK /\ SetsDisjoint /\ [Next]_vars
        => [ExecStart /\ refreshes <= 1
              => Those("exec", "look")' \cap unreachable = {}]_vars
  <2> SUFFICES ASSUME TypeOK, SetsDisjoint, ExecStart, refreshes <= 1
               PROVE  Those("exec", "look")' \cap unreachable = {}
    OBVIOUS
  <2>1. "exec" \in Tasks /\ sess \in SessType
    BY DEF Tasks, TypeOK, SessType
  <2>2. Those("exec", "look")' \subseteq reachable
    BY <2>1 DEF ExecStart, Batch, Those, At, NoSession, SessType
  <2> QED  BY <2>2 DEF SetsDisjoint
<1> QED  BY <1>1, SshPoolTypeOK, SshPoolSetsDisjoint, PTL DEF Spec
=============================================================================
