------------------------ MODULE ParallelHandleProofs ------------------------
(***************************************************************************)
(* Proofs about ParallelHandle for every number of hosts, every shard size  *)
(* and every mode of call: each call is one step of FleetExec, its exit     *)
(* codes are true, and no healthy host is given up on.                      *)
(***************************************************************************)
EXTENDS ParallelHandle, FiniteSetTheorems, FunctionTheorems, SequenceTheorems, TLAPS

-----------------------------------------------------------------------------
(* What the helpers return *)

LEMMA NothingType == Fleet!Nothing \in [Hosts -> Fleet!Answer]
  BY DEF Fleet!Nothing, Fleet!Answer

\* Sets of hosts are finite, and so are the parts that positions count.
LEMMA HostsFinite ==
  ASSUME NEW S \in SUBSET Hosts
  PROVE  IsFiniteSet(S) /\ Cardinality(S) \in 0..N
<1>1. IsFiniteSet(1..N) /\ Cardinality(1..N) = N /\ N \in Nat
  BY ParallelHandleAssumption, FS_Interval, SMT
<1>2. IsFiniteSet(S) /\ Cardinality(S) <= N
  BY <1>1, FS_Subset DEF Hosts
<1>3. Cardinality(S) \in Nat
  BY <1>2, FS_CardinalityType
<1> QED  BY <1>1, <1>2, <1>3

\* A host of a list stands at one of its places.
LEMMA PositionIn ==
  ASSUME NEW S \in SUBSET Hosts, NEW h \in S
  PROVE  Position(h, S) \in 1..Cardinality(S)
<1> DEFINE R == {g \in S : g <= h}
<1>1. h \in R
  BY DEF Hosts
<1>2. IsFiniteSet(S) /\ Cardinality(S) \in Nat
  BY HostsFinite
<1>3. IsFiniteSet(R) /\ Cardinality(R) <= Cardinality(S) /\ Cardinality(R) \in Nat
  BY <1>2, FS_Subset, FS_CardinalityType
<1>4. Cardinality(R) # 0
  BY <1>1, <1>3, FS_EmptySet
<1> HIDE DEF R
<1>5. Cardinality(R) \in 1..Cardinality(S)
  BY <1>2, <1>3, <1>4
<1> QED  BY <1>5 DEF Position, R

\* A list keeps the order of the inventory.
LEMMA PositionGrows ==
  ASSUME NEW S \in SUBSET Hosts, NEW g \in S, NEW h \in S, g < h
  PROVE  Position(g, S) < Position(h, S)
<1> DEFINE G == {x \in S : x <= g}
           H == {x \in S : x <= h}
<1>1. \A x \in S : x \in Nat
  BY ParallelHandleAssumption DEF Hosts
<1>2. G \subseteq H /\ h \in H /\ h \notin G
  BY <1>1
<1>3. IsFiniteSet(H)
  BY HostsFinite
<1>4. /\ Cardinality(G) <= Cardinality(H) /\ Cardinality(G) # Cardinality(H)
      /\ Cardinality(G) \in Nat /\ Cardinality(H) \in Nat
  BY <1>2, <1>3, FS_Subset, FS_CardinalityType
<1> HIDE DEF G, H
<1>5. Cardinality(G) < Cardinality(H)
  BY <1>4
<1> QED  BY <1>5 DEF Position, G, H

LEMMA PositionInjective ==
  ASSUME NEW S \in SUBSET Hosts, NEW g \in S, NEW h \in S,
         Position(g, S) = Position(h, S)
  PROVE  g = h
<1>1. g \in Nat /\ h \in Nat
  BY ParallelHandleAssumption DEF Hosts
<1>2. Position(g, S) \in Nat
  BY PositionIn
<1>3. ~(g < h) /\ ~(h < g)
  BY <1>2, PositionGrows, SMT
<1> QED  BY <1>1, <1>3

\* Every place of a list has its host.
LEMMA PositionSurjective ==
  ASSUME NEW S \in SUBSET Hosts, NEW k \in 1..Cardinality(S)
  PROVE  \E h \in S : Position(h, S) = k
<1> DEFINE n == Cardinality(S)
           f == [h \in S |-> Position(h, S)]
<1>1. n \in Nat /\ IsFiniteSet(S)
  BY HostsFinite
<1>2. IsFiniteSet(1..n) /\ Cardinality(1..n) = n
  BY <1>1, FS_Interval
<1>3. f \in [S -> 1..n] /\ \A g, h \in S : f[g] = f[h] => g = h
  BY PositionIn, PositionInjective
<1>4. f \in Injection(S, 1..n)
  BY <1>3, Fun_IsInj
<1> HIDE DEF f
<1>5. f \in Surjection(S, 1..n)
  BY <1>2, <1>4, FS_Injection
<1>6. \E h \in S : f[h] = k
  BY <1>5 DEF Surjection
<1> QED  BY <1>6 DEF f

\* The list of a set of hosts, and what stands in it.
LEMMA InOrderList ==
  ASSUME NEW S \in SUBSET Hosts
  PROVE  /\ InOrder(S) \in [1..Cardinality(S) -> S]
         /\ Len(InOrder(S)) = Cardinality(S)
         /\ \A h \in S : InOrder(S)[Position(h, S)] = h
<1> DEFINE n == Cardinality(S)
<1>1. n \in Nat
  BY HostsFinite
<1>2. InOrder(S) \in [1..n -> S]
  BY PositionSurjective DEF InOrder
<1>3. InOrder(S) \in Seq(S) /\ DOMAIN InOrder(S) = 1..n
  BY <1>1, <1>2, SeqDef
<1>4. Len(InOrder(S)) \in Nat /\ 1..Len(InOrder(S)) = 1..n
  BY <1>3, LenProperties
<1>5. Len(InOrder(S)) = n
  BY <1>1, <1>4, SMT
<1>6. ASSUME NEW h \in S PROVE InOrder(S)[Position(h, S)] = h
  <2>1. Position(h, S) \in 1..n
    BY PositionIn
  <2>2. InOrder(S)[Position(h, S)]
          = CHOOSE g \in S : Position(g, S) = Position(h, S)
    BY <2>1 DEF InOrder
  <2> QED  BY <2>2, PositionInjective
<1> QED  BY <1>2, <1>5, <1>6

\* The chunks are sets of hosts and cover the reachable ones.
LEMMA ChunksCover ==
  ASSUME reach \subseteq Hosts
  PROVE  Chunks \subseteq SUBSET Hosts /\ UNION Chunks = reach
<1>1. \A h \in reach : h \in ChunkOf(h) /\ ChunkOf(h) \subseteq reach
  BY DEF ChunkOf
<1>2. UNION Chunks = reach
  BY <1>1, Zenon DEF Chunks
<1> QED  BY <1>2

-----------------------------------------------------------------------------
(* Lists of commands *)

\* Hosts that come before one of a chunk come before all of it, or are in it.
LEMMA BeforeChunk ==
  ASSUME TypeOK, sharded, NEW h \in reach, NEW g \in reach, g <= h, g \notin ChunkOf(h)
  PROVE  \A x \in ChunkOf(h) : g < x
<1> SUFFICES ASSUME NEW x \in ChunkOf(h) PROVE g < x
  OBVIOUS
<1>1. x \in reach /\ reach \in SUBSET Hosts
  BY DEF ChunkOf, TypeOK
<1>2. g \in Nat /\ h \in Nat /\ x \in Nat
  BY <1>1, ParallelHandleAssumption DEF Hosts
<1>3. hostsPerShard \in Nat \ {0}
  BY ParallelHandleAssumption DEF TypeOK, sharded
<1>4. Rank(g) \in Nat \ {0} /\ Rank(h) \in Nat \ {0} /\ Rank(x) \in Nat \ {0}
  BY <1>1, PositionIn, HostsFinite DEF Rank
<1>5. Rank(g) <= Rank(h)
  BY <1>1, <1>2, <1>4, PositionGrows, SMT DEF Rank
<1>6. SUFFICES ASSUME x <= g PROVE FALSE
  BY <1>2
<1>7. Rank(x) <= Rank(g)
  BY <1>1, <1>2, <1>4, <1>6, PositionGrows, SMT DEF Rank
<1>8. (Rank(x) - 1) \div hostsPerShard = (Rank(h) - 1) \div hostsPerShard
  BY DEF ChunkOf
<1>9. (Rank(g) - 1) \div hostsPerShard # (Rank(h) - 1) \div hostsPerShard
  BY DEF ChunkOf
<1> QED  BY <1>3, <1>4, <1>5, <1>7, <1>8, <1>9, SMT

\* The slice of a chunk begins where the chunk does: the place of a host among the
\* reachable ones is its place in the chunk behind those of the chunks before.
LEMMA SlicePosition ==
  ASSUME TypeOK, sharded, NEW h \in reach
  PROVE  LET S == ChunkOf(h)
             offset == Cardinality({g \in reach : \A x \in S : g < x})
         IN  /\ offset \in Nat
             /\ Rank(h) = offset + Position(h, S)
<1> DEFINE S == ChunkOf(h)
           A == {g \in reach : \A x \in S : g < x}
           P == {g \in S : g <= h}
           R == {g \in reach : g <= h}
<1>1. S \subseteq reach /\ reach \in SUBSET Hosts /\ h \in S
  BY DEF ChunkOf, TypeOK
<1>2. \A g \in reach : g \in Nat
  BY <1>1, ParallelHandleAssumption DEF Hosts
<1>3. \A g \in reach : g <= h /\ g \notin S => g \in A
  BY BeforeChunk
<1>4. R = A \cup P
  BY <1>1, <1>2, <1>3
<1>5. A \cap P = {}
  BY <1>1, <1>2
<1>6. IsFiniteSet(A) /\ IsFiniteSet(P)
  BY <1>1, HostsFinite
<1>7. Cardinality(A) \in Nat /\ Cardinality(P) \in Nat
  BY <1>6, FS_CardinalityType
<1> HIDE DEF A, P, R
<1>8. Cardinality(A \cup P) = Cardinality(A) + Cardinality(P) - Cardinality(A \cap P)
  BY <1>6, FS_Union
<1>9. Cardinality(A \cap P) = 0
  BY <1>5, FS_EmptySet
<1>10. Cardinality(R) = Cardinality(A) + Cardinality(P)
  BY <1>4, <1>7, <1>8, <1>9
<1> QED  BY <1>7, <1>10 DEF Rank, Position, A, P, R

\* The list that the parent cuts has for each reachable host the command written for
\* it, whether the caller wrote for all hosts or for those that are reachable.
LEMMA FilteredOwn ==
  ASSUME TypeOK, sharded, NEW written \in SUBSET Hosts, reach \subseteq written,
         Accepted(InOrder(written)), NEW h \in reach
  PROVE  Filtered(InOrder(written))[Rank(h)] = h
<1> DEFINE list == InOrder(written)
           cmdHosts == IF Len(list) = N THEN Hosts ELSE reach
<1>1. reach \in SUBSET Hosts /\ Hosts \in SUBSET Hosts
  BY DEF TypeOK
<1>2. IsFiniteSet(Hosts) /\ Cardinality(Hosts) = N
  BY ParallelHandleAssumption, FS_Interval, SMT DEF Hosts
<1>3. IsFiniteSet(written) /\ Len(list) = Cardinality(written)
  BY InOrderList, HostsFinite
<1>4. cmdHosts = written
  <2>1. CASE Len(list) = N
    BY <1>2, <1>3, <2>1, FS_Subset
  <2>2. CASE Len(list) # N
    <3>1. Cardinality(written) = Cardinality(reach)
      BY <1>3, <2>2 DEF Accepted
    <3> QED  BY <1>3, <2>2, <3>1, FS_Subset
  <2> QED  BY <2>1, <2>2
<1>5. Rank(h) \in 1..Cardinality(reach) /\ InOrder(reach)[Rank(h)] = h
  BY <1>1, PositionIn, InOrderList DEF Rank
<1>6. Filtered(list)[Rank(h)] = Zip(cmdHosts, list)[h]
  BY <1>5 DEF Filtered
<1>7. Zip(written, list)[h] = h
  BY InOrderList DEF Zip
<1> QED  BY <1>4, <1>6, <1>7

\* Zip, filter, slice and the worker's own pairing together give every host its own.
LEMMA AssignedOwn ==
  ASSUME TypeOK, sharded, NEW written \in SUBSET Hosts, reach \subseteq written,
         Accepted(InOrder(written)), NEW h \in reach
  PROVE  Assigned(InOrder(written))[h] = h
<1> DEFINE list == InOrder(written)
           S == ChunkOf(h)
           offset == Cardinality({g \in reach : \A x \in S : g < x})
           p == Position(h, S)
           m == offset + 1
           n == offset + Cardinality(S)
<1>1. h \in S /\ S \subseteq reach /\ reach \in SUBSET Hosts /\ h \in Hosts
  BY DEF ChunkOf, TypeOK
<1>2. offset \in Nat /\ Rank(h) = offset + p
  BY SlicePosition
<1>3. p \in 1..Cardinality(S) /\ Cardinality(S) \in Nat
  BY <1>1, PositionIn, HostsFinite
<1>4. Assigned(list)[h] = SubSeq(Filtered(list), m, n)[p]
  BY <1>1 DEF Assigned, Zip, ShardCommands
<1> HIDE DEF offset, p, S
<1>5. m \in Int /\ n \in Int /\ p \in 1..n - m + 1 /\ m + p - 1 = Rank(h)
  BY <1>2, <1>3
<1> DEFINE All == {Filtered(list)[i] : i \in m..n}
<1>6. \A i \in m..n : Filtered(list)[i] \in All
  OBVIOUS
<1> HIDE DEF m, n, All
<1>7. SubSeq(Filtered(list), m, n)[p] = Filtered(list)[m + p - 1]
  BY <1>5, <1>6, SubSeqProperties
<1> QED  BY <1>4, <1>5, <1>7, FilteredOwn

LEMMA AssignedType ==
  ASSUME TypeOK, NEW written \in SUBSET Hosts, reach \subseteq written,
         Accepted(InOrder(written))
  PROVE  Assigned(InOrder(written)) \in [Hosts -> 0..N]
<1> DEFINE list == InOrder(written)
<1>1. \A h \in Hosts : h \in 0..N /\ 0 \in 0..N
  BY ParallelHandleAssumption, SMT DEF Hosts
<1>2. ASSUME NEW h \in reach, ~sharded PROVE Zip(reach, list)[h] \in Hosts
  <2>1. Position(h, reach) \in 1..Cardinality(reach)
    BY PositionIn DEF TypeOK
  <2>2. /\ IsFiniteSet(written) /\ Cardinality(written) \in Nat
        /\ Cardinality(reach) <= Cardinality(written) /\ Cardinality(reach) \in Nat
    BY HostsFinite, FS_Subset DEF TypeOK
  <2>3. Position(h, reach) \in 1..Cardinality(written)
    BY <2>1, <2>2
  <2> QED  BY <2>3, InOrderList DEF Zip
<1>3. ASSUME NEW h \in Hosts PROVE Assigned(list)[h] \in 0..N
  <2>1. CASE h \notin reach
    BY <1>1, <2>1 DEF Assigned
  <2>2. CASE h \in reach /\ sharded
    BY <1>1, <2>2, AssignedOwn
  <2>3. CASE h \in reach /\ ~sharded
    BY <1>1, <1>2, <2>3 DEF Assigned
  <2> QED  BY <2>1, <2>2, <2>3
<1> QED  BY <1>3 DEF Assigned

-----------------------------------------------------------------------------
(* Type correctness *)

LEMMA TypeInit == Init => TypeOK
<1> SUFFICES ASSUME Init PROVE TypeOK
  OBVIOUS
<1>1. cmd \in [Hosts -> 0..N]
  BY ParallelHandleAssumption, SMT DEF Init
<1>2. ret \in Fleet!Returns /\ out \in [Hosts -> Fleet!Answer]
  BY NothingType DEF Init, Fleet!Returns
<1>3. stage \in [parts -> Stages] /\ bad \in [parts -> SUBSET Hosts]
  BY DEF Init, Stages
<1>4. fate \in [Hosts -> Fates] /\ exc \in [Hosts -> Excs] /\ call \in Calls
  BY DEF Init, Fates, Excs, Calls, Idle
<1> QED  BY <1>1, <1>2, <1>3, <1>4 DEF Init, TypeOK

LEMMA FreshType ==
  Fresh => /\ fate' \in [Hosts -> Fates] /\ exc' \in [Hosts -> Excs]
           /\ out' \in [Hosts -> Fleet!Answer]
  BY NothingType DEF Fresh, Fates, Excs

LEMMA BeginType ==
  ASSUME TypeOK, NEW c \in Calls, NEW assigned \in [Hosts -> 0..N], Begin(c, assigned)
  PROVE  TypeOK'
<1>1. Chunks \subseteq SUBSET Hosts
  BY ChunksCover DEF TypeOK
<1>2. call' \in Calls
  BY DEF Begin, Calls
<1>3. /\ parts' \subseteq SUBSET Hosts
      /\ stage' \in [parts' -> Stages] /\ bad' \in [parts' -> SUBSET Hosts]
  BY <1>1 DEF Begin, Stages
<1>4. ret' \in Fleet!Returns
  BY NothingType DEF Begin, Fleet!Returns
<1>5. cmd' \in [Hosts -> 0..N] /\ down' \subseteq Hosts
  BY DEF Begin
<1>6. /\ fate' \in [Hosts -> Fates] /\ exc' \in [Hosts -> Excs]
      /\ out' \in [Hosts -> Fleet!Answer]
  BY FreshType DEF Begin
<1> QED  BY <1>2, <1>3, <1>4, <1>5, <1>6 DEF Begin, TypeOK, handle

LEMMA LeaveType ==
  ASSUME TypeOK, Leave, reach' \subseteq Hosts, unreach' \subseteq Hosts,
         hostsPerShard' = hostsPerShard, ret' \in Fleet!Returns
  PROVE  TypeOK'
<1>1. call' \in Calls
  BY DEF Leave, Idle, Calls
<1>2. /\ parts' \subseteq SUBSET Hosts
      /\ stage' \in [parts' -> Stages] /\ bad' \in [parts' -> SUBSET Hosts]
  BY DEF Leave, NoParts, Stages
<1>3. cmd' \in [Hosts -> 0..N]
  BY ParallelHandleAssumption, SMT DEF Leave
<1>4. /\ fate' \in [Hosts -> Fates] /\ exc' \in [Hosts -> Excs]
      /\ out' \in [Hosts -> Fleet!Answer]
  BY FreshType DEF Leave
<1> QED  BY <1>1, <1>2, <1>3, <1>4 DEF Leave, TypeOK

LEMMA EndedType == \A f \in Fates : Ended(f) \in Fleet!Answer
  BY DEF Ended, Fates, Fleet!Answer

LEMMA LostType == TypeOK => Lost \subseteq Hosts
  BY DEF TypeOK, Lost

\* What the steps of one part change keeps its type.
LEMMA WorkType ==
  ASSUME TypeOK, NEW S \in parts, Work(S) PROVE TypeOK'
<1>0. S \subseteq Hosts
  BY DEF TypeOK
<1>1. ASSUME NEW h \in S, Connect(S, h) PROVE TypeOK'
  <2>1. fate' \in [Hosts -> Fates] /\ exc' \in [Hosts -> Excs]
    BY <1>0, <1>1 DEF Connect, TypeOK, Fates, Excs
  <2> QED  BY <2>1, <1>1 DEF Connect, TypeOK, handle
<1>2. ASSUME NEW h \in S, ReadItem(S, h) PROVE TypeOK'
  <2>1. (IF exc[h] # "none" THEN "abort" ELSE Ended(fate[h])) \in Fleet!Answer
    BY <1>0, EndedType DEF TypeOK, Fleet!Answer
  <2>2. out' \in [Hosts -> Fleet!Answer]
    BY <2>1, <1>2 DEF ReadItem, TypeOK
  <2> QED  BY <2>2, <1>2 DEF ReadItem, TypeOK, handle
<1>3. ASSUME NEW h \in S, ReadTimeout(S, h) PROVE TypeOK'
  <2>1. exc' \in [Hosts -> Excs]
    BY <1>3 DEF ReadTimeout, TypeOK, Excs
  <2>2. out' \in [Hosts -> Fleet!Answer]
    BY <1>3 DEF ReadTimeout, TypeOK, Fleet!Answer
  <2> QED  BY <2>1, <2>2, <1>3 DEF ReadTimeout, TypeOK, handle
<1>4. CASE Connected(S)
  BY <1>4 DEF Connected, TypeOK, handle, items, Stages
<1>5. CASE ReadRaises(S)
  BY <1>5 DEF ReadRaises, TypeOK, handle, items, Stages
<1>6. CASE Check(S)
  <2>1. bad' \in [parts -> SUBSET Hosts]
    BY <1>0, <1>6 DEF Check, TypeOK
  <2> QED  BY <2>1, <1>6 DEF Check, TypeOK, handle, items, Stages
<1>7. CASE PruneFailed(S)
  <2>1. out' \in [Hosts -> Fleet!Answer]
    BY <1>7 DEF PruneFailed, TypeOK, Fleet!Answer
  <2> QED  BY <2>1, <1>7 DEF PruneFailed, TypeOK, handle, Stages
<1> QED  BY <1>1, <1>2, <1>3, <1>4, <1>5, <1>6, <1>7 DEF Work

\* Both kinds of call begin with a command, or none, for every host.
LEMMA CallsBegin ==
  ASSUME TypeOK, NEW m \in Modes,
         Exec(m) \/ \E written \in SUBSET Hosts : ExecCmdList(written, m.timeout)
  PROVE  /\ \E c \in Calls, assigned \in [Hosts -> 0..N] :
              /\ Begin(c, assigned)
              /\ sharded => \A h \in reach : assigned[h] = h
         /\ ~call.busy
<1>1. m \in [detailed : BOOLEAN, console : BOOLEAN, timeout : BOOLEAN]
  BY ParallelHandleAssumption
<1>2. \A h \in Hosts : h \in 0..N /\ 0 \in 0..N
  BY ParallelHandleAssumption, SMT DEF Hosts
<1>3. reach \subseteq Hosts
  BY DEF TypeOK
<1>4. CASE Exec(m)
  <2> DEFINE c == [op |-> "exec", busy |-> TRUE, detailed |-> m.detailed,
                   console |-> m.console, timeout |-> m.timeout]
             a == [h \in Hosts |-> IF h \in reach THEN h ELSE 0]
  <2>1. c \in Calls
    BY <1>1 DEF Calls
  <2>2. a \in [Hosts -> 0..N] /\ \A h \in reach : a[h] = h
    BY <1>2, <1>3
  <2>3. Begin(c, a) /\ ~call.busy
    BY <1>4 DEF Exec
  <2> QED  BY <2>1, <2>2, <2>3
<1>5. ASSUME NEW written \in SUBSET Hosts, ExecCmdList(written, m.timeout)
      PROVE  /\ \E c \in Calls, assigned \in [Hosts -> 0..N] :
                  /\ Begin(c, assigned)
                  /\ sharded => \A h \in reach : assigned[h] = h
             /\ ~call.busy
  <2> DEFINE c == [op |-> "list", busy |-> TRUE, detailed |-> FALSE,
                   console |-> TRUE, timeout |-> m.timeout]
             a == Assigned(InOrder(written))
  <2>1. c \in Calls
    BY <1>1 DEF Calls
  <2>2. reach \subseteq written /\ Accepted(InOrder(written)) /\ Begin(c, a) /\ ~call.busy
    BY <1>5 DEF ExecCmdList
  <2>3. a \in [Hosts -> 0..N] /\ (sharded => \A h \in reach : a[h] = h)
    BY <2>2, AssignedType, AssignedOwn
  <2> HIDE DEF c, a
  <2> QED  BY <2>1, <2>2, <2>3
<1> QED  BY <1>4, <1>5

LEMMA TypeNext == TypeOK /\ [Next]_vars => TypeOK'
<1> SUFFICES ASSUME TypeOK, [Next]_vars PROVE TypeOK'
  OBVIOUS
<1>1. ASSUME NEW m \in Modes,
             Exec(m) \/ \E written \in SUBSET Hosts : ExecCmdList(written, m.timeout)
      PROVE  TypeOK'
  BY <1>1, CallsBegin, BeginType
<1>2. ASSUME NEW S \in parts, Work(S) PROVE TypeOK'
  BY <1>2, WorkType
<1>3. CASE ReturnRaise
  <2>1. ret' \in Fleet!Returns
    BY <1>3, NothingType DEF ReturnRaise, Fleet!Returns
  <2> QED  BY <2>1, <1>3, LeaveType DEF ReturnRaise, handle, TypeOK
<1>4. CASE Return
  <2>1. [h \in Hosts |-> IF ~sharded /\ h \in unreach THEN "abort" ELSE out[h]]
          \in [Hosts -> Fleet!Answer]
    BY DEF TypeOK, Fleet!Answer
  <2>2. ret' \in Fleet!Returns
    BY <1>4, <2>1, NothingType DEF Return, Fleet!Returns
  <2>3. reach' \subseteq Hosts /\ unreach' \subseteq Hosts
    BY <1>4, LostType DEF Return, TypeOK
  <2> QED  BY <2>2, <2>3, <1>4, LeaveType DEF Return
<1>5. ASSUME NEW dead \in SUBSET Hosts, PruneNodes(dead) PROVE TypeOK'
  BY <1>5 DEF PruneNodes, TypeOK, items
<1>6. ASSUME NEW h \in Hosts, Finish(h) PROVE TypeOK'
  BY <1>6 DEF Finish, TypeOK, handle, Fates
<1>7. ASSUME NEW h \in Hosts, GoDown(h) PROVE TypeOK'
  BY <1>7 DEF GoDown, TypeOK, handle, items
<1>8. ASSUME NEW h \in Hosts, ComeUp(h) PROVE TypeOK'
  BY <1>8 DEF ComeUp, TypeOK, handle, items
<1>9. CASE UNCHANGED vars
  BY <1>9 DEF TypeOK, vars, handle, items
<1>10. ASSUME NEW written \in SUBSET Hosts, RefuseCmdList(written) PROVE TypeOK'
  <2>1. ret' \in Fleet!Returns
    BY <1>10, NothingType DEF RefuseCmdList, Fleet!Returns
  <2> QED  BY <1>10, <2>1 DEF RefuseCmdList, TypeOK, handle, items
<1> QED  BY <1>1, <1>2, <1>3, <1>4, <1>5, <1>6, <1>7, <1>8, <1>9, <1>10 DEF Next

\* Every variable of the handle keeps its type.
THEOREM ParallelHandleTypeOK == Spec => []TypeOK
  BY TypeInit, TypeNext, PTL DEF Spec

-----------------------------------------------------------------------------
(* The inductive invariant *)

\* The inductive invariant: the parts of a call cover the hosts
\* that are known, a part answers for its hosts before it forgets any, and what
\* it forgets was seen down (_process_output, prune_unreachable_hosts).
PartsCover == IF call.busy THEN UNION parts = reach ELSE parts = {}
PartState(S) ==
  /\ bad[S] \subseteq S \cap down
  /\ stage[S] \in {"connect", "read", "raised"} => bad[S] = {}
  /\ stage[S] \in {"prune", "done"} => Unread(S) = {}
  /\ stage[S] = "done" => \A h \in bad[S] : out[h] = "abort"
HostState(h) ==
  /\ h \in reach \cup unreach
  /\ h \notin reach \/ ~call.busy => out[h] = "absent"
  /\ out[h] = "ok" => fate[h] = "zero"
  /\ out[h] = "fail" => fate[h] = "nonzero"
  /\ call.busy => h \in up \cup down
  /\ sharded => /\ fate[h] # "none" => cmd[h] = h
                /\ call.busy /\ h \in reach => cmd[h] = h
CallInv ==
  /\ PartsCover
  /\ \A S \in parts : PartState(S)
  /\ \A h \in Hosts : HostState(h)

LEMMA InvInit == Init => CallInv
<1> SUFFICES ASSUME Init PROVE CallInv
  OBVIOUS
<1>1. PartsCover
  BY DEF Init, Idle, PartsCover
<1>2. \A h \in Hosts : HostState(h)
  BY DEF Init, Idle, HostState, Fleet!Nothing
<1> QED  BY <1>1, <1>2 DEF Init, CallInv

\* A call begins with chunks that cover what is reachable, and nothing in them.
LEMMA InvBegin ==
  ASSUME TypeOK, CallInv, NEW c \in Calls, NEW assigned \in [Hosts -> 0..N],
         Begin(c, assigned), sharded => \A h \in reach : assigned[h] = h
  PROVE  CallInv'
<1>1. call'.busy
  BY DEF Begin, Calls
<1>2. parts' = Chunks /\ reach' = reach /\ unreach' = unreach /\ UNION Chunks = reach
      /\ hostsPerShard' = hostsPerShard /\ up' = up /\ down' = Hosts \ up
  BY ChunksCover DEF Begin, handle, TypeOK
<1>3. PartsCover'
  BY <1>1, <1>2 DEF PartsCover
<1>4. ASSUME NEW S \in parts' PROVE PartState(S)'
  BY <1>2 DEF Begin, PartState
<1>5. ASSUME NEW h \in Hosts PROVE HostState(h)'
  <2>1. fate'[h] = "none" /\ out'[h] = "absent"
    BY DEF Begin, Fresh, Fleet!Nothing
  <2>2. h \in reach' \cup unreach' /\ h \in up' \cup down'
    BY <1>2 DEF CallInv, HostState
  <2>3. sharded' /\ h \in reach' => cmd'[h] = h
    BY <1>2 DEF Begin, sharded
  <2> QED  BY <2>1, <2>2, <2>3 DEF HostState
<1> QED  BY <1>3, <1>4, <1>5 DEF CallInv

\* The steps of a part leave the handle and the call as they are.
LEMMA WorkFrame ==
  ASSUME NEW S, Work(S)
  PROVE  /\ UNCHANGED <<hostsPerShard, reach, unreach, up, call, parts, cmd, ret, down>>
         /\ sharded' = sharded
  BY DEF Work, Connect, ReadItem, ReadTimeout, Connected, ReadRaises, Check,
         PruneFailed, handle, items, sharded

\* What it takes for a step of a part to keep the invariant: the other parts
\* stay as they are, and answers once given are not taken back.
LEMMA InvWork ==
  ASSUME TypeOK, CallInv, NEW S \in parts, Work(S) PROVE CallInv'
<1>0. /\ UNCHANGED <<hostsPerShard, reach, unreach, up, call, parts, cmd, down>>
      /\ sharded' = sharded
  BY WorkFrame
<1>1. PartsCover'
  BY <1>0 DEF PartsCover, CallInv
<1>2. call.busy /\ S \subseteq reach /\ reach \subseteq Hosts
  BY DEF CallInv, PartsCover, TypeOK
<1>3. SUFFICES /\ \A T \in parts : PartState(T)'
               /\ \A h \in Hosts : HostState(h)'
  BY <1>0, <1>1 DEF CallInv
<1>4. \A T \in parts : PartState(T)
  BY DEF CallInv
<1>5. \A h \in Hosts : HostState(h)
  BY DEF CallInv
<1>6. ASSUME NEW h \in S, Connect(S, h)
      PROVE  (\A T \in parts : PartState(T)') /\ (\A g \in Hosts : HostState(g)')
  <2>1. bad' = bad /\ stage' = stage /\ out' = out
    BY <1>6 DEF Connect
  <2>2. \A T \in parts : PartState(T)'
    BY <1>0, <1>4, <2>1 DEF PartState, Unread
  <2>3. fate[h] = "none" /\ \A g \in Hosts : g = h \/ fate'[g] = fate[g]
    BY <1>6, <1>2 DEF Connect, TypeOK
  <2>4. cmd[h] = h \/ ~sharded
    BY <1>2, <1>5 DEF HostState
  <2>5. ASSUME NEW g \in Hosts PROVE HostState(g)'
    BY <1>0, <1>2, <1>5, <2>1, <2>3, <2>4 DEF HostState
  <2> QED  BY <2>2, <2>5
<1>7. ASSUME NEW h \in S, ReadItem(S, h)
      PROVE  (\A T \in parts : PartState(T)') /\ (\A g \in Hosts : HostState(g)')
  <2>1. bad' = bad /\ stage' = stage /\ fate' = fate
    BY <1>7 DEF ReadItem
  <2>2. /\ out[h] = "absent" /\ out'[h] # "absent"
        /\ out'[h] = "ok" => fate[h] = "zero"
        /\ out'[h] = "fail" => fate[h] = "nonzero"
    BY <1>2, <1>7 DEF ReadItem, Turn, Unread, Ended, TypeOK
  <2>3. \A g \in Hosts : g # h => out'[g] = out[g]
    BY <1>7 DEF ReadItem, TypeOK
  <2>4. ASSUME NEW T \in parts PROVE PartState(T)'
    <3>1. T \subseteq Hosts /\ bad[T] \subseteq Hosts
      BY DEF TypeOK
    <3>2. Unread(T)' \subseteq Unread(T)
      BY <2>2, <2>3, <3>1 DEF Unread
    <3>3. \A g \in Hosts : out[g] = "abort" => out'[g] = "abort"
      BY <2>2, <2>3
    <3> QED  BY <1>0, <1>4, <2>1, <3>1, <3>2, <3>3 DEF PartState
  <2>5. ASSUME NEW g \in Hosts PROVE HostState(g)'
    BY <1>0, <1>2, <1>5, <2>1, <2>2, <2>3 DEF HostState
  <2> QED  BY <2>4, <2>5
<1>8. ASSUME NEW h \in S, ReadTimeout(S, h)
      PROVE  (\A T \in parts : PartState(T)') /\ (\A g \in Hosts : HostState(g)')
  <2>1. bad' = bad /\ stage' = stage /\ fate' = fate
    BY <1>8 DEF ReadTimeout
  <2>2. out'[h] = "abort"
    BY <1>2, <1>8 DEF ReadTimeout, TypeOK
  <2>3. \A g \in Hosts : g # h => out'[g] = out[g]
    BY <1>8 DEF ReadTimeout, TypeOK
  <2>4. ASSUME NEW T \in parts PROVE PartState(T)'
    <3>1. T \subseteq Hosts /\ bad[T] \subseteq Hosts
      BY DEF TypeOK
    <3>2. Unread(T)' \subseteq Unread(T)
      BY <2>2, <2>3, <3>1 DEF Unread
    <3>3. \A g \in Hosts : out[g] = "abort" => out'[g] = "abort"
      BY <2>2, <2>3
    <3> QED  BY <1>0, <1>4, <2>1, <3>1, <3>2, <3>3 DEF PartState
  <2>5. ASSUME NEW g \in Hosts PROVE HostState(g)'
    BY <1>0, <1>2, <1>5, <2>1, <2>2, <2>3 DEF HostState
  <2> QED  BY <2>4, <2>5
<1>9. CASE Connected(S) \/ ReadRaises(S)
  <2>1. /\ UNCHANGED <<bad, out, fate>>
        /\ stage[S] \in {"connect", "read"} /\ stage'[S] \in {"read", "raised"}
        /\ \A T \in parts : T # S => stage'[T] = stage[T]
    BY <1>9 DEF Connected, ReadRaises, InPart, items, TypeOK
  <2>2. \A T \in parts : PartState(T)'
    BY <1>0, <1>4, <2>1 DEF PartState, Unread
  <2>3. \A g \in Hosts : HostState(g)'
    BY <1>0, <1>5, <2>1 DEF HostState
  <2> QED  BY <2>2, <2>3
<1>10. CASE Check(S)
  <2>1. /\ UNCHANGED <<out, fate>> /\ Unread(S) = {}
        /\ stage'[S] = "prune" /\ bad'[S] = {h \in S : exc[h] \in PruneTypes /\ h \notin up}
        /\ \A T \in parts : T # S => stage'[T] = stage[T] /\ bad'[T] = bad[T]
    BY <1>10 DEF Check, items, TypeOK
  <2>2. bad'[S] \subseteq S \cap down
    BY <1>2, <1>5, <2>1 DEF HostState
  <2>3. Unread(S)' = {}
    BY <2>1 DEF Unread
  <2>4. \A T \in parts : PartState(T)'
    BY <1>0, <1>4, <2>1, <2>2, <2>3 DEF PartState, Unread
  <2>5. \A g \in Hosts : HostState(g)'
    BY <1>0, <1>5, <2>1 DEF HostState
  <2> QED  BY <2>4, <2>5
<1>11. CASE PruneFailed(S)
  <2>1. /\ UNCHANGED <<bad, fate>> /\ stage[S] = "prune" /\ stage'[S] = "done"
        /\ out' = [h \in Hosts |-> IF h \in bad[S] THEN "abort" ELSE out[h]]
        /\ \A T \in parts : T # S => stage'[T] = stage[T]
    BY <1>11 DEF PruneFailed, InPart, TypeOK
  <2>2. \A h \in Hosts : out'[h] = IF h \in bad[S] THEN "abort" ELSE out[h]
    BY <2>1
  <2>3. bad[S] \subseteq S
    BY <1>4 DEF PartState
  <2>4. ASSUME NEW T \in parts PROVE PartState(T)'
    <3>1. T \subseteq Hosts /\ bad[T] \subseteq Hosts
      BY DEF TypeOK
    <3>2. Unread(T)' \subseteq Unread(T)
      BY <2>2, <3>1 DEF Unread
    <3>3. \A g \in Hosts : out[g] = "abort" => out'[g] = "abort"
      BY <2>2
    <3>4. T = S => \A h \in bad'[T] : out'[h] = "abort"
      BY <2>1, <2>2, <3>1
    <3> QED  BY <1>0, <1>4, <2>1, <3>1, <3>2, <3>3, <3>4 DEF PartState
  <2>5. ASSUME NEW g \in Hosts PROVE HostState(g)'
    BY <1>0, <1>2, <1>5, <2>1, <2>2, <2>3 DEF HostState
  <2> QED  BY <2>4, <2>5
<1> QED  BY <1>6, <1>7, <1>8, <1>9, <1>10, <1>11 DEF Work

\* When a call ends nothing is left of it.
LEMMA InvLeave ==
  ASSUME Leave, hostsPerShard' = hostsPerShard,
         \A h \in Hosts : h \in reach' \cup unreach'
  PROVE  CallInv'
<1>1. ~call'.busy /\ parts' = {}
  BY DEF Leave, Idle, NoParts
<1>2. \A h \in Hosts : out'[h] = "absent" /\ fate'[h] = "none"
  BY DEF Leave, Fresh, Fleet!Nothing
<1>3. \A h \in Hosts : HostState(h)'
  BY <1>1, <1>2 DEF HostState
<1> QED  BY <1>1, <1>3 DEF CallInv, PartsCover

LEMMA InvNext == TypeOK /\ CallInv /\ [Next]_vars => CallInv'
<1> SUFFICES ASSUME TypeOK, CallInv, [Next]_vars PROVE CallInv'
  OBVIOUS
<1>0. /\ \A h \in Hosts : HostState(h)
      /\ \A S \in parts : PartState(S) /\ S \subseteq Hosts /\ bad[S] \subseteq Hosts
  BY DEF CallInv, TypeOK
<1>1. ASSUME NEW m \in Modes,
             Exec(m) \/ \E written \in SUBSET Hosts : ExecCmdList(written, m.timeout)
      PROVE  CallInv'
  BY <1>1, CallsBegin, InvBegin
<1>2. ASSUME NEW S \in parts, Work(S) PROVE CallInv'
  BY <1>2, InvWork
<1>3. CASE ReturnRaise
  <2>1. \A h \in Hosts : h \in reach' \cup unreach'
    BY <1>0, <1>3 DEF ReturnRaise, handle, HostState
  <2> QED  BY <1>3, <2>1, InvLeave DEF ReturnRaise, handle
<1>4. CASE Return
  <2>1. \A h \in Hosts : h \in reach' \cup unreach'
    BY <1>0, <1>4 DEF Return, HostState
  <2> QED  BY <1>4, <2>1, InvLeave DEF Return
<1>5. ASSUME NEW dead \in SUBSET Hosts, PruneNodes(dead) PROVE CallInv'
  <2>1. /\ ~call.busy /\ parts = {} /\ call' = call /\ parts' = parts
        /\ UNCHANGED <<up, down, fate, out, cmd, hostsPerShard>>
        /\ reach' \subseteq reach /\ reach \cup unreach = reach' \cup unreach'
    BY <1>5 DEF PruneNodes, items, CallInv, PartsCover
  <2>2. \A h \in Hosts : HostState(h)'
    BY <1>0, <2>1 DEF HostState, sharded
  <2> QED  BY <2>1, <2>2 DEF CallInv, PartsCover
<1>6. ASSUME NEW h \in Hosts, Finish(h) PROVE CallInv'
  <2>1. /\ UNCHANGED <<up, down, out, cmd, hostsPerShard, reach, unreach, call,
                       parts, stage, bad>>
        /\ fate[h] = "running" /\ fate'[h] # "none"
        /\ \A g \in Hosts : g = h \/ fate'[g] = fate[g]
    BY <1>6 DEF Finish, handle, TypeOK
  <2>2. \A g \in Hosts : HostState(g)'
    BY <1>0, <2>1 DEF HostState, sharded
  <2>3. \A S \in parts : PartState(S)'
    BY <1>0, <2>1 DEF PartState, Unread
  <2> QED  BY <2>1, <2>2, <2>3 DEF CallInv, PartsCover
<1>7. ASSUME NEW h \in Hosts, GoDown(h) \/ ComeUp(h) PROVE CallInv'
  <2>1. /\ UNCHANGED <<out, cmd, hostsPerShard, reach, unreach, call, parts,
                       stage, bad, fate>>
        /\ down \subseteq down' /\ (call.busy => up \cup down \subseteq up' \cup down')
    BY <1>7 DEF GoDown, ComeUp, handle, items
  <2>2. \A g \in Hosts : HostState(g)'
    BY <1>0, <2>1 DEF HostState, sharded
  <2>3. \A S \in parts : PartState(S)'
    BY <1>0, <2>1 DEF PartState, Unread
  <2> QED  BY <2>1, <2>2, <2>3 DEF CallInv, PartsCover
<1>8. CASE UNCHANGED vars
  BY <1>8 DEF vars, handle, items, CallInv, PartsCover, PartState, HostState,
              Unread, sharded
<1>9. ASSUME NEW written \in SUBSET Hosts, RefuseCmdList(written) PROVE CallInv'
  BY <1>9 DEF RefuseCmdList, handle, items, CallInv, PartsCover, PartState, HostState,
              Unread, sharded
<1> QED  BY <1>1, <1>2, <1>3, <1>4, <1>5, <1>6, <1>7, <1>8, <1>9 DEF Next

LEMMA Inductive == Spec => [](TypeOK /\ CallInv)
<1>1. Init => TypeOK /\ CallInv
  BY TypeInit, InvInit
<1>2. TypeOK /\ CallInv /\ [Next]_vars => TypeOK' /\ CallInv'
  BY TypeNext, InvNext
<1> QED  BY <1>1, <1>2, PTL DEF Spec

-----------------------------------------------------------------------------
(* What callers may rely on *)

\* Only Return gives a caller a dictionary, and a host it forgets is in Lost.
LEMMA WhoReturns ==
  ASSUME TypeOK, CallInv, [Next]_vars
  PROVE  /\ call.busy /\ ~call'.busy => ReturnRaise \/ Return
         /\ call.busy /\ reach' # reach => Return
<1>1. ASSUME NEW m \in Modes,
             Exec(m) \/ \E written \in SUBSET Hosts : ExecCmdList(written, m.timeout)
      PROVE  ~call.busy
  BY <1>1 DEF Exec, ExecCmdList
<1>2. ASSUME NEW S \in parts, Work(S) PROVE call' = call /\ reach' = reach
  BY <1>2, WorkFrame
<1>3. ReturnRaise => reach' = reach
  BY DEF ReturnRaise, handle
<1>4. ASSUME NEW dead \in SUBSET Hosts, PruneNodes(dead) PROVE ~call.busy
  BY <1>4 DEF PruneNodes
<1>5. ASSUME NEW h \in Hosts, Finish(h) \/ GoDown(h) \/ ComeUp(h)
      PROVE  call' = call /\ reach' = reach
  BY <1>5 DEF Finish, GoDown, ComeUp, handle
<1>6. UNCHANGED vars => call' = call /\ reach' = reach
  BY DEF vars, handle
<1>7. ASSUME NEW written \in SUBSET Hosts, RefuseCmdList(written) PROVE ~call.busy
  BY <1>7 DEF RefuseCmdList
<1> QED  BY <1>1, <1>2, <1>3, <1>4, <1>5, <1>6, <1>7 DEF Next

\* An exit code that reaches the caller is the command's own (_process_output).
THEOREM ParallelHandleAnswerIsTrue == Spec => AnswerIsTrue
<1> DEFINE Step == Returning /\ ret'.kind = "dict" =>
       \A h \in Hosts :
         /\ ret'.ans[h] = "ok" => fate[h] = "zero"
         /\ ret'.ans[h] = "fail" => fate[h] = "nonzero"
<1>1. TypeOK /\ CallInv /\ [Next]_vars => Step
  <2> SUFFICES ASSUME TypeOK, CallInv, [Next]_vars, Returning, ret'.kind = "dict",
                      NEW h \in Hosts
               PROVE  /\ ret'.ans[h] = "ok" => fate[h] = "zero"
                      /\ ret'.ans[h] = "fail" => fate[h] = "nonzero"
    OBVIOUS
  <2>1. Return
    BY WhoReturns DEF Returning, ReturnRaise
  <2>2. ret'.ans[h] = "abort" \/ ret'.ans[h] = out[h]
    BY <2>1 DEF Return
  <2> QED  BY <2>2 DEF CallInv, HostState
<1>2. AnswerIsTrue <=> [][Step]_vars
  BY DEF AnswerIsTrue
<1> QED  BY <1>1, Inductive, PTL DEF Spec, AnswerIsTrue

\* A call gives up on no host that answered throughout it, although a time-out
\* on one host marks every host of its part (prune_unreachable_hosts).
THEOREM ParallelHandleHealthyKept == Spec => HealthyKept
<1>1. TypeOK /\ CallInv /\ [Next]_vars => (call.busy => reach \ reach' \subseteq down)
  <2> SUFFICES ASSUME TypeOK, CallInv, [Next]_vars, call.busy, reach' # reach
               PROVE  reach \ reach' \subseteq down
    OBVIOUS
  <2>1. reach \ reach' \subseteq Lost
    BY WhoReturns DEF Return
  <2>2. Lost \subseteq down
    BY DEF Lost, CallInv, PartState
  <2> QED  BY <2>1, <2>2
<1> QED  BY <1>1, Inductive, PTL DEF Spec, HealthyKept

\* With worker processes every command of a list runs on the host it was written for
\* and nowhere else, before and after hosts were lost: zip, filter, slices and the
\* workers' own pairing fit together, for every shard size (exec_cmd_list).
THEOREM ParallelHandleRightHost == Spec => []RightHostSharded
<1>1. CallInv => RightHostSharded
  BY DEF CallInv, HostState, RightHostSharded, RightHost
<1> QED  BY <1>1, Inductive, PTL

-----------------------------------------------------------------------------
(* One process, before the first loss *)

\* A handle that has forgotten no host has given every host of the call its own
\* command, so that a host which starts one starts the right one.
OwnCommands == reach = Hosts =>
  \A h \in Hosts : fate[h] # "none" \/ call.busy => cmd[h] = h

LEMMA OwnBegin ==
  ASSUME NEW m \in Modes,
         Exec(m) \/ \E written \in SUBSET Hosts : ExecCmdList(written, m.timeout),
         TypeOK, reach = Hosts
  PROVE  \A h \in Hosts : cmd'[h] = h
<1>1. CASE Exec(m)
  BY <1>1 DEF Exec, Begin
<1>2. ASSUME NEW written \in SUBSET Hosts, ExecCmdList(written, m.timeout)
      PROVE  \A h \in Hosts : cmd'[h] = h
  <2>1. written = Hosts /\ Accepted(InOrder(Hosts)) /\ cmd' = Assigned(InOrder(Hosts))
    BY <1>2 DEF ExecCmdList, Begin
  <2>2. ASSUME NEW h \in Hosts, ~sharded PROVE Assigned(InOrder(Hosts))[h] = h
    BY <2>2, InOrderList DEF Assigned, Zip
  <2> QED  BY <2>1, <2>2, AssignedOwn
<1> QED  BY <1>1, <1>2

LEMMA OwnNext == TypeOK /\ CallInv /\ OwnCommands /\ [Next]_vars => OwnCommands'
<1> SUFFICES ASSUME TypeOK, CallInv, OwnCommands, [Next]_vars, reach' = Hosts
             PROVE  \A h \in Hosts : fate'[h] # "none" \/ call'.busy => cmd'[h] = h
  BY DEF OwnCommands, Hosts
<1>1. ASSUME NEW m \in Modes,
             Exec(m) \/ \E written \in SUBSET Hosts : ExecCmdList(written, m.timeout)
      PROVE  \A h \in Hosts : cmd'[h] = h
  <2>1. reach' = reach
    BY <1>1 DEF Exec, ExecCmdList, Begin, handle
  <2> QED  BY <1>1, <2>1, OwnBegin
<1>2. ASSUME NEW S \in parts, Work(S) PROVE \A h \in Hosts : cmd'[h] = h
  <2>1. call.busy
    BY DEF CallInv, PartsCover
  <2> QED  BY <1>2, <2>1, WorkFrame DEF OwnCommands
<1>3. CASE ReturnRaise \/ Return
  BY <1>3 DEF ReturnRaise, Return, Leave, Fresh, Idle
<1>4. ASSUME NEW dead \in SUBSET Hosts PROVE ~PruneNodes(dead)
  BY DEF PruneNodes, TypeOK
<1>5. ASSUME NEW h \in Hosts, Finish(h)
      PROVE  \A g \in Hosts : fate'[g] # "none" \/ call'.busy => cmd'[g] = g
  BY <1>5 DEF Finish, OwnCommands, TypeOK, handle
<1>6. ASSUME NEW h \in Hosts, GoDown(h) \/ ComeUp(h)
      PROVE  \A g \in Hosts : fate'[g] # "none" \/ call'.busy => cmd'[g] = g
  BY <1>6 DEF GoDown, ComeUp, OwnCommands, handle, items
<1>7. CASE UNCHANGED vars
  BY <1>7 DEF vars, handle, items, OwnCommands
<1>8. ASSUME NEW written \in SUBSET Hosts, RefuseCmdList(written)
      PROVE  \A g \in Hosts : fate'[g] # "none" \/ call'.busy => cmd'[g] = g
  BY <1>8 DEF RefuseCmdList, handle, items, OwnCommands
<1> QED  BY <1>1, <1>2, <1>3, <1>4, <1>5, <1>6, <1>7, <1>8 DEF Next

\* Until the handle forgets its first host, every host runs the command that was
\* written for it, sharded or not, and whatever list the caller wrote: what
\* breaks the contract of exec_cmd_list is only a host that was lost before.
THEOREM ParallelHandleRightHostUntilLoss == Spec => [](reach = Hosts => RightHost)
<1>1. Init => OwnCommands
  BY DEF Init, OwnCommands, Idle
<1>2. OwnCommands => (reach = Hosts => RightHost)
  BY DEF OwnCommands, RightHost
<1> QED  BY <1>1, <1>2, OwnNext, Inductive, PTL DEF Spec

-----------------------------------------------------------------------------
(* ParallelHandle implements FleetExec *)

LEMMA MapsInit == Init => Fleet!Init
<1>1. sharded \in BOOLEAN
  BY DEF sharded
<1> QED  BY <1>1 DEF Init, Fleet!Init

\* What Return hands over is a dictionary FleetExec allows.
LEMMA ReturnMaps ==
  ASSUME TypeOK, CallInv, Return PROVE Fleet!Next
<1> DEFINE ans == [h \in Hosts |-> IF ~sharded /\ h \in unreach THEN "abort" ELSE out[h]]
<1>0. reach \subseteq Hosts /\ sharded' = sharded /\ reach' = reach \ Lost
  BY DEF TypeOK, Return, sharded
<1>1. call.busy /\ UNION parts = reach /\ \A S \in parts : stage[S] = "done"
  BY DEF Return, CallInv, PartsCover, AllEnded, Raised
<1>2. Lost \subseteq reach /\ \A h \in Lost : out[h] = "abort"
  BY <1>1 DEF Lost, CallInv, PartState
<1>3. \A h \in reach : out[h] # "absent"
  BY <1>1 DEF CallInv, PartState, Unread
<1>4. \A h \in Hosts : h \notin reach => out[h] = "absent" /\ h \in unreach
  BY DEF CallInv, HostState
<1>5. ans \in [Hosts -> Fleet!Answer]
  BY DEF TypeOK, Fleet!Answer
<1>6. Fleet!Dict(Lost, ans)
  <2> SUFFICES ASSUME NEW h \in Hosts
               PROVE  CASE h \in Lost         -> ans[h] = "abort"
                        [] h \in reach \ Lost -> ans[h] # "absent"
                        [] OTHER -> ans[h] = IF sharded THEN "absent" ELSE "abort"
    BY DEF Fleet!Dict
  <2>1. CASE h \in Lost
    BY <1>2, <2>1
  <2>2. CASE h \in reach \ Lost
    BY <1>3, <2>2
  <2>3. CASE h \notin reach
    BY <1>2, <1>4, <2>3
  <2> QED  BY <2>1, <2>2, <2>3
<1>7. CASE PrintRaises
  <2>1. Fleet!Raise(Lost)
    BY <1>0, <1>2, <1>7 DEF Return, Fleet!Raise
  <2> QED  BY <2>1, <1>0, <1>2 DEF Fleet!Next
<1>8. CASE ~PrintRaises
  <2>1. ret' = [kind |-> "dict", ans |-> ans]
    BY <1>8 DEF Return
  <2> HIDE DEF ans
  <2>2. Fleet!Exec(Lost, ans)
    BY <1>0, <1>2, <1>6, <2>1 DEF Fleet!Exec
  <2> QED  BY <2>2, <1>0, <1>2, <1>5 DEF Fleet!Next
<1> QED  BY <1>7, <1>8

LEMMA MapsNext ==
  TypeOK /\ CallInv /\ [Next]_vars => [Fleet!Next]_(Fleet!vars)
<1> SUFFICES ASSUME TypeOK, CallInv, [Next]_vars PROVE [Fleet!Next]_(Fleet!vars)
  OBVIOUS
<1>1. ASSUME NEW m \in Modes,
             Exec(m) \/ \E written \in SUBSET Hosts : ExecCmdList(written, m.timeout)
      PROVE  Fleet!Next
  <2>1. PICK c \in Calls, assigned \in [Hosts -> 0..N] : Begin(c, assigned)
    BY <1>1, CallsBegin
  <2> QED  BY <2>1 DEF Begin, handle, sharded, Fleet!Next, Fleet!Call
<1>2. ASSUME NEW S \in parts, Work(S) PROVE UNCHANGED Fleet!vars
  BY <1>2, WorkFrame DEF Fleet!vars
<1>3. CASE ReturnRaise
  <2>1. Fleet!Raise({}) /\ sharded' = sharded
    BY <1>3 DEF ReturnRaise, handle, sharded, Fleet!Raise
  <2> QED  BY <2>1 DEF Fleet!Next
<1>4. CASE Return
  BY <1>4, ReturnMaps
<1>5. ASSUME NEW dead \in SUBSET Hosts, PruneNodes(dead) PROVE Fleet!Next
  BY <1>5 DEF PruneNodes, items, sharded, Fleet!Next, Fleet!Prune
<1>6. ASSUME NEW h \in Hosts, Finish(h) \/ GoDown(h) \/ ComeUp(h)
      PROVE  UNCHANGED Fleet!vars
  BY <1>6 DEF Finish, GoDown, ComeUp, handle, sharded, Fleet!vars
<1>7. CASE UNCHANGED vars
  BY <1>7 DEF vars, handle, sharded, Fleet!vars
<1>8. ASSUME NEW written \in SUBSET Hosts, RefuseCmdList(written) PROVE Fleet!Next
  <2>1. Fleet!Raise({}) /\ sharded' = sharded
    BY <1>8 DEF RefuseCmdList, handle, sharded, Fleet!Raise
  <2> QED  BY <2>1 DEF Fleet!Next
<1> QED  BY <1>1, <1>2, <1>3, <1>4, <1>5, <1>6, <1>7, <1>8 DEF Next

\* A call looks to its callers like one step of FleetExec, however the parts,
\* the time-outs and the failures of the nodes interleave.
THEOREM ParallelHandleOneStep == Spec => OneStep
<1>1. Spec => Fleet!Init /\ [][Fleet!Next]_(Fleet!vars)
  BY MapsInit, MapsNext, Inductive, PTL DEF Spec
<1> QED  BY <1>1 DEF OneStep, Fleet!Spec
=============================================================================
