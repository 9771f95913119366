----------------------- MODULE ResourceTrackerProofs -----------------------
(***************************************************************************)
(* Theorems about ResourceTracker for any number of nodes and instances,   *)
(* any flavors and any limits.                                             *)
(***************************************************************************)
EXTENDS ResourceTracker, FiniteSetTheorems, TLAPS

-----------------------------------------------------------------------------
(* Sizes of sets of instances. *)

\* The units an allocation of sizes takes are finite in number.
LEMMA TotalType ==
  ASSUME NEW S \in SUBSET Instances, NEW size \in [S -> Int]
  PROVE  /\ IsFiniteSet({u \in S \X Flavors : u[2] <= size[u[1]]})
         /\ Total(size) = Cardinality({u \in S \X Flavors :
                                         u[2] <= size[u[1]]})
         /\ Total(size) \in Nat
<1>1. IsFiniteSet(S)
  BY FS_Subset, TrackerAssumption
<1>2. IsFiniteSet(Flavors)
  <2>1. MaxFlavor \in Int /\ 1 \in Int
    BY TrackerAssumption
  <2> QED
    BY <2>1, FS_Interval DEF Flavors
<1>3. IsFiniteSet(S \X Flavors)
  BY <1>1, <1>2, FS_Product
<1>4. IsFiniteSet({u \in S \X Flavors : u[2] <= size[u[1]]})
  BY <1>3, FS_Subset
<1>5. DOMAIN size = S
  OBVIOUS
<1> QED
  BY <1>4, <1>5, FS_CardinalityType DEF Total

\* An allocation of nothing takes nothing.
LEMMA TotalZero ==
  ASSUME NEW S \in SUBSET Instances, NEW size \in [S -> {NoFlavor}]
  PROVE  Total(size) = 0
<1>1. {u \in S \X Flavors : u[2] <= size[u[1]]} = {}
  <2> SUFFICES ASSUME NEW u \in S \X Flavors, u[2] <= size[u[1]]
               PROVE  FALSE
    OBVIOUS
  <2>1. u[1] \in S /\ u[2] \in 1 .. MaxFlavor
    BY DEF Flavors
  <2> QED
    BY <2>1, TrackerAssumption DEF NoFlavor
<1>2. size \in [S -> Int]
  BY DEF NoFlavor
<1> QED
  BY <1>1, <1>2, TotalType, FS_EmptySet

\* Adding one instance adds its size.
LEMMA TotalAdd ==
  ASSUME NEW size \in [Instances -> Flavors],
         NEW S \in SUBSET Instances, NEW i \in Instances \ S
  PROVE  Total([j \in S \cup {i} |-> size[j]])
           = Total([j \in S |-> size[j]]) + size[i]
<1> DEFINE U(T) == {u \in T \X Flavors : u[2] <= [j \in T |-> size[j]][u[1]]}
           I == 1 .. size[i]
<1>1. size[i] \in 1 .. MaxFlavor /\ MaxFlavor \in Nat
  BY TrackerAssumption DEF Flavors
<1>2. U(S \cup {i}) = U(S) \cup ({i} \X I)
  <2>1. ASSUME NEW u \in U(S \cup {i}) PROVE u \in U(S) \cup ({i} \X I)
    <3>1. u \in (S \cup {i}) \X Flavors /\ u[2] <= size[u[1]]
      OBVIOUS
    <3>2. u = <<u[1], u[2]>> /\ u[1] \in S \cup {i} /\ u[2] \in 1 .. MaxFlavor
      BY <3>1 DEF Flavors
    <3>3. CASE u[1] = i
      <4>1. u[2] \in I
        BY <3>1, <3>2, <3>3, <1>1
      <4> QED
        BY <4>1, <3>2, <3>3
    <3>4. CASE u[1] \in S
      BY <3>1, <3>2, <3>4
    <3> QED
      BY <3>2, <3>3, <3>4
  <2>2. ASSUME NEW u \in U(S) PROVE u \in U(S \cup {i})
    OBVIOUS
  <2>3. ASSUME NEW u \in {i} \X I PROVE u \in U(S \cup {i})
    <3>1. u = <<i, u[2]>> /\ u[2] \in 1 .. size[i]
      OBVIOUS
    <3>2. u[2] \in Flavors /\ u[2] <= size[i]
      BY <3>1, <1>1 DEF Flavors
    <3> QED
      BY <3>1, <3>2
  <2> QED
    BY <2>1, <2>2, <2>3
<1>3. U(S) \cap ({i} \X I) = {}
  OBVIOUS
<1>4. /\ IsFiniteSet(U(S)) /\ Total([j \in S |-> size[j]]) = Cardinality(U(S))
      /\ Total([j \in S |-> size[j]]) \in Nat
  <2>1. [j \in S |-> size[j]] \in [S -> Int]
    BY DEF Flavors
  <2> QED
    BY <2>1, TotalType
<1>5. Total([j \in S \cup {i} |-> size[j]]) = Cardinality(U(S \cup {i}))
  <2>1. [j \in S \cup {i} |-> size[j]] \in [S \cup {i} -> Int]
    BY DEF Flavors
  <2>2. S \cup {i} \in SUBSET Instances
    OBVIOUS
  <2> QED
    BY <2>1, <2>2, TotalType
<1>6. IsFiniteSet({i} \X I) /\ Cardinality({i} \X I) = size[i]
  <2>1. size[i] \in Int /\ 1 \in Int /\ size[i] >= 1
    BY <1>1
  <2>2. IsFiniteSet(I) /\ Cardinality(I) = size[i]
    BY <2>1, FS_Interval
  <2>3. IsFiniteSet({i}) /\ Cardinality({i}) = 1
    BY FS_Singleton
  <2> HIDE DEF I
  <2>4. IsFiniteSet({i} \X I) /\ Cardinality({i} \X I) = 1 * size[i]
    BY <2>2, <2>3, FS_Product
  <2> QED
    BY <2>4, <2>1
<1> HIDE DEF U, I
<1>7. Cardinality(U(S) \cup ({i} \X I))
        = Cardinality(U(S)) + Cardinality({i} \X I) - Cardinality({})
  BY <1>3, <1>4, <1>6, FS_Union
<1> QED
  BY <1>1, <1>2, <1>4, <1>5, <1>6, <1>7, FS_EmptySet

\* A part of an allocation takes no more than the whole.
LEMMA TotalMonotone ==
  ASSUME NEW size \in [Instances -> Flavors],
         NEW T \in SUBSET Instances, NEW S \in SUBSET T
  PROVE  Total([j \in S |-> size[j]]) <= Total([j \in T |-> size[j]])
<1> DEFINE U(R) == {u \in R \X Flavors : u[2] <= [j \in R |-> size[j]][u[1]]}
<1>1. U(S) \subseteq U(T)
  OBVIOUS
<1>2. /\ Total([j \in S |-> size[j]]) = Cardinality(U(S))
      /\ Total([j \in T |-> size[j]]) = Cardinality(U(T))
      /\ IsFiniteSet(U(T))
  <2>1. /\ [j \in S |-> size[j]] \in [S -> Int]
        /\ [j \in T |-> size[j]] \in [T -> Int]
    BY DEF Flavors
  <2>2. S \in SUBSET Instances
    OBVIOUS
  <2> QED
    BY <2>1, <2>2, TotalType
<1> QED
  BY <1>1, <1>2, FS_Subset

\* The same facts about the present flavors of a table of rows.
LEMMA SizeFacts ==
  ASSUME NEW rows \in [Instances -> RowType],
         NEW T \in SUBSET Instances, NEW S \in SUBSET T,
         NEW i \in Instances \ S
  PROVE  /\ Total([j \in T |-> rows[j].flavor]) \in Nat
         /\ Total([j \in S |-> rows[j].flavor])
              <= Total([j \in T |-> rows[j].flavor])
         /\ Total([j \in S \cup {i} |-> rows[j].flavor])
              = Total([j \in S |-> rows[j].flavor]) + rows[i].flavor
<1> DEFINE size == [j \in Instances |-> rows[j].flavor]
<1>1. \A j \in Instances : rows[j].flavor \in Flavors
  BY DEF RowType
<1>2. size \in [Instances -> Flavors]
  BY <1>1
<1>3. /\ [j \in T |-> rows[j].flavor] = [j \in T |-> size[j]]
      /\ [j \in S |-> rows[j].flavor] = [j \in S |-> size[j]]
      /\ [j \in S \cup {i} |-> rows[j].flavor]
           = [j \in S \cup {i} |-> size[j]]
      /\ size[i] = rows[i].flavor
  OBVIOUS
<1>4. [j \in T |-> rows[j].flavor] \in [T -> Int]
  BY <1>1 DEF Flavors
<1> HIDE DEF size
<1>5. Total([j \in T |-> rows[j].flavor]) \in Nat
  BY <1>4, TotalType
<1>6. S \in SUBSET Instances
  OBVIOUS
<1>7. Total([j \in S |-> size[j]]) <= Total([j \in T |-> size[j]])
  BY <1>2, TotalMonotone
<1>8. Total([j \in S \cup {i} |-> size[j]])
        = Total([j \in S |-> size[j]]) + size[i]
  BY <1>2, <1>6, TotalAdd
<1> QED
  BY <1>3, <1>5, <1>7, <1>8

-----------------------------------------------------------------------------
(* Types. *)

\* No build or delete enters a resize state, so the audit counts no move.
NoMoves ==
    /\ \A i \in Instances : /\ row[i].vm # "resized"
                            /\ row[i].task \notin Resizing
    /\ moves = [n \in Nodes |-> [i \in Instances |-> NoFlavor]]

\* The size of a set of instances is a number.
LEMMA SizeType ==
  ASSUME TypeOK, NEW S \in SUBSET Instances
  PROVE  Size(S) \in Nat
<1>1. [i \in S |-> row[i].flavor] \in [S -> Int]
  BY DEF TypeOK, RowType, Flavors
<1> QED
  BY <1>1, TotalType DEF Size

\* A row stays a row when its state fields are written.
LEMMA SavedType ==
  ASSUME TypeOK, NEW i \in Instances, NEW vm \in VmStates,
         NEW task \in TaskStates, NEW host \in Nodes \cup {NoNode}
  PROVE  /\ With(i, vm, task, host) \in RowType
         /\ Saved(i, vm, task, host) \in [Instances -> RowType]
         /\ \A j \in Instances : Saved(i, vm, task, host)[j]
                                   = IF j = i THEN With(i, vm, task, host)
                                              ELSE row[j]
<1>1. With(i, vm, task, host) \in RowType
  BY DEF With, TypeOK, RowType
<1> HIDE DEF With
<1> QED
  BY <1>1 DEF Saved, TypeOK

\* A save that enters no resize state begins no move.
LEMMA SavedNoMoves ==
  ASSUME TypeOK, NoMoves, NEW i \in Instances,
         NEW vm \in VmStates \ {"resized"},
         NEW task \in TaskStates \ Resizing, NEW host \in Nodes \cup {NoNode},
         row' = Saved(i, vm, task, host), UNCHANGED moves
  PROVE  row' \in [Instances -> RowType] /\ NoMoves'
<1>1. /\ row' \in [Instances -> RowType]
      /\ \A j \in Instances : row'[j] = IF j = i THEN With(i, vm, task, host)
                                                 ELSE row[j]
  BY SavedType
<1>2. With(i, vm, task, host).vm = vm /\ With(i, vm, task, host).task = task
  BY DEF With
<1> HIDE DEF With
<1> QED
  BY <1>1, <1>2 DEF NoMoves

\* Counting an instance keeps the types of the tracker.
LEMMA UpdateUsageType ==
  ASSUME TypeOK, NEW n \in Nodes, NEW i \in Instances,
         NEW deleted \in BOOLEAN, UpdateUsage(n, i, deleted)
  PROVE  tracked' \in [Nodes -> SUBSET Instances] /\ used' \in [Nodes -> Int]
<1>1. row[i].flavor \in Int
  BY DEF TypeOK, RowType, Flavors
<1>2. tracked' \in [Nodes -> SUBSET Instances]
  BY DEF TypeOK, UpdateUsage
<1>3. used' \in [Nodes -> Int]
  BY <1>1 DEF TypeOK, UpdateUsage
<1> QED
  BY <1>2, <1>3

\* The audit's first half keeps the types of the tracker.
LEMMA CountType ==
  ASSUME TypeOK, NEW n \in Nodes, NEW rows \in [Instances -> RowType],
         CountInstances(rows, n),
         \A i \in Instances : rows[i].flavor = row[i].flavor
  PROVE  /\ tracked' \in [Nodes -> SUBSET Instances]
         /\ used' \in [Nodes -> Int]
         /\ auditing' \in [Nodes -> BOOLEAN]
         /\ tracked' = [tracked EXCEPT ![n] = Residents(rows, n)]
         /\ used' = [used EXCEPT ![n] = Size(Residents(rows, n))]
<1>1. Residents(rows, n) \in SUBSET Instances
  BY DEF Residents
<1>3. Size(Residents(rows, n)) \in Int
  BY <1>1, SizeType
<1> QED
  BY <1>1, <1>3 DEF CountInstances, TypeOK

\* Initially the tables are empty and typed.
LEMMA InitType == Init => TypeOK /\ NoMoves
<1> SUFFICES ASSUME Init PROVE TypeOK /\ NoMoves
  OBVIOUS
<1>1. 1 \in Flavors
  BY TrackerAssumption DEF Flavors
<1>2. row \in [Instances -> RowType]
  BY <1>1 DEF Init, RowType, VmStates, TaskStates
<1>3. migs \in [Instances -> Seq(Migration)]
  BY DEF Init
<1>4. flow \in [Instances -> FlowType]
  BY DEF Init, Idle, FlowType
<1>5. NoMoves
  BY DEF Init, NoMoves, Resizing
<1> QED
  BY <1>2, <1>3, <1>4, <1>5 DEF Init, TypeOK

\* Every step keeps the types, and no step begins a move.
LEMMA NextType == TypeOK /\ NoMoves /\ [Next]_vars => TypeOK' /\ NoMoves'
<1> SUFFICES ASSUME TypeOK, NoMoves, [Next]_vars PROVE TypeOK' /\ NoMoves'
  OBVIOUS
<1> USE DEF trackers, tables
<1>s. /\ {"building", "active", "error", "deleted", "gone"}
           \subseteq VmStates \ {"resized"}
      /\ {"none", "scheduling", "spawning", "deleting"}
           \subseteq TaskStates \ Resizing
  BY DEF VmStates, TaskStates, Resizing
<1>h. \A i \in Instances : /\ row[i].host \in Nodes \cup {NoNode}
                           /\ row[i].task \in TaskStates \ Resizing
  BY DEF TypeOK, RowType, NoMoves
<1>1. ASSUME NEW i \in Instances, NEW f \in Flavors, Boot(i, f)
      PROVE  TypeOK' /\ NoMoves'
  <2> DEFINE r == [vm |-> "building", task |-> "scheduling", host |-> NoNode,
                   flavor |-> f, old |-> NoFlavor, new |-> NoFlavor]
  <2>1. r \in RowType /\ r.vm # "resized" /\ r.task \notin Resizing
    BY DEF RowType, VmStates, TaskStates, Resizing
  <2>2. row' = [row EXCEPT ![i] = r]
    BY <1>1 DEF Boot
  <2> HIDE DEF r
  <2>3. row' \in [Instances -> RowType] /\ NoMoves'
    BY <1>1, <2>1, <2>2 DEF Boot, TypeOK, NoMoves
  <2> QED
    BY <1>1, <2>3 DEF Boot, TypeOK, At, FlowType
<1>2. ASSUME NEW i \in Instances, NEW n \in Nodes, InstanceClaim(i, n)
      PROVE  TypeOK' /\ NoMoves'
  <2>1. tracked' \in [Nodes -> SUBSET Instances] /\ used' \in [Nodes -> Int]
    BY <1>2, UpdateUsageType DEF InstanceClaim
  <2>2. row' \in [Instances -> RowType] /\ NoMoves'
    BY <1>2, <1>s, SavedNoMoves DEF InstanceClaim
  <2> QED
    BY <1>2, <2>1, <2>2 DEF InstanceClaim, TypeOK, At, FlowType
<1>g. ASSUME NEW i \in Instances, NEW retry \in BOOLEAN, GiveBack(i, retry),
             UNCHANGED moves
      PROVE  /\ row' \in [Instances -> RowType] /\ NoMoves'
             /\ flow' \in [Instances -> FlowType]
  <2>1. row[i].vm \in VmStates \ {"resized"}
    BY DEF TypeOK, RowType, NoMoves
  <2>2. row' \in [Instances -> RowType] /\ NoMoves'
    <3>1. CASE retry
      BY <1>g, <1>s, <2>1, <3>1, SavedNoMoves DEF GiveBack
    <3>2. CASE ~retry
      BY <1>g, <1>s, <3>2, SavedNoMoves DEF GiveBack
    <3> QED
      BY <3>1, <3>2
  <2> QED
    BY <1>g, <2>2 DEF GiveBack, TypeOK, At, Idle, FlowType
<1>3. ASSUME NEW i \in Instances, NEW n \in Nodes, NEW retry \in BOOLEAN,
             ClaimRefused(i, n, retry)
      PROVE  TypeOK' /\ NoMoves'
  BY <1>3, <1>g DEF ClaimRefused, TypeOK
<1>4. ASSUME NEW i \in Instances, BuildDropped(i)
      PROVE  TypeOK' /\ NoMoves'
  BY <1>4 DEF BuildDropped, TypeOK, NoMoves, Idle, FlowType
<1>18. ASSUME NEW i \in Instances, NoValidHost(i)
       PROVE  TypeOK' /\ NoMoves'
  <2>1. row' \in [Instances -> RowType] /\ NoMoves'
    <3>1. CASE row' = row
      BY <1>18, <3>1 DEF NoValidHost, TypeOK, NoMoves
    <3>2. CASE row' = Saved(i, "error", "none", row[i].host)
      BY <1>18, <3>2, <1>s, <1>h, SavedNoMoves DEF NoValidHost
    <3> QED
      BY <1>18, <3>1, <3>2 DEF NoValidHost
  <2> QED
    BY <1>18, <2>1 DEF NoValidHost, TypeOK, Idle, FlowType
<1>5. ASSUME NEW i \in Instances, Spawn(i)
      PROVE  TypeOK' /\ NoMoves'
  <2>1. row' \in [Instances -> RowType] /\ NoMoves'
    BY <1>5, <1>s, <1>h, SavedNoMoves DEF Spawn
  <2> QED
    BY <1>5, <2>1 DEF Spawn, TypeOK, At, FlowType
<1>6. ASSUME NEW i \in Instances, NEW vanished \in BOOLEAN,
             Abort(i, vanished)
      PROVE  TypeOK' /\ NoMoves'
  <2>1. flow[i].node \in Nodes
    BY <1>6 DEF Abort, TypeOK, FlowType
  <2>2. tracked' \in [Nodes -> SUBSET Instances] /\ used' \in [Nodes -> Int]
    BY <1>6, <2>1, UpdateUsageType DEF Abort
  <2>3. flow' \in [Instances -> FlowType]
    BY <1>6, <2>1 DEF Abort, TypeOK, At, Idle, FlowType
  <2>4. guests' \in [Nodes -> SUBSET Instances]
    BY <1>6, <2>1 DEF Abort, TypeOK
  <2> QED
    BY <1>6, <2>2, <2>3, <2>4 DEF Abort, TypeOK, NoMoves
<1>7. ASSUME NEW i \in Instances, NEW retry \in BOOLEAN,
             BuildFailed(i, retry)
      PROVE  TypeOK' /\ NoMoves'
  <2>1. CASE Exists(i)
    <3>1. GiveBack(i, retry) /\ UNCHANGED moves
      BY <1>7, <2>1 DEF BuildFailed
    <3>2. /\ row' \in [Instances -> RowType] /\ NoMoves'
          /\ flow' \in [Instances -> FlowType]
      BY <3>1, <1>g
    <3> QED
      BY <1>7, <3>2 DEF BuildFailed, TypeOK
  <2>2. CASE ~Exists(i)
    <3>1. /\ row' = row /\ flow' = [flow EXCEPT ![i] = Idle]
          /\ UNCHANGED <<migs, trackers, pending, ending, guests>>
      BY <1>7, <2>2 DEF BuildFailed
    <3>2. Idle \in FlowType
      BY DEF Idle, FlowType
    <3> QED
      BY <3>1, <3>2 DEF TypeOK, NoMoves
  <2> QED
    BY <2>1, <2>2
<1>19. ASSUME NEW i \in Instances, AbortUnclean(i)
       PROVE  TypeOK' /\ NoMoves'
  <2>1. flow[i].node \in Nodes
    BY <1>19 DEF AbortUnclean, TypeOK, FlowType
  <2>2. tracked' \in [Nodes -> SUBSET Instances] /\ used' \in [Nodes -> Int]
    BY <1>19, <2>1, UpdateUsageType DEF AbortUnclean
  <2>3. flow' \in [Instances -> FlowType]
    BY <1>19, <2>1 DEF AbortUnclean, TypeOK, At, FlowType
  <2> QED
    BY <1>19, <2>2, <2>3 DEF AbortUnclean, TypeOK, NoMoves
<1>20. ASSUME NEW i \in Instances, UncleanFailed(i)
       PROVE  TypeOK' /\ NoMoves'
  <2>1. row' \in [Instances -> RowType] /\ NoMoves'
    <3>1. CASE row' = row
      BY <1>20, <3>1 DEF UncleanFailed, TypeOK, NoMoves
    <3>2. CASE row' = Saved(i, "error", "none", NoNode)
      BY <1>20, <3>2, <1>s, SavedNoMoves DEF UncleanFailed
    <3> QED
      BY <1>20, <3>1, <3>2 DEF UncleanFailed
  <2> QED
    BY <1>20, <2>1 DEF UncleanFailed, TypeOK, Left, FlowType
<1>8. ASSUME NEW i \in Instances, BuildEnds(i)
      PROVE  TypeOK' /\ NoMoves'
  <2>1. row' \in [Instances -> RowType] /\ NoMoves'
    <3>1. CASE row' = row
      BY <1>8, <3>1 DEF BuildEnds, TypeOK, NoMoves
    <3>2. CASE row' = Saved(i, "active", "none", row[i].host)
      BY <1>8, <3>2, <1>s, <1>h, SavedNoMoves DEF BuildEnds
    <3> QED
      BY <1>8, <3>1, <3>2 DEF BuildEnds
  <2> QED
    BY <1>8, <2>1 DEF BuildEnds, TypeOK, Idle, FlowType
<1>9. ASSUME NEW i \in Instances, BuildPreempted(i)
      PROVE  TypeOK' /\ NoMoves'
  BY <1>9, <1>g DEF BuildPreempted, TypeOK
<1>10. ASSUME NEW i \in Instances, Delete(i)
       PROVE  TypeOK' /\ NoMoves'
  <2>1. row[i].vm \in VmStates \ {"resized"}
    BY DEF TypeOK, RowType, NoMoves
  <2>2. row' \in [Instances -> RowType] /\ NoMoves'
    <3>1. CASE row' = Saved(i, "gone", "deleting", NoNode)
      BY <1>10, <3>1, <1>s, SavedNoMoves DEF Delete
    <3>2. CASE row' = Saved(i, row[i].vm, "deleting", row[i].host)
      BY <1>10, <2>1, <3>2, <1>s, <1>h, SavedNoMoves DEF Delete
    <3> QED
      BY <1>10, <3>1, <3>2 DEF Delete
  <2>3. pending' \subseteq Instances \X Nodes
    BY <1>10, <1>h DEF Delete, TypeOK
  <2> QED
    BY <1>10, <2>2, <2>3 DEF Delete, TypeOK
<1>11. ASSUME NEW i \in Instances, NEW n \in Nodes, TerminateSave(i, n)
       PROVE  TypeOK' /\ NoMoves'
  <2>1. row' \in [Instances -> RowType] /\ NoMoves'
    <3>1. CASE row' = row
      BY <1>11, <3>1 DEF TerminateSave, TypeOK, NoMoves
    <3>2. CASE row' = Saved(i, "deleted", "none", row[i].host)
      BY <1>11, <3>2, <1>s, <1>h, SavedNoMoves DEF TerminateSave
    <3> QED
      BY <1>11, <3>1, <3>2 DEF TerminateSave
  <2>2. ending' \subseteq Instances \X Nodes \X (Nodes \cup {NoNode})
    BY <1>11, <1>h DEF TerminateSave, TypeOK
  <2> QED
    BY <1>11, <2>1, <2>2 DEF TerminateSave, TypeOK
<1>12. ASSUME NEW i \in Instances, NEW n \in Nodes, NEW destroyed \in BOOLEAN,
              TerminateFails(i, n, destroyed)
       PROVE  TypeOK' /\ NoMoves'
  <2>1. row' \in [Instances -> RowType] /\ NoMoves'
    BY <1>12, <1>s, <1>h, SavedNoMoves DEF TerminateFails
  <2> QED
    BY <1>12, <2>1 DEF TerminateFails, TypeOK
<1>13. ASSUME NEW i \in Instances, NEW n \in Nodes,
              NEW h \in Nodes \cup {NoNode}, TerminateEnds(i, n, h)
       PROVE  TypeOK' /\ NoMoves'
  <2>1. row' \in [Instances -> RowType] /\ NoMoves'
    <3>1. CASE row' = Saved(i, "error", "none", row[i].host)
      BY <1>13, <3>1, <1>s, <1>h, SavedNoMoves DEF TerminateEnds
    <3>2. CASE row' = Saved(i, "gone", row[i].task, row[i].host)
      BY <1>13, <3>2, <1>s, <1>h, SavedNoMoves DEF TerminateEnds
    <3> QED
      BY <1>13, <3>1, <3>2 DEF TerminateEnds
  <2>2. tracked' \in [Nodes -> SUBSET Instances] /\ used' \in [Nodes -> Int]
    <3>1. CASE h = n /\ i \in tracked[n]
      BY <1>13, <3>1, UpdateUsageType DEF TerminateEnds
    <3>2. CASE ~(h = n /\ i \in tracked[n])
      BY <1>13, <3>2 DEF TerminateEnds, TypeOK
    <3> QED
      BY <3>1, <3>2
  <2> QED
    BY <1>13, <2>1, <2>2 DEF TerminateEnds, TypeOK
<1>14. ASSUME NEW n \in Nodes, AuditInstances(n)
       PROVE  TypeOK' /\ NoMoves'
  <2>1. row \in [Instances -> RowType]
    BY DEF TypeOK
  <2>2. /\ tracked' \in [Nodes -> SUBSET Instances]
        /\ used' \in [Nodes -> Int]
        /\ auditing' \in [Nodes -> BOOLEAN]
    BY <1>14, <2>1, CountType DEF AuditInstances
  <2> QED
    BY <1>14, <2>2 DEF AuditInstances, TypeOK, NoMoves
<1>15. ASSUME NEW n \in Nodes, AuditMigrations(n)
       PROVE  TypeOK' /\ NoMoves'
  <2>1. \A i \in Instances : Candidates(i, n) = {}
    BY DEF Candidates, InResizeState, NoMoves
  <2>2. moves' = [moves EXCEPT ![n] = [i \in Instances |-> NoFlavor]]
    BY <1>15, <2>1 DEF AuditMigrations
  <2>3. used' = [used EXCEPT ![n] = @ + Total([i \in Instances |-> NoFlavor])]
    BY <1>15, <2>1 DEF AuditMigrations
  <2>4. Total([i \in Instances |-> NoFlavor]) = 0
    BY TotalZero
  <2>5. used' \in [Nodes -> Int]
    BY <2>3, <2>4 DEF TypeOK
  <2>6. moves' = moves
    BY <2>2 DEF NoMoves
  <2> QED
    BY <1>15, <2>5, <2>6 DEF AuditMigrations, TypeOK, NoMoves
<1>16. ASSUME NEW n \in Nodes, NEW lost \in SUBSET pending, Restart(n, lost)
       PROVE  TypeOK' /\ NoMoves'
  <2>1. \A i \in Instances :
           /\ Initialised(i) \in RowType
           /\ Initialised(i).flavor = row[i].flavor
           /\ Initialised(i).vm # "resized"
           /\ Initialised(i).task \notin Resizing
    <3> SUFFICES ASSUME NEW i \in Instances
                 PROVE  /\ Initialised(i) \in RowType
                        /\ Initialised(i).flavor = row[i].flavor
                        /\ Initialised(i).vm # "resized"
                        /\ Initialised(i).task \notin Resizing
      OBVIOUS
    <3>1. CASE Initialised(i) = With(i, "error", "none", row[i].host)
      <4>1. With(i, "error", "none", row[i].host) \in RowType
        BY <1>s, <1>h, SavedType
      <4> QED
        BY <1>s, <3>1, <4>1 DEF With
    <3>2. CASE Initialised(i) = With(i, "gone", row[i].task, row[i].host)
      <4>1. With(i, "gone", row[i].task, row[i].host) \in RowType
        BY <1>s, <1>h, SavedType
      <4> QED
        BY <1>s, <1>h, <3>2, <4>1 DEF With
    <3>3. CASE Initialised(i) = row[i]
      BY <3>3 DEF TypeOK, NoMoves
    <3> QED
      BY <3>1, <3>2, <3>3 DEF Initialised
  <2>2. /\ row' \in [Instances -> RowType]
        /\ \A i \in Instances : row'[i].flavor = row[i].flavor
        /\ \A i \in Instances : /\ row'[i].vm # "resized"
                                /\ row'[i].task \notin Resizing
    <3>1. \A i \in Instances : row[i] \in RowType
      BY DEF TypeOK
    <3>2. row' = [i \in Instances |->
                    IF i \in {j \in Instances : row[j].host = n /\ Exists(j)}
                    THEN Initialised(i) ELSE row[i]]
      BY <1>16 DEF Restart
    <3> QED
      BY <2>1, <3>1, <3>2 DEF NoMoves
  <2>3. CountInstances(row', n)
    BY <1>16 DEF Restart
  <2>4. /\ tracked' \in [Nodes -> SUBSET Instances]
        /\ used' \in [Nodes -> Int]
        /\ auditing' \in [Nodes -> BOOLEAN]
    BY <2>2, <2>3, CountType
  <2>5. /\ flow' \in [Instances -> FlowType]
        /\ guests' \in [Nodes -> SUBSET Instances]
        /\ ending' \subseteq Instances \X Nodes \X (Nodes \cup {NoNode})
        /\ pending' \subseteq Instances \X Nodes
        /\ migs' \in [Instances -> Seq(Migration)]
    BY <1>16 DEF Restart, TypeOK, Idle, Left, FlowType
  <2>6. /\ NoMoves'
        /\ moves' \in [Nodes -> [Instances -> Flavors \cup {NoFlavor}]]
    BY <1>16, <2>2 DEF Restart, NoMoves, TypeOK
  <2> QED
    BY <2>2, <2>4, <2>5, <2>6 DEF TypeOK
<1>17. CASE UNCHANGED vars
  BY <1>17 DEF vars, TypeOK, NoMoves
<1> QED
  BY <1>1, <1>2, <1>3, <1>4, <1>5, <1>6, <1>7, <1>8, <1>9, <1>10, <1>11,
     <1>12, <1>13, <1>14, <1>15, <1>16, <1>17, <1>18, <1>19, <1>20
     DEF Next, ComputeNext, Build, Terminate, Audit

\* The tables, trackers and handlers keep their types.
THEOREM TypeCorrect == Spec => []TypeOK
BY InitType, NextType, PTL DEF Spec

-----------------------------------------------------------------------------
(* Claims.  Nodes that do not reschedule: an instance is claimed once.      *)

\* The handler, the row and the trackers agree on where an instance is.
Located(i) ==
    /\ row[i].vm = "none" =>
         /\ flow[i].stage = "idle" /\ row[i].host = NoNode
         /\ \A n \in Nodes : i \notin tracked[n]
    /\ flow[i].stage = "scheduling" => row[i].host = NoNode
    /\ flow[i].stage \in {"claimed", "spawning", "failed", "unclean"} =>
         /\ row[i].vm = "building"
         /\ row[i].host = flow[i].node
    /\ flow[i].stage \in {"claimed", "spawning"} => i \in tracked[flow[i].node]
    /\ flow[i].stage = "spawning" => row[i].task \in {"spawning", "deleting"}
    /\ flow[i].stage \in {"claimed", "failed"} =>
         \A n \in Nodes : i \notin guests[n]

\* A delete is cast to the host of the instance, which nothing but the end of a
\* failed build takes from it; once it has saved DELETED there is no guest, but
\* one left behind.
DeletesLocated(i) ==
    /\ \A n \in Nodes : <<i, n>> \in pending =>
         /\ row[i].vm # "none" /\ flow[i].stage # "scheduling"
         /\ row[i].host \in {n, NoNode}
    /\ \A n \in Nodes, h \in Nodes \cup {NoNode} : <<i, n, h>> \in ending =>
         /\ row[i].vm # "none" /\ flow[i].stage \in {"idle", "left"}
         /\ flow[i].stage = "idle" => \A m \in Nodes : i \notin guests[m]

\* A guest is on the host of its instance and counted there, unless it was left
\* behind.
GuestLocated(i) ==
    \A n \in Nodes : i \in guests[n] =>
        \/ LeftBehind(i) /\ row[i].vm # "none"
        \/ /\ row[i].host = n /\ i \in tracked[n]
           /\ row[i].vm \in {"building", "active", "error"}

Placed(i) == Located(i) /\ DeletesLocated(i) /\ GuestLocated(i)

Consistent == \A i \in Instances : Placed(i)

\* Nothing that Placed(j) depends on changes.
Unmoved(j) ==
    /\ row'[j] = row[j] /\ flow'[j] = flow[j]
    /\ \A n \in Nodes :
         /\ (j \in tracked'[n]) <=> (j \in tracked[n])
         /\ (j \in guests'[n]) <=> (j \in guests[n])
         /\ <<j, n>> \in pending' => <<j, n>> \in pending
         /\ \A h \in Nodes \cup {NoNode} :
              <<j, n, h>> \in ending' => <<j, n, h>> \in ending

\* An instance a step does not touch stays placed.
LEMMA UnmovedPlaced ==
  ASSUME TypeOK, NEW j \in Instances, Placed(j), Unmoved(j)
  PROVE  Placed(j)'
<1>1. flow[j].stage \in {"claimed", "spawning", "failed", "unclean"} =>
        flow[j].node \in Nodes
  BY DEF TypeOK, FlowType
<1>2. Located(j)'
  BY <1>1 DEF Unmoved, Placed, Located
<1>3. DeletesLocated(j)'
  BY DEF Unmoved, Placed, DeletesLocated
<1>4. GuestLocated(j)'
  BY DEF Unmoved, Placed, GuestLocated, LeftBehind
<1> QED
  BY <1>2, <1>3, <1>4 DEF Placed

\* What a save leaves in the table.
LEMMA SavedRow ==
  ASSUME TypeOK, NEW i \in Instances, NEW vm, NEW task, NEW host,
         row' = Saved(i, vm, task, host)
  PROVE  /\ row'[i].vm = vm /\ row'[i].task = task /\ row'[i].host = host
         /\ \A j \in Instances : row'[j].flavor = row[j].flavor
         /\ \A j \in Instances \ {i} : row'[j] = row[j]
<1>1. /\ row'[i] = With(i, vm, task, host)
      /\ \A j \in Instances \ {i} : row'[j] = row[j]
  BY DEF TypeOK, Saved
<1>2. /\ With(i, vm, task, host).vm = vm
      /\ With(i, vm, task, host).task = task
      /\ With(i, vm, task, host).host = host
      /\ With(i, vm, task, host).flavor = row[i].flavor
  BY DEF With
<1> QED
  BY <1>1, <1>2

\* Which instances are tracked after one was counted or given back.
LEMMA TrackedAfter ==
  ASSUME TypeOK, NEW n \in Nodes, NEW i \in Instances,
         NEW deleted \in BOOLEAN, UpdateUsage(n, i, deleted)
  PROVE  \A m \in Nodes, j \in Instances :
           (j \in tracked'[m]) <=> IF m = n /\ j = i THEN ~deleted
                                                     ELSE j \in tracked[m]
BY DEF TypeOK, UpdateUsage

\* A step that touches one instance and leaves it placed keeps all placed.
LEMMA OthersUnmoved ==
  ASSUME TypeOK, Consistent, NEW i \in Instances, Placed(i)',
         \A j \in Instances \ {i} : Unmoved(j)
  PROVE  Consistent'
<1>1. \A j \in Instances \ {i} : Placed(j)'
  BY UnmovedPlaced DEF Consistent
<1> QED
  BY <1>1 DEF Consistent

\* No step of a deployment that does not reschedule misplaces an instance.
LEMMA NextPlaced ==
  ASSUME ~Retries, TypeOK, TypeOK', Consistent, [Next]_vars
  PROVE  Consistent'
<1> USE DEF trackers, tables
<1>t. \A i \in Instances :
        /\ flow[i].stage \in {"idle", "left", "scheduling"} =>
             flow[i].node = NoNode
        /\ flow[i].stage \in {"claimed", "spawning", "failed", "unclean"} =>
             flow[i].node \in Nodes
        /\ flow[i].stage \in {"idle", "left", "scheduling", "claimed",
                              "spawning", "failed", "unclean"}
  BY DEF TypeOK, FlowType
<1>n. NoNode \notin Nodes
  BY TrackerAssumption
<1>p. \A i \in Instances : Located(i) /\ DeletesLocated(i) /\ GuestLocated(i)
  BY DEF Consistent, Placed
<1>f. ASSUME NEW i \in Instances, NEW f,
             flow' = [flow EXCEPT ![i] = f]
      PROVE  flow'[i] = f /\ \A j \in Instances \ {i} : flow'[j] = flow[j]
  BY <1>f DEF TypeOK
<1>1. ASSUME NEW i \in Instances, NEW f \in Flavors, Boot(i, f)
      PROVE  Consistent'
  <2>1. /\ row'[i].vm = "building" /\ row'[i].host = NoNode
        /\ \A j \in Instances \ {i} : row'[j] = row[j]
    BY <1>1 DEF Boot, TypeOK
  <2>2. /\ flow'[i] = At("scheduling", NoNode)
        /\ \A j \in Instances \ {i} : flow'[j] = flow[j]
    BY <1>1, <1>f DEF Boot
  <2>3. UNCHANGED <<tracked, guests, pending, ending>>
    BY <1>1 DEF Boot
  <2>4. \A j \in Instances \ {i} : Unmoved(j)
    BY <2>1, <2>2, <2>3 DEF Unmoved
  <2>5. /\ row[i].vm = "none"
        /\ \A n \in Nodes : i \notin guests[n]
        /\ \A n \in Nodes : <<i, n>> \notin pending
        /\ \A n \in Nodes, h \in Nodes \cup {NoNode} :
             <<i, n, h>> \notin ending
    BY <1>1, <1>p DEF Boot, GuestLocated, DeletesLocated
  <2>6. Placed(i)'
    BY <2>1, <2>2, <2>3, <2>5 DEF Placed, Located, DeletesLocated,
       GuestLocated, LeftBehind, At
  <2> QED
    BY <2>4, <2>6, OthersUnmoved
<1>2. ASSUME NEW i \in Instances, NEW n \in Nodes, InstanceClaim(i, n)
      PROVE  Consistent'
  <2>1. /\ row'[i].vm = "building" /\ row'[i].host = n
        /\ \A j \in Instances \ {i} : row'[j] = row[j]
    BY <1>2, SavedRow DEF InstanceClaim
  <2>2. /\ flow'[i] = At("claimed", n)
        /\ \A j \in Instances \ {i} : flow'[j] = flow[j]
    BY <1>2, <1>f DEF InstanceClaim
  <2>3. \A m \in Nodes, j \in Instances :
          (j \in tracked'[m]) <=> IF m = n /\ j = i THEN TRUE
                                                    ELSE j \in tracked[m]
    BY <1>2, TrackedAfter DEF InstanceClaim
  <2>4. UNCHANGED <<guests, pending, ending>>
    BY <1>2 DEF InstanceClaim
  <2>5. \A j \in Instances \ {i} : Unmoved(j)
    BY <2>1, <2>2, <2>3, <2>4 DEF Unmoved
  <2>6. flow[i].stage = "scheduling"
    BY <1>2 DEF InstanceClaim, MayBuild
  <2>7. /\ \A m \in Nodes : i \notin guests[m]
        /\ \A m \in Nodes : <<i, m>> \notin pending
        /\ \A m \in Nodes, h \in Nodes \cup {NoNode} :
             <<i, m, h>> \notin ending
    BY <2>6, <1>p, <1>n DEF Located, GuestLocated, DeletesLocated, LeftBehind
  <2>8. Placed(i)'
    BY <2>1, <2>2, <2>3, <2>4, <2>7 DEF Placed, Located, DeletesLocated,
       GuestLocated, LeftBehind, At
  <2> QED
    BY <2>5, <2>8, OthersUnmoved
<1>g. ASSUME NEW i \in Instances, NEW retry \in BOOLEAN, retry => Retries,
             GiveBack(i, retry),
             UNCHANGED <<tracked, guests, pending, ending>>,
             flow[i].stage \in {"scheduling", "failed"}
      PROVE  Consistent'
  <2>1. ~retry
    BY <1>g
  <2>2. /\ row'[i].vm = "error" /\ row'[i].host = NoNode
        /\ \A j \in Instances \ {i} : row'[j] = row[j]
    BY <1>g, <2>1, SavedRow DEF GiveBack
  <2>3. /\ flow'[i] = Idle
        /\ \A j \in Instances \ {i} : flow'[j] = flow[j]
    BY <1>g, <2>1, <1>f DEF GiveBack
  <2>4. \A j \in Instances \ {i} : Unmoved(j)
    BY <1>g, <2>2, <2>3 DEF Unmoved
  <2>5. \A m \in Nodes : i \notin guests[m]
    BY <1>g, <1>p, <1>n DEF Located, GuestLocated, LeftBehind
  <2>6. Placed(i)'
    BY <1>g, <2>2, <2>3, <2>5 DEF Placed, Located, DeletesLocated,
       GuestLocated, LeftBehind, Idle
  <2> QED
    BY <2>4, <2>6, OthersUnmoved
<1>3. ASSUME NEW i \in Instances, NEW n \in Nodes, NEW retry \in BOOLEAN,
             ClaimRefused(i, n, retry)
      PROVE  Consistent'
  BY <1>3, <1>g DEF ClaimRefused, MayBuild
<1>4. ASSUME NEW i \in Instances, BuildDropped(i)
      PROVE  Consistent'
  <2>1. /\ flow'[i] = Idle
        /\ \A j \in Instances \ {i} : flow'[j] = flow[j]
    BY <1>4, <1>f DEF BuildDropped
  <2>2. UNCHANGED <<row, tracked, guests, pending, ending>>
    BY <1>4 DEF BuildDropped
  <2>3. \A j \in Instances \ {i} : Unmoved(j)
    BY <2>1, <2>2 DEF Unmoved
  <2>4. flow[i].stage = "scheduling"
    BY <1>4 DEF BuildDropped
  <2>5. Placed(i)'
    BY <2>1, <2>2, <2>4, <1>p DEF Placed, Located, DeletesLocated,
       GuestLocated, LeftBehind, Idle
  <2> QED
    BY <2>3, <2>5, OthersUnmoved
<1>18. ASSUME NEW i \in Instances, NoValidHost(i)
       PROVE  Consistent'
  <2>1. /\ row'[i].host = row[i].host /\ row'[i].vm \in {row[i].vm, "error"}
        /\ \A j \in Instances \ {i} : row'[j] = row[j]
    <3>1. CASE row' = row
      BY <3>1
    <3>2. CASE row' = Saved(i, "error", "none", row[i].host)
      BY <3>2, SavedRow
    <3> QED
      BY <1>18, <3>1, <3>2 DEF NoValidHost
  <2>2. /\ flow'[i] = Idle
        /\ \A j \in Instances \ {i} : flow'[j] = flow[j]
    BY <1>18, <1>f DEF NoValidHost
  <2>3. /\ flow[i].stage = "scheduling"
        /\ UNCHANGED <<tracked, guests, pending, ending>>
    BY <1>18 DEF NoValidHost
  <2>4. \A j \in Instances \ {i} : Unmoved(j)
    BY <2>1, <2>2, <2>3 DEF Unmoved
  <2>5. Placed(i)'
    BY <2>1, <2>2, <2>3, <1>p, <1>n DEF Placed, Located, DeletesLocated,
       GuestLocated, LeftBehind, Idle
  <2> QED
    BY <2>4, <2>5, OthersUnmoved
<1>5. ASSUME NEW i \in Instances, Spawn(i)
      PROVE  Consistent'
  <2>1. /\ row'[i].vm = "building" /\ row'[i].host = row[i].host
        /\ row'[i].task = "spawning"
        /\ \A j \in Instances \ {i} : row'[j] = row[j]
    BY <1>5, SavedRow DEF Spawn
  <2>2. /\ flow'[i] = At("spawning", flow[i].node)
        /\ \A j \in Instances \ {i} : flow'[j] = flow[j]
    BY <1>5, <1>f DEF Spawn
  <2>3. /\ flow[i].stage = "claimed" /\ flow[i].node \in Nodes
        /\ UNCHANGED <<tracked, pending, ending>>
    BY <1>5, <1>t DEF Spawn
  <2>4. \A m \in Nodes, j \in Instances :
          (j \in guests'[m]) <=> IF m = flow[i].node /\ j = i
                                 THEN TRUE ELSE j \in guests[m]
    BY <1>5, <2>3 DEF Spawn, TypeOK
  <2>5. \A j \in Instances \ {i} : Unmoved(j)
    BY <2>1, <2>2, <2>3, <2>4 DEF Unmoved
  <2>6. Located(i)'
    BY <2>1, <2>2, <2>3, <1>p DEF Located, At
  <2>7. DeletesLocated(i)'
    BY <2>1, <2>2, <2>3, <1>p DEF DeletesLocated, At
  <2>8. GuestLocated(i)'
    BY <2>1, <2>3, <2>4, <1>p DEF GuestLocated, Located, LeftBehind
  <2> QED
    BY <2>5, <2>6, <2>7, <2>8, OthersUnmoved DEF Placed
<1>6. ASSUME NEW i \in Instances, NEW vanished \in BOOLEAN,
             Abort(i, vanished)
      PROVE  Consistent'
  <2> DEFINE n == flow[i].node
  <2>1. /\ flow[i].stage \in {"claimed", "spawning"} /\ n \in Nodes
        /\ UNCHANGED <<row, pending, ending>>
    BY <1>6, <1>t DEF Abort
  <2>2. /\ flow'[i] \in {Idle, At("failed", n)}
        /\ \A j \in Instances \ {i} : flow'[j] = flow[j]
    BY <1>6, <1>f DEF Abort
  <2>3. \A m \in Nodes, j \in Instances :
          (j \in tracked'[m]) <=> IF m = n /\ j = i THEN FALSE
                                                    ELSE j \in tracked[m]
    BY <1>6, <2>1, TrackedAfter DEF Abort
  <2>4. \A m \in Nodes, j \in Instances :
          (j \in guests'[m]) <=> IF m = n /\ j = i THEN FALSE
                                                   ELSE j \in guests[m]
    BY <1>6, <2>1 DEF Abort, TypeOK
  <2>5. \A j \in Instances \ {i} : Unmoved(j)
    BY <2>1, <2>2, <2>3, <2>4 DEF Unmoved
  <2>6. \A m \in Nodes : i \notin guests'[m]
    BY <2>1, <2>4, <1>p DEF Located, GuestLocated, LeftBehind
  <2> HIDE DEF n
  <2>7. Placed(i)'
    BY <2>1, <2>2, <2>6, <1>p DEF Placed, Located, DeletesLocated,
       GuestLocated, LeftBehind, Idle, At, n
  <2> QED
    BY <2>5, <2>7, OthersUnmoved
<1>7. ASSUME NEW i \in Instances, NEW retry \in BOOLEAN,
             BuildFailed(i, retry)
      PROVE  Consistent'
  <2>1. flow[i].stage = "failed" /\ row[i].vm = "building"
    BY <1>7, <1>p DEF BuildFailed, Located
  <2>2. Exists(i)
    BY <2>1 DEF Exists
  <2> QED
    BY <1>7, <1>g, <2>1, <2>2 DEF BuildFailed
<1>19. ASSUME NEW i \in Instances, AbortUnclean(i)
       PROVE  Consistent'
  <2> DEFINE n == flow[i].node
  <2>1. /\ flow[i].stage = "spawning" /\ n \in Nodes
        /\ UNCHANGED <<row, guests, pending, ending>>
    BY <1>19, <1>t DEF AbortUnclean
  <2>2. /\ flow'[i] = At("unclean", n)
        /\ \A j \in Instances \ {i} : flow'[j] = flow[j]
    BY <1>19, <1>f DEF AbortUnclean
  <2>3. \A m \in Nodes, j \in Instances :
          (j \in tracked'[m]) <=> IF m = n /\ j = i THEN FALSE
                                                    ELSE j \in tracked[m]
    <3>1. UpdateUsage(n, i, TRUE)
      BY <1>19 DEF AbortUnclean
    <3> HIDE DEF n
    <3> QED
      BY <2>1, <3>1, TrackedAfter
  <2>4. \A j \in Instances \ {i} : Unmoved(j)
    BY <2>1, <2>2, <2>3 DEF Unmoved
  <2>5. flow'[i].stage = "unclean" /\ flow'[i].node = n
    BY <2>2 DEF At
  <2>6. row[i].vm = "building" /\ row[i].host = n
    BY <2>1, <1>p DEF Located
  <2> HIDE DEF n
  <2>7. Located(i)'
    BY <2>1, <2>5, <2>6 DEF Located
  <2>8. DeletesLocated(i)'
    BY <2>1, <2>5, <1>p DEF DeletesLocated
  <2>9. GuestLocated(i)'
    BY <2>1, <2>5, <2>6 DEF GuestLocated, LeftBehind
  <2> QED
    BY <2>4, <2>7, <2>8, <2>9, OthersUnmoved DEF Placed
<1>20. ASSUME NEW i \in Instances, UncleanFailed(i)
       PROVE  Consistent'
  <2>1. flow[i].stage = "unclean" /\ row[i].vm = "building"
    BY <1>20, <1>p DEF UncleanFailed, Located
  <2>2. /\ row'[i].vm = "error" /\ row'[i].host = NoNode
        /\ \A j \in Instances \ {i} : row'[j] = row[j]
    BY <1>20, <2>1, SavedRow DEF UncleanFailed, Exists
  <2>3. /\ flow'[i] = Left
        /\ \A j \in Instances \ {i} : flow'[j] = flow[j]
    BY <1>20, <1>f DEF UncleanFailed
  <2>4. UNCHANGED <<tracked, guests, pending, ending>>
    BY <1>20 DEF UncleanFailed
  <2>5. \A j \in Instances \ {i} : Unmoved(j)
    BY <2>2, <2>3, <2>4 DEF Unmoved
  <2>6. flow'[i].stage = "left"
    BY <2>3 DEF Left
  <2>7. Located(i)'
    BY <2>2, <2>6 DEF Located
  <2>8. DeletesLocated(i)'
    BY <2>1, <2>2, <2>4, <2>6, <1>p DEF DeletesLocated
  <2>9. GuestLocated(i)'
    BY <2>2, <2>6 DEF GuestLocated, LeftBehind
  <2> QED
    BY <2>5, <2>7, <2>8, <2>9, OthersUnmoved DEF Placed
<1>8. ASSUME NEW i \in Instances, BuildEnds(i)
      PROVE  Consistent'
  <2>1. /\ row'[i].vm \in {"building", "active"} /\ row'[i].host = row[i].host
        /\ \A j \in Instances \ {i} : row'[j] = row[j]
    <3>1. CASE row' = row
      BY <1>8, <3>1, <1>p DEF BuildEnds, Located
    <3>2. CASE row' = Saved(i, "active", "none", row[i].host)
      BY <3>2, SavedRow
    <3> QED
      BY <1>8, <3>1, <3>2 DEF BuildEnds
  <2>2. /\ flow'[i] = Idle
        /\ \A j \in Instances \ {i} : flow'[j] = flow[j]
    BY <1>8, <1>f DEF BuildEnds
  <2>3. /\ flow[i].stage = "spawning"
        /\ UNCHANGED <<tracked, guests, pending, ending>>
    BY <1>8 DEF BuildEnds
  <2>4. \A j \in Instances \ {i} : Unmoved(j)
    BY <2>1, <2>2, <2>3 DEF Unmoved
  <2>5. Placed(i)'
    BY <2>1, <2>2, <2>3, <1>p DEF Placed, Located, DeletesLocated,
       GuestLocated, LeftBehind, Idle
  <2> QED
    BY <2>4, <2>5, OthersUnmoved
<1>9. ASSUME NEW i \in Instances, BuildPreempted(i)
      PROVE  Consistent'
  BY <1>9, <1>p DEF BuildPreempted, Located
<1>10. ASSUME NEW i \in Instances, Delete(i)
       PROVE  Consistent'
  <2>1. /\ row'[i].host = row[i].host /\ row'[i].task = "deleting"
        /\ \/ row'[i].vm = row[i].vm
           \/ row'[i].vm = "gone" /\ row[i].host = NoNode
        /\ \A j \in Instances \ {i} : row'[j] = row[j]
    <3>1. CASE row[i].host = NoNode
      BY <1>10, <3>1, SavedRow DEF Delete
    <3>2. CASE row[i].host # NoNode
      BY <1>10, <3>2, SavedRow DEF Delete
    <3> QED
      BY <3>1, <3>2
  <2>2. \A j \in Instances, m \in Nodes :
          <<j, m>> \in pending' => <<j, m>> \in pending
                                   \/ (j = i /\ m = row[i].host)
    BY <1>10 DEF Delete
  <2>3. /\ UNCHANGED <<tracked, guests, flow, ending>>
        /\ row[i].vm # "none"
    BY <1>10 DEF Delete, Exists
  <2>4. \A j \in Instances \ {i} : Unmoved(j)
    BY <2>1, <2>2, <2>3 DEF Unmoved
  <2>5. Located(i)'
    BY <2>1, <2>3, <1>p, <1>t, <1>n DEF Located
  <2>6. DeletesLocated(i)'
    BY <2>1, <2>2, <2>3, <1>p, <1>n DEF DeletesLocated, Located
  <2>7. GuestLocated(i)'
    BY <2>1, <2>3, <1>p, <1>n DEF GuestLocated, LeftBehind
  <2> QED
    BY <2>4, <2>5, <2>6, <2>7, OthersUnmoved DEF Placed
<1>d. ASSUME NEW i \in Instances, NEW n \in Nodes, <<i, n>> \in pending,
             flow[i].node # n
      PROVE  /\ flow[i].stage \in {"idle", "left"} /\ row[i].vm # "none"
             /\ flow[i].stage = "idle" =>
                  \A m \in Nodes : i \in guests[m] => m = n
  <2>1. row[i].host \in {n, NoNode}
    BY <1>d, <1>p DEF DeletesLocated
  <2> QED
    BY <1>d, <2>1, <1>p, <1>t, <1>n DEF Located, DeletesLocated, GuestLocated, LeftBehind
<1>11. ASSUME NEW i \in Instances, NEW n \in Nodes, TerminateSave(i, n)
       PROVE  Consistent'
  <2>1. /\ row'[i].host = row[i].host /\ row'[i].vm # "none"
        /\ \A j \in Instances \ {i} : row'[j] = row[j]
    <3>1. CASE row' = row
      BY <1>11, <3>1, <1>d DEF TerminateSave
    <3>2. CASE row' = Saved(i, "deleted", "none", row[i].host)
      BY <3>2, SavedRow
    <3> QED
      BY <1>11, <3>1, <3>2 DEF TerminateSave
  <2>2. /\ UNCHANGED <<tracked, flow>> /\ pending' \subseteq pending
        /\ flow[i].stage \in {"idle", "left"}
    BY <1>11, <1>d DEF TerminateSave
  <2>3. \A j \in Instances, m \in Nodes :
          (j \in guests'[m]) <=> IF m = n /\ j = i THEN FALSE
                                                   ELSE j \in guests[m]
    BY <1>11 DEF TerminateSave, TypeOK
  <2>4. \A j \in Instances \ {i}, m \in Nodes, h \in Nodes \cup {NoNode} :
          <<j, m, h>> \in ending' => <<j, m, h>> \in ending
    BY <1>11 DEF TerminateSave
  <2>5. \A j \in Instances \ {i} : Unmoved(j)
    BY <2>1, <2>2, <2>3, <2>4 DEF Unmoved
  <2>6. flow[i].stage = "idle" => \A m \in Nodes : i \notin guests'[m]
    BY <1>11, <1>d, <2>3 DEF TerminateSave
  <2>7. Placed(i)'
    BY <2>1, <2>2, <2>6, <1>p DEF Placed, Located, DeletesLocated,
       GuestLocated, LeftBehind
  <2> QED
    BY <2>5, <2>7, OthersUnmoved
<1>12. ASSUME NEW i \in Instances, NEW n \in Nodes, NEW destroyed \in BOOLEAN,
              TerminateFails(i, n, destroyed)
       PROVE  Consistent'
  <2>1. /\ row'[i].host = row[i].host /\ row'[i].vm = "error"
        /\ \A j \in Instances \ {i} : row'[j] = row[j]
    BY <1>12, SavedRow DEF TerminateFails
  <2>2. /\ UNCHANGED <<tracked, flow, ending>>
        /\ pending' \subseteq pending /\ flow[i].stage \in {"idle", "left"}
        /\ \A m \in Nodes : guests'[m] \subseteq guests[m]
        /\ \A j \in Instances \ {i}, m \in Nodes :
             (j \in guests'[m]) <=> (j \in guests[m])
    BY <1>12, <1>d DEF TerminateFails, TypeOK
  <2>3. \A j \in Instances \ {i} : Unmoved(j)
    BY <2>1, <2>2 DEF Unmoved
  <2>4. Placed(i)'
    BY <2>1, <2>2, <1>p DEF Placed, Located, DeletesLocated, GuestLocated,
       LeftBehind
  <2> QED
    BY <2>3, <2>4, OthersUnmoved
<1>13. ASSUME NEW i \in Instances, NEW n \in Nodes,
              NEW h \in Nodes \cup {NoNode}, TerminateEnds(i, n, h)
       PROVE  Consistent'
  <2>1. /\ row'[i].host = row[i].host /\ row'[i].vm # "none"
        /\ \A j \in Instances \ {i} : row'[j] = row[j]
    <3>1. CASE row' = Saved(i, "error", "none", row[i].host)
      BY <3>1, SavedRow
    <3>2. CASE row' = Saved(i, "gone", row[i].task, row[i].host)
      BY <3>2, SavedRow
    <3> QED
      BY <1>13, <3>1, <3>2 DEF TerminateEnds
  <2>2. /\ UNCHANGED <<guests, flow, pending>> /\ ending' \subseteq ending
        /\ <<i, n, h>> \in ending
    BY <1>13 DEF TerminateEnds
  <2>3. \A j \in Instances \ {i}, m \in Nodes :
          (j \in tracked'[m]) <=> (j \in tracked[m])
    <3>1. CASE UpdateUsage(n, i, TRUE)
      BY <3>1, TrackedAfter
    <3>2. CASE tracked' = tracked
      BY <3>2
    <3> QED
      BY <1>13, <3>1, <3>2 DEF TerminateEnds
  <2>4. \A j \in Instances \ {i} : Unmoved(j)
    BY <2>1, <2>2, <2>3 DEF Unmoved
  <2>5. /\ flow[i].stage \in {"idle", "left"}
        /\ flow[i].stage = "idle" => \A m \in Nodes : i \notin guests[m]
    BY <2>2, <1>p DEF DeletesLocated
  <2>6. Placed(i)'
    BY <2>1, <2>2, <2>5, <1>p DEF Placed, Located, DeletesLocated,
       GuestLocated, LeftBehind
  <2> QED
    BY <2>4, <2>6, OthersUnmoved
<1>14. ASSUME NEW n \in Nodes, AuditInstances(n)
       PROVE  Consistent'
  <2>1. /\ UNCHANGED <<row, guests, flow, pending, ending>>
        /\ \A m \in Nodes, i \in Instances :
             (i \in tracked'[m]) <=>
                IF m = n THEN /\ row[i].vm \notin {"none", "deleted", "gone"}
                              /\ row[i].host = n
                         ELSE i \in tracked[m]
    BY <1>14 DEF AuditInstances, CountInstances, Residents, TypeOK
  <2>2. SUFFICES ASSUME NEW i \in Instances PROVE Placed(i)'
    BY DEF Consistent
  <2>3. Located(i)'
    BY <2>1, <1>p, <1>t DEF Located
  <2>4. DeletesLocated(i)' /\ GuestLocated(i)'
    BY <2>1, <1>p DEF DeletesLocated, GuestLocated, LeftBehind
  <2> QED
    BY <2>3, <2>4 DEF Placed
<1>15. ASSUME NEW n \in Nodes, AuditMigrations(n)
       PROVE  Consistent'
  BY <1>15 DEF AuditMigrations, Consistent, Placed, Located, DeletesLocated,
     GuestLocated, LeftBehind
<1>16. ASSUME NEW n \in Nodes, NEW lost \in SUBSET pending, Restart(n, lost)
       PROVE  Consistent'
  <2> DEFINE here == {i \in Instances : row[i].host = n /\ Exists(i)}
  <2>1. \A i \in Instances :
          /\ row'[i].host = row[i].host
          /\ i \notin here => row'[i] = row[i]
          /\ i \in here => /\ row'[i] = Initialised(i)
                           /\ row'[i].vm \notin {"none", "building", "deleted"}
                           /\ row'[i].vm \in {"error", "gone", row[i].vm}
    <3>1. row' = [i \in Instances |-> IF i \in here THEN Initialised(i)
                                                    ELSE row[i]]
      BY <1>16 DEF Restart
    <3>2. \A i \in Instances :
            /\ Initialised(i).host = row[i].host
            /\ i \in here =>
                 /\ Initialised(i).vm \notin {"none", "building", "deleted"}
                 /\ Initialised(i).vm \in {"error", "gone", row[i].vm}
      BY DEF Initialised, With, Exists
    <3> QED
      BY <3>1, <3>2
  <2>2. \A i \in Instances :
          flow'[i] = IF flow[i].node # n THEN flow[i]
                     ELSE IF flow[i].stage = "unclean" THEN Left ELSE Idle
    BY <1>16 DEF Restart
  <2>3. \A m \in Nodes, i \in Instances :
          (i \in tracked'[m]) <=>
             IF m = n THEN /\ row'[i].vm \notin {"none", "deleted", "gone"}
                           /\ row'[i].host = n
                      ELSE i \in tracked[m]
    BY <1>16 DEF Restart, CountInstances, Residents, TypeOK
  <2>4. \A m \in Nodes, i \in Instances :
          (i \in guests'[m]) <=> /\ i \in guests[m]
                                 /\ m = n /\ i \in here => row'[i].vm # "gone"
    BY <1>16 DEF Restart, TypeOK
  <2>5. pending' \subseteq pending /\ ending' \subseteq ending
    BY <1>16 DEF Restart
  <2>6. SUFFICES ASSUME NEW i \in Instances PROVE Placed(i)'
    BY DEF Consistent
  <2>7. Located(i)'
    <3>1. CASE i \in here
      <4>1. flow'[i].stage \in {"idle", "left"}
        BY <2>2, <3>1, <1>p, <1>t, <1>n DEF Located, Idle, Left
      <4> QED
        BY <4>1, <2>1, <3>1 DEF Located
    <3>2. CASE i \notin here
      <4>1. row'[i] = row[i] /\ flow'[i] \in {Idle, Left, flow[i]}
        BY <2>1, <2>2, <3>2
      <4>2. \A m \in Nodes :
              m # n => ((i \in tracked'[m]) <=> (i \in tracked[m]))
        BY <2>3
      <4>3. row[i].vm = "none" => i \notin tracked'[n]
        BY <4>1, <2>3
      <4>4. flow'[i].stage \in {"claimed", "spawning", "failed", "unclean"} =>
              flow'[i] = flow[i] /\ flow[i].node # n
        BY <2>2 DEF Idle, Left
      <4>5. \A m \in Nodes : i \in guests'[m] => i \in guests[m]
        BY <2>4
      <4>6. row[i].vm = "none" => flow'[i] = flow[i]
        BY <2>2, <1>p, <1>t, <1>n DEF Located
      <4> QED
        BY <4>1, <4>2, <4>3, <4>4, <4>5, <4>6, <1>p, <1>t DEF Located, Idle, Left
    <3> QED
      BY <3>1, <3>2
  <2>8. DeletesLocated(i)'
    <3>1. row'[i].vm # "none" <=> row[i].vm # "none"
      BY <2>1 DEF Exists
    <3>2. /\ flow'[i].stage \in {"idle", "left", flow[i].stage}
          /\ flow[i].stage = "left" => flow'[i].stage = "left"
          /\ flow[i].stage = "idle" => flow'[i].stage = "idle"
      BY <2>2, <1>t, <1>n DEF Idle, Left
    <3> QED
      BY <3>1, <3>2, <2>1, <2>4, <2>5, <1>p DEF DeletesLocated
  <2>9. GuestLocated(i)'
    <3> SUFFICES ASSUME NEW m \in Nodes, i \in guests'[m]
                 PROVE  \/ LeftBehind(i)' /\ row'[i].vm # "none"
                        \/ /\ row'[i].host = m /\ i \in tracked'[m]
                           /\ row'[i].vm \in {"building", "active", "error"}
      BY DEF GuestLocated
    <3>0. CASE LeftBehind(i) /\ row[i].vm # "none"
      <4>1. flow'[i].stage \in {"unclean", "left"}
        BY <3>0, <2>2, <1>t, <1>n DEF LeftBehind, Left
      <4>2. row'[i].vm # "none"
        BY <3>0, <2>1
      <4> QED
        BY <4>1, <4>2 DEF LeftBehind
    <3> SUFFICES ASSUME ~(LeftBehind(i) /\ row[i].vm # "none")
                 PROVE  /\ row'[i].host = m /\ i \in tracked'[m]
                        /\ row'[i].vm \in {"building", "active", "error"}
      BY <3>0
    <3>1. /\ i \in guests[m] /\ row[i].host = m /\ i \in tracked[m]
          /\ row[i].vm \in {"building", "active", "error"}
      BY <2>4, <1>p DEF GuestLocated
    <3>2. CASE m = n
      <4>1. i \in here
        BY <3>1, <3>2 DEF Exists
      <4>2. row'[i].vm \in {"active", "error"}
        BY <2>1, <2>4, <3>1, <3>2, <4>1
      <4> QED
        BY <4>2, <2>1, <2>3, <3>1, <3>2
    <3>3. CASE m # n
      BY <2>1, <2>3, <3>1, <3>3
    <3> QED
      BY <3>2, <3>3
  <2> QED
    BY <2>7, <2>8, <2>9 DEF Placed
<1>17. CASE UNCHANGED vars
  BY <1>17 DEF vars, Consistent, Placed, Located, DeletesLocated, GuestLocated,
     LeftBehind
<1> QED
  BY <1>1, <1>2, <1>3, <1>4, <1>5, <1>6, <1>7, <1>8, <1>9, <1>10, <1>11,
     <1>12, <1>13, <1>14, <1>15, <1>16, <1>17, <1>18, <1>19, <1>20
     DEF Next, ComputeNext, Build, Terminate, Audit

\* Initially nothing is anywhere.
LEMMA InitPlaced == Init => Consistent
BY DEF Init, Idle, Consistent, Placed, Located, DeletesLocated, GuestLocated

-----------------------------------------------------------------------------
(* Usage. *)

\* What the instances in S take with the flavors of a table of rows.
SizeIn(rows, S) == Total([i \in S |-> rows[i].flavor])

\* The usage of each node is what its tracked instances take.
Exact == \A n \in Nodes : used[n] = SizeIn(row, tracked[n])

\* Every claim and every guest fits its node.
Fits == \A n \in Nodes : SizeIn(row, Demand(n)) <= Limit[n]

\* The size of a set depends on the flavors of its members and grows with it.
LEMMA SizeInFacts ==
  ASSUME NEW rows \in [Instances -> RowType],
         NEW T \in SUBSET Instances
  PROVE  /\ SizeIn(rows, T) \in Nat
         /\ \A S \in SUBSET T : SizeIn(rows, S) <= SizeIn(rows, T)
         /\ \A i \in Instances \ T :
              SizeIn(rows, T \cup {i}) = SizeIn(rows, T) + rows[i].flavor
         /\ \A i \in T :
              SizeIn(rows, T \ {i}) = SizeIn(rows, T) - rows[i].flavor
<1>1. SizeIn(rows, T) \in Nat
  <2>1. [i \in T |-> rows[i].flavor] \in [T -> Int]
    BY DEF RowType, Flavors
  <2> QED
    BY <2>1, TotalType DEF SizeIn
<1>2. ASSUME NEW S \in SUBSET T
      PROVE  SizeIn(rows, S) <= SizeIn(rows, T)
  <2> DEFINE size == [i \in Instances |-> rows[i].flavor]
  <2>1. size \in [Instances -> Flavors]
    BY DEF RowType
  <2>2. /\ [i \in S |-> rows[i].flavor] = [i \in S |-> size[i]]
        /\ [i \in T |-> rows[i].flavor] = [i \in T |-> size[i]]
    OBVIOUS
  <2> HIDE DEF size
  <2> QED
    BY <2>1, <2>2, TotalMonotone DEF SizeIn
<1>3. ASSUME NEW S \in SUBSET Instances, NEW i \in Instances \ S
      PROVE  SizeIn(rows, S \cup {i}) = SizeIn(rows, S) + rows[i].flavor
  <2>1. S \in SUBSET S
    OBVIOUS
  <2> QED
    BY <2>1, SizeFacts DEF SizeIn
<1>4. ASSUME NEW i \in T
      PROVE  SizeIn(rows, T \ {i}) = SizeIn(rows, T) - rows[i].flavor
  <2>1. T \ {i} \in SUBSET Instances /\ i \in Instances \ (T \ {i})
        /\ (T \ {i}) \cup {i} = T
    OBVIOUS
  <2>2. SizeIn(rows, T) = SizeIn(rows, T \ {i}) + rows[i].flavor
    BY <2>1, <1>3
  <2>3. SizeIn(rows, T \ {i}) \in Nat
    <3>1. [j \in T \ {i} |-> rows[j].flavor] \in [T \ {i} -> Int]
      BY DEF RowType, Flavors
    <3> QED
      BY <2>1, <3>1, TotalType DEF SizeIn
  <2>4. rows[i].flavor \in Int
    BY DEF RowType, Flavors
  <2> QED
    BY <2>2, <2>3, <2>4
<1> QED
  BY <1>1, <1>2, <1>3, <1>4

\* Rows that agree on the flavors of S give it the same size.
LEMMA SizeKept ==
  ASSUME NEW rows, NEW rows2, NEW S \in SUBSET Instances,
         \A i \in S : rows[i].flavor = rows2[i].flavor
  PROVE  SizeIn(rows, S) = SizeIn(rows2, S)
<1>1. [i \in S |-> rows[i].flavor] = [i \in S |-> rows2[i].flavor]
  OBVIOUS
<1> QED
  BY <1>1 DEF SizeIn

\* Every claim and every guest is tracked where it is.
LEMMA DemandTracked ==
  ASSUME TypeOK, Consistent, NEW n \in Nodes
  PROVE  Demand(n) \in SUBSET tracked[n] /\ tracked[n] \in SUBSET Instances
BY DEF TypeOK, Consistent, Placed, Located, GuestLocated, Demand, LeftBehind

\* Counting an untracked instance, or giving a tracked one back, is exact.
LEMMA UpdateExact ==
  ASSUME TypeOK, TypeOK', Exact, NEW n \in Nodes, NEW i \in Instances,
         NEW deleted \in BOOLEAN, UpdateUsage(n, i, deleted),
         deleted => i \in tracked[n],
         \A j \in Instances : row'[j].flavor = row[j].flavor
  PROVE  Exact'
<1> SUFFICES ASSUME NEW m \in Nodes
             PROVE  used'[m] = SizeIn(row', tracked'[m])
  BY DEF Exact
<1>1. row \in [Instances -> RowType] /\ row[i].flavor \in Int
  BY DEF TypeOK, RowType, Flavors
<1>2. tracked[m] \in SUBSET Instances /\ tracked'[m] \in SUBSET Instances
  BY DEF TypeOK
<1>3. SizeIn(row', tracked'[m]) = SizeIn(row, tracked'[m])
  BY <1>2, SizeKept
<1>4. used[m] = SizeIn(row, tracked[m])
  BY DEF Exact
<1>5. CASE m # n
  <2>1. tracked'[m] = tracked[m] /\ used'[m] = used[m]
    BY <1>5 DEF UpdateUsage, TypeOK
  <2> QED
    BY <2>1, <1>3, <1>4
<1>6. CASE m = n /\ deleted
  <2>1. /\ tracked'[m] = tracked[m] \ {i} /\ i \in tracked[m]
        /\ used'[m] = used[m] - row[i].flavor
    BY <1>6 DEF UpdateUsage, TypeOK
  <2> QED
    BY <2>1, <1>1, <1>2, <1>3, <1>4, SizeInFacts
<1>7. CASE m = n /\ ~deleted /\ i \in tracked[m]
  <2>1. tracked'[m] = tracked[m] /\ used'[m] = used[m]
    BY <1>7 DEF UpdateUsage, TypeOK
  <2> QED
    BY <2>1, <1>3, <1>4
<1>8. CASE m = n /\ ~deleted /\ i \notin tracked[m]
  <2>1. /\ tracked'[m] = tracked[m] \cup {i}
        /\ used'[m] = used[m] + row[i].flavor
    BY <1>8 DEF UpdateUsage, TypeOK
  <2> QED
    BY <2>1, <1>1, <1>2, <1>3, <1>4, <1>8, SizeInFacts
<1> QED
  BY <1>5, <1>6, <1>7, <1>8

\* Counting the residents is exact.
LEMMA CountExact ==
  ASSUME TypeOK, TypeOK', Exact, NEW n \in Nodes,
         NEW rows \in [Instances -> RowType], CountInstances(rows, n),
         \A j \in Instances : rows[j].flavor = row[j].flavor,
         \A j \in Instances : row'[j].flavor = row[j].flavor
  PROVE  Exact'
<1> SUFFICES ASSUME NEW m \in Nodes
             PROVE  used'[m] = SizeIn(row', tracked'[m])
  BY DEF Exact
<1>1. tracked[m] \in SUBSET Instances /\ tracked'[m] \in SUBSET Instances
  BY DEF TypeOK
<1>2. SizeIn(row', tracked'[m]) = SizeIn(row, tracked'[m])
  BY <1>1, SizeKept
<1>3. CASE m # n
  <2>1. tracked'[m] = tracked[m] /\ used'[m] = used[m]
    BY <1>3 DEF CountInstances, TypeOK
  <2> QED
    BY <2>1, <1>2 DEF Exact
<1>4. CASE m = n
  <2>1. /\ tracked'[m] = Residents(rows, n)
        /\ used'[m] = Size(Residents(rows, n))
    BY <1>4 DEF CountInstances, TypeOK
  <2> QED
    BY <2>1, <1>2 DEF Size, SizeIn
<1> QED
  BY <1>3, <1>4

\* Only the creation of a row writes its flavor.
LEMMA FlavorsKept ==
  ASSUME TypeOK, [Next]_vars, NEW j \in Instances, row[j].vm # "none"
  PROVE  row'[j].flavor = row[j].flavor
<1> USE DEF tables
<1>1. ASSUME NEW i \in Instances, NEW f \in Flavors, Boot(i, f)
      PROVE  row'[j].flavor = row[j].flavor
  BY <1>1 DEF Boot, TypeOK
<1>2. ASSUME NEW i \in Instances, NEW vm, NEW task, NEW host,
             row' = Saved(i, vm, task, host)
      PROVE  row'[j].flavor = row[j].flavor
  BY <1>2, SavedRow
<1>3. ASSUME NEW i \in Instances, Build(i)
      PROVE  row'[j].flavor = row[j].flavor
  <2>1. CASE row' = row
    BY <2>1
  <2>2. CASE row' # row
    BY <1>2, <1>3, <2>2 DEF Build, InstanceClaim, ClaimRefused, GiveBack,
       NoValidHost, BuildDropped, Spawn, Abort, AbortUnclean, UncleanFailed,
       BuildFailed, BuildEnds, BuildPreempted
  <2> QED
    BY <2>1, <2>2
<1>4. ASSUME NEW i \in Instances, Delete(i)
      PROVE  row'[j].flavor = row[j].flavor
  BY <1>2, <1>4 DEF Delete
<1>5. ASSUME NEW i \in Instances, NEW n \in Nodes, Terminate(i, n)
      PROVE  row'[j].flavor = row[j].flavor
  <2>1. CASE row' = row
    BY <2>1
  <2>2. CASE row' # row
    BY <1>2, <1>5, <2>2 DEF Terminate, TerminateSave, TerminateFails,
       TerminateEnds
  <2> QED
    BY <2>1, <2>2
<1>6. ASSUME NEW n \in Nodes, Audit(n)
      PROVE  row'[j].flavor = row[j].flavor
  BY <1>6 DEF Audit, AuditInstances, AuditMigrations
<1>7. ASSUME NEW n \in Nodes, NEW lost \in SUBSET pending, Restart(n, lost)
      PROVE  row'[j].flavor = row[j].flavor
  BY <1>7 DEF Restart, Initialised, With
<1> QED
  BY <1>1, <1>3, <1>4, <1>5, <1>6, <1>7 DEF Next, ComputeNext, vars

\* Every step keeps the usage exact.
LEMMA NextExact ==
  ASSUME ~Retries, TypeOK, TypeOK', NoMoves, Consistent, Exact, [Next]_vars
  PROVE  Exact'
<1> USE DEF trackers, tables
<1>u. ASSUME UNCHANGED <<tracked, used>>,
             \A n \in Nodes :
               \A j \in tracked[n] : row'[j].flavor = row[j].flavor
      PROVE  Exact'
  <2> SUFFICES ASSUME NEW n \in Nodes
               PROVE  used'[n] = SizeIn(row', tracked'[n])
    BY DEF Exact
  <2>1. tracked[n] \in SUBSET Instances
    BY DEF TypeOK
  <2>2. SizeIn(row', tracked[n]) = SizeIn(row, tracked[n])
    BY <2>1, <1>u, SizeKept
  <2> QED
    BY <1>u, <2>2 DEF Exact
<1>v. \A n \in Nodes :
        \A j \in tracked[n] : j \in Instances /\ row[j].vm # "none"
  BY DEF TypeOK, Consistent, Placed, Located
<1>w. \A n \in Nodes : \A j \in tracked[n] : row'[j].flavor = row[j].flavor
  BY <1>v, FlavorsKept
<1>x. UNCHANGED <<tracked, used>> => Exact'
  BY <1>u, <1>w
<1>1. ASSUME NEW i \in Instances, NEW n \in Nodes, InstanceClaim(i, n)
      PROVE  Exact'
  <2>1. \A j \in Instances : row'[j].flavor = row[j].flavor
    BY <1>1, SavedRow DEF InstanceClaim
  <2> QED
    BY <1>1, <2>1, UpdateExact DEF InstanceClaim
<1>2. ASSUME NEW i \in Instances, NEW vanished \in BOOLEAN,
             Abort(i, vanished)
      PROVE  Exact'
  <2>1. /\ flow[i].node \in Nodes /\ i \in tracked[flow[i].node]
        /\ row' = row /\ UpdateUsage(flow[i].node, i, TRUE)
    BY <1>2 DEF Abort, TypeOK, FlowType, Consistent, Placed, Located
  <2> QED
    BY <2>1, UpdateExact
<1>8. ASSUME NEW i \in Instances, AbortUnclean(i)
      PROVE  Exact'
  <2>1. /\ flow[i].node \in Nodes /\ i \in tracked[flow[i].node]
        /\ row' = row /\ UpdateUsage(flow[i].node, i, TRUE)
    BY <1>8 DEF AbortUnclean, TypeOK, FlowType, Consistent, Placed, Located
  <2> QED
    BY <2>1, UpdateExact
<1>3. ASSUME NEW i \in Instances, NEW n \in Nodes,
             NEW h \in Nodes \cup {NoNode}, TerminateEnds(i, n, h)
      PROVE  Exact'
  <2>1. CASE h = n /\ i \in tracked[n]
    <3>1. UpdateUsage(n, i, TRUE)
      BY <1>3, <2>1 DEF TerminateEnds
    <3>2. \A j \in Instances : row'[j].flavor = row[j].flavor
      <4>1. CASE row' = Saved(i, "error", "none", row[i].host)
        BY <4>1, SavedRow
      <4>2. CASE row' = Saved(i, "gone", row[i].task, row[i].host)
        BY <4>2, SavedRow
      <4> QED
        BY <1>3, <4>1, <4>2 DEF TerminateEnds
    <3> QED
      BY <2>1, <3>1, <3>2, UpdateExact
  <2>2. CASE ~(h = n /\ i \in tracked[n])
    BY <1>3, <2>2, <1>x DEF TerminateEnds
  <2> QED
    BY <2>1, <2>2
<1>4. ASSUME NEW n \in Nodes, AuditInstances(n)
      PROVE  Exact'
  <2>1. CountInstances(row, n) /\ row' = row /\ row \in [Instances -> RowType]
    BY <1>4 DEF AuditInstances, TypeOK
  <2> QED
    BY <2>1, CountExact
<1>5. ASSUME NEW n \in Nodes, AuditMigrations(n)
      PROVE  Exact'
  <2>1. \A i \in Instances : Candidates(i, n) = {}
    BY DEF Candidates, InResizeState, NoMoves
  <2>2. used' = [used EXCEPT ![n] = @ + Total([i \in Instances |-> NoFlavor])]
    BY <1>5, <2>1 DEF AuditMigrations
  <2>3. Total([i \in Instances |-> NoFlavor]) = 0
    BY TotalZero
  <2>4. used' = used
    BY <2>2, <2>3 DEF TypeOK
  <2> QED
    BY <1>5, <2>4, <1>x DEF AuditMigrations
<1>6. ASSUME NEW n \in Nodes, NEW lost \in SUBSET pending, Restart(n, lost)
      PROVE  Exact'
  <2>1. CountInstances(row', n)
    BY <1>6 DEF Restart
  <2>2. \A j \in Instances : row'[j].flavor = row[j].flavor
    BY <1>6 DEF Restart, Initialised, With
  <2>3. row' \in [Instances -> RowType]
    BY DEF TypeOK
  <2> QED
    BY <2>1, <2>2, <2>3, CountExact
<1>7. CASE UNCHANGED <<tracked, used>>
  BY <1>7, <1>x
<1> QED
  BY <1>1, <1>2, <1>3, <1>4, <1>5, <1>6, <1>7, <1>8
     DEF Next, ComputeNext, Build, Terminate, Audit, vars, Boot, ClaimRefused,
         NoValidHost, BuildDropped, Spawn, BuildFailed, UncleanFailed, BuildEnds,
         BuildPreempted, Delete, TerminateSave, TerminateFails

\* Only a claim that was tested adds to what a node must hold.
LEMMA NextDemand ==
  ASSUME TypeOK, TypeOK', Consistent, [Next]_vars, NEW n \in Nodes,
         \A i \in Instances : ~InstanceClaim(i, n)
  PROVE  Demand(n)' \subseteq Demand(n)
<1> USE DEF trackers, tables
<1> DEFINE Claims(f, j) == f[j].node = n /\ f[j].stage \in {"claimed",
                                                            "spawning"}
<1>s. SUFFICES ASSUME NEW j \in Instances,
                      (j \in guests'[n] /\ ~LeftBehind(j)') \/ Claims(flow', j)
               PROVE  (j \in guests[n] /\ ~LeftBehind(j)) \/ Claims(flow, j)
  BY DEF Demand, TypeOK
<1> DEFINE Held == (j \in guests[n] /\ ~LeftBehind(j)) \/ Claims(flow, j)
<1>k. ASSUME guests'[n] \subseteq guests[n],
             \/ flow'[j] = flow[j]
             \/ /\ flow'[j].stage \notin {"claimed", "spawning"}
                /\ flow[j].stage \notin {"unclean", "left"}
             \/ flow'[j].stage \in {"unclean", "left"}
      PROVE  Held
  BY <1>s, <1>k DEF LeftBehind
<1>f. ASSUME NEW i \in Instances, NEW f, flow' = [flow EXCEPT ![i] = f]
      PROVE  flow'[j] = IF j = i THEN f ELSE flow[j]
  BY <1>f DEF TypeOK
<1>1. ASSUME NEW i \in Instances, NEW m \in Nodes, InstanceClaim(i, m)
      PROVE  Held
  <2>1. m # n
    BY <1>1
  <2>2. /\ flow'[j] = IF j = i THEN At("claimed", m) ELSE flow[j]
        /\ guests' = guests /\ flow[i].stage = "scheduling"
    BY <1>1, <1>f DEF InstanceClaim, MayBuild
  <2> QED
    BY <1>s, <2>1, <2>2 DEF At, LeftBehind
<1>2. ASSUME NEW i \in Instances, Spawn(i)
      PROVE  Held
  <2>1. flow[i].stage = "claimed" /\ flow[i].node \in Nodes
    BY <1>2 DEF Spawn, TypeOK, FlowType
  <2>2. CASE j = i
    <3>1. flow'[i] = At("spawning", flow[i].node)
      BY <1>2 DEF Spawn, TypeOK
    <3>2. i \in guests'[n] => i \in guests[n] \/ flow[i].node = n
      BY <1>2, <2>1 DEF Spawn, TypeOK
    <3> QED
      BY <1>s, <2>1, <2>2, <3>1, <3>2 DEF At, LeftBehind
  <2>3. CASE j # i
    <3>1. flow'[j] = flow[j] /\ (j \in guests'[n] => j \in guests[n])
      BY <1>2, <2>1, <2>3 DEF Spawn, TypeOK
    <3> QED
      BY <1>s, <3>1 DEF LeftBehind
  <2> QED
    BY <2>2, <2>3
<1>3. ASSUME NEW i \in Instances, NEW vanished \in BOOLEAN,
             Abort(i, vanished)
      PROVE  Held
  <2>1. \/ flow'[j] = flow[j]
        \/ /\ flow'[j] \in {Idle, At("failed", flow[i].node)}
           /\ flow[j].stage \in {"claimed", "spawning"}
    BY <1>3 DEF Abort, TypeOK
  <2>2. guests'[n] \subseteq guests[n]
    BY <1>3 DEF Abort, TypeOK
  <2> QED
    BY <1>k, <2>1, <2>2 DEF Idle, At
<1>4. ASSUME NEW n2 \in Nodes, NEW lost \in SUBSET pending, Restart(n2, lost)
      PROVE  Held
  <2>1. flow[j].stage = "left" => flow[j].node # n2
    BY TrackerAssumption DEF TypeOK, FlowType
  <2>2. flow'[j] = IF flow[j].node # n2 THEN flow[j]
                   ELSE IF flow[j].stage = "unclean" THEN Left ELSE Idle
    BY <1>4 DEF Restart
  <2>3. guests'[n] \subseteq guests[n]
    BY <1>4 DEF Restart, TypeOK
  <2> QED
    BY <1>k, <2>1, <2>2, <2>3 DEF Idle, Left
<1>5. ASSUME NEW i \in Instances, NEW m \in Nodes, Terminate(i, m)
      PROVE  Held
  <2>1. flow' = flow /\ guests'[n] \subseteq guests[n]
    <3>1. CASE TerminateSave(i, m)
      BY <3>1 DEF TerminateSave, TypeOK
    <3>2. ASSUME NEW destroyed \in BOOLEAN, TerminateFails(i, m, destroyed)
          PROVE  flow' = flow /\ guests'[n] \subseteq guests[n]
      BY <3>2 DEF TerminateFails, TypeOK
    <3>3. ASSUME NEW h \in Nodes \cup {NoNode}, TerminateEnds(i, m, h)
          PROVE  flow' = flow /\ guests'[n] \subseteq guests[n]
      BY <3>3 DEF TerminateEnds
    <3> QED
      BY <1>5, <3>1, <3>2, <3>3 DEF Terminate
  <2> QED
    BY <1>k, <2>1
<1>6. ASSUME NEW i \in Instances, NEW retry \in BOOLEAN, GiveBack(i, retry),
             guests' = guests, flow[i].stage \notin {"unclean", "left"}
      PROVE  Held
  <2>1. \/ flow'[j] = flow[j]
        \/ j = i /\ flow'[j] \in {Idle, At("scheduling", NoNode)}
    BY <1>6 DEF GiveBack, TypeOK
  <2> QED
    BY <1>6, <1>k, <2>1 DEF Idle, At
<1>7. ASSUME NEW i \in Instances, flow' = [flow EXCEPT ![i] = Idle],
             guests' = guests, flow[i].stage \notin {"unclean", "left"}
      PROVE  Held
  BY <1>7, <1>f, <1>k DEF Idle
<1>8. ASSUME NEW i \in Instances, NEW f \in Flavors, Boot(i, f)
      PROVE  Held
  <2>1. /\ flow'[j] = IF j = i THEN At("scheduling", NoNode) ELSE flow[j]
        /\ guests' = guests
    BY <1>8, <1>f DEF Boot
  <2>2. flow[i].stage = "idle"
    BY <1>8 DEF Boot, Consistent, Placed, Located
  <2> QED
    BY <1>k, <2>1, <2>2 DEF At
<1>9. ASSUME UNCHANGED <<flow, guests>>
      PROVE  Held
  BY <1>9, <1>s DEF LeftBehind
<1>17. ASSUME NEW i \in Instances, AbortUnclean(i)
       PROVE  Held
  <2>1. flow'[j] = IF j = i THEN At("unclean", flow[i].node) ELSE flow[j]
    BY <1>17, <1>f DEF AbortUnclean
  <2>2. guests' = guests
    BY <1>17 DEF AbortUnclean
  <2> QED
    BY <1>k, <2>1, <2>2 DEF At
<1>18. ASSUME NEW i \in Instances, UncleanFailed(i)
       PROVE  Held
  <2>1. flow'[j] = IF j = i THEN Left ELSE flow[j]
    BY <1>18, <1>f DEF UncleanFailed
  <2>2. guests' = guests
    BY <1>18 DEF UncleanFailed
  <2> QED
    BY <1>k, <2>1, <2>2 DEF Left
<1> HIDE DEF Claims, Held
<1>10. ASSUME NEW i \in Instances, NEW m \in Nodes, NEW retry \in BOOLEAN,
              ClaimRefused(i, m, retry)
       PROVE  Held
  BY <1>6, <1>10 DEF ClaimRefused, MayBuild
<1>11. ASSUME NEW i \in Instances, NEW retry \in BOOLEAN, BuildFailed(i, retry)
       PROVE  Held
  BY <1>6, <1>7, <1>11 DEF BuildFailed
<1>12. ASSUME NEW i \in Instances,
              NoValidHost(i) \/ BuildDropped(i) \/ BuildEnds(i)
       PROVE  Held
  BY <1>7, <1>12 DEF NoValidHost, BuildDropped, BuildEnds
<1>13. ASSUME NEW i \in Instances, BuildPreempted(i)
       PROVE  Held
  BY <1>6, <1>13 DEF BuildPreempted
<1>14. ASSUME NEW i \in Instances, Delete(i)
       PROVE  Held
  BY <1>9, <1>14 DEF Delete
<1>15. ASSUME NEW m \in Nodes, Audit(m)
       PROVE  Held
  BY <1>9, <1>15 DEF Audit, AuditInstances, AuditMigrations
<1>16. CASE UNCHANGED vars
  BY <1>9, <1>16 DEF vars, Held
<1> QED
  BY <1>1, <1>2, <1>3, <1>4, <1>5, <1>8, <1>10, <1>11, <1>12, <1>13, <1>14,
     <1>15, <1>16, <1>17, <1>18 DEF Next, ComputeNext, Build, Held

\* A claim adds its instance, which fits in what the usage leaves.
LEMMA ClaimFits ==
  ASSUME TypeOK, TypeOK', Consistent, Exact, NEW n \in Nodes,
         NEW i \in Instances, InstanceClaim(i, n)
  PROVE  SizeIn(row', Demand(n)') <= Limit[n]
<1>1. Demand(n) \in SUBSET tracked[n] /\ tracked[n] \in SUBSET Instances
  BY DemandTracked
<1>2. Demand(n)' \in SUBSET (Demand(n) \cup {i})
  <2>1. /\ guests' = guests /\ flow[i].stage = "scheduling"
        /\ \A j \in Instances \ {i} : flow'[j] = flow[j]
    BY DEF InstanceClaim, MayBuild, TypeOK
  <2> QED
    BY <2>1 DEF Demand, LeftBehind, TypeOK
<1>3. row \in [Instances -> RowType] /\ row' \in [Instances -> RowType]
  BY DEF TypeOK
<1>4. \A j \in Instances : row'[j].flavor = row[j].flavor
  BY SavedRow DEF InstanceClaim
<1>5. row[i].flavor \in Nat /\ Limit[n] \in Nat /\ used[n] \in Int
  <2>1. row[i].flavor \in Flavors
    BY <1>3 DEF RowType
  <2> QED
    BY <2>1, TrackerAssumption DEF TypeOK, Flavors
<1>6. used[n] = SizeIn(row, tracked[n]) /\ row[i].flavor <= Limit[n] - used[n]
  BY DEF Exact, InstanceClaim, ClaimTest
<1>7. SizeIn(row, Demand(n)) <= used[n]
  BY <1>1, <1>3, <1>6, SizeInFacts
<1>8. Demand(n) \in SUBSET Instances /\ Demand(n)' \in SUBSET Instances
      /\ Demand(n) \cup {i} \in SUBSET Instances
  BY <1>1, <1>2
<1>9. /\ SizeIn(row, Demand(n)) \in Nat
      /\ SizeIn(row, Demand(n) \cup {i}) \in Nat
      /\ SizeIn(row, Demand(n)') \in Nat
  BY <1>3, <1>8, SizeInFacts
<1>10. SizeIn(row, Demand(n) \cup {i})
         <= SizeIn(row, Demand(n)) + row[i].flavor
  <2>1. CASE i \in Demand(n)
    <3>1. Demand(n) \cup {i} = Demand(n)
      BY <2>1
    <3>2. SizeIn(row, Demand(n) \cup {i}) = SizeIn(row, Demand(n))
      BY <3>1
    <3>3. row[i].flavor \in Nat /\ SizeIn(row, Demand(n)) \in Nat
      BY <1>5, <1>9
    <3> QED
      BY <3>2, <3>3
  <2>2. CASE i \notin Demand(n)
    <3>1. i \in Instances \ Demand(n)
      BY <2>2
    <3>2. SizeIn(row, Demand(n) \cup {i})
            = SizeIn(row, Demand(n)) + row[i].flavor
      BY <3>1, <1>3, <1>8, SizeInFacts
    <3>3. row[i].flavor \in Int /\ SizeIn(row, Demand(n)) \in Int
      BY <1>5, <1>9
    <3> QED
      BY <3>2, <3>3
  <2> QED
    BY <2>1, <2>2
<1>11. SizeIn(row, Demand(n)') <= SizeIn(row, Demand(n) \cup {i})
  BY <1>2, <1>3, <1>8, SizeInFacts
<1>12. SizeIn(row', Demand(n)') = SizeIn(row, Demand(n)')
  BY <1>4, <1>8, SizeKept
<1> QED
  BY <1>5, <1>6, <1>7, <1>9, <1>10, <1>11, <1>12

\* Every step leaves room for the guests and the claims of each node.
LEMMA NextFits ==
  ASSUME TypeOK, TypeOK', Consistent, Exact, Fits, [Next]_vars
  PROVE  Fits'
<1> SUFFICES ASSUME NEW n \in Nodes
             PROVE  SizeIn(row', Demand(n)') <= Limit[n]
  BY DEF Fits
<1>1. CASE \E i \in Instances : InstanceClaim(i, n)
  BY <1>1, ClaimFits
<1>2. CASE \A i \in Instances : ~InstanceClaim(i, n)
  <2>1. Demand(n)' \in SUBSET Demand(n)
    BY <1>2, NextDemand
  <2>2. Demand(n) \in SUBSET tracked[n] /\ tracked[n] \in SUBSET Instances
    BY DemandTracked
  <2>3. Demand(n) \in SUBSET Instances /\ Demand(n)' \in SUBSET Instances
    BY <2>1, <2>2
  <2>4. \A j \in tracked[n] : j \in Instances /\ row[j].vm # "none"
    BY <2>2 DEF Consistent, Placed, Located
  <2>5. \A j \in Demand(n)' : row'[j].flavor = row[j].flavor
    BY <2>1, <2>2, <2>4, FlavorsKept
  <2>6. SizeIn(row', Demand(n)') = SizeIn(row, Demand(n)')
    BY <2>3, <2>5, SizeKept
  <2>7. row \in [Instances -> RowType]
    BY DEF TypeOK
  <2>8. /\ SizeIn(row, Demand(n)') \in Nat /\ SizeIn(row, Demand(n)) \in Nat
        /\ SizeIn(row, Demand(n)') <= SizeIn(row, Demand(n))
    BY <2>1, <2>3, <2>7, SizeInFacts
  <2>9. SizeIn(row, Demand(n)) <= Limit[n] /\ Limit[n] \in Nat
    BY TrackerAssumption DEF Fits
  <2> QED
    BY <2>6, <2>8, <2>9
<1> QED
  BY <1>1, <1>2

\* Initially nothing is used.
LEMMA InitExact == Init => Exact /\ Fits
<1> SUFFICES ASSUME Init PROVE Exact /\ Fits
  OBVIOUS
<1>1. SizeIn(row, {}) = 0
  <2>1. [i \in {} |-> row[i].flavor] \in [{} -> {NoFlavor}]
        /\ {} \in SUBSET Instances
    OBVIOUS
  <2> QED
    BY <2>1, TotalZero DEF SizeIn
<1>2. \A n \in Nodes : tracked[n] = {} /\ used[n] = 0 /\ Limit[n] \in Nat
  BY TrackerAssumption DEF Init
<1>3. \A n \in Nodes : Demand(n) = {}
  BY DEF Init, Idle, Demand
<1> QED
  BY <1>1, <1>2, <1>3 DEF Exact, Fits

\* The inductive invariant of a deployment that does not reschedule.
Accounted == TypeOK /\ NoMoves /\ Consistent /\ Exact /\ Fits

\* It holds in every state.
LEMMA AlwaysAccounted ==
  ASSUME ~Retries
  PROVE  Spec => []Accounted
<1>1. Init => Accounted
  BY InitType, InitPlaced, InitExact DEF Accounted
<1>2. Accounted /\ [Next]_vars => Accounted'
  <2> SUFFICES ASSUME Accounted, [Next]_vars PROVE Accounted'
    OBVIOUS
  <2>1. TypeOK' /\ NoMoves'
    BY NextType DEF Accounted
  <2>2. Consistent'
    BY <2>1, NextPlaced DEF Accounted
  <2>3. Exact'
    BY <2>1, NextExact DEF Accounted
  <2>4. Fits'
    BY <2>1, NextFits DEF Accounted
  <2> QED
    BY <2>1, <2>2, <2>3, <2>4 DEF Accounted
<1> QED
  BY <1>1, <1>2, PTL DEF Spec

\* The increments of claims, aborts and deletes never drift from the sets of
\* instances they are for.
THEOREM UsageIsTracked ==
  ASSUME ~Retries
  PROVE  Spec => []UsedIsTracked
<1>1. Accounted => UsedIsTracked
  <2> SUFFICES ASSUME Accounted, NEW n \in Nodes
               PROVE  used[n] = Size(tracked[n]) + Total(moves[n])
    BY DEF UsedIsTracked
  <2>1. moves[n] = [i \in Instances |-> NoFlavor]
    BY DEF Accounted, NoMoves
  <2>2. Total(moves[n]) = 0
    BY <2>1, TotalZero
  <2>3. used[n] = Size(tracked[n]) /\ used[n] \in Int
    BY DEF Accounted, Exact, SizeIn, Size, TypeOK
  <2> QED
    BY <2>2, <2>3
<1> QED
  BY <1>1, AlwaysAccounted, PTL

\* No node reports less usage than its guests and claims take.
THEOREM ClaimsAlwaysCovered ==
  ASSUME ~Retries
  PROVE  Spec => []ClaimsCovered
<1>1. Accounted => ClaimsCovered
  <2> SUFFICES ASSUME Accounted, NEW n \in Nodes
               PROVE  Size(Demand(n)) <= used[n]
    BY DEF ClaimsCovered
  <2>1. Demand(n) \in SUBSET tracked[n] /\ tracked[n] \in SUBSET Instances
    BY DemandTracked DEF Accounted
  <2>2. row \in [Instances -> RowType] /\ used[n] = SizeIn(row, tracked[n])
    BY DEF Accounted, TypeOK, Exact
  <2>3. SizeIn(row, Demand(n)) <= used[n]
    BY <2>1, <2>2, SizeInFacts
  <2> QED
    BY <2>3 DEF Size, SizeIn
<1> QED
  BY <1>1, AlwaysAccounted, PTL

\* No node is given more than its limit.
THEOREM LimitKept ==
  ASSUME ~Retries
  PROVE  Spec => []WithinLimit
<1>1. Accounted => WithinLimit
  BY DEF Accounted, Fits, SizeIn, Size, WithinLimit
<1> QED
  BY <1>1, AlwaysAccounted, PTL

-----------------------------------------------------------------------------
(* One guest, rescheduling or not. *)

\* A build has its guest on the node it has reached, and only after the driver
\* was called; the guests of an instance are where its last build was.
Solo(i) ==
    /\ row[i].vm = "none" => flow[i].stage = "idle" /\ \A n \in Nodes : i \notin guests[n]
    /\ \A n \in Nodes : i \in guests[n] =>
          \/ flow[i].stage \in {"idle", "left"}
          \/ flow[i].stage \in {"spawning", "unclean"} /\ flow[i].node = n
    /\ \A n, m \in Nodes : i \in guests[n] /\ i \in guests[m] => n = m
Built(i) == row'[i].vm = "none" => row[i].vm = "none"
NoMoreGuests(i) == \A n \in Nodes : i \in guests'[n] => i \in guests[n]
\* The build goes no further, and no guest comes.
Lessens(i) ==
    /\ Built(i) /\ NoMoreGuests(i)
    /\ \/ flow'[i] = flow[i]
       \/ flow'[i].stage = "idle"
       \/ flow'[i].stage = "left" /\ row'[i].vm # "none"
\* There is no guest now.
Cleared(i) == row'[i].vm # "none" /\ \A n \in Nodes : i \notin guests'[n]

LEMMA SoloKept ==
  ASSUME NEW i \in Instances, Solo(i), Lessens(i) \/ Cleared(i)
  PROVE  Solo(i)'
BY DEF Solo, Lessens, Built, NoMoreGuests, Cleared

\* A build, for the instance it is about.
LEMMA BuildSolo ==
  ASSUME TypeOK, NEW i \in Instances, Solo(i), Build(i)
  PROVE  Solo(i)'
<1>1. \A s, n : At(s, n).stage = s /\ At(s, n).node = n
  BY DEF At
<1>2. Idle.stage = "idle"
  BY DEF Idle
<1>3. \A vm, task, host : row' = Saved(i, vm, task, host) => row'[i].vm = vm
  BY SavedRow
<1>4. /\ flow[i].stage # "idle" => row[i].vm # "none"
      /\ flow[i].stage \in {"scheduling", "claimed", "failed"} =>
            \A n \in Nodes : i \notin guests[n]
      /\ flow[i].stage \in {"claimed", "spawning", "failed", "unclean"} =>
            flow[i].node \in Nodes
  BY DEF Solo, TypeOK, FlowType
<1>5. ASSUME NEW n \in Nodes, InstanceClaim(i, n) PROVE Cleared(i)
  BY <1>3, <1>4, <1>5 DEF InstanceClaim, MayBuild, Cleared
<1>6. ASSUME NEW retry \in BOOLEAN, GiveBack(i, retry), flow[i].stage # "idle"
      PROVE  row'[i].vm # "none"
  BY <1>3, <1>4, <1>6 DEF GiveBack
<1>7. ASSUME NEW n \in Nodes, NEW retry \in BOOLEAN, ClaimRefused(i, n, retry) PROVE Cleared(i)
  BY <1>4, <1>6, <1>7 DEF ClaimRefused, MayBuild, Cleared
<1>8. CASE NoValidHost(i) \/ BuildDropped(i) \/ BuildEnds(i)
  <2>1. row'[i].vm # "none"
    BY <1>3, <1>4, <1>8 DEF NoValidHost, BuildDropped, BuildEnds, tables
  <2>2. flow'[i].stage = "idle" /\ guests' = guests
    BY <1>2, <1>8 DEF NoValidHost, BuildDropped, BuildEnds, TypeOK
  <2> QED
    BY <2>1, <2>2, SoloKept DEF Lessens, Built, NoMoreGuests
<1>9. CASE Spawn(i)
  <2>1. /\ flow[i].stage = "claimed" /\ row' = Saved(i, "building", "spawning", row[i].host)
        /\ guests' = [guests EXCEPT ![flow[i].node] = @ \cup {i}]
        /\ flow' = [flow EXCEPT ![i] = At("spawning", flow[i].node)]
    BY <1>9 DEF Spawn
  <2>2. \A n \in Nodes : i \in guests'[n] => n = flow[i].node
    BY <1>4, <2>1 DEF TypeOK
  <2>3. flow'[i].stage = "spawning" /\ flow'[i].node = flow[i].node /\ row'[i].vm # "none"
    BY <1>1, <1>3, <2>1 DEF TypeOK
  <2> QED
    BY <2>2, <2>3 DEF Solo
<1>10. ASSUME NEW vanished \in BOOLEAN, Abort(i, vanished) PROVE Cleared(i)
  <2>1. /\ flow[i].stage \in {"claimed", "spawning"} /\ row' = row
        /\ guests' = [guests EXCEPT ![flow[i].node] = @ \ {i}]
    BY <1>10 DEF Abort, tables
  <2>2. \A n \in Nodes : i \in guests[n] => n = flow[i].node
    BY <1>4, <2>1 DEF Solo
  <2> QED
    BY <1>4, <2>1, <2>2 DEF Cleared, TypeOK
<1>11. ASSUME NEW retry \in BOOLEAN, BuildFailed(i, retry) PROVE Cleared(i)
  BY <1>4, <1>6, <1>11 DEF BuildFailed, Cleared
<1>12. CASE BuildPreempted(i)
  <2>1. flow[i].stage = "spawning" /\ GiveBack(i, FALSE) /\ guests' = guests
    BY <1>12 DEF BuildPreempted
  <2>2. row'[i].vm # "none"
    BY <1>6, <2>1
  <2>3. flow'[i].stage = "idle"
    BY <1>2, <2>1 DEF GiveBack, TypeOK
  <2> QED
    BY <2>1, <2>2, <2>3, SoloKept DEF Lessens, Built, NoMoreGuests
<1>13. CASE AbortUnclean(i)
  <2>1. /\ flow[i].stage = "spawning" /\ row' = row /\ guests' = guests
        /\ flow' = [flow EXCEPT ![i] = At("unclean", flow[i].node)]
    BY <1>13 DEF AbortUnclean, tables
  <2>2. flow'[i].stage = "unclean" /\ flow'[i].node = flow[i].node
    BY <1>1, <2>1 DEF TypeOK
  <2> QED
    BY <1>4, <2>1, <2>2 DEF Solo
<1>14. CASE UncleanFailed(i)
  <2>1. flow[i].stage = "unclean" /\ guests' = guests
    BY <1>14 DEF UncleanFailed
  <2>2. row'[i].vm # "none"
    BY <1>3, <1>4, <1>14, <2>1 DEF UncleanFailed
  <2>3. flow'[i].stage = "left"
    BY <1>14 DEF UncleanFailed, Left, TypeOK
  <2> QED
    BY <2>1, <2>2, <2>3, SoloKept DEF Lessens, Built, NoMoreGuests
<1> QED
  BY <1>5, <1>7, <1>8, <1>9, <1>10, <1>11, <1>12, <1>13, <1>14, SoloKept DEF Build

LEMMA SoloStep ==
  ASSUME TypeOK, [Next]_vars, \A i \in Instances : Solo(i)
  PROVE  \A i \in Instances : Solo(i)'
<1>1. ASSUME NEW j \in Instances, UNCHANGED row PROVE Built(j)
  BY <1>1 DEF Built
<1>2. ASSUME NEW i \in Instances, NEW f \in Flavors, Boot(i, f) PROVE \A j \in Instances : Solo(j)'
  <2>1. Cleared(i)
    BY <1>2 DEF Boot, Cleared, Solo, TypeOK
  <2>2. \A j \in Instances \ {i} : Lessens(j)
    BY <1>2 DEF Boot, Lessens, Built, NoMoreGuests, TypeOK
  <2> QED
    BY <2>1, <2>2, SoloKept
<1>3. ASSUME NEW i \in Instances, Build(i) PROVE \A j \in Instances : Solo(j)'
  <2>1. \A j \in Instances \ {i} : flow'[j] = flow[j]
    BY <1>3 DEF Build, InstanceClaim, ClaimRefused, GiveBack, NoValidHost, BuildDropped,
       Spawn, Abort, AbortUnclean, UncleanFailed, BuildFailed, BuildEnds,
       BuildPreempted, TypeOK
  <2>4. ASSUME NEW j \in Instances \ {i} PROVE NoMoreGuests(j)
    <3>1. CASE Spawn(i)
      BY <3>1 DEF Spawn, NoMoreGuests, TypeOK
    <3>2. CASE \E vanished \in BOOLEAN : Abort(i, vanished)
      BY <3>2 DEF Abort, NoMoreGuests, TypeOK
    <3>3. guests' = guests => NoMoreGuests(j)
      BY DEF NoMoreGuests
    <3>4. CASE ~Spawn(i) /\ ~\E vanished \in BOOLEAN : Abort(i, vanished)
      <4>1. guests' = guests
        BY <1>3, <3>4 DEF Build, InstanceClaim, ClaimRefused, NoValidHost, BuildDropped,
           AbortUnclean, UncleanFailed, BuildFailed, BuildEnds, BuildPreempted
      <4> QED
        BY <3>3, <4>1
    <3> QED
      BY <3>1, <3>2, <3>4
  <2>2. \A j \in Instances \ {i} : row'[j] = row[j]
    <3>1. row' = row \/ \E vm, task, host : row' = Saved(i, vm, task, host)
      BY <1>3 DEF Build, InstanceClaim, ClaimRefused, GiveBack, NoValidHost, BuildDropped,
         Spawn, Abort, AbortUnclean, UncleanFailed, BuildFailed, BuildEnds,
         BuildPreempted, tables
    <3> QED
      BY <3>1, SavedRow
  <2>3. \A j \in Instances \ {i} : Lessens(j)
    BY <2>1, <2>2, <2>4 DEF Lessens, Built
  <2> QED
    BY <1>3, <2>3, SoloKept, BuildSolo
<1>4. ASSUME NEW i \in Instances,
             row' = row \/ \E vm \in VmStates \ {"none"} :
                            \E task, host : row' = Saved(i, vm, task, host)
      PROVE  \A j \in Instances : Built(j)
  BY <1>4, SavedRow DEF Built
<1>5. ASSUME NEW i \in Instances, Delete(i) PROVE \A j \in Instances : Solo(j)'
  <2>1. \A j \in Instances : Built(j)
    BY <1>4, <1>5 DEF Delete, Exists, VmStates, TypeOK, RowType
  <2> QED
    BY <1>5, <2>1, SoloKept DEF Delete, Lessens, NoMoreGuests
<1>6. ASSUME NEW i \in Instances, NEW n \in Nodes, Terminate(i, n)
      PROVE  \A j \in Instances : Solo(j)'
  <2>1. \A j \in Instances : Built(j)
    BY <1>4, <1>6 DEF Terminate, TerminateSave, TerminateFails, TerminateEnds, VmStates
  <2>2. \A j \in Instances : NoMoreGuests(j)
    BY <1>6 DEF Terminate, TerminateSave, TerminateFails, TerminateEnds, NoMoreGuests, TypeOK
  <2> QED
    BY <1>6, <2>1, <2>2, SoloKept DEF Terminate, TerminateSave, TerminateFails, TerminateEnds, Lessens
<1>7. ASSUME NEW n \in Nodes, Audit(n) PROVE \A j \in Instances : Solo(j)'
  BY <1>7, SoloKept DEF Audit, AuditInstances, AuditMigrations, tables, Lessens, Built, NoMoreGuests
<1>8. ASSUME NEW n \in Nodes, NEW lost \in SUBSET pending, Restart(n, lost)
      PROVE  \A j \in Instances : Solo(j)'
  <2>1. \A j \in Instances : Built(j)
    BY <1>8 DEF Restart, Initialised, With, Built
  <2>2. \A j \in Instances : NoMoreGuests(j)
    BY <1>8 DEF Restart, NoMoreGuests, TypeOK
  <2>3. \A j \in Instances :
          \/ flow'[j] = flow[j]
          \/ flow'[j].stage = "idle"
          \/ flow'[j].stage = "left" /\ flow[j].stage = "unclean"
    BY <1>8 DEF Restart, Idle, Left
  <2>4. \A j \in Instances : flow[j].stage = "unclean" => row'[j].vm # "none"
    BY <2>1 DEF Built, Solo
  <2> QED
    BY <2>1, <2>2, <2>3, <2>4, SoloKept DEF Lessens
<1>9. CASE UNCHANGED vars
  BY <1>9, SoloKept DEF vars, Lessens, Built, NoMoreGuests
<1> QED
  BY <1>2, <1>3, <1>5, <1>6, <1>7, <1>8, <1>9 DEF Next, ComputeNext

\* However often a build is rescheduled, given up, deleted or interrupted by a
\* restart, an instance never has a guest on two nodes.
THEOREM GuestOnOneNode == Spec => []OneGuest
<1> DEFINE Inv == \A i \in Instances : Solo(i)
<1>1. Init => Inv
  BY DEF Init, Idle, Solo
<1>2. TypeOK /\ Inv /\ [Next]_vars => Inv'
  BY SoloStep
<1>3. TypeOK /\ Inv => OneGuest
  BY DEF TypeOK, Solo, OneGuest
<1> HIDE DEF Inv
<1> QED
  BY <1>1, <1>2, <1>3, TypeCorrect, PTL DEF Spec
=============================================================================
