------------------------- MODULE ComputeMovesProofs -------------------------
(***************************************************************************)
(* Theorems about ComputeMoves for any number of nodes, instances, flavors *)
(* and moves.                                                              *)
(***************************************************************************)
EXTENDS ComputeMoves, ResourceTrackerProofs

-----------------------------------------------------------------------------
(* The rows, the records and the calls of moves. *)

Rows == [vm : VmStates, task : TaskStates, host : Nodes, flavor : Flavors,
         old : Flavors \cup {NoFlavor}, new : Flavors \cup {NoFlavor}]

Statuses == {"accepted", "pre-migrating", "migrating", "post-migrating",
             "finished", "confirming", "confirmed", "reverting", "reverted",
             "done", "failed", "error"}

Records == [kind : {"resize", "migration"}, status : Statuses,
            src : Nodes, dst : Nodes, old : Flavors, new : Flavors,
            saved : BOOLEAN]

OnRecord == QueuedOps \cup RunningOps \cup {"ask_confirm", "ask_revert"}

CallType == [op : ApiOps \cup QueuedOps \cup RunningOps, inst : Instances,
             mig : 0 .. MaxMoves, flavor : Flavors \cup {NoFlavor},
             at : Nodes \cup {NoNode}]

\* A call past the scheduler is about a record that is there, and one past the
\* API is on a node; the new flavor travels with it until the guest has it.
Sound(c) ==
    /\ c \in CallType
    /\ c.op \in OnRecord => c.mig \in 1 .. Len(migs[c.inst])
    /\ c.op \in QueuedOps \cup RunningOps => c.at \in Nodes
    /\ c.op \in {"schedule", "resize", "disk", "finish"} => c.flavor \in Flavors

Counters ==
    /\ tracked \in [Nodes -> SUBSET Instances]
    /\ moves \in [Nodes -> [Instances -> Flavors \cup {NoFlavor}]]
    /\ used \in [Nodes -> Int]
    /\ auditing \in [Nodes -> BOOLEAN]

Builds ==
    /\ flow \in [Instances -> FlowType]
    /\ pending \subseteq Instances \X Nodes
    /\ ending \subseteq Instances \X Nodes \X (Nodes \cup {NoNode})

Tables ==
    /\ row \in [Instances -> Rows]
    /\ migs \in [Instances -> Seq(Records)]
    /\ \A i \in Instances : Len(migs[i]) <= MaxMoves

Disks == guests \in [Nodes -> SUBSET Instances] /\ backups \subseteq Instances \X Nodes

Sane ==
    /\ Tables /\ Counters /\ Builds /\ Disks
    /\ \A c \in calls : Sound(c)

LEMMA SaneTyped == Sane => MovesTypeOK
<1> SUFFICES ASSUME Sane PROVE MovesTypeOK
  OBVIOUS
<1>1. row \in [Instances -> RowType]
  BY DEF Sane, Tables, Rows, RowType
<1>2. migs \in [Instances -> Seq(Migration)]
  <2>1. \A q : q \in Seq(Records) => q \in Seq(Migration)
    <3>1. Records \subseteq Migration
      BY DEF Records, Statuses, Migration
    <3> QED
      BY <3>1
  <2> QED
    BY <2>1 DEF Sane, Tables
<1>3. calls \subseteq CallType
  BY DEF Sane, Sound
<1> QED
  BY <1>1, <1>2, <1>3 DEF Sane, Counters, Builds, Disks, MovesTypeOK, TypeOK, CallType

\* What a record says of its move, whatever has become of it.
Kept(m, l) ==
    m.kind = l.kind /\ m.src = l.src /\ m.dst = l.dst /\ m.old = l.old /\ m.new = l.new

\* migration.save(), on the record k of i.
LEMMA StatusSet ==
  ASSUME Sane, NEW i \in Instances, NEW k \in 1 .. Len(migs[i]),
         NEW s \in Statuses, SetStatus(i, k, s)
  PROVE  /\ migs' \in [Instances -> Seq(Records)]
         /\ \A j \in Instances \ {i} : migs'[j] = migs[j]
         /\ Len(migs'[i]) = Len(migs[i])
         /\ \A l \in 1 .. Len(migs[i]) : l # k => migs'[i][l] = migs[i][l]
         /\ migs'[i][k].status = s /\ Kept(migs'[i][k], migs[i][k])
<1> DEFINE m == [migs[i][k] EXCEPT !.status = s, !.saved = TRUE]
           q == [migs[i] EXCEPT ![k] = m]
<1>1. migs[i] \in Seq(Records) /\ migs[i][k] \in Records
  BY DEF Sane, Tables
<1>2. m \in Records /\ m.status = s /\ Kept(m, migs[i][k])
  BY <1>1 DEF Records, Kept
<1>3. migs' = [migs EXCEPT ![i] = q]
  BY <1>1 DEF SetStatus, Sane, Tables, Records
<1> HIDE DEF m
<1>4. q \in Seq(Records) /\ Len(q) = Len(migs[i]) /\ q[k] = m
      /\ \A l \in 1 .. Len(migs[i]) : l # k => q[l] = migs[i][l]
  BY <1>1, <1>2
<1> HIDE DEF q
<1> QED
  BY <1>2, <1>3, <1>4 DEF Sane, Tables

\* instance.save() of the state fields.
LEMMA RowSaved ==
  ASSUME Sane, NEW i \in Instances, NEW vm \in VmStates, NEW task \in TaskStates,
         NEW host \in Nodes, row' = Saved(i, vm, task, host)
  PROVE  /\ row' \in [Instances -> Rows]
         /\ row'[i] = With(i, vm, task, host)
         /\ \A j \in Instances \ {i} : row'[j] = row[j]
<1>1. row[i] \in Rows /\ row \in [Instances -> Rows]
  BY DEF Sane, Tables
<1>2. With(i, vm, task, host) \in Rows
  BY <1>1 DEF With, Rows
<1> QED
  BY <1>1, <1>2 DEF Saved

\* instance.save(expected_task_state), which may leave the instance in ERROR.
LEMMA RowExpected ==
  ASSUME Sane, NEW i \in Instances, NEW new \in Rows, NEW expected,
         SaveExpecting(i, expected, new)
  PROVE  /\ row' \in [Instances -> Rows]
         /\ row[i].task \in expected => row'[i] = new
         /\ \A j \in Instances \ {i} : row'[j] = row[j]
<1>1. [new EXCEPT !.vm = "error"] \in Rows
  BY DEF Rows, VmStates
<1>2. row \in [Instances -> Rows]
  BY DEF Sane, Tables
<1> QED
  BY <1>1, <1>2 DEF SaveExpecting

LEMMA CallsSound ==
  ASSUME Sane, \A i \in Instances : Len(migs'[i]) \in Nat /\ Len(migs[i]) <= Len(migs'[i]),
         \A d \in calls' : d \in calls \/ Sound(d)'
  PROVE  \A d \in calls' : Sound(d)'
<1> SUFFICES ASSUME NEW d \in calls', d \in calls PROVE Sound(d)'
  OBVIOUS
<1>1. Sound(d) /\ d.inst \in Instances
  BY DEF Sane, Sound, CallType
<1>2. Len(migs[d.inst]) \in Nat
  BY <1>1 DEF Sane, Tables
<1>3. \A k \in 1 .. Len(migs[d.inst]) : k \in 1 .. Len(migs'[d.inst])
  BY <1>1, <1>2
<1> QED
  BY <1>1, <1>3 DEF Sound

\* A handler goes on to its next step, or a cast to the next host.
LEMMA CallGoesOn ==
  ASSUME Sane, NEW c \in calls, NEW op \in ApiOps \cup QueuedOps \cup RunningOps,
         NEW n \in Nodes \cup {NoNode}, GoesOn(c, op, n),
         op \in QueuedOps \cup RunningOps => n \in Nodes,
         op \in OnRecord => c.op \in OnRecord,
         op \in {"schedule", "resize", "disk", "finish"} =>
            c.op \in {"schedule", "resize", "disk", "finish"},
         \A i \in Instances : Len(migs'[i]) = Len(migs[i])
  PROVE  \A d \in calls' : Sound(d)'
<1> DEFINE e == [c EXCEPT !.op = op, !.at = n]
<1>1. Sound(c) /\ c \in CallType
  BY DEF Sane, Sound
<1>2. e \in CallType /\ e.op = op /\ e.at = n /\ e.inst = c.inst /\ e.mig = c.mig
      /\ e.flavor = c.flavor /\ c.inst \in Instances
  BY <1>1 DEF CallType
<1>3. calls' = (calls \ {c}) \cup {e}
  BY DEF GoesOn
<1> HIDE DEF e
<1>4. Sound(e)'
  BY <1>1, <1>2 DEF Sound
<1>5. \A i \in Instances : Len(migs'[i]) \in Nat /\ Len(migs[i]) <= Len(migs'[i])
  BY DEF Sane, Tables
<1> QED
  BY <1>3, <1>4, <1>5, CallsSound

LEMMA CallServed ==
  ASSUME Sane, NEW c, Served(c), \A i \in Instances : Len(migs'[i]) = Len(migs[i])
  PROVE  \A d \in calls' : Sound(d)'
<1>1. \A i \in Instances : Len(migs'[i]) \in Nat /\ Len(migs[i]) <= Len(migs'[i])
  BY DEF Sane, Tables
<1> QED
  BY <1>1, CallsSound DEF Served

\* What a handler of c starts from.
LEMMA Served0 ==
  ASSUME Sane, NEW c \in calls
  PROVE  /\ Sound(c) /\ c \in CallType /\ c.inst \in Instances
         /\ row[c.inst] \in Rows
         /\ migs[c.inst] \in Seq(Records) /\ Len(migs[c.inst]) \in Nat
         /\ c.op \in OnRecord => /\ c.mig \in 1 .. Len(migs[c.inst])
                                 /\ migs[c.inst][c.mig] \in Records
         /\ c.op \in QueuedOps \cup RunningOps => c.at \in Nodes
<1>1. Sound(c) /\ c \in CallType /\ c.inst \in Instances
  BY DEF Sane, Sound, CallType
<1>2. row[c.inst] \in Rows /\ migs[c.inst] \in Seq(Records) /\ Len(migs[c.inst]) \in Nat
  BY <1>1 DEF Sane, Tables
<1> QED
  BY <1>1, <1>2 DEF Sound

\* The record of a claim, and its size on the node that made it.
LEMMA Prepared ==
  ASSUME Sane, NEW c \in calls, c.op = "schedule", NEW n \in Nodes
  PROVE  /\ NewMigration(c, n) \in Records
         /\ [row[c.inst] EXCEPT !.new = c.flavor] \in Rows
         /\ MoveUsage(n, c.inst, [row[c.inst] EXCEPT !.new = c.flavor], NewMigration(c, n))
              \in Flavors \cup {NoFlavor}
<1>1. c.flavor \in Flavors /\ row[c.inst] \in Rows
  BY Served0 DEF Sound
<1> DEFINE r == [row[c.inst] EXCEPT !.new = c.flavor]
           m == NewMigration(c, n)
<1>2. r \in Rows
  BY <1>1 DEF Rows
<1>3. m \in Records
  <2>1. PICK kind \in {"resize", "migration"} :
           m = [kind |-> kind, status |-> "pre-migrating", src |-> row[c.inst].host,
                dst |-> n, old |-> row[c.inst].flavor, new |-> c.flavor, saved |-> FALSE]
    BY DEF NewMigration
  <2> QED
    BY <1>1, <2>1 DEF Rows, Records, Statuses
<1> HIDE DEF r, m
<1>4. r.flavor \in Flavors /\ r.old \in Flavors \cup {NoFlavor} /\ r.new \in Flavors \cup {NoFlavor}
  BY <1>2 DEF Rows
<1>5. MoveUsage(n, c.inst, r, m) \in Flavors \cup {NoFlavor}
  BY <1>4 DEF MoveUsage, FlavorOf
<1> QED
  BY <1>2, <1>3, <1>5 DEF r, m

LEMMA RecordAdded ==
  ASSUME Sane, NEW i \in Instances, NEW m \in Records, Len(migs[i]) < MaxMoves,
         migs' = [migs EXCEPT ![i] = Append(@, m)]
  PROVE  /\ migs' \in [Instances -> Seq(Records)]
         /\ \A j \in Instances \ {i} : migs'[j] = migs[j]
         /\ Len(migs'[i]) = Len(migs[i]) + 1
         /\ Len(migs'[i]) <= MaxMoves
         /\ migs'[i][Len(migs[i]) + 1] = m
         /\ \A l \in 1 .. Len(migs[i]) : migs'[i][l] = migs[i][l]
<1>1. migs \in [Instances -> Seq(Records)] /\ migs[i] \in Seq(Records)
  BY DEF Sane, Tables
<1>2. migs'[i] = Append(migs[i], m) /\ \A j \in Instances \ {i} : migs'[j] = migs[j]
  BY <1>1
<1>3. MaxMoves \in Nat /\ Len(migs[i]) \in Nat
  BY <1>1, MovesAssumption
<1>4. /\ Append(migs[i], m) \in Seq(Records)
      /\ Len(Append(migs[i], m)) = Len(migs[i]) + 1
      /\ Append(migs[i], m)[Len(migs[i]) + 1] = m
      /\ \A l \in 1 .. Len(migs[i]) : Append(migs[i], m)[l] = migs[i][l]
  BY <1>1
<1> QED
  BY <1>1, <1>2, <1>3, <1>4

\* Handlers that leave the trackers alone and write rows that are well formed.
LEMMA TablesKept ==
  ASSUME Sane, row' \in [Instances -> Rows], migs' \in [Instances -> Seq(Records)],
         \A i \in Instances : Len(migs'[i]) = Len(migs[i])
  PROVE  Tables'
BY DEF Sane, Tables

LEMMA NoRecord ==
  ASSUME Sane, migs' = migs
  PROVE  migs' \in [Instances -> Seq(Records)] /\ \A i \in Instances : Len(migs'[i]) = Len(migs[i])
BY DEF Sane, Tables

LEMMA RecordKept ==
  ASSUME Sane, NEW i \in Instances, NEW k \in 1 .. Len(migs[i]), NEW s \in Statuses,
         SetStatus(i, k, s)
  PROVE  /\ migs' \in [Instances -> Seq(Records)]
         /\ \A j \in Instances : Len(migs'[j]) = Len(migs[j])
BY StatusSet

LEMMA PrepareSane ==
  ASSUME Sane, NEW c \in calls,
         NoHostForMove(c) \/ (\E n \in Nodes : PrepResize(c, n))
           \/ (\E n \in Nodes, retry \in BOOLEAN : PrepRefused(c, n, retry))
  PROVE  Sane'
<1> DEFINE i == c.inst
<1>0. /\ i \in Instances /\ row[i] \in Rows /\ row \in [Instances -> Rows] /\ c \in CallType
      /\ row[i].vm \in VmStates /\ row[i].task \in TaskStates /\ row[i].host \in Nodes
      /\ row[i].new \in Flavors \cup {NoFlavor}
      /\ c.op = "schedule" => c.flavor \in Flavors
  BY Served0 DEF Sane, Tables, Rows, Sound
<1>1. CASE NoHostForMove(c)
  <2>1. Tables'
    BY <1>0, <1>1, RowSaved, NoRecord, TablesKept DEF NoHostForMove, TaskStates
  <2>2. \A d \in calls' : Sound(d)'
    BY <1>1, NoRecord, CallServed DEF NoHostForMove
  <2> QED
    BY <1>1, <2>1, <2>2 DEF NoHostForMove, Sane, Counters, trackers, Builds, buildVars, Disks
<1>2. ASSUME NEW n \in Nodes, PrepResize(c, n) PROVE Sane'
  <2> DEFINE m == NewMigration(c, n)
             size == MoveUsage(n, i, [row[i] EXCEPT !.new = c.flavor], m)
  <2>0. PICK d : d = Call("resize", i, Len(migs[i]) + 1, c.flavor, m.src)
    OBVIOUS
  <2>1. /\ c.op = "schedule" /\ Len(migs[i]) < MaxMoves
        /\ row' = [row EXCEPT ![i] = [row[i] EXCEPT !.new = c.flavor]]
        /\ migs' = [migs EXCEPT ![i] = Append(@, m)]
        /\ calls' = (calls \ {c}) \cup {d}
    BY <1>2, <2>0 DEF PrepResize
  <2>2. m \in Records /\ [row[i] EXCEPT !.new = c.flavor] \in Rows /\ size \in Flavors \cup {NoFlavor}
    BY <2>1, Prepared
  <2>3. /\ moves' \in [Nodes -> [Instances -> Flavors \cup {NoFlavor}]]
        /\ used' \in [Nodes -> Int]
    <3>1. size \in Int
      BY <2>2 DEF Flavors, NoFlavor
    <3>2. \/ moves' = moves /\ used' = used
          \/ moves' = [moves EXCEPT ![n][i] = size] /\ used' = [used EXCEPT ![n] = @ + size]
      BY <1>2 DEF PrepResize
    <3> HIDE DEF size, i
    <3>3. i \in Instances
      BY <1>0 DEF i
    <3>4. moves[n] \in [Instances -> Flavors \cup {NoFlavor}] /\ used[n] \in Int
      BY DEF Sane, Counters
    <3>5. [moves EXCEPT ![n][i] = size] \in [Nodes -> [Instances -> Flavors \cup {NoFlavor}]]
      BY <2>2, <3>3, <3>4 DEF Sane, Counters
    <3>6. [used EXCEPT ![n] = @ + size] \in [Nodes -> Int]
      BY <3>1, <3>4 DEF Sane, Counters
    <3> QED
      BY <3>2, <3>5, <3>6 DEF Sane, Counters
  <2> HIDE DEF m, size
  <2>4. Tables'
    BY <1>0, <2>1, <2>2, RecordAdded DEF Sane, Tables
  <2>5. \A j \in Instances : Len(migs'[j]) \in Nat /\ Len(migs[j]) <= Len(migs'[j])
    BY <1>0, <2>1, <2>2, RecordAdded DEF Sane, Tables
  <2>6. Sound(d)'
    <3>1. Len(migs[i]) + 1 \in 1 .. Len(migs'[i]) /\ Len(migs'[i]) <= MaxMoves
          /\ Len(migs'[i]) \in Nat
      BY <1>0, <2>1, <2>2, <2>4, RecordAdded DEF Tables
    <3>2. m.src \in Nodes
      BY <2>2 DEF Records
    <3>3. d \in CallType
      BY <1>0, <2>0, <2>1, <3>1, <3>2, MovesAssumption
         DEF Call, CallType, QueuedOps
    <3> QED
      BY <1>0, <2>0, <2>1, <3>1, <3>2, <3>3 DEF Call, Sound
  <2>7. \A e \in calls' : Sound(e)'
    BY <2>1, <2>5, <2>6, CallsSound
  <2> QED
    BY <1>2, <2>3, <2>4, <2>7 DEF PrepResize, Sane, Counters, Builds, buildVars, Disks
<1>3. ASSUME NEW n \in Nodes, NEW retry \in BOOLEAN, PrepRefused(c, n, retry) PROVE Sane'
  <2>1. c.op = "schedule"
    BY <1>3 DEF PrepRefused
  <2>2. /\ migs' \in [Instances -> Seq(Records)]
        /\ \A j \in Instances : /\ Len(migs'[j]) \in Nat /\ Len(migs[j]) <= Len(migs'[j])
                                /\ Len(migs'[j]) <= MaxMoves
    <3>1. CASE migs' = migs
      BY <3>1 DEF Sane, Tables
    <3>2. CASE migs' # migs
      <4>1. Len(migs[i]) < MaxMoves /\ migs' = [migs EXCEPT ![i] = Append(@, NewMigration(c, n))]
        BY <1>3, <3>2 DEF PrepRefused
      <4>2. NewMigration(c, n) \in Records
        BY <2>1, Prepared
      <4>3. /\ migs' \in [Instances -> Seq(Records)] /\ Len(migs'[i]) = Len(migs[i]) + 1
            /\ Len(migs'[i]) <= MaxMoves /\ \A j \in Instances \ {i} : migs'[j] = migs[j]
        BY <1>0, <4>1, <4>2, RecordAdded
      <4>4. \A j \in Instances : Len(migs[j]) \in Nat /\ Len(migs[j]) <= MaxMoves
        BY DEF Sane, Tables
      <4> QED
        BY <1>0, <4>3, <4>4
    <3> QED
      BY <3>1, <3>2
  <2>3. \E stash \in Flavors \cup {NoFlavor} : GiveUpPrep(c, i, stash, retry)
    BY <1>0, <1>3, <2>1 DEF PrepRefused
  <2>4. row' \in [Instances -> Rows]
    BY <1>0, <2>3 DEF GiveUpPrep, Rows, VmStates, TaskStates
  <2>5. \A d \in calls' : Sound(d)'
    BY <2>2, <2>3, CallsSound DEF GiveUpPrep, Served
  <2> QED
    BY <1>3, <2>2, <2>4, <2>5
       DEF PrepRefused, Sane, Tables, Counters, trackers, Builds, buildVars, Disks
<1> QED
  BY <1>1, <1>2, <1>3

LEMMA ResizeSane ==
  ASSUME Sane, NEW c \in calls,
         ResizeInstance(c) \/ ResizeMigrated(c) \/ (\E rollback \in BOOLEAN : ResizeFails(c, rollback))
           \/ FinishResize(c) \/ FinishMigration(c) \/ FinishFails(c) \/ FinishSettles(c)
  PROVE  Sane'
<1> DEFINE i == c.inst
<1>0. /\ i \in Instances /\ row[i] \in Rows /\ row \in [Instances -> Rows]
      /\ row[i].vm \in VmStates /\ row[i].task \in TaskStates /\ row[i].host \in Nodes
      /\ c.op \in {"resize", "disk", "finish", "start", "settle"}
      /\ c.op \in OnRecord /\ c.at \in Nodes
      /\ c.mig \in 1 .. Len(migs[i]) /\ migs[i][c.mig] \in Records
      /\ migs[i][c.mig].dst \in Nodes /\ migs[i][c.mig].old \in Flavors
  <2>1. c.op \in {"resize", "disk", "finish", "start", "settle"}
    BY DEF ResizeInstance, ResizeMigrated, ResizeFails, FinishResize, FinishMigration,
       FinishFails, FinishSettles
  <2> QED
    BY <2>1, Served0 DEF Sane, Tables, Rows, OnRecord, QueuedOps, RunningOps, Records
<1> HIDE DEF i
<1>1. \A vm \in VmStates, task \in TaskStates, host \in Nodes : With(i, vm, task, host) \in Rows
  BY <1>0 DEF With, Rows
<1>2. ASSUME NEW s \in Statuses, SetStatus(i, c.mig, s)
      PROVE  /\ migs' \in [Instances -> Seq(Records)]
             /\ \A j \in Instances : Len(migs'[j]) = Len(migs[j])
  BY <1>0, <1>2, RecordKept
<1>3. ASSUME NEW new \in Rows, NEW expected, SaveExpecting(i, expected, new)
      PROVE  row' \in [Instances -> Rows]
  BY <1>0, <1>3, RowExpected
<1>4. ASSUME row' \in [Instances -> Rows], migs' \in [Instances -> Seq(Records)],
             \A j \in Instances : Len(migs'[j]) = Len(migs[j]), \A d \in calls' : Sound(d)',
             UNCHANGED <<trackers, buildVars>>, Disks'
      PROVE  Sane'
  BY <1>4, TablesKept DEF Sane, Counters, trackers, Builds, buildVars
<1>5. backups' = backups /\ guests' = guests => Disks'
  BY DEF Sane, Disks
<1>6. ASSUME \A j \in Instances : Len(migs'[j]) = Len(migs[j]),
             Served(c) \/ (\E n \in Nodes : \/ c.op = "resize" /\ GoesOn(c, "disk", n)
                                            \/ c.op = "disk" /\ GoesOn(c, "finish", n)
                                            \/ GoesOn(c, "start", n) \/ GoesOn(c, "settle", n))
      PROVE  \A d \in calls' : Sound(d)'
  BY <1>0, <1>6, CallServed, CallGoesOn DEF OnRecord, QueuedOps, RunningOps
<1>7. CASE ResizeInstance(c)
  <2>1. \E s \in Statuses : SetStatus(i, c.mig, s)
    BY <1>7 DEF ResizeInstance, Statuses, i
  <2>2. \E new \in Rows : \E e : SaveExpecting(i, e, new)
    BY <1>0, <1>1, <1>7 DEF ResizeInstance, TaskStates, i
  <2>3. c.op = "resize" /\ (Served(c) \/ GoesOn(c, "disk", c.at))
    BY <1>7 DEF ResizeInstance
  <2> QED
    BY <1>0, <1>2, <1>3, <1>4, <1>5, <1>6, <1>7, <2>1, <2>2, <2>3 DEF ResizeInstance
<1>8. CASE ResizeMigrated(c)
  <2>1. \E s \in Statuses : SetStatus(i, c.mig, s)
    BY <1>8 DEF ResizeMigrated, Statuses, i
  <2>2. \E new \in Rows : \E e : SaveExpecting(i, e, new)
    BY <1>0, <1>1, <1>8 DEF ResizeMigrated, TaskStates, i
  <2>3. c.op = "disk" /\ (Served(c) \/ GoesOn(c, "finish", migs[i][c.mig].dst))
    BY <1>8 DEF ResizeMigrated, i
  <2>4. Disks'
    BY <1>0, <1>8 DEF ResizeMigrated, Sane, Disks, i
  <2> QED
    BY <1>0, <1>2, <1>3, <1>4, <1>6, <1>8, <2>1, <2>2, <2>3, <2>4 DEF ResizeMigrated
<1>9. ASSUME NEW rollback \in BOOLEAN, ResizeFails(c, rollback) PROVE Sane'
  <2>1. SetStatus(i, c.mig, "error") /\ Served(c)
    BY <1>9 DEF ResizeFails, i
  <2>2. \E vm \in VmStates : row' = Saved(i, vm, "none", row[i].host)
    BY <1>9 DEF ResizeFails, VmStates, i
  <2>3. row' \in [Instances -> Rows]
    BY <1>0, <2>2, RowSaved DEF TaskStates
  <2> QED
    BY <1>2, <1>4, <1>5, <1>6, <1>9, <2>1, <2>3 DEF ResizeFails, Statuses
<1>10. CASE FinishResize(c)
  <2>1. migs' \in [Instances -> Seq(Records)] /\ \A j \in Instances : Len(migs'[j]) = Len(migs[j])
    BY <1>2, <1>10, NoRecord DEF FinishResize, Statuses, i
  <2>2. [row[i] EXCEPT !.old = row[i].flavor, !.flavor = c.flavor, !.task = "resize_finish"] \in Rows
    <3>1. c.flavor \in Flavors
      BY <1>10, Served0 DEF FinishResize, Sound
    <3> QED
      BY <1>0, <3>1 DEF Rows, TaskStates
  <2>3. row' \in [Instances -> Rows]
    BY <1>3, <1>10, <2>2 DEF FinishResize, i
  <2>4. Served(c) \/ GoesOn(c, "start", c.at)
    BY <1>10 DEF FinishResize
  <2> QED
    BY <1>0, <1>4, <1>5, <1>6, <1>10, <2>1, <2>3, <2>4 DEF FinishResize
<1>11. CASE FinishMigration(c)
  <2>1. Disks'
    BY <1>0, <1>11 DEF FinishMigration, Sane, Disks, i
  <2>2. SetStatus(i, c.mig, "finished") /\ GoesOn(c, "settle", c.at) /\ row' = row
    BY <1>11 DEF FinishMigration, i
  <2> QED
    BY <1>0, <1>2, <1>4, <1>6, <1>11, <2>1, <2>2 DEF FinishMigration, Statuses
<1>12. CASE FinishFails(c)
  <2>1. row' \in [Instances -> Rows]
    BY <1>0, <1>12 DEF FinishFails, Rows, VmStates, TaskStates, i
  <2>2. SetStatus(i, c.mig, "error") /\ Served(c)
    BY <1>12 DEF FinishFails, i
  <2> QED
    BY <1>2, <1>4, <1>5, <1>6, <1>12, <2>1, <2>2 DEF FinishFails, Statuses
<1>13. CASE FinishSettles(c)
  <2>1. row' \in [Instances -> Rows]
    BY <1>0, <1>1, <1>3, <1>13 DEF FinishSettles, VmStates, TaskStates, i
  <2> QED
    BY <1>4, <1>5, <1>6, <1>13, <2>1, NoRecord DEF FinishSettles
<1> QED
  BY <1>7, <1>8, <1>9, <1>10, <1>11, <1>12, <1>13

\* drop_move_claim.
LEMMA DropSane ==
  ASSUME Sane, NEW n \in Nodes, NEW i \in Instances, NEW f \in Flavors \cup {NoFlavor},
         DropMove(n, i, f), UNCHANGED <<tracked, auditing>>
  PROVE  Counters'
<1>1. moves[n] \in [Instances -> Flavors \cup {NoFlavor}] /\ used[n] \in Int /\ f \in Int
  BY DEF Sane, Counters, Flavors, NoFlavor
<1>2. moves' \in [Nodes -> [Instances -> Flavors \cup {NoFlavor}]]
  BY <1>1 DEF DropMove, Sane, Counters
<1>3. used' \in [Nodes -> Int]
  BY <1>1 DEF DropMove, Sane, Counters
<1> QED
  BY <1>2, <1>3 DEF Sane, Counters

LEMMA AnswerSane ==
  ASSUME Sane, NEW c \in calls,
         SaveConfirm(c) \/ ConfirmResize(c) \/ ConfirmMigration(c) \/ ConfirmDrops(c)
           \/ SaveRevert(c) \/ RevertResize(c) \/ RevertDrops(c) \/ FinishRevert(c)
           \/ RestoreGuest(c) \/ DriverFails(c) \/ PollServes(c)
  PROVE  Sane'
<1> DEFINE i == c.inst
<1>0. /\ i \in Instances /\ row[i] \in Rows /\ row \in [Instances -> Rows] /\ c \in CallType
      /\ row[i].vm \in VmStates /\ row[i].task \in TaskStates /\ row[i].host \in Nodes
      /\ row[i].old \in Flavors \cup {NoFlavor}
      /\ c.op \in OnRecord /\ c.op \notin {"schedule", "resize", "disk", "finish"}
      /\ c.op \in QueuedOps \cup RunningOps => c.at \in Nodes
      /\ c.mig \in 1 .. Len(migs[i]) /\ migs[i][c.mig] \in Records
      /\ migs[i][c.mig].dst \in Nodes /\ migs[i][c.mig].src \in Nodes
      /\ migs[i][c.mig].old \in Flavors /\ migs[i][c.mig].new \in Flavors
      /\ c.flavor \in Flavors \cup {NoFlavor}
  <2>1. c.op \in OnRecord /\ c.op \notin {"schedule", "resize", "disk", "finish"}
    BY DEF SaveConfirm, ConfirmResize, ConfirmMigration, ConfirmDrops, SaveRevert, RevertResize,
       RevertDrops, FinishRevert, RestoreGuest, DriverFails, PollServes, OnRecord, QueuedOps,
       RunningOps
  <2> QED
    BY <2>1, Served0 DEF Sane, Tables, Rows, Records, CallType
<1> HIDE DEF i
<1>1. ASSUME NEW vm \in VmStates, NEW task \in TaskStates, NEW host \in Nodes,
             row' = Saved(i, vm, task, host)
      PROVE  row' \in [Instances -> Rows]
  BY <1>0, <1>1, RowSaved
<1>2. ASSUME NEW s \in Statuses, SetStatus(i, c.mig, s)
      PROVE  /\ migs' \in [Instances -> Seq(Records)]
             /\ \A j \in Instances : Len(migs'[j]) = Len(migs[j])
  BY <1>0, <1>2, RecordKept
<1>3. row' = row => row' \in [Instances -> Rows]
  BY <1>0
<1>4. ASSUME row' \in [Instances -> Rows], migs' \in [Instances -> Seq(Records)],
             \A j \in Instances : Len(migs'[j]) = Len(migs[j]), \A d \in calls' : Sound(d)',
             UNCHANGED buildVars, Counters', Disks'
      PROVE  Sane'
  BY <1>4, TablesKept DEF Sane, Builds, buildVars
<1>5. backups' = backups /\ guests' = guests => Disks'
  BY DEF Sane, Disks
<1>6. ASSUME \A j \in Instances : Len(migs'[j]) = Len(migs[j]),
             Served(c)
               \/ (\E n \in Nodes, op \in {"confirm", "dropping", "revert", "undoing",
                                           "finish_revert", "restoring"} : GoesOn(c, op, n))
               \/ GoesOn(c, "ask_confirm", NoNode)
      PROVE  \A d \in calls' : Sound(d)'
  BY <1>0, <1>6, CallServed, CallGoesOn DEF OnRecord, ApiOps, QueuedOps, RunningOps
<1>7. UNCHANGED trackers => Counters'
  BY DEF Sane, Counters, trackers
<1>8. CASE SaveConfirm(c)
  <2>1. SetStatus(i, c.mig, "confirming") /\ GoesOn(c, "confirm", migs[i][c.mig].src)
    BY <1>8 DEF SaveConfirm, i
  <2> QED
    BY <1>0, <1>2, <1>3, <1>4, <1>5, <1>6, <1>7, <1>8, <2>1 DEF SaveConfirm, Statuses
<1>9. CASE ConfirmResize(c)
  <2>1. row' \in [Instances -> Rows]
    BY <1>0, <1>9 DEF ConfirmResize, Rows, i
  <2>2. \A d \in calls' : Sound(d)'
    <3>1. PICK d : d = Call("confirming", i, c.mig, row[i].old, c.at)
      OBVIOUS
    <3>2. Sound(d)'
      BY <1>0, <1>9, <3>1 DEF ConfirmResize, Call, Sound, CallType, OnRecord, RunningOps, QueuedOps
    <3>3. calls' = (calls \ {c}) \cup {d} \/ Served(c)
      BY <1>9, <3>1 DEF ConfirmResize, i
    <3>4. \A j \in Instances : Len(migs'[j]) \in Nat /\ Len(migs[j]) <= Len(migs'[j])
      BY <1>9 DEF ConfirmResize, Sane, Tables
    <3> QED
      BY <3>2, <3>3, <3>4, CallsSound DEF Served
  <2> QED
    BY <1>4, <1>5, <1>7, <1>9, <2>1, <2>2, NoRecord DEF ConfirmResize
<1>10. CASE ConfirmMigration(c)
  <2>1. SetStatus(i, c.mig, "confirmed") /\ GoesOn(c, "dropping", c.at) /\ c.at \in Nodes
    BY <1>0, <1>10 DEF ConfirmMigration, RunningOps, i
  <2>2. Disks'
    BY <1>10 DEF ConfirmMigration, Sane, Disks
  <2> QED
    BY <1>0, <1>2, <1>3, <1>4, <1>6, <1>7, <1>10, <2>1, <2>2 DEF ConfirmMigration, Statuses
<1>11. CASE ConfirmDrops(c)
  <2>1. c.at \in Nodes
    BY <1>0, <1>11 DEF ConfirmDrops, RunningOps
  <2>2. Counters'
    BY <1>0, <1>11, <2>1, DropSane DEF ConfirmDrops, i
  <2>3. row' \in [Instances -> Rows]
    <3>1. With(i, "active", "none", row[i].host) \in Rows
      BY <1>0 DEF With, Rows, VmStates, TaskStates
    <3> QED
      BY <1>0, <1>11, <3>1, RowExpected DEF ConfirmDrops, i
  <2> QED
    BY <1>4, <1>5, <1>6, <1>11, <2>2, <2>3, NoRecord DEF ConfirmDrops
<1>12. CASE SaveRevert(c)
  <2>1. row' \in [Instances -> Rows]
    BY <1>0, <1>1, <1>3, <1>12 DEF SaveRevert, TaskStates, i
  <2>2. migs' \in [Instances -> Seq(Records)] /\ \A j \in Instances : Len(migs'[j]) = Len(migs[j])
    BY <1>2, <1>12, NoRecord DEF SaveRevert, Statuses, i
  <2>3. Served(c) \/ GoesOn(c, "revert", migs[i][c.mig].dst)
    BY <1>12 DEF SaveRevert, i
  <2> QED
    BY <1>0, <1>4, <1>5, <1>6, <1>7, <1>12, <2>1, <2>2, <2>3 DEF SaveRevert
<1>13. CASE RevertResize(c)
  <2>1. SetStatus(i, c.mig, "reverted") /\ GoesOn(c, "undoing", c.at) /\ c.at \in Nodes
    BY <1>0, <1>13 DEF RevertResize, QueuedOps, i
  <2>2. Disks'
    BY <1>0, <1>13, <2>1 DEF RevertResize, Sane, Disks, i
  <2> QED
    BY <1>0, <1>2, <1>3, <1>4, <1>6, <1>7, <1>13, <2>1, <2>2 DEF RevertResize, Statuses
<1>14. CASE RevertDrops(c)
  <2>1. c.at \in Nodes
    BY <1>0, <1>14 DEF RevertDrops, RunningOps
  <2>2. Counters'
    BY <1>0, <1>14, <2>1, DropSane DEF RevertDrops, i
  <2>3. GoesOn(c, "finish_revert", migs[i][c.mig].src)
    BY <1>14 DEF RevertDrops, i
  <2>4. row' = row /\ migs' = migs /\ guests' = guests /\ backups' = backups /\ UNCHANGED buildVars
    BY <1>14 DEF RevertDrops, tables
  <2> QED
    BY <1>0, <1>3, <1>4, <1>5, <1>6, <2>2, <2>3, <2>4, NoRecord
<1>15. CASE FinishRevert(c)
  <2> DEFINE m == migs[i][c.mig]
  <2>1. row' \in [Instances -> Rows]
    BY <1>0, <1>15 DEF FinishRevert, Rows, i
  <2>2. migs' = [migs EXCEPT ![i] = [migs[i] EXCEPT ![c.mig] = [m EXCEPT !.dst = m.src,
                                                                     !.saved = TRUE]]]
    BY <1>0, <1>15 DEF FinishRevert, Sane, Tables, Records, i
  <2>3. [m EXCEPT !.dst = m.src, !.saved = TRUE] \in Records
    BY <1>0 DEF Records
  <2>4. migs' \in [Instances -> Seq(Records)] /\ \A j \in Instances : Len(migs'[j]) = Len(migs[j])
    <3> HIDE DEF m
    <3>1. migs[i] \in Seq(Records)
      BY <1>0 DEF Sane, Tables
    <3>2. PICK e \in Records : migs' = [migs EXCEPT ![i] = [migs[i] EXCEPT ![c.mig] = e]]
      BY <2>2, <2>3
    <3>3. /\ [migs[i] EXCEPT ![c.mig] = e] \in Seq(Records)
          /\ Len([migs[i] EXCEPT ![c.mig] = e]) = Len(migs[i])
      BY <1>0, <3>1
    <3> QED
      BY <1>0, <3>2, <3>3 DEF Sane, Tables
  <2>5. GoesOn(c, "restoring", c.at) /\ c.at \in Nodes
    BY <1>0, <1>15 DEF FinishRevert, QueuedOps
  <2> QED
    BY <1>0, <1>4, <1>5, <1>6, <1>7, <1>15, <2>1, <2>4, <2>5 DEF FinishRevert
<1>16. CASE RestoreGuest(c)
  <2>1. row' \in [Instances -> Rows]
    BY <1>0, <1>1, <1>16 DEF RestoreGuest, VmStates, TaskStates, i
  <2>2. Disks'
    BY <1>0, <1>16 DEF RestoreGuest, RunningOps, Sane, Disks, i
  <2> QED
    BY <1>4, <1>6, <1>7, <1>16, <2>1, <2>2, NoRecord DEF RestoreGuest
<1>17. CASE DriverFails(c)
  <2>1. row' \in [Instances -> Rows]
    BY <1>0, <1>1, <1>17 DEF DriverFails, VmStates, TaskStates, i
  <2> QED
    BY <1>4, <1>5, <1>6, <1>7, <1>17, <2>1, NoRecord DEF DriverFails
<1>18. CASE PollServes(c)
  <2>1. migs' \in [Instances -> Seq(Records)] /\ \A j \in Instances : Len(migs'[j]) = Len(migs[j])
    BY <1>2, <1>18, NoRecord DEF PollServes, Statuses, i
  <2>2. Served(c) \/ GoesOn(c, "ask_confirm", NoNode)
    BY <1>18 DEF PollServes
  <2> QED
    BY <1>3, <1>4, <1>5, <1>6, <1>7, <1>18, <2>1, <2>2 DEF PollServes
<1> QED
  BY <1>8, <1>9, <1>10, <1>11, <1>12, <1>13, <1>14, <1>15, <1>16, <1>17, <1>18

\* Requests, and the poll: a new call, and for a resize a new task.
LEMMA AskSane ==
  ASSUME Sane, NEW i \in Instances, Ask(i)
  PROVE  Sane'
<1>0. /\ row[i] \in Rows /\ row \in [Instances -> Rows] /\ row[i].host \in Nodes
      /\ migs[i] \in Seq(Records) /\ Len(migs[i]) \in Nat /\ Len(migs[i]) <= MaxMoves
  BY DEF Sane, Tables, Rows
<1>1. PICK d : /\ calls' = calls \cup {d} /\ migs' = migs
               /\ \/ /\ \E f \in Flavors : d = Call("schedule", i, 0, f, NoNode)
                     /\ row' = Saved(i, "active", "resize_prep", row[i].host)
                  \/ /\ \E k \in 1 .. Len(migs[i]) :
                          \/ d = Call("ask_confirm", i, k, NoFlavor, NoNode)
                          \/ d = Call("ask_revert", i, k, NoFlavor, NoNode)
                          \/ d = Call("polled", i, k, NoFlavor, migs[i][k].dst)
                     /\ row' = row
               /\ UNCHANGED <<tracked, moves, used, auditing, flow, pending, ending, guests, backups>>
  <2>1. ASSUME NEW f \in Flavors, ResizeRequest(i, f)
        PROVE  /\ calls' = calls \cup {Call("schedule", i, 0, f, NoNode)}
               /\ row' = Saved(i, "active", "resize_prep", row[i].host)
               /\ migs' = migs
               /\ UNCHANGED <<tracked, moves, used, auditing, flow, pending, ending, guests, backups>>
    BY <2>1 DEF ResizeRequest, Send, trackers, buildVars
  <2>2. ASSUME NEW k \in DOMAIN migs[i], AskConfirm(i, k) \/ AskRevert(i, k) \/ PollReads(i, k)
        PROVE  /\ k \in 1 .. Len(migs[i])
               /\ \/ calls' = calls \cup {Call("ask_confirm", i, k, NoFlavor, NoNode)}
                  \/ calls' = calls \cup {Call("ask_revert", i, k, NoFlavor, NoNode)}
                  \/ calls' = calls \cup {Call("polled", i, k, NoFlavor, migs[i][k].dst)}
               /\ UNCHANGED <<row, migs, tracked, moves, used, auditing, flow, pending, ending,
                              guests, backups>>
    <3>1. k \in 1 .. Len(migs[i])
      BY <1>0
    <3> QED
      BY <2>2, <3>1 DEF AskConfirm, AskRevert, PollReads, Send, vars
  <2>3. CASE \E f \in Flavors : ResizeRequest(i, f)
    BY <2>1, <2>3
  <2>4. CASE \E k \in DOMAIN migs[i] : AskConfirm(i, k) \/ AskRevert(i, k) \/ PollReads(i, k)
    <3>1. PICK k \in DOMAIN migs[i] : AskConfirm(i, k) \/ AskRevert(i, k) \/ PollReads(i, k)
      BY <2>4
    <3> QED
      BY <2>2, <3>1
  <2> QED
    BY <2>3, <2>4 DEF Ask
<1>2. row' \in [Instances -> Rows]
  BY <1>0, <1>1, RowSaved DEF VmStates, TaskStates
<1>3. Sound(d)'
  <2>1. \A k \in 1 .. Len(migs[i]) : migs[i][k].dst \in Nodes /\ k \in 0 .. MaxMoves
    <3>1. \A k \in 1 .. Len(migs[i]) : migs[i][k] \in Records
      BY <1>0
    <3>2. MaxMoves \in Nat
      BY MovesAssumption
    <3>3. \A k \in 1 .. Len(migs[i]) : k \in 0 .. MaxMoves
      BY <1>0, <3>2
    <3> QED
      BY <3>1, <3>3 DEF Records
  <2>2. /\ 0 \in 0 .. MaxMoves /\ migs' = migs
    BY <1>1, MovesAssumption
  <2> QED
    BY <1>1, <2>1, <2>2 DEF Call, Sound, CallType, ApiOps, OnRecord, QueuedOps, RunningOps
<1>4. \A j \in Instances : Len(migs'[j]) \in Nat /\ Len(migs[j]) <= Len(migs'[j])
  BY <1>1 DEF Sane, Tables
<1>5. \A e \in calls' : Sound(e)'
  BY <1>1, <1>3, <1>4, CallsSound
<1> QED
  BY <1>1, <1>2, <1>5 DEF Sane, Tables, Counters, Builds, Disks

LEMMA SaneTypeOK == Sane => TypeOK
BY SaneTyped DEF MovesTypeOK

LEMMA AuditSane ==
  ASSUME Sane, NEW n \in Nodes, AuditInMove(n)
  PROVE  Sane'
<1>1. TypeOK
  BY SaneTypeOK
<1>2. ASSUME UNCHANGED <<row, migs, moves, flow, pending, ending, guests, calls, backups>>,
             tracked' \in [Nodes -> SUBSET Instances], used' \in [Nodes -> Int],
             auditing' \in [Nodes -> BOOLEAN]
      PROVE  Sane'
  BY <1>2 DEF Sane, Tables, Counters, Builds, Disks, Sound
<1>3. CASE AuditInstances(n)
  <2>1. CountInstances(row, n)
    BY <1>3 DEF AuditInstances
  <2>2. /\ tracked' \in [Nodes -> SUBSET Instances] /\ used' \in [Nodes -> Int]
        /\ auditing' \in [Nodes -> BOOLEAN]
    BY <1>1, <2>1, CountType DEF TypeOK
  <2> QED
    BY <1>2, <1>3, <2>2 DEF AuditInstances, AuditInMove, tables
<1>4. CASE AuditMigrations(n)
  <2> DEFINE Counted(i) == MoveUsage(n, i, row[i], migs[i][Latest(Candidates(i, n))])
             counted == [i \in Instances |-> IF Candidates(i, n) = {} THEN NoFlavor ELSE Counted(i)]
             none == [i \in Instances |-> NoFlavor]
  <2>1. \A i \in Instances : Counted(i) \in Flavors \cup {NoFlavor}
    <3>1. \A i \in Instances : /\ row[i].flavor \in Flavors
                               /\ row[i].old \in Flavors \cup {NoFlavor}
                               /\ row[i].new \in Flavors \cup {NoFlavor}
      BY DEF Sane, Tables, Rows
    <3> QED
      BY <3>1 DEF MoveUsage, FlavorOf
  <2> HIDE DEF Counted
  <2>2. counted \in [Instances -> Flavors \cup {NoFlavor}] /\ none \in [Instances -> Flavors \cup {NoFlavor}]
    BY <2>1
  <2>3. PICK added \in {counted, none} :
           /\ moves' = [moves EXCEPT ![n] = added]
           /\ used' = [used EXCEPT ![n] = @ + Total(added)]
           /\ auditing' = [auditing EXCEPT ![n] = FALSE]
           /\ UNCHANGED <<row, migs, tracked, flow, pending, ending, guests>>
    BY <1>4 DEF AuditMigrations, Counted, tables
  <2> HIDE DEF counted, none
  <2>4. added \in [Instances -> Flavors \cup {NoFlavor}]
    BY <2>2, <2>3
  <2>5. Total(added) \in Nat
    <3>1. added \in [Instances -> Int]
      BY <2>4 DEF Flavors, NoFlavor
    <3> QED
      BY <3>1, TotalType
  <2>6. moves' \in [Nodes -> [Instances -> Flavors \cup {NoFlavor}]]
    BY <2>3, <2>4 DEF Sane, Counters
  <2>7. used' \in [Nodes -> Int]
    <3>1. used[n] \in Int
      BY DEF Sane, Counters
    <3>2. used[n] + Total(added) \in Int
      BY <2>5, <3>1
    <3> QED
      BY <2>3, <3>2 DEF Sane, Counters
  <2>8. auditing' \in [Nodes -> BOOLEAN]
    BY <2>3 DEF Sane, Counters
  <2>9. calls' = calls /\ backups' = backups
    BY DEF AuditInMove
  <2> QED
    BY <2>3, <2>6, <2>7, <2>8, <2>9 DEF Sane, Tables, Counters, Builds, Disks, Sound
<1> QED
  BY <1>3, <1>4 DEF AuditInMove, Audit

LEMMA RestartSane ==
  ASSUME Sane, NEW n \in Nodes, RestartInMove(n)
  PROVE  Sane'
<1>1. TypeOK
  BY SaneTypeOK
<1> DEFINE here == {i \in Instances : row[i].host = n}
           rows == [i \in Instances |-> IF i \in here THEN Recovered(i) ELSE row[i]]
<1>2. \A i \in Instances : row[i] \in Rows /\ Recovered(i) \in Rows
      /\ Recovered(i).flavor = row[i].flavor
  <2> SUFFICES ASSUME NEW i \in Instances
               PROVE  row[i] \in Rows /\ Recovered(i) \in Rows /\ Recovered(i).flavor = row[i].flavor
    OBVIOUS
  <2>1. row[i] \in Rows
    BY DEF Sane, Tables
  <2>2. /\ With(i, row[i].vm, "none", row[i].host) \in Rows
        /\ With(i, row[i].vm, "none", row[i].host).flavor = row[i].flavor
    BY <2>1 DEF With, Rows, TaskStates
  <2> QED
    BY <2>1, <2>2 DEF Recovered
<1>3. rows \in [Instances -> Rows] /\ \A i \in Instances : rows[i].flavor = row[i].flavor
  BY <1>2
<1>4. row' = rows /\ CountInstances(rows, n)
  BY DEF RestartInMove
<1>5. rows \in [Instances -> RowType]
  BY <1>3 DEF Rows, RowType
<1> HIDE DEF rows, here
<1>6. /\ tracked' \in [Nodes -> SUBSET Instances] /\ used' \in [Nodes -> Int]
      /\ auditing' \in [Nodes -> BOOLEAN]
  BY <1>1, <1>3, <1>4, <1>5, CountType
<1>7. moves' \in [Nodes -> [Instances -> Flavors \cup {NoFlavor}]]
  BY DEF RestartInMove, Sane, Counters
<1>8. guests' \in [Nodes -> SUBSET Instances] /\ backups' \subseteq Instances \X Nodes
  BY DEF RestartInMove, Sane, Disks
<1>9. calls' \subseteq calls /\ migs' = migs /\ UNCHANGED buildVars
  BY DEF RestartInMove
<1> QED
  BY <1>3, <1>4, <1>6, <1>7, <1>8, <1>9 DEF Sane, Tables, Counters, Builds, buildVars, Disks, Sound

LEMMA InitSane == MovesInit => Sane
<1> SUFFICES ASSUME MovesInit PROVE Sane
  OBVIOUS
<1>1. PICK home \in [Instances -> Nodes], size \in [Instances -> Flavors] :
        /\ row = [i \in Instances |->
                   [vm |-> "active", task |-> "none", host |-> home[i],
                    flavor |-> size[i], old |-> NoFlavor, new |-> NoFlavor]]
        /\ tracked = [n \in Nodes |-> {i \in Instances : home[i] = n}]
        /\ used = [n \in Nodes |-> Size(tracked[n])]
  BY DEF MovesInit
<1>2. row \in [Instances -> Rows]
  BY <1>1 DEF Rows, VmStates, TaskStates
<1>3. \A i \in Instances : migs[i] = <<>> /\ Len(migs[i]) <= MaxMoves
  BY MovesAssumption DEF MovesInit
<1>4. migs \in [Instances -> Seq(Records)]
  BY DEF MovesInit
<1>5. Tables
  BY <1>2, <1>3, <1>4 DEF Tables
<1>6. tracked \in [Nodes -> SUBSET Instances] /\ guests \in [Nodes -> SUBSET Instances]
  BY <1>1 DEF MovesInit
<1>7. \A S \in SUBSET Instances : Size(S) \in Nat
  <2> SUFFICES ASSUME NEW S \in SUBSET Instances PROVE Size(S) \in Nat
    OBVIOUS
  <2>1. [i \in S |-> row[i].flavor] \in [S -> Int]
    BY <1>2 DEF Rows, Flavors
  <2> QED
    BY <2>1, TotalType DEF Size
<1>8. used \in [Nodes -> Int]
  BY <1>1, <1>6, <1>7
<1> QED
  BY <1>5, <1>6, <1>8
     DEF MovesInit, Sane, Counters, Builds, Disks, Idle, FlowType, Flavors

LEMMA NextSane == Sane /\ [MovesNext]_moveVars => Sane'
<1> SUFFICES ASSUME Sane, [MovesNext]_moveVars PROVE Sane'
  OBVIOUS
<1>1. CASE UNCHANGED moveVars
  BY <1>1 DEF moveVars, vars, Sane, Tables, Counters, Builds, Disks, Sound
<1>2. ASSUME NEW c \in calls, Serve(c) PROVE Sane'
  BY <1>2, PrepareSane, ResizeSane, AnswerSane DEF Serve
<1> QED
  BY <1>1, <1>2, AskSane, AuditSane, RestartSane DEF MovesNext, MovesStep

\* However resizes, answers, polls and restarts interleave, and however many
\* answer one move, the tables, the trackers and the calls stay well typed: the
\* handlers never write a host, a flavor or a record that is not there.
THEOREM MovesTypeCorrect == MovesSpec => []MovesTypeOK
<1>1. MovesSpec => []Sane
  BY InitSane, NextSane, PTL DEF MovesSpec
<1> QED
  BY <1>1, SaneTyped, PTL

-----------------------------------------------------------------------------
(* The course of a move that one request answers, on services that run. *)

Last(i) == migs[i][Len(migs[i])]
GuestAt(i, S) == \A n \in Nodes : i \in guests[n] <=> n \in S
DiskAt(i, S) == \A n \in Nodes : <<i, n>> \in backups <=> n \in S
State(i, vm, task) == row[i].vm = vm /\ row[i].task = task

\* The guest is on its host and nothing was kept; it is off and the source of
\* the move has its disk; it is on the destination and the source has a disk.
Home(i) == GuestAt(i, {row[i].host}) /\ DiskAt(i, {})
Off(i) == GuestAt(i, {}) /\ DiskAt(i, {Last(i).src})
Away(i) ==
    GuestAt(i, {row[i].host}) /\ DiskAt(i, {Last(i).src}) /\ Last(i).dst = row[i].host

\* The guest is on the destination and the request may be answered, or will be
\* when the last save is done.
Settling(i) == \E d \in calls : d.inst = i /\ d.op = "settle"
Ready(i) ==
    State(i, "resized", "none") \/ (State(i, "active", "resize_finish") /\ Settling(i))

\* What each handler finds when it begins, and at the API for a request.
Stage(c) ==
    LET i == c.inst
        m == Last(c.inst)
    IN
    /\ c.op # "schedule" => c.mig = Len(migs[i])
    /\ c.op = "schedule" => State(i, "active", "resize_prep") /\ Home(i)
    /\ c.op = "resize" =>
          /\ State(i, "active", "resize_prep") /\ Home(i)
          /\ m.status = "pre-migrating" /\ c.at = m.src /\ m.src = row[i].host
    /\ c.op = "disk" =>
          /\ State(i, "active", "resize_migrating") /\ Home(i)
          /\ m.status = "migrating" /\ c.at = m.src /\ m.src = row[i].host
    /\ c.op = "finish" =>
          /\ State(i, "active", "resize_migrated") /\ Off(i)
          /\ m.status = "post-migrating" /\ c.at = m.dst /\ m.dst = row[i].host
    /\ c.op = "start" =>
          /\ State(i, "active", "resize_finish") /\ Off(i)
          /\ m.status = "post-migrating" /\ c.at = m.dst /\ m.dst = row[i].host
    /\ c.op = "settle" =>
          State(i, "active", "resize_finish") /\ Away(i) /\ m.status = "finished"
    /\ c.op \in {"ask_confirm", "ask_revert"} =>
          State(i, "resized", "none") /\ Away(i) /\ m.status = "finished"
    /\ c.op \in {"confirm", "confirming"} =>
          State(i, "resized", "none") /\ Away(i) /\ m.status = "confirming" /\ c.at = m.src
    /\ c.op = "dropping" =>
          State(i, "resized", "none") /\ Home(i) /\ m.status = "confirmed"
    /\ c.op = "revert" =>
          /\ State(i, "resized", "resize_reverting") /\ Away(i)
          /\ m.status = "reverting" /\ c.at = m.dst
    /\ c.op = "undoing" =>
          State(i, "resized", "resize_reverting") /\ Off(i) /\ m.status = "reverted"
    /\ c.op = "finish_revert" =>
          /\ State(i, "resized", "resize_reverting") /\ Off(i)
          /\ m.status = "reverted" /\ c.at = m.src
    /\ c.op = "restoring" =>
          /\ State(i, "resized", "resize_reverting") /\ Off(i)
          /\ m.status = "reverted" /\ c.at = m.src /\ m.src = row[i].host
    /\ c.op = "polled" => Ready(i) /\ Away(i) /\ m.status = "finished"

\* The calls about an instance follow one another; the poll alone may look at a
\* move whose last save is still to come.
Serial(i) ==
    \A c, d \in calls : c.inst = i /\ d.inst = i /\ c # d =>
       \/ c.op = "settle" /\ d.op = "polled"
       \/ c.op = "polled" /\ d.op = "settle"

\* Between moves, and of every record: only the last one can be finished.
Rest(i) ==
    /\ State(i, "active", "none") => Home(i)
    /\ \A k \in 1 .. Len(migs[i]) : migs[i][k].status = "finished" =>
          k = Len(migs[i]) /\ Ready(i) /\ Away(i)
    /\ \A n, m \in Nodes : i \in guests[n] /\ i \in guests[m] => n = m

Course(i) == Serial(i) /\ Rest(i) /\ \A c \in calls : c.inst = i => Stage(c)

\* A step that is not about j.
Apart(j) ==
    /\ row'[j] = row[j] /\ migs'[j] = migs[j]
    /\ \A n \in Nodes : /\ j \in guests'[n] <=> j \in guests[n]
                        /\ <<j, n>> \in backups' <=> <<j, n>> \in backups
    /\ \A d : d.inst = j => (d \in calls' <=> d \in calls)

LEMMA ApartSame ==
  ASSUME NEW j, Apart(j)
  PROVE  /\ Last(j)' = Last(j)
         /\ \A S : GuestAt(j, S)' <=> GuestAt(j, S)
         /\ \A S : DiskAt(j, S)' <=> DiskAt(j, S)
         /\ \A vm, task : State(j, vm, task)' <=> State(j, vm, task)
         /\ Settling(j)' <=> Settling(j)
BY DEF Apart, Last, GuestAt, DiskAt, State, Settling

LEMMA ApartKept ==
  ASSUME NEW j, Apart(j), Course(j)
  PROVE  Course(j)'
<1>1. /\ Last(j)' = Last(j) /\ row'[j] = row[j] /\ migs'[j] = migs[j]
      /\ (Home(j)' <=> Home(j)) /\ (Off(j)' <=> Off(j)) /\ (Away(j)' <=> Away(j))
      /\ (Ready(j)' <=> Ready(j))
      /\ \A vm, task : State(j, vm, task)' <=> State(j, vm, task)
  BY ApartSame DEF Apart, Home, Off, Away, Ready
<1>2. \A c : c.inst = j /\ Stage(c) => Stage(c)'
  BY <1>1 DEF Stage
<1>3. Serial(j)'
  BY DEF Apart, Course, Serial
<1>4. Rest(j)'
  BY <1>1 DEF Apart, Course, Rest
<1> QED
  BY <1>2, <1>3, <1>4 DEF Apart, Course

Alone(c) == \A d \in calls : d.inst = c.inst => d = c

LEMMA OnCourse ==
  ASSUME NEW c \in calls, Course(c.inst)
  PROVE  /\ Stage(c) /\ Rest(c.inst)
         /\ c.op \notin {"settle", "polled"} => Alone(c)
BY DEF Course, Serial, Alone

LEMMA ServedCalls ==
  ASSUME NEW c \in calls, Served(c)
  PROVE  /\ \A j, d : j # c.inst /\ d.inst = j => (d \in calls' <=> d \in calls)
         /\ Alone(c) => \A d \in calls' : d.inst # c.inst
BY DEF Served, Alone

LEMMA GoesOnCalls ==
  ASSUME Sane, NEW c \in calls, NEW op, NEW n, GoesOn(c, op, n)
  PROVE  /\ \A j, d : j # c.inst /\ d.inst = j => (d \in calls' <=> d \in calls)
         /\ \E e \in calls' :
              /\ e.inst = c.inst /\ e.op = op /\ e.at = n /\ e.mig = c.mig
              /\ e.flavor = c.flavor
              /\ Alone(c) => \A d \in calls' : d.inst = c.inst => d = e
<1> DEFINE e == [c EXCEPT !.op = op, !.at = n]
<1>1. e.inst = c.inst /\ e.op = op /\ e.at = n /\ e.mig = c.mig /\ e.flavor = c.flavor
  BY DEF Sane, Sound, CallType
<1>2. calls' = (calls \ {c}) \cup {e}
  BY DEF GoesOn
<1> HIDE DEF e
<1> QED
  BY <1>1, <1>2 DEF Alone

\* One call of i is left, or none.
LEMMA CourseOfOne ==
  ASSUME NEW i, NEW e, \A d \in calls' : d.inst = i => d = e, e.inst = i => Stage(e)', Rest(i)'
  PROVE  Course(i)'
BY DEF Course, Serial

LEMMA CourseOfNone ==
  ASSUME NEW i, \A d \in calls' : d.inst # i, Rest(i)'
  PROVE  Course(i)'
BY DEF Course, Serial

\* The last record of i is written, or none is.
NoneFinished(i) == \A k \in 1 .. Len(migs[i]) : migs[i][k].status # "finished"

LEMMA LastWritten ==
  ASSUME Sane, NEW i \in Instances, Rest(i), NEW k \in 1 .. Len(migs[i]), k = Len(migs[i]),
         NEW s \in Statuses, SetStatus(i, k, s)
  PROVE  /\ Len(migs'[i]) = Len(migs[i])
         /\ Last(i)'.status = s /\ Kept(Last(i)', Last(i))
         /\ \A l \in 1 .. Len(migs'[i]) : migs'[i][l].status = "finished" => l = Len(migs'[i])
         /\ s # "finished" => NoneFinished(i)'
         /\ \A j \in Instances \ {i} : migs'[j] = migs[j]
<1>1. /\ Len(migs'[i]) = Len(migs[i])
      /\ \A l \in 1 .. Len(migs[i]) : l # k => migs'[i][l] = migs[i][l]
      /\ migs'[i][k].status = s /\ Kept(migs'[i][k], migs[i][k])
      /\ \A j \in Instances \ {i} : migs'[j] = migs[j]
  BY StatusSet
<1>2. \A l \in 1 .. Len(migs[i]) : l # k => migs[i][l].status # "finished"
  BY DEF Rest
<1> QED
  BY <1>1, <1>2 DEF Last, NoneFinished

LEMMA NothingFinished ==
  ASSUME NEW i, Rest(i), ~Ready(i) \/ Last(i).status # "finished"
  PROVE  NoneFinished(i)
BY DEF Rest, NoneFinished, Last

LEMMA RestAfter ==
  ASSUME NEW i
  PROVE  /\ NoneFinished(i)' /\ Home(i)' => Rest(i)'
         /\ NoneFinished(i)' /\ Off(i)' /\ ~State(i, "active", "none")' => Rest(i)'
         /\ NoneFinished(i)' /\ Away(i)' /\ ~State(i, "active", "none")' => Rest(i)'
         /\ /\ \A l \in 1 .. Len(migs'[i]) : migs'[i][l].status = "finished" => l = Len(migs'[i])
            /\ Away(i)' /\ Ready(i)'
            => Rest(i)'
BY DEF NoneFinished, Rest, Home, Off, Away, GuestAt, Ready, State

\* The rows, the guests, the disks and the calls of the others.
LEMMA OthersApart ==
  ASSUME Sane, NEW i \in Instances,
         \A j \in Instances \ {i} : row'[j] = row[j] /\ migs'[j] = migs[j],
         \/ guests' = guests
         \/ \E n : guests' = [guests EXCEPT ![n] = @ \ {i}]
         \/ \E n : guests' = [guests EXCEPT ![n] = @ \cup {i}],
         \/ backups' = backups
         \/ \E n : backups' = backups \ {<<i, n>>}
         \/ \E n : backups' = backups \cup {<<i, n>>},
         \A j, d : j # i /\ d.inst = j => (d \in calls' <=> d \in calls)
  PROVE  \A j \in Instances \ {i} : Apart(j)
<1> SUFFICES ASSUME NEW j \in Instances \ {i} PROVE Apart(j)
  OBVIOUS
<1>1. guests \in [Nodes -> SUBSET Instances]
  BY DEF Sane, Disks
<1>2. \A n \in Nodes : j \in guests'[n] <=> j \in guests[n]
  BY <1>1
<1>3. \A n \in Nodes : <<j, n>> \in backups' <=> <<j, n>> \in backups
  OBVIOUS
<1> QED
  BY <1>2, <1>3 DEF Apart

\* A new record begins with its move.
LEMMA LastAdded ==
  ASSUME Sane, NEW i \in Instances, NEW m \in Records, Len(migs[i]) < MaxMoves,
         migs' = [migs EXCEPT ![i] = Append(@, m)], NoneFinished(i), m.status # "finished"
  PROVE  /\ Last(i)' = m /\ NoneFinished(i)' /\ Len(migs'[i]) = Len(migs[i]) + 1
         /\ \A j \in Instances \ {i} : migs'[j] = migs[j]
<1>1. /\ Len(migs'[i]) = Len(migs[i]) + 1
      /\ migs'[i][Len(migs[i]) + 1] = m
      /\ \A l \in 1 .. Len(migs[i]) : migs'[i][l] = migs[i][l]
      /\ \A j \in Instances \ {i} : migs'[j] = migs[j]
  BY RecordAdded
<1>2. Len(migs[i]) \in Nat
  BY DEF Sane, Tables
<1>3. \A l \in 1 .. Len(migs'[i]) : l \in 1 .. Len(migs[i]) \/ l = Len(migs[i]) + 1
  BY <1>1, <1>2
<1> QED
  BY <1>1, <1>3 DEF Last, NoneFinished

\* The state fields that a save writes.
LEMMA StateSaved ==
  ASSUME Sane, NEW i \in Instances, NEW vm \in VmStates, NEW task \in TaskStates,
         row' = Saved(i, vm, task, row[i].host)
  PROVE  /\ row'[i].vm = vm /\ row'[i].task = task /\ row'[i].host = row[i].host
         /\ \A j \in Instances \ {i} : row'[j] = row[j]
<1>1. row \in [Instances -> Rows]
  BY DEF Sane, Tables
<1> QED
  BY <1>1 DEF Saved, With

LEMMA StateExpected ==
  ASSUME Sane, NEW i \in Instances, NEW vm \in VmStates, NEW task \in TaskStates,
         NEW host \in Nodes, NEW expected, row[i].task \in expected,
         SaveExpecting(i, expected, With(i, vm, task, host))
  PROVE  /\ row'[i].vm = vm /\ row'[i].task = task /\ row'[i].host = host
         /\ \A j \in Instances \ {i} : row'[j] = row[j]
<1>1. row \in [Instances -> Rows]
  BY DEF Sane, Tables
<1> QED
  BY <1>1 DEF SaveExpecting, With

LEMMA HostSane ==
  ASSUME Sane, NEW i \in Instances
  PROVE  row[i].host \in Nodes /\ row[i].vm \in VmStates /\ row[i].task \in TaskStates
BY DEF Sane, Tables, Rows

LEMMA NoHostCourse ==
  ASSUME Sane, NEW c \in calls, NEW i \in Instances, i = c.inst, Course(i), NoHostForMove(c)
  PROVE  Course(i)' /\ \A j \in Instances \ {i} : Apart(j)
<1>1. c.op = "schedule" /\ Stage(c) /\ Rest(i) /\ Alone(c)
  BY OnCourse DEF NoHostForMove
<1>2. State(i, "active", "resize_prep") /\ Home(i) /\ NoneFinished(i)
  <2>1. State(i, "active", "resize_prep") /\ Home(i)
    BY <1>1 DEF Stage
  <2> QED
    BY <1>1, <2>1, NothingFinished DEF Ready, State
<1>3. /\ row'[i].vm = "active" /\ row'[i].task = "none" /\ row'[i].host = row[i].host
      /\ \A j \in Instances \ {i} : row'[j] = row[j]
  <2>1. row' = Saved(i, "active", "none", row[i].host)
    BY <1>2 DEF NoHostForMove, State
  <2> QED
    BY <2>1, StateSaved DEF VmStates, TaskStates
<1>4. migs' = migs /\ guests' = guests /\ backups' = backups /\ Served(c)
  BY DEF NoHostForMove
<1>5. Home(i)' /\ NoneFinished(i)'
  BY <1>2, <1>3, <1>4 DEF Home, GuestAt, DiskAt, NoneFinished
<1>6. Course(i)'
  BY <1>1, <1>4, <1>5, RestAfter, ServedCalls, CourseOfNone
<1> QED
  BY <1>3, <1>4, <1>6, ServedCalls, OthersApart

LEMMA PrepCourse ==
  ASSUME Sane, NEW c \in calls, NEW i \in Instances, i = c.inst, Course(i),
         NEW n \in Nodes, PrepResize(c, n)
  PROVE  Course(i)' /\ \A j \in Instances \ {i} : Apart(j)
<1>1. c.op = "schedule" /\ Stage(c) /\ Rest(i) /\ Alone(c)
  BY OnCourse DEF PrepResize
<1>2. State(i, "active", "resize_prep") /\ Home(i) /\ NoneFinished(i)
  <2>1. State(i, "active", "resize_prep") /\ Home(i)
    BY <1>1 DEF Stage
  <2> QED
    BY <1>1, <2>1, NothingFinished DEF Ready, State
<1>3. PICK m \in Records : m = NewMigration(c, n)
  BY <1>1, Prepared
<1>4. PICK d : d = Call("resize", i, Len(migs[i]) + 1, c.flavor, m.src)
  OBVIOUS
<1>5. /\ Len(migs[i]) < MaxMoves /\ migs' = [migs EXCEPT ![i] = Append(@, m)]
      /\ row' = [row EXCEPT ![i] = [row[i] EXCEPT !.new = c.flavor]]
      /\ calls' = (calls \ {c}) \cup {d} /\ guests' = guests /\ backups' = backups
  BY <1>3, <1>4 DEF PrepResize
<1>6. m.status = "pre-migrating" /\ m.src = row[i].host
  BY <1>3 DEF NewMigration
<1>7. /\ Last(i)' = m /\ NoneFinished(i)' /\ Len(migs'[i]) = Len(migs[i]) + 1
      /\ \A j \in Instances \ {i} : migs'[j] = migs[j]
  BY <1>2, <1>5, <1>6, LastAdded
<1>8. /\ row'[i].vm = row[i].vm /\ row'[i].task = row[i].task /\ row'[i].host = row[i].host
      /\ \A j \in Instances \ {i} : row'[j] = row[j]
  BY <1>5 DEF Sane, Tables, Rows
<1>9. Home(i)' /\ State(i, "active", "resize_prep")'
  BY <1>2, <1>5, <1>8 DEF Home, GuestAt, DiskAt, State
<1>10. Stage(d)'
  <2>1. /\ d.op = "resize" /\ d.inst = i /\ d.mig = Len(migs'[i]) /\ d.at = m.src
    BY <1>4, <1>7 DEF Call
  <2> QED
    BY <1>6, <1>7, <1>8, <1>9, <2>1 DEF Stage
<1>11. \A e \in calls' : e.inst = i => e = d
  BY <1>1, <1>5 DEF Alone
<1>12. Course(i)'
  BY <1>7, <1>9, <1>10, <1>11, RestAfter, CourseOfOne
<1>13. \A j, e : j # i /\ e.inst = j => (e \in calls' <=> e \in calls)
  BY <1>4, <1>5 DEF Call
<1> QED
  BY <1>5, <1>7, <1>8, <1>12, <1>13, OthersApart

LEMMA RefusedCourse ==
  ASSUME Sane, NEW c \in calls, NEW i \in Instances, i = c.inst, Course(i),
         NEW n \in Nodes, NEW retry \in BOOLEAN, PrepRefused(c, n, retry)
  PROVE  Course(i)' /\ \A j \in Instances \ {i} : Apart(j)
<1>1. c.op = "schedule" /\ Stage(c) /\ Rest(i) /\ Alone(c)
  BY OnCourse DEF PrepRefused
<1>2. State(i, "active", "resize_prep") /\ Home(i) /\ NoneFinished(i)
  <2>1. State(i, "active", "resize_prep") /\ Home(i)
    BY <1>1 DEF Stage
  <2> QED
    BY <1>1, <2>1, NothingFinished DEF Ready, State
<1>3. NoneFinished(i)' /\ \A j \in Instances \ {i} : migs'[j] = migs[j]
  <2>1. CASE migs' = migs
    BY <1>2, <2>1 DEF NoneFinished
  <2>2. CASE migs' # migs
    <3>1. PICK m \in Records : m = NewMigration(c, n)
      BY <1>1, Prepared
    <3>2. Len(migs[i]) < MaxMoves /\ migs' = [migs EXCEPT ![i] = Append(@, m)]
      BY <2>2, <3>1 DEF PrepRefused
    <3>3. m.status # "finished"
      BY <3>1 DEF NewMigration
    <3> QED
      BY <1>2, <3>2, <3>3, LastAdded
  <2> QED
    BY <2>1, <2>2
<1>4. PICK stash : GiveUpPrep(c, i, stash, retry)
  BY DEF PrepRefused
<1>5. /\ row'[i].host = row[i].host
      /\ retry => row'[i].vm = "active" /\ row'[i].task = "resize_prep"
      /\ ~retry => row'[i].vm = "error"
      /\ \A j \in Instances \ {i} : row'[j] = row[j]
  <2>1. row[i] \in Rows /\ row \in [Instances -> Rows]
    BY DEF Sane, Tables
  <2> QED
    BY <1>2, <1>4, <2>1 DEF GiveUpPrep, State, Rows
<1>6. guests' = guests /\ backups' = backups
  BY DEF PrepRefused
<1>7. Home(i)' /\ Rest(i)'
  BY <1>2, <1>3, <1>5, <1>6, RestAfter DEF Home, GuestAt, DiskAt
<1>8. Course(i)'
  <2>1. CASE retry
    <3>1. calls' = calls
      BY <1>4, <2>1 DEF GiveUpPrep
    <3>2. Stage(c)'
      BY <1>1, <1>5, <1>7, <2>1 DEF Stage, State
    <3> QED
      BY <1>1, <1>7, <3>1, <3>2, CourseOfOne DEF Alone
  <2>2. CASE ~retry
    <3>1. Served(c)
      BY <1>4, <2>2 DEF GiveUpPrep
    <3> QED
      BY <1>1, <1>7, <3>1, ServedCalls, CourseOfNone
  <2> QED
    BY <2>1, <2>2
<1>9. \A j, d : j # i /\ d.inst = j => (d \in calls' <=> d \in calls)
  BY <1>4, ServedCalls DEF GiveUpPrep
<1> QED
  BY <1>3, <1>5, <1>6, <1>8, <1>9, OthersApart

LEMMA CourseGoesOn ==
  ASSUME Sane, NEW c \in calls, NEW i \in Instances, i = c.inst, Alone(c), NEW op, NEW n,
         GoesOn(c, op, n), c.mig = Len(migs'[i]), Rest(i)',
         \A e \in calls' : /\ e.inst = i /\ e.op = op /\ e.at = n /\ e.mig = c.mig
                           /\ e.flavor = c.flavor
                           => Stage(e)'
  PROVE  Course(i)'
BY GoesOnCalls, CourseOfOne

LEMMA ResizeCourse ==
  ASSUME Sane, NEW c \in calls, NEW i \in Instances, i = c.inst, Course(i),
         \/ ResizeInstance(c) \/ ResizeMigrated(c) \/ FinishResize(c)
         \/ (\E rollback \in BOOLEAN : ResizeFails(c, rollback))
  PROVE  Course(i)' /\ \A j \in Instances \ {i} : Apart(j)
<1>0. /\ c.op \in {"resize", "disk", "finish"} /\ Stage(c) /\ Rest(i) /\ Alone(c)
      /\ c.mig = Len(migs[i]) /\ c.mig \in 1 .. Len(migs[i]) /\ c.at \in Nodes
      /\ Last(i).src \in Nodes /\ Last(i).dst \in Nodes
  <2>1. c.op \in {"resize", "disk", "finish"} /\ Stage(c) /\ Rest(i) /\ Alone(c)
    BY OnCourse DEF ResizeInstance, ResizeMigrated, FinishResize, ResizeFails
  <2>2. c.mig = Len(migs[i])
    BY <2>1 DEF Stage
  <2> QED
    BY <2>1, <2>2, Served0 DEF OnRecord, QueuedOps, RunningOps, Records, Last
<1>1. ASSUME NEW s \in Statuses \ {"finished"}, SetStatus(i, c.mig, s)
      PROVE  /\ Len(migs'[i]) = Len(migs[i]) /\ NoneFinished(i)'
             /\ Last(i)'.status = s /\ Last(i)'.src = Last(i).src /\ Last(i)'.dst = Last(i).dst
             /\ \A j \in Instances \ {i} : migs'[j] = migs[j]
  BY <1>0, <1>1, LastWritten DEF Kept
<1>2. CASE ResizeInstance(c)
  <2>1. /\ State(i, "active", "resize_prep") /\ Home(i) /\ c.at = Last(i).src
        /\ Last(i).src = row[i].host
    BY <1>0, <1>2 DEF ResizeInstance, Stage
  <2>2. /\ SetStatus(i, c.mig, "migrating") /\ GoesOn(c, "disk", c.at)
        /\ SaveExpecting(i, {"resize_prep"}, With(i, "active", "resize_migrating", row[i].host))
        /\ guests' = guests /\ backups' = backups
    BY <1>2, <2>1 DEF ResizeInstance, State
  <2>3. /\ row'[i].vm = "active" /\ row'[i].task = "resize_migrating"
        /\ row'[i].host = row[i].host /\ \A j \in Instances \ {i} : row'[j] = row[j]
    BY <2>1, <2>2, HostSane, StateExpected DEF State, VmStates, TaskStates
  <2>4. /\ Len(migs'[i]) = Len(migs[i]) /\ NoneFinished(i)'
        /\ Last(i)'.status = "migrating" /\ Last(i)'.src = Last(i).src
        /\ \A j \in Instances \ {i} : migs'[j] = migs[j]
    BY <1>1, <2>2 DEF Statuses
  <2>5. Home(i)' /\ State(i, "active", "resize_migrating")'
    BY <2>1, <2>2, <2>3 DEF Home, GuestAt, DiskAt, State
  <2>6. ASSUME NEW e, e.inst = i, e.op = "disk", e.at = c.at, e.mig = c.mig PROVE Stage(e)'
    BY <1>0, <2>1, <2>3, <2>4, <2>5, <2>6 DEF Stage
  <2>7. Course(i)'
    BY <1>0, <2>2, <2>4, <2>5, <2>6, RestAfter, CourseGoesOn
  <2> QED
    BY <2>2, <2>3, <2>4, <2>7, GoesOnCalls, OthersApart
<1>3. CASE ResizeMigrated(c)
  <2>1. /\ State(i, "active", "resize_migrating") /\ Home(i) /\ c.at = Last(i).src
        /\ Last(i).src = row[i].host
    BY <1>0, <1>3 DEF ResizeMigrated, Stage
  <2>2. /\ SetStatus(i, c.mig, "post-migrating") /\ GoesOn(c, "finish", Last(i).dst)
        /\ SaveExpecting(i, {"resize_migrating"}, With(i, "active", "resize_migrated", Last(i).dst))
        /\ guests' = [guests EXCEPT ![c.at] = @ \ {i}] /\ backups' = backups \cup {<<i, c.at>>}
    BY <1>0, <1>3, <2>1 DEF ResizeMigrated, State, Last
  <2>3. /\ row'[i].vm = "active" /\ row'[i].task = "resize_migrated"
        /\ row'[i].host = Last(i).dst /\ \A j \in Instances \ {i} : row'[j] = row[j]
    BY <1>0, <2>1, <2>2, StateExpected DEF State, VmStates, TaskStates
  <2>4. /\ Len(migs'[i]) = Len(migs[i]) /\ NoneFinished(i)'
        /\ Last(i)'.status = "post-migrating" /\ Last(i)'.src = Last(i).src
        /\ Last(i)'.dst = Last(i).dst /\ \A j \in Instances \ {i} : migs'[j] = migs[j]
    BY <1>1, <2>2 DEF Statuses
  <2>5. Off(i)' /\ State(i, "active", "resize_migrated")'
    <3>1. GuestAt(i, {})'
      BY <2>1, <2>2 DEF Home, GuestAt, Sane, Disks
    <3>2. DiskAt(i, {Last(i).src})'
      BY <2>1, <2>2, <2>4 DEF Home, DiskAt
    <3> QED
      BY <2>3, <3>1, <3>2 DEF Off, State
  <2>6. ASSUME NEW e, e.inst = i, e.op = "finish", e.at = Last(i).dst, e.mig = c.mig
        PROVE  Stage(e)'
    BY <1>0, <2>3, <2>4, <2>5, <2>6 DEF Stage
  <2>7. Course(i)'
    <3>1. Rest(i)'
      BY <2>3, <2>4, <2>5, RestAfter DEF State
    <3> QED
      BY <1>0, <2>2, <2>4, <2>6, <3>1, CourseGoesOn
  <2> QED
    BY <2>2, <2>3, <2>4, <2>7, GoesOnCalls, OthersApart
<1>4. CASE FinishResize(c)
  <2>1. /\ State(i, "active", "resize_migrated") /\ Off(i) /\ c.at = Last(i).dst
        /\ Last(i).status = "post-migrating" /\ Last(i).dst = row[i].host
    BY <1>0, <1>4 DEF FinishResize, Stage
  <2>2. /\ migs' = migs /\ GoesOn(c, "start", c.at) /\ guests' = guests /\ backups' = backups
        /\ row' = [row EXCEPT ![i] = [row[i] EXCEPT !.old = row[i].flavor, !.flavor = c.flavor,
                                                     !.task = "resize_finish"]]
    BY <1>4, <2>1 DEF FinishResize, SaveExpecting, State
  <2>3. /\ row'[i].vm = "active" /\ row'[i].task = "resize_finish"
        /\ row'[i].host = row[i].host /\ \A j \in Instances \ {i} : row'[j] = row[j]
    <3>1. row[i] \in Rows /\ row \in [Instances -> Rows]
      BY DEF Sane, Tables
    <3> QED
      BY <2>1, <2>2, <3>1 DEF State, Rows
  <2>4. NoneFinished(i)' /\ Last(i)' = Last(i)
    <3>1. NoneFinished(i)
      BY <1>0, <2>1, NothingFinished
    <3> QED
      BY <2>2, <3>1 DEF NoneFinished, Last
  <2>5. Off(i)' /\ State(i, "active", "resize_finish")'
    BY <2>1, <2>2, <2>3, <2>4 DEF Off, GuestAt, DiskAt, State
  <2>6. ASSUME NEW e, e.inst = i, e.op = "start", e.at = c.at, e.mig = c.mig PROVE Stage(e)'
    BY <1>0, <2>1, <2>2, <2>3, <2>4, <2>5, <2>6 DEF Stage
  <2>7. Course(i)'
    <3>1. Rest(i)'
      BY <2>3, <2>4, <2>5, RestAfter DEF State
    <3> QED
      BY <1>0, <2>2, <2>6, <3>1, CourseGoesOn
  <2> QED
    BY <2>2, <2>3, <2>7, GoesOnCalls, OthersApart
<1>5. ASSUME NEW rollback \in BOOLEAN, ResizeFails(c, rollback)
      PROVE  Course(i)' /\ \A j \in Instances \ {i} : Apart(j)
  <2>1. Home(i)
    BY <1>0, <1>5 DEF ResizeFails, Stage
  <2>2. /\ SetStatus(i, c.mig, "error") /\ Served(c) /\ guests' = guests /\ backups' = backups
        /\ \E vm \in VmStates : row' = Saved(i, vm, "none", row[i].host)
    BY <1>5 DEF ResizeFails, VmStates
  <2>3. row'[i].host = row[i].host /\ \A j \in Instances \ {i} : row'[j] = row[j]
    BY <2>2, StateSaved DEF TaskStates
  <2>4. NoneFinished(i)' /\ \A j \in Instances \ {i} : migs'[j] = migs[j]
    BY <1>1, <2>2 DEF Statuses
  <2>5. Home(i)'
    BY <2>1, <2>2, <2>3 DEF Home, GuestAt, DiskAt
  <2>6. Course(i)'
    BY <1>0, <2>2, <2>4, <2>5, RestAfter, ServedCalls, CourseOfNone
  <2> QED
    BY <2>2, <2>3, <2>4, <2>6, ServedCalls, OthersApart
<1> QED
  BY <1>2, <1>3, <1>4, <1>5

LEMMA FinishCourse ==
  ASSUME Sane, NEW c \in calls, NEW i \in Instances, i = c.inst, Course(i),
         FinishMigration(c) \/ FinishFails(c)
  PROVE  Course(i)' /\ \A j \in Instances \ {i} : Apart(j)
<1>0. /\ c.op = "start" /\ Stage(c) /\ Rest(i) /\ Alone(c)
      /\ c.mig = Len(migs[i]) /\ c.mig \in 1 .. Len(migs[i]) /\ c.at \in Nodes
  <2>1. c.op = "start" /\ Stage(c) /\ Rest(i) /\ Alone(c)
    BY OnCourse DEF FinishMigration, FinishFails
  <2>2. c.mig = Len(migs[i])
    BY <2>1 DEF Stage
  <2> QED
    BY <2>1, <2>2, Served0 DEF OnRecord, QueuedOps, RunningOps
<1>1. /\ State(i, "active", "resize_finish") /\ Off(i) /\ c.at = Last(i).dst
      /\ Last(i).dst = row[i].host
  BY <1>0 DEF Stage
<1>2. CASE FinishMigration(c)
  <2>1. /\ SetStatus(i, c.mig, "finished") /\ GoesOn(c, "settle", c.at) /\ row' = row
        /\ guests' = [guests EXCEPT ![c.at] = @ \cup {i}] /\ backups' = backups
    BY <1>2 DEF FinishMigration
  <2>2. /\ Len(migs'[i]) = Len(migs[i]) /\ Last(i)'.status = "finished"
        /\ Last(i)'.src = Last(i).src /\ Last(i)'.dst = Last(i).dst
        /\ \A l \in 1 .. Len(migs'[i]) : migs'[i][l].status = "finished" => l = Len(migs'[i])
        /\ \A j \in Instances \ {i} : migs'[j] = migs[j]
    BY <1>0, <2>1, LastWritten DEF Statuses, Kept
  <2>3. Away(i)' /\ State(i, "active", "resize_finish")'
    <3>1. GuestAt(i, {row[i].host})'
      BY <1>1, <2>1 DEF Off, GuestAt, Sane, Disks
    <3>2. DiskAt(i, {Last(i).src})'
      BY <1>1, <2>1, <2>2 DEF Off, DiskAt
    <3> QED
      BY <1>1, <2>1, <2>2, <3>1, <3>2 DEF Away, State
  <2>4. Settling(i)'
    BY <2>1, GoesOnCalls DEF Settling
  <2>5. Rest(i)'
    BY <2>2, <2>3, <2>4, RestAfter DEF Ready
  <2>6. ASSUME NEW e, e.inst = i, e.op = "settle", e.at = c.at, e.mig = c.mig PROVE Stage(e)'
    BY <1>0, <2>2, <2>3, <2>6 DEF Stage
  <2>7. Course(i)'
    BY <1>0, <2>1, <2>2, <2>5, <2>6, CourseGoesOn
  <2>8. \A j \in Instances \ {i} : row'[j] = row[j] /\ migs'[j] = migs[j]
    BY <2>1, <2>2
  <2> QED
    BY <2>1, <2>7, <2>8, GoesOnCalls, OthersApart
<1>3. CASE FinishFails(c)
  <2>1. /\ SetStatus(i, c.mig, "error") /\ Served(c)
        /\ guests' = guests /\ backups' = backups
    BY <1>3 DEF FinishFails
  <2>2. row'[i].vm = "error" /\ \A j \in Instances \ {i} : row'[j] = row[j]
    BY <1>3 DEF FinishFails, Sane, Tables, Rows
  <2>3. /\ NoneFinished(i)' /\ \A j \in Instances \ {i} : migs'[j] = migs[j]
        /\ Last(i)'.src = Last(i).src
    BY <1>0, <2>1, LastWritten DEF Statuses, Kept
  <2>4. Off(i)' /\ ~State(i, "active", "none")'
    BY <1>1, <2>1, <2>2, <2>3 DEF Off, GuestAt, DiskAt, State
  <2>5. Course(i)'
    BY <1>0, <2>1, <2>3, <2>4, RestAfter, ServedCalls, CourseOfNone
  <2> QED
    BY <2>1, <2>2, <2>3, <2>5, ServedCalls, OthersApart
<1> QED
  BY <1>2, <1>3

\* The last save of finish_resize, and the poll that may have read the record
\* before it.
LEMMA SettleCourse ==
  ASSUME Sane, NEW c \in calls, NEW i \in Instances, i = c.inst, Course(i), FinishSettles(c)
  PROVE  Course(i)' /\ \A j \in Instances \ {i} : Apart(j)
<1>1. c.op = "settle" /\ Stage(c) /\ Rest(i)
  BY OnCourse DEF FinishSettles
<1>2. State(i, "active", "resize_finish") /\ Away(i) /\ Last(i).status = "finished"
  BY <1>1 DEF Stage
<1>3. /\ migs' = migs /\ guests' = guests /\ backups' = backups /\ Served(c)
      /\ SaveExpecting(i, {"resize_finish"}, With(i, "resized", "none", row[i].host))
  BY DEF FinishSettles
<1>4. /\ row'[i].vm = "resized" /\ row'[i].task = "none"
      /\ row'[i].host = row[i].host /\ \A j \in Instances \ {i} : row'[j] = row[j]
  BY <1>2, <1>3, HostSane, StateExpected DEF State, VmStates, TaskStates
<1>5. Away(i)' /\ State(i, "resized", "none")' /\ Last(i)' = Last(i)
  BY <1>2, <1>3, <1>4 DEF Away, GuestAt, DiskAt, State, Last
<1>6. Rest(i)'
  <2>1. \A l \in 1 .. Len(migs'[i]) : migs'[i][l].status = "finished" => l = Len(migs'[i])
    BY <1>1, <1>3 DEF Rest
  <2> QED
    BY <1>5, <2>1, RestAfter DEF Ready
<1>7. Course(i)'
  <2>1. \A d \in calls' : d.inst = i => d.op = "polled" /\ d \in calls /\ Stage(d)
    BY <1>1, <1>3 DEF Served, Course, Serial
  <2>2. \A d \in calls' : d.inst = i => Stage(d)'
    BY <1>2, <1>3, <1>5, <2>1 DEF Stage, Ready
  <2>3. Serial(i)'
    BY <1>3 DEF Served, Course, Serial
  <2> QED
    BY <1>6, <2>2, <2>3 DEF Course
<1> QED
  BY <1>3, <1>4, <1>7, ServedCalls, OthersApart

\* Nobody answers beside a call that is not the last save of finish_resize.
LEMMA ConfirmCourse ==
  ASSUME Sane, NEW c \in calls, NEW i \in Instances, i = c.inst, Course(i),
         SaveConfirm(c) \/ ConfirmResize(c) \/ ConfirmMigration(c) \/ ConfirmDrops(c)
  PROVE  Course(i)' /\ \A j \in Instances \ {i} : Apart(j)
<1>0. /\ c.op \in {"ask_confirm", "confirm", "confirming", "dropping"}
      /\ Stage(c) /\ Rest(i) /\ Alone(c) /\ State(i, "resized", "none")
      /\ c.mig = Len(migs[i]) /\ c.mig \in 1 .. Len(migs[i])
  <2>1. /\ c.op \in {"ask_confirm", "confirm", "confirming", "dropping"}
        /\ Stage(c) /\ Rest(i) /\ Alone(c)
    BY OnCourse DEF SaveConfirm, ConfirmResize, ConfirmMigration, ConfirmDrops
  <2>2. c.mig = Len(migs[i]) /\ State(i, "resized", "none")
    BY <2>1 DEF Stage
  <2> QED
    BY <2>1, <2>2, Served0 DEF OnRecord, QueuedOps, RunningOps
<1>1. ASSUME NEW s \in Statuses \ {"finished"}, SetStatus(i, c.mig, s)
      PROVE  /\ Len(migs'[i]) = Len(migs[i]) /\ NoneFinished(i)'
             /\ Last(i)'.status = s /\ Last(i)'.src = Last(i).src /\ Last(i)'.dst = Last(i).dst
             /\ \A j \in Instances \ {i} : migs'[j] = migs[j]
  BY <1>0, <1>1, LastWritten DEF Kept
<1>2. CASE SaveConfirm(c)
  <2>1. Away(i)
    BY <1>0, <1>2 DEF SaveConfirm, Stage
  <2>2. /\ SetStatus(i, c.mig, "confirming") /\ GoesOn(c, "confirm", Last(i).src)
        /\ row' = row /\ guests' = guests /\ backups' = backups
    BY <1>0, <1>2 DEF SaveConfirm, Last
  <2>3. /\ Len(migs'[i]) = Len(migs[i]) /\ NoneFinished(i)' /\ Last(i)'.status = "confirming"
        /\ Last(i)'.src = Last(i).src /\ Last(i)'.dst = Last(i).dst
        /\ \A j \in Instances \ {i} : migs'[j] = migs[j]
    BY <1>1, <2>2 DEF Statuses
  <2>4. Away(i)' /\ State(i, "resized", "none")'
    BY <1>0, <2>1, <2>2, <2>3 DEF Away, GuestAt, DiskAt, State
  <2>5. ASSUME NEW e, e.inst = i, e.op = "confirm", e.at = Last(i).src, e.mig = c.mig
        PROVE  Stage(e)'
    BY <1>0, <2>3, <2>4, <2>5 DEF Stage
  <2>6. Rest(i)'
    BY <2>3, <2>4, RestAfter DEF State
  <2>7. Course(i)'
    BY <1>0, <2>2, <2>3, <2>5, <2>6, CourseGoesOn
  <2>8. \A j \in Instances \ {i} : row'[j] = row[j] /\ migs'[j] = migs[j]
    BY <2>2, <2>3
  <2> QED
    BY <2>2, <2>7, <2>8, GoesOnCalls, OthersApart
<1>3. CASE ConfirmResize(c)
  <2>1. Away(i) /\ Last(i).status = "confirming" /\ c.at = Last(i).src
    BY <1>0, <1>3 DEF ConfirmResize, Stage
  <2>2. PICK d : d = Call("confirming", i, c.mig, row[i].old, c.at)
    OBVIOUS
  <2>3. /\ row' = [row EXCEPT ![i].old = NoFlavor, ![i].new = NoFlavor]
        /\ calls' = (calls \ {c}) \cup {d}
        /\ migs' = migs /\ guests' = guests /\ backups' = backups
    BY <1>0, <1>3, <2>1, <2>2 DEF ConfirmResize, Last
  <2>4. /\ row'[i].vm = row[i].vm /\ row'[i].task = row[i].task /\ row'[i].host = row[i].host
        /\ \A j \in Instances \ {i} : row'[j] = row[j]
    BY <2>3 DEF Sane, Tables, Rows
  <2>5. Away(i)' /\ State(i, "resized", "none")' /\ Last(i)' = Last(i) /\ NoneFinished(i)'
    <3>1. NoneFinished(i)
      BY <1>0, <2>1, NothingFinished
    <3> QED
      BY <1>0, <2>1, <2>3, <2>4, <3>1 DEF Away, GuestAt, DiskAt, State, Last, NoneFinished
  <2>6. Stage(d)'
    <3>1. d.op = "confirming" /\ d.inst = i /\ d.mig = c.mig /\ d.at = c.at
      BY <2>2 DEF Call
    <3> QED
      BY <1>0, <2>1, <2>3, <2>5, <3>1 DEF Stage
  <2>7. Rest(i)'
    BY <2>5, RestAfter DEF State
  <2>8. \A e \in calls' : e.inst = i => e = d
    BY <1>0, <2>3 DEF Alone
  <2>9. Course(i)'
    BY <2>6, <2>7, <2>8, CourseOfOne
  <2>10. \A j, e : j # i /\ e.inst = j => (e \in calls' <=> e \in calls)
    BY <2>2, <2>3 DEF Call
  <2> QED
    BY <2>3, <2>4, <2>9, <2>10, OthersApart
<1>4. CASE ConfirmMigration(c)
  <2>1. Away(i) /\ c.at = Last(i).src
    BY <1>0, <1>4 DEF ConfirmMigration, Stage
  <2>2. /\ SetStatus(i, c.mig, "confirmed") /\ GoesOn(c, "dropping", c.at)
        /\ row' = row /\ guests' = guests /\ backups' = backups \ {<<i, c.at>>}
    BY <1>4 DEF ConfirmMigration
  <2>3. /\ Len(migs'[i]) = Len(migs[i]) /\ NoneFinished(i)' /\ Last(i)'.status = "confirmed"
        /\ \A j \in Instances \ {i} : migs'[j] = migs[j]
    BY <1>1, <2>2 DEF Statuses
  <2>4. Home(i)' /\ State(i, "resized", "none")'
    BY <1>0, <2>1, <2>2 DEF Away, Home, GuestAt, DiskAt, State
  <2>5. ASSUME NEW e, e.inst = i, e.op = "dropping", e.at = c.at, e.mig = c.mig
        PROVE  Stage(e)'
    BY <1>0, <2>3, <2>4, <2>5 DEF Stage
  <2>6. Course(i)'
    BY <1>0, <2>2, <2>3, <2>4, <2>5, RestAfter, CourseGoesOn
  <2>7. \A j \in Instances \ {i} : row'[j] = row[j] /\ migs'[j] = migs[j]
    BY <2>2, <2>3
  <2> QED
    BY <2>2, <2>6, <2>7, GoesOnCalls, OthersApart
<1>5. CASE ConfirmDrops(c)
  <2>1. Home(i) /\ Last(i).status = "confirmed"
    BY <1>0, <1>5 DEF ConfirmDrops, Stage
  <2>2. /\ SaveExpecting(i, {"none", "deleting"}, With(i, "active", "none", row[i].host))
        /\ Served(c) /\ migs' = migs /\ guests' = guests /\ backups' = backups
    BY <1>5 DEF ConfirmDrops
  <2>3. row'[i].host = row[i].host /\ \A j \in Instances \ {i} : row'[j] = row[j]
    BY <1>0, <2>2, HostSane, StateExpected DEF State, VmStates, TaskStates
  <2>4. Home(i)' /\ NoneFinished(i)'
    <3>1. NoneFinished(i)
      BY <1>0, <2>1, NothingFinished
    <3> QED
      BY <2>1, <2>2, <2>3, <3>1 DEF Home, GuestAt, DiskAt, NoneFinished
  <2>5. Course(i)'
    BY <1>0, <2>2, <2>4, RestAfter, ServedCalls, CourseOfNone
  <2> QED
    BY <2>2, <2>3, <2>5, ServedCalls, OthersApart
<1> QED
  BY <1>2, <1>3, <1>4, <1>5

LEMMA RevertCourse ==
  ASSUME Sane, NEW c \in calls, NEW i \in Instances, i = c.inst, Course(i),
         SaveRevert(c) \/ RevertResize(c) \/ RevertDrops(c)
  PROVE  Course(i)' /\ \A j \in Instances \ {i} : Apart(j)
<1>0. /\ c.op \in {"ask_revert", "revert", "undoing"} /\ Stage(c) /\ Rest(i) /\ Alone(c)
      /\ c.mig = Len(migs[i]) /\ c.mig \in 1 .. Len(migs[i])
  <2>1. c.op \in {"ask_revert", "revert", "undoing"} /\ Stage(c) /\ Rest(i) /\ Alone(c)
    BY OnCourse DEF SaveRevert, RevertResize, RevertDrops
  <2>2. c.mig = Len(migs[i])
    BY <2>1 DEF Stage
  <2> QED
    BY <2>1, <2>2, Served0 DEF OnRecord, QueuedOps, RunningOps
<1>1. ASSUME NEW s \in Statuses \ {"finished"}, SetStatus(i, c.mig, s)
      PROVE  /\ Len(migs'[i]) = Len(migs[i]) /\ NoneFinished(i)'
             /\ Last(i)'.status = s /\ Last(i)'.src = Last(i).src /\ Last(i)'.dst = Last(i).dst
             /\ \A j \in Instances \ {i} : migs'[j] = migs[j]
  BY <1>0, <1>1, LastWritten DEF Kept
<1>2. CASE SaveRevert(c)
  <2>1. Away(i) /\ State(i, "resized", "none")
    BY <1>0, <1>2 DEF SaveRevert, Stage
  <2>2. /\ SetStatus(i, c.mig, "reverting") /\ GoesOn(c, "revert", Last(i).dst)
        /\ row' = Saved(i, "resized", "resize_reverting", row[i].host)
        /\ guests' = guests /\ backups' = backups
    BY <1>0, <1>2, <2>1 DEF SaveRevert, Last, State
  <2>3. /\ row'[i].vm = "resized" /\ row'[i].task = "resize_reverting"
        /\ row'[i].host = row[i].host /\ \A j \in Instances \ {i} : row'[j] = row[j]
    BY <2>2, StateSaved DEF VmStates, TaskStates
  <2>4. /\ Len(migs'[i]) = Len(migs[i]) /\ NoneFinished(i)' /\ Last(i)'.status = "reverting"
        /\ Last(i)'.src = Last(i).src /\ Last(i)'.dst = Last(i).dst
        /\ \A j \in Instances \ {i} : migs'[j] = migs[j]
    BY <1>1, <2>2 DEF Statuses
  <2>5. Away(i)' /\ State(i, "resized", "resize_reverting")'
    BY <2>1, <2>2, <2>3, <2>4 DEF Away, GuestAt, DiskAt, State
  <2>6. ASSUME NEW e, e.inst = i, e.op = "revert", e.at = Last(i).dst, e.mig = c.mig
        PROVE  Stage(e)'
    BY <1>0, <2>4, <2>5, <2>6 DEF Stage
  <2>7. Rest(i)'
    BY <2>4, <2>5, RestAfter DEF State
  <2>8. Course(i)'
    BY <1>0, <2>2, <2>4, <2>6, <2>7, CourseGoesOn
  <2> QED
    BY <2>2, <2>3, <2>4, <2>8, GoesOnCalls, OthersApart
<1>3. CASE RevertResize(c)
  <2>1. /\ Away(i) /\ State(i, "resized", "resize_reverting") /\ c.at = Last(i).dst
        /\ c.at = row[i].host
    BY <1>0, <1>3 DEF RevertResize, Stage, Away
  <2>2. /\ SetStatus(i, c.mig, "reverted") /\ GoesOn(c, "undoing", c.at) /\ row' = row
        /\ guests' = [guests EXCEPT ![c.at] = @ \ {i}] /\ backups' = backups
    BY <1>3 DEF RevertResize
  <2>3. /\ Len(migs'[i]) = Len(migs[i]) /\ NoneFinished(i)' /\ Last(i)'.status = "reverted"
        /\ Last(i)'.src = Last(i).src /\ \A j \in Instances \ {i} : migs'[j] = migs[j]
    BY <1>1, <2>2 DEF Statuses
  <2>4. Off(i)' /\ State(i, "resized", "resize_reverting")'
    <3>1. GuestAt(i, {})'
      BY <2>1, <2>2 DEF Away, GuestAt, Sane, Disks
    <3>2. DiskAt(i, {Last(i).src})'
      BY <2>1, <2>2, <2>3 DEF Away, DiskAt
    <3> QED
      BY <2>1, <2>2, <3>1, <3>2 DEF Off, State
  <2>5. ASSUME NEW e, e.inst = i, e.op = "undoing", e.at = c.at, e.mig = c.mig PROVE Stage(e)'
    BY <1>0, <2>3, <2>4, <2>5 DEF Stage
  <2>6. Rest(i)'
    BY <2>3, <2>4, RestAfter DEF State
  <2>7. Course(i)'
    BY <1>0, <2>2, <2>3, <2>5, <2>6, CourseGoesOn
  <2>8. \A j \in Instances \ {i} : row'[j] = row[j] /\ migs'[j] = migs[j]
    BY <2>2, <2>3
  <2> QED
    BY <2>2, <2>7, <2>8, GoesOnCalls, OthersApart
<1>4. CASE RevertDrops(c)
  <2>1. Off(i) /\ State(i, "resized", "resize_reverting") /\ Last(i).status = "reverted"
    BY <1>0, <1>4 DEF RevertDrops, Stage
  <2>2. /\ GoesOn(c, "finish_revert", Last(i).src) /\ row' = row /\ migs' = migs
        /\ guests' = guests /\ backups' = backups
    BY <1>0, <1>4 DEF RevertDrops, Last, tables
  <2>3. /\ Off(i)' /\ State(i, "resized", "resize_reverting")' /\ Last(i)' = Last(i)
        /\ NoneFinished(i)'
    <3>1. NoneFinished(i)
      BY <1>0, <2>1, NothingFinished
    <3> QED
      BY <2>1, <2>2, <3>1 DEF Off, GuestAt, DiskAt, State, Last, NoneFinished
  <2>4. ASSUME NEW e, e.inst = i, e.op = "finish_revert", e.at = Last(i).src, e.mig = c.mig
        PROVE  Stage(e)'
    BY <1>0, <2>1, <2>2, <2>3, <2>4 DEF Stage
  <2>5. Rest(i)'
    BY <2>3, RestAfter DEF State
  <2>6. Course(i)'
    BY <1>0, <2>2, <2>4, <2>5, CourseGoesOn
  <2> QED
    BY <2>2, <2>6, GoesOnCalls, OthersApart
<1> QED
  BY <1>2, <1>3, <1>4

\* finish_revert_resize writes its source into the record as destination.
LEMMA SourceWritten ==
  ASSUME Sane, NEW i \in Instances, NEW k \in 1 .. Len(migs[i]), k = Len(migs[i]),
         NoneFinished(i),
         migs' = [migs EXCEPT ![i][k].dst = migs[i][k].src, ![i][k].saved = TRUE]
  PROVE  /\ Len(migs'[i]) = Len(migs[i]) /\ NoneFinished(i)'
         /\ Last(i)'.status = Last(i).status /\ Last(i)'.src = Last(i).src
         /\ \A j \in Instances \ {i} : migs'[j] = migs[j]
<1> DEFINE m == [migs[i][k] EXCEPT !.dst = migs[i][k].src, !.saved = TRUE]
           q == [migs[i] EXCEPT ![k] = m]
<1>1. migs[i] \in Seq(Records) /\ migs[i][k] \in Records
  BY DEF Sane, Tables
<1>2. m.status = migs[i][k].status /\ m.src = migs[i][k].src
  BY <1>1 DEF Records
<1>3. migs' = [migs EXCEPT ![i] = q]
  BY <1>1 DEF Sane, Tables, Records
<1> HIDE DEF m
<1>4. Len(q) = Len(migs[i]) /\ q[k] = m /\ \A l \in 1 .. Len(migs[i]) : l # k => q[l] = migs[i][l]
  BY <1>1
<1> HIDE DEF q
<1>5. migs'[i] = q /\ \A j \in Instances \ {i} : migs'[j] = migs[j]
  BY <1>3 DEF Sane, Tables
<1>6. \A l \in 1 .. Len(migs[i]) : q[l].status # "finished"
  BY <1>2, <1>4 DEF NoneFinished
<1> QED
  BY <1>2, <1>4, <1>5, <1>6 DEF Last, NoneFinished

LEMMA RestoreCourse ==
  ASSUME Sane, NEW c \in calls, NEW i \in Instances, i = c.inst, Course(i),
         FinishRevert(c) \/ RestoreGuest(c)
  PROVE  Course(i)' /\ \A j \in Instances \ {i} : Apart(j)
<1>0. /\ c.op \in {"finish_revert", "restoring"} /\ Stage(c) /\ Rest(i) /\ Alone(c)
      /\ c.mig = Len(migs[i]) /\ c.mig \in 1 .. Len(migs[i]) /\ c.at \in Nodes
      /\ Off(i) /\ State(i, "resized", "resize_reverting") /\ Last(i).status = "reverted"
      /\ c.at = Last(i).src /\ NoneFinished(i)
  <2>1. c.op \in {"finish_revert", "restoring"} /\ Stage(c) /\ Rest(i) /\ Alone(c)
    BY OnCourse DEF FinishRevert, RestoreGuest
  <2>2. /\ Off(i) /\ State(i, "resized", "resize_reverting") /\ Last(i).status = "reverted"
        /\ c.at = Last(i).src /\ c.mig = Len(migs[i])
    BY <2>1 DEF Stage
  <2>3. NoneFinished(i)
    BY <2>1, <2>2, NothingFinished
  <2> QED
    BY <2>1, <2>2, <2>3, Served0 DEF OnRecord, QueuedOps, RunningOps
<1>1. CASE FinishRevert(c)
  <2>1. GoesOn(c, "restoring", c.at) /\ guests' = guests /\ backups' = backups
    BY <1>1 DEF FinishRevert
  <2>0. /\ migs' = [migs EXCEPT ![i][c.mig].dst = migs[i][c.mig].src, ![i][c.mig].saved = TRUE]
        /\ row' = [row EXCEPT ![i].flavor = migs[i][c.mig].old, ![i].old = NoFlavor,
                              ![i].new = NoFlavor, ![i].host = migs[i][c.mig].src]
    BY <1>1 DEF FinishRevert
  <2>2. /\ Len(migs'[i]) = Len(migs[i]) /\ NoneFinished(i)'
        /\ Last(i)'.status = "reverted" /\ Last(i)'.src = Last(i).src
        /\ \A j \in Instances \ {i} : migs'[j] = migs[j]
    BY <1>0, <2>0, SourceWritten
  <2>3. /\ row'[i].vm = row[i].vm /\ row'[i].task = row[i].task /\ row'[i].host = Last(i).src
        /\ \A j \in Instances \ {i} : row'[j] = row[j]
    <3>1. PICK old, src : /\ src = Last(i).src
                          /\ row' = [row EXCEPT ![i].flavor = old, ![i].old = NoFlavor,
                                                ![i].new = NoFlavor, ![i].host = src]
      BY <1>0, <2>0 DEF Last
    <3>2. row[i] \in Rows /\ row \in [Instances -> Rows]
      BY DEF Sane, Tables
    <3> QED
      BY <3>1, <3>2 DEF Rows
  <2>4. Off(i)' /\ State(i, "resized", "resize_reverting")'
    BY <1>0, <2>1, <2>2, <2>3 DEF Off, GuestAt, DiskAt, State
  <2>5. ASSUME NEW e, e.inst = i, e.op = "restoring", e.at = c.at, e.mig = c.mig
        PROVE  Stage(e)'
    BY <1>0, <2>2, <2>3, <2>4, <2>5 DEF Stage
  <2>6. Rest(i)'
    BY <2>2, <2>4, RestAfter DEF State
  <2>7. Course(i)'
    BY <1>0, <2>1, <2>2, <2>5, <2>6, CourseGoesOn
  <2> QED
    BY <2>1, <2>2, <2>3, <2>7, GoesOnCalls, OthersApart
<1>2. CASE RestoreGuest(c)
  <2>1. /\ guests' = [guests EXCEPT ![c.at] = @ \cup {i}] /\ backups' = backups \ {<<i, c.at>>}
        /\ Served(c) /\ migs' = migs
        /\ row' = Saved(i, "active", "none", row[i].host)
    BY <1>0, <1>2 DEF RestoreGuest, State
  <2>2. row[i].host = c.at
    BY <1>0, <1>2 DEF RestoreGuest, Stage
  <2>3. row'[i].host = row[i].host /\ \A j \in Instances \ {i} : row'[j] = row[j]
    BY <2>1, StateSaved DEF VmStates, TaskStates
  <2>4. Home(i)'
    <3>1. GuestAt(i, {row[i].host})'
      BY <1>0, <2>1, <2>2, <2>3 DEF Off, GuestAt, Sane, Disks
    <3>2. DiskAt(i, {})'
      BY <1>0, <2>1 DEF Off, DiskAt
    <3> QED
      BY <3>1, <3>2 DEF Home
  <2>5. NoneFinished(i)'
    BY <1>0, <2>1 DEF NoneFinished
  <2>6. Course(i)'
    BY <1>0, <2>1, <2>4, <2>5, RestAfter, ServedCalls, CourseOfNone
  <2> QED
    BY <2>1, <2>3, <2>6, ServedCalls, OthersApart
<1> QED
  BY <1>1, <1>2

LEMMA DriverCourse ==
  ASSUME Sane, NEW c \in calls, NEW i \in Instances, i = c.inst, Course(i), DriverFails(c)
  PROVE  Course(i)' /\ \A j \in Instances \ {i} : Apart(j)
<1>1. /\ c.op \in {"confirming", "revert", "restoring"} /\ Stage(c) /\ Rest(i) /\ Alone(c)
  BY OnCourse DEF DriverFails
<1>2. NoneFinished(i)
  <2>1. Last(i).status # "finished"
    BY <1>1 DEF Stage
  <2> QED
    BY <1>1, <2>1, NothingFinished
<1>3. /\ Served(c) /\ migs' = migs /\ guests' = guests /\ backups' = backups
      /\ \E task \in TaskStates : row' = Saved(i, "error", task, row[i].host)
  BY HostSane DEF DriverFails, TaskStates
<1>4. row'[i].vm = "error" /\ \A j \in Instances \ {i} : row'[j] = row[j]
  BY <1>3, StateSaved DEF VmStates
<1>5. Rest(i)'
  BY <1>1, <1>2, <1>3, <1>4 DEF Rest, NoneFinished, State
<1>6. Course(i)'
  BY <1>1, <1>3, <1>5, ServedCalls, CourseOfNone
<1> QED
  BY <1>3, <1>4, <1>6, ServedCalls, OthersApart

\* The poll finds the instance ready to be confirmed, or its resize not saved.
LEMMA PolledCourse ==
  ASSUME Sane, NEW c \in calls, NEW i \in Instances, i = c.inst, Course(i), PollServes(c)
  PROVE  Course(i)' /\ \A j \in Instances \ {i} : Apart(j)
<1>1. /\ c.op = "polled" /\ Stage(c) /\ Rest(i)
  BY OnCourse DEF PollServes
<1>2. Ready(i) /\ Away(i) /\ Last(i).status = "finished" /\ c.mig = Len(migs[i])
  BY <1>1 DEF Stage
<1>3. /\ row' = row /\ migs' = migs /\ guests' = guests /\ backups' = backups
      /\ State(i, "resized", "none") => GoesOn(c, "ask_confirm", NoNode)
      /\ ~State(i, "resized", "none") => Served(c)
  BY <1>2 DEF PollServes, Ready, State
<1>4. /\ Away(i)' /\ Last(i)' = Last(i)
      /\ \A vm, task : State(i, vm, task)' <=> State(i, vm, task)
  BY <1>2, <1>3 DEF Away, GuestAt, DiskAt, State, Last
<1>5. \A l \in 1 .. Len(migs'[i]) : migs'[i][l].status = "finished" => l = Len(migs'[i])
  BY <1>1, <1>3 DEF Rest
<1>6. CASE State(i, "resized", "none")
  <2>1. Alone(c)
    <3>1. \A d \in calls : d.inst = i /\ d # c => d.op = "settle" /\ Stage(d)
      BY <1>1 DEF Course, Serial
    <3>2. \A d \in calls : d.inst = i /\ d # c => State(i, "active", "resize_finish")
      BY <3>1 DEF Stage
    <3> QED
      BY <1>6, <3>2 DEF State, Alone
  <2>2. Rest(i)'
    BY <1>4, <1>5, <1>6, RestAfter DEF Ready
  <2>3. ASSUME NEW e, e.inst = i, e.op = "ask_confirm", e.mig = c.mig PROVE Stage(e)'
    BY <1>2, <1>3, <1>4, <1>6, <2>3 DEF Stage
  <2>4. Course(i)'
    BY <1>2, <1>3, <1>6, <2>1, <2>2, <2>3, CourseGoesOn
  <2> QED
    BY <1>3, <1>6, <2>4, GoesOnCalls, OthersApart
<1>7. CASE ~State(i, "resized", "none")
  <2>1. /\ Served(c) /\ State(i, "active", "resize_finish") /\ Settling(i)
    BY <1>2, <1>3, <1>7 DEF Ready
  <2>2. Settling(i)'
    BY <1>1, <2>1 DEF Settling, Served
  <2>3. Rest(i)'
    BY <1>4, <1>5, <2>1, <2>2, RestAfter DEF Ready
  <2>4. \A d \in calls' : d.inst = i => d.op = "settle" /\ Stage(d)
    BY <1>1, <2>1 DEF Served, Course, Serial
  <2>5. \A d \in calls' : d.inst = i => Stage(d)'
    BY <1>3, <1>4, <2>4 DEF Stage
  <2>6. Serial(i)'
    BY <2>1 DEF Served, Course, Serial
  <2>7. Course(i)'
    BY <2>3, <2>5, <2>6 DEF Course
  <2> QED
    BY <1>3, <2>1, <2>7, ServedCalls, OthersApart
<1> QED
  BY <1>6, <1>7

\* A request begins when no other is under way.
LEMMA RequestCourse ==
  ASSUME Sane, NEW i \in Instances, Course(i), NEW f \in Flavors, ResizeRequest(i, f)
  PROVE  Course(i)' /\ \A j \in Instances \ {i} : Apart(j)
<1>1. State(i, "active", "none") /\ Rest(i) /\ Home(i)
  BY DEF ResizeRequest, State, Course, Rest
<1>2. \A d \in calls : d.inst # i
  <2> SUFFICES ASSUME NEW d \in calls, d.inst = i PROVE FALSE
    OBVIOUS
  <2>1. Stage(d) /\ d.op \in ApiOps \cup QueuedOps \cup RunningOps
    BY DEF Course, Sane, Sound, CallType
  <2> QED
    BY <1>1, <2>1 DEF Stage, State, Ready, ApiOps, QueuedOps, RunningOps
<1>3. PICK d : d = Call("schedule", i, 0, f, NoNode)
  OBVIOUS
<1>4. /\ row' = Saved(i, "active", "resize_prep", row[i].host) /\ calls' = calls \cup {d}
      /\ migs' = migs /\ guests' = guests /\ backups' = backups
  BY <1>3 DEF ResizeRequest, Send
<1>5. /\ row'[i].vm = "active" /\ row'[i].task = "resize_prep"
      /\ row'[i].host = row[i].host /\ \A j \in Instances \ {i} : row'[j] = row[j]
  BY <1>4, StateSaved DEF VmStates, TaskStates
<1>6. Home(i)' /\ State(i, "active", "resize_prep")' /\ NoneFinished(i)'
  <2>1. NoneFinished(i)
    BY <1>1, NothingFinished DEF Ready, State
  <2> QED
    BY <1>1, <1>4, <1>5, <2>1 DEF Home, GuestAt, DiskAt, State, NoneFinished
<1>7. Stage(d)'
  <2>1. d.op = "schedule" /\ d.inst = i
    BY <1>3 DEF Call
  <2> QED
    BY <1>6, <2>1 DEF Stage
<1>8. Course(i)'
  BY <1>2, <1>4, <1>6, <1>7, RestAfter, CourseOfOne
<1>9. \A j, e : j # i /\ e.inst = j => (e \in calls' <=> e \in calls)
  BY <1>3, <1>4 DEF Call
<1> QED
  BY <1>4, <1>5, <1>8, <1>9, OthersApart

\* The instance is ready to be confirmed and nothing but its last save is left.
LEMMA AnswerCourse ==
  ASSUME OneAnswer, Sane, NEW i \in Instances, Course(i), NEW k \in 1 .. Len(migs[i]),
         AskConfirm(i, k) \/ AskRevert(i, k) \/ PollReads(i, k)
  PROVE  Course(i)' /\ \A j \in Instances \ {i} : Apart(j)
<1>1. migs[i][k].status = "finished" /\ ~Answering(i) /\ Rest(i)
  BY DEF AskConfirm, AskRevert, PollReads, Finished, Course
<1>2. k = Len(migs[i]) /\ Ready(i) /\ Away(i) /\ Last(i).status = "finished"
  BY <1>1 DEF Rest, Last
<1>3. \A d \in calls : d.inst = i =>
         d.op = "settle" /\ Stage(d) /\ State(i, "active", "resize_finish")
  <2> SUFFICES ASSUME NEW d \in calls, d.inst = i
               PROVE  d.op = "settle" /\ Stage(d) /\ State(i, "active", "resize_finish")
    OBVIOUS
  <2>1. Stage(d) /\ d.op \in ApiOps \cup QueuedOps \cup RunningOps
    BY DEF Course, Sane, Sound, CallType
  <2>2. d.op \notin {"ask_confirm", "confirm", "confirming", "dropping", "ask_revert", "revert",
                     "undoing", "finish_revert", "restoring", "polled"}
    BY <1>1 DEF Answering
  <2>3. d.op # "start"
    BY <1>2, <2>1 DEF Stage
  <2> QED
    BY <1>2, <2>1, <2>2, <2>3 DEF Stage, State, Ready, ApiOps, QueuedOps, RunningOps
<1>4. PICK d :
        /\ calls' = calls \cup {d} /\ d.op \in {"ask_confirm", "ask_revert", "polled"}
        /\ d.inst = i /\ d.mig = k
        /\ d.op # "polled" => State(i, "resized", "none")
        /\ row' = row /\ migs' = migs /\ guests' = guests /\ backups' = backups
  <2>1. CASE AskConfirm(i, k) \/ AskRevert(i, k)
    <3>1. PICK op \in {"ask_confirm", "ask_revert"} :
             calls' = calls \cup {Call(op, i, k, NoFlavor, NoNode)}
      BY <2>1 DEF AskConfirm, AskRevert, Send
    <3>2. PICK d : d = Call(op, i, k, NoFlavor, NoNode)
      OBVIOUS
    <3>3. d.op = op /\ d.inst = i /\ d.mig = k
      BY <3>2 DEF Call
    <3>4. State(i, "resized", "none") /\ UNCHANGED <<row, migs, guests, backups>>
      BY <2>1 DEF AskConfirm, AskRevert, Finished, State, vars
    <3> QED
      BY <3>1, <3>2, <3>3, <3>4
  <2>2. CASE PollReads(i, k)
    <3>1. PICK d : d = Call("polled", i, k, NoFlavor, migs[i][k].dst)
      OBVIOUS
    <3>2. d.op = "polled" /\ d.inst = i /\ d.mig = k
      BY <3>1 DEF Call
    <3>3. calls' = calls \cup {d} /\ UNCHANGED <<row, migs, guests, backups>>
      BY <2>2, <3>1 DEF PollReads, Send, vars
    <3> QED
      BY <3>2, <3>3
  <2> QED
    BY <2>1, <2>2
<1>5. /\ Away(i)' /\ Last(i)' = Last(i)
      /\ \A vm, task : State(i, vm, task)' <=> State(i, vm, task)
  BY <1>2, <1>4 DEF Away, GuestAt, DiskAt, State, Last
<1>6. Ready(i)'
  <2>1. Settling(i) => Settling(i)'
    BY <1>4 DEF Settling
  <2> QED
    BY <1>2, <1>5, <2>1 DEF Ready
<1>7. Rest(i)'
  <2>1. \A l \in 1 .. Len(migs'[i]) : migs'[i][l].status = "finished" => l = Len(migs'[i])
    BY <1>1, <1>4 DEF Rest
  <2> QED
    BY <1>5, <1>6, <2>1, RestAfter
<1>8. Stage(d)'
  BY <1>2, <1>4, <1>5, <1>6 DEF Stage
<1>9. \A e \in calls : e.inst = i => Stage(e)'
  BY <1>3, <1>4, <1>5 DEF Stage
<1>10. Serial(i)'
  <2>1. d.op # "polled" => \A e \in calls : e.inst # i
    BY <1>3, <1>4 DEF State
  <2>2. \A e \in calls : e.inst = i => e.op = "settle"
    BY <1>3
  <2>3. \A e, g \in calls : e.inst = i /\ g.inst = i => e = g
    BY <2>2 DEF Course, Serial
  <2> QED
    BY <1>4, <2>1, <2>2, <2>3 DEF Serial
<1>11. Course(i)'
  BY <1>4, <1>7, <1>8, <1>9, <1>10 DEF Course
<1>12. \A j, e : j # i /\ e.inst = j => (e \in calls' <=> e \in calls)
  BY <1>4
<1> QED
  BY <1>4, <1>11, <1>12, OthersApart

LEMMA StepCourse ==
  ASSUME OneAnswer, Sane, \A i \in Instances : Course(i), [MovesStep]_moveVars
  PROVE  \A i \in Instances : Course(i)'
<1>1. ASSUME NEW i \in Instances, Course(i)' /\ \A j \in Instances \ {i} : Apart(j)
      PROVE  \A j \in Instances : Course(j)'
  BY <1>1, ApartKept
<1>2. ASSUME \A j \in Instances : Apart(j) PROVE \A j \in Instances : Course(j)'
  BY <1>2, ApartKept
<1>3. ASSUME NEW c \in calls, Serve(c) PROVE \A j \in Instances : Course(j)'
  <2>1. c.inst \in Instances
    BY Served0
  <2>2. Course(c.inst)' /\ \A j \in Instances \ {c.inst} : Apart(j)
    BY <1>3, <2>1, NoHostCourse, PrepCourse, RefusedCourse, ResizeCourse, FinishCourse,
       SettleCourse, ConfirmCourse, RevertCourse, RestoreCourse, DriverCourse, PolledCourse
       DEF Serve
  <2> QED
    BY <1>1, <2>1, <2>2
<1>4. ASSUME NEW i \in Instances, Ask(i) PROVE \A j \in Instances : Course(j)'
  <2>1. DOMAIN migs[i] = 1 .. Len(migs[i])
    BY DEF Sane, Tables
  <2>2. Course(i)' /\ \A j \in Instances \ {i} : Apart(j)
    BY <1>4, <2>1, RequestCourse, AnswerCourse DEF Ask
  <2> QED
    BY <1>1, <2>2
<1>5. ASSUME NEW n \in Nodes, AuditInMove(n) PROVE \A j \in Instances : Course(j)'
  <2>1. row' = row /\ migs' = migs /\ guests' = guests /\ calls' = calls /\ backups' = backups
    BY <1>5 DEF AuditInMove, Audit, AuditInstances, AuditMigrations, tables
  <2> QED
    BY <1>2, <2>1 DEF Apart
<1>6. CASE UNCHANGED moveVars
  BY <1>2, <1>6 DEF moveVars, vars, Apart
<1> QED
  BY <1>3, <1>4, <1>5, <1>6 DEF MovesStep

LEMMA InitCourse == MovesInit => \A i \in Instances : Course(i)
<1> SUFFICES ASSUME MovesInit, NEW i \in Instances PROVE Course(i)
  OBVIOUS
<1>1. PICK home \in [Instances -> Nodes], size \in [Instances -> Flavors] :
        /\ row = [j \in Instances |->
                   [vm |-> "active", task |-> "none", host |-> home[j],
                    flavor |-> size[j], old |-> NoFlavor, new |-> NoFlavor]]
        /\ guests = [n \in Nodes |-> {j \in Instances : home[j] = n}]
  BY DEF MovesInit
<1>2. Home(i) /\ migs[i] = <<>> /\ calls = {}
  BY <1>1 DEF MovesInit, Home, GuestAt, DiskAt
<1>3. Len(migs[i]) = 0
  BY <1>2
<1>4. Rest(i)
  BY <1>2, <1>3 DEF Rest, Home, GuestAt
<1> QED
  BY <1>2, <1>4 DEF Course, Serial

OnCourses == \A i \in Instances : Course(i)

LEMMA AlwaysOnCourse ==
  ASSUME OneAnswer
  PROVE  MovesFairSpec => [](Sane /\ OnCourses)
<1>1. MovesInit => Sane /\ OnCourses
  BY InitSane, InitCourse DEF OnCourses
<1>2. [MovesStep]_moveVars => [MovesNext]_moveVars
  BY DEF MovesNext
<1>3. Sane /\ OnCourses /\ [MovesStep]_moveVars => Sane' /\ OnCourses'
  BY <1>2, NextSane, StepCourse DEF OnCourses
<1> QED
  BY <1>1, <1>3, PTL DEF MovesFairSpec

\* While services run and one request answers a move, no interleaving of the
\* handlers, the poll and the audits starts a guest on the source while there is
\* one on the destination, or the other way round.
THEOREM MovedGuestOnOneNode ==
  ASSUME OneAnswer
  PROVE  MovesFairSpec => []OneGuest
<1>1. Sane /\ OnCourses => OneGuest
  BY DEF Sane, Disks, OnCourses, Course, Rest, OneGuest
<1> QED
  BY <1>1, AlwaysOnCourse, PTL

-----------------------------------------------------------------------------
(* The claim of a move, counted again by the audits. *)

Over == {"confirmed", "reverted", "error"}

Scheduling(i) == \E c \in calls : c.inst = i /\ c.op = "schedule"

\* Every record but the last of an instance that is not in ERROR is over, and
\* the last one too before a move: an audit has one record to count.
History(i) ==
    /\ row[i].vm \in {"active", "resized", "error"}
    /\ row[i].vm # "error" =>
          \A k \in 1 .. Len(migs[i]) : k < Len(migs[i]) => migs[i][k].status \in Over
    /\ State(i, "active", "none") \/ Scheduling(i) =>
          Len(migs[i]) = 0 \/ Last(i).status \in Over

\* Until the flavor of the instance changes, its row and its record say what is
\* to be counted on the destination.
Agrees(r, m, f) ==
    /\ m.old = r.flavor /\ r.new = f /\ f \in Flavors
    /\ m.kind = IF f = r.flavor THEN "migration" ELSE "resize"
    /\ m.src = m.dst => m.kind = "resize"

Claimed(c) == c.op \in {"resize", "disk"} => Agrees(row[c.inst], Last(c.inst), c.flavor)

LEMMA UsageOfClaim ==
  ASSUME NEW n, NEW i, NEW r, NEW m, NEW f, Agrees(r, m, f), m.dst = n
  PROVE  MoveUsage(n, i, r, m) = f \/ (m.src # n /\ i \in tracked[n])
BY DEF Agrees, MoveUsage, FlavorOf

LEMMA OlderKept ==
  ASSUME Sane, NEW i \in Instances, NEW k \in 1 .. Len(migs[i]), k = Len(migs[i]),
         NEW s \in Statuses, SetStatus(i, k, s)
  PROVE  /\ Len(migs'[i]) = Len(migs[i]) /\ Last(i)'.status = s
         /\ \A l \in 1 .. Len(migs[i]) : l < Len(migs[i]) => migs'[i][l].status = migs[i][l].status
<1>1. /\ Len(migs'[i]) = Len(migs[i])
      /\ \A l \in 1 .. Len(migs[i]) : l # k => migs'[i][l] = migs[i][l]
      /\ migs'[i][k].status = s
  BY StatusSet
<1>2. Len(migs[i]) \in Nat
  BY DEF Sane, Tables
<1> QED
  BY <1>1, <1>2 DEF Last

\* What a handler past the scheduler does to the row and the records.
LEMMA ServeRows ==
  ASSUME Sane, NEW c \in calls, NEW i \in Instances, i = c.inst, Course(i), Serve(c),
         c.op # "schedule"
  PROVE  /\ row'[i].vm \in {"active", "resized", "error"}
         /\ Len(migs'[i]) = Len(migs[i])
         /\ \A l \in 1 .. Len(migs[i]) :
               l < Len(migs[i]) => migs'[i][l].status = migs[i][l].status
         /\ row'[i].vm = "active" /\ row'[i].task = "none" => Last(i)'.status \in Over
         /\ row[i].vm \in {"active", "resized"}
<1> DEFINE Vm(vm) == row'[i].vm = vm
           Older == /\ Len(migs'[i]) = Len(migs[i])
                    /\ \A l \in 1 .. Len(migs[i]) :
                          l < Len(migs[i]) => migs'[i][l].status = migs[i][l].status
           Ends == row'[i].vm = "active" /\ row'[i].task = "none" => Last(i)'.status \in Over
<1>0. /\ Stage(c) /\ c.mig = Len(migs[i]) /\ c.mig \in 1 .. Len(migs[i])
      /\ row[i].vm \in {"active", "resized"} /\ row \in [Instances -> Rows] /\ row[i] \in Rows
      /\ ~State(i, "active", "none")
  <2>1. Stage(c) /\ c.op \in (ApiOps \cup QueuedOps \cup RunningOps) \ {"schedule"}
    BY OnCourse, Served0 DEF CallType
  <2>2. c.mig = Len(migs[i]) /\ c.op \in OnRecord
    BY <2>1 DEF Stage, OnRecord, ApiOps
  <2>3. row[i].vm \in {"active", "resized"} /\ ~State(i, "active", "none")
    BY <2>1 DEF Stage, State, Ready, ApiOps, QueuedOps, RunningOps
  <2> QED
    BY <2>1, <2>2, <2>3, Served0 DEF Sane, Tables
<1>1. \A s \in Statuses : SetStatus(i, c.mig, s) => Older /\ Last(i)'.status = s
  BY <1>0, OlderKept
<1>2. migs' = migs => Older /\ Last(i)'.status = Last(i).status
  BY DEF Last
<1>3. row' = row => Vm(row[i].vm) /\ ~(row'[i].vm = "active" /\ row'[i].task = "none")
  BY <1>0 DEF State
<1>4. CASE ResizeInstance(c)
  <2>1. row[i].task = "resize_prep" /\ Older
    BY <1>0, <1>1, <1>4 DEF ResizeInstance, Stage, State, Statuses
  <2>2. row'[i].vm = row[i].vm /\ row'[i].task = "resize_migrating"
    BY <1>4, <2>1, HostSane, StateExpected DEF ResizeInstance, TaskStates
  <2> QED
    BY <1>0, <2>1, <2>2
<1>5. CASE ResizeMigrated(c)
  <2>1. row[i].task = "resize_migrating" /\ Older
    BY <1>0, <1>1, <1>5 DEF ResizeMigrated, Stage, State, Statuses
  <2>2. migs[i][c.mig].dst \in Nodes
    <3>1. migs[i][c.mig] \in Records
      BY <1>0 DEF Sane, Tables
    <3> QED
      BY <3>1 DEF Records
  <2>3. row'[i].vm = row[i].vm /\ row'[i].task = "resize_migrated"
    BY <1>5, <2>1, <2>2, HostSane, StateExpected DEF ResizeMigrated, TaskStates
  <2> QED
    BY <1>0, <2>1, <2>3
<1>6. CASE \E rollback \in BOOLEAN : ResizeFails(c, rollback)
  <2>1. Older /\ Last(i)'.status = "error"
    BY <1>1, <1>6 DEF ResizeFails, Statuses
  <2>2. \E vm \in {"active", "error"} : row' = Saved(i, vm, "none", row[i].host)
    BY <1>6 DEF ResizeFails
  <2>3. row'[i].vm \in {"active", "error"}
    BY <2>2, StateSaved DEF VmStates, TaskStates
  <2> QED
    BY <1>0, <2>1, <2>3 DEF Over
<1>7. CASE FinishResize(c)
  <2>1. State(i, "active", "resize_migrated")
    BY <1>0, <1>7 DEF FinishResize, Stage
  <2>2. /\ migs' = migs
        /\ row' = [row EXCEPT ![i] = [row[i] EXCEPT !.old = row[i].flavor, !.flavor = c.flavor,
                                                     !.task = "resize_finish"]]
    BY <1>7, <2>1 DEF FinishResize, SaveExpecting, State
  <2>3. row'[i].vm = row[i].vm /\ row'[i].task = "resize_finish"
    BY <1>0, <2>2 DEF Rows
  <2> QED
    BY <1>0, <1>2, <2>2, <2>3
<1>8. CASE FinishMigration(c)
  BY <1>0, <1>1, <1>3, <1>8 DEF FinishMigration, Statuses
<1>9. CASE FinishFails(c)
  <2>1. row'[i].vm = "error"
    BY <1>0, <1>9 DEF FinishFails, Rows
  <2> QED
    BY <1>0, <1>1, <1>9, <2>1 DEF FinishFails, Statuses
<1>10. CASE FinishSettles(c)
  <2>1. row[i].task = "resize_finish"
    BY <1>0, <1>10 DEF FinishSettles, Stage, State
  <2>2. row'[i].vm = "resized"
    BY <1>10, <2>1, HostSane, StateExpected DEF FinishSettles, VmStates, TaskStates
  <2> QED
    BY <1>0, <1>2, <1>10, <2>2 DEF FinishSettles
<1>11. CASE SaveConfirm(c) \/ ConfirmMigration(c) \/ RevertResize(c)
  BY <1>0, <1>1, <1>3, <1>11 DEF SaveConfirm, ConfirmMigration, RevertResize, Statuses
<1>12. CASE ConfirmResize(c)
  <2>1. row'[i].vm = row[i].vm /\ row'[i].task = row[i].task
    BY <1>0, <1>12 DEF ConfirmResize, Rows
  <2> QED
    BY <1>0, <1>2, <1>12, <2>1 DEF ConfirmResize, State
<1>13. CASE ConfirmDrops(c)
  <2>1. row[i].task = "none" /\ Last(i).status = "confirmed"
    BY <1>0, <1>13 DEF ConfirmDrops, Stage, State
  <2>2. row'[i].vm = "active"
    BY <1>13, <2>1, HostSane, StateExpected DEF ConfirmDrops, VmStates, TaskStates
  <2> QED
    BY <1>0, <1>2, <1>13, <2>1, <2>2 DEF ConfirmDrops, Over
<1>14. CASE SaveRevert(c)
  <2>1. row[i].task = "none"
    BY <1>0, <1>14 DEF SaveRevert, Stage, State
  <2>2. Older /\ row' = Saved(i, row[i].vm, "resize_reverting", row[i].host)
    BY <1>1, <1>14, <2>1 DEF SaveRevert, Statuses
  <2>3. row'[i].vm = row[i].vm /\ row'[i].task = "resize_reverting"
    BY <2>2, HostSane, StateSaved DEF TaskStates
  <2> QED
    BY <1>0, <2>2, <2>3
<1>15. CASE RevertDrops(c)
  BY <1>0, <1>2, <1>3, <1>15 DEF RevertDrops, tables
<1>16. CASE FinishRevert(c)
  <2>1. Last(i).status = "reverted" /\ NoneFinished(i)
    <3>1. Last(i).status = "reverted"
      BY <1>0, <1>16 DEF FinishRevert, Stage
    <3> QED
      BY <3>1, OnCourse, NothingFinished
  <2>2. Older
    <3>1. migs' = [migs EXCEPT ![i][c.mig].dst = migs[i][c.mig].src, ![i][c.mig].saved = TRUE]
      BY <1>16 DEF FinishRevert
    <3>2. migs[i] \in Seq(Records) /\ migs \in [Instances -> Seq(Records)]
      BY DEF Sane, Tables
    <3>3. \A l \in 1 .. Len(migs[i]) : l < Len(migs[i]) => l # c.mig
      BY <1>0, <3>2
    <3> QED
      BY <1>0, <3>1, <3>2, <3>3
  <2>3. row'[i].vm = row[i].vm /\ row'[i].task = row[i].task
    <3>1. PICK old, src : row' = [row EXCEPT ![i].flavor = old, ![i].old = NoFlavor,
                                             ![i].new = NoFlavor, ![i].host = src]
      BY <1>16 DEF FinishRevert
    <3> QED
      BY <1>0, <3>1 DEF Rows
  <2> QED
    BY <1>0, <2>2, <2>3 DEF State
<1>17. CASE RestoreGuest(c)
  <2>1. State(i, "resized", "resize_reverting") /\ Last(i).status = "reverted"
    BY <1>0, <1>17 DEF RestoreGuest, Stage
  <2>2. row'[i].vm = "active"
    BY <1>17, <2>1, StateSaved DEF RestoreGuest, State, VmStates, TaskStates
  <2> QED
    BY <1>0, <1>2, <1>17, <2>1, <2>2 DEF RestoreGuest, Over
<1>18. CASE DriverFails(c)
  <2>1. \E task \in TaskStates : row' = Saved(i, "error", task, row[i].host)
    BY <1>18, HostSane DEF DriverFails, TaskStates
  <2>2. row'[i].vm = "error"
    BY <2>1, StateSaved DEF VmStates
  <2> QED
    BY <1>0, <1>2, <1>18, <2>2 DEF DriverFails
<1>19. CASE PollServes(c)
  BY <1>0, <1>1, <1>2, <1>3, <1>19 DEF PollServes, Statuses
<1> QED
  BY <1>4, <1>5, <1>6, <1>7, <1>8, <1>9, <1>10, <1>11, <1>12, <1>13, <1>14, <1>15, <1>16, <1>17,
     <1>18, <1>19 DEF Serve, NoHostForMove, PrepResize, PrepRefused

\* Which calls about i there are after a handler past the scheduler.
LEMMA ServeCalls ==
  ASSUME Sane, NEW c \in calls, NEW i \in Instances, i = c.inst, Course(i), Serve(c),
         c.op # "schedule"
  PROVE  \A d \in calls' : d.inst = i =>
            /\ d.op # "schedule" /\ d.op # "resize"
            /\ d.op = "disk" => ResizeInstance(c)
<1> DEFINE Later(d) == d.op \notin {"schedule", "resize", "disk"}
<1>1. \A d \in calls : d.inst = i /\ d # c => Later(d)
  BY DEF Course, Serial
<1>2. ASSUME NEW op \in {"finish", "start", "settle", "confirm", "dropping", "revert", "undoing",
                         "finish_revert", "restoring", "ask_confirm"}, NEW n, GoesOn(c, op, n)
      PROVE  \A d \in calls' : d.inst = i => Later(d)
  BY <1>1, <1>2 DEF GoesOn, Sane, Sound, CallType
<1>3. Served(c) => \A d \in calls' : d.inst = i => Later(d)
  BY <1>1 DEF Served
<1>4. CASE ResizeInstance(c)
  <2>1. ASSUME NEW n, GoesOn(c, "disk", n)
        PROVE  \A d \in calls' : d.inst = i => d.op \notin {"schedule", "resize"}
    BY <1>1, <2>1 DEF GoesOn, Sane, Sound, CallType
  <2> QED
    BY <1>3, <1>4, <2>1 DEF ResizeInstance
<1>5. CASE ConfirmResize(c)
  BY <1>1, <1>3, <1>5 DEF ConfirmResize, Call
<1> QED
  BY <1>2, <1>3, <1>4, <1>5 DEF Serve, NoHostForMove, PrepResize, PrepRefused, ResizeMigrated,
     ResizeFails, FinishResize, FinishMigration, FinishFails, FinishSettles, SaveConfirm,
     ConfirmMigration, ConfirmDrops, SaveRevert, RevertResize, RevertDrops, FinishRevert,
     RestoreGuest, DriverFails, PollServes

LEMMA ServeHistory ==
  ASSUME ~Retries, Sane, NEW c \in calls, NEW i \in Instances, i = c.inst, Course(i),
         History(i), Serve(c)
  PROVE  History(i)'
<1>0. Len(migs[i]) \in Nat /\ row \in [Instances -> Rows] /\ row[i] \in Rows
  BY DEF Sane, Tables
<1>1. CASE c.op # "schedule"
  <2>1. ~Scheduling(i)'
    BY <1>1, ServeCalls DEF Scheduling
  <2> QED
    BY <1>1, <2>1, ServeRows DEF History, State, Over
<1>2. CASE c.op = "schedule"
  <2>1. Stage(c) /\ Rest(i) /\ Alone(c)
    BY <1>2, OnCourse
  <2>2. State(i, "active", "resize_prep") /\ NoneFinished(i)
    <3>1. State(i, "active", "resize_prep")
      BY <1>2, <2>1 DEF Stage
    <3> QED
      BY <2>1, <3>1, NothingFinished DEF Ready, State
  <2>3. /\ \A k \in 1 .. Len(migs[i]) : migs[i][k].status \in Over
        /\ Len(migs[i]) = 0 \/ Last(i).status \in Over
    <3>1. Len(migs[i]) = 0 \/ Last(i).status \in Over
      BY <1>2 DEF History, Scheduling
    <3> QED
      BY <1>0, <2>2, <3>1 DEF History, State, Last
  <2>4. CASE NoHostForMove(c)
    <3>1. row' = Saved(i, "active", "none", row[i].host) /\ migs' = migs
      BY <2>2, <2>4 DEF NoHostForMove, State
    <3>2. row'[i].vm = "active"
      BY <3>1, StateSaved DEF VmStates, TaskStates
    <3> QED
      BY <2>3, <3>1, <3>2 DEF History, Last
  <2>5. ASSUME NEW n \in Nodes, PrepResize(c, n) PROVE History(i)'
    <3>1. PICK m \in Records : m = NewMigration(c, n)
      BY <1>2, Prepared
    <3>2. /\ Len(migs[i]) < MaxMoves /\ migs' = [migs EXCEPT ![i] = Append(@, m)]
          /\ row' = [row EXCEPT ![i] = [row[i] EXCEPT !.new = c.flavor]]
          /\ calls' = (calls \ {c}) \cup {Call("resize", i, Len(migs[i]) + 1, c.flavor, m.src)}
      BY <2>5, <3>1 DEF PrepResize
    <3>3. row'[i].vm = "active" /\ row'[i].task = "resize_prep"
      BY <1>0, <2>2, <3>2 DEF State, Rows
    <3>4. ~Scheduling(i)'
      BY <2>1, <3>2 DEF Scheduling, Alone, Call
    <3>5. /\ Len(migs'[i]) = Len(migs[i]) + 1
          /\ \A l \in 1 .. Len(migs[i]) : migs'[i][l] = migs[i][l]
      BY <3>2, RecordAdded
    <3>6. \A k \in 1 .. Len(migs'[i]) : k < Len(migs'[i]) => migs'[i][k].status \in Over
      BY <1>0, <2>3, <3>5
    <3> QED
      BY <3>3, <3>4, <3>6 DEF History, State
  <2>6. ASSUME NEW n \in Nodes, NEW retry \in BOOLEAN, PrepRefused(c, n, retry) PROVE History(i)'
    <3>1. PICK stash : GiveUpPrep(c, i, stash, retry)
      BY <2>6 DEF PrepRefused
    <3>2. Served(c) /\ row' = [row EXCEPT ![i].new = stash, ![i].vm = "error", ![i].task = "none"]
      BY <3>1 DEF GiveUpPrep
    <3>4. row'[i].vm = "error"
      BY <1>0, <3>2 DEF Rows
    <3>3. ~Scheduling(i)'
      BY <2>1, <3>2, ServedCalls DEF Scheduling
    <3> QED
      BY <3>3, <3>4 DEF History, State
  <2> QED
    BY <1>2, <2>4, <2>5, <2>6
       DEF Serve, ResizeInstance, ResizeMigrated, ResizeFails, FinishResize, FinishMigration,
       FinishFails, FinishSettles, SaveConfirm, ConfirmResize, ConfirmMigration, ConfirmDrops,
       SaveRevert, RevertResize, RevertDrops, FinishRevert, RestoreGuest, DriverFails, PollServes
<1> QED
  BY <1>1, <1>2

\* Handlers change no usage but the one of the move they are about.
LEMMA ServeCounters ==
  ASSUME Sane, NEW c \in calls, Serve(c)
  PROVE  /\ tracked' = tracked /\ auditing' = auditing
         /\ \A n \in Nodes, j \in Instances \ {c.inst} : moves'[n][j] = moves[n][j]
         /\ ResizeInstance(c) => moves' = moves
<1>0. moves \in [Nodes -> [Instances -> Flavors \cup {NoFlavor}]]
  BY DEF Sane, Counters
<1>1. ASSUME NEW m, NEW f, moves' = [moves EXCEPT ![m][c.inst] = f]
      PROVE  \A n \in Nodes, j \in Instances \ {c.inst} : moves'[n][j] = moves[n][j]
  BY <1>0, <1>1
<1>2. UNCHANGED trackers \/ (tracked' = tracked /\ auditing' = auditing)
  BY DEF Serve, NoHostForMove, PrepResize, PrepRefused, ResizeInstance, ResizeMigrated,
     ResizeFails, FinishResize, FinishMigration, FinishFails, FinishSettles, SaveConfirm,
     ConfirmResize, ConfirmMigration, ConfirmDrops, SaveRevert, RevertResize, RevertDrops,
     FinishRevert, RestoreGuest, DriverFails, PollServes
<1>3. moves' = moves \/ \E m, f : moves' = [moves EXCEPT ![m][c.inst] = f]
  BY DEF Serve, NoHostForMove, PrepResize, PrepRefused, ResizeInstance, ResizeMigrated,
     ResizeFails, FinishResize, FinishMigration, FinishFails, FinishSettles, SaveConfirm,
     ConfirmResize, ConfirmMigration, ConfirmDrops, SaveRevert, RevertResize, RevertDrops,
     FinishRevert, RestoreGuest, DriverFails, PollServes, trackers, DropMove
<1>4. ResizeInstance(c) => moves' = moves
  BY DEF ResizeInstance, trackers
<1> QED
  BY <1>1, <1>2, <1>3, <1>4 DEF trackers

\* The handlers of a call leave the other instances alone.
LEMMA ServeApart ==
  ASSUME OneAnswer, Sane, OnCourses, NEW c \in calls, Serve(c)
  PROVE  \A j \in Instances \ {c.inst} : Apart(j)
<1>1. c.inst \in Instances /\ Course(c.inst)
  BY Served0 DEF OnCourses
<1> QED
  BY <1>1, NoHostCourse, PrepCourse, RefusedCourse, ResizeCourse, FinishCourse, SettleCourse,
     ConfirmCourse, RevertCourse, RestoreCourse, DriverCourse, PolledCourse DEF Serve

LEMMA HistoryApart ==
  ASSUME NEW j, Apart(j), History(j)
  PROVE  History(j)'
<1>1. Last(j)' = Last(j) /\ (State(j, "active", "none")' <=> State(j, "active", "none"))
  BY ApartSame
<1>2. Scheduling(j)' <=> Scheduling(j)
  BY DEF Apart, Scheduling
<1> QED
  BY <1>1, <1>2 DEF Apart, History

\* What MoveClaimHeld says of the call c.
Held(c) ==
    LET i == c.inst
        n == Last(c.inst).dst
    IN  c.op \in {"resize", "disk"} =>
          \/ auditing[n]
          \/ moves[n][i] = c.flavor
          \/ Last(i).src # n /\ i \in tracked[n]

Accounts ==
    /\ \A i \in Instances : History(i)
    /\ \A c \in calls : Claimed(c) /\ Held(c)

LEMMA DestinationThere ==
  ASSUME Sane, NEW c \in calls, c.op \in {"resize", "disk"}
  PROVE  Last(c.inst).dst \in Nodes
<1>1. c.op \in OnRecord
  BY DEF OnRecord, QueuedOps, RunningOps
<1>2. /\ migs[c.inst] \in Seq(Records) /\ Len(migs[c.inst]) \in Nat
      /\ c.mig \in 1 .. Len(migs[c.inst])
  BY <1>1, Served0
<1>3. Len(migs[c.inst]) \in 1 .. Len(migs[c.inst])
  BY <1>2
<1>4. Last(c.inst) \in Records
  BY <1>2, <1>3 DEF Last
<1> QED
  BY <1>4 DEF Records

\* A call of an instance the step is not about, and whose usage it leaves.
LEMMA CallApart ==
  ASSUME Sane, Sane', NEW d \in calls', Apart(d.inst), d \in calls => Claimed(d) /\ Held(d),
         tracked' = tracked, auditing' = auditing,
         \A n \in Nodes : moves'[n][d.inst] = moves[n][d.inst]
  PROVE  Claimed(d)' /\ Held(d)'
<1>1. d \in calls /\ row'[d.inst] = row[d.inst] /\ Last(d.inst)' = Last(d.inst)
  BY ApartSame DEF Apart
<1>2. Claimed(d)'
  BY <1>1 DEF Claimed
<1>3. d.op \in {"resize", "disk"} => Last(d.inst).dst \in Nodes
  BY <1>1, DestinationThere
<1>4. Held(d)'
  BY <1>1, <1>3 DEF Held
<1> QED
  BY <1>2, <1>4

\* The claim of prep_resize.
LEMMA PrepAccounts ==
  ASSUME Sane, NEW c \in calls, NEW i \in Instances, i = c.inst, Course(i), NEW n \in Nodes,
         PrepResize(c, n)
  PROVE  \A d \in calls' : d.inst = i => Claimed(d)' /\ Held(d)'
<1> DEFINE m == NewMigration(c, n)
           stashed == [row[i] EXCEPT !.new = c.flavor]
           size == MoveUsage(n, i, stashed, m)
<1>1. /\ c.op = "schedule" /\ ~ToItself(c, n) /\ Len(migs[i]) < MaxMoves
      /\ row' = [row EXCEPT ![i] = stashed] /\ migs' = [migs EXCEPT ![i] = Append(@, m)]
      /\ calls' = (calls \ {c}) \cup {Call("resize", i, Len(migs[i]) + 1, c.flavor, m.src)}
      /\ tracked' = tracked /\ auditing' = auditing
  BY DEF PrepResize
<1>2. c.flavor \in Flavors /\ row[i] \in Rows /\ row \in [Instances -> Rows]
      /\ Len(migs[i]) \in Nat
      /\ moves \in [Nodes -> [Instances -> Flavors \cup {NoFlavor}]]
  BY <1>1, Served0 DEF Sound, Sane, Tables, Counters
<1>3. /\ stashed.flavor = row[i].flavor /\ stashed.new = c.flavor
      /\ row'[i] = stashed
  BY <1>1, <1>2 DEF Rows
<1>4. /\ m.old = row[i].flavor /\ m.new = c.flavor /\ m.src = row[i].host /\ m.dst = n
      /\ m.kind = IF c.flavor = row[i].flavor THEN "migration" ELSE "resize"
  BY DEF NewMigration
<1>5. Agrees(stashed, m, c.flavor)
  <2>1. m.src = m.dst => m.kind = "resize"
    BY <1>1, <1>4 DEF ToItself
  <2> HIDE DEF stashed, m
  <2> QED
    BY <1>2, <1>3, <1>4, <2>1 DEF Agrees
<1>6. Last(i)' = m
  <2>1. m \in Records
    BY <1>1, Prepared
  <2>2. Len(migs[i]) < MaxMoves /\ migs' = [migs EXCEPT ![i] = Append(@, m)]
    BY <1>1
  <2> HIDE DEF m
  <2>3. /\ Len(migs'[i]) = Len(migs[i]) + 1
        /\ migs'[i][Len(migs[i]) + 1] = m
    BY <2>1, <2>2, RecordAdded
  <2> QED
    BY <2>3 DEF Last
<1>7. size = c.flavor \/ (m.src # n /\ i \in tracked[n])
  <2> HIDE DEF stashed, m
  <2> QED
    BY <1>4, <1>5, UsageOfClaim
<1>8. size = c.flavor => moves'[n][i] = c.flavor
  <2>1. size = c.flavor => size # NoFlavor
    BY <1>2 DEF Flavors, NoFlavor
  <2>2. size = NoFlavor \/ moves' = [moves EXCEPT ![n][i] = size]
    BY DEF PrepResize
  <2> HIDE DEF size
  <2> QED
    BY <1>2, <2>1, <2>2
<1>9. \A d \in calls' : d.inst = i => d = Call("resize", i, Len(migs[i]) + 1, c.flavor, m.src)
  BY <1>1, OnCourse DEF Alone
<1> HIDE DEF size, stashed, m
<1> QED
  BY <1>1, <1>3, <1>4, <1>5, <1>6, <1>7, <1>8, <1>9 DEF Call, Claimed, Held

\* The first step of resize_instance keeps what the claim is compared with.
LEMMA ResizeAccounts ==
  ASSUME Sane, NEW c \in calls, NEW i \in Instances, i = c.inst, Course(i),
         ResizeInstance(c), Claimed(c), Held(c)
  PROVE  \A d \in calls' : d.inst = i /\ d.op = "disk" => Claimed(d)' /\ Held(d)'
<1>1. /\ c.op = "resize" /\ Stage(c) /\ Alone(c)
      /\ row[i].task = "resize_prep" /\ row[i].vm \in VmStates /\ row[i].host \in Nodes
      /\ c.mig = Len(migs[i]) /\ c.mig \in 1 .. Len(migs[i]) /\ Len(migs[i]) \in Nat
  <2>1. c.op = "resize" /\ Stage(c) /\ Alone(c)
    BY OnCourse DEF ResizeInstance
  <2>2. c.op \in OnRecord
    BY <2>1 DEF OnRecord, QueuedOps
  <2>3. row[i] \in Rows /\ c.mig \in 1 .. Len(migs[i]) /\ Len(migs[i]) \in Nat
    BY <2>2, Served0
  <2> QED
    BY <2>1, <2>3 DEF Stage, State, Rows
<1>2. SetStatus(i, c.mig, "migrating") /\ GoesOn(c, "disk", c.at) /\ UNCHANGED trackers
  BY <1>1 DEF ResizeInstance
<1>3. Kept(Last(i)', Last(i))
  BY <1>1, <1>2, OnCourse, LastWritten DEF Statuses
<1>4. row'[i] = With(i, row[i].vm, "resize_migrating", row[i].host)
  <2>1. SaveExpecting(i, {"resize_prep"}, With(i, row[i].vm, "resize_migrating", row[i].host))
    BY DEF ResizeInstance
  <2>2. row \in [Instances -> Rows]
    BY DEF Sane, Tables
  <2> QED
    BY <1>1, <2>1, <2>2 DEF SaveExpecting
<1>5. row'[i].flavor = row[i].flavor /\ row'[i].new = row[i].new
  BY <1>4 DEF With
<1>6. \A d \in calls' : d.inst = i => d.flavor = c.flavor
  BY <1>1, <1>2, GoesOnCalls
<1>7. Agrees(row'[i], Last(i)', c.flavor)
  BY <1>1, <1>3, <1>5 DEF Claimed, Agrees, Kept
<1>8. \/ auditing'[Last(i)'.dst] \/ moves'[Last(i)'.dst][i] = c.flavor
      \/ Last(i)'.src # Last(i)'.dst /\ i \in tracked'[Last(i)'.dst]
  BY <1>1, <1>2, <1>3 DEF Held, Kept, trackers
<1> QED
  BY <1>6, <1>7, <1>8 DEF Claimed, Held

LEMMA ServeAccounts ==
  ASSUME OneAnswer, ~Retries, Sane, OnCourses, Accounts, NEW c \in calls, Serve(c)
  PROVE  Accounts'
<1>0. Sane' /\ c.inst \in Instances /\ Course(c.inst) /\ Claimed(c) /\ Held(c)
  <2>1. [MovesNext]_moveVars
    BY DEF MovesNext, MovesStep
  <2> QED
    BY <2>1, NextSane, Served0 DEF OnCourses, Accounts
<1>1. \A j \in Instances : History(j)'
  <2> SUFFICES ASSUME NEW j \in Instances PROVE History(j)'
    OBVIOUS
  <2>1. History(j)
    BY DEF Accounts
  <2> QED
    BY <1>0, <2>1, ServeHistory, ServeApart, HistoryApart
<1>2. ASSUME NEW d \in calls', d.inst # c.inst PROVE Claimed(d)' /\ Held(d)'
  <2>1. d.inst \in Instances
    BY <1>0, <1>2 DEF Sane, Sound, CallType
  <2>2. Apart(d.inst)
    BY <1>2, <2>1, ServeApart
  <2>3. d \in calls => Claimed(d) /\ Held(d)
    BY DEF Accounts
  <2>4. /\ tracked' = tracked /\ auditing' = auditing
        /\ \A n \in Nodes : moves'[n][d.inst] = moves[n][d.inst]
    BY <1>2, <2>1, ServeCounters
  <2> QED
    BY <1>0, <2>2, <2>3, <2>4, CallApart
<1>3. ASSUME NEW d \in calls', d.inst = c.inst PROVE Claimed(d)' /\ Held(d)'
  <2>1. CASE c.op # "schedule"
    <3>1. d.op # "resize" /\ (d.op = "disk" => ResizeInstance(c))
      BY <1>0, <1>3, <2>1, ServeCalls
    <3> QED
      BY <1>0, <1>3, <3>1, ResizeAccounts DEF Claimed, Held
  <2>2. CASE c.op = "schedule"
    <3>1. Alone(c)
      BY <1>0, <2>2, OnCourse
    <3>2. ASSUME Served(c) PROVE FALSE
      BY <1>3, <3>1, <3>2, ServedCalls
    <3>3. ~NoHostForMove(c)
      BY <3>2 DEF NoHostForMove
    <3>4. ASSUME NEW n \in Nodes, NEW retry \in BOOLEAN, PrepRefused(c, n, retry) PROVE FALSE
      <4>1. \E stash : GiveUpPrep(c, c.inst, stash, retry)
        BY <3>4 DEF PrepRefused
      <4> QED
        BY <3>2, <4>1 DEF GiveUpPrep
    <3>5. \E n \in Nodes : PrepResize(c, n)
      BY <2>2, <3>3, <3>4
         DEF Serve, ResizeInstance, ResizeMigrated, ResizeFails, FinishResize, FinishMigration,
         FinishFails, FinishSettles, SaveConfirm, ConfirmResize, ConfirmMigration, ConfirmDrops,
         SaveRevert, RevertResize, RevertDrops, FinishRevert, RestoreGuest, DriverFails, PollServes
    <3> QED
      BY <1>0, <1>3, <3>5, PrepAccounts
  <2> QED
    BY <2>1, <2>2
<1> QED
  BY <1>1, <1>2, <1>3 DEF Accounts

\* Requests make no claim.
LEMMA AskAccounts ==
  ASSUME OneAnswer, Sane, OnCourses, Accounts, NEW i \in Instances, Ask(i)
  PROVE  Accounts'
<1>0. /\ Sane' /\ History(i) /\ row \in [Instances -> Rows]
      /\ DOMAIN migs[i] = 1 .. Len(migs[i])
  <2>1. [MovesNext]_moveVars
    BY DEF MovesNext, MovesStep
  <2> QED
    BY <2>1, NextSane DEF Accounts, Sane, Tables
<1>1. \A j \in Instances \ {i} : Apart(j)
  BY <1>0, RequestCourse, AnswerCourse DEF Ask, OnCourses
<1>2. tracked' = tracked /\ auditing' = auditing /\ moves' = moves
  BY DEF Ask, ResizeRequest, AskConfirm, AskRevert, PollReads, trackers, vars
<1>3. History(i)' /\ \A d \in calls' : d.inst = i => Claimed(d)' /\ Held(d)'
  <2>1. ASSUME NEW f \in Flavors, ResizeRequest(i, f)
        PROVE  History(i)' /\ \A d \in calls' : d.inst = i => Claimed(d)' /\ Held(d)'
    <3>1. /\ State(i, "active", "none") /\ migs' = migs
          /\ row' = Saved(i, "active", "resize_prep", row[i].host)
          /\ calls' = calls \cup {Call("schedule", i, 0, f, NoNode)}
      BY <2>1 DEF ResizeRequest, State, Send
    <3>2. row'[i].vm = "active"
      BY <1>0, <3>1 DEF Saved, With
    <3>3. History(i)'
      BY <1>0, <3>1, <3>2 DEF History, State, Last
    <3>4. \A d \in calls : d.inst = i => d.op \notin {"resize", "disk"}
      <4> SUFFICES ASSUME NEW d \in calls, d.inst = i PROVE d.op \notin {"resize", "disk"}
        OBVIOUS
      <4>1. Stage(d)
        BY OnCourse DEF OnCourses
      <4> QED
        BY <3>1, <4>1 DEF Stage, State
    <3> QED
      BY <3>1, <3>3, <3>4 DEF Call, Claimed, Held
  <2>2. ASSUME NEW k \in DOMAIN migs[i], AskConfirm(i, k) \/ AskRevert(i, k) \/ PollReads(i, k)
        PROVE  History(i)' /\ \A d \in calls' : d.inst = i => Claimed(d)' /\ Held(d)'
    <3>0. PICK e : /\ calls' = calls \cup {e}
                   /\ \/ e = Call("ask_confirm", i, k, NoFlavor, NoNode)
                      \/ e = Call("ask_revert", i, k, NoFlavor, NoNode)
                      \/ e = Call("polled", i, k, NoFlavor, migs[i][k].dst)
      BY <2>2 DEF AskConfirm, AskRevert, PollReads, Send
    <3>1. /\ row' = row /\ migs' = migs /\ calls' = calls \cup {e}
          /\ e.op \in {"ask_confirm", "ask_revert", "polled"}
      BY <2>2, <3>0 DEF AskConfirm, AskRevert, PollReads, Call, vars
    <3>2. Scheduling(i)' => Scheduling(i)
      BY <3>1 DEF Scheduling
    <3>3. \A d \in calls : Claimed(d) /\ Held(d)
      BY DEF Accounts
    <3> QED
      BY <1>0, <1>2, <3>1, <3>2, <3>3 DEF History, State, Last, Claimed, Held
  <2> QED
    BY <2>1, <2>2 DEF Ask
<1>4. \A j \in Instances : History(j)'
  BY <1>1, <1>3, HistoryApart DEF Accounts
<1>5. ASSUME NEW d \in calls', d.inst # i PROVE Claimed(d)' /\ Held(d)'
  <2>1. d.inst \in Instances
    BY <1>0 DEF Sane, Sound, CallType
  <2>2. Apart(d.inst) /\ (d \in calls => Claimed(d) /\ Held(d))
    BY <1>1, <1>5, <2>1 DEF Accounts
  <2> QED
    BY <1>0, <1>2, <2>2, CallApart
<1> QED
  BY <1>3, <1>4, <1>5 DEF Accounts

\* With one record to count, an audit has nothing to compare.
LEMMA OneCandidate ==
  ASSUME Sane, NEW i \in Instances, History(i), NEW n
  PROVE  /\ Candidates(i, n) \subseteq {Len(migs[i])}
         /\ ~Incomparable(i, Candidates(i, n))
<1>1. Candidates(i, n) \subseteq {Len(migs[i])}
  <2> SUFFICES ASSUME NEW k \in Candidates(i, n) PROVE k = Len(migs[i])
    OBVIOUS
  <2>1. /\ InResizeState(i) /\ k \in DOMAIN migs[i]
        /\ migs[i][k].status \notin {"confirmed", "reverted", "error"}
    BY DEF Candidates, InProgress
  <2>2. migs[i] \in Seq(Records) /\ Len(migs[i]) \in Nat
    BY DEF Sane, Tables
  <2>3. k \in 1 .. Len(migs[i])
    BY <2>1, <2>2
  <2> QED
    BY <2>1, <2>2, <2>3 DEF History, InResizeState, Over
<1> QED
  BY <1>1 DEF Incomparable

LEMMA LatestOfOne ==
  ASSUME NEW k \in Int
  PROVE  Latest({k}) = k
<1>1. \E l \in {k} : \A m \in {k} : m <= l
  OBVIOUS
<1> QED
  BY <1>1 DEF Latest

\* The second half of an audit counts the claim again.
LEMMA AuditCounts ==
  ASSUME Sane, NEW n \in Nodes, NEW c \in calls, NEW i \in Instances, i = c.inst, Course(i),
         \A j \in Instances : History(j), Claimed(c), AuditMigrations(n),
         c.op \in {"resize", "disk"}, Last(i).dst = n
  PROVE  moves'[n][i] = c.flavor \/ (Last(i).src # n /\ i \in tracked[n])
<1> DEFINE counted == [j \in Instances |->
                         IF Candidates(j, n) = {} THEN NoFlavor
                         ELSE MoveUsage(n, j, row[j], migs[j][Latest(Candidates(j, n))])]
<1>1. ~\E j \in Instances : Incomparable(j, Candidates(j, n))
  BY OneCandidate
<1>2. moves' = [moves EXCEPT ![n] = counted]
  BY <1>1 DEF AuditMigrations
<1>3. Candidates(i, n) = {Len(migs[i])} /\ Len(migs[i]) \in Int
  <2>1. Stage(c) /\ c.op \in OnRecord
    BY OnCourse DEF OnRecord, QueuedOps, RunningOps
  <2>2. /\ migs[i] \in Seq(Records) /\ Len(migs[i]) \in Nat
        /\ Len(migs[i]) \in 1 .. Len(migs[i])
    BY <2>1, Served0 DEF Stage
  <2>3. Exists(i) /\ InResizeState(i) /\ Last(i).status \in {"pre-migrating", "migrating"}
    BY <2>1 DEF Stage, State, Exists, InResizeState, Resizing
  <2>4. Len(migs[i]) \in InProgress(i, n)
    BY <2>2, <2>3 DEF InProgress, Last
  <2>5. Len(migs[i]) \in Candidates(i, n)
    BY <2>3, <2>4 DEF Candidates
  <2>6. Candidates(i, n) \subseteq {Len(migs[i])}
    BY OneCandidate
  <2> QED
    BY <2>2, <2>5, <2>6
<1>4. counted[i] = MoveUsage(n, i, row[i], Last(i))
  BY <1>3, LatestOfOne DEF Last
<1>5. counted[i] = c.flavor \/ (Last(i).src # n /\ i \in tracked[n])
  <2>1. Agrees(row[i], Last(i), c.flavor)
    BY DEF Claimed
  <2> HIDE DEF counted
  <2> QED
    BY <1>4, <2>1, UsageOfClaim
<1> HIDE DEF counted
<1> QED
  BY <1>2, <1>5 DEF Sane, Counters

LEMMA AuditAccounts ==
  ASSUME Sane, OnCourses, Accounts, NEW n \in Nodes, AuditInMove(n)
  PROVE  Accounts'
<1>1. row' = row /\ migs' = migs /\ calls' = calls
  BY DEF AuditInMove, Audit, AuditInstances, AuditMigrations, tables
<1>2. \A j \in Instances : History(j)'
  BY <1>1 DEF Accounts, History, State, Last, Scheduling
<1>3. ASSUME NEW c \in calls PROVE Claimed(c)'
  BY <1>1 DEF Accounts, Claimed, Last
<1>4. ASSUME NEW c \in calls, c.op \in {"resize", "disk"} PROVE Held(c)'
  <2>0. /\ c.inst \in Instances /\ Course(c.inst) /\ Claimed(c) /\ Held(c)
        /\ auditing \in [Nodes -> BOOLEAN] /\ moves \in [Nodes -> [Instances -> Flavors \cup {NoFlavor}]]
        /\ tracked \in [Nodes -> SUBSET Instances] /\ Last(c.inst)' = Last(c.inst)
    BY <1>1, Served0 DEF OnCourses, Accounts, Sane, Counters, Last
  <2>1. CASE AuditInstances(n)
    <3>1. /\ auditing' = [auditing EXCEPT ![n] = TRUE] /\ moves' = moves
          /\ \A m \in Nodes \ {n} : tracked'[m] = tracked[m]
      BY <2>0, <2>1 DEF AuditInstances, CountInstances
    <3>2. Last(c.inst).dst \in Nodes
      BY <1>4, DestinationThere
    <3> QED
      BY <1>4, <2>0, <3>1, <3>2 DEF Held
  <2>2. CASE AuditMigrations(n)
    <3>1. /\ auditing' = [auditing EXCEPT ![n] = FALSE] /\ tracked' = tracked
          /\ \A m \in Nodes \ {n} : moves'[m] = moves[m]
      BY <2>0, <2>2 DEF AuditMigrations
    <3>2. Last(c.inst).dst \in Nodes
      BY <1>4, DestinationThere
    <3>3. Last(c.inst).dst = n =>
            moves'[n][c.inst] = c.flavor \/ (Last(c.inst).src # n /\ c.inst \in tracked[n])
      BY <1>4, <2>0, <2>2, AuditCounts DEF Accounts
    <3> QED
      BY <1>4, <2>0, <3>1, <3>2, <3>3 DEF Held
  <2> QED
    BY <2>1, <2>2 DEF AuditInMove, Audit
<1>5. ASSUME NEW c \in calls, c.op \notin {"resize", "disk"} PROVE Held(c)'
  BY <1>5 DEF Held
<1> QED
  BY <1>1, <1>2, <1>3, <1>4, <1>5 DEF Accounts

LEMMA InitAccounts == MovesInit => Accounts
<1> SUFFICES ASSUME MovesInit PROVE Accounts
  OBVIOUS
<1>1. PICK home \in [Instances -> Nodes], size \in [Instances -> Flavors] :
        row = [j \in Instances |->
                   [vm |-> "active", task |-> "none", host |-> home[j],
                    flavor |-> size[j], old |-> NoFlavor, new |-> NoFlavor]]
  BY DEF MovesInit
<1>2. calls = {} /\ \A i \in Instances : row[i].vm = "active" /\ Len(migs[i]) = 0
  BY <1>1 DEF MovesInit
<1> QED
  BY <1>2 DEF Accounts, History

\* While services run, no request is sent back to the scheduler and one request
\* answers a move, the room that a move has claimed on its destination stays
\* counted until the instance is the destination's, whatever the audits do.
THEOREM MoveClaimAlwaysHeld ==
  ASSUME OneAnswer, ~Retries
  PROVE  MovesFairSpec => []MoveClaimHeld
<1>1. Sane /\ OnCourses /\ Accounts /\ [MovesStep]_moveVars => Accounts'
  <2> SUFFICES ASSUME Sane, OnCourses, Accounts, [MovesStep]_moveVars PROVE Accounts'
    OBVIOUS
  <2>1. CASE UNCHANGED moveVars
    BY <2>1 DEF moveVars, vars, Accounts, History, State, Last, Scheduling, Claimed, Held
  <2> QED
    BY <2>1, AskAccounts, ServeAccounts, AuditAccounts DEF MovesStep
<1>2. Sane /\ OnCourses /\ Accounts => MoveClaimHeld
  <2> SUFFICES ASSUME Sane, OnCourses, Accounts, NEW c \in calls, c.op \in {"resize", "disk"}
               PROVE  LET m == migs[c.inst][c.mig] IN
                        \/ auditing[m.dst] \/ moves[m.dst][c.inst] = c.flavor
                        \/ m.src # m.dst /\ c.inst \in tracked[m.dst]
    BY DEF MoveClaimHeld
  <2>1. Stage(c) /\ Held(c)
    BY Served0, OnCourse DEF OnCourses, Accounts
  <2>2. c.mig = Len(migs[c.inst])
    BY <2>1 DEF Stage
  <2> QED
    BY <2>1, <2>2 DEF Held, Last
<1> QED
  BY InitAccounts, <1>1, <1>2, AlwaysOnCourse, PTL DEF MovesFairSpec
=============================================================================
