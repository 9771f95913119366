-------------------------- MODULE ResourceTracker --------------------------
(***************************************************************************)
(* The resource tracker of the compute nodes (nova/compute/                *)
(* resource_tracker.py, claims.py) driven by the build, delete and         *)
(* start-up paths of the compute manager (nova/compute/manager.py).        *)
(*                                                                         *)
(* A tracker keeps, in memory, the instances and the incoming or outgoing  *)
(* moves it has counted and the usage they sum up to.  Its operations hold *)
(* the lock "compute_resources" of the node; the instance and migration    *)
(* rows they read are written by anyone, at any time.  The periodic audit  *)
(* clears the tracker and counts again from the rows, instances first and  *)
(* migrations second: two reads with the lock held in between.             *)
(*                                                                         *)
(* A flavor is its size in one resource (memory, disk and vcpus are        *)
(* counted alike).  The moves themselves are in ComputeMoves.              *)
(***************************************************************************)
EXTENDS Integers, Sequences, FiniteSets

CONSTANTS
    Nodes,      \* compute nodes, one tracker each
    Instances,
    MaxFlavor,  \* the flavors are 1 .. MaxFlavor
    Limit,      \* oversubscription limit the scheduler passes for a node
    Retries,    \* scheduler_max_attempts > 1: a failed build is rescheduled
    NoNode      \* host and node are None

ASSUME TrackerAssumption ==
    /\ IsFiniteSet(Instances)
    /\ MaxFlavor \in Nat \ {0}
    /\ Limit \in [Nodes -> Nat]
    /\ Retries \in BOOLEAN
    /\ NoNode \notin Nodes

Flavors == 1 .. MaxFlavor
NoFlavor == 0       \* old_flavor or new_flavor is not stashed

VARIABLES
    row,        \* the instances table
    migs,       \* the migrations table: records of each instance, by id
    tracked,    \* tracked_instances of each tracker
    moves,      \* tracked_migrations: the flavor counted for a move, if any
    used,       \* memory_mb_used (local_gb_used, vcpus_used) of each node
    auditing,   \* an audit holds the lock between its two reads
    flow,       \* where the build of an instance is
    pending,    \* terminate_instance casts not yet served
    ending,     \* deletes between the save of DELETED and the destroy
    guests      \* the virtual machines each hypervisor holds

tables == <<row, migs>>
trackers == <<tracked, moves, used, auditing>>
vars == <<row, migs, tracked, moves, used, auditing, flow, pending, ending,
          guests>>

VmStates == {"none", "building", "active", "resized", "error", "deleted",
             "gone"}        \* none: not booted yet; gone: the row is deleted
TaskStates == {"none", "scheduling", "spawning", "deleting", "resize_prep",
               "resize_migrating", "resize_migrated", "resize_finish",
               "resize_reverting", "rebuilding", "rebuild_spawning"}

Idle == [stage |-> "idle", node |-> NoNode]
\* Idle too, after a build that could not be cleaned up.
Left == [stage |-> "left", node |-> NoNode]
At(s, n) == [stage |-> s, node |-> n]

Init ==
    /\ row = [i \in Instances |->
                [vm |-> "none", task |-> "none", host |-> NoNode,
                 flavor |-> 1, old |-> NoFlavor, new |-> NoFlavor]]
    /\ migs = [i \in Instances |-> <<>>]
    /\ tracked = [n \in Nodes |-> {}]
    /\ moves = [n \in Nodes |-> [i \in Instances |-> NoFlavor]]
    /\ used = [n \in Nodes |-> 0]
    /\ auditing = [n \in Nodes |-> FALSE]
    /\ flow = [i \in Instances |-> Idle]
    /\ pending = {}
    /\ ending = {}
    /\ guests = [n \in Nodes |-> {}]

-----------------------------------------------------------------------------
(* Usage. *)

\* The units of a resource that sizes of instances add up to.
Total(size) ==
    Cardinality({u \in (DOMAIN size) \X Flavors : u[2] <= size[u[1]]})

\* What the instances in S take with their present flavors.
Size(S) == Total([i \in S |-> row[i].flavor])

\* The row of i with the state fields of an instance.save() written.
With(i, vm, task, host) ==
    [vm |-> vm, task |-> task, host |-> host, flavor |-> row[i].flavor,
     old |-> row[i].old, new |-> row[i].new]

Saved(i, vm, task, host) == [row EXCEPT ![i] = With(i, vm, task, host)]

Exists(i) == row[i].vm \notin {"none", "gone"}

\* Mutant of Residents: builds in progress are not counted.
ResidentsLaunched(rows, n) ==
    {i \in Instances : /\ rows[i].vm \notin {"none", "building", "deleted",
                                              "gone"}
                       /\ rows[i].host = n}

\* Mutant of Residents: deleted rows are read.
ResidentsReadDeleted(rows, n) ==
    {i \in Instances : /\ rows[i].vm \notin {"none", "deleted"}
                       /\ rows[i].host = n}

\* InstanceList.get_by_host_and_node, less those in vm_state DELETED
Residents(rows, n) ==
    {i \in Instances : /\ rows[i].vm \notin {"none", "deleted", "gone"}
                       /\ rows[i].host = n}

\* _update_usage_from_instance: an untracked instance is added, a deleted one
\* is popped and subtracted even when it was not tracked.
UpdateUsage(n, i, deleted) ==
    /\ tracked' = [tracked EXCEPT ![n] = IF deleted THEN @ \ {i}
                                                    ELSE @ \cup {i}]
    /\ used' = [used EXCEPT ![n] =
                  IF deleted THEN @ - row[i].flavor
                  ELSE IF i \in tracked[n] THEN @ ELSE @ + row[i].flavor]

\* Mutant of ClaimTest: the request is compared with the limit alone.
ClaimTestIgnoresUsed(n, size) == size <= Limit[n]

\* Claim._test: the request fits in what the limit leaves free.
ClaimTest(n, size) == size <= Limit[n] - used[n]

-----------------------------------------------------------------------------
(* Builds: _do_build_and_run_instance, with the lock of the instance held.  *)

\* No terminate_instance of i runs on n: both hold the lock of the uuid there.
Unlocked(i, n) == \A e \in ending : ~(e[1] = i /\ e[2] = n)

\* Mutant of Boot: the row is created before the flavor is set on it.
BootWithoutFlavor(i, f) ==
    /\ row[i].vm = "none"
    /\ row' = [row EXCEPT ![i] = [vm |-> "building", task |-> "scheduling",
                                  host |-> NoNode, flavor |-> NoFlavor,
                                  old |-> NoFlavor, new |-> NoFlavor]]
    /\ flow' = [flow EXCEPT ![i] = At("scheduling", NoNode)]
    /\ UNCHANGED <<migs, trackers, pending, ending, guests>>

\* The API creates the row and the conductor asks the scheduler for a node.
Boot(i, f) ==
    /\ row[i].vm = "none"
    /\ row' = [row EXCEPT ![i] = [vm |-> "building", task |-> "scheduling",
                                  host |-> NoNode, flavor |-> f,
                                  old |-> NoFlavor, new |-> NoFlavor]]
    /\ flow' = [flow EXCEPT ![i] = At("scheduling", NoNode)]
    /\ UNCHANGED <<migs, trackers, pending, ending, guests>>

\* The build starts on n only if its row is there and nobody set a task.
MayBuild(i) ==
    /\ flow[i].stage = "scheduling"
    /\ row[i].vm # "gone"
    /\ row[i].task \in {"scheduling", "none"}

\* instance_claim: test, save host and node, count the instance.
InstanceClaim(i, n) ==
    /\ MayBuild(i) /\ Unlocked(i, n)
    /\ ~auditing[n]
    /\ ClaimTest(n, row[i].flavor)
    /\ row' = Saved(i, "building", "none", n)
    /\ UpdateUsage(n, i, FALSE)
    /\ flow' = [flow EXCEPT ![i] = At("claimed", n)]
    /\ UNCHANGED <<migs, moves, auditing, pending, ending, guests>>

\* After RescheduledException the host and node are cleared, and the build goes
\* back to the conductor or the instance to ERROR.
GiveBack(i, retry) ==
    /\ row' = IF retry THEN Saved(i, row[i].vm, "scheduling", NoNode)
                       ELSE Saved(i, "error", "none", NoNode)
    /\ flow' = [flow EXCEPT ![i] = IF retry THEN At("scheduling", NoNode)
                                            ELSE Idle]

\* The claim does not fit: ComputeResourcesUnavailable.
ClaimRefused(i, n, retry) ==
    /\ MayBuild(i) /\ Unlocked(i, n)
    /\ ~auditing[n]
    /\ ~ClaimTest(n, row[i].flavor)
    /\ retry => Retries
    /\ GiveBack(i, retry)
    /\ UNCHANGED <<migs, trackers, pending, ending, guests>>

\* The scheduler finds no node, or the attempts are used up.
NoValidHost(i) ==
    /\ flow[i].stage = "scheduling"
    /\ row' = IF Exists(i) THEN Saved(i, "error", "none", row[i].host) ELSE row
    /\ flow' = [flow EXCEPT ![i] = Idle]
    /\ UNCHANGED <<migs, trackers, pending, ending, guests>>

\* "Instance disappeared before build", or another task has begun.
BuildDropped(i) ==
    /\ flow[i].stage = "scheduling"
    /\ row[i].vm = "gone" \/ row[i].task \notin {"scheduling", "none"}
    /\ flow' = [flow EXCEPT ![i] = Idle]
    /\ UNCHANGED <<tables, trackers, pending, ending, guests>>

\* _build_resources saves BLOCK_DEVICE_MAPPING whatever the task state is, then
\* SPAWNING, and the driver starts the guest.
Spawn(i) ==
    /\ flow[i].stage = "claimed"
    /\ Exists(i)
    /\ row' = Saved(i, "building", "spawning", row[i].host)
    /\ guests' = [guests EXCEPT ![flow[i].node] = @ \cup {i}]
    /\ flow' = [flow EXCEPT ![i] = At("spawning", flow[i].node)]
    /\ UNCHANGED <<migs, trackers, pending, ending>>

\* Mutant of Abort: the usage is given back, the guest is not shut down.
AbortKeepsGuest(i, vanished) ==
    LET n == flow[i].node IN
    /\ flow[i].stage \in {"claimed", "spawning"}
    /\ ~auditing[n]
    /\ vanished => ~Exists(i) \/ row[i].task = "deleting"
    /\ UpdateUsage(n, i, TRUE)
    /\ flow' = [flow EXCEPT ![i] = IF vanished THEN Idle ELSE At("failed", n)]
    /\ UNCHANGED <<tables, moves, auditing, pending, ending, guests>>

\* Something inside the claim raised: the guest is shut down and Claim.abort
\* gives the usage back.  A build whose instance is gone or being deleted ends
\* here; any other failure still has to clear the host.
Abort(i, vanished) ==
    LET n == flow[i].node IN
    /\ flow[i].stage \in {"claimed", "spawning"}
    /\ ~auditing[n]
    /\ vanished => ~Exists(i) \/ row[i].task = "deleting"
    /\ guests' = [guests EXCEPT ![n] = @ \ {i}]
    /\ UpdateUsage(n, i, TRUE)
    /\ flow' = [flow EXCEPT ![i] = IF vanished THEN Idle ELSE At("failed", n)]
    /\ UNCHANGED <<tables, moves, auditing, pending, ending>>

\* "Could not clean up failed build, not rescheduling": the claim is aborted
\* like any other, but the guest is still there.
AbortUnclean(i) ==
    LET n == flow[i].node IN
    /\ flow[i].stage = "spawning"
    /\ ~auditing[n]
    /\ UpdateUsage(n, i, TRUE)
    /\ flow' = [flow EXCEPT ![i] = At("unclean", n)]
    /\ UNCHANGED <<tables, moves, auditing, pending, ending, guests>>

\* The save that clears the host after an aborted claim.
BuildFailed(i, retry) ==
    /\ flow[i].stage = "failed"
    /\ retry => Retries
    /\ IF Exists(i)
       THEN GiveBack(i, retry)
       ELSE row' = row /\ flow' = [flow EXCEPT ![i] = Idle]
    /\ UNCHANGED <<migs, trackers, pending, ending, guests>>

\* BuildAbortException: ERROR without a host, whatever retries are left.
UncleanFailed(i) ==
    /\ flow[i].stage = "unclean"
    /\ row' = IF Exists(i) THEN Saved(i, "error", "none", NoNode) ELSE row
    /\ flow' = [flow EXCEPT ![i] = Left]
    /\ UNCHANGED <<migs, trackers, pending, ending, guests>>

\* The final save, after the claim has been left: it expects SPAWNING.  With
\* the row gone or being deleted the build just ends, guest and usage in place.
BuildEnds(i) ==
    /\ flow[i].stage = "spawning"
    /\ ~Exists(i) \/ row[i].task \in {"spawning", "deleting"}
    /\ row' = IF Exists(i) /\ row[i].task = "spawning"
              THEN Saved(i, "active", "none", row[i].host)
              ELSE row
    /\ flow' = [flow EXCEPT ![i] = Idle]
    /\ UNCHANGED <<migs, trackers, pending, ending, guests>>

\* The final save finds a task state it does not expect: the instance goes to
\* ERROR without a host; the claim has been left and is not aborted.
BuildPreempted(i) ==
    /\ flow[i].stage = "spawning"
    /\ Exists(i) /\ row[i].task \notin {"spawning", "deleting"}
    /\ GiveBack(i, FALSE)
    /\ UNCHANGED <<migs, trackers, pending, ending, guests>>

-----------------------------------------------------------------------------
(* Deletes. *)

\* API.delete: DELETING is saved; an instance without a host is destroyed at
\* once, for another the host it has now gets a terminate_instance.
Delete(i) ==
    /\ Exists(i)
    /\ row[i].task # "deleting" /\ row[i].vm # "resized"
    /\ IF row[i].host = NoNode
       THEN /\ row' = Saved(i, "gone", "deleting", NoNode)
            /\ pending' = pending
       ELSE /\ row' = Saved(i, row[i].vm, "deleting", row[i].host)
            /\ pending' = pending \cup {<<i, row[i].host>>}
    /\ UNCHANGED <<migs, trackers, flow, ending, guests>>

\* terminate_instance up to the save of vm_state DELETED, the guest destroyed.
\* The save also refreshes the object, host included.
TerminateSave(i, n) ==
    /\ <<i, n>> \in pending
    /\ flow[i].node # n /\ Unlocked(i, n)
    /\ pending' = pending \ {<<i, n>>}
    /\ guests' = [guests EXCEPT ![n] = @ \ {i}]
    /\ IF Exists(i)
       THEN /\ row' = Saved(i, "deleted", "none", row[i].host)
            /\ ending' = ending \cup {<<i, n, row[i].host>>}
       ELSE row' = row /\ ending' = ending
    /\ UNCHANGED <<migs, trackers, flow>>

\* terminate_instance fails before that save, its guest destroyed or not.
TerminateFails(i, n, destroyed) ==
    /\ <<i, n>> \in pending
    /\ flow[i].node # n /\ Unlocked(i, n)
    /\ Exists(i)
    /\ pending' = pending \ {<<i, n>>}
    /\ row' = Saved(i, "error", "none", row[i].host)
    /\ guests' = IF destroyed THEN [guests EXCEPT ![n] = @ \ {i}] ELSE guests
    /\ UNCHANGED <<migs, trackers, flow, ending>>

\* Mutant of TerminateEnds: the usage is given back without asking whether the
\* instance is still tracked.
TerminateEndsUntracked(i, n, h) ==
    /\ <<i, n, h>> \in ending
    /\ ending' = ending \ {<<i, n, h>>}
    /\ h = n => ~auditing[n]
    /\ IF h = n THEN UpdateUsage(n, i, TRUE) ELSE UNCHANGED <<tracked, used>>
    /\ row' = IF Exists(i) /\ h = NoNode /\ row[i].host # NoNode
              THEN Saved(i, "error", "none", row[i].host)
              ELSE Saved(i, "gone", row[i].task, row[i].host)
    /\ UNCHANGED <<migs, moves, auditing, flow, pending, guests>>

\* _update_resource_tracker, for a tracked instance of this host, then
\* instance.destroy(), which an object without a host makes conditional on the
\* row having none: otherwise the delete fails.
TerminateEnds(i, n, h) ==
    /\ <<i, n, h>> \in ending
    /\ ending' = ending \ {<<i, n, h>>}
    /\ h = n => ~auditing[n]
    /\ IF h = n /\ i \in tracked[n]
       THEN UpdateUsage(n, i, TRUE)
       ELSE UNCHANGED <<tracked, used>>
    /\ row' = IF Exists(i) /\ h = NoNode /\ row[i].host # NoNode
              THEN Saved(i, "error", "none", row[i].host)
              ELSE Saved(i, "gone", row[i].task, row[i].host)
    /\ UNCHANGED <<migs, moves, auditing, flow, pending, guests>>
-----------------------------------------------------------------------------
(* The audit. *)

Resizing == {"resize_prep", "resize_migrating", "resize_migrated",
             "resize_finish", "rebuilding"}

\* Mutant of InResizeState: a finished resize needs no room any more.
InResizeStateTasks(i) == row[i].vm = "active" /\ row[i].task \in Resizing

\* _instance_in_resize_state
InResizeState(i) ==
    \/ row[i].vm = "resized"
    \/ row[i].vm = "active" /\ row[i].task \in Resizing

\* Mutant of InProgress: a move that has begun is not looked at.
InProgressPrepared(i, n) ==
    {k \in DOMAIN migs[i] :
        /\ n \in {migs[i][k].src, migs[i][k].dst}
        /\ migs[i][k].status \notin {"confirmed", "reverted", "error", "migrating"}}

\* migration_get_in_progress_by_host_and_node: the ids of the moves of i.
InProgress(i, n) ==
    {k \in DOMAIN migs[i] :
        /\ n \in {migs[i][k].src, migs[i][k].dst}
        /\ migs[i][k].status \notin {"confirmed", "reverted", "error"}}

\* The records the filter of _update_usage_from_migrations compares, one with
\* the latest before it.
Candidates(i, n) == IF Exists(i) /\ InResizeState(i) THEN InProgress(i, n) ELSE {}
Latest(S) == CHOOSE k \in S : \A l \in S : l <= k

\* updated_at is None until a record is first saved, and a datetime compared
\* with None raises TypeError.
Incomparable(i, S) == \E k, l \in S : migs[i][k].saved # migs[i][l].saved

\* _get_instance_type: a resize stashes its flavors, other moves do not.
FlavorOf(r, m, stashed) == IF m.kind = "resize" THEN stashed ELSE r.flavor

\* _update_usage_from_migration: what the move m of i, whose row is r, counts
\* on n.
MoveUsage(n, i, r, m) ==
    LET incoming == m.dst = n
        outbound == m.src = n
    IN  IF incoming /\ outbound
        THEN FlavorOf(r, m, IF r.flavor = m.old THEN r.new ELSE r.old)
        ELSE IF i \in tracked[n] THEN NoFlavor
        ELSE FlavorOf(r, m, IF incoming THEN r.new ELSE r.old)

\* _update_usage_from_instances: clear, and count the residents.
CountInstances(rows, n) ==
    /\ tracked' = [tracked EXCEPT ![n] = Residents(rows, n)]
    /\ used' = [used EXCEPT ![n] = Size(Residents(rows, n))]
    /\ auditing' = [auditing EXCEPT ![n] = TRUE]

\* update_available_resource takes the lock and counts the instances.
AuditInstances(n) ==
    /\ ~auditing[n]
    /\ CountInstances(row, n)
    /\ UNCHANGED <<tables, moves, flow, pending, ending, guests>>

\* _update_usage_from_migrations: clear, and count the latest move of each
\* instance.  An exception leaves what was counted so far.
AuditMigrations(n) ==
    LET counted == [i \in Instances |->
                      IF Candidates(i, n) = {} THEN NoFlavor
                      ELSE MoveUsage(n, i, row[i],
                                     migs[i][Latest(Candidates(i, n))])]
        fails == \E i \in Instances : Incomparable(i, Candidates(i, n))
        added == IF fails THEN [i \in Instances |-> NoFlavor] ELSE counted
    IN  /\ auditing[n]
        /\ moves' = [moves EXCEPT ![n] = added]
        /\ used' = [used EXCEPT ![n] = @ + Total(added)]
        /\ auditing' = [auditing EXCEPT ![n] = FALSE]
        /\ UNCHANGED <<tables, tracked, flow, pending, ending, guests>>

-----------------------------------------------------------------------------
(* The compute service of n stops anywhere and starts again. *)

\* _init_instance of the instances of the host: builds go to ERROR, partial
\* deletes are completed, interrupted ones carried out.
Initialised(i) ==
    IF row[i].vm = "building"
    THEN With(i, "error", "none", row[i].host)
    ELSE IF row[i].vm = "deleted" \/ row[i].task = "deleting"
    THEN With(i, "gone", row[i].task, row[i].host)
    ELSE row[i]

\* The calls in progress on n are lost, casts it had not taken stay queued;
\* init_host runs, then the first audit of a new tracker.
Restart(n, lost) ==
    LET here == {i \in Instances : row[i].host = n /\ Exists(i)}
        rows == [i \in Instances |-> IF i \in here THEN Initialised(i)
                                                   ELSE row[i]]
    IN  /\ lost \subseteq {p \in pending : p[2] = n}
        /\ row' = rows
        /\ CountInstances(rows, n)
        /\ moves' = [moves EXCEPT ![n] = [i \in Instances |-> NoFlavor]]
        /\ flow' = [i \in Instances |->
                      IF flow[i].node # n THEN flow[i]
                      ELSE IF flow[i].stage = "unclean" THEN Left ELSE Idle]
        /\ pending' = pending \ lost
        /\ ending' = {e \in ending : e[2] # n}
        /\ guests' = [guests EXCEPT ![n] =
                        {i \in @ : i \in here => rows[i].vm # "gone"}]
        /\ UNCHANGED migs

-----------------------------------------------------------------------------
Build(i) ==
    \/ \E n \in Nodes : InstanceClaim(i, n)
    \/ \E n \in Nodes, retry \in BOOLEAN : ClaimRefused(i, n, retry)
    \/ NoValidHost(i) \/ BuildDropped(i) \/ Spawn(i)
    \/ \E vanished \in BOOLEAN : Abort(i, vanished)
    \/ AbortUnclean(i) \/ UncleanFailed(i)
    \/ \E retry \in BOOLEAN : BuildFailed(i, retry)
    \/ BuildEnds(i) \/ BuildPreempted(i)

Terminate(i, n) ==
    \/ TerminateSave(i, n)
    \/ \E destroyed \in BOOLEAN : TerminateFails(i, n, destroyed)
    \/ \E h \in Nodes \cup {NoNode} : TerminateEnds(i, n, h)

Audit(n) == AuditInstances(n) \/ AuditMigrations(n)

ComputeNext ==
    \/ \E i \in Instances, f \in Flavors : Boot(i, f)
    \/ \E i \in Instances : Build(i) \/ Delete(i)
    \/ \E i \in Instances, n \in Nodes : Terminate(i, n)
    \/ \E n \in Nodes : Audit(n)

Next ==
    \/ ComputeNext
    \/ \E n \in Nodes, lost \in SUBSET pending : Restart(n, lost)

Spec == Init /\ [][Next]_vars

\* A handler that has begun goes on, a cast that is queued is served, and the
\* audit is a periodic task: all of them by threads that run.
Fairness ==
    /\ \A i \in Instances : WF_vars(Build(i))
    /\ \A i \in Instances, n \in Nodes : WF_vars(Terminate(i, n))
    /\ \A n \in Nodes : WF_vars(Audit(n))

FairSpec == Spec /\ Fairness

-----------------------------------------------------------------------------
(* Properties. *)

RowType == [vm : VmStates, task : TaskStates, host : Nodes \cup {NoNode},
            flavor : Flavors, old : Flavors \cup {NoFlavor},
            new : Flavors \cup {NoFlavor}]

FlowType == [stage : {"idle", "left", "scheduling"}, node : {NoNode}]
            \cup [stage : {"claimed", "spawning", "failed", "unclean"},
                  node : Nodes]

Migration == [kind : {"resize", "migration", "evacuation"},
              status : {"accepted", "pre-migrating", "migrating",
                        "post-migrating", "finished", "confirming",
                        "confirmed", "reverting", "reverted", "done",
                        "failed", "error"},
              src : Nodes, dst : Nodes \cup {NoNode},
              old : Flavors \cup {NoFlavor}, new : Flavors \cup {NoFlavor},
              saved : BOOLEAN]

\* The type invariant of the tables, the trackers and the handlers.
TypeOK ==
    /\ row \in [Instances -> RowType]
    /\ migs \in [Instances -> Seq(Migration)]
    /\ tracked \in [Nodes -> SUBSET Instances]
    /\ moves \in [Nodes -> [Instances -> Flavors \cup {NoFlavor}]]
    /\ used \in [Nodes -> Int]
    /\ auditing \in [Nodes -> BOOLEAN]
    /\ flow \in [Instances -> FlowType]
    /\ pending \subseteq Instances \X Nodes
    /\ ending \subseteq Instances \X Nodes \X (Nodes \cup {NoNode})
    /\ guests \in [Nodes -> SUBSET Instances]

\* The guest of i stayed when its failed build could not be cleaned up; its
\* usage was given back all the same, and its row is to name no host.
LeftBehind(i) == flow[i].stage \in {"unclean", "left"}

\* What n must hold room for: the guests there, but those left behind, and the
\* builds holding a claim.
Demand(n) ==
    {i \in guests[n] : ~LeftBehind(i)}
    \cup {i \in Instances : /\ flow[i].node = n
                            /\ flow[i].stage \in {"claimed", "spawning"}}

\* The usage of a node is what its tracked instances and moves add up to:
\* the increments of claims, aborts and deletes never drift from the sets.
UsedIsTracked ==
    \A n \in Nodes : used[n] = Size(tracked[n]) + Total(moves[n])

\* No interleaving of builds, deletes, audits and restarts makes a node report
\* less usage than its guests and claims take, guests left behind excepted.
ClaimsCovered == \A n \in Nodes : Size(Demand(n)) <= used[n]

\* The guests and claims of a node, guests left behind excepted, stay within
\* the limit its claims were tested against.
WithinLimit == \A n \in Nodes : Size(Demand(n)) <= Limit[n]

\* However often a build is rescheduled, deleted or interrupted, an instance
\* never has a guest on two nodes.
OneGuest ==
    \A n, m \in Nodes : n # m => guests[n] \cap guests[m] = {}

\* An instance set to ERROR by a restart, or by a delete that failed, keeps its
\* host, and its usage, until it is deleted; one left behind that a restart found
\* before its host was cleared does as well.
Stranded(n) == {i \in Residents(row, n) : row[i].vm = "error"}

\* Once requests stop, the audits bring every usage to exactly what the guests
\* take that were not left behind and the instances stranded in ERROR: nothing
\* that was given back twice, or never, is miscounted for ever.
UsageSettles ==
    <>[](\A n \in Nodes :
           used[n] = Size({i \in guests[n] : ~LeftBehind(i)} \cup Stranded(n)))
=============================================================================
