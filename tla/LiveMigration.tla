--------------------------- MODULE LiveMigration ---------------------------
(***************************************************************************)
(* Live migrations of one instance: nova/compute/api.py live_migrate, the  *)
(* conductor's LiveMigrationTask, the handlers of both hosts in            *)
(* nova/compute/manager.py and the monitor in nova/virt/libvirt/driver.py. *)
(*                                                                         *)
(* The source asks the destination to prepare (a call, which can time out  *)
(* while it is still carried out), lets the hypervisor move the guest and  *)
(* watches it, then cleans up here and casts the rest of the work to the   *)
(* destination, or rolls back and casts the cleaning up there.  Those      *)
(* casts wait in a queue, and their handlers run beside everything else.   *)
(* A delete heeds none of it.                                              *)
(*                                                                         *)
(* Nothing of two instances is shared but the source's semaphore.          *)
(***************************************************************************)
EXTENDS FiniteSets, Integers

CONSTANTS
    Hosts,
    NumMoves,      \* requests of users, each made once
    Concurrent,    \* max_concurrent_live_migrations
    MaxMishaps     \* bound: failures, timeouts and stops together

ASSUME LiveMigrationAssumption ==
    /\ NumMoves \in Nat /\ Concurrent \in Nat \ {0} /\ MaxMishaps \in Nat
    /\ "none" \notin Hosts

VARIABLES
    server,    \* the instances row: host, vm state, task state, gone
    guest,     \* what each hypervisor has of the instance
    disk,      \* which hosts have the instance's directory
    shared,    \* whether the directory is on storage all hosts share
    move,      \* each request: where its thread is, and what it has in hand
    delete,    \* the delete: its step, and the host it was cast to
    compute,   \* the service of each host: down, initialising or up
    mishaps    \* the kinds of what went wrong

liveVars == <<server, guest, disk, shared, move, delete, compute, mishaps>>

None == "none"
Moves == 1..NumMoves
\* pc: the thread's step.  pre: the call that prepares the destination.
\* job: the hypervisor's.  post, undo: the casts to the destination.
NoMove == [pc |-> "idle", from |-> None, to |-> None, status |-> None,
           pre |-> None, job |-> None, post |-> None, undo |-> None]
Set(m, field, value) == move' = [move EXCEPT ![m][field] = value]
Step(m, pc, status) == move' = [move EXCEPT ![m].pc = pc, ![m].status = status]
AtStep(m, pc) == move[m].pc = pc

\* The thread runs in the service of the source; what it holds of the
\* semaphore it holds from the preparation to the end.
Holding == {"preparing", "refused", "running", "watching", "posting", "casting",
            "cleaning", "undoing", "rolling"}
OnSource == Holding \cup {"queued"}
Runs(m, pc) == AtStep(m, pc) /\ compute[move[m].from] # "down"

Mishap(kind) ==
    /\ Cardinality(mishaps) < MaxMishaps /\ kind \notin mishaps
    /\ mishaps' = mishaps \cup {kind}

\* What the code itself does wrong, which no bound limits.
Note(kind, happens) == mishaps' = IF happens THEN mishaps \cup {kind} ELSE mishaps

\* A move that does nothing any more that the task state is about.
Quiet(m) == /\ move[m].pc \in {"idle", "done", "casting", "refused", "cleaning"}
            /\ move[m].job # "active" /\ move[m].post \in {None, "done"}

\* save(expected_task_state=MIGRATING)
Migrating == ~server.gone /\ server.task = "migrating"

LiveInit ==
    \E h \in Hosts :
        /\ server = [host |-> h, vm |-> "active", task |-> None, gone |-> FALSE]
        /\ guest = [g \in Hosts |-> IF g = h THEN "running" ELSE None]
        /\ disk = [g \in Hosts |-> g = h]
        /\ shared \in BOOLEAN
        /\ move = [m \in Moves |-> NoMove]
        /\ delete = [pc |-> "idle", host |-> None]
        /\ compute = [g \in Hosts |-> "up"]
        /\ mishaps = {}
-----------------------------------------------------------------------------
(* The request and the conductor.                                          *)

\* live_migrate: the save refreshes the copy, the host with it.
LiveMigrate(m, d) ==
    /\ AtStep(m, "idle")
    /\ ~server.gone /\ server.vm = "active" /\ server.task = None
    /\ m > 1 => ~AtStep(m - 1, "idle")
    /\ server' = [server EXCEPT !.task = "migrating"]
    /\ move' = [move EXCEPT ![m] = [NoMove EXCEPT !.pc = "checking", !.to = d,
                    !.from = server.host, !.status = "pre-migrating"]]
    /\ UNCHANGED <<guest, disk, shared, delete, compute, mishaps>>

\* LiveMigrationTask: both services are asked for, the destination checks the
\* source; then the source is cast to.
Checked(m) ==
    /\ AtStep(m, "checking") /\ move[m].to # move[m].from
    /\ Set(m, "pc", "cast")
    /\ UNCHANGED <<server, guest, disk, shared, delete, compute, mishaps>>

\* Any of the exceptions a check may raise, a timeout among them: the task
\* state is cleared, if it is still there; else the error is another one, and
\* the record stays as it is.
\* Mutant of CheckRefuses: the instance's own task state is passed on.
CheckRefusesKeepsTask(m) ==
    /\ AtStep(m, "checking") /\ Step(m, "done", "error")
    /\ UNCHANGED <<server, guest, disk, shared, delete, compute, mishaps>>
CheckRefuses(m) ==
    /\ AtStep(m, "checking")
    /\ IF Migrating
       THEN server' = [server EXCEPT !.task = None] /\ Step(m, "done", "error")
       ELSE Set(m, "pc", "done") /\ UNCHANGED server
    /\ UNCHANGED <<guest, disk, shared, delete, compute, mishaps>>

\* Any other exception: the instance goes to ERROR and keeps its task state.
CheckFails(m) ==
    /\ AtStep(m, "checking") /\ Mishap("check")
    /\ IF Migrating
       THEN server' = [server EXCEPT !.vm = "error"] /\ Step(m, "done", "failed")
       ELSE Set(m, "pc", "done") /\ UNCHANGED server
    /\ UNCHANGED <<guest, disk, shared, delete, compute>>
-----------------------------------------------------------------------------
(* The source prepares and runs the move.                                  *)

Queue(m) ==
    /\ AtStep(m, "cast") /\ compute[move[m].from] = "up"
    /\ Step(m, "queued", "queued")
    /\ UNCHANGED <<server, guest, disk, shared, delete, compute, mishaps>>

\* _do_live_migration calls the destination.
Prepare(m) ==
    /\ Runs(m, "queued")
    /\ Cardinality({o \in Moves : /\ move[o].from = move[m].from
                                  /\ move[o].pc \in Holding}) < Concurrent
    /\ move' = [move EXCEPT ![m].pc = "preparing", ![m].status = "preparing",
                            ![m].pre = "sent"]
    /\ UNCHANGED <<server, guest, disk, shared, delete, compute, mishaps>>

\* At the destination: the directory is made, unless there is one.
\* Mutant of PreLiveMigration: one that is there is used.
PreLiveMigrationAnyDir(m) ==
    /\ move[m].pre = "sent" /\ compute[move[m].to] = "up"
    /\ Set(m, "pre", "ok")
    /\ disk' = [disk EXCEPT ![move[m].to] = @ \/ ~shared]
    /\ UNCHANGED <<server, guest, shared, delete, compute, mishaps>>
PreLiveMigration(m) ==
    /\ move[m].pre = "sent" /\ compute[move[m].to] = "up"
    /\ IF ~shared /\ disk[move[m].to]
       THEN Set(m, "pre", "raised") /\ UNCHANGED disk
       ELSE Set(m, "pre", "ok") /\ disk' = [disk EXCEPT ![move[m].to] = @ \/ ~shared]
    /\ UNCHANGED <<server, guest, shared, delete, compute, mishaps>>

\* The driver or the network raises, before the directory is made or after.
PreFails(m) ==
    /\ move[m].pre = "sent" /\ compute[move[m].to] = "up" /\ Mishap("pre")
    /\ Set(m, "pre", "raised")
    /\ \E made \in BOOLEAN : disk' = [disk EXCEPT ![move[m].to] =
                                         @ \/ (made /\ ~shared)]
    /\ UNCHANGED <<server, guest, shared, delete, compute>>

\* The answer, or none in time; the call may still be carried out.
Prepared(m) ==
    /\ Runs(m, "preparing") /\ move[m].pre = "ok"
    /\ Step(m, "running", "running")
    /\ UNCHANGED <<server, guest, disk, shared, delete, compute, mishaps>>
PrepareFails(m) ==
    /\ Runs(m, "preparing")
    /\ \/ move[m].pre = "raised" /\ UNCHANGED mishaps
       \/ Mishap("timeout")
    /\ Step(m, "undoing", "failed")
    /\ UNCHANGED <<server, guest, disk, shared, delete, compute>>

\* The driver looks the guest up and starts the job in a thread of its own.
Migrate(m) ==
    /\ Runs(m, "running")
    /\ IF guest[move[m].from] = None
       THEN Step(m, "done", "failed")
       ELSE move' = [move EXCEPT ![m].pc = "watching", ![m].job = "active"]
    /\ UNCHANGED <<server, guest, disk, shared, delete, compute, mishaps>>

\* The hypervisor, which does not need the service any more: the guest runs on
\* the one host or on the other.
JobMoves(m) ==
    /\ move[m].job = "active" /\ guest[move[m].from] = "running"
    /\ shared \/ disk[move[m].to]
    /\ guest' = [guest EXCEPT ![move[m].from] = None, ![move[m].to] = "running"]
    /\ Set(m, "job", "over")
    /\ UNCHANGED <<server, disk, shared, delete, compute, mishaps>>
JobFails(m) ==
    /\ move[m].job = "active"
    /\ Set(m, "job", "over")
    /\ UNCHANGED <<server, guest, disk, shared, delete, compute, mishaps>>

\* The monitor infers how the job ended from the guest on this host: still
\* running, it failed; off or missing, it is taken to have succeeded.  When
\* libvirt cannot say, it is taken to have failed.
Watch(m) ==
    /\ Runs(m, "watching") /\ move[m].job = "over"
    /\ \/ /\ Set(m, "pc", IF guest[move[m].from] = "running" THEN "rolling"
                                                               ELSE "posting")
          /\ UNCHANGED mishaps
       \/ /\ guest[move[m].from] # "running" /\ Mishap("misread")
          /\ Set(m, "pc", "rolling")
    /\ UNCHANGED <<server, guest, disk, shared, delete, compute>>

\* It raises when it cannot abort the job, or cannot save its progress because
\* the row is gone; the job goes on.
WatchFails(m) ==
    /\ Runs(m, "watching")
    /\ \/ server.gone /\ UNCHANGED mishaps
       \/ Mishap("monitor")
    /\ Step(m, "done", "failed")
    /\ UNCHANGED <<server, guest, disk, shared, delete, compute>>
-----------------------------------------------------------------------------
(* The guest has moved.                                                    *)

\* _post_live_migration, up to the cast to the destination: volumes and
\* networks, any of which may raise.
Post(m) ==
    /\ Runs(m, "posting")
    /\ move' = [move EXCEPT ![m].pc = "cleaning", ![m].post = "sent"]
    /\ UNCHANGED <<server, guest, disk, shared, delete, compute, mishaps>>
PostFails(m) ==
    /\ Runs(m, "posting") /\ Mishap("post")
    /\ Step(m, "done", "failed")
    /\ UNCHANGED <<server, guest, disk, shared, delete, compute>>

\* Then the source is cleaned up, unless the directory is shared; what is left
\* of the domain is undefined.
PostCleanup(m) ==
    /\ Runs(m, "cleaning")
    /\ LET h == move[m].from
       IN /\ disk' = [disk EXCEPT ![h] = @ /\ shared]
          /\ guest' = [guest EXCEPT ![h] =
                           IF ~shared /\ @ = "shutdown" THEN None ELSE @]
    /\ Step(m, "done", "completed")
    /\ UNCHANGED <<server, shared, delete, compute, mishaps>>

\* post_live_migration_at_destination defines the domain, then saves the host
\* if the task state is still MIGRATING; else it raises.
PostDefine(m) ==
    /\ move[m].post = "sent" /\ compute[move[m].to] = "up"
    /\ Set(m, "post", "defined")
    /\ guest' = [guest EXCEPT ![move[m].to] = IF @ = None THEN "shutdown" ELSE @]
    /\ UNCHANGED <<server, disk, shared, delete, compute, mishaps>>
\* Mutant of PostSettles: the task state is cleared before the host is saved.
PostSettlesNoHost(m) ==
    /\ move[m].post = "defined" /\ compute[move[m].to] = "up"
    /\ Set(m, "post", "done")
    /\ server' = IF Migrating THEN [server EXCEPT !.task = None] ELSE server
    /\ UNCHANGED <<guest, disk, shared, delete, compute, mishaps>>
PostSettles(m) ==
    /\ move[m].post = "defined" /\ compute[move[m].to] = "up"
    /\ Set(m, "post", "done")
    /\ server' =
         IF Migrating THEN [server EXCEPT !.host = move[m].to, !.task = None] ELSE server
    /\ UNCHANGED <<guest, disk, shared, delete, compute, mishaps>>
PostDefineFails(m) ==
    /\ move[m].post = "sent" /\ compute[move[m].to] = "up" /\ Mishap("settle")
    /\ Set(m, "post", "done")
    /\ UNCHANGED <<server, guest, disk, shared, delete, compute>>
-----------------------------------------------------------------------------
(* The guest has not moved.                                                *)

\* _rollback_live_migration clears the task state, or raises.  After a failed
\* preparation the record is failed already, and is not handed on.
Rollback(m) ==
    /\ Runs(m, "undoing") \/ Runs(m, "rolling")
    /\ IF Migrating
       THEN /\ server' = [server EXCEPT !.task = None]
            /\ Set(m, "pc", IF AtStep(m, "rolling") THEN "casting" ELSE "refused")
       ELSE Step(m, "done", "failed") /\ UNCHANGED server
    /\ UNCHANGED <<guest, disk, shared, delete, compute, mishaps>>

\* Then, unless the volumes raise, the destination is told to clean up what
\* does not lie on shared storage.
RollbackCast(m) ==
    /\ Runs(m, "casting") \/ Runs(m, "refused")
    /\ move' = [move EXCEPT ![m].pc = "done",
           ![m].undo = IF shared THEN None ELSE "sent",
           ![m].status = IF AtStep(m, "casting") THEN "error" ELSE @]
    /\ UNCHANGED <<server, guest, disk, shared, delete, compute, mishaps>>
RollbackFails(m) ==
    /\ Runs(m, "casting") \/ Runs(m, "refused")
    /\ Mishap("rollback") /\ Step(m, "done", "failed")
    /\ UNCHANGED <<server, guest, disk, shared, delete, compute>>

\* rollback_live_migration_at_destination destroys what there is, without a
\* look at the row: the guest of a later move, if the cast comes that late.
RollbackAtDestination(m) ==
    /\ move[m].undo = "sent" /\ compute[move[m].to] = "up"
    /\ Set(m, "undo", "done")
    /\ Note("undone", guest[move[m].to] = "running")
    /\ guest' = [guest EXCEPT ![move[m].to] = None]
    /\ disk' = [disk EXCEPT ![move[m].to] = FALSE]
    /\ UNCHANGED <<server, shared, delete, compute>>
-----------------------------------------------------------------------------
(* A delete.                                                               *)

Destroy(h) ==
    /\ guest' = [guest EXCEPT ![h] = None]
    /\ disk' = IF shared THEN [g \in Hosts |-> FALSE] ELSE [disk EXCEPT ![h] = FALSE]

DeleteServer ==
    /\ delete.pc = "idle" /\ ~server.gone
    /\ server' = [server EXCEPT !.task = "deleting"]
    /\ \/ delete' = [pc |-> "cast", host |-> server.host]
       \/ /\ compute[server.host] # "up"
          /\ delete' = [pc |-> "done", host |-> server.host]
    /\ UNCHANGED <<guest, disk, shared, move, compute, mishaps>>
TerminateServer ==
    /\ delete.pc = "cast" /\ compute[delete.host] = "up"
    /\ Destroy(delete.host)
    /\ delete' = [delete EXCEPT !.pc = "destroyed"]
    /\ UNCHANGED <<server, shared, move, compute, mishaps>>
DestroyRow ==
    /\ delete.pc = "destroyed"
    /\ server' = [server EXCEPT !.gone = TRUE]
    /\ delete' = [delete EXCEPT !.pc = "done"]
    /\ UNCHANGED <<guest, disk, shared, move, compute, mishaps>>

\* _cleanup_running_deleted_instances, on each host: of the deleted instances
\* whose rows name it, those the hypervisor has, running or not.
\* Mutant of Reap: those that are running.
ReapRunning(h) ==
    /\ compute[h] = "up" /\ server.gone /\ server.host = h /\ guest[h] = "running"
    /\ Destroy(h)
    /\ UNCHANGED <<server, shared, move, delete, compute, mishaps>>
Reap(h) ==
    /\ compute[h] = "up" /\ server.gone /\ server.host = h /\ guest[h] # None
    /\ Destroy(h)
    /\ UNCHANGED <<server, shared, move, delete, compute, mishaps>>
-----------------------------------------------------------------------------
(* Services stop and start.                                                *)

\* What it was doing is lost; casts not yet taken from the queue are not, nor
\* is a call, which somebody may have stopped waiting for.
Stop(h) ==
    /\ compute[h] # "down" /\ Mishap("stop")
    /\ compute' = [compute EXCEPT ![h] = "down"]
    /\ move' = [m \in Moves |-> [move[m] EXCEPT
           !.pc = IF move[m].from = h /\ @ \in OnSource THEN "done" ELSE @,
           !.post = IF move[m].to = h /\ @ = "defined" THEN "done" ELSE @]]
    /\ delete' = IF delete = [pc |-> "destroyed", host |-> h]
                 THEN [delete EXCEPT !.pc = "done"] ELSE delete
    /\ UNCHANGED <<server, guest, disk, shared>>

\* init_host lists the instances of the host, then looks at each.
Start(h) ==
    /\ compute[h] = "down"
    /\ compute' = [compute EXCEPT ![h] =
           IF ~server.gone /\ server.host = h /\ server.vm # "error"
              /\ server.task = "migrating" THEN "init"
           ELSE IF ~server.gone /\ server.host = h /\ server.task = "deleting"
                THEN "deleting" ELSE "up"]
    /\ UNCHANGED <<server, guest, disk, shared, move, delete, mishaps>>

\* A move that was interrupted: the task state is cleared, though the move may
\* go on, or the guest have left.  If it is another one by now the exception
\* ends the start of the service.
ResetMove(h) ==
    /\ compute[h] = "init"
    /\ IF Migrating
       THEN /\ server' = [server EXCEPT !.task = None]
            /\ compute' = [compute EXCEPT ![h] = "up"]
            /\ Note("reset", guest[server.host] # "running" \/ \E m \in Moves : ~Quiet(m))
       ELSE compute' = [compute EXCEPT ![h] = "down"] /\ UNCHANGED <<server, mishaps>>
    /\ UNCHANGED <<guest, disk, shared, move, delete>>
DeleteAgain(h) ==
    /\ compute[h] = "deleting"
    /\ Destroy(h) /\ server' = [server EXCEPT !.gone = TRUE]
    /\ compute' = [compute EXCEPT ![h] = "up"]
    /\ UNCHANGED <<shared, move, delete, mishaps>>
-----------------------------------------------------------------------------
Conduct(m) == Checked(m) \/ CheckRefuses(m) \/ CheckFails(m)
AtSource(m) ==
    \/ Queue(m) \/ Prepare(m) \/ Prepared(m) \/ PrepareFails(m) \/ Migrate(m)
    \/ Watch(m) \/ WatchFails(m) \/ Post(m) \/ PostFails(m) \/ PostCleanup(m)
    \/ Rollback(m) \/ RollbackCast(m) \/ RollbackFails(m)
PreAtDestination(m) == PreLiveMigration(m) \/ PreFails(m)
PostAtDestination(m) == PostDefine(m) \/ PostDefineFails(m) \/ PostSettles(m)
Job(m) == JobMoves(m) \/ JobFails(m)
Deletes == TerminateServer \/ DestroyRow
Starts(h) == Start(h) \/ ResetMove(h) \/ DeleteAgain(h)

LiveNext ==
    \/ \E m \in Moves, d \in Hosts : LiveMigrate(m, d)
    \/ \E m \in Moves :
          \/ Conduct(m) \/ AtSource(m) \/ Job(m) \/ PreAtDestination(m)
          \/ PostAtDestination(m) \/ RollbackAtDestination(m)
    \/ DeleteServer \/ Deletes
    \/ \E h \in Hosts : Reap(h) \/ Stop(h) \/ Starts(h)

\* Every thread goes on, every job ends, services are started again, messages
\* are taken from their queues and the periodic task comes back.
LiveSpec ==
    /\ LiveInit /\ [][LiveNext]_liveVars
    /\ \A m \in Moves :
          /\ WF_liveVars(Conduct(m)) /\ WF_liveVars(AtSource(m)) /\ WF_liveVars(Job(m))
          /\ WF_liveVars(PreAtDestination(m)) /\ WF_liveVars(PostAtDestination(m))
          /\ WF_liveVars(RollbackAtDestination(m))
    /\ WF_liveVars(Deletes)
    /\ \A h \in Hosts : WF_liveVars(Reap(h)) /\ WF_liveVars(Starts(h))
-----------------------------------------------------------------------------
Guests == {None, "running", "shutdown"}
LiveTypeOK ==
    /\ server \in [host : Hosts, vm : {"active", "error"}, gone : BOOLEAN,
                task : {None, "migrating", "deleting"}]
    /\ guest \in [Hosts -> Guests] /\ disk \in [Hosts -> BOOLEAN]
    /\ \A m \in Moves :
          /\ move[m].pc \in OnSource \cup {"idle", "checking", "cast", "done"}
          /\ AtStep(m, "idle") \/ {move[m].from, move[m].to} \subseteq Hosts
    /\ delete.host \in Hosts \cup {None}
    /\ compute \in [Hosts -> {"down", "init", "deleting", "up"}]

\* The promise of a live migration, GuestPlacement: one guest, moved once or
\* left alone by each move, and the row names its host whenever the task state
\* is cleared.  The code itself breaks it in three ways, each a kind of mishap:
\* a restart clears the task state of a move that goes on, or whose guest has
\* left; libvirt's failure to answer is read as a failed move; and a rollback
\* is carried out so late that it destroys the guest of another move.
Running == {h \in Hosts : guest[h] = "running"}
Where == IF Running = {} THEN None
         ELSE IF Cardinality(Running) = 1 THEN CHOOSE h \in Running : TRUE
         ELSE "two"
Busy == IF server.task = "migrating" THEN "moving"
        ELSE IF server.task = "deleting" THEN "deleting" ELSE "no"
Placement == INSTANCE GuestPlacement
                 WITH Nowhere <- None, where <- Where, told <- server.host, busy <- Busy
Astray == mishaps \cap {"reset", "misread", "undone"} # {}
Placed ==
    Placement!Init /\ [][Placement!Next \/ Astray']_(Placement!placement)

\* A guest has its disk: neither the late cleaning up of the source nor the
\* rollback takes the directory of a guest that has come (back) to the host.
DiskFollows ==
    shared \/ \A h \in Hosts : guest[h] = "running" => disk[h]

\* Refusals, failures on the destination, timeouts and failed jobs never leave
\* an instance MIGRATING: only an exception the code does not recover from
\* ("nothing must be recovered in this version", manager.py:5369) does, or a
\* stop of the destination while it settles the move.
MoveEnds ==
    (server.task = "migrating")
        ~> \/ server.task # "migrating"
           \/ mishaps \cap {"check", "monitor", "post", "settle", "stop"} # {}
           \/ Astray

\* Nothing of a deleted instance stays where its row names the host, whatever a
\* late cast of a move still defines there, and a service that stopped in the
\* middle of the delete goes on with it.
NothingLeftAtHome == [](server.gone => <>[](guest[server.host] = None))

\* _cleanup_running_deleted_instances: "Cleanup any instances which are
\* erroneously still running after having been deleted."
NothingLeftRunning == [](server.gone => <>(\A h \in Hosts : guest[h] # "running"))
=============================================================================
