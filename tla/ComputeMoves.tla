---------------------------- MODULE ComputeMoves ----------------------------
(***************************************************************************)
(* Resize and cold migration (nova/compute/api.py resize, confirm_resize,  *)
(* revert_resize; nova/compute/manager.py prep_resize, resize_instance,    *)
(* finish_resize, confirm_resize, revert_resize, finish_revert_resize,     *)
(* _poll_unconfirmed_resizes) over the trackers of ResourceTracker.        *)
(*                                                                         *)
(* A move is a chain of casts between the source and the destination; each *)
(* handler carries the instance and the migration it was given and writes  *)
(* both rows as it goes.  Some of the saves of an instance compare its     *)
(* task state first, none of those of a migration compare anything.        *)
(***************************************************************************)
EXTENDS ResourceTracker

CONSTANTS
    MaxMoves,   \* bound: migration records of an instance
    OneAnswer   \* nobody confirms or reverts a move that is being answered

ASSUME MovesAssumption == MaxMoves \in Nat /\ OneAnswer \in BOOLEAN

VARIABLES
    calls,      \* casts queued and handlers in progress
    backups     \* old disks kept on the source of a move: <<instance, node>>

buildVars == <<flow, pending, ending>>
moveVars == <<vars, calls, backups>>

\* A call is at the API, queued for a node or in progress on it.  It carries
\* the flavor it stashed or read: the new one before a resize is done, the old
\* one when it is confirmed.
Call(op, i, k, f, n) ==
    [op |-> op, inst |-> i, mig |-> k, flavor |-> f, at |-> n]

ApiOps == {"ask_confirm", "ask_revert", "schedule"}
QueuedOps == {"resize", "finish", "confirm", "revert", "finish_revert"}
RunningOps == {"disk", "start", "settle", "confirming", "dropping", "undoing",
               "restoring", "polled"}

Send(call) == calls' = calls \cup {call}
Served(c) == calls' = calls \ {c}
GoesOn(c, op, n) ==
    calls' = (calls \ {c}) \cup {[c EXCEPT !.op = op, !.at = n]}

\* Instances run on their nodes, within the limits, and are counted there.
MovesInit ==
    \E home \in [Instances -> Nodes], size \in [Instances -> Flavors] :
      /\ row = [i \in Instances |->
                  [vm |-> "active", task |-> "none", host |-> home[i],
                   flavor |-> size[i], old |-> NoFlavor, new |-> NoFlavor]]
      /\ tracked = [n \in Nodes |-> {i \in Instances : home[i] = n}]
      /\ used = [n \in Nodes |-> Size(tracked[n])]
      /\ \A n \in Nodes : used[n] <= Limit[n]
      /\ guests = tracked
      /\ migs = [i \in Instances |-> <<>>]
      /\ moves = [n \in Nodes |-> [i \in Instances |-> NoFlavor]]
      /\ auditing = [n \in Nodes |-> FALSE]
      /\ flow = [i \in Instances |-> Idle]
      /\ pending = {} /\ ending = {} /\ calls = {} /\ backups = {}

-----------------------------------------------------------------------------
(* What the handlers share. *)

\* migration.save(): the status is written whatever it was.
SetStatus(i, k, s) ==
    migs' = [migs EXCEPT ![i][k].status = s, ![i][k].saved = TRUE]

\* instance.save(expected_task_state): with another task in the row the state
\* is not written, but _error_out_instance_on_exception saves the same object,
\* now in ERROR, and expects nothing.
SaveExpecting(i, expected, new) ==
    row' = [row EXCEPT ![i] = IF row[i].task \in expected
                              THEN new ELSE [new EXCEPT !.vm = "error"]]

\* drop_move_claim with a flavor f to compare the tracked one with.
DropMove(n, i, f) ==
    /\ moves' = [moves EXCEPT ![n][i] = NoFlavor]
    /\ used' = [used EXCEPT ![n] = IF moves[n][i] = f THEN @ - f ELSE @]

-----------------------------------------------------------------------------
(* Resize: the request, the claim on the destination, the disk, the guest.  *)

\* API.resize: the instance is active without a task, which the save compares
\* again; with its own flavor it is a migration.  The conductor gets the request.
ResizeRequest(i, f) ==
    /\ row[i].vm = "active" /\ row[i].task = "none"
    /\ Len(migs[i]) < MaxMoves
    /\ row' = Saved(i, "active", "resize_prep", row[i].host)
    /\ Send(Call("schedule", i, 0, f, NoNode))
    /\ UNCHANGED <<migs, trackers, guests, buildVars, backups>>

\* NoValidHost: "task_state": None.
NoHostForMove(c) ==
    LET i == c.inst IN
    /\ c.op = "schedule"
    /\ row' = Saved(i, row[i].vm, "none", row[i].host)
    /\ Served(c)
    /\ UNCHANGED <<migs, trackers, guests, buildVars, backups>>

\* _create_migration
NewMigration(c, n) ==
    LET r == row[c.inst] IN
    [kind |-> IF c.flavor = r.flavor THEN "migration" ELSE "resize",
     status |-> "pre-migrating", src |-> r.host, dst |-> n,
     old |-> r.flavor, new |-> c.flavor, saved |-> FALSE]

\* A migration to the same host, which most drivers refuse.
ToItself(c, n) == row[c.inst].host = n /\ row[c.inst].flavor = c.flavor

\* prep_resize on n: the new flavor is stashed, the record is created and the
\* claim holds; the source gets resize_instance.
PrepResize(c, n) ==
    LET i == c.inst
        m == NewMigration(c, n)
        stashed == [row[i] EXCEPT !.new = c.flavor]
        size == MoveUsage(n, i, stashed, m)
    IN  /\ c.op = "schedule" /\ ~ToItself(c, n)
        /\ Len(migs[i]) < MaxMoves
        /\ ~auditing[n]
        /\ ClaimTest(n, c.flavor)
        /\ row' = [row EXCEPT ![i] = stashed]
        /\ migs' = [migs EXCEPT ![i] = Append(@, m)]
        /\ IF size = NoFlavor
           THEN UNCHANGED <<moves, used>>
           ELSE /\ moves' = [moves EXCEPT ![n][i] = size]
                /\ used' = [used EXCEPT ![n] = @ + size]
        /\ calls' = (calls \ {c}) \cup {Call("resize", i, Len(migs[i]) + 1,
                                             c.flavor, m.src)}
        /\ UNCHANGED <<tracked, auditing, guests, buildVars, backups>>

\* _reschedule_resize_or_reraise
GiveUpPrep(c, i, stash, retry) ==
    /\ retry => Retries
    /\ IF retry
       THEN /\ row' = [row EXCEPT ![i].new = stash, ![i].task = "resize_prep"]
            /\ calls' = calls
       ELSE /\ row' = [row EXCEPT ![i].new = stash, ![i].vm = "error",
                                  ![i].task = "none"]
            /\ Served(c)

\* prep_resize refused: by the driver, or by the claim, whose record stays.
PrepRefused(c, n, retry) ==
    /\ c.op = "schedule"
    /\ IF ToItself(c, n)
       THEN /\ migs' = migs
            /\ GiveUpPrep(c, c.inst, row[c.inst].new, retry)
       ELSE /\ Len(migs[c.inst]) < MaxMoves
            /\ ~auditing[n]
            /\ ~ClaimTest(n, c.flavor)
            /\ migs' = [migs EXCEPT ![c.inst] = Append(@, NewMigration(c, n))]
            /\ GiveUpPrep(c, c.inst, c.flavor, retry)
    /\ UNCHANGED <<trackers, guests, buildVars, backups>>

\* resize_instance on the source, as far as the driver.  errors_out_migration
\* follows a save that was not expected.
ResizeInstance(c) ==
    LET i == c.inst
        expected == row[i].task = "resize_prep"
    IN  /\ c.op = "resize"
        /\ SetStatus(i, c.mig, IF expected THEN "migrating" ELSE "error")
        /\ SaveExpecting(i, {"resize_prep"},
                         With(i, row[i].vm, "resize_migrating", row[i].host))
        /\ IF expected THEN GoesOn(c, "disk", c.at) ELSE Served(c)
        /\ UNCHANGED <<trackers, guests, buildVars, backups>>

\* Mutant of ResizeMigrated: the guest is left running.
ResizeMigratedRunning(c) ==
    LET i == c.inst
        dst == migs[i][c.mig].dst
        expected == row[i].task = "resize_migrating"
    IN  /\ c.op = "disk" /\ i \in guests[c.at]
        /\ backups' = backups \cup {<<i, c.at>>}
        /\ SetStatus(i, c.mig, IF expected THEN "post-migrating" ELSE "error")
        /\ SaveExpecting(i, {"resize_migrating"},
                         With(i, row[i].vm, "resize_migrated", dst))
        /\ IF expected THEN GoesOn(c, "finish", dst) ELSE Served(c)
        /\ UNCHANGED <<trackers, guests, buildVars>>

\* The guest is off and its disk copied, the old one kept; the instance now
\* belongs to the destination.
ResizeMigrated(c) ==
    LET i == c.inst
        dst == migs[i][c.mig].dst
        expected == row[i].task = "resize_migrating"
    IN  /\ c.op = "disk" /\ i \in guests[c.at]
        /\ guests' = [guests EXCEPT ![c.at] = @ \ {i}]
        /\ backups' = backups \cup {<<i, c.at>>}
        /\ SetStatus(i, c.mig, IF expected THEN "post-migrating" ELSE "error")
        /\ SaveExpecting(i, {"resize_migrating"},
                         With(i, row[i].vm, "resize_migrated", dst))
        /\ IF expected THEN GoesOn(c, "finish", dst) ELSE Served(c)
        /\ UNCHANGED <<trackers, buildVars>>

\* The driver raises before it touches the disk: InstanceFaultRollback, or ERROR.
ResizeFails(c, rollback) ==
    LET i == c.inst IN
    /\ c.op = "disk"
    /\ SetStatus(i, c.mig, "error")
    /\ row' = Saved(i, IF rollback THEN "active" ELSE "error", "none",
                    row[i].host)
    /\ Served(c)
    /\ UNCHANGED <<trackers, guests, buildVars, backups>>

\* Mutant of FinishResize: the flavor comes from the stash of the old one.
FinishResizeFromOld(c) ==
    LET i == c.inst
        expected == row[i].task = "resize_migrated"
    IN  /\ c.op = "finish"
        /\ SaveExpecting(i, {"resize_migrated"},
             [row[i] EXCEPT !.old = row[i].flavor, !.flavor = row[i].old,
                            !.task = "resize_finish"])
        /\ IF expected
           THEN migs' = migs /\ GoesOn(c, "start", c.at)
           ELSE SetStatus(i, c.mig, "error") /\ Served(c)
        /\ UNCHANGED <<trackers, guests, buildVars, backups>>

\* finish_resize on the destination, as far as the driver: the flavors change.
FinishResize(c) ==
    LET i == c.inst
        expected == row[i].task = "resize_migrated"
    IN  /\ c.op = "finish"
        /\ SaveExpecting(i, {"resize_migrated"},
             [row[i] EXCEPT !.old = row[i].flavor, !.flavor = c.flavor,
                            !.task = "resize_finish"])
        /\ IF expected
           THEN migs' = migs /\ GoesOn(c, "start", c.at)
           ELSE SetStatus(i, c.mig, "error") /\ Served(c)
        /\ UNCHANGED <<trackers, guests, buildVars, backups>>

\* driver.finish_migration starts the guest; the migration is finished.
FinishMigration(c) ==
    /\ c.op = "start"
    /\ guests' = [guests EXCEPT ![c.at] = @ \cup {c.inst}]
    /\ SetStatus(c.inst, c.mig, "finished")
    /\ GoesOn(c, "settle", c.at)
    /\ UNCHANGED <<row, trackers, buildVars, backups>>

\* driver.finish_migration raises: the old flavor is put back.
FinishFails(c) ==
    LET i == c.inst IN
    /\ c.op = "start"
    /\ SetStatus(i, c.mig, "error")
    /\ row' = [row EXCEPT ![i].flavor = migs[i][c.mig].old,
                          ![i].vm = "error", ![i].task = "none"]
    /\ Served(c)
    /\ UNCHANGED <<trackers, guests, buildVars, backups>>

\* The last save of finish_resize.
FinishSettles(c) ==
    /\ c.op = "settle"
    /\ SaveExpecting(c.inst, {"resize_finish"},
                     With(c.inst, "resized", "none", row[c.inst].host))
    /\ Served(c)
    /\ UNCHANGED <<migs, trackers, guests, buildVars, backups>>

-----------------------------------------------------------------------------
(* Confirm. *)

\* What an API request to confirm or revert reads: the instance, then the
\* migration with status 'finished'.
Finished(i, k) ==
    /\ row[i].vm = "resized" /\ row[i].task = "none"
    /\ migs[i][k].status = "finished"

\* A confirm or revert of i is under way, or the poll looks at i.
Answering(i) ==
    \E c \in calls : /\ c.inst = i
                     /\ c.op \in {"ask_confirm", "confirm", "confirming",
                                  "dropping", "ask_revert", "revert", "undoing",
                                  "finish_revert", "restoring", "polled"}

AskConfirm(i, k) ==
    /\ Finished(i, k) /\ ~(OneAnswer /\ Answering(i))
    /\ Send(Call("ask_confirm", i, k, NoFlavor, NoNode))
    /\ UNCHANGED <<vars, backups>>

\* API.confirm_resize writes the migration and nothing of the instance.
SaveConfirm(c) ==
    /\ c.op = "ask_confirm"
    /\ SetStatus(c.inst, c.mig, "confirming")
    /\ GoesOn(c, "confirm", migs[c.inst][c.mig].src)
    /\ UNCHANGED <<row, trackers, guests, buildVars, backups>>

\* Another confirm_resize of i holds the lock of the uuid on n.
ConfirmRuns(i, n) ==
    \E c \in calls : /\ c.inst = i /\ c.at = n
                     /\ c.op \in {"confirming", "dropping"}

\* confirm_resize on the source reads both rows again: only a finished or
\* confirming migration goes on, and the stashed flavors are deleted.
ConfirmResize(c) ==
    LET i == c.inst IN
    /\ c.op = "confirm" /\ ~ConfirmRuns(i, c.at)
    /\ IF migs[i][c.mig].status \in {"finished", "confirming"}
       THEN /\ row' = [row EXCEPT ![i].old = NoFlavor, ![i].new = NoFlavor]
            /\ calls' = (calls \ {c}) \cup
                          {Call("confirming", i, c.mig, row[i].old, c.at)}
       ELSE row' = row /\ Served(c)
    /\ UNCHANGED <<migs, trackers, guests, buildVars, backups>>

\* driver.confirm_migration destroys what the source kept.
ConfirmMigration(c) ==
    /\ c.op = "confirming"
    /\ backups' = backups \ {<<c.inst, c.at>>}
    /\ SetStatus(c.inst, c.mig, "confirmed")
    /\ GoesOn(c, "dropping", c.at)
    /\ UNCHANGED <<row, trackers, guests, buildVars>>

\* The claim on the source is dropped and the instance becomes active.
ConfirmDrops(c) ==
    /\ c.op = "dropping" /\ ~auditing[c.at]
    /\ DropMove(c.at, c.inst, c.flavor)
    /\ SaveExpecting(c.inst, {"none", "deleting"},
                     With(c.inst, "active", "none", row[c.inst].host))
    /\ Served(c)
    /\ UNCHANGED <<migs, tracked, auditing, guests, buildVars, backups>>

-----------------------------------------------------------------------------
(* Revert. *)

AskRevert(i, k) ==
    /\ Finished(i, k) /\ ~(OneAnswer /\ Answering(i))
    /\ Send(Call("ask_revert", i, k, NoFlavor, NoNode))
    /\ UNCHANGED <<vars, backups>>

\* API.revert_resize: only the save of the instance compares its task.
SaveRevert(c) ==
    LET i == c.inst IN
    /\ c.op = "ask_revert"
    /\ IF row[i].task = "none"
       THEN /\ row' = Saved(i, row[i].vm, "resize_reverting", row[i].host)
            /\ SetStatus(i, c.mig, "reverting")
            /\ GoesOn(c, "revert", migs[i][c.mig].dst)
       ELSE UNCHANGED <<row, migs>> /\ Served(c)
    /\ UNCHANGED <<trackers, guests, buildVars, backups>>

\* revert_resize on the destination destroys the guest there.
RevertResize(c) ==
    /\ c.op = "revert"
    /\ guests' = [guests EXCEPT ![c.at] = @ \ {c.inst}]
    /\ SetStatus(c.inst, c.mig, "reverted")
    /\ GoesOn(c, "undoing", c.at)
    /\ UNCHANGED <<row, trackers, buildVars, backups>>

\* The claim on the destination is dropped, the source gets its cast.
RevertDrops(c) ==
    LET m == migs[c.inst][c.mig] IN
    /\ c.op = "undoing" /\ ~auditing[c.at]
    /\ DropMove(c.at, c.inst, m.new)
    /\ GoesOn(c, "finish_revert", m.src)
    /\ UNCHANGED <<tables, tracked, auditing, guests, buildVars, backups>>

\* finish_revert_resize on the source: old flavor, old host, and the migration
\* gets its source as destination.
FinishRevert(c) ==
    LET i == c.inst
        m == migs[i][c.mig]
    IN  /\ c.op = "finish_revert"
        /\ row' = [row EXCEPT ![i].flavor = m.old, ![i].old = NoFlavor,
                              ![i].new = NoFlavor, ![i].host = m.src]
        /\ migs' = [migs EXCEPT ![i][c.mig].dst = m.src,
                                ![i][c.mig].saved = TRUE]
        /\ GoesOn(c, "restoring", c.at)
        /\ UNCHANGED <<trackers, guests, buildVars, backups>>

\* driver.finish_revert_migration starts the guest from the disk that was kept.
RestoreGuest(c) ==
    LET i == c.inst IN
    /\ c.op = "restoring" /\ <<i, c.at>> \in backups
    /\ guests' = [guests EXCEPT ![c.at] = @ \cup {i}]
    /\ backups' = backups \ {<<i, c.at>>}
    /\ row' = IF row[i].task = "resize_reverting"
              THEN Saved(i, "active", "none", row[i].host)
              ELSE Saved(i, "error", row[i].task, row[i].host)
    /\ Served(c)
    /\ UNCHANGED <<migs, trackers, buildVars>>

\* The driver raises in a confirm or a revert, or there is no disk to start
\* from.  Only the handlers of a revert clear the task.
DriverFails(c) ==
    LET i == c.inst IN
    /\ c.op \in {"confirming", "revert", "restoring"}
    /\ row' = Saved(i, "error", IF c.op = "confirming" THEN row[i].task
                                                       ELSE "none",
                    row[i].host)
    /\ Served(c)
    /\ UNCHANGED <<migs, trackers, guests, buildVars, backups>>

-----------------------------------------------------------------------------
(* _poll_unconfirmed_resizes. *)

\* The migrations of n that have been finished for too long are read at once.
PollReads(i, k) ==
    /\ migs[i][k].status = "finished" /\ ~(OneAnswer /\ Answering(i))
    /\ Send(Call("polled", i, k, NoFlavor, migs[i][k].dst))
    /\ UNCHANGED <<vars, backups>>

\* Then the instance of each: it is confirmed, left alone, or the migration
\* ends in 'error'.
PollServes(c) ==
    LET r == row[c.inst]
        idle == r.vm = "resized" /\ r.task = "none"
        skipped == r.vm # "error" /\ r.task \in {"deleting", "resize_finish"}
    IN  /\ c.op = "polled"
        /\ IF idle THEN GoesOn(c, "ask_confirm", NoNode) ELSE Served(c)
        /\ IF idle \/ skipped THEN migs' = migs
                              ELSE SetStatus(c.inst, c.mig, "error")
        /\ UNCHANGED <<row, trackers, guests, buildVars, backups>>

-----------------------------------------------------------------------------
(* The compute service of n stops anywhere and starts again. *)

\* _init_instance: a resize that was being prepared is forgotten, one that was
\* copying its disk is rolled back, any other task is left as it is.
Recovered(i) ==
    IF \/ row[i].vm # "error" /\ row[i].task = "resize_prep"
       \/ row[i].task = "resize_migrating"
    THEN With(i, row[i].vm, "none", row[i].host)
    ELSE row[i]

\* Handlers in progress on n are lost, queued casts stay; init_host, then the
\* first half of the first audit of a new tracker.
RestartInMove(n) ==
    LET here == {i \in Instances : row[i].host = n}
        rows == [i \in Instances |-> IF i \in here THEN Recovered(i)
                                                   ELSE row[i]]
        rolled == {i \in here : /\ row[i].task = "resize_migrating"
                                /\ <<i, n>> \in backups}
    IN  /\ row' = rows
        /\ CountInstances(rows, n)
        /\ moves' = [moves EXCEPT ![n] = [i \in Instances |-> NoFlavor]]
        /\ calls' = {c \in calls : ~(c.at = n /\ c.op \in RunningOps)}
        /\ guests' = [guests EXCEPT ![n] = @ \cup rolled]
        /\ backups' = backups \ (rolled \X {n})
        /\ UNCHANGED <<migs, buildVars>>

-----------------------------------------------------------------------------
Serve(c) ==
    \/ NoHostForMove(c)
    \/ \E n \in Nodes : \/ PrepResize(c, n)
                        \/ \E retry \in BOOLEAN : PrepRefused(c, n, retry)
    \/ ResizeInstance(c) \/ ResizeMigrated(c)
    \/ \E rollback \in BOOLEAN : ResizeFails(c, rollback)
    \/ FinishResize(c) \/ FinishMigration(c) \/ FinishFails(c)
    \/ FinishSettles(c)
    \/ SaveConfirm(c) \/ ConfirmResize(c) \/ ConfirmMigration(c)
    \/ ConfirmDrops(c)
    \/ SaveRevert(c) \/ RevertResize(c) \/ RevertDrops(c)
    \/ FinishRevert(c) \/ RestoreGuest(c) \/ DriverFails(c)
    \/ PollServes(c)

Ask(i) ==
    \/ \E f \in Flavors : ResizeRequest(i, f)
    \/ \E k \in DOMAIN migs[i] : \/ AskConfirm(i, k) \/ AskRevert(i, k)
                                 \/ PollReads(i, k)

AuditInMove(n) == Audit(n) /\ UNCHANGED <<calls, backups>>

MovesStep ==
    \/ \E i \in Instances : Ask(i)
    \/ \E c \in calls : Serve(c)
    \/ \E n \in Nodes : AuditInMove(n)

MovesNext == MovesStep \/ \E n \in Nodes : RestartInMove(n)

MovesSpec == MovesInit /\ [][MovesNext]_moveVars

ServeOp(i, op) == \E c \in calls : c.inst = i /\ c.op = op /\ Serve(c)

\* Handlers that have begun go on and casts are served.  A handler that waits
\* for the lock of a tracker gets it in turn, though audits keep taking it.  A
\* service that stopped would never serve what it lost: eventual outcomes are
\* those of runs without restarts.
MovesFairSpec ==
    /\ MovesInit /\ [][MovesStep]_moveVars
    /\ \A i \in Instances, op \in ApiOps \cup QueuedOps \cup RunningOps :
         WF_moveVars(ServeOp(i, op))
    /\ \A i \in Instances, op \in {"dropping", "undoing"} :
         SF_moveVars(ServeOp(i, op))
    /\ \A n \in Nodes : WF_moveVars(AuditInMove(n))

-----------------------------------------------------------------------------
(* Properties. *)

MovesTypeOK ==
    /\ TypeOK
    /\ calls \subseteq [op : ApiOps \cup QueuedOps \cup RunningOps,
                        inst : Instances, mig : 0 .. MaxMoves,
                        flavor : Flavors \cup {NoFlavor},
                        at : Nodes \cup {NoNode}]
    /\ backups \subseteq Instances \X Nodes

\* prep_resize creates the migration under the lock of the tracker "so the
\* resource claim will not be lost if the audit process starts": until the
\* instance is the destination's, its new flavor is counted there or being
\* recounted, unless it was there a moment ago and still counts itself.
MoveClaimHeld ==
    \A c \in calls :
      LET m == migs[c.inst][c.mig] IN
      c.op \in {"resize", "disk"} =>
        \/ auditing[m.dst]
        \/ moves[m.dst][c.inst] = c.flavor
        \/ m.src # m.dst /\ c.inst \in tracked[m.dst]

\* revert_resize "powers on the old instance on the source machine": while a
\* revert is on its way there, the source still has the disk it kept.
RevertHasDisk ==
    \A c \in calls : c.op \in {"finish_revert", "restoring"} =>
                       <<c.inst, c.at>> \in backups

\* Once requests stop, audits bring every usage to what the guests and the
\* instances in ERROR take, and a resized instance keeps room for a revert on
\* its source.
MoveUsageSettles ==
    <>[](\A n \in Nodes :
           auditing[n] \/
             used[n] = Size(guests[n] \cup Stranded(n))
                       + Total([i \in Instances |->
                                  IF row[i].vm = "resized"
                                     /\ <<i, n>> \in backups
                                  THEN row[i].old ELSE NoFlavor]))
=============================================================================
