------------------------- MODULE InstanceLifecycle -------------------------
(***************************************************************************)
(* The server actions on one instance: nova/compute/api.py (stop, start,   *)
(* pause, unpause, suspend, resume, rescue, unrescue, reboot, delete,      *)
(* soft_delete, restore), their handlers in nova/compute/manager.py, the   *)
(* periodic tasks that act on the instance by themselves (the power state  *)
(* sync, the reclaim of soft deleted instances, the cleanup of instances   *)
(* still running after they were deleted) and _init_instance at a restart. *)
(*                                                                         *)
(* A request carries a copy of the instance.  The API checks that copy,    *)
(* then saves the new task state, mostly on condition that the row's task  *)
(* state is None, and casts to the compute service.  The handler calls the *)
(* driver and saves the new vm state on condition that its task is still   *)
(* the row's.  A delete saves without a condition at both ends.  Nothing   *)
(* of two instances is shared here, so one instance is enough.             *)
(***************************************************************************)
EXTENDS Integers

CONSTANTS
    Users,       \* requests of users; each is made once
    First,       \* the one made first: which it is makes no difference
    Ops,         \* the actions users may ask for
    MaxMishaps   \* bound: stops of the compute service, driver calls that
                 \* raise and guests that stop or start on their own, together

ASSUME LifecycleAssumption ==
    /\ Users \cap {"sync", "init", "reclaim"} = {} /\ First \in Users
    /\ MaxMishaps \in Nat

VARIABLES
    row,       \* the instances row: vm_state, task_state, power_state, deleted
    guest,     \* what the hypervisor runs; "none": no such domain
    compute,   \* the compute service: down, initialising or up
    flow,      \* what each request or task has in hand: step, action, copy
    lock,      \* who holds the lock named by the instance's uuid
    charged,   \* instances the quota usage counts for this one
    reclaim,   \* whether reclaim_instance_interval is set
    mishaps    \* how often the service stopped, and what else went wrong

vars == <<row, guest, compute, flow, lock, charged, reclaim, mishaps>>

None == "none"
Off == {"shutdown", None}
Defined == {"running", "shutdown", "paused", "suspended"}
GuestStates == Defined \cup {None}
VmStates == {"active", "stopped", "paused", "suspended", "rescued",
             "soft-delete", "deleted", "error"}

\* The actions that share one shape: the vm states the API accepts, the task
\* state it saves, the guest states the driver call works from, the guest and
\* the vm state it leads to.
Plain ==
    [stop     |-> [from |-> {"active", "error"}, task |-> "powering-off",
                   works |-> Defined, guest |-> "shutdown", to |-> "stopped"],
     force_stop |-> [from |-> VmStates, task |-> "powering-off",
                   works |-> Defined, guest |-> "shutdown", to |-> "stopped"],
     start    |-> [from |-> {"stopped"}, task |-> "powering-on",
                   works |-> Defined, guest |-> "running", to |-> "active"],
     pause    |-> [from |-> {"active"}, task |-> "pausing",
                   works |-> {"running"}, guest |-> "paused", to |-> "paused"],
     unpause  |-> [from |-> {"paused"}, task |-> "unpausing",
                   works |-> {"paused"}, guest |-> "running", to |-> "active"],
     suspend  |-> [from |-> {"active"}, task |-> "suspending",
                   works |-> {"running"}, guest |-> "suspended",
                   to |-> "suspended"],
     resume   |-> [from |-> {"suspended"}, task |-> "resuming",
                   works |-> Defined, guest |-> "running", to |-> "active"],
     rescue   |-> [from |-> {"active", "stopped", "error"}, task |-> "rescuing",
                   works |-> Defined, guest |-> "running", to |-> "rescued"],
     unrescue |-> [from |-> {"rescued"}, task |-> "unrescuing",
                   works |-> Defined, guest |-> "running", to |-> "active"],
     restore  |-> [from |-> {"soft-delete"}, task |-> "restoring",
                   works |-> Defined, guest |-> "running", to |-> "active"],
     soft_delete |-> [from |-> VmStates, task |-> "soft-deleting",
                   works |-> Defined, guest |-> "shutdown", to |-> "soft-delete"]]

\* The two kinds of reboot: the vm states they are allowed from, the task
\* states they are allowed over in the copy and, by the API's save, in the row,
\* and those their handler goes through.
Reboot ==
    [soft_reboot |-> [from |-> {"active"}, copy |-> {None}, over |-> {None},
                      ask |-> "rebooting", pending |-> "reboot_pending",
                      started |-> "reboot_started",
                      expect |-> {"rebooting", "reboot_pending",
                                  "reboot_started"}],
     hard_reboot |-> [from |-> {"active", "stopped", "paused", "suspended",
                                "error"},
                      copy |-> {None, "rebooting", "reboot_pending",
                                "reboot_started", "rebooting_hard", "resuming",
                                "unpausing", "pausing", "suspending"},
                      over |-> {None, "rebooting", "reboot_pending",
                                "reboot_started", "rebooting_hard", "resuming",
                                "unpausing", "suspending"},
                      ask |-> "rebooting_hard",
                      pending |-> "reboot_pending_hard",
                      started |-> "reboot_started_hard",
                      expect |-> {"rebooting_hard", "reboot_pending_hard",
                                  "reboot_started_hard"}]]

Rebooting == {"reboot_started", "reboot_started_hard"}
Deletes == {"delete", "soft_delete"}
AllOps == DOMAIN Plain \cup DOMAIN Reboot \cup {"delete"}
Flows == Users \cup {"sync", "init", "reclaim"}

\* The step, the action, the copy's vm and task states; for the sync, the
\* power state it read last.
Idle == [pc |-> "idle", op |-> None, vm |-> None, task |-> None, seen |-> None]
Step(pc, op, vm, task) ==
    [Idle EXCEPT !.pc = pc, !.op = op, !.vm = vm, !.task = task]
At(f, pc) == flow[f].pc = pc
Goto(f, pc) == flow' = [flow EXCEPT ![f].pc = pc]

\* A user's request is made once; the others come back.  When the init has
\* seen to the instance the service starts to take messages.
Over(f, pc) ==
    /\ flow' = [flow EXCEPT ![f] = IF f \in Users THEN [Idle EXCEPT !.pc = pc]
                                                  ELSE Idle]
    /\ compute' = IF f = "init" THEN "up" ELSE compute
    /\ lock' = IF lock = f THEN None ELSE lock
End(f) == Over(f, "done")

\* Handlers run in the compute service; the init runs before messages do.
Serving(f) == compute = "up" \/ (compute = "init" /\ f = "init")

\* save(): the row changes if it is still there and, when something is
\* expected, if its task state is among that.
Matches(expected) == ~row.gone /\ row.task \in expected
Save(vm, task, power) ==
    row' = [row EXCEPT !.vm = vm, !.task = task, !.power = power]
SaveAnyway(vm, task, power) ==
    IF row.gone THEN UNCHANGED row ELSE Save(vm, task, power)

Init ==
    /\ row = [vm |-> "active", task |-> None, power |-> "running",
              gone |-> FALSE]
    /\ guest = "running" /\ compute = "up" /\ lock = None
    /\ flow = [f \in Flows |-> Idle]
    /\ charged = 1 /\ reclaim \in BOOLEAN
    /\ mishaps = [crashes |-> 0, others |-> 0]
-----------------------------------------------------------------------------
(* The API.                                                                *)

\* A request loads the instance; what the action does not look at is not kept
\* in the copy.  The REST layer turns a delete into a soft
\* delete when there is a reclaim interval.
Request(u) ==
    /\ At(u, "idle") /\ ~row.gone
    /\ u = First \/ ~At(First, "idle")
    /\ \E op \in Ops :
        /\ op = "soft_delete" => reclaim
        /\ flow' = [flow EXCEPT ![u] =
               Step("read", op, row.vm, IF op \in DOMAIN Plain \ Deletes THEN None
                                        ELSE row.task)]
    /\ UNCHANGED <<row, guest, compute, lock, charged, reclaim, mishaps>>

\* check_instance_state looks at the copy, save() at the row.  A restore
\* commits the reservations it made once it has cast.
Accept(f, from, over, ask) ==
    IF flow[f].vm \in from /\ Matches(over)
    THEN /\ Save(row.vm, ask, row.power)
         /\ flow' = [flow EXCEPT ![f] = Step("cast", @.op, row.vm, None)]
         /\ charged' = charged + (IF flow[f].op = "restore" THEN 1 ELSE 0)
         /\ lock' = IF lock = f THEN None ELSE lock
         /\ UNCHANGED compute
    ELSE End(f) /\ UNCHANGED <<row, charged>>

AskPlain(f) ==
    /\ At(f, "read") /\ flow[f].op \in DOMAIN Plain \ Deletes
    /\ LET p == Plain[flow[f].op] IN Accept(f, p.from, {None}, p.task)
    /\ UNCHANGED <<guest, reclaim, mishaps>>

AskReboot(f) ==
    /\ At(f, "read") /\ flow[f].op \in DOMAIN Reboot
    /\ LET p == Reboot[flow[f].op]
       IN IF flow[f].task \in p.copy
          THEN Accept(f, p.from, p.over, p.ask)
          ELSE End(f) /\ UNCHANGED <<row, charged>>
    /\ UNCHANGED <<guest, reclaim, mishaps>>

\* _delete: no state is checked and none expected.
AskDelete(f) ==
    /\ At(f, "read") /\ flow[f].op \in Deletes
    /\ IF row.gone
       THEN End(f) /\ UNCHANGED row
       ELSE /\ Save(row.vm, IF flow[f].op = "delete" THEN "deleting"
                            ELSE "soft-deleting", row.power)
            /\ flow' = [flow EXCEPT ![f].pc = "saved", ![f].vm = row.vm]
            /\ UNCHANGED <<compute, lock>>
    /\ UNCHANGED <<guest, charged, reclaim, mishaps>>

\* Then it asks whether the service is up, which its last heartbeat tells: a
\* service that is up may be late with it, one that is down may have just
\* died.  Down: an error, and the task state stays.  Up and the copy was being
\* deleted already: ignored.
AnswerDelete(f) ==
    /\ At(f, "saved")
    /\ \/ End(f)
       \/ /\ flow[f].task \in {"deleting", "soft-deleting"}
          /\ Over(f, "ignored")
       \/ /\ flow[f].task \notin {"deleting", "soft-deleting"}
          /\ Goto(f, "cast") /\ UNCHANGED <<compute, lock>>
    /\ UNCHANGED <<row, guest, charged, reclaim, mishaps>>
-----------------------------------------------------------------------------
(* The handlers in the compute service.                                    *)

Count(kind) ==
    /\ mishaps.crashes + mishaps.others < MaxMishaps
    /\ mishaps' = [mishaps EXCEPT ![kind] = @ + 1]

\* stop_instance and terminate_instance hold the lock named by the uuid from
\* their first step to their last; the other handlers hold none.
Locked(f) == flow[f].op \in {"stop", "force_stop"}
             \/ (flow[f].op = "delete" /\ f \notin {"init", "reclaim"})
TakeLock(f) == /\ Locked(f) => lock = None
               /\ lock' = IF Locked(f) THEN f ELSE lock

\* What an exception of the driver leaves: suspend, resume and unrescue go to
\* ERROR, or back when the driver does not implement the call; then, as after
\* every handler that raised, the task state is cleared, whosever it is.
FailedVm(f) ==
    CASE flow[f].op \in {"suspend", "resume"} -> {"error", flow[f].vm}
      [] flow[f].op = "unrescue" -> {"error", "active"}
      [] OTHER -> {row.vm}

\* The driver call.  A stop of a guest that is off already will let its save
\* find the task state cleared.
DrivePlain(f) ==
    /\ At(f, "cast") /\ flow[f].op \in DOMAIN Plain /\ Serving(f)
    /\ guest \in Plain[flow[f].op].works
    /\ TakeLock(f)
    /\ guest' = Plain[flow[f].op].guest
    /\ Goto(f, IF Locked(f) /\ guest \in Off THEN "drove_off" ELSE "drove")
    /\ UNCHANGED <<row, compute, charged, reclaim, mishaps>>

DrivePlainFails(f) ==
    /\ At(f, "cast") /\ flow[f].op \in DOMAIN Plain /\ Serving(f)
    /\ Locked(f) => lock = None
    /\ IF guest \in Plain[flow[f].op].works THEN Count("others")
                                            ELSE UNCHANGED mishaps
    /\ \E vm \in FailedVm(f) : SaveAnyway(vm, None, row.power)
    /\ End(f)
    /\ UNCHANGED <<guest, charged, reclaim>>

\* The save that ends the action.  A soft delete commits its reservations
\* after it; those of an instance soft deleted before were given back.
SavePlain(f) ==
    /\ flow[f].pc \in {"drove", "drove_off"} /\ flow[f].op \in DOMAIN Plain
    /\ LET p == Plain[flow[f].op]
       IN IF Matches({p.task} \cup (IF At(f, "drove_off") THEN {None} ELSE {}))
          THEN /\ Save(p.to, None, guest)
               /\ charged' = charged - (IF /\ flow[f].op = "soft_delete"
                                           /\ flow[f].vm # "soft-delete"
                                        THEN 1 ELSE 0)
          ELSE UNCHANGED <<row, charged>>
    /\ End(f)
    /\ UNCHANGED <<guest, reclaim, mishaps>>

\* An exception of a reboot goes on to the caller.  The init has none: the
\* service does not start.
RebootRaises(f) ==
    IF f = "init"
    THEN /\ flow' = [flow EXCEPT ![f] = Idle] /\ compute' = "down"
         /\ UNCHANGED lock
    ELSE End(f)

\* Whatever went wrong, a guest that runs counts as rebooted.  Otherwise the
\* instance goes to ERROR with whatever task state its copy had come to:
\* cleared after an exception of the driver, the one it could not save after a
\* conflict.
RebootFails(f, task) ==
    IF guest = "running"
    THEN Goto(f, "rebooted") /\ UNCHANGED <<row, compute, lock>>
    ELSE SaveAnyway("error", task, row.power) /\ RebootRaises(f)

\* reboot_instance saves twice before it calls the driver, each time on
\* condition.  An init that retries a soft reboot as a hard one comes here with
\* the row still in the soft one's task state; what is raised then ends it.
RebootPending(f) ==
    /\ At(f, "cast") /\ flow[f].op \in DOMAIN Reboot /\ Serving(f)
    /\ LET p == Reboot[flow[f].op]
       IN IF Matches(p.expect)
          THEN /\ Save(row.vm, p.pending, guest)
               /\ Goto(f, "pending") /\ UNCHANGED <<compute, lock>>
          ELSE RebootRaises(f) /\ UNCHANGED row
    /\ UNCHANGED <<guest, charged, reclaim, mishaps>>

RebootStarted(f) ==
    /\ At(f, "pending")
    /\ LET p == Reboot[flow[f].op]
       IN IF Matches({p.pending})
          THEN /\ Save(row.vm, p.started, row.power)
               /\ Goto(f, "started") /\ UNCHANGED <<compute, lock>>
          ELSE RebootFails(f, p.started)
    /\ UNCHANGED <<guest, charged, reclaim, mishaps>>

\* The guest of a deleted instance can come back: a hard reboot defines the
\* domain anew.
RebootDrive(f) ==
    /\ At(f, "started")
    /\ \/ guest' = "running" /\ Goto(f, "rebooted")
          /\ UNCHANGED <<row, compute, lock, mishaps>>
       \/ /\ IF guest = None THEN UNCHANGED mishaps
             ELSE Count("others")
          /\ RebootFails(f, None) /\ UNCHANGED guest
    /\ UNCHANGED <<charged, reclaim>>

\* The last save of a reboot expects nothing.
RebootEnd(f) ==
    /\ At(f, "rebooted")
    /\ SaveAnyway("active", None, guest)
    /\ End(f)
    /\ UNCHANGED <<guest, charged, reclaim, mishaps>>

\* _delete_instance destroys the guest, saves DELETED, destroys the row and
\* commits the reservations; the row is looked for each time.
DestroyGuest(f) ==
    /\ At(f, "cast") /\ flow[f].op = "delete" /\ Serving(f)
    /\ TakeLock(f)
    /\ guest' = None /\ Goto(f, "destroyed")
    /\ UNCHANGED <<row, compute, charged, reclaim, mishaps>>

\* The driver raised: the reservations are rolled back and the instance goes
\* to ERROR, except in the reclaim; in the init it keeps its task state.
DestroyGuestFails(f) ==
    /\ At(f, "cast") /\ flow[f].op = "delete" /\ Serving(f)
    /\ Locked(f) => lock = None
    /\ guest # None /\ Count("others")
    /\ IF f = "reclaim" THEN UNCHANGED row
       ELSE SaveAnyway("error", IF f = "init" THEN row.task ELSE None, row.power)
    /\ End(f)
    /\ UNCHANGED <<guest, charged, reclaim>>

\* Mutant of SaveDeleted: a row that is gone does not end the delete.
SaveDeletedGoesOn(f) ==
    /\ At(f, "destroyed")
    /\ IF row.gone
       THEN Goto(f, "committing") /\ UNCHANGED row
       ELSE Save("deleted", None, None) /\ Goto(f, "deleted")
    /\ UNCHANGED <<guest, compute, lock, charged, reclaim, mishaps>>
SaveDeleted(f) ==
    /\ At(f, "destroyed")
    /\ IF row.gone
       THEN End(f) /\ UNCHANGED row
       ELSE /\ Save("deleted", None, None)
            /\ Goto(f, "deleted") /\ UNCHANGED <<compute, lock>>
    /\ UNCHANGED <<guest, charged, reclaim, mishaps>>

DestroyRow(f) ==
    /\ At(f, "deleted")
    /\ IF row.gone
       THEN End(f) /\ UNCHANGED row
       ELSE /\ row' = [row EXCEPT !.gone = TRUE]
            /\ Goto(f, "committing") /\ UNCHANGED <<compute, lock>>
    /\ UNCHANGED <<guest, charged, reclaim, mishaps>>

\* Nothing is given back for an instance whose copy says it was soft deleted:
\* its soft delete did that.
Releases(f) == f # "reclaim" /\ flow[f].vm # "soft-delete"
CommitDelete(f) ==
    /\ At(f, "committing")
    /\ charged' = charged - (IF Releases(f) THEN 1 ELSE 0)
    /\ End(f)
    /\ UNCHANGED <<row, guest, reclaim, mishaps>>
-----------------------------------------------------------------------------
(* The periodic tasks.                                                     *)

Copy(pc, op) == Step(pc, op, row.vm, row.task)

\* _sync_power_states reads the instances of the host, then takes each
\* instance's lock to ask the driver; it does not read the instance again.
SyncList ==
    /\ compute = "up" /\ At("sync", "idle") /\ ~row.gone
    /\ flow' = [flow EXCEPT !["sync"] =
                    [Copy("listed", "sync") EXCEPT !.seen = row.power]]
    /\ UNCHANGED <<row, guest, compute, lock, charged, reclaim, mishaps>>

SyncQuery ==
    /\ At("sync", "listed") /\ lock = None
    /\ IF flow["sync"].task # None
       THEN End("sync")
       ELSE /\ lock' = "sync"
            /\ flow' = [flow EXCEPT !["sync"] =
                   [@ EXCEPT !.seen = guest,
                             !.pc = IF flow["sync"].seen = guest THEN "agrees"
                                                                 ELSE "differs"]]
            /\ UNCHANGED compute
    /\ UNCHANGED <<row, guest, charged, reclaim, mishaps>>

\* A difference in power state is saved, and the save refreshes the copy; the
\* vm state compared with it is the one read before.  A stopped instance whose
\* guest runs becomes active.  A guest that stopped by itself is stopped through
\* the API, which checks the copy again unless the stop is forced.
\* Mutant of Resolve: a guest that shut itself down is left so.
ResolveSuspended(f, vm, seen, fresh) ==
    IF vm = "active" /\ seen = "suspended"
    THEN /\ flow' = [flow EXCEPT ![f] = Step("read", "stop", fresh.vm, None)]
         /\ UNCHANGED <<compute, lock>>
    ELSE End(f)
Resolve(f, vm, seen, fresh) ==
    CASE vm = "active" /\ seen \in {"shutdown", "suspended"} ->
            /\ flow' = [flow EXCEPT ![f] = Step("read", "stop", fresh.vm, None)]
            /\ UNCHANGED <<compute, lock>>
      [] vm = "paused" /\ seen = "shutdown" ->
            /\ flow' = [flow EXCEPT ![f] =
                            Step("read", "force_stop", fresh.vm, None)]
            /\ UNCHANGED <<compute, lock>>
      [] OTHER -> End(f)

SyncApply ==
    /\ flow["sync"].pc \in {"agrees", "differs"}
    /\ LET copy == flow["sync"]
           fresh == IF copy.pc = "differs" THEN row ELSE copy
           revived == /\ copy.vm = "stopped" /\ fresh.task = None
                      /\ copy.seen \in {"running", "suspended", "paused"}
       IN IF row.gone /\ (copy.pc = "differs" \/ revived)
          THEN End("sync") /\ UNCHANGED row
          ELSE /\ Save(IF revived THEN "active" ELSE row.vm, row.task,
                       IF copy.pc = "differs" \/ revived THEN copy.seen
                       ELSE row.power)
               /\ Resolve("sync", copy.vm, copy.seen, fresh)
    /\ UNCHANGED <<guest, charged, reclaim, mishaps>>

\* _reclaim_queued_deletes lists the soft deleted instances, then deletes them
\* one by one, with no lock and no second look.
ReclaimList ==
    /\ compute = "up" /\ reclaim /\ At("reclaim", "idle")
    /\ ~row.gone /\ row.vm = "soft-delete" /\ row.task = None
    /\ flow' = [flow EXCEPT !["reclaim"] = Copy("cast", "delete")]
    /\ UNCHANGED <<row, guest, compute, lock, charged, reclaim, mishaps>>

\* _cleanup_running_deleted_instances: the action is to reap.
\* Mutant of Reap: the action is to log.
ReapLogs ==
    /\ compute = "up" /\ row.gone /\ guest # None
    /\ UNCHANGED vars
Reap ==
    /\ compute = "up" /\ row.gone /\ guest # None
    /\ guest' = None
    /\ UNCHANGED <<row, compute, flow, lock, charged, reclaim, mishaps>>
-----------------------------------------------------------------------------
(* The compute service stops and starts; guests change by themselves.      *)

\* What a stopped service takes along: the handlers and its periodic tasks.
\* Requests in the API and casts in the queue stay.
Survives(f) ==
    \/ flow[f].pc \in {"idle", "done", "ignored"}
    \/ f \in Users /\ flow[f].pc \in {"read", "saved"}
    \/ f \in Users \cup {"sync"} /\ flow[f].pc = "cast"
Crash ==
    /\ compute # "down" /\ Count("crashes")
    /\ compute' = "down" /\ lock' = None
    /\ flow' = [f \in Flows |-> IF Survives(f) THEN flow[f]
                                ELSE IF f \in Users THEN [Idle EXCEPT !.pc = "done"]
                                ELSE Idle]
    /\ guest' \in {guest, IF guest = None THEN None ELSE "shutdown"}
    /\ UNCHANGED <<row, charged, reclaim>>

\* init_host lists the instances of the host, then initialises each.
Restart ==
    /\ compute = "down"
    /\ IF row.gone THEN compute' = "up" /\ UNCHANGED flow
       ELSE /\ compute' = "init"
            /\ flow' = [flow EXCEPT !["init"] = Copy("listed", "init")]
    /\ UNCHANGED <<row, guest, lock, charged, reclaim, mishaps>>
Retry(op) == /\ flow' = [flow EXCEPT !["init"].pc = "cast", !["init"].op = op]
             /\ UNCHANGED <<compute, lock>>

\* What _init_instance makes of the copy.
RetriedReboot(vm, task) ==
    \/ task = "reboot_pending" /\ vm = "active"
    \/ task = "reboot_pending_hard" /\ vm \in Reboot["hard_reboot"].from
    \/ task \in Rebooting /\ guest # "running"
Initialises(vm, task) ==
    /\ vm # "soft-delete"
    /\ vm = "error" => task = "deleting"

InitDeleted ==
    /\ flow["init"].vm = "deleted"
    /\ IF row.gone THEN UNCHANGED <<row, charged>>
       ELSE row' = [row EXCEPT !.gone = TRUE] /\ charged' = charged - 1
    /\ End("init")
InitDeleting ==
    /\ flow["init"].vm # "deleted" /\ flow["init"].task = "deleting"
    /\ Retry("delete") /\ UNCHANGED <<row, charged>>
InitReboot(vm, task) ==
    /\ RetriedReboot(vm, task)
    /\ Retry(IF guest = "running" /\ task \in {"reboot_started", "reboot_pending"}
             THEN "soft_reboot" ELSE "hard_reboot")
    /\ UNCHANGED <<row, charged>>
InitClear(task) ==
    /\ guest = "running" /\ task \in Rebooting \cup {"pausing", "unpausing"}
    /\ SaveAnyway("active", None, row.power)
    /\ End("init") /\ UNCHANGED charged
\* Mutant of InitRetry: a stop is not taken up again.
InitRetryNoStop(task) ==
    /\ \/ task = "unpausing" /\ guest = "paused" /\ Retry("unpause")
       \/ task = "powering-off" /\ End("init")
       \/ task = "powering-on" /\ Retry("start")
    /\ UNCHANGED <<row, charged>>
InitRetry(task) ==
    /\ \/ task = "unpausing" /\ guest = "paused" /\ Retry("unpause")
       \/ task = "powering-off" /\ Retry("stop")
       \/ task = "powering-on" /\ Retry("start")
    /\ UNCHANGED <<row, charged>>
InitNothing(vm, task) ==
    /\ vm # "deleted" /\ task # "deleting"
    /\ ~RetriedReboot(vm, task)
    /\ ~(guest = "running" /\ task \in Rebooting \cup {"pausing", "unpausing"})
    /\ ~(task = "unpausing" /\ guest = "paused")
    /\ task \notin {"powering-off", "powering-on"}
    /\ End("init") /\ UNCHANGED <<row, charged>>

InitInstance ==
    /\ At("init", "listed")
    /\ LET vm == flow["init"].vm  task == flow["init"].task
       IN IF Initialises(vm, task)
          THEN \/ InitDeleted
               \/ InitDeleting
               \/ vm # "deleted" /\ task # "deleting" /\ InitReboot(vm, task)
               \/ vm # "deleted" /\ InitClear(task)
               \/ vm # "deleted" /\ InitRetry(task)
               \/ InitNothing(vm, task)
          ELSE End("init") /\ UNCHANGED <<row, charged>>
    /\ UNCHANGED <<guest, reclaim, mishaps>>

\* A guest shuts itself down, or is started on the hypervisor.
Quirk ==
    /\ Count("others")
    /\ \/ guest = "running" /\ guest' = "shutdown"
       \/ guest = "shutdown" /\ guest' = "running"
    /\ UNCHANGED <<row, compute, flow, lock, charged, reclaim>>
-----------------------------------------------------------------------------
Ask(f) == AskPlain(f) \/ AskReboot(f) \/ AskDelete(f) \/ AnswerDelete(f)
Handle(f) ==
    \/ DrivePlain(f) \/ DrivePlainFails(f) \/ SavePlain(f)
    \/ RebootPending(f) \/ RebootStarted(f) \/ RebootDrive(f) \/ RebootEnd(f)
    \/ DestroyGuest(f) \/ DestroyGuestFails(f) \/ SaveDeleted(f)
    \/ DestroyRow(f) \/ CommitDelete(f)
Proceed(f) == Ask(f) \/ Handle(f)
SyncTask == SyncList \/ SyncQuery \/ SyncApply \/ Proceed("sync")
InitTask == Restart \/ InitInstance \/ Handle("init")

Next ==
    \/ \E u \in Users : Request(u) \/ Proceed(u)
    \/ SyncTask \/ InitTask
    \/ ReclaimList \/ Handle("reclaim") \/ Reap
    \/ Crash \/ Quirk

\* Requests already made are carried through, the service is restarted, the
\* periodic tasks run again and again; nobody has to ask for anything and
\* nothing has to fail.  Each of these is one thread, at one step at a time.
Spec ==
    /\ Init /\ [][Next]_vars
    /\ \A u \in Users : WF_vars(Proceed(u))
    /\ WF_vars(SyncTask) /\ WF_vars(InitTask)
    /\ WF_vars(Handle("reclaim")) /\ WF_vars(Reap)
-----------------------------------------------------------------------------
TypeOK ==
    /\ row.vm \in VmStates /\ row.power \in GuestStates /\ row.gone \in BOOLEAN
    /\ guest \in GuestStates /\ compute \in {"down", "init", "up"}
    /\ lock \in Flows \cup {None} /\ charged \in Int

\* The quota usage counts an instance until it is deleted and not longer: a
\* delete that is repeated, that fails half way or that a restart takes up
\* again gives back the instance once.  Only a restart between the destruction
\* of the row and the commit of the reservations leaves it counted.  (With a
\* reclaim interval it is not so: see the README.)
Released ==
    (~reclaim /\ \A f \in Flows : ~At(f, "committing")) =>
        \/ charged = IF row.gone THEN 0 ELSE 1
        \/ charged = 1 /\ row.gone /\ mishaps.crashes > 0

\* A stop or a start that was accepted ends: with its save, with the task state
\* cleared after a failure, preempted by a delete, retried by _init_instance
\* after a restart, or with the instance deleted.  (At a restart instances in
\* ERROR and soft deleted ones are left as they are.)
PowerTaskEnds ==
    \A t \in {"powering-off", "powering-on"} :
        (row.task = t /\ row.vm \notin {"error", "soft-delete"})
            ~> (row.gone \/ row.task # t \/ row.vm \in {"error", "soft-delete"})

\* When nothing happens any more the row and the guest agree, although the sync
\* decides on an instance it read earlier and saves without a condition: the
\* reason given for not reading it again (manager.py:6373) is that the
\* hypervisor is followed anyway.
Agree ==
    (~row.gone /\ row.task = None) =>
        /\ row.vm = "stopped" => guest \in Off
        /\ row.vm = "active" => guest \notin {"shutdown", "suspended"}
        /\ row.power = guest
PowerSettles == <>[]Agree

\* A guest that came back while its instance was deleted goes away.
DeletedGuestGoes == [](row.gone => <>(guest = None))
=============================================================================
