------------------------------- MODULE Quota -------------------------------
(***************************************************************************)
(* The quota engine of one project: DbQuotaDriver (quota.py) over the      *)
(* quota_usages and reservations tables (db/sqlalchemy/api.py), and the    *)
(* API requests and compute handlers that use it.                          *)
(*                                                                         *)
(* A request reserves, changes the records the quota counts, and commits,  *)
(* or rolls its reservation back.  It may stop anywhere: its process dies  *)
(* and the periodic reservation_expire gives back what it holds.  Every    *)
(* database transaction is one step, except reservation_expire, which      *)
(* reads without the row locks the other transactions take.                *)
(***************************************************************************)
EXTENDS Integers, FiniteSets, FiniteSetsExt

CONSTANTS
    Users,            \* the users of the project
    NoUser,           \* the owner (user_id NULL) of a per-project usage row
    Resources,        \* the resources with a usage row ("reservable")
    PerProject,       \* PER_PROJECT_QUOTAS: counted for the project
    SyncWith,         \* the resources that the sync routine of r counts
    ProjectQuota,     \* limit of each resource for the project, -1: unlimited
    UserQuota,        \* limit of each resource for each user, -1: unlimited
    UntilRefresh,     \* CONF.until_refresh, 0: never refresh by count
    MaxAge,           \* CONF.max_age is set: usage rows may be too old
    Ops,              \* the requests; each reserves at most once
    Deltas,           \* what a request may ask for: partial functions
    InitialActual,    \* the records that exist at the start
    MaxDelta,         \* bound on the absolute value of a delta
    MaxActual,        \* bound on the records that exist, per row
    ExpireIsolated,   \* reservation_expire sees no concurrent transaction
    AdminOps          \* the administrative calls that are made

Owner(r, u) == IF r \in PerProject THEN NoUser ELSE u

Row(r, u) == <<r, Owner(r, u)>>

Rows == {Row(r, u) : r \in Resources, u \in Users}

ASSUME QuotaAssumption ==
    /\ NoUser \notin Users /\ IsFiniteSet(Users)
    /\ PerProject \subseteq Resources
    /\ SyncWith \in [Resources -> SUBSET Resources]
    /\ \A r \in Resources : r \in SyncWith[r]
    /\ ProjectQuota \in [Resources -> Int]
    /\ UserQuota \in [Resources -> Int]
    /\ UntilRefresh \in Nat
    /\ MaxAge \in BOOLEAN
    /\ IsFiniteSet(Ops)
    /\ MaxDelta \in Nat
    /\ \A d \in Deltas :
          /\ DOMAIN d \subseteq Resources
          /\ \A r \in DOMAIN d : d[r] \in (-MaxDelta) .. MaxDelta
          /\ d = [r \in DOMAIN d |-> d[r]]
    /\ MaxActual \in Nat
    /\ InitialActual \in [Rows -> 0 .. MaxActual]
    /\ ExpireIsolated \in BOOLEAN
    /\ AdminOps \subseteq {"usage_reset", "destroy_user", "destroy_project"}

VARIABLES
    rows,       \* the usage rows that exist (not soft deleted)
    inUse,      \* quota_usages.in_use of each row
    reserved,   \* quota_usages.reserved of each row
    until,      \* quota_usages.until_refresh of each row, 0 for NULL
    miscounted, \* the rows counted anew while a request's change was not
                \* counted yet, or reset: to state what in_use promises
    by,         \* the user who makes each request
    asks,       \* the delta of each resource the request asks for
    status,     \* the state of the reservations of each request
    client,     \* how far each request has got
    late,       \* the requests whose reservations are past their expire time
    actual,     \* what the sync routine would count for each row
    expiring    \* what a reservation_expire in progress has read

usage == <<rows, inUse, reserved, until, miscounted>>

vars == <<usage, by, asks, status, client, late, actual, expiring>>

-----------------------------------------------------------------------------
(* The requests and their reservations. *)

\* The code tells live from deleted; the model also remembers how a
\* reservation ended.
Ended == {"committed", "rolledback", "expired", "destroyed"}

Live == {o \in Ops : status[o] = "live"}

OpRow(o, r) == Row(r, by[o])

\* The units that the requests in S add to row w, or with sign -1 take from it:
\* one for each unit of a delta.  Reservations hold those that are added.
Units(w, S, sign) ==
    {p \in S \X (1 .. MaxDelta) :
        \E r \in DOMAIN asks[p[1]] :
            OpRow(p[1], r) = w /\ p[2] <= sign * asks[p[1]][r]}

Held(w, S) == Cardinality(Units(w, S, 1))
Taken(w, S) == Cardinality(Units(w, S, -1))

\* The change that request o makes to row w, 0 when it makes none.
Change(w, o) ==
    IF \E r \in DOMAIN asks[o] : OpRow(o, r) = w THEN asks[o][w[1]] ELSE 0

IsCreate(o) == \A r \in DOMAIN asks[o] : asks[o][r] >= 0

NoExpiry == [ops |-> {}, seen |-> [w \in {} |-> 0]]

Init ==
    /\ rows = {}
    /\ inUse = [w \in Rows |-> 0]
    /\ reserved = [w \in Rows |-> 0]
    /\ until = [w \in Rows |-> 0]
    /\ miscounted = {}
    /\ by \in [Ops -> Users]
    /\ asks \in [Ops -> Deltas]
    /\ status = [o \in Ops |-> "none"]
    /\ client = [o \in Ops |-> "idle"]
    /\ late = {}
    /\ actual = InitialActual
    /\ expiring = NoExpiry

-----------------------------------------------------------------------------
(* quota_reserve. *)

\* _is_quota_refresh_needed, and the rows that do not exist yet.  The max_age
\* test can only be true of the rows in old.
NeedsRefresh(w, old) ==
    \/ w \notin rows
    \/ inUse[w] < 0
    \/ until[w] # 0 /\ until[w] - 1 <= 0
    \/ until[w] = 0 /\ w \in old

\* The rows that the sync routines overwrite: one routine counts several
\* resources, and its result is stored for all of them.
Refreshed(o, old) ==
    {OpRow(o, s) : s \in UNION {SyncWith[r] :
        r \in {q \in DOMAIN asks[o] : NeedsRefresh(OpRow(o, q), old)}}}

InUseAfter(o, old) ==
    [w \in Rows |-> IF w \in Refreshed(o, old) THEN actual[w] ELSE inUse[w]]

\* Mutant of UntilAfter: the test for NULL is missing.
UntilAfterNoNullTest(o, old) ==
    [w \in Rows |->
        IF w \in Refreshed(o, old) THEN UntilRefresh
        ELSE IF \E r \in DOMAIN asks[o] : OpRow(o, r) = w THEN until[w] - 1
             ELSE until[w]]

UntilAfter(o, old) ==
    [w \in Rows |->
        IF w \in Refreshed(o, old) THEN UntilRefresh
        ELSE IF (\E r \in DOMAIN asks[o] : OpRow(o, r) = w) /\ until[w] # 0
             THEN until[w] - 1
             ELSE until[w]]

\* The requests whose change of the records was not added to in_use: not
\* committed yet, or committed after the reservation was gone.
Uncounted ==
    {o \in Ops : client[o] \in {"applied", "done", "lost"}
                 /\ status[o] # "committed"}
Pending(w) == \E o \in Uncounted : Change(w, o) # 0

\* The refresh is part of the transaction, and kept even when the answer is no.
RefreshUsages(o, old) ==
    /\ rows' = rows \cup Refreshed(o, old)
    /\ inUse' = InUseAfter(o, old)
    /\ until' = UntilAfter(o, old)
    /\ miscounted' = (miscounted \ Refreshed(o, old))
                        \cup {w \in Refreshed(o, old) : Pending(w)}

\* The rows of resource r, and the sum of a column over some rows.
RowsOf(r) == {w \in Rows : w[1] = r}
Sum(column, S) == MapThenSumSet(LAMBDA w : column[w], S)

\* Mutant of ProjectTotal: what other requests hold is not counted.
ProjectTotalInUseOnly(o, r, old) == Sum(inUse, RowsOf(r) \cap rows)

\* in_use + reserved of the project as _get_project_user_quota_usages read
\* them, before the refresh; the refreshed row itself when there was none.
ProjectTotal(o, r, old) ==
    LET held == RowsOf(r) \cap rows
    IN  IF held = {} THEN InUseAfter(o, old)[OpRow(o, r)]
        ELSE Sum(inUse, held) + Sum(reserved, held)

\* The rows of the user are the objects that the refresh wrote to.
UserTotal(o, r, old) ==
    InUseAfter(o, old)[OpRow(o, r)] + reserved[OpRow(o, r)]

\* _calculate_overquota
OverQuota(o, old) ==
    \E r \in DOMAIN asks[o] :
        /\ UserQuota[r] >= 0
        /\ asks[o][r] >= 0
        /\ \/ ProjectQuota[r] < asks[o][r] + ProjectTotal(o, r, old)
           \/ UserQuota[r] < asks[o][r] + UserTotal(o, r, old)

\* What a user may ask for: to remove records that are there and that no other
\* request is removing, or to add some.
MayAsk(o) ==
    LET leaving(w) == {p \in Ops : client[p] = "reserved" /\ Change(w, p) < 0}
    IN  \A r \in DOMAIN asks[o] :
            LET w == OpRow(o, r)
            IN  asks[o][r] < 0 =>
                  actual[w] + MapThenSumSet(LAMBDA p : Change(w, p), leaving(w))
                     + asks[o][r] >= 0

Reserve(o, old) ==
    /\ client[o] = "idle"
    /\ MayAsk(o)
    /\ ~OverQuota(o, old)
    /\ RefreshUsages(o, old)
    /\ reserved' = [w \in Rows |->
                      IF Change(w, o) > 0 THEN reserved[w] + Change(w, o)
                      ELSE reserved[w]]
    /\ status' = [status EXCEPT ![o] = "live"]
    /\ client' = [client EXCEPT ![o] = "reserved"]
    /\ UNCHANGED <<by, asks, late, actual, expiring>>

\* OverQuota is raised after the transaction has committed the refresh.
Refuse(o, old) ==
    /\ client[o] = "idle"
    /\ MayAsk(o)
    /\ OverQuota(o, old)
    /\ RefreshUsages(o, old)
    /\ client' = [client EXCEPT ![o] = "refused"]
    /\ UNCHANGED <<reserved, by, asks, status, late, actual, expiring>>

-----------------------------------------------------------------------------
(* What a request does with its reservation. *)

\* The records are created or destroyed between reserve and commit, whether or
\* not the reservation is still there.
Apply(o) ==
    /\ client[o] = "reserved"
    /\ \A w \in Rows : actual[w] + Change(w, o) \in 0 .. MaxActual
    /\ actual' = [w \in Rows |-> actual[w] + Change(w, o)]
    /\ client' = [client EXCEPT ![o] = "applied"]
    /\ UNCHANGED <<usage, by, asks, status, late, expiring>>

\* A request that fails after it created records destroys them again and then
\* rolls back (_provision_instances).
Undo(o) ==
    /\ client[o] = "applied"
    /\ IsCreate(o)
    /\ \A w \in Rows : actual[w] - Change(w, o) >= 0
    /\ actual' = [w \in Rows |-> actual[w] - Change(w, o)]
    /\ client' = [client EXCEPT ![o] = "failed"]
    /\ UNCHANGED <<usage, by, asks, status, late, expiring>>

\* reserved goes down by every positive delta of the reservations of S.
Release(S) == reserved' = [w \in Rows |-> reserved[w] - Held(w, S)]

\* Mutant of Commit: reservations that are gone are committed as well.
CommitDeleted(o) ==
    /\ client[o] = "applied"
    /\ Release({o})
    /\ inUse' = [w \in Rows |-> inUse[w] + Change(w, o)]
    /\ status' = [status EXCEPT ![o] = "committed"]
    /\ client' = [client EXCEPT ![o] = "done"]
    /\ UNCHANGED <<rows, until, miscounted, by, asks, late, actual, expiring>>

\* Mutant of Commit: negative deltas are not subtracted from in_use.
CommitOnlyPositive(o) ==
    /\ client[o] = "applied"
    /\ IF o \in Live
       THEN /\ Release({o})
            /\ inUse' = [w \in Rows |-> inUse[w] + Held(w, {o})]
            /\ status' = [status EXCEPT ![o] = "committed"]
       ELSE UNCHANGED <<reserved, inUse, status>>
    /\ client' = [client EXCEPT ![o] = "done"]
    /\ UNCHANGED <<rows, until, miscounted, by, asks, late, actual, expiring>>

\* reservation_commit: nothing happens to reservations that are gone.
Commit(o) ==
    /\ client[o] = "applied"
    /\ IF o \in Live
       THEN /\ Release({o})
            /\ inUse' = [w \in Rows |-> inUse[w] + Change(w, o)]
            /\ status' = [status EXCEPT ![o] = "committed"]
       ELSE UNCHANGED <<reserved, inUse, status>>
    /\ client' = [client EXCEPT ![o] = "done"]
    /\ UNCHANGED <<rows, until, miscounted, by, asks, late, actual, expiring>>

\* QuotaEngine.commit swallows whatever the driver raises: the request goes on
\* as if it had committed.
CommitFails(o) ==
    /\ client[o] = "applied"
    /\ client' = [client EXCEPT ![o] = "lost"]
    /\ UNCHANGED <<usage, by, asks, status, late, actual, expiring>>

\* reservation_rollback
Rollback(o) ==
    /\ client[o] \in {"reserved", "failed"}
    /\ IF o \in Live
       THEN /\ Release({o})
            /\ status' = [status EXCEPT ![o] = "rolledback"]
       ELSE UNCHANGED <<reserved, status>>
    /\ client' = [client EXCEPT ![o] = "undone"]
    /\ UNCHANGED <<rows, inUse, until, miscounted, by, asks, late, actual, expiring>>

-----------------------------------------------------------------------------
(* The periodic reservation_expire. *)

\* Time passes: the expire time of the reservations of o is over.
Lapse(o) ==
    /\ o \in Live \ late
    /\ late' = late \cup {o}
    /\ UNCHANGED <<usage, by, asks, status, client, actual, expiring>>

\* Mutant of Overdue: the comparison with the current time is the wrong way.
NotYetOverdue == Live \ late

Overdue == Live \cap late

MarkExpired(S) ==
    status' = [o \in Ops |-> IF o \in S \cap Live THEN "expired"
                             ELSE status[o]]

Expire ==
    /\ ExpireIsolated
    /\ Overdue # {}
    /\ Release(Overdue)
    /\ MarkExpired(Overdue)
    /\ UNCHANGED <<rows, inUse, until, miscounted, by, asks, client, late, actual, expiring>>

\* The SELECT of the reservations joined with their usage rows takes no lock.
ExpireRead ==
    /\ ~ExpireIsolated
    /\ expiring = NoExpiry
    /\ Overdue # {}
    /\ expiring' = [ops  |-> Overdue,
                    seen |-> [w \in {v \in Rows : Units(v, Overdue, 1) # {}} |->
                                reserved[w]]]
    /\ UNCHANGED <<usage, by, asks, status, client, late, actual>>

\* The UPDATEs store the value read minus the deltas; the soft delete takes
\* the reservations that are still live.
ExpireWrite ==
    /\ expiring # NoExpiry
    /\ reserved' = [w \in Rows |->
                      IF w \in DOMAIN expiring.seen
                      THEN expiring.seen[w] - Held(w, expiring.ops)
                      ELSE reserved[w]]
    /\ MarkExpired(expiring.ops)
    /\ expiring' = NoExpiry
    /\ UNCHANGED <<rows, inUse, until, miscounted, by, asks, client, late, actual>>

-----------------------------------------------------------------------------
(* The administrative calls. *)

\* usage_reset: in_use = -1 forces a refresh by the next reserve.
UsageReset(u, r) ==
    /\ "usage_reset" \in AdminOps
    /\ Row(r, u) \in rows
    /\ inUse[Row(r, u)] >= 0
    /\ inUse' = [inUse EXCEPT ![Row(r, u)] = -1]
    /\ miscounted' = miscounted \cup {Row(r, u)}
    /\ UNCHANGED <<rows, reserved, until, by, asks, status, client, late,
                   actual, expiring>>

\* Soft deletes the usage rows in W and the reservations of the requests in S.
Destroy(W, S) ==
    /\ rows' = rows \ W
    /\ inUse' = [w \in Rows |-> IF w \in W THEN 0 ELSE inUse[w]]
    /\ reserved' = [w \in Rows |-> IF w \in W THEN 0 ELSE reserved[w]]
    /\ until' = [w \in Rows |-> IF w \in W THEN 0 ELSE until[w]]
    /\ status' = [o \in Ops |-> IF o \in S \cap Live THEN "destroyed"
                                ELSE status[o]]
    /\ expiring' = [ops |-> expiring.ops,
                    seen |-> [w \in DOMAIN expiring.seen \ W |->
                                expiring.seen[w]]]
    /\ UNCHANGED <<miscounted, by, asks, client, late, actual>>

\* Mutant of DestroyUser: the reservations of the user are left behind.
DestroyUserRowsOnly(u) ==
    /\ "destroy_user" \in AdminOps
    /\ \E w \in rows : w[2] = u
    /\ Destroy({w \in Rows : w[2] = u}, {})

\* quota_destroy_all_by_project_and_user: the rows of the user and all the
\* reservations of the user, those on per-project rows included.
DestroyUser(u) ==
    /\ "destroy_user" \in AdminOps
    /\ (\E w \in rows : w[2] = u) \/ (\E o \in Live : by[o] = u)
    /\ Destroy({w \in Rows : w[2] = u}, {o \in Ops : by[o] = u})

\* quota_destroy_all_by_project
DestroyProject ==
    /\ "destroy_project" \in AdminOps
    /\ rows # {}
    /\ Destroy(Rows, Ops)

-----------------------------------------------------------------------------
\* The rows that may be older than max_age.
Aged == IF MaxAge THEN SUBSET rows ELSE {{}}

Next ==
    \/ \E o \in Ops :
          \/ \E old \in Aged : Reserve(o, old) \/ Refuse(o, old)
          \/ Apply(o) \/ Undo(o) \/ Commit(o) \/ CommitFails(o) \/ Rollback(o)
          \/ Lapse(o)
    \/ Expire \/ ExpireRead \/ ExpireWrite
    \/ \E u \in Users, r \in Resources : UsageReset(u, r)
    \/ \E u \in Users : DestroyUser(u)
    \/ DestroyProject

Spec == Init /\ [][Next]_vars

\* Clocks advance, and the periodic task runs in a process that is up; nothing
\* is assumed of the requests.
Fairness ==
    /\ \A o \in Ops : WF_vars(Lapse(o))
    /\ WF_vars(Expire \/ ExpireRead)
    /\ WF_vars(ExpireWrite)

FairSpec == Spec /\ Fairness

-----------------------------------------------------------------------------
(* Properties. *)

\* The type invariant of the tables, the requests and the expiry in progress.
TypeOK ==
    /\ rows \subseteq Rows
    /\ inUse \in [Rows -> Int]
    /\ reserved \in [Rows -> Int]
    /\ until \in [Rows -> 0 .. UntilRefresh]
    /\ miscounted \subseteq Rows
    /\ by \in [Ops -> Users]
    /\ asks \in [Ops -> Deltas]
    /\ status \in [Ops -> {"none", "live"} \cup Ended]
    /\ client \in [Ops -> {"idle", "refused", "reserved", "applied", "failed",
                           "done", "lost", "undone"}]
    /\ late \subseteq Ops
    /\ actual \in [Rows -> Int]
    /\ expiring.ops \subseteq Ops
    /\ DOMAIN expiring.seen \subseteq Rows
    /\ \A w \in DOMAIN expiring.seen : expiring.seen[w] \in Int

\* What a user's row says is reserved is exactly what the live reservations on
\* it hold, after any mix of commits, rollbacks, expiry, refreshes and
\* destroyed users.  (A per-project row keeps what the reservations of a
\* destroyed user held, so it is not included.)
ReservedIsOutstanding ==
    \A w \in Rows : w[2] # NoUser => reserved[w] = Held(w, Live)

\* The usage rows of a live reservation exist: commit and rollback find
\* user_usages[reservation.resource] whatever was destroyed in between.
LiveHasRow ==
    \A o \in Live : \A r \in DOMAIN asks[o] : OpRow(o, r) \in rows

\* in_use is the number of records less what the requests that are not counted
\* have changed: no commit, rollback or expiry counts a request twice or not at
\* all, and a refresh makes good what is wrong unless a request is between its
\* change and its commit.
InUseCountsCommitted ==
    \A w \in rows \ miscounted :
        inUse[w] + Held(w, Uncounted) = actual[w] + Taken(w, Uncounted)

\* A reservation that is granted leaves the user within the user's quota and
\* the project within the project's, whatever the requests interleave.  The
\* total of the project is summed over the rows there are, and before they are
\* refreshed: that half is promised when no row with records is missing and the
\* refresh does not count the user's row anew from, or to, something else than
\* what was committed.
AdmittedWithinQuota ==
    [][\A o \in Ops : status[o] = "none" /\ status'[o] = "live" =>
        \A r \in DOMAIN asks[o] :
            LET mine == OpRow(o, r)
                asBefore == \/ inUse'[mine] = inUse[mine]
                            \/ mine \notin miscounted \cup miscounted'
            IN  asks[o][r] >= 0 /\ UserQuota[r] >= 0 =>
                /\ inUse'[mine] + reserved'[mine] <= UserQuota[r]
                /\ asBefore /\ (\A w \in RowsOf(r) \ rows : actual[w] = 0) =>
                      Sum(inUse', RowsOf(r)) + Sum(reserved', RowsOf(r))
                          <= ProjectQuota[r]]_vars

\* Reservations do not outlive their requests for ever: also those of a request
\* that died holding them end, so its quota comes back.
EveryReservationEnds ==
    \A o \in Ops : (status[o] = "live") ~> (status[o] # "live")
=============================================================================
