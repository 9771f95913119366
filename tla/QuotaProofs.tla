---------------------------- MODULE QuotaProofs ----------------------------
(***************************************************************************)
(* Theorems about Quota for any number of users, resources and requests,   *)
(* any limits and any refresh settings.                                    *)
(***************************************************************************)
EXTENDS Quota, SumProofs, FiniteSetTheorems, TLAPS

-----------------------------------------------------------------------------
(* The rows of a request. *)

\* A request's delta of a resource is an integer, and its row a usage row.
LEMMA DeltaType ==
  ASSUME by \in [Ops -> Users], asks \in [Ops -> Deltas],
         NEW o \in Ops, NEW r \in DOMAIN asks[o]
  PROVE  /\ r \in Resources
         /\ asks[o][r] \in Int
         /\ asks[o][r] <= MaxDelta /\ -MaxDelta <= asks[o][r]
         /\ OpRow(o, r) \in Rows
         /\ OpRow(o, r)[1] = r
<1>1. asks[o] \in Deltas /\ by[o] \in Users
  OBVIOUS
<1>2. r \in Resources /\ asks[o][r] \in (-MaxDelta) .. MaxDelta
  BY <1>1, QuotaAssumption
<1>3. MaxDelta \in Nat
  BY QuotaAssumption
<1> QED
  BY <1>1, <1>2, <1>3 DEF OpRow, Row, Rows

\* The change a request makes to a row is an integer.
LEMMA ChangeType ==
  ASSUME by \in [Ops -> Users], asks \in [Ops -> Deltas],
         NEW o \in Ops, NEW w \in Rows
  PROVE  Change(w, o) \in Int /\ Change(w, o) <= MaxDelta /\ -MaxDelta <= Change(w, o)
<1>1. CASE \E r \in DOMAIN asks[o] : OpRow(o, r) = w
  <2>1. PICK r \in DOMAIN asks[o] : OpRow(o, r) = w
    BY <1>1
  <2>2. w[1] = r
    BY <2>1, DeltaType
  <2> QED
    BY <1>1, <2>1, <2>2, DeltaType DEF Change
<1>2. CASE ~ \E r \in DOMAIN asks[o] : OpRow(o, r) = w
  BY <1>2, QuotaAssumption DEF Change
<1> QED
  BY <1>1, <1>2

-----------------------------------------------------------------------------
(* What reservations hold. *)

\* The units of a set of requests are finite in number.
LEMMA UnitsFinite ==
  ASSUME NEW w, NEW S \in SUBSET Ops, NEW sign
  PROVE  IsFiniteSet(Units(w, S, sign)) /\ Cardinality(Units(w, S, sign)) \in Nat
<1>1. IsFiniteSet(S)
  BY FS_Subset, QuotaAssumption
<1>2. IsFiniteSet(S \X (1 .. MaxDelta))
  <2>1. MaxDelta \in Int /\ 1 \in Int
    BY QuotaAssumption
  <2>2. IsFiniteSet(1 .. MaxDelta)
    BY <2>1, FS_Interval
  <2> QED
    BY <1>1, <2>2, FS_Product
<1>3. Units(w, S, sign) \subseteq S \X (1 .. MaxDelta)
  BY DEF Units
<1>4. IsFiniteSet(Units(w, S, sign))
  BY <1>2, <1>3, FS_Subset
<1> QED
  BY <1>4, FS_CardinalityType
LEMMA HeldType ==
  ASSUME NEW w, NEW S \in SUBSET Ops
  PROVE  Held(w, S) \in Nat /\ Taken(w, S) \in Nat
BY UnitsFinite DEF Held, Taken

\* Requests that end give back their units and leave the rest.
LEMMA UnitsRemove ==
  ASSUME NEW w, NEW S \in SUBSET Ops, NEW T \in SUBSET S, NEW sign
  PROVE  Cardinality(Units(w, S \ T, sign))
            = Cardinality(Units(w, S, sign)) - Cardinality(Units(w, T, sign))
<1>1. Units(w, S, sign) = Units(w, S \ T, sign) \cup Units(w, T, sign)
  BY DEF Units
<1>2. Units(w, S \ T, sign) \cap Units(w, T, sign) = {}
  BY DEF Units
<1>3. /\ IsFiniteSet(Units(w, S \ T, sign)) /\ Cardinality(Units(w, S \ T, sign)) \in Nat
      /\ IsFiniteSet(Units(w, T, sign)) /\ Cardinality(Units(w, T, sign)) \in Nat
  BY UnitsFinite
<1>4. Cardinality(Units(w, S, sign))
         = Cardinality(Units(w, S \ T, sign)) + Cardinality(Units(w, T, sign)) - Cardinality({})
  BY <1>1, <1>2, <1>3, FS_Union
<1> QED
  BY <1>3, <1>4, FS_EmptySet
LEMMA HeldRemove ==
  ASSUME NEW w, NEW S \in SUBSET Ops, NEW T \in SUBSET S
  PROVE  /\ Held(w, S \ T) = Held(w, S) - Held(w, T)
         /\ Taken(w, S \ T) = Taken(w, S) - Taken(w, T)
BY UnitsRemove DEF Held, Taken

\* One request has on a row as many units as it asked for.
LEMMA UnitsByOne ==
  ASSUME by \in [Ops -> Users], asks \in [Ops -> Deltas],
         NEW o \in Ops, NEW w \in Rows, NEW sign \in {1, -1}
  PROVE  Cardinality(Units(w, {o}, sign))
            = IF sign * Change(w, o) > 0 THEN sign * Change(w, o) ELSE 0
<1> DEFINE c == sign * Change(w, o)
<1>1. c \in Int /\ c <= MaxDelta /\ MaxDelta \in Nat
  <2>1. /\ Change(w, o) \in Int /\ Change(w, o) <= MaxDelta /\ -MaxDelta <= Change(w, o)
        /\ MaxDelta \in Nat
    BY ChangeType, QuotaAssumption
  <2>2. CASE sign = 1
    BY <2>1, <2>2
  <2>3. CASE sign = -1
    BY <2>1, <2>3
  <2> QED
    BY <2>2, <2>3
<1>2. Units(w, {o}, sign) = {o} \X (1 .. c)
  <2>1. CASE \E r \in DOMAIN asks[o] : OpRow(o, r) = w
    <3>1. c = sign * asks[o][w[1]]
      BY <2>1 DEF Change
    <3>2. \A r \in DOMAIN asks[o] : OpRow(o, r) = w => r = w[1]
      BY DeltaType
    <3>3. \A i \in 1 .. MaxDelta :
             (\E r \in DOMAIN asks[o] : OpRow(o, r) = w /\ i <= sign * asks[o][r])
               <=> i <= c
      BY <2>1, <3>1, <3>2
    <3> HIDE DEF c
    <3>5. \A i \in 1 .. c : i \in 1 .. MaxDelta
      BY <1>1
    <3>6. \A i \in 1 .. MaxDelta : <<o, i>> \in Units(w, {o}, sign) <=> i <= c
      BY <3>3 DEF Units
    <3>7. \A p \in Units(w, {o}, sign) : p = <<o, p[2]>> /\ p[2] \in 1 .. MaxDelta
      BY DEF Units
    <3>8. Units(w, {o}, sign) \subseteq {o} \X (1 .. c)
      <4>1. \A i \in 1 .. MaxDelta : i <= c => i \in 1 .. c
        BY <1>1
      <4>2. \A p \in Units(w, {o}, sign) : p = <<o, p[2]>> /\ p[2] \in 1 .. c
        BY <3>6, <3>7, <4>1
      <4>3. \A i \in 1 .. c : <<o, i>> \in {o} \X (1 .. c)
        OBVIOUS
      <4> QED
        BY <4>2, <4>3
    <3>9. {o} \X (1 .. c) \subseteq Units(w, {o}, sign)
      <4> SUFFICES ASSUME NEW i \in 1 .. c PROVE <<o, i>> \in Units(w, {o}, sign)
        OBVIOUS
      <4> QED
        BY <1>1, <3>5, <3>6
    <3>4. Units(w, {o}, sign) = {o} \X (1 .. c)
      BY <3>8, <3>9
    <3> QED
      BY <3>4
  <2>2. CASE ~ \E r \in DOMAIN asks[o] : OpRow(o, r) = w
    <3>1. c = 0
      BY <2>2 DEF Change
    <3>2. Units(w, {o}, sign) = {}
      BY <2>2 DEF Units
    <3> HIDE DEF c
    <3>3. 1 .. c = {}
      BY <3>1
    <3> QED
      BY <3>2, <3>3
  <2> QED
    BY <2>1, <2>2
<1> HIDE DEF c
<1>3. /\ IsFiniteSet({o}) /\ Cardinality({o}) = 1
      /\ IsFiniteSet(1 .. c)
      /\ Cardinality(1 .. c) = IF 1 > c THEN 0 ELSE c - 1 + 1
  <2>1. IsFiniteSet({o}) /\ Cardinality({o}) = 1
    BY FS_Singleton
  <2>2. 1 \in Int /\ c \in Int
    BY <1>1
  <2> QED
    BY <2>1, <2>2, FS_Interval
<1>4. Cardinality(Units(w, {o}, sign)) = 1 * Cardinality(1 .. c)
  BY <1>2, <1>3, FS_Product
<1> QED
  BY <1>1, <1>3, <1>4 DEF c
LEMMA HeldByOne ==
  ASSUME by \in [Ops -> Users], asks \in [Ops -> Deltas],
         NEW o \in Ops, NEW w \in Rows
  PROVE  /\ Held(w, {o}) = IF Change(w, o) > 0 THEN Change(w, o) ELSE 0
         /\ Held(w, {o}) - Taken(w, {o}) = Change(w, o)
<1>1. Change(w, o) \in Int
  BY ChangeType
<1>2. Cardinality(Units(w, {o}, 1)) = IF Change(w, o) > 0 THEN Change(w, o) ELSE 0
  <2>1. 1 * Change(w, o) = Change(w, o) /\ 1 \in {1, -1}
    BY <1>1
  <2> QED
    BY <2>1, UnitsByOne
<1>3. Cardinality(Units(w, {o}, -1)) = IF -Change(w, o) > 0 THEN -Change(w, o) ELSE 0
  <2>1. (-1) * Change(w, o) = -Change(w, o) /\ -1 \in {1, -1}
    BY <1>1
  <2> QED
    BY <2>1, UnitsByOne
<1> QED
  BY <1>1, <1>2, <1>3 DEF Held, Taken

-----------------------------------------------------------------------------
(* Type correctness. *)

LEMMA NoExpiryType == NoExpiry.ops = {} /\ DOMAIN NoExpiry.seen = {}
BY DEF NoExpiry

LEMMA InitType == Init => TypeOK
<1> SUFFICES ASSUME Init PROVE TypeOK
  OBVIOUS
<1>1. actual \in [Rows -> Int] /\ UntilRefresh \in Nat
  BY QuotaAssumption DEF Init
<1> QED
  BY <1>1, NoExpiryType DEF Init, TypeOK

\* The part of a reserve that grants and refusals share.
LEMMA RefreshType ==
  ASSUME TypeOK, NEW o \in Ops, NEW old, RefreshUsages(o, old)
  PROVE  /\ rows' \subseteq Rows
         /\ inUse' \in [Rows -> Int]
         /\ until' \in [Rows -> 0 .. UntilRefresh]
         /\ miscounted' \subseteq Rows
         /\ rows \subseteq rows'
         /\ \A r \in DOMAIN asks[o] : OpRow(o, r) \in rows'
<1>1. \A r \in Resources : OpRow(o, r) \in Rows
  BY DEF TypeOK, OpRow, Row, Rows
<1>2. \A r \in DOMAIN asks[o] :
         r \in Resources /\ r \in SyncWith[r] /\ SyncWith[r] \subseteq Resources
  BY DeltaType, QuotaAssumption DEF TypeOK
<1>3. Refreshed(o, old) \subseteq Rows
  BY <1>1, <1>2 DEF Refreshed
<1>4. \A r \in DOMAIN asks[o] :
         OpRow(o, r) \in rows \/ OpRow(o, r) \in Refreshed(o, old)
  BY <1>2 DEF Refreshed, NeedsRefresh
<1>5. UntilRefresh \in Nat
  BY QuotaAssumption
<1>6. \A w \in Rows : until[w] # 0 => until[w] - 1 \in 0 .. UntilRefresh
  BY <1>5 DEF TypeOK
<1>7. until' \in [Rows -> 0 .. UntilRefresh]
  BY <1>5, <1>6 DEF TypeOK, RefreshUsages, UntilAfter
<1> QED
  BY <1>3, <1>4, <1>7 DEF TypeOK, RefreshUsages, InUseAfter

LEMMA ReleaseType ==
  ASSUME TypeOK, NEW S \in SUBSET Ops, Release(S)
  PROVE  reserved' \in [Rows -> Int]
<1>1. \A w \in Rows : Held(w, S) \in Nat
  BY HeldType
<1> QED
  BY <1>1 DEF Release, TypeOK

LEMMA RequestType ==
  ASSUME TypeOK, NEW o \in Ops,
         \/ \E old \in Aged : Reserve(o, old) \/ Refuse(o, old)
         \/ Apply(o) \/ Undo(o) \/ Commit(o) \/ CommitFails(o) \/ Rollback(o)
         \/ Lapse(o)
  PROVE  TypeOK'
<1>1. \A w \in Rows : Change(w, o) \in Int
  BY ChangeType DEF TypeOK
<1>2. ASSUME NEW old, Reserve(o, old) PROVE TypeOK'
  <2>1. RefreshUsages(o, old)
    BY <1>2 DEF Reserve
  <2>2. reserved' \in [Rows -> Int]
    BY <1>1, <1>2 DEF Reserve, TypeOK
  <2> QED
    BY <1>2, <2>1, <2>2, RefreshType DEF Reserve, TypeOK, Ended
<1>3. ASSUME NEW old, Refuse(o, old) PROVE TypeOK'
  <2>1. RefreshUsages(o, old)
    BY <1>3 DEF Refuse
  <2> QED
    BY <1>3, <2>1, RefreshType DEF Refuse, TypeOK, Ended
<1>4. CASE Apply(o)
  BY <1>1, <1>4 DEF Apply, TypeOK, usage
<1>5. CASE Undo(o)
  BY <1>1, <1>5 DEF Undo, TypeOK, usage
<1>6. CASE Commit(o)
  <2>1. reserved' \in [Rows -> Int]
    BY <1>6, ReleaseType DEF Commit, TypeOK
  <2>2. inUse' \in [Rows -> Int]
    BY <1>1, <1>6 DEF Commit, TypeOK
  <2> QED
    BY <1>6, <2>1, <2>2 DEF Commit, TypeOK, Ended
<1>7. CASE Rollback(o)
  <2>1. reserved' \in [Rows -> Int]
    BY <1>7, ReleaseType DEF Rollback, TypeOK
  <2> QED
    BY <1>7, <2>1 DEF Rollback, TypeOK, Ended
<1>8. CASE Lapse(o)
  BY <1>8 DEF Lapse, TypeOK, usage, Live
<1>9. CASE CommitFails(o)
  BY <1>9 DEF CommitFails, TypeOK, usage
<1> QED
  BY <1>2, <1>3, <1>4, <1>5, <1>6, <1>7, <1>8, <1>9

LEMMA ExpiryType ==
  ASSUME TypeOK, Expire \/ ExpireRead \/ ExpireWrite
  PROVE  TypeOK'
<1>1. Overdue \subseteq Ops /\ expiring.ops \subseteq Ops
  BY DEF Overdue, Live, TypeOK
<1>2. ASSUME NEW S, MarkExpired(S)
      PROVE  status' \in [Ops -> {"none", "live"} \cup Ended]
  BY <1>2 DEF MarkExpired, TypeOK, Ended
<1>3. CASE Expire
  <2>1. reserved' \in [Rows -> Int]
    BY <1>1, <1>3, ReleaseType DEF Expire
  <2>2. MarkExpired(Overdue)
    BY <1>3 DEF Expire
  <2> QED
    BY <1>2, <1>3, <2>1, <2>2 DEF Expire, TypeOK
<1>4. CASE ExpireRead
  <2>1. /\ expiring'.ops = Overdue
        /\ DOMAIN expiring'.seen \subseteq Rows
        /\ \A w \in DOMAIN expiring'.seen : expiring'.seen[w] = reserved[w]
    BY <1>4 DEF ExpireRead
  <2> QED
    BY <1>1, <1>4, <2>1 DEF ExpireRead, TypeOK, usage
<1>5. CASE ExpireWrite
  <2>1. \A w \in DOMAIN expiring.seen : expiring.seen[w] \in Int
    BY DEF TypeOK
  <2>2. \A w \in Rows : Held(w, expiring.ops) \in Nat
    BY <1>1, HeldType
  <2>3. reserved' \in [Rows -> Int]
    BY <1>5, <2>1, <2>2 DEF ExpireWrite, TypeOK
  <2>4. MarkExpired(expiring.ops)
    BY <1>5 DEF ExpireWrite
  <2> QED
    BY <1>2, <1>5, <2>3, <2>4, NoExpiryType DEF ExpireWrite, TypeOK
<1> QED
  BY <1>3, <1>4, <1>5

LEMMA DestroyType ==
  ASSUME TypeOK, NEW W, NEW S, Destroy(W, S)
  PROVE  TypeOK'
<1>1. status' \in [Ops -> {"none", "live"} \cup Ended]
  BY DEF Destroy, TypeOK, Ended
<1>2. 0 \in 0 .. UntilRefresh
  BY QuotaAssumption
<1>3. /\ rows' \subseteq Rows
      /\ inUse' \in [Rows -> Int]
      /\ reserved' \in [Rows -> Int]
      /\ until' \in [Rows -> 0 .. UntilRefresh]
  BY <1>2 DEF Destroy, TypeOK
<1>4. /\ expiring'.ops \subseteq Ops
      /\ DOMAIN expiring'.seen \subseteq Rows
      /\ \A w \in DOMAIN expiring'.seen : expiring'.seen[w] \in Int
  BY DEF Destroy, TypeOK
<1> QED
  BY <1>1, <1>3, <1>4 DEF Destroy, TypeOK

\* Every reachable state of the quota tables is well typed; in particular the
\* stale values an expiry writes back are integers of rows it has read.
THEOREM TypeCorrect == Spec => []TypeOK
<1>1. Init => TypeOK
  BY InitType
<1>2. TypeOK /\ [Next]_vars => TypeOK'
  <2> SUFFICES ASSUME TypeOK, [Next]_vars PROVE TypeOK'
    OBVIOUS
  <2>1. CASE UNCHANGED vars
    BY <2>1 DEF vars, usage, TypeOK
  <2>2. ASSUME NEW u \in Users, NEW r \in Resources, UsageReset(u, r)
        PROVE  TypeOK'
    BY <2>2 DEF UsageReset, TypeOK
  <2>3. ASSUME NEW u \in Users, DestroyUser(u) PROVE TypeOK'
    BY <2>3, DestroyType DEF DestroyUser
  <2>4. CASE DestroyProject
    BY <2>4, DestroyType DEF DestroyProject
  <2> QED
    BY <2>1, <2>2, <2>3, <2>4, RequestType, ExpiryType DEF Next
<1> QED
  BY <1>1, <1>2, PTL DEF Spec

-----------------------------------------------------------------------------
(* What commit and rollback look up is there. *)

\* A request that has not reserved has no reservation.
IdleNotLive == \A o \in Ops : client[o] = "idle" => status[o] = "none"

LEMMA DestroyUserOthers ==
  ASSUME TypeOK, NEW u \in Users, NEW o \in Ops, by[o] # u,
         NEW r \in DOMAIN asks[o]
  PROVE  OpRow(o, r)[2] # u
BY QuotaAssumption DEF OpRow, Row, Owner, TypeOK

LEMMA LiveHasRowStep ==
  ASSUME TypeOK, LiveHasRow, IdleNotLive, [Next]_vars
  PROVE  LiveHasRow' /\ IdleNotLive'
<1>1. ASSUME NEW o \in Ops, NEW old, Reserve(o, old)
      PROVE  LiveHasRow' /\ IdleNotLive'
  <2>1. RefreshUsages(o, old) /\ Live' = Live \cup {o}
    BY <1>1 DEF Reserve, Live, TypeOK
  <2>2. /\ rows \subseteq rows'
        /\ \A r \in DOMAIN asks[o] : OpRow(o, r) \in rows'
    BY <2>1, RefreshType
  <2>3. LiveHasRow'
    BY <1>1, <2>1, <2>2 DEF Reserve, LiveHasRow, OpRow, Row, Owner
  <2> QED
    BY <1>1, <2>3 DEF Reserve, IdleNotLive, TypeOK
<1>2. ASSUME NEW o \in Ops, NEW old, Refuse(o, old)
      PROVE  LiveHasRow' /\ IdleNotLive'
  <2>1. rows \subseteq rows'
    BY <1>2, RefreshType DEF Refuse
  <2> QED
    BY <1>2, <2>1
    DEF Refuse, LiveHasRow, IdleNotLive, Live, OpRow, Row, Owner, TypeOK
<1>3. ASSUME NEW o \in Ops,
             \/ Apply(o) \/ Undo(o) \/ Commit(o) \/ CommitFails(o)
             \/ Rollback(o) \/ Lapse(o)
      PROVE  LiveHasRow' /\ IdleNotLive'
  <2>1. rows' = rows /\ by' = by /\ asks' = asks /\ Live' \subseteq Live
    BY <1>3 DEF Apply, Undo, Commit, CommitFails, Rollback, Lapse,
           usage, Live, TypeOK
  <2>2. IdleNotLive'
    BY <1>3 DEF Apply, Undo, Commit, CommitFails, Rollback, Lapse,
           IdleNotLive, TypeOK
  <2> QED
    BY <2>1, <2>2 DEF LiveHasRow, OpRow, Row, Owner
<1>4. CASE Expire \/ ExpireRead \/ ExpireWrite
  <2>1. rows' = rows /\ by' = by /\ asks' = asks /\ Live' \subseteq Live
    BY <1>4 DEF Expire, ExpireRead, ExpireWrite, usage, MarkExpired, Live, TypeOK
  <2>2. IdleNotLive'
    BY <1>4 DEF Expire, ExpireRead, ExpireWrite, MarkExpired, IdleNotLive,
                Live, TypeOK
  <2> QED
    BY <2>1, <2>2 DEF LiveHasRow, OpRow, Row, Owner
<1>5. ASSUME NEW u \in Users, NEW r \in Resources, UsageReset(u, r)
      PROVE  LiveHasRow' /\ IdleNotLive'
  BY <1>5 DEF UsageReset, LiveHasRow, IdleNotLive, Live, OpRow, Row, Owner
<1>6. ASSUME NEW u \in Users, DestroyUser(u)
      PROVE  LiveHasRow' /\ IdleNotLive'
  <2>1. Destroy({w \in Rows : w[2] = u}, {o \in Ops : by[o] = u})
    BY <1>6 DEF DestroyUser
  <2>2. Live' = {o \in Live : by[o] # u}
    BY <2>1 DEF Destroy, Live, TypeOK
  <2>3. LiveHasRow'
    BY <2>1, <2>2, DestroyUserOthers
    DEF Destroy, LiveHasRow, Live, OpRow, Row, Owner
  <2> QED
    BY <2>1, <2>3 DEF Destroy, IdleNotLive, Live, TypeOK
<1>7. CASE DestroyProject
  <2>1. Destroy(Rows, Ops)
    BY <1>7 DEF DestroyProject
  <2>2. Live' = {}
    BY <2>1 DEF Destroy, Live, TypeOK
  <2> QED
    BY <2>1, <2>2 DEF Destroy, LiveHasRow, IdleNotLive, Live, TypeOK
<1>8. CASE UNCHANGED vars
  BY <1>8 DEF vars, usage, LiveHasRow, IdleNotLive, Live, OpRow, Row, Owner
<1> QED
  BY <1>1, <1>2, <1>3, <1>4, <1>5, <1>6, <1>7, <1>8 DEF Next

\* A live reservation always finds its usage rows: the look-ups of
\* reservation_commit and reservation_rollback cannot fail, whatever is
\* refreshed, expired or destroyed between reserve and commit.
THEOREM LiveReservationsHaveRows == Spec => []LiveHasRow
<1>1. Init => LiveHasRow /\ IdleNotLive
  BY DEF Init, LiveHasRow, IdleNotLive, Live
<1>2. TypeOK /\ LiveHasRow /\ IdleNotLive /\ [Next]_vars
         => LiveHasRow' /\ IdleNotLive'
  BY LiveHasRowStep
<1> QED
  BY <1>1, <1>2, TypeCorrect, PTL DEF Spec

-----------------------------------------------------------------------------
(* reserved is what is outstanding. *)

\* Holdings are a function of requests that never change.
LEMMA HeldSame ==
  ASSUME by' = by, asks' = asks, NEW w, NEW S
  PROVE  Held(w, S)' = Held(w, S') /\ Taken(w, S)' = Taken(w, S')
BY DEF Held, Taken, Units, OpRow, Row, Owner

\* The accounting that every step keeps: no expiry is ever half done, and the
\* rows of users agree with the live reservations.
Accounting ==
    /\ IdleNotLive
    /\ expiring = NoExpiry
    /\ ReservedIsOutstanding

LEMMA AccountingRelease ==
  ASSUME TypeOK, Accounting, NEW S \in SUBSET Live, Release(S),
         by' = by, asks' = asks, Live' = Live \ S
  PROVE  ReservedIsOutstanding'
<1> SUFFICES ASSUME NEW w \in Rows, w[2] # NoUser
             PROVE  reserved'[w] = Held(w, Live)'
  BY DEF ReservedIsOutstanding
<1>1. Held(w, Live)' = Held(w, Live \ S)
  BY HeldSame
<1>2. Held(w, Live \ S) = Held(w, Live) - Held(w, S)
  BY HeldRemove DEF Live
<1>3. reserved'[w] = reserved[w] - Held(w, S)
  BY DEF Release
<1> QED
  BY <1>1, <1>2, <1>3 DEF Accounting, ReservedIsOutstanding

\* The rows that do not change and whose live requests do not change.
LEMMA AccountingSame ==
  ASSUME Accounting, by' = by, asks' = asks, Live' = Live,
         reserved' = reserved
  PROVE  ReservedIsOutstanding'
BY HeldSame DEF Accounting, ReservedIsOutstanding

LEMMA AccountingReserve ==
  ASSUME TypeOK, Accounting, NEW o \in Ops, NEW old, Reserve(o, old)
  PROVE  Accounting'
<1>1. o \notin Live /\ Live' = Live \cup {o}
  BY DEF Reserve, Accounting, IdleNotLive, Live, TypeOK
<1>2. ASSUME NEW w \in Rows, w[2] # NoUser
      PROVE  reserved'[w] = Held(w, Live)'
  <2> DEFINE now == Live \cup {o}
  <2>1. now \in SUBSET Ops /\ {o} \in SUBSET now /\ now \ {o} = Live
    BY <1>1 DEF Live
  <2>2. Held(w, Live) = Held(w, now) - Held(w, {o})
    BY <2>1, HeldRemove
  <2>3. Held(w, now) \in Nat /\ Held(w, {o}) \in Nat
    BY <2>1, HeldType
  <2>4. Held(w, Live)' = Held(w, now)
    BY <1>1, HeldSame DEF Reserve
  <2>5. reserved[w] = Held(w, Live)
    BY <1>2 DEF Accounting, ReservedIsOutstanding
  <2>6. reserved'[w] = reserved[w] + Held(w, {o})
    <3>1. reserved'[w] = IF Change(w, o) > 0 THEN reserved[w] + Change(w, o)
                         ELSE reserved[w]
      BY DEF Reserve
    <3>2. Held(w, {o}) = IF Change(w, o) > 0 THEN Change(w, o) ELSE 0
      BY HeldByOne DEF TypeOK
    <3>3. reserved[w] \in Int
      BY DEF TypeOK
    <3> QED
      BY <3>1, <3>2, <3>3
  <2> QED
    BY <2>2, <2>3, <2>4, <2>5, <2>6
<1>3. ReservedIsOutstanding'
  BY <1>2 DEF ReservedIsOutstanding
<1> QED
  BY <1>3 DEF Accounting, Reserve, IdleNotLive, TypeOK

LEMMA AccountingDestroyUser ==
  ASSUME TypeOK, Accounting, NEW u \in Users,
         Destroy({w \in Rows : w[2] = u}, {o \in Ops : by[o] = u})
  PROVE  ReservedIsOutstanding'
<1> SUFFICES ASSUME NEW w \in Rows, w[2] # NoUser
             PROVE  reserved'[w] = Held(w, Live)'
  BY DEF ReservedIsOutstanding
<1>1. Live' = {o \in Live : by[o] # u}
  BY DEF Destroy, Live, TypeOK
<1>2. Held(w, Live)' = Held(w, Live')
  BY HeldSame DEF Destroy
<1>3. CASE w[2] = u
  <2>1. Units(w, Live', 1) = {}
    BY <1>1, <1>3, DestroyUserOthers DEF Units, Live
  <2>2. Held(w, Live') = 0
    BY <2>1, FS_EmptySet DEF Held
  <2> QED
    BY <1>2, <1>3, <2>2 DEF Destroy
<1>4. CASE w[2] # u
  <2>1. \A o \in Live \ Live' : \A r \in DOMAIN asks[o] : OpRow(o, r) # w
    BY <1>1, <1>4 DEF OpRow, Row, Owner
  <2>2. Units(w, Live', 1) = Units(w, Live, 1)
    BY <1>1, <2>1 DEF Units
  <2>3. reserved'[w] = reserved[w]
    BY <1>4 DEF Destroy
  <2> QED
    BY <1>2, <2>2, <2>3 DEF Held, Accounting, ReservedIsOutstanding
<1> QED
  BY <1>3, <1>4

LEMMA AccountingStep ==
  ASSUME ExpireIsolated, TypeOK, LiveHasRow, Accounting, [Next]_vars
  PROVE  Accounting'
<1>1. IdleNotLive'
  BY LiveHasRowStep DEF Accounting
<1>2. ASSUME NEW o \in Ops, NEW old, Reserve(o, old) PROVE Accounting'
  BY <1>2, AccountingReserve
<1>3. ASSUME NEW o \in Ops, NEW old, Refuse(o, old) PROVE Accounting'
  <2>1. Live' = Live
    BY <1>3 DEF Refuse, Live
  <2> QED
    BY <1>1, <1>3, <2>1, AccountingSame DEF Refuse, Accounting
<1>4. ASSUME NEW o \in Ops, Apply(o) \/ Undo(o) \/ CommitFails(o) \/ Lapse(o)
      PROVE  Accounting'
  <2>1. Live' = Live
    BY <1>4 DEF Apply, Undo, CommitFails, Lapse, Live
  <2> QED
    BY <1>1, <1>4, <2>1, AccountingSame
    DEF Apply, Undo, CommitFails, Lapse, usage, Accounting
<1>5. ASSUME NEW o \in Ops, Commit(o) \/ Rollback(o) PROVE Accounting'
  <2>1. CASE o \in Live
    <3>1. Release({o}) /\ by' = by /\ asks' = asks /\ Live' = Live \ {o}
      BY <1>5, <2>1 DEF Commit, Rollback, Live, TypeOK
    <3>2. ReservedIsOutstanding'
      BY <2>1, <3>1, AccountingRelease
    <3> QED
      BY <1>1, <1>5, <3>2 DEF Commit, Rollback, Accounting
  <2>2. CASE o \notin Live
    <3>1. Live' = Live
      BY <1>5, <2>2 DEF Commit, Rollback, Live
    <3> QED
      BY <1>1, <1>5, <2>2, <3>1, AccountingSame DEF Commit, Rollback, Accounting
  <2> QED
    BY <2>1, <2>2
<1>6. CASE Expire
  <2>1. /\ Release(Overdue) /\ by' = by /\ asks' = asks
        /\ Live' = Live \ Overdue /\ Overdue \subseteq Live
    BY <1>6 DEF Expire, MarkExpired, Overdue, Live, TypeOK
  <2>2. ReservedIsOutstanding'
    BY <2>1, AccountingRelease
  <2> QED
    BY <1>1, <1>6, <2>2 DEF Expire, Accounting
<1>7. CASE ExpireRead \/ ExpireWrite
  BY <1>7 DEF ExpireRead, ExpireWrite, Accounting
<1>8. ASSUME NEW u \in Users, NEW r \in Resources, UsageReset(u, r)
      PROVE  Accounting'
  <2>1. Live' = Live
    BY <1>8 DEF UsageReset, Live
  <2> QED
    BY <1>1, <1>8, <2>1, AccountingSame DEF UsageReset, Accounting
<1>9. ASSUME NEW W, NEW S, Destroy(W, S), ReservedIsOutstanding'
      PROVE  Accounting'
  BY <1>1, <1>9 DEF Destroy, Accounting, NoExpiry
<1>10. ASSUME NEW u \in Users, DestroyUser(u) PROVE Accounting'
  BY <1>9, <1>10, AccountingDestroyUser DEF DestroyUser
<1>11. CASE DestroyProject
  <2>1. Destroy(Rows, Ops)
    BY <1>11 DEF DestroyProject
  <2>2. Live' = {} /\ \A w \in Rows : reserved'[w] = 0
    BY <2>1 DEF Destroy, Live, TypeOK
  <2>3. \A w : Held(w, Live)' = 0
    <3>1. \A w : Units(w, {}, 1) = {}
      BY DEF Units
    <3>2. \A w : Held(w, {}) = 0
      BY <3>1, FS_EmptySet DEF Held
    <3>3. \A w : Held(w, Live)' = Held(w, Live')
      BY <2>1, HeldSame DEF Destroy
    <3> QED
      BY <2>2, <3>2, <3>3
  <2>4. ReservedIsOutstanding'
    BY <2>2, <2>3 DEF ReservedIsOutstanding
  <2> QED
    BY <1>9, <2>1, <2>4
<1>12. CASE UNCHANGED vars
  <2>1. Live' = Live
    BY <1>12 DEF vars, Live
  <2> QED
    BY <1>1, <1>12, <2>1, AccountingSame DEF vars, usage, Accounting
<1> QED
  BY <1>2, <1>3, <1>4, <1>5, <1>6, <1>7, <1>8, <1>10, <1>11, <1>12 DEF Next

\* When an expiry sees no concurrent transaction, what a user's row says is
\* reserved is at all times what the live reservations hold, for any mix of
\* requests, refreshes, expiry and destroyed users.
THEOREM ReservedIsExact ==
  ASSUME ExpireIsolated
  PROVE  Spec => []ReservedIsOutstanding
<1>1. Init => Accounting
  <2> SUFFICES ASSUME Init PROVE Accounting
    OBVIOUS
  <2>1. Live = {} /\ IdleNotLive /\ expiring = NoExpiry
    BY DEF Init, Live, IdleNotLive
  <2>2. \A w : Held(w, {}) = 0
    <3>1. \A w : Units(w, {}, 1) = {}
      BY DEF Units
    <3> QED
      BY <3>1, FS_EmptySet DEF Held
  <2> QED
    BY <2>1, <2>2 DEF Init, Accounting, ReservedIsOutstanding
<1>2. TypeOK /\ LiveHasRow /\ Accounting /\ [Next]_vars => Accounting'
  BY AccountingStep
<1>3. Accounting => ReservedIsOutstanding
  BY DEF Accounting
<1> QED
  BY <1>1, <1>2, <1>3, TypeCorrect, LiveReservationsHaveRows, PTL DEF Spec

-----------------------------------------------------------------------------
(* in_use counts what has been committed. *)

\* A request whose change was added to in_use is done.
CommittedDone == \A o \in Ops : status[o] = "committed" => client[o] = "done"
Counting == CommittedDone /\ InUseCountsCommitted

\* What the uncounted requests have changed, when one of them is counted or a
\* new one has made its change.
LEMMA CountedStep ==
  ASSUME TypeOK, by' = by, asks' = asks, NEW o \in Uncounted, Uncounted' = Uncounted \ {o},
         NEW w \in Rows
  PROVE  /\ Held(w, Uncounted)' - Taken(w, Uncounted)'
              = Held(w, Uncounted) - Taken(w, Uncounted) - Change(w, o)
         /\ Held(w, Uncounted)' \in Nat /\ Taken(w, Uncounted)' \in Nat
         /\ Held(w, Uncounted) \in Nat /\ Taken(w, Uncounted) \in Nat /\ Change(w, o) \in Int
<1>1. Uncounted \in SUBSET Ops /\ {o} \in SUBSET Uncounted /\ o \in Ops
      /\ Uncounted \ {o} \in SUBSET Ops /\ {o} \in SUBSET Ops
  BY DEF Uncounted
<1>2. /\ Held(w, Uncounted \ {o}) = Held(w, Uncounted) - Held(w, {o})
      /\ Taken(w, Uncounted \ {o}) = Taken(w, Uncounted) - Taken(w, {o})
  BY <1>1, HeldRemove
<1>3. Held(w, {o}) - Taken(w, {o}) = Change(w, o) /\ Change(w, o) \in Int
  BY <1>1, HeldByOne, ChangeType DEF TypeOK
<1>4. /\ Held(w, Uncounted)' = Held(w, Uncounted \ {o})
      /\ Taken(w, Uncounted)' = Taken(w, Uncounted \ {o})
  BY HeldSame
<1>5. /\ Held(w, Uncounted) \in Nat /\ Taken(w, Uncounted) \in Nat
      /\ Held(w, {o}) \in Nat /\ Taken(w, {o}) \in Nat
      /\ Held(w, Uncounted \ {o}) \in Nat /\ Taken(w, Uncounted \ {o}) \in Nat
  BY <1>1, HeldType
<1> QED
  BY <1>2, <1>3, <1>4, <1>5
LEMMA ChangedStep ==
  ASSUME TypeOK, by' = by, asks' = asks, NEW o \in Ops, o \notin Uncounted,
         Uncounted' = Uncounted \cup {o}, NEW w \in Rows
  PROVE  /\ Held(w, Uncounted)' - Taken(w, Uncounted)'
              = Held(w, Uncounted) - Taken(w, Uncounted) + Change(w, o)
         /\ Held(w, Uncounted)' \in Nat /\ Taken(w, Uncounted)' \in Nat
         /\ Held(w, Uncounted) \in Nat /\ Taken(w, Uncounted) \in Nat /\ Change(w, o) \in Int
<1> DEFINE U == Uncounted \cup {o}
<1>1. /\ U \in SUBSET Ops /\ {o} \in SUBSET U /\ Uncounted = U \ {o}
      /\ Uncounted \in SUBSET Ops /\ {o} \in SUBSET Ops
  BY DEF Uncounted
<1>4. Held(w, Uncounted)' = Held(w, U) /\ Taken(w, Uncounted)' = Taken(w, U)
  BY HeldSame
<1> HIDE DEF U
<1>2. /\ Held(w, U \ {o}) = Held(w, U) - Held(w, {o})
      /\ Taken(w, U \ {o}) = Taken(w, U) - Taken(w, {o})
  BY <1>1, HeldRemove
<1>3. Held(w, {o}) - Taken(w, {o}) = Change(w, o) /\ Change(w, o) \in Int
  BY <1>1, HeldByOne, ChangeType DEF TypeOK
<1>5. /\ Held(w, Uncounted) \in Nat /\ Taken(w, Uncounted) \in Nat
      /\ Held(w, {o}) \in Nat /\ Taken(w, {o}) \in Nat
      /\ Held(w, U) \in Nat /\ Taken(w, U) \in Nat
  BY <1>1, HeldType
<1> QED
  BY <1>1, <1>2, <1>3, <1>4, <1>5

\* The steps that change neither what is uncounted, nor the records, nor in_use
\* of a row that goes on being well counted.
LEMMA CountingSame ==
  ASSUME TypeOK, InUseCountsCommitted, by' = by, asks' = asks, Uncounted' = Uncounted,
         actual' = actual, rows' \subseteq rows, miscounted \subseteq miscounted',
         \A w \in rows' \ miscounted' : inUse'[w] = inUse[w]
  PROVE  InUseCountsCommitted'
<1>1. \A w : Held(w, Uncounted)' = Held(w, Uncounted) /\ Taken(w, Uncounted)' = Taken(w, Uncounted)
  BY HeldSame
<1> QED
  BY <1>1 DEF InUseCountsCommitted

\* A row on which nothing is pending has no uncounted units.
LEMMA NothingPending ==
  ASSUME TypeOK, NEW w, ~Pending(w)
  PROVE  Held(w, Uncounted) = 0 /\ Taken(w, Uncounted) = 0
<1>1. \A p \in Uncounted : Change(w, p) = 0
  BY DEF Pending
<1>2. \A sign \in {1, -1} : Units(w, Uncounted, sign) = {}
  <2> SUFFICES ASSUME NEW sign \in {1, -1}, NEW p \in Units(w, Uncounted, sign) PROVE FALSE
    OBVIOUS
  <2>1. PICK r \in DOMAIN asks[p[1]] : OpRow(p[1], r) = w /\ p[2] <= sign * asks[p[1]][r]
    BY DEF Units
  <2>2. p[1] \in Uncounted /\ p[1] \in Ops /\ p[2] \in Nat /\ p[2] >= 1
    BY QuotaAssumption DEF Units, Uncounted
  <2>3. w[1] = r
    BY <2>1, <2>2, DeltaType DEF TypeOK
  <2>4. asks[p[1]][r] = 0
    BY <1>1, <2>1, <2>2, <2>3 DEF Change
  <2>5. sign * 0 = 0
    OBVIOUS
  <2> QED
    BY <2>1, <2>2, <2>4, <2>5
<1> QED
  BY <1>2, FS_EmptySet DEF Held, Taken

\* The refresh of quota_reserve: what was counted anew while nothing was pending
\* is right, the rest is as it was.
LEMMA CountingRefresh ==
  ASSUME TypeOK, InUseCountsCommitted, NEW o \in Ops, NEW old, RefreshUsages(o, old),
         by' = by, asks' = asks, Uncounted' = Uncounted, actual' = actual
  PROVE  InUseCountsCommitted'
<1>1. \A w : Held(w, Uncounted)' = Held(w, Uncounted) /\ Taken(w, Uncounted)' = Taken(w, Uncounted)
  BY HeldSame
<1>2. rows' \subseteq Rows
  BY RefreshType
<1> SUFFICES ASSUME NEW w \in rows' \ miscounted'
             PROVE  inUse'[w] + Held(w, Uncounted) = actual[w] + Taken(w, Uncounted)
  BY <1>1 DEF InUseCountsCommitted
<1>3. CASE w \in Refreshed(o, old)
  <2>3. Held(w, Uncounted) = 0 /\ Taken(w, Uncounted) = 0
    BY <1>3, NothingPending DEF RefreshUsages
  <2>4. inUse'[w] = actual[w] /\ actual[w] \in Int
    BY <1>2, <1>3 DEF RefreshUsages, InUseAfter, TypeOK
  <2> QED
    BY <2>3, <2>4
<1>4. CASE w \notin Refreshed(o, old)
  BY <1>2, <1>4 DEF RefreshUsages, InUseAfter, InUseCountsCommitted
<1> QED
  BY <1>3, <1>4

LEMMA CountingStep ==
  ASSUME TypeOK, Counting, IdleNotLive, [Next]_vars
  PROVE  Counting'
<1> USE DEF Counting
<1>1. ASSUME NEW o \in Ops, NEW old, Reserve(o, old) \/ Refuse(o, old) PROVE Counting'
  <2>1. /\ RefreshUsages(o, old) /\ by' = by /\ asks' = asks /\ actual' = actual
        /\ Uncounted' = Uncounted /\ CommittedDone'
    BY <1>1 DEF Reserve, Refuse, Uncounted, CommittedDone, IdleNotLive, TypeOK
  <2> QED
    BY <2>1, CountingRefresh
<1>2. ASSUME NEW o \in Ops, Apply(o) PROVE Counting'
  <2>1. /\ by' = by /\ asks' = asks /\ o \notin Uncounted /\ Uncounted' = Uncounted \cup {o}
        /\ CommittedDone' /\ UNCHANGED <<rows, inUse, miscounted>>
    BY <1>2 DEF Apply, Uncounted, CommittedDone, TypeOK, usage
  <2>2. ASSUME NEW w \in rows \ miscounted
        PROVE  inUse[w] + Held(w, Uncounted)' = actual'[w] + Taken(w, Uncounted)'
    <3>1. w \in Rows /\ inUse[w] \in Int /\ actual[w] \in Int
      BY DEF TypeOK
    <3>2. actual'[w] = actual[w] + Change(w, o)
      BY <1>2, <3>1 DEF Apply
    <3>3. inUse[w] + Held(w, Uncounted) = actual[w] + Taken(w, Uncounted)
      BY DEF InUseCountsCommitted
    <3>4. /\ Held(w, Uncounted)' - Taken(w, Uncounted)'
                = Held(w, Uncounted) - Taken(w, Uncounted) + Change(w, o)
          /\ Held(w, Uncounted)' \in Nat /\ Taken(w, Uncounted)' \in Nat
          /\ Held(w, Uncounted) \in Nat /\ Taken(w, Uncounted) \in Nat /\ Change(w, o) \in Int
      BY <2>1, <3>1, ChangedStep
    <3>5. actual'[w] \in Int
      BY <3>1, <3>2, <3>4
    <3>6. inUse[w] + Held(w, Uncounted)' - Taken(w, Uncounted)' = actual'[w]
      BY <3>1, <3>2, <3>3, <3>4
    <3> QED
      BY <3>1, <3>4, <3>5, <3>6
  <2> QED
    BY <2>1, <2>2 DEF InUseCountsCommitted
<1>3. ASSUME NEW o \in Ops, Undo(o) PROVE Counting'
  <2>1. /\ by' = by /\ asks' = asks /\ o \in Uncounted /\ Uncounted' = Uncounted \ {o}
        /\ CommittedDone' /\ UNCHANGED <<rows, inUse, miscounted>>
    BY <1>3 DEF Undo, Uncounted, CommittedDone, TypeOK, usage
  <2>2. ASSUME NEW w \in rows \ miscounted
        PROVE  inUse[w] + Held(w, Uncounted)' = actual'[w] + Taken(w, Uncounted)'
    <3>1. w \in Rows /\ inUse[w] \in Int /\ actual[w] \in Int
      BY DEF TypeOK
    <3>2. actual'[w] = actual[w] - Change(w, o)
      BY <1>3, <3>1 DEF Undo
    <3>3. inUse[w] + Held(w, Uncounted) = actual[w] + Taken(w, Uncounted)
      BY DEF InUseCountsCommitted
    <3>4. /\ Held(w, Uncounted)' - Taken(w, Uncounted)'
                = Held(w, Uncounted) - Taken(w, Uncounted) - Change(w, o)
          /\ Held(w, Uncounted)' \in Nat /\ Taken(w, Uncounted)' \in Nat
          /\ Held(w, Uncounted) \in Nat /\ Taken(w, Uncounted) \in Nat /\ Change(w, o) \in Int
      BY <2>1, <3>1, CountedStep
    <3>5. actual'[w] \in Int
      BY <3>1, <3>2, <3>4
    <3>6. inUse[w] + Held(w, Uncounted)' - Taken(w, Uncounted)' = actual'[w]
      BY <3>1, <3>2, <3>3, <3>4
    <3> QED
      BY <3>1, <3>4, <3>5, <3>6
  <2> QED
    BY <2>1, <2>2 DEF InUseCountsCommitted
<1>4. ASSUME NEW o \in Ops, Commit(o), o \in Live PROVE Counting'
  <2>1. /\ by' = by /\ asks' = asks /\ o \in Uncounted /\ Uncounted' = Uncounted \ {o}
        /\ CommittedDone' /\ UNCHANGED <<rows, actual, miscounted>>
    BY <1>4 DEF Commit, Uncounted, CommittedDone, TypeOK, Live
  <2>2. ASSUME NEW w \in rows \ miscounted
        PROVE  inUse'[w] + Held(w, Uncounted)' = actual[w] + Taken(w, Uncounted)'
    <3>1. w \in Rows /\ inUse[w] \in Int /\ actual[w] \in Int
      BY DEF TypeOK
    <3>2. inUse'[w] = inUse[w] + Change(w, o)
      BY <1>4, <3>1 DEF Commit
    <3>3. inUse[w] + Held(w, Uncounted) = actual[w] + Taken(w, Uncounted)
      BY DEF InUseCountsCommitted
    <3>4. /\ Held(w, Uncounted)' - Taken(w, Uncounted)'
                = Held(w, Uncounted) - Taken(w, Uncounted) - Change(w, o)
          /\ Held(w, Uncounted)' \in Nat /\ Taken(w, Uncounted)' \in Nat
          /\ Held(w, Uncounted) \in Nat /\ Taken(w, Uncounted) \in Nat /\ Change(w, o) \in Int
      BY <2>1, <3>1, CountedStep
    <3> QED
      BY <3>1, <3>2, <3>3, <3>4
  <2> QED
    BY <2>1, <2>2 DEF InUseCountsCommitted
<1>5. ASSUME NEW o \in Ops,
             \/ Commit(o) /\ o \notin Live
             \/ CommitFails(o) \/ Rollback(o) \/ Lapse(o)
      PROVE  Counting'
  <2>1. /\ by' = by /\ asks' = asks /\ Uncounted' = Uncounted /\ CommittedDone'
        /\ UNCHANGED <<rows, inUse, actual, miscounted>>
    BY <1>5 DEF Commit, CommitFails, Rollback, Lapse, Uncounted, CommittedDone, TypeOK, Live, usage
  <2> QED
    BY <2>1, CountingSame
<1>6. CASE Expire \/ ExpireRead \/ ExpireWrite
  <2>1. /\ by' = by /\ asks' = asks /\ Uncounted' = Uncounted /\ CommittedDone'
        /\ UNCHANGED <<rows, inUse, actual, miscounted>>
    BY <1>6 DEF Expire, ExpireRead, ExpireWrite, MarkExpired, Uncounted, CommittedDone,
                TypeOK, Live, usage
  <2> QED
    BY <2>1, CountingSame
<1>7. ASSUME NEW u \in Users, NEW r \in Resources, UsageReset(u, r) PROVE Counting'
  <2>1. /\ by' = by /\ asks' = asks /\ Uncounted' = Uncounted /\ CommittedDone'
        /\ actual' = actual /\ rows' \subseteq rows /\ miscounted \subseteq miscounted'
        /\ \A w \in rows' \ miscounted' : inUse'[w] = inUse[w]
    BY <1>7 DEF UsageReset, Uncounted, CommittedDone, TypeOK
  <2> QED
    BY <2>1, CountingSame
<1>8. ASSUME NEW W, NEW S, Destroy(W, S) PROVE Counting'
  <2>1. /\ by' = by /\ asks' = asks /\ Uncounted' = Uncounted /\ CommittedDone'
        /\ actual' = actual /\ rows' \subseteq rows /\ miscounted \subseteq miscounted'
        /\ \A w \in rows' \ miscounted' : inUse'[w] = inUse[w]
    BY <1>8 DEF Destroy, Uncounted, CommittedDone, TypeOK, Live
  <2> QED
    BY <2>1, CountingSame
<1>9. CASE UNCHANGED vars
  <2>1. /\ by' = by /\ asks' = asks /\ Uncounted' = Uncounted /\ CommittedDone'
        /\ UNCHANGED <<rows, inUse, actual, miscounted>>
    BY <1>9 DEF vars, usage, Uncounted, CommittedDone
  <2> QED
    BY <2>1, CountingSame
<1> QED
  BY <1>1, <1>2, <1>3, <1>4, <1>5, <1>6, <1>7, <1>8, <1>9 DEF Next, DestroyUser, DestroyProject

\* in_use is at all times the number of records less what the requests that are
\* not counted have changed, for any requests, limits, refresh settings and
\* administrative calls: reservation_commit, reservation_rollback and
\* reservation_expire count each request once, and only a refresh in the window
\* between a change and its commit makes a row wrong, until the next.
THEOREM InUseIsCommitted == Spec => []InUseCountsCommitted
<1>1. Init => Counting
  BY DEF Init, Counting, CommittedDone, InUseCountsCommitted
<1>2. TypeOK /\ Counting /\ IdleNotLive /\ [Next]_vars => Counting'
  BY CountingStep
<1>3. Init => LiveHasRow /\ IdleNotLive
  BY DEF Init, LiveHasRow, IdleNotLive, Live
<1>4. TypeOK /\ LiveHasRow /\ IdleNotLive /\ [Next]_vars => IdleNotLive'
  BY LiveHasRowStep
<1> QED
  BY <1>1, <1>2, <1>3, <1>4, TypeCorrect, LiveReservationsHaveRows, PTL DEF Spec, Counting

-----------------------------------------------------------------------------
(* What is admitted. *)

\* A usage row that does not exist holds nothing, and an expiry writes to rows
\* that exist.
GoneIsZero ==
    /\ \A w \in Rows \ rows : inUse[w] = 0 /\ reserved[w] = 0
    /\ DOMAIN expiring.seen \subseteq rows

\* A live reservation has no units on a row that does not exist.
LEMMA NothingOnGoneRows ==
  ASSUME TypeOK, LiveHasRow, NEW S \in SUBSET Live, NEW w \in Rows \ rows
  PROVE  Units(w, S, 1) = {} /\ Held(w, S) = 0 /\ \A o \in S : Change(w, o) = 0
<1>1. \A o \in S : \A r \in DOMAIN asks[o] : OpRow(o, r) # w
  BY DEF LiveHasRow
<1>2. Units(w, S, 1) = {}
  BY <1>1 DEF Units
<1>3. Held(w, S) = 0
  BY <1>2, FS_EmptySet DEF Held
<1> QED
  BY <1>1, <1>2, <1>3 DEF Change

LEMMA GoneIsZeroStep ==
  ASSUME TypeOK, LiveHasRow, GoneIsZero, [Next]_vars
  PROVE  GoneIsZero'
<1>0. Rows' = Rows
  BY DEF Rows, Row, Owner
<1>1. ASSUME NEW o \in Ops, NEW old, RefreshUsages(o, old), expiring' = expiring,
             \/ reserved' = reserved
             \/ \A w \in Rows : reserved'[w] = IF Change(w, o) > 0 THEN reserved[w] + Change(w, o)
                                               ELSE reserved[w]
      PROVE  GoneIsZero'
  <2>1. rows \subseteq rows' /\ \A r \in DOMAIN asks[o] : OpRow(o, r) \in rows'
    BY <1>1, RefreshType
  <2>2. \A w \in Rows \ rows' : Change(w, o) = 0 /\ w \notin Refreshed(o, old)
    BY <1>1, <2>1 DEF Change, RefreshUsages
  <2>3. \A w \in Rows \ rows' : inUse'[w] = 0
    BY <1>1, <2>1, <2>2 DEF RefreshUsages, InUseAfter, GoneIsZero
  <2>4. \A w \in Rows \ rows' : reserved'[w] = 0
    BY <1>1, <2>1, <2>2 DEF GoneIsZero
  <2> QED
    BY <1>0, <1>1, <2>1, <2>3, <2>4 DEF GoneIsZero
<1>2. ASSUME NEW o \in Ops, NEW old, Reserve(o, old) \/ Refuse(o, old)
      PROVE  GoneIsZero'
  BY <1>1, <1>2 DEF Reserve, Refuse
<1>3. ASSUME NEW S \in SUBSET Live, Release(S), rows' = rows, expiring' = expiring,
             \A w \in Rows \ rows : inUse'[w] = inUse[w]
      PROVE  GoneIsZero'
  <2>1. \A w \in Rows \ rows : reserved'[w] = 0
    BY <1>3, NothingOnGoneRows DEF Release, GoneIsZero
  <2> QED
    BY <1>0, <1>3, <2>1 DEF GoneIsZero
<1>4. ASSUME NEW o \in Ops, Commit(o) PROVE GoneIsZero'
  <2>1. CASE o \in Live
    <3>1. \A w \in Rows \ rows : Change(w, o) = 0 /\ inUse[w] \in Int
      BY <2>1, NothingOnGoneRows DEF TypeOK
    <3>2. \A w \in Rows \ rows : inUse'[w] = inUse[w]
      BY <1>4, <2>1, <3>1 DEF Commit
    <3> QED
      BY <1>3, <1>4, <2>1, <3>2 DEF Commit
  <2>2. CASE o \notin Live
    BY <1>0, <1>4, <2>2 DEF Commit, GoneIsZero
  <2> QED
    BY <2>1, <2>2
<1>5. ASSUME NEW o \in Ops, Rollback(o) PROVE GoneIsZero'
  <2>1. CASE o \in Live
    BY <1>3, <1>5, <2>1 DEF Rollback
  <2>2. CASE o \notin Live
    BY <1>0, <1>5, <2>2 DEF Rollback, GoneIsZero
  <2> QED
    BY <2>1, <2>2
<1>6. CASE Expire
  <2>1. Overdue \in SUBSET Live
    BY DEF Overdue
  <2> QED
    BY <1>3, <1>6, <2>1 DEF Expire
<1>7. CASE ExpireRead
  <2>1. Overdue \in SUBSET Live
    BY DEF Overdue
  <2>2. {v \in Rows : Units(v, Overdue, 1) # {}} \subseteq rows
    BY <2>1, NothingOnGoneRows
  <2>3. DOMAIN expiring'.seen = {v \in Rows : Units(v, Overdue, 1) # {}}
    BY <1>7 DEF ExpireRead
  <2> QED
    BY <1>0, <1>7, <2>2, <2>3 DEF ExpireRead, usage, GoneIsZero
<1>8. CASE ExpireWrite
  <2>1. \A w \in Rows \ rows : reserved'[w] = 0
    BY <1>8 DEF ExpireWrite, GoneIsZero
  <2> QED
    BY <1>0, <1>8, <2>1, NoExpiryType DEF ExpireWrite, GoneIsZero
<1>9. ASSUME NEW u \in Users, NEW r \in Resources, UsageReset(u, r) PROVE GoneIsZero'
  <2>1. \A w \in Rows \ rows : inUse'[w] = inUse[w]
    BY <1>9 DEF UsageReset, TypeOK
  <2> QED
    BY <1>0, <1>9, <2>1 DEF UsageReset, GoneIsZero
<1>10. ASSUME NEW W, NEW S, Destroy(W, S) PROVE GoneIsZero'
  <2>1. DOMAIN expiring'.seen = DOMAIN expiring.seen \ W
    BY <1>10 DEF Destroy
  <2>2. \A w \in Rows \ rows' : inUse'[w] = 0 /\ reserved'[w] = 0
    BY <1>10 DEF Destroy, GoneIsZero
  <2> QED
    BY <1>0, <1>10, <2>1, <2>2 DEF Destroy, GoneIsZero
<1>11. ASSUME NEW o \in Ops, Apply(o) \/ Undo(o) \/ CommitFails(o) \/ Lapse(o)
       PROVE  GoneIsZero'
  BY <1>0, <1>11 DEF Apply, Undo, CommitFails, Lapse, usage, GoneIsZero
<1>12. CASE UNCHANGED vars
  BY <1>0, <1>12 DEF vars, usage, GoneIsZero
<1> QED
  BY <1>2, <1>4, <1>5, <1>6, <1>7, <1>8, <1>9, <1>10, <1>11, <1>12
     DEF Next, DestroyUser, DestroyProject

LEMMA OnlyReserveMakesLive ==
  ASSUME TypeOK, Next, NEW o \in Ops, status[o] = "none", status'[o] = "live"
  PROVE  \E old : Reserve(o, old)
<1>1. ASSUME NEW p \in Ops, NEW old, Reserve(p, old) PROVE \E q : Reserve(o, q)
  <2>1. p = o
    BY <1>1 DEF Reserve, TypeOK
  <2> QED
    BY <1>1, <2>1
<1>2. ASSUME NEW p \in Ops,
             \/ \E old \in Aged : Refuse(p, old)
             \/ Apply(p) \/ Undo(p) \/ Commit(p) \/ CommitFails(p) \/ Rollback(p) \/ Lapse(p)
      PROVE  FALSE
  BY <1>2 DEF Refuse, Apply, Undo, Commit, CommitFails, Rollback, Lapse, TypeOK
<1>3. CASE Expire \/ ExpireRead \/ ExpireWrite
  BY <1>3 DEF Expire, ExpireRead, ExpireWrite, MarkExpired
<1>4. ASSUME NEW u \in Users, NEW r \in Resources, UsageReset(u, r) PROVE FALSE
  BY <1>4 DEF UsageReset
<1>5. ASSUME NEW W, NEW S, Destroy(W, S) PROVE FALSE
  BY <1>5 DEF Destroy
<1> QED
  BY <1>1, <1>2, <1>3, <1>4, <1>5 DEF Next, DestroyUser, DestroyProject

LEMMA SumIsSumOf ==
  ASSUME NEW column, NEW S
  PROVE  Sum(column, S) = SumOf(column, S)
BY DEF Sum, SumOf, MapThenSumSet, MapThenFoldSet

LEMMA RowsOfFinite ==
  ASSUME NEW r
  PROVE  RowsOf(r) \subseteq Rows /\ IsFiniteSet(RowsOf(r))
<1>1. IsFiniteSet({r}) /\ IsFiniteSet(Users \cup {NoUser})
  BY QuotaAssumption, FS_Singleton, FS_Union
<1>2. IsFiniteSet({r} \X (Users \cup {NoUser}))
  BY <1>1, FS_Product
<1>3. RowsOf(r) \subseteq {r} \X (Users \cup {NoUser})
  BY DEF RowsOf, Rows, Row, Owner
<1> QED
  BY <1>2, <1>3, FS_Subset DEF RowsOf

\* Of the rows of a resource a reserve writes to one: that of its user.
LEMMA ReserveWritesOneRow ==
  ASSUME TypeOK, NEW o \in Ops, NEW old, Reserve(o, old), NEW r \in DOMAIN asks[o]
  PROVE  /\ OpRow(o, r) \in RowsOf(r) /\ Change(OpRow(o, r), o) = asks[o][r]
         /\ \A w \in RowsOf(r) \ {OpRow(o, r)} :
               inUse'[w] = inUse[w] /\ reserved'[w] = reserved[w]
<1>1. OpRow(o, r) \in RowsOf(r)
  BY DeltaType DEF TypeOK, RowsOf
<1>2. \A s : OpRow(o, s)[1] = s
  BY DEF OpRow, Row
<1>3. Change(OpRow(o, r), o) = asks[o][r]
  BY <1>2 DEF Change
<1>4. ASSUME NEW w \in RowsOf(r) \ {OpRow(o, r)}
      PROVE  Change(w, o) = 0 /\ w \notin Refreshed(o, old)
  <2>1. \A s : OpRow(o, s) # w
    BY <1>2, <1>4 DEF RowsOf
  <2> QED
    BY <2>1, QuotaAssumption DEF Change, Refreshed
<1>5. \A w \in RowsOf(r) : w \in Rows
  BY DEF RowsOf
<1> QED
  BY <1>1, <1>3, <1>4, <1>5 DEF Reserve, RefreshUsages, InUseAfter

\* The sums of a resource's columns after a reserve.
LEMMA SumsAfterReserve ==
  ASSUME TypeOK, TypeOK', NEW o \in Ops, NEW old, Reserve(o, old), NEW r \in DOMAIN asks[o]
  PROVE  /\ Sum(inUse', RowsOf(r)) =
              Sum(inUse, RowsOf(r)) + inUse'[OpRow(o, r)] - inUse[OpRow(o, r)]
         /\ Sum(reserved', RowsOf(r)) =
              Sum(reserved, RowsOf(r)) + reserved'[OpRow(o, r)] - reserved[OpRow(o, r)]
         /\ Sum(inUse, RowsOf(r)) \in Int /\ Sum(reserved, RowsOf(r)) \in Int
<1> DEFINE mine == OpRow(o, r)
           R == RowsOf(r)
<1>1. IsFiniteSet(R) /\ mine \in R
  BY RowsOfFinite, ReserveWritesOneRow
<1>2. \A w \in R : inUse[w] \in Int /\ inUse'[w] \in Int
  BY DEF TypeOK, RowsOf, Rows, Row, Owner
<1>3. \A w \in R : reserved[w] \in Int /\ reserved'[w] \in Int
  BY DEF TypeOK, RowsOf, Rows, Row, Owner
<1>4. /\ \A w \in R \ {mine} : inUse'[w] = inUse[w]
      /\ \A w \in R \ {mine} : reserved'[w] = reserved[w]
  BY ReserveWritesOneRow
<1> HIDE DEF mine, R
<1>5. ASSUME NEW f, NEW g, \A w \in R : f[w] \in Int /\ g[w] \in Int,
             \A w \in R \ {mine} : g[w] = f[w]
      PROVE  /\ Sum(g, R) = Sum(f, R) + g[mine] - f[mine]
             /\ Sum(f, R) \in Int
  <2>1. SumOf(f, R) \in Int
    BY <1>1, <1>5, SumChanges
  <2>2. SumOf(g, R) = SumOf(f, R) + g[mine] - f[mine]
    BY <1>1, <1>5, SumChanges
  <2> QED
    BY <2>1, <2>2, SumIsSumOf
<1>6. Sum(inUse', R) = Sum(inUse, R) + inUse'[mine] - inUse[mine] /\ Sum(inUse, R) \in Int
  BY <1>2, <1>4, <1>5
<1>7. /\ Sum(reserved', R) = Sum(reserved, R) + reserved'[mine] - reserved[mine]
      /\ Sum(reserved, R) \in Int
  BY <1>3, <1>4, <1>5
<1> QED
  BY <1>6, <1>7 DEF mine, R

\* What the project's total was before the reserve, over all its rows.
LEMMA TotalBefore ==
  ASSUME TypeOK, GoneIsZero, NEW o \in Ops, NEW old, NEW r \in DOMAIN asks[o]
  PROVE  IF RowsOf(r) \cap rows = {}
         THEN Sum(inUse, RowsOf(r)) = 0 /\ Sum(reserved, RowsOf(r)) = 0
         ELSE ProjectTotal(o, r, old) = Sum(inUse, RowsOf(r)) + Sum(reserved, RowsOf(r))
<1> DEFINE R == RowsOf(r)
           held == RowsOf(r) \cap rows
<1>1. /\ IsFiniteSet(R) /\ held \in SUBSET R
      /\ (\A w \in R : inUse[w] \in Int) /\ (\A w \in R \ held : inUse[w] = 0)
      /\ (\A w \in R : reserved[w] \in Int) /\ (\A w \in R \ held : reserved[w] = 0)
  BY RowsOfFinite DEF TypeOK, GoneIsZero, RowsOf
<1>2. held = {} \/ ProjectTotal(o, r, old) = Sum(inUse, held) + Sum(reserved, held)
  BY DEF ProjectTotal
<1> HIDE DEF R, held
<1>3. SumOf(inUse, R) = SumOf(inUse, held) /\ SumOf(reserved, R) = SumOf(reserved, held)
  BY <1>1, SumWithout
<1>4. SumOf(inUse, {}) = 0 /\ SumOf(reserved, {}) = 0
  BY SumUnfolds, FS_EmptySet
<1>5. CASE held = {}
  BY <1>3, <1>4, <1>5, SumIsSumOf DEF R, held
<1>6. CASE held # {}
  BY <1>2, <1>3, <1>6, SumIsSumOf DEF R, held
<1> QED
  BY <1>5, <1>6

\* A row that is counted anew with nothing pending says what it said.
LEMMA RefreshAgrees ==
  ASSUME TypeOK, InUseCountsCommitted, GoneIsZero,
         NEW o \in Ops, NEW old, Reserve(o, old), NEW w \in Rows,
         w \notin miscounted, w \notin miscounted', w \in rows \/ actual[w] = 0
  PROVE  inUse'[w] = inUse[w]
<1>1. RefreshUsages(o, old)
  BY DEF Reserve
<1>2. CASE w \notin Refreshed(o, old)
  BY <1>1, <1>2 DEF RefreshUsages, InUseAfter
<1>3. CASE w \in Refreshed(o, old)
  <2>1. inUse'[w] = actual[w] /\ ~Pending(w)
    BY <1>1, <1>3 DEF RefreshUsages, InUseAfter
  <2>2. CASE w \in rows
    <3>1. Held(w, Uncounted) = 0 /\ Taken(w, Uncounted) = 0
      BY <2>1, NothingPending
    <3>2. inUse[w] + Held(w, Uncounted) = actual[w] + Taken(w, Uncounted)
      BY <2>2 DEF InUseCountsCommitted
    <3>3. inUse[w] \in Int /\ actual[w] \in Int
      BY DEF TypeOK
    <3> QED
      BY <2>1, <3>1, <3>2, <3>3
  <2>3. CASE w \notin rows
    BY <2>1, <2>3 DEF GoneIsZero
  <2> QED
    BY <2>2, <2>3
<1> QED
  BY <1>2, <1>3

LEMMA AdmittedStep ==
  ASSUME TypeOK, TypeOK', InUseCountsCommitted, GoneIsZero,
         NEW o \in Ops, NEW old, Reserve(o, old),
         NEW r \in DOMAIN asks[o], asks[o][r] >= 0, UserQuota[r] >= 0
  PROVE  LET mine == OpRow(o, r)
             asBefore == \/ inUse'[mine] = inUse[mine]
                         \/ mine \notin miscounted \cup miscounted'
         IN  /\ inUse'[mine] + reserved'[mine] <= UserQuota[r]
             /\ asBefore /\ (\A w \in RowsOf(r) \ rows : actual[w] = 0) =>
                   Sum(inUse', RowsOf(r)) + Sum(reserved', RowsOf(r)) <= ProjectQuota[r]
<1> DEFINE mine == OpRow(o, r)
           before == Sum(inUse, RowsOf(r)) + Sum(reserved, RowsOf(r))
<1>1. /\ mine \in Rows /\ mine \in RowsOf(r) /\ Change(mine, o) = asks[o][r]
      /\ r \in Resources /\ asks[o][r] \in Int
      /\ inUse[mine] \in Int /\ reserved[mine] \in Int
      /\ inUse'[mine] \in Int /\ reserved'[mine] \in Int
  BY ReserveWritesOneRow, DeltaType DEF TypeOK
<1>2. ProjectQuota[r] \in Int /\ UserQuota[r] \in Int
  BY <1>1, QuotaAssumption
<1>3. /\ inUse'[mine] = InUseAfter(o, old)[mine]
      /\ reserved'[mine] = reserved[mine] + asks[o][r]
  BY <1>1 DEF Reserve, RefreshUsages
<1>4. /\ ~(ProjectQuota[r] < asks[o][r] + ProjectTotal(o, r, old))
      /\ ~(UserQuota[r] < asks[o][r] + inUse'[mine] + reserved[mine])
  <2>1. UserTotal(o, r, old) = inUse'[mine] + reserved[mine]
    BY <1>3 DEF UserTotal
  <2>2. asks[o][r] + (inUse'[mine] + reserved[mine]) = asks[o][r] + inUse'[mine] + reserved[mine]
    BY <1>1
  <2> QED
    BY <2>1, <2>2 DEF Reserve, OverQuota
<1>5. inUse'[mine] + reserved'[mine] <= UserQuota[r]
  <2> HIDE DEF mine
  <2> QED
    BY <1>1, <1>2, <1>3, <1>4
<1>6. /\ Sum(inUse', RowsOf(r)) = Sum(inUse, RowsOf(r)) + inUse'[mine] - inUse[mine]
      /\ Sum(reserved', RowsOf(r)) = Sum(reserved, RowsOf(r)) + reserved'[mine] - reserved[mine]
      /\ Sum(inUse, RowsOf(r)) \in Int /\ Sum(reserved, RowsOf(r)) \in Int
  BY SumsAfterReserve
<1>7. Sum(inUse', RowsOf(r)) + Sum(reserved', RowsOf(r))
         = before + (inUse'[mine] - inUse[mine]) + asks[o][r]
  <2> HIDE DEF mine
  <2> QED
    BY <1>1, <1>3, <1>6
<1>8. ASSUME \/ inUse'[mine] = inUse[mine]
             \/ mine \notin miscounted \cup miscounted',
             \A w \in RowsOf(r) \ rows : actual[w] = 0
      PROVE  before + (inUse'[mine] - inUse[mine]) + asks[o][r] <= ProjectQuota[r]
  <2>1. CASE RowsOf(r) \cap rows = {}
    <3>1. before = 0
      BY <2>1, TotalBefore
    <3>2. mine \notin rows /\ inUse[mine] = 0
      BY <1>1, <2>1 DEF GoneIsZero
    <3>3. ProjectTotal(o, r, old) = inUse'[mine]
      BY <1>3, <2>1 DEF ProjectTotal
    <3> HIDE DEF mine, before
    <3> QED
      BY <1>1, <1>2, <1>4, <3>1, <3>2, <3>3
  <2>2. CASE RowsOf(r) \cap rows # {}
    <3>1. ProjectTotal(o, r, old) = before /\ before \in Int
      BY <1>6, <2>2, TotalBefore
    <3>2. inUse'[mine] = inUse[mine]
      <4>1. CASE mine \notin miscounted \cup miscounted'
        <5>1. mine \in rows \/ actual[mine] = 0
          BY <1>1, <1>8
        <5> QED
          BY <1>1, <4>1, <5>1, RefreshAgrees
      <4> QED
        BY <1>8, <4>1
    <3> HIDE DEF mine, before
    <3> QED
      BY <1>1, <1>2, <1>4, <3>1, <3>2
  <2> QED
    BY <2>1, <2>2
<1> QED
  BY <1>5, <1>7, <1>8

\* A reserve that quota_reserve grants leaves the user within the user's quota,
\* and the project within the project's unless the refresh it does itself, or a
\* row with records that is missing, hides some from the total: for any limits,
\* users, refresh settings, expiry and administrative calls.
THEOREM AdmittedInQuota == Spec => AdmittedWithinQuota
<1>1. TypeOK /\ TypeOK' /\ InUseCountsCommitted /\ GoneIsZero /\ [Next]_vars =>
        [\A o \in Ops : status[o] = "none" /\ status'[o] = "live" =>
          \A r \in DOMAIN asks[o] :
            LET mine == OpRow(o, r)
                asBefore == \/ inUse'[mine] = inUse[mine]
                            \/ mine \notin miscounted \cup miscounted'
            IN  asks[o][r] >= 0 /\ UserQuota[r] >= 0 =>
                /\ inUse'[mine] + reserved'[mine] <= UserQuota[r]
                /\ asBefore /\ (\A w \in RowsOf(r) \ rows : actual[w] = 0) =>
                      Sum(inUse', RowsOf(r)) + Sum(reserved', RowsOf(r))
                          <= ProjectQuota[r]]_vars
  <2> SUFFICES ASSUME TypeOK, TypeOK', InUseCountsCommitted, GoneIsZero, Next,
                      NEW o \in Ops, status[o] = "none", status'[o] = "live",
                      NEW r \in DOMAIN asks[o], asks[o][r] >= 0, UserQuota[r] >= 0
               PROVE  LET mine == OpRow(o, r)
                          asBefore == \/ inUse'[mine] = inUse[mine]
                                      \/ mine \notin miscounted \cup miscounted'
                      IN  /\ inUse'[mine] + reserved'[mine] <= UserQuota[r]
                          /\ asBefore /\ (\A w \in RowsOf(r) \ rows : actual[w] = 0) =>
                                Sum(inUse', RowsOf(r)) + Sum(reserved', RowsOf(r))
                                    <= ProjectQuota[r]
    OBVIOUS
  <2>1. PICK old : Reserve(o, old)
    BY OnlyReserveMakesLive
  <2> QED
    BY <2>1, AdmittedStep
<1>2. Init => LiveHasRow /\ IdleNotLive
  BY DEF Init, LiveHasRow, IdleNotLive, Live
<1>3. Init => GoneIsZero
  BY NoExpiryType DEF Init, GoneIsZero
<1>4. TypeOK /\ LiveHasRow /\ GoneIsZero /\ [Next]_vars => GoneIsZero'
  BY GoneIsZeroStep
<1> QED
  BY <1>1, <1>3, <1>4, TypeCorrect, LiveReservationsHaveRows, InUseIsCommitted, PTL
     DEF Spec, AdmittedWithinQuota
=============================================================================
