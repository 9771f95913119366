------------------------ MODULE LiveMigrationProofs ------------------------
(***************************************************************************)
(* LiveMigration implements GuestPlacement, checked by TLAPS: for any      *)
(* hosts, any number of moves, any number of them at once and any mishaps, *)
(* until one of the three kinds of what the code does wrong has happened.  *)
(*                                                                         *)
(* Safe is inductive: the types, what the step of a move tells of its      *)
(* casts and its job (Phase), one guest, and a delete that is not taken    *)
(* back.  Placing, which holds until something has gone astray, adds the   *)
(* one move that the task state is about: all others are quiet.            *)
(***************************************************************************)
EXTENDS LiveMigration, FiniteSetTheorems, TLAPS

Pcs == OnSource \cup {"idle", "checking", "cast", "done"}
Statuses == {None, "pre-migrating", "queued", "preparing", "running", "completed",
             "error", "failed"}
Records == [pc : Pcs, from : Hosts \cup {None}, to : Hosts \cup {None},
            status : Statuses, pre : {None, "sent", "ok", "raised"},
            job : {None, "active", "over"},
            post : {None, "sent", "defined", "done"}, undo : {None, "sent", "done"}]
Begun(o) == move[o].pc # "idle"

\* What the step of a move says of its other fields.
Phase(m) ==
    /\ m.pc # "idle" => m.from \in Hosts /\ m.to \in Hosts
    /\ m.pc = "idle" => m.to = None /\ m.pre = None
    /\ m.from = m.to => m.pc \in {"idle", "checking", "done"} /\ m.pre = None
    /\ m.pc \in {"checking", "cast", "queued"} => m.pre = None
    /\ m.pc \in {"preparing", "running", "undoing", "refused"}
          => m.pre # None /\ m.job = None /\ m.undo = None
    /\ m.pc = "running" => m.pre = "ok"
    /\ m.pc = "watching" => m.job # None /\ m.post = None
    /\ m.pc \in {"posting", "cleaning", "rolling", "casting"} => m.job = "over"
    /\ m.pc = "posting" => m.post = None
    /\ m.pre = None => m.undo = None
    /\ m.job # None => m.pre = "ok"
    /\ m.post # None => m.job = "over" /\ m.pc \in {"cleaning", "done"}
    /\ m.undo # None => m.pc = "done" /\ m.job # "active"

MovesTyped == move \in [Moves -> Records] /\ \A o \in Moves : Phase(move[o])
OneGuest == \A g, h \in Hosts : guest[g] = "running" /\ guest[h] = "running" => g = h
Deleting ==
    /\ delete.pc # "idle" => server.task = "deleting"
    /\ delete.pc = "cast" => delete.host = server.host
    /\ \A h \in Hosts : compute[h] = "deleting" => server.task = "deleting" /\ server.host = h
    /\ server.gone => server.task = "deleting"
World ==
    /\ server \in [host : Hosts, vm : {"active", "error"}, gone : BOOLEAN,
                task : {None, "migrating", "deleting"}]
    /\ guest \in [Hosts -> Guests] /\ disk \in [Hosts -> BOOLEAN] /\ shared \in BOOLEAN
    /\ delete \in [pc : {"idle", "cast", "destroyed", "done"}, host : Hosts \cup {None}]
    /\ compute \in [Hosts -> {"down", "init", "deleting", "up"}]
Safe == World /\ MovesTyped /\ OneGuest /\ Deleting

-----------------------------------------------------------------------------
(* What the step of one move does to its record. *)

Only(m) == move' \in [Moves -> Records] /\ \A o \in Moves \ {m} : move'[o] = move[o]
\* Nobody takes a delete back.
RowStays == server.task = "deleting" => server'.task = "deleting" /\ server'.host = server.host

\* The fields of move m after its step; those of the others are as they were.
Fields(m, pc, pre, job, post, undo) ==
    /\ move' \in [Moves -> Records]
    /\ \A o \in Moves \ {m} : move'[o] = move[o]
    /\ move'[m].from = move[m].from /\ move'[m].to = move[m].to
    /\ move'[m].pc = pc /\ move'[m].pre = pre
    /\ move'[m].job = job /\ move'[m].post = post /\ move'[m].undo = undo

\* Only the step of move m changes.
Reaches(m, pc) == Fields(m, pc, move[m].pre, move[m].job, move[m].post, move[m].undo)

LEMMA FieldsSet ==
  ASSUME MovesTyped, NEW m \in Moves
  PROVE  /\ \A pc \in Pcs : Set(m, "pc", pc) => Reaches(m, pc)
         /\ \A pc \in Pcs, status \in Statuses : Step(m, pc, status) => Reaches(m, pc)
         /\ \A pre \in {None, "sent", "ok", "raised"} : Set(m, "pre", pre) =>
              Fields(m, move[m].pc, pre, move[m].job, move[m].post, move[m].undo)
         /\ \A job \in {None, "active", "over"} : Set(m, "job", job) =>
              Fields(m, move[m].pc, move[m].pre, job, move[m].post, move[m].undo)
         /\ \A post \in {None, "sent", "defined", "done"} : Set(m, "post", post) =>
              Fields(m, move[m].pc, move[m].pre, move[m].job, post, move[m].undo)
         /\ \A undo \in {None, "sent", "done"} : Set(m, "undo", undo) =>
              Fields(m, move[m].pc, move[m].pre, move[m].job, move[m].post, undo)
<1> USE DEF MovesTyped, Set, Step, Reaches, Fields, Records
<1>1. \A pc \in Pcs : Set(m, "pc", pc) => Reaches(m, pc)
  OBVIOUS
<1>2. ASSUME NEW pc \in Pcs, NEW status \in Statuses, Step(m, pc, status) PROVE Reaches(m, pc)
  <2> DEFINE r == [move[m] EXCEPT !.pc = pc, !.status = status]
  <2>1. move' = [move EXCEPT ![m] = r]
    BY <1>2
  <2>2. /\ r \in Records /\ r.pc = pc /\ r.from = move[m].from
        /\ r.to = move[m].to /\ r.pre = move[m].pre /\ r.job = move[m].job
        /\ r.post = move[m].post /\ r.undo = move[m].undo
    OBVIOUS
  <2> QED
    BY <2>1, <2>2
<1>3. \A pre \in {None, "sent", "ok", "raised"} : Set(m, "pre", pre) =>
              Fields(m, move[m].pc, pre, move[m].job, move[m].post, move[m].undo)
  OBVIOUS
<1>4. \A job \in {None, "active", "over"} : Set(m, "job", job) =>
              Fields(m, move[m].pc, move[m].pre, job, move[m].post, move[m].undo)
  OBVIOUS
<1>5. \A post \in {None, "sent", "defined", "done"} : Set(m, "post", post) =>
              Fields(m, move[m].pc, move[m].pre, move[m].job, post, move[m].undo)
  OBVIOUS
<1>6. \A undo \in {None, "sent", "done"} : Set(m, "undo", undo) =>
              Fields(m, move[m].pc, move[m].pre, move[m].job, move[m].post, undo)
  OBVIOUS
<1> QED
  BY <1>1, <1>2, <1>3, <1>4, <1>5, <1>6

LEMMA CastFields ==
  ASSUME MovesTyped, NEW m \in Moves, RollbackCast(m)
  PROVE  /\ move[m].pc \in {"casting", "refused"}
         /\ Fields(m, "done", move[m].pre, move[m].job, move[m].post,
                   IF shared THEN None ELSE "sent")
<1>1. move[m] \in Records /\ move[m].status \in Statuses /\ "done" \in Pcs
  BY DEF MovesTyped, Records, Pcs
<1>2. PICK undo \in {None, "sent"}, status \in Statuses :
         /\ undo = IF shared THEN None ELSE "sent"
         /\ move' = [move EXCEPT ![m] = [move[m] EXCEPT !.pc = "done", !.undo = undo,
                                                       !.status = status]]
  <2>1. "error" \in Statuses
    BY DEF Statuses
  <2> QED
    BY <1>1, <2>1 DEF RollbackCast
<1> DEFINE r == [move[m] EXCEPT !.pc = "done", !.undo = undo, !.status = status]
<1>3. /\ r \in Records /\ r.from = move[m].from /\ r.to = move[m].to
      /\ r.pc = "done" /\ r.pre = move[m].pre /\ r.job = move[m].job
      /\ r.post = move[m].post /\ r.undo = undo
  BY <1>1, <1>2 DEF Records
<1>4. move' = [move EXCEPT ![m] = r] /\ undo = IF shared THEN None ELSE "sent"
  BY <1>2
<1>5. move[m].pc \in {"casting", "refused"}
  BY DEF RollbackCast, Runs, AtStep
<1> HIDE DEF r
<1> QED
  BY <1>3, <1>4, <1>5 DEF Fields, MovesTyped
\* What each action does to the record of its move.
LEMMA FieldsOf ==
  ASSUME MovesTyped, NEW m \in Moves
  PROVE  /\ Checked(m) => move[m].pc = "checking" /\ move[m].to # move[m].from /\ Reaches(m, "cast")
         /\ CheckRefuses(m) \/ CheckFails(m) => move[m].pc = "checking" /\ Reaches(m, "done")
         /\ Queue(m) => move[m].pc = "cast" /\ Reaches(m, "queued")
         /\ Prepare(m) => /\ move[m].pc = "queued"
                          /\ Fields(m, "preparing", "sent", move[m].job, move[m].post, move[m].undo)
         /\ PreLiveMigration(m) => /\ move[m].pre = "sent"
                /\ Fields(m, move[m].pc, IF ~shared /\ disk[move[m].to] THEN "raised" ELSE "ok",
                          move[m].job, move[m].post, move[m].undo)
         /\ PreFails(m) => /\ move[m].pre = "sent"
                           /\ Fields(m, move[m].pc, "raised", move[m].job, move[m].post, move[m].undo)
         /\ Prepared(m) => /\ move[m].pc = "preparing" /\ move[m].pre = "ok"
                           /\ Reaches(m, "running")
         /\ PrepareFails(m) => move[m].pc = "preparing" /\ Reaches(m, "undoing")
         /\ Migrate(m) => /\ move[m].pc = "running"
                /\ \/ guest[move[m].from] = None /\ Reaches(m, "done")
                   \/ guest[move[m].from] # None /\ Fields(m, "watching", move[m].pre, "active",
                                                           move[m].post, move[m].undo)
         /\ JobMoves(m) \/ JobFails(m) => /\ move[m].job = "active"
                /\ Fields(m, move[m].pc, move[m].pre, "over", move[m].post, move[m].undo)
         /\ Watch(m) => /\ move[m].pc = "watching" /\ move[m].job = "over"
                /\ \/ Reaches(m, IF guest[move[m].from] = "running" THEN "rolling" ELSE "posting")
                   \/ "misread" \in mishaps' /\ Reaches(m, "rolling")
         /\ WatchFails(m) => move[m].pc = "watching" /\ Reaches(m, "done")
         /\ Post(m) => /\ move[m].pc = "posting"
                       /\ Fields(m, "cleaning", move[m].pre, move[m].job, "sent", move[m].undo)
         /\ PostFails(m) => move[m].pc = "posting" /\ Reaches(m, "done")
         /\ PostCleanup(m) => move[m].pc = "cleaning" /\ Reaches(m, "done")
         /\ PostDefine(m) => /\ move[m].post = "sent"
                /\ Fields(m, move[m].pc, move[m].pre, move[m].job, "defined", move[m].undo)
         /\ PostSettles(m) => /\ move[m].post = "defined"
                /\ Fields(m, move[m].pc, move[m].pre, move[m].job, "done", move[m].undo)
         /\ PostDefineFails(m) => /\ move[m].post = "sent"
                /\ Fields(m, move[m].pc, move[m].pre, move[m].job, "done", move[m].undo)
         /\ Rollback(m) =>
                \/ move[m].pc = "rolling" /\ Migrating /\ Reaches(m, "casting")
                \/ move[m].pc = "undoing" /\ Migrating /\ Reaches(m, "refused")
                \/ move[m].pc \in {"undoing", "rolling"} /\ ~Migrating /\ Reaches(m, "done")
         /\ RollbackCast(m) => /\ move[m].pc \in {"casting", "refused"}
                /\ Fields(m, "done", move[m].pre, move[m].job, move[m].post,
                          IF shared THEN None ELSE "sent")
         /\ RollbackFails(m) => move[m].pc \in {"casting", "refused"} /\ Reaches(m, "done")
         /\ RollbackAtDestination(m) => /\ move[m].undo = "sent"
                /\ Fields(m, move[m].pc, move[m].pre, move[m].job, move[m].post, "done")
<1> USE FieldsSet DEF AtStep, Runs, Pcs, Statuses, OnSource, Holding, None
<1>1. /\ Checked(m) => move[m].pc = "checking" /\ move[m].to # move[m].from /\ Reaches(m, "cast")
      /\ CheckRefuses(m) \/ CheckFails(m) => move[m].pc = "checking" /\ Reaches(m, "done")
      /\ Queue(m) => move[m].pc = "cast" /\ Reaches(m, "queued")
  BY DEF Checked, CheckRefuses, CheckFails, Queue
<1>2. /\ PreLiveMigration(m) => /\ move[m].pre = "sent"
                /\ Fields(m, move[m].pc, IF ~shared /\ disk[move[m].to] THEN "raised" ELSE "ok",
                          move[m].job, move[m].post, move[m].undo)
      /\ PreFails(m) => /\ move[m].pre = "sent"
                        /\ Fields(m, move[m].pc, "raised", move[m].job, move[m].post, move[m].undo)
      /\ Prepared(m) => /\ move[m].pc = "preparing" /\ move[m].pre = "ok"
                        /\ Reaches(m, "running")
      /\ PrepareFails(m) => move[m].pc = "preparing" /\ Reaches(m, "undoing")
  BY DEF PreLiveMigration, PreFails, Prepared, PrepareFails
<1>3. /\ JobMoves(m) \/ JobFails(m) => /\ move[m].job = "active"
                /\ Fields(m, move[m].pc, move[m].pre, "over", move[m].post, move[m].undo)
      /\ Watch(m) => /\ move[m].pc = "watching" /\ move[m].job = "over"
             /\ \/ Reaches(m, IF guest[move[m].from] = "running" THEN "rolling" ELSE "posting")
                \/ "misread" \in mishaps' /\ Reaches(m, "rolling")
      /\ WatchFails(m) => move[m].pc = "watching" /\ Reaches(m, "done")
  BY DEF JobMoves, JobFails, Watch, WatchFails, Mishap
<1>4. /\ PostFails(m) => move[m].pc = "posting" /\ Reaches(m, "done")
      /\ PostCleanup(m) => move[m].pc = "cleaning" /\ Reaches(m, "done")
      /\ PostDefine(m) => /\ move[m].post = "sent"
                /\ Fields(m, move[m].pc, move[m].pre, move[m].job, "defined", move[m].undo)
      /\ PostSettles(m) => /\ move[m].post = "defined"
                /\ Fields(m, move[m].pc, move[m].pre, move[m].job, "done", move[m].undo)
      /\ PostDefineFails(m) => /\ move[m].post = "sent"
                /\ Fields(m, move[m].pc, move[m].pre, move[m].job, "done", move[m].undo)
  BY DEF PostFails, PostCleanup, PostDefine, PostSettles, PostDefineFails
<1>5. /\ Rollback(m) =>
                \/ move[m].pc = "rolling" /\ Migrating /\ Reaches(m, "casting")
                \/ move[m].pc = "undoing" /\ Migrating /\ Reaches(m, "refused")
                \/ move[m].pc \in {"undoing", "rolling"} /\ ~Migrating /\ Reaches(m, "done")
      /\ RollbackFails(m) => move[m].pc \in {"casting", "refused"} /\ Reaches(m, "done")
      /\ RollbackAtDestination(m) => /\ move[m].undo = "sent"
                /\ Fields(m, move[m].pc, move[m].pre, move[m].job, move[m].post, "done")
  BY DEF Rollback, RollbackFails, RollbackAtDestination
<1>6. ASSUME NEW r \in Records, r.from = move[m].from, r.to = move[m].to,
             move' = [move EXCEPT ![m] = r]
      PROVE  Fields(m, r.pc, r.pre, r.job, r.post, r.undo)
  BY <1>6 DEF Fields, MovesTyped
<1>7. move[m] \in Records
  BY DEF MovesTyped
<1>8. ASSUME Prepare(m)
      PROVE  /\ move[m].pc = "queued"
             /\ Fields(m, "preparing", "sent", move[m].job, move[m].post, move[m].undo)
  <2> DEFINE r == [move[m] EXCEPT !.pc = "preparing", !.status = "preparing", !.pre = "sent"]
  <2>1. move[m].pc = "queued" /\ move' = [move EXCEPT ![m] = r]
    BY <1>8 DEF Prepare
  <2>2. /\ r \in Records /\ r.from = move[m].from /\ r.to = move[m].to
        /\ r.pc = "preparing" /\ r.pre = "sent" /\ r.job = move[m].job
        /\ r.post = move[m].post /\ r.undo = move[m].undo
    BY <1>7 DEF Records
  <2> HIDE DEF r
  <2> QED
    BY <1>6, <2>1, <2>2
<1>9. ASSUME Migrate(m)
      PROVE  /\ move[m].pc = "running"
             /\ \/ guest[move[m].from] = None /\ Reaches(m, "done")
                \/ guest[move[m].from] # None /\ Fields(m, "watching", move[m].pre, "active",
                                                        move[m].post, move[m].undo)
  <2> DEFINE r == [move[m] EXCEPT !.pc = "watching", !.job = "active"]
  <2>1. /\ move[m].pc = "running"
        /\ \/ guest[move[m].from] = None /\ Reaches(m, "done")
           \/ guest[move[m].from] # None /\ move' = [move EXCEPT ![m] = r]
    BY <1>9 DEF Migrate
  <2>2. /\ r \in Records /\ r.from = move[m].from /\ r.to = move[m].to
        /\ r.pc = "watching" /\ r.pre = move[m].pre /\ r.job = "active"
        /\ r.post = move[m].post /\ r.undo = move[m].undo
    BY <1>7 DEF Records
  <2> HIDE DEF r
  <2> QED
    BY <1>6, <2>1, <2>2
<1>10. ASSUME Post(m)
       PROVE  /\ move[m].pc = "posting"
              /\ Fields(m, "cleaning", move[m].pre, move[m].job, "sent", move[m].undo)
  <2> DEFINE r == [move[m] EXCEPT !.pc = "cleaning", !.post = "sent"]
  <2>1. move[m].pc = "posting" /\ move' = [move EXCEPT ![m] = r]
    BY <1>10 DEF Post
  <2>2. /\ r \in Records /\ r.from = move[m].from /\ r.to = move[m].to
        /\ r.pc = "cleaning" /\ r.pre = move[m].pre /\ r.job = move[m].job
        /\ r.post = "sent" /\ r.undo = move[m].undo
    BY <1>7 DEF Records
  <2> HIDE DEF r
  <2> QED
    BY <1>6, <2>1, <2>2
<1> QED
  BY <1>1, <1>2, <1>3, <1>4, <1>5, <1>8, <1>9, <1>10, CastFields
Moved(m) == \/ Conduct(m) \/ AtSource(m) \/ Job(m) \/ PreAtDestination(m)
            \/ PostAtDestination(m) \/ RollbackAtDestination(m)

\* The hosts of a move never change, and its fields go on agreeing.
Goes(m) ==
    /\ Only(m) /\ move'[m].from = move[m].from /\ move'[m].to = move[m].to
    /\ move'[m].pc # "idle" /\ Phase(move'[m])

LEMMA GoesStep ==
  ASSUME MovesTyped, NEW m \in Moves, Moved(m)
  PROVE  Begun(m) /\ Goes(m)
<1>1. Phase(move[m]) /\ move[m] \in Records
  BY DEF MovesTyped
<1> USE DEF Reaches, Begun, Only, Goes, Fields, Phase, None
<1>2. CASE Conduct(m) \/ Queue(m) \/ Prepare(m)
  <2>1. \/ move[m].pc = "checking" /\ move[m].to # move[m].from /\ Reaches(m, "cast")
        \/ move[m].pc = "checking" /\ Reaches(m, "done")
        \/ move[m].pc = "cast" /\ Reaches(m, "queued")
        \/ move[m].pc = "queued"
           /\ Fields(m, "preparing", "sent", move[m].job, move[m].post, move[m].undo)
    BY <1>2, FieldsOf DEF Conduct
  <2> QED
    BY <1>1, <2>1
<1>3. CASE PreAtDestination(m)
  <2>1. /\ move[m].pre = "sent"
        /\ \E pre \in {"raised", "ok"} :
              Fields(m, move[m].pc, pre, move[m].job, move[m].post, move[m].undo)
    BY <1>3, FieldsOf DEF PreAtDestination
  <2> QED
    BY <1>1, <2>1
<1>4. CASE Prepared(m) \/ PrepareFails(m) \/ Migrate(m)
  <2>1. \/ move[m].pc = "preparing" /\ move[m].pre = "ok" /\ Reaches(m, "running")
        \/ move[m].pc = "preparing" /\ Reaches(m, "undoing")
        \/ move[m].pc = "running" /\ Reaches(m, "done")
        \/ move[m].pc = "running"
           /\ Fields(m, "watching", move[m].pre, "active", move[m].post, move[m].undo)
    BY <1>4, FieldsOf
  <2> QED
    BY <1>1, <2>1
<1>5. CASE Job(m)
  <2>1. /\ move[m].job = "active"
        /\ Fields(m, move[m].pc, move[m].pre, "over", move[m].post, move[m].undo)
    BY <1>5, FieldsOf DEF Job
  <2> QED
    BY <1>1, <2>1
<1>6. CASE Watch(m) \/ WatchFails(m)
  <2>1. \/ /\ move[m].pc = "watching" /\ move[m].job = "over"
           /\ Reaches(m, "rolling") \/ Reaches(m, "posting")
        \/ move[m].pc = "watching" /\ Reaches(m, "done")
    BY <1>6, FieldsOf
  <2> QED
    BY <1>1, <2>1
<1>7. CASE Post(m) \/ PostFails(m) \/ PostCleanup(m)
  <2>1. \/ move[m].pc \in {"posting", "cleaning"} /\ Reaches(m, "done")
        \/ move[m].pc = "posting"
           /\ Fields(m, "cleaning", move[m].pre, move[m].job, "sent", move[m].undo)
    BY <1>7, FieldsOf
  <2> QED
    BY <1>1, <2>1
<1>8. CASE PostAtDestination(m)
  <2>1. /\ move[m].post # None
        /\ \E post \in {"defined", "done"} :
              Fields(m, move[m].pc, move[m].pre, move[m].job, post, move[m].undo)
    BY <1>8, FieldsOf DEF PostAtDestination
  <2> QED
    BY <1>1, <2>1
<1>9. CASE Rollback(m) \/ RollbackFails(m) \/ RollbackCast(m)
  <2>1. \/ move[m].pc = "rolling" /\ Reaches(m, "casting")
        \/ move[m].pc = "undoing" /\ Reaches(m, "refused")
        \/ move[m].pc \in {"undoing", "rolling", "casting", "refused"} /\ Reaches(m, "done")
        \/ move[m].pc \in {"casting", "refused"}
           /\ Fields(m, "done", move[m].pre, move[m].job, move[m].post,
                     IF shared THEN None ELSE "sent")
    BY <1>9, FieldsOf
  <2> QED
    BY <1>1, <2>1
<1>10. CASE RollbackAtDestination(m)
  <2>1. /\ move[m].undo = "sent"
        /\ Fields(m, move[m].pc, move[m].pre, move[m].job, move[m].post, "done")
    BY <1>10, FieldsOf
  <2> QED
    BY <1>1, <2>1
<1> QED
  BY <1>2, <1>3, <1>4, <1>5, <1>6, <1>7, <1>8, <1>9, <1>10 DEF Moved, AtSource

\* The row, the guests, the directories and the services stay well formed, and
\* a delete that was asked for is not taken back.
LEMMA WorldStep ==
  ASSUME Safe, LiveNext
  PROVE  World' /\ Deleting'
<1>1. /\ World /\ Deleting
      /\ \A o \in Moves : /\ move[o].from \in Hosts \cup {None} /\ move[o].to \in Hosts \cup {None}
                          /\ Phase(move[o])
  BY DEF Safe, MovesTyped, Records
<1>2. ASSUME NEW m \in Moves, NEW d \in Hosts, LiveMigrate(m, d) PROVE World' /\ Deleting'
  BY <1>1, <1>2 DEF LiveMigrate, World, Deleting, None
<1>3. ASSUME NEW m \in Moves, Conduct(m) PROVE World' /\ Deleting'
  BY <1>1, <1>3 DEF Conduct, Checked, CheckRefuses, CheckFails, World, Deleting, Migrating, None
<1>4. ASSUME NEW m \in Moves, AtSource(m) PROVE World' /\ Deleting'
  <2>1. CASE PostCleanup(m)
    <3>1. guest' \in [Hosts -> Guests] /\ disk' \in [Hosts -> BOOLEAN]
      BY <1>1, <2>1 DEF PostCleanup, World, Guests
    <3> QED
      BY <1>1, <2>1, <3>1 DEF PostCleanup, World, Deleting
  <2>2. CASE Rollback(m)
    BY <1>1, <2>2 DEF Rollback, World, Deleting, Migrating, None
  <2>3. CASE ~PostCleanup(m) /\ ~Rollback(m)
    <3>1. UNCHANGED <<server, guest, disk, shared, delete, compute>>
      BY <1>4, <2>3 DEF AtSource, Queue, Prepare, Prepared, PrepareFails, Migrate, Watch,
             WatchFails, Post, PostFails, RollbackCast, RollbackFails
    <3> QED
      BY <1>1, <3>1 DEF World, Deleting
  <2> QED
    BY <2>1, <2>2, <2>3
<1>5. ASSUME NEW m \in Moves, Job(m) PROVE World' /\ Deleting'
  <2>1. guest' \in [Hosts -> Guests]
    BY <1>1, <1>5 DEF Job, JobMoves, JobFails, World, Guests
  <2> QED
    BY <1>1, <1>5, <2>1 DEF Job, JobMoves, JobFails, World, Deleting
<1>6. ASSUME NEW m \in Moves, PreAtDestination(m) PROVE World' /\ Deleting'
  <2>1. disk' \in [Hosts -> BOOLEAN]
    BY <1>1, <1>6 DEF PreAtDestination, PreLiveMigration, PreFails, World
  <2> QED
    BY <1>1, <1>6, <2>1 DEF PreAtDestination, PreLiveMigration, PreFails, World, Deleting
<1>7. ASSUME NEW m \in Moves, PostAtDestination(m) PROVE World' /\ Deleting'
  <2>1. guest' \in [Hosts -> Guests]
    BY <1>1, <1>7 DEF PostAtDestination, PostDefine, PostDefineFails, PostSettles, World, Guests
  <2>2. CASE PostSettles(m)
    BY <1>1, <2>2 DEF PostSettles, World, Deleting, Migrating, Phase, None
  <2>3. CASE PostDefine(m) \/ PostDefineFails(m)
    BY <1>1, <2>1, <2>3 DEF PostDefine, PostDefineFails, World, Deleting
  <2> QED
    BY <1>7, <2>2, <2>3 DEF PostAtDestination
<1>8. ASSUME NEW m \in Moves, RollbackAtDestination(m) PROVE World' /\ Deleting'
  BY <1>1, <1>8 DEF RollbackAtDestination, World, Deleting, Guests
<1>9. CASE DeleteServer
  <2>1. /\ server' = [server EXCEPT !.task = "deleting"] /\ UNCHANGED <<guest, disk, shared, compute>>
        /\ \E pc \in {"cast", "done"} : delete' = [pc |-> pc, host |-> server.host]
    BY <1>9 DEF DeleteServer
  <2> QED
    BY <1>1, <2>1 DEF World, Deleting, None
<1>10. CASE Deletes
  <2>1. guest' \in [Hosts -> Guests] /\ disk' \in [Hosts -> BOOLEAN]
    <3>1. UNCHANGED <<guest, disk>> \/ \E h \in Hosts : Destroy(h)
      BY <1>1, <1>10 DEF Deletes, TerminateServer, DestroyRow, World, Deleting
    <3>2. ASSUME NEW h \in Hosts, Destroy(h)
          PROVE  guest' \in [Hosts -> Guests] /\ disk' \in [Hosts -> BOOLEAN]
      BY <1>1, <3>2 DEF Destroy, World, Guests
    <3>3. ASSUME UNCHANGED <<guest, disk>>
          PROVE  guest' \in [Hosts -> Guests] /\ disk' \in [Hosts -> BOOLEAN]
      BY <1>1, <3>3 DEF World
    <3> QED
      BY <3>1, <3>2, <3>3
  <2> QED
    <3>1. CASE TerminateServer
      <4>1. /\ delete.pc = "cast" /\ delete' = [delete EXCEPT !.pc = "destroyed"]
            /\ UNCHANGED <<server, shared, compute>>
        BY <3>1 DEF TerminateServer
      <4>2. delete' \in [pc : {"idle", "cast", "destroyed", "done"}, host : Hosts \cup {None}]
            /\ delete'.pc = "destroyed"
        BY <1>1, <4>1 DEF World
      <4> QED
        BY <1>1, <2>1, <4>1, <4>2 DEF World, Deleting
    <3>2. CASE DestroyRow
      BY <1>1, <2>1, <3>2 DEF DestroyRow, World, Deleting
    <3> QED
      BY <1>10, <3>1, <3>2 DEF Deletes
<1>11. ASSUME NEW h \in Hosts, Reap(h) PROVE World' /\ Deleting'
  <2>1. guest' \in [Hosts -> Guests] /\ disk' \in [Hosts -> BOOLEAN]
    BY <1>1, <1>11 DEF Reap, Destroy, World, Guests
  <2> QED
    BY <1>1, <1>11, <2>1 DEF Reap, World, Deleting
<1>12. ASSUME NEW h \in Hosts, Stop(h) PROVE World' /\ Deleting'
  <2>1. /\ compute' = [compute EXCEPT ![h] = "down"]
        /\ \/ delete' = delete
           \/ delete.pc = "destroyed" /\ delete' = [delete EXCEPT !.pc = "done"]
        /\ UNCHANGED <<server, guest, disk, shared>>
    <3>1. /\ compute' = [compute EXCEPT ![h] = "down"] /\ UNCHANGED <<server, guest, disk, shared>>
          /\ delete' = IF delete = [pc |-> "destroyed", host |-> h]
                       THEN [delete EXCEPT !.pc = "done"] ELSE delete
      BY <1>12 DEF Stop
    <3>2. delete = [pc |-> "destroyed", host |-> h] => delete.pc = "destroyed"
      OBVIOUS
    <3> QED
      BY <3>1, <3>2
  <2>2. /\ delete' \in [pc : {"idle", "cast", "destroyed", "done"}, host : Hosts \cup {None}]
        /\ delete'.pc # "idle" => delete.pc # "idle"
        /\ delete'.pc = "cast" => delete.pc = "cast" /\ delete'.host = delete.host
    BY <1>1, <2>1 DEF World
  <2>3. /\ compute' \in [Hosts -> {"down", "init", "deleting", "up"}]
        /\ \A g \in Hosts : compute'[g] = "deleting" => compute[g] = "deleting"
    BY <1>1, <2>1 DEF World
  <2> QED
    BY <1>1, <2>1, <2>2, <2>3 DEF World, Deleting
<1>13. ASSUME NEW h \in Hosts, Starts(h) PROVE World' /\ Deleting'
  <2>1. CASE Start(h)
    BY <1>1, <2>1 DEF Start, World, Deleting
  <2>2. CASE ResetMove(h)
    BY <1>1, <2>2 DEF ResetMove, World, Deleting, Migrating, None
  <2>3. CASE DeleteAgain(h)
    <3>1. guest' \in [Hosts -> Guests] /\ disk' \in [Hosts -> BOOLEAN]
      BY <1>1, <2>3 DEF DeleteAgain, Destroy, World, Guests
    <3> QED
      BY <1>1, <2>3, <3>1 DEF DeleteAgain, World, Deleting
  <2> QED
    BY <1>13, <2>1, <2>2, <2>3 DEF Starts
<1> QED
  BY <1>2, <1>3, <1>4, <1>5, <1>6, <1>7, <1>8, <1>9, <1>10, <1>11, <1>12, <1>13
  DEF LiveNext

-----------------------------------------------------------------------------
(* Safe is inductive. *)

\* What a stop of h leaves of the records.
Stopped(m) ==
    /\ move'[m].from = move[m].from /\ move'[m].to = move[m].to
    /\ move'[m].job = move[m].job
    /\ \/ move'[m].pc = move[m].pc
       \/ move'[m].pc = "done" /\ move[m].pc # "idle"
    /\ \/ move'[m].post = move[m].post
       \/ move'[m].post = "done" /\ move[m].post # None

LEMMA StopFields ==
  ASSUME MovesTyped, NEW h \in Hosts, Stop(h)
  PROVE  /\ move' \in [Moves -> Records]
         /\ \A m \in Moves : Stopped(m) /\ Phase(move'[m])
<1> DEFINE pc(o) == IF move[o].from = h /\ move[o].pc \in OnSource THEN "done" ELSE move[o].pc
           post(o) == IF move[o].to = h /\ move[o].post = "defined" THEN "done" ELSE move[o].post
           r(o) == [move[o] EXCEPT !.pc = pc(o), !.post = post(o)]
<1>1. move' = [o \in Moves |-> r(o)]
  BY DEF Stop
<1>2. ASSUME NEW o \in Moves
      PROVE  /\ r(o) \in Records /\ r(o).from = move[o].from /\ r(o).to = move[o].to
             /\ r(o).job = move[o].job /\ r(o).pre = move[o].pre /\ r(o).undo = move[o].undo
             /\ r(o).pc = pc(o) /\ r(o).post = post(o)
  <2>1. move[o] \in Records
    BY DEF MovesTyped
  <2>2. pc(o) \in Pcs /\ post(o) \in {None, "sent", "defined", "done"}
    BY <2>1 DEF Records, Pcs
  <2> HIDE DEF pc, post
  <2> QED
    BY <2>1, <2>2 DEF Records
<1> HIDE DEF r
<1>3. ASSUME NEW m \in Moves PROVE Stopped(m) /\ Phase(move'[m])
  <2>1. Phase(move[m])
    BY DEF MovesTyped
  <2>2. /\ move'[m].from = move[m].from /\ move'[m].to = move[m].to
        /\ move'[m].job = move[m].job /\ move'[m].pre = move[m].pre
        /\ move'[m].undo = move[m].undo
        /\ move'[m].pc = pc(m) /\ move'[m].post = post(m)
    BY <1>1, <1>2
  <2> QED
    BY <2>1, <2>2 DEF Stopped, Phase, OnSource, Holding, None
<1> QED
  BY <1>1, <1>2, <1>3

LEMMA TypedStep ==
  ASSUME Safe, [LiveNext]_liveVars
  PROVE  MovesTyped'
<1>1. MovesTyped /\ World
  BY DEF Safe
<1>2. ASSUME move' = move PROVE MovesTyped'
  BY <1>1, <1>2 DEF MovesTyped
<1>3. ASSUME NEW m \in Moves, Moved(m) PROVE MovesTyped'
  BY <1>1, <1>3, GoesStep DEF MovesTyped, Goes, Only
<1>4. ASSUME NEW m \in Moves, NEW d \in Hosts, LiveMigrate(m, d) PROVE MovesTyped'
  <2> DEFINE r == [NoMove EXCEPT !.pc = "checking", !.to = d, !.from = server.host,
                                 !.status = "pre-migrating"]
  <2>1. move' = [move EXCEPT ![m] = r]
    BY <1>4 DEF LiveMigrate
  <2>2. r \in Records /\ Phase(r)
    BY <1>1 DEF NoMove, Records, Pcs, Statuses, Phase, World, None
  <2> HIDE DEF r
  <2> QED
    BY <1>1, <2>1, <2>2 DEF MovesTyped
<1>5. ASSUME NEW h \in Hosts, Stop(h) PROVE MovesTyped'
  BY <1>1, <1>5, StopFields DEF MovesTyped
<1>6. ASSUME NEW h \in Hosts, Reap(h) \/ Starts(h) PROVE MovesTyped'
  BY <1>2, <1>6 DEF Reap, Starts, Start, ResetMove, DeleteAgain
<1>7. CASE DeleteServer \/ Deletes
  BY <1>2, <1>7 DEF DeleteServer, Deletes, TerminateServer, DestroyRow
<1>8. CASE UNCHANGED liveVars
  BY <1>2, <1>8 DEF liveVars
<1> QED
  BY <1>3, <1>4, <1>5, <1>6, <1>7, <1>8 DEF LiveNext, Moved

\* The same guests run, on the same hosts.
GuestsRun == \A h \in Hosts : guest'[h] = "running" <=> guest[h] = "running"
\* No guest begins to run.
NoneBegins == \A h \in Hosts : guest'[h] = "running" => guest[h] = "running"

LEMMA Destroys ==
  ASSUME World, NEW h \in Hosts, Destroy(h)
  PROVE  NoneBegins
BY DEF World, Destroy, NoneBegins, None

\* What becomes of the guests: only a job makes one run elsewhere.
LEMMA GuestSteps ==
  ASSUME World, MovesTyped, NEW m \in Moves, Moved(m)
  PROVE  \/ JobMoves(m)
         \/ RollbackAtDestination(m) /\ NoneBegins
         \/ GuestsRun
<1>1. CASE PostCleanup(m)
  BY <1>1 DEF PostCleanup, GuestsRun, World, None
<1>2. CASE PostDefine(m)
  BY <1>2 DEF PostDefine, GuestsRun, World, None
<1>3. CASE RollbackAtDestination(m)
  BY <1>3 DEF RollbackAtDestination, NoneBegins, World, None
<1>4. CASE ~PostCleanup(m) /\ ~PostDefine(m) /\ ~RollbackAtDestination(m) /\ ~JobMoves(m)
  <2>1. CASE Conduct(m) \/ PreAtDestination(m) \/ Job(m) \/ PostAtDestination(m)
    BY <1>4, <2>1 DEF Conduct, Checked, CheckRefuses, CheckFails, PreAtDestination,
       PreLiveMigration, PreFails, Job, JobFails, PostAtDestination, PostDefineFails,
       PostSettles, GuestsRun
  <2>2. CASE AtSource(m)
    BY <1>4, <2>2 DEF AtSource, Queue, Prepare, Prepared, PrepareFails, Migrate, Watch,
       WatchFails, Post, PostFails, Rollback, RollbackCast, RollbackFails, GuestsRun
  <2> QED
    BY <1>4, <2>1, <2>2 DEF Moved
<1> QED
  BY <1>1, <1>2, <1>3, <1>4

LEMMA OneGuestStep ==
  ASSUME Safe, [LiveNext]_liveVars
  PROVE  OneGuest'
<1>1. World /\ MovesTyped /\ OneGuest /\ Deleting
  BY DEF Safe
<1>2. ASSUME NoneBegins PROVE OneGuest'
  BY <1>1, <1>2 DEF OneGuest, NoneBegins
<1>3. ASSUME UNCHANGED guest PROVE OneGuest'
  BY <1>1, <1>3 DEF OneGuest
<1>4. ASSUME NEW m \in Moves, JobMoves(m) PROVE OneGuest'
  <2>1. guest[move[m].from] = "running" /\ move[m].to \in Hosts /\ move[m].from \in Hosts
        /\ guest' = [guest EXCEPT ![move[m].from] = None, ![move[m].to] = "running"]
    BY <1>1, <1>4 DEF JobMoves, MovesTyped, Phase, None
  <2>2. \A h \in Hosts : guest'[h] = "running" => h = move[m].to
    BY <1>1, <2>1 DEF World, OneGuest, None
  <2> QED
    BY <2>2 DEF OneGuest
<1>5. ASSUME NEW m \in Moves, Moved(m) PROVE OneGuest'
  BY <1>1, <1>2, <1>4, <1>5, GuestSteps DEF GuestsRun, NoneBegins
<1>6. ASSUME NEW m \in Moves, NEW d \in Hosts, LiveMigrate(m, d) PROVE OneGuest'
  BY <1>3, <1>6 DEF LiveMigrate
<1>7. ASSUME NEW h \in Hosts, Reap(h) \/ Stop(h) \/ Starts(h) PROVE OneGuest'
  <2>1. Destroy(h) \/ UNCHANGED guest
    BY <1>7 DEF Reap, Stop, Starts, Start, ResetMove, DeleteAgain
  <2> QED
    BY <1>1, <1>2, <1>3, <2>1, Destroys
<1>8. CASE DeleteServer \/ Deletes
  <2>1. (delete.host \in Hosts /\ Destroy(delete.host)) \/ UNCHANGED guest
    BY <1>1, <1>8 DEF DeleteServer, Deletes, TerminateServer, DestroyRow, Deleting, World
  <2> QED
    BY <1>1, <1>2, <1>3, <2>1, Destroys
<1>9. CASE UNCHANGED liveVars
  BY <1>3, <1>9 DEF liveVars
<1> QED
  BY <1>5, <1>6, <1>7, <1>8, <1>9 DEF LiveNext, Moved

LEMMA SafeStep == Safe /\ [LiveNext]_liveVars => Safe'
<1> SUFFICES ASSUME Safe, [LiveNext]_liveVars PROVE Safe'
  OBVIOUS
<1>1. World' /\ Deleting'
  <2>1. CASE LiveNext
    BY <2>1, WorldStep
  <2>2. CASE UNCHANGED liveVars
    BY <2>2 DEF liveVars, Safe, World, Deleting
  <2> QED
    BY <2>1, <2>2
<1> QED
  BY <1>1, TypedStep, OneGuestStep DEF Safe

LEMMA SafeInit == LiveInit => Safe
<1> SUFFICES ASSUME LiveInit PROVE Safe
  OBVIOUS
<1>1. PICK h \in Hosts :
        /\ server = [host |-> h, vm |-> "active", task |-> None, gone |-> FALSE]
        /\ guest = [g \in Hosts |-> IF g = h THEN "running" ELSE None]
        /\ disk = [g \in Hosts |-> g = h]
        /\ shared \in BOOLEAN
        /\ move = [m \in Moves |-> NoMove]
        /\ delete = [pc |-> "idle", host |-> None]
        /\ compute = [g \in Hosts |-> "up"]
  BY DEF LiveInit
<1>2. World
  BY <1>1 DEF World, Guests, None
<1>3. MovesTyped
  <2>1. NoMove \in Records /\ Phase(NoMove)
    BY DEF NoMove, Records, Pcs, Statuses, Phase, OnSource, Holding, None
  <2> QED
    BY <1>1, <2>1 DEF MovesTyped
<1>4. OneGuest
  BY <1>1 DEF OneGuest, None
<1>5. Deleting
  BY <1>1 DEF Deleting, None
<1> QED
  BY <1>2, <1>3, <1>4, <1>5 DEF Safe

\* The state stays of its types, whatever is asked for and whatever fails.
THEOREM LiveTypesCorrect == LiveSpec => []LiveTypeOK
<1>1. Safe => LiveTypeOK
  <2> SUFFICES ASSUME Safe PROVE LiveTypeOK
    OBVIOUS
  <2>1. ASSUME NEW m \in Moves
        PROVE  /\ move[m].pc \in OnSource \cup {"idle", "checking", "cast", "done"}
               /\ AtStep(m, "idle") \/ {move[m].from, move[m].to} \subseteq Hosts
    BY DEF Safe, MovesTyped, Records, Pcs, Phase, AtStep
  <2>2. delete.host \in Hosts \cup {None}
    BY DEF Safe, World
  <2> QED
    BY <2>1, <2>2 DEF Safe, World, LiveTypeOK
<1> QED
  BY <1>1, SafeInit, SafeStep, PTL DEF LiveSpec

-----------------------------------------------------------------------------
(* A delete is not taken back. *)

\* A deleted instance stays one, on the host its row names.
LEMMA DeleteStays ==
  ASSUME Safe, LiveNext
  PROVE  RowStays
<1>1. World /\ \A h \in Hosts : compute[h] = "deleting" => server.task = "deleting" /\ server.host = h
  BY DEF Safe, Deleting
<1> SUFFICES ASSUME server.task = "deleting" PROVE server'.task = "deleting" /\ server'.host = server.host
  BY DEF RowStays
<1>2. ~Migrating
  BY DEF Migrating
<1>3. ASSUME NEW m \in Moves, NEW d \in Hosts PROVE ~LiveMigrate(m, d)
  BY DEF LiveMigrate, None
<1>4. ASSUME NEW m \in Moves,
             \/ Conduct(m) \/ AtSource(m) \/ Job(m) \/ PreAtDestination(m)
             \/ PostAtDestination(m) \/ RollbackAtDestination(m)
      PROVE  server' = server
  <2>1. CASE Conduct(m) \/ Job(m) \/ PreAtDestination(m) \/ RollbackAtDestination(m)
    BY <1>2, <2>1 DEF Conduct, Checked, CheckRefuses, CheckFails, Job, JobMoves, JobFails,
       PreAtDestination, PreLiveMigration, PreFails, RollbackAtDestination
  <2>2. CASE AtSource(m)
    BY <1>2, <2>2 DEF AtSource, Queue, Prepare, Prepared, PrepareFails, Migrate, Watch,
       WatchFails, Post, PostFails, PostCleanup, Rollback, RollbackCast, RollbackFails
  <2>3. CASE PostAtDestination(m)
    BY <1>2, <2>3 DEF PostAtDestination, PostDefine, PostDefineFails, PostSettles
  <2> QED
    BY <1>4, <2>1, <2>2, <2>3
<1>5. ASSUME NEW h \in Hosts, Reap(h) \/ Stop(h) \/ Starts(h)
      PROVE  server' = server \/ server' = [server EXCEPT !.gone = TRUE]
  BY <1>2, <1>5 DEF Reap, Stop, Starts, Start, ResetMove, DeleteAgain
<1>6. ASSUME DeleteServer \/ Deletes
      PROVE  server' = [server EXCEPT !.task = "deleting"] \/ server' = server \/ server' = [server EXCEPT !.gone = TRUE]
  BY <1>6 DEF DeleteServer, Deletes, TerminateServer, DestroyRow
<1> QED
  BY <1>1, <1>3, <1>4, <1>5, <1>6 DEF LiveNext, World

\* Whatever a move still does, and whichever services are started again, nobody
\* takes the task state of a delete away or the instance to another host: the
\* saves of a move expect their own task state (manager.py, save(
\* expected_task_state=MIGRATING)).
THEOREM DeleteIsNotTakenBack == LiveSpec => [][RowStays]_server
<1>1. Safe /\ [LiveNext]_liveVars => Safe' /\ [RowStays]_server
  <2> SUFFICES ASSUME Safe, [LiveNext]_liveVars PROVE Safe' /\ [RowStays]_server
    OBVIOUS
  <2>1. CASE LiveNext
    BY <2>1, DeleteStays, SafeStep
  <2>2. CASE UNCHANGED liveVars
    BY <2>2, SafeStep DEF liveVars
  <2> QED
    BY <2>1, <2>2
<1> QED
  BY <1>1, SafeInit, PTL DEF LiveSpec

-----------------------------------------------------------------------------
(* The promise of a live migration. *)

AtHome == guest[server.host] = "running"
Arrived(n) == guest[move[n].to] = "running"
\* The steps before the guest moves, or after it is known not to have.
Ahead == {"checking", "cast", "queued", "preparing", "running", "undoing", "rolling"}
\* The move the task state is about.
Current(n) ==
    /\ Begun(n) /\ move[n].from = server.host /\ move[n].pc \notin {"casting", "refused"}
    /\ \A o \in Moves \ {n} : Quiet(o)
    /\ AtHome \/ Arrived(n)
    /\ move[n].job = "active" \/ move[n].pc \in Ahead => AtHome
    /\ move[n].post \in {"sent", "defined"} \/ move[n].pc = "posting" => Arrived(n)

Free == server.task = None => AtHome /\ \A o \in Moves : Quiet(o)
UnderWay == server.task = "migrating" => \E n \in Moves : Current(n)
Placing == server.task # "deleting" => Free /\ UnderWay

WhereTheGuestIs ==
    /\ \A h \in Hosts : guest[h] = "running" => Where = h
    /\ Where \in Hosts \cup {None}

LEMMA WhereIs == OneGuest => WhereTheGuestIs
<1> SUFFICES ASSUME OneGuest PROVE WhereTheGuestIs
  OBVIOUS
<1>1. ASSUME NEW h \in Hosts, guest[h] = "running" PROVE Where = h
  <2>1. Running = {h}
    BY <1>1 DEF Running, OneGuest
  <2>2. Cardinality({h}) = 1
    BY FS_Singleton
  <2> QED
    BY <2>1, <2>2 DEF Where
<1>2. CASE Running = {}
  BY <1>1, <1>2 DEF Where, WhereTheGuestIs
<1>3. CASE Running # {}
  BY <1>1, <1>3 DEF Running, WhereTheGuestIs
<1> QED
  BY <1>2, <1>3

LEMMA WhereStays ==
  ASSUME GuestsRun
  PROVE  Where' = Where
<1>1. Running' = Running
  BY DEF Running, GuestsRun
<1> QED
  BY <1>1 DEF Where

\* Each step is one of GuestPlacement, or is not seen there.
LEMMA AbstractSteps ==
  ASSUME Safe, Safe', server.task \in {None, "migrating", "deleting"},
         server'.task \in {None, "migrating", "deleting"},
         \/ GuestsRun /\ server'.host = server.host
            /\ \/ server'.task \in {server.task, "deleting"}
               \/ server.task = None /\ server'.task = "migrating"
         \/ server.task = "deleting" /\ RowStays
         \/ GuestsRun /\ AtHome' /\ server.task = "migrating" /\ server'.task = None
         \/ /\ server.task = "migrating" /\ server' = server /\ AtHome
            /\ \E d \in Hosts : d # server.host /\ guest'[d] = "running"
  PROVE  [Placement!Next]_(Placement!placement)
<1>1. WhereTheGuestIs /\ WhereTheGuestIs'
  <2>1. OneGuest' => WhereTheGuestIs'
    BY WhereIs, PTL
  <2> QED
    BY <2>1, WhereIs DEF Safe
<1>2. /\ Where \in Hosts \cup {None} /\ Where' \in Hosts \cup {None}
      /\ AtHome => Where = server.host
      /\ AtHome' => Where' = server'.host
      /\ \A d \in Hosts : guest'[d] = "running" => Where' = d
      /\ GuestsRun => Where' = Where
  BY <1>1, WhereStays DEF WhereTheGuestIs, Safe, World, AtHome
<1> USE DEF Placement!Next, Placement!placement, Busy, None
<1>3. CASE GuestsRun /\ server'.host = server.host /\ server'.task = server.task
  BY <1>2, <1>3
<1>4. CASE GuestsRun /\ server'.host = server.host /\ server'.task = "deleting"
  BY <1>2, <1>4 DEF Placement!Delete
<1>5. CASE GuestsRun /\ server'.host = server.host /\ server.task = None /\ server'.task = "migrating"
  BY <1>2, <1>5 DEF Placement!Begin
<1>6. CASE server.task = "deleting" /\ RowStays
  BY <1>2, <1>6 DEF Placement!Vanish, RowStays
<1>7. CASE GuestsRun /\ AtHome' /\ server.task = "migrating" /\ server'.task = None
  BY <1>2, <1>7 DEF Placement!Settle
<1>8. CASE /\ server.task = "migrating" /\ server' = server /\ AtHome
           /\ \E d \in Hosts : d # server.host /\ guest'[d] = "running"
  <2>1. Where = server.host /\ Where' \in Hosts \ {Where}
    BY <1>2, <1>8
  <2> QED
    BY <1>8, <2>1 DEF Placement!Move
<1> QED
  BY <1>3, <1>4, <1>5, <1>6, <1>7, <1>8

\* What has gone astray stays so.
LEMMA MishapsStay ==
  ASSUME [LiveNext]_liveVars
  PROVE  mishaps \subseteq mishaps'
<1>1. ASSUME NEW m \in Moves, Moved(m) PROVE mishaps \subseteq mishaps'
  <2>1. CASE Conduct(m) \/ PreAtDestination(m) \/ Job(m) \/ PostAtDestination(m)
             \/ RollbackAtDestination(m)
    BY <2>1 DEF Conduct, Checked, CheckRefuses, CheckFails, PreAtDestination,
       PreLiveMigration, PreFails, Job, JobMoves, JobFails, PostAtDestination, PostDefine,
       PostDefineFails, PostSettles, RollbackAtDestination, Mishap, Note
  <2>2. CASE AtSource(m)
    BY <2>2 DEF AtSource, Queue, Prepare, Prepared, PrepareFails, Migrate, Watch,
       WatchFails, Post, PostFails, PostCleanup, Rollback, RollbackCast, RollbackFails, Mishap
  <2> QED
    BY <1>1, <2>1, <2>2 DEF Moved
<1>2. ASSUME NEW m \in Moves, NEW d \in Hosts, LiveMigrate(m, d)
      PROVE  mishaps \subseteq mishaps'
  BY <1>2 DEF LiveMigrate
<1>3. ASSUME NEW h \in Hosts, Reap(h) \/ Stop(h) \/ Starts(h)
      PROVE  mishaps \subseteq mishaps'
  BY <1>3 DEF Reap, Stop, Starts, Start, ResetMove, DeleteAgain, Mishap, Note
<1>4. CASE DeleteServer \/ Deletes
  BY <1>4 DEF DeleteServer, Deletes, TerminateServer, DestroyRow
<1>5. CASE UNCHANGED liveVars
  BY <1>5 DEF liveVars
<1> QED
  BY <1>1, <1>2, <1>3, <1>4, <1>5 DEF LiveNext, Moved

\* The step of a move that is done with the guest.
LEMMA QuietStep ==
  ASSUME Safe, Placing, server.task # "deleting", NEW m \in Moves, Quiet(m), Moved(m), ~Astray'
  PROVE  Placing' /\ GuestsRun /\ server' = server
<1>1. /\ MovesTyped /\ Phase(move[m]) /\ World /\ server.host \in Hosts /\ Begun(m) /\ Goes(m)
      /\ move[m].to \in Hosts
  BY GoesStep DEF Safe, World, MovesTyped, Begun, Phase
<1>2. /\ move[m].pc \in {"idle", "done", "casting", "refused", "cleaning"}
      /\ move[m].job # "active" /\ move[m].post \in {None, "done"}
  BY DEF Quiet
<1>3. \/ RollbackCast(m) \/ RollbackFails(m) \/ PostCleanup(m)
      \/ RollbackAtDestination(m) \/ PreAtDestination(m)
  BY <1>1, <1>2, FieldsOf DEF Moved, Conduct, AtSource, Job, PostAtDestination, None
<1>4. /\ Quiet(m)' /\ server' = server
      /\ move'[m].pc \in {move[m].pc, "done"} /\ move'[m].job = move[m].job
      /\ move'[m].post = move[m].post
  <2>1. server' = server
    BY <1>3 DEF RollbackCast, RollbackFails, PostCleanup, RollbackAtDestination,
       PreAtDestination, PreLiveMigration, PreFails
  <2>2. \/ Reaches(m, "done")
        \/ Fields(m, "done", move[m].pre, move[m].job, move[m].post, IF shared THEN None ELSE "sent")
        \/ Fields(m, move[m].pc, move[m].pre, move[m].job, move[m].post, "done")
        \/ \E pre \in {"raised", "ok"} :
              Fields(m, move[m].pc, pre, move[m].job, move[m].post, move[m].undo)
    BY <1>1, <1>3, FieldsOf DEF PreAtDestination
  <2> QED
    BY <1>2, <2>1, <2>2 DEF Quiet, Reaches, Fields
<1>5. GuestsRun
  <2>1. CASE RollbackAtDestination(m)
    <3>1. guest[move[m].to] # "running"
      BY <2>1 DEF RollbackAtDestination, Note, Astray
    <3> QED
      BY <1>1, <2>1, <3>1 DEF RollbackAtDestination, GuestsRun, World, None
  <2>2. ~JobMoves(m)
    BY <1>2 DEF JobMoves
  <2> QED
    BY <1>1, <2>1, <2>2, GuestSteps
<1>6. \A o \in Moves : Quiet(o) => Quiet(o)'
  BY <1>1, <1>4 DEF Goes, Only, Quiet
<1>7. AtHome' = AtHome
  BY <1>1, <1>4, <1>5 DEF AtHome, GuestsRun
<1>8. Free'
  BY <1>4, <1>6, <1>7 DEF Placing, Free
<1>9. UnderWay'
  <2> SUFFICES ASSUME server.task = "migrating" PROVE \E n \in Moves : Current(n)'
    BY <1>4 DEF UnderWay
  <2>1. PICK n \in Moves : Current(n)
    BY DEF Placing, UnderWay
  <2>2. move[n].to \in Hosts /\ move'[n].to = move[n].to /\ move'[n].from = move[n].from
    BY <1>1, <2>1 DEF MovesTyped, Phase, Current, Begun, Goes, Only
  <2>3. Arrived(n)' = Arrived(n)
    BY <1>5, <2>2 DEF Arrived, GuestsRun
  <2>4. /\ move'[n].pc \in {move[n].pc, "done"} /\ move'[n].pc # "idle"
        /\ move'[n].job = move[n].job /\ move'[n].post = move[n].post
    BY <1>1, <1>4, <2>1 DEF Goes, Only, Current, Begun
  <2>5. \A o \in Moves \ {n} : Quiet(o)'
    BY <1>6, <2>1 DEF Current
  <2> QED
    BY <1>4, <1>7, <2>1, <2>2, <2>3, <2>4, <2>5 DEF Current, Begun, Ahead
<1> QED
  BY <1>4, <1>5, <1>8, <1>9 DEF Placing

\* The row's own move goes on.
LEMMA CurrentGoesOn ==
  ASSUME server.task = "migrating", NEW m \in Moves, Current(m), Goes(m), server' = server,
         move'[m].pc \notin {"casting", "refused"},
         AtHome' \/ Arrived(m)',
         move'[m].job = "active" \/ move'[m].pc \in Ahead => AtHome',
         move'[m].post \in {"sent", "defined"} \/ move'[m].pc = "posting" => Arrived(m)'
  PROVE  Placing'
<1>1. \A o \in Moves \ {m} : Quiet(o)'
  BY DEF Goes, Only, Quiet, Current
<1>2. Current(m)'
  BY <1>1 DEF Goes, Current, Begun
<1> QED
  BY <1>2 DEF Placing, Free, UnderWay, None

\* Its step, when that is none of those that change the row.
LEMMA CurrentStep ==
  ASSUME Safe, Placing, server.task = "migrating", NEW m \in Moves, Current(m), ~Quiet(m),
         Moved(m), ~Astray',
         ~CheckRefuses(m), ~CheckFails(m), ~PostSettles(m), ~Rollback(m)
  PROVE  /\ Placing' /\ server' = server
         /\ GuestsRun \/ (AtHome /\ \E d \in Hosts : d # server.host /\ guest'[d] = "running")
<1>1. /\ MovesTyped /\ World /\ server.host \in Hosts /\ Phase(move[m]) /\ Goes(m) /\ Migrating
      /\ move[m].from = server.host /\ move[m].to \in Hosts /\ move[m] \in Records
  BY GoesStep DEF Safe, Deleting, World, MovesTyped, Phase, Begun, Current, Migrating
<1>2. /\ AtHome \/ Arrived(m)
      /\ move[m].job = "active" \/ move[m].pc \in Ahead => AtHome
      /\ move[m].post \in {"sent", "defined"} \/ move[m].pc = "posting" => Arrived(m)
      /\ move[m].pc \notin {"idle", "casting", "refused"}
  BY DEF Current, Begun
<1>3. server' = server
  <2>1. CASE Conduct(m) \/ Job(m) \/ PreAtDestination(m) \/ RollbackAtDestination(m)
    BY <2>1 DEF Conduct, Checked, Job, JobMoves, JobFails, PreAtDestination,
       PreLiveMigration, PreFails, RollbackAtDestination
  <2>2. CASE AtSource(m)
    BY <2>2 DEF AtSource, Queue, Prepare, Prepared, PrepareFails, Migrate, Watch,
       WatchFails, Post, PostFails, PostCleanup, RollbackCast, RollbackFails
  <2>3. CASE PostAtDestination(m)
    BY <2>3 DEF PostAtDestination, PostDefine, PostDefineFails
  <2> QED
    BY <2>1, <2>2, <2>3 DEF Moved
<1>4. CASE JobMoves(m)
  <2>1. /\ move[m].job = "active" /\ move[m].from # move[m].to
        /\ Fields(m, move[m].pc, move[m].pre, "over", move[m].post, move[m].undo)
        /\ guest' = [guest EXCEPT ![server.host] = None, ![move[m].to] = "running"]
    BY <1>1, <1>4, FieldsOf DEF JobMoves, Phase, None
  <2>2. AtHome /\ Arrived(m)' /\ guest'[move[m].to] = "running" /\ move[m].to # server.host
    BY <1>1, <1>2, <2>1 DEF Arrived, Fields, World
  <2>3. /\ move'[m].pc \notin Ahead \cup {"casting", "refused"} /\ move'[m].job # "active"
    BY <1>1, <2>1 DEF Fields, Phase, Ahead, None
  <2>4. Placing'
    BY <1>1, <1>3, <2>2, <2>3, CurrentGoesOn
  <2> QED
    BY <1>1, <1>3, <2>2, <2>4
<1>5. CASE ~JobMoves(m)
  <2>1. GuestsRun
    <3>1. CASE RollbackAtDestination(m)
      <4>1. guest[move[m].to] # "running"
        BY <3>1 DEF RollbackAtDestination, Note, Astray
      <4> QED
        BY <1>1, <3>1, <4>1 DEF RollbackAtDestination, GuestsRun, World, None
    <3> QED
      BY <1>1, <1>5, <3>1, GuestSteps
  <2>2. AtHome' = AtHome /\ Arrived(m)' = Arrived(m)
    BY <1>1, <1>3, <2>1 DEF AtHome, Arrived, GuestsRun, Goes
  <2>3. ASSUME move'[m].pc \notin {"casting", "refused"},
               move'[m].job = "active" \/ move'[m].pc \in Ahead => AtHome,
               move'[m].post \in {"sent", "defined"} \/ move'[m].pc = "posting" => Arrived(m)
        PROVE  Placing'
    BY <1>1, <1>2, <1>3, <2>2, <2>3, CurrentGoesOn
  <2>4. CASE Checked(m) \/ Queue(m) \/ Prepare(m)
    <3>1. \/ move[m].pc = "checking" /\ Reaches(m, "cast")
          \/ move[m].pc = "cast" /\ Reaches(m, "queued")
          \/ move[m].pc = "queued"
             /\ Fields(m, "preparing", "sent", move[m].job, move[m].post, move[m].undo)
      BY <1>1, <2>4, FieldsOf
    <3> QED
      BY <1>2, <2>1, <1>3, <2>3, <3>1 DEF Reaches, Fields, Ahead
  <2>5. CASE PreAtDestination(m) \/ RollbackAtDestination(m)
    <3>1. move'[m].pc = move[m].pc /\ move'[m].job = move[m].job /\ move'[m].post = move[m].post
      BY <1>1, <2>5, FieldsOf DEF PreAtDestination, Fields
    <3> QED
      BY <1>2, <2>1, <1>3, <2>3, <3>1
  <2>6. CASE Prepared(m) \/ PrepareFails(m)
    <3>1. move[m].pc = "preparing" /\ (Reaches(m, "running") \/ Reaches(m, "undoing"))
      BY <1>1, <2>6, FieldsOf
    <3> QED
      BY <1>2, <2>1, <1>3, <2>3, <3>1 DEF Reaches, Fields, Ahead
  <2>7. CASE Migrate(m)
    <3>1. /\ move[m].pc = "running"
          /\ \/ Reaches(m, "done")
             \/ Fields(m, "watching", move[m].pre, "active", move[m].post, move[m].undo)
      BY <1>1, <2>7, FieldsOf
    <3>2. move[m].post = None
      BY <1>1, <3>1 DEF Phase, None
    <3> QED
      BY <1>2, <2>1, <1>3, <2>3, <3>1, <3>2 DEF Reaches, Fields, Ahead, None
  <2>8. CASE Watch(m)
    <3>1. ~Reaches(m, "rolling") => Reaches(m, "posting") /\ ~AtHome
      BY <1>1, <2>8, FieldsOf DEF AtHome, Astray
    <3>2. Reaches(m, "rolling") => AtHome
      <4>1. move[m].pc = "watching" /\ "misread" \notin mishaps'
        BY <2>8 DEF Watch, Runs, AtStep, Astray
      <4>2. guest[move[m].from] # "running" => Reaches(m, "posting")
        BY <1>1, <2>8, <4>1, FieldsOf
      <4> QED
        BY <1>1, <4>2 DEF AtHome, Reaches, Fields
    <3>3. move[m].pc = "watching" /\ move[m].job = "over" /\ move[m].post = None
      BY <1>1, <2>8, FieldsOf DEF Phase
    <3> QED
      BY <1>2, <2>1, <1>3, <2>3, <3>1, <3>2, <3>3 DEF Reaches, Fields, Ahead, None
  <2>9. CASE WatchFails(m) \/ PostFails(m) \/ PostCleanup(m)
    <3>1. Reaches(m, "done")
      BY <1>1, <2>9, FieldsOf
    <3> QED
      BY <1>2, <2>1, <1>3, <2>3, <3>1 DEF Reaches, Fields, Ahead
  <2>10. CASE Post(m)
    <3>1. /\ move[m].pc = "posting"
          /\ Fields(m, "cleaning", move[m].pre, move[m].job, "sent", move[m].undo)
      BY <1>1, <2>10, FieldsOf
    <3> QED
      BY <1>2, <2>1, <1>3, <2>3, <3>1 DEF Fields, Ahead
  <2>11. CASE PostDefine(m) \/ PostDefineFails(m)
    <3>1. /\ move[m].post = "sent"
          /\ \E post \in {"defined", "done"} :
                Fields(m, move[m].pc, move[m].pre, move[m].job, post, move[m].undo)
      BY <1>1, <2>11, FieldsOf
    <3> QED
      BY <1>2, <2>1, <1>3, <2>3, <3>1 DEF Fields
  <2>12. CASE JobFails(m)
    <3>1. /\ move[m].job = "active"
          /\ Fields(m, move[m].pc, move[m].pre, "over", move[m].post, move[m].undo)
      BY <1>1, <2>12, FieldsOf
    <3> QED
      BY <1>2, <2>1, <1>3, <2>3, <3>1 DEF Fields
  <2>13. ~RollbackCast(m) /\ ~RollbackFails(m)
    BY <1>1, <1>2, FieldsOf
  <2> QED
    BY <1>5, <2>4, <2>5, <2>6, <2>7, <2>8, <2>9, <2>10, <2>11, <2>12, <2>13,
       <2>1, <1>3 DEF Moved, Conduct, AtSource, Job, PostAtDestination
<1> QED
  BY <1>4, <1>5

\* Its step that changes the row: the task ends where the guest is, or the
\* instance goes to ERROR.
LEMMA SettleStep ==
  ASSUME Safe, Placing, server.task = "migrating", NEW m \in Moves, Current(m), ~Quiet(m),
         CheckRefuses(m) \/ CheckFails(m) \/ PostSettles(m) \/ Rollback(m)
  PROVE  /\ Placing' /\ GuestsRun
         /\ \/ server'.host = server.host /\ server'.task = server.task
            \/ server'.task = None /\ AtHome'
<1>1. /\ MovesTyped /\ World /\ server.host \in Hosts /\ Phase(move[m]) /\ Migrating /\ Goes(m)
      /\ move[m].from = server.host /\ move[m].to \in Hosts
      /\ \A o \in Moves \ {m} : Quiet(o)
  BY GoesStep DEF Safe, Deleting, World, MovesTyped, Phase, Begun, Current, Migrating, Moved,
     Conduct, AtSource, PostAtDestination
<1>2. /\ move[m].pc \in Ahead => AtHome
      /\ move[m].post \in {"sent", "defined"} => Arrived(m)
      /\ move[m].pc \notin {"casting", "refused"}
  BY DEF Current
<1>3. guest' = guest /\ GuestsRun
  BY DEF CheckRefuses, CheckFails, PostSettles, Rollback, GuestsRun
<1>4. ASSUME Quiet(m)', server'.task = None, AtHome' PROVE Placing'
  <2>1. \A o \in Moves : Quiet(o)'
    BY <1>1, <1>4 DEF Goes, Only, Quiet
  <2> QED
    BY <1>4, <2>1 DEF Placing, Free, UnderWay, None
<1>5. CASE CheckRefuses(m) \/ Rollback(m)
  <2>1. /\ server' = [server EXCEPT !.task = None]
        /\ \/ move[m].pc = "checking" /\ Reaches(m, "done")
           \/ move[m].pc = "rolling" /\ Reaches(m, "casting")
           \/ move[m].pc = "undoing" /\ Reaches(m, "refused")
    BY <1>1, <1>5, FieldsOf DEF CheckRefuses, Rollback
  <2>2. Quiet(m)'
    BY <1>1, <2>1 DEF Quiet, Reaches, Fields, Phase, None
  <2>3. server'.task = None /\ AtHome'
    BY <1>1, <1>2, <1>3, <2>1 DEF World, AtHome, Ahead
  <2> QED
    BY <1>3, <1>4, <2>2, <2>3
<1>6. CASE PostSettles(m)
  <2>1. /\ move[m].post = "defined" /\ server' = [server EXCEPT !.host = move[m].to, !.task = None]
        /\ Fields(m, move[m].pc, move[m].pre, move[m].job, "done", move[m].undo)
    BY <1>1, <1>6, FieldsOf DEF PostSettles
  <2>2. Quiet(m)'
    BY <1>1, <2>1 DEF Quiet, Fields, Phase, None
  <2>3. server'.task = None /\ AtHome'
    BY <1>1, <1>2, <1>3, <2>1 DEF World, AtHome, Arrived
  <2> QED
    BY <1>3, <1>4, <2>2, <2>3
<1>7. CASE CheckFails(m)
  <2>1. /\ move[m].pc = "checking" /\ Reaches(m, "done") /\ server' = [server EXCEPT !.vm = "error"]
    BY <1>1, <1>7, FieldsOf DEF CheckFails
  <2>2. server'.task = "migrating" /\ server'.host = server.host /\ AtHome'
    BY <1>1, <1>2, <1>3, <2>1 DEF World, AtHome, Ahead, Migrating
  <2>3. /\ move'[m].pc = "done" /\ move'[m].job = None /\ move'[m].post = None
    BY <1>1, <2>1 DEF Reaches, Fields, Phase, None
  <2>4. \A o \in Moves \ {m} : Quiet(o)'
    BY <1>1 DEF Goes, Only, Quiet
  <2>5. Current(m)'
    BY <1>1, <2>2, <2>3, <2>4 DEF Current, Begun, Goes, Ahead, None
  <2> QED
    BY <1>3, <2>2, <2>5 DEF Placing, Free, UnderWay, None
<1> QED
  BY <1>5, <1>6, <1>7

\* A new move begins while no other has anything to do with the guest.
LEMMA BeginStep ==
  ASSUME Safe, Placing, NEW m \in Moves, NEW d \in Hosts, LiveMigrate(m, d)
  PROVE  /\ Placing' /\ GuestsRun /\ server.task = None
         /\ server'.task = "migrating" /\ server'.host = server.host
<1>1. MovesTyped /\ World /\ server.host \in Hosts /\ server.task = None
  BY DEF Safe, World, LiveMigrate
<1>2. /\ server' = [server EXCEPT !.task = "migrating"] /\ guest' = guest
      /\ \A o \in Moves \ {m} : move'[o] = move[o]
      /\ LET r == [NoMove EXCEPT !.pc = "checking", !.to = d, !.from = server.host,
                                 !.status = "pre-migrating"]
         IN  move'[m] = r
  BY <1>1 DEF LiveMigrate, MovesTyped
<1>3. /\ move'[m].pc = "checking" /\ move'[m].from = server.host
      /\ move'[m].job = None /\ move'[m].post = None
  BY <1>2 DEF NoMove
<1>4. server'.task = "migrating" /\ server'.host = server.host /\ GuestsRun
  BY <1>1, <1>2 DEF World, GuestsRun
<1>5. AtHome' /\ \A o \in Moves \ {m} : Quiet(o)'
  BY <1>1, <1>2, <1>4 DEF Placing, Free, AtHome, Quiet, None
<1>6. Current(m)'
  BY <1>3, <1>4, <1>5 DEF Current, Begun, None
<1> QED
  BY <1>1, <1>4, <1>6 DEF Placing, Free, UnderWay, None

\* A stop leaves the guests and the row as they are: what it ends is quiet.
LEMMA StopStep ==
  ASSUME Safe, Placing, server.task # "deleting", NEW h \in Hosts, Stop(h)
  PROVE  Placing' /\ GuestsRun /\ server' = server
<1>1. /\ MovesTyped /\ World /\ server.host \in Hosts /\ UNCHANGED <<server, guest>> /\ GuestsRun
  BY DEF Safe, World, Stop, GuestsRun
<1>2. \A o \in Moves : Stopped(o)
  BY <1>1, StopFields
<1>3. \A o \in Moves : /\ Begun(o) => Begun(o)'
                       /\ Quiet(o) => Quiet(o)'
                       /\ Arrived(o)' = Arrived(o)
  BY <1>1, <1>2 DEF Stopped, Begun, Quiet, Arrived, None
<1>4. AtHome' = AtHome /\ Free'
  BY <1>1, <1>3 DEF Placing, Free, AtHome
<1>5. UnderWay'
  <2> SUFFICES ASSUME server.task = "migrating" PROVE \E n \in Moves : Current(n)'
    BY <1>1 DEF UnderWay
  <2>1. PICK n \in Moves : Current(n)
    BY DEF Placing, UnderWay
  <2> QED
    BY <1>1, <1>2, <1>3, <1>4, <2>1 DEF Current, Stopped, Ahead
<1> QED
  BY <1>1, <1>4, <1>5 DEF Placing

\* A start may clear the task state; if that is not astray, the guest is at home
\* and no move goes on.
LEMMA StartStep ==
  ASSUME Safe, Placing, server.task # "deleting", NEW h \in Hosts, Start(h) \/ ResetMove(h),
         ~Astray'
  PROVE  /\ Placing' /\ GuestsRun /\ server'.host = server.host
         /\ server'.task = server.task \/ (server.task = "migrating" /\ server'.task = None /\ AtHome')
<1>1. /\ World /\ server.host \in Hosts /\ UNCHANGED <<guest, move>> /\ GuestsRun
      /\ \A o \in Moves : Arrived(o)' = Arrived(o) /\ Quiet(o)' = Quiet(o) /\ Begun(o)' = Begun(o)
  BY DEF Safe, World, Start, ResetMove, GuestsRun, Arrived, Quiet, Begun
<1>2. CASE server' = server
  <2>1. AtHome' = AtHome
    BY <1>1, <1>2 DEF AtHome
  <2> QED
    BY <1>1, <1>2, <2>1 DEF Placing, Free, UnderWay, Current
<1>3. CASE server' # server
  <2>1. /\ server.task = "migrating" /\ server' = [server EXCEPT !.task = None]
        /\ "reset" \in mishaps' \/ (AtHome /\ \A o \in Moves : Quiet(o))
    BY <1>3 DEF Start, ResetMove, Migrating, Note, AtHome
  <2>2. server'.host = server.host /\ server'.task = None /\ AtHome' /\ \A o \in Moves : Quiet(o)'
    BY <1>1, <2>1 DEF World, AtHome, Astray
  <2> QED
    BY <1>1, <2>1, <2>2 DEF Placing, Free, UnderWay, None
<1> QED
  BY <1>2, <1>3

LEMMA PlacingStep ==
  ASSUME Safe, Safe', Astray \/ Placing, [LiveNext]_liveVars
  PROVE  /\ Astray' \/ Placing'
         /\ [Placement!Next \/ Astray']_(Placement!placement)
<1> SUFFICES ASSUME ~Astray'
             PROVE  Placing' /\ [Placement!Next]_(Placement!placement)
  OBVIOUS
<1>1. /\ server.task \in {None, "migrating", "deleting"} /\ server'.task \in {None, "migrating", "deleting"}
      /\ Deleting /\ World
  BY DEF Safe, World
<1>2. Placing
  BY MishapsStay DEF Astray
<1>3. CASE UNCHANGED liveVars
  <2>1. GuestsRun /\ server' = server
    BY <1>3 DEF liveVars, GuestsRun
  <2>2. Placing'
    BY <1>2, <1>3 DEF liveVars, Placing, Free, UnderWay, Current, Quiet, Begun, AtHome, Arrived
  <2> QED
    BY <1>1, <2>1, <2>2, AbstractSteps
<1>4. CASE LiveNext /\ server.task = "deleting"
  <2>1. RowStays /\ server'.task = "deleting"
    BY <1>4, DeleteStays DEF RowStays
  <2> QED
    BY <1>1, <1>4, <2>1, AbstractSteps DEF Placing
<1>5. CASE LiveNext /\ server.task # "deleting"
  <2>1. ASSUME NEW m \in Moves, NEW d \in Hosts, LiveMigrate(m, d)
        PROVE  Placing' /\ [Placement!Next]_(Placement!placement)
    BY <1>1, <1>2, <2>1, BeginStep, AbstractSteps
  <2>2. ASSUME NEW m \in Moves, Moved(m)
        PROVE  Placing' /\ [Placement!Next]_(Placement!placement)
    <3>1. CASE Quiet(m)
      BY <1>1, <1>2, <1>5, <2>2, <3>1, QuietStep, AbstractSteps
    <3>2. CASE ~Quiet(m)
      <4>1. server.task = "migrating" /\ Current(m)
        BY <1>1, <1>2, <1>5, <3>2 DEF Placing, Free, UnderWay, Current
      <4>2. CASE CheckRefuses(m) \/ CheckFails(m) \/ PostSettles(m) \/ Rollback(m)
        BY <1>1, <1>2, <3>2, <4>1, <4>2, SettleStep, AbstractSteps
      <4>3. CASE ~(CheckRefuses(m) \/ CheckFails(m) \/ PostSettles(m) \/ Rollback(m))
        BY <1>1, <1>2, <2>2, <3>2, <4>1, <4>3, CurrentStep, AbstractSteps
      <4> QED
        BY <4>2, <4>3
    <3> QED
      BY <3>1, <3>2
  <2>3. ~TerminateServer /\ ~DestroyRow /\ \A h \in Hosts : ~Reap(h) /\ ~DeleteAgain(h)
    BY <1>1, <1>5 DEF Deleting, TerminateServer, DestroyRow, Reap, DeleteAgain
  <2>4. CASE DeleteServer
    <3>1. GuestsRun /\ server'.host = server.host /\ server'.task = "deleting"
      BY <1>1, <2>4 DEF DeleteServer, GuestsRun, World
    <3> QED
      BY <1>1, <3>1, AbstractSteps DEF Placing
  <2>5. ASSUME NEW h \in Hosts, Stop(h)
        PROVE  Placing' /\ [Placement!Next]_(Placement!placement)
    BY <1>1, <1>2, <1>5, <2>5, StopStep, AbstractSteps
  <2>6. ASSUME NEW h \in Hosts, Start(h) \/ ResetMove(h)
        PROVE  Placing' /\ [Placement!Next]_(Placement!placement)
    BY <1>1, <1>2, <1>5, <2>6, StartStep, AbstractSteps
  <2> QED
    BY <1>5, <2>1, <2>2, <2>3, <2>4, <2>5, <2>6 DEF LiveNext, Moved, Deletes, Starts
<1> QED
  BY <1>3, <1>4, <1>5

LEMMA PlacingInit ==
  ASSUME LiveInit
  PROVE  Placing /\ Placement!Init
<1>1. Safe
  BY SafeInit
<1>2. PICK h \in Hosts :
        /\ server = [host |-> h, vm |-> "active", task |-> None, gone |-> FALSE]
        /\ guest = [g \in Hosts |-> IF g = h THEN "running" ELSE None]
        /\ move = [m \in Moves |-> NoMove]
  BY DEF LiveInit
<1>3. AtHome /\ server.task = None /\ server.host = h
  BY <1>2 DEF AtHome
<1>4. \A m \in Moves : Quiet(m)
  BY <1>2 DEF NoMove, Quiet, None
<1>5. Free /\ UnderWay
  BY <1>2, <1>3, <1>4 DEF Free, UnderWay, None
<1>6. Where = h
  BY <1>1, <1>2, <1>3, WhereIs DEF Safe, WhereTheGuestIs, AtHome
<1> QED
  BY <1>3, <1>5, <1>6 DEF Placing, Placement!Init, Busy, None

\* The many steps of a live migration come to GuestPlacement, for any hosts, any
\* requests and however many at once, wherever services stop: the guest moves
\* once or not at all, and whenever the task state is cleared the row names the
\* host it runs on; until a restart has cleared the task state of a move that
\* goes on or whose guest has left, a failing answer of libvirt was read as a
\* failed move, or a late rollback has destroyed a running guest.
THEOREM MovesPlaceTheGuest == LiveSpec => Placed
<1>1. LiveInit => Safe /\ (Astray \/ Placing) /\ Placement!Init
  BY SafeInit, PlacingInit
<1>2. Safe /\ (Astray \/ Placing) /\ [LiveNext]_liveVars
        => Safe' /\ (Astray \/ Placing)' /\ [Placement!Next \/ Astray']_(Placement!placement)
  BY SafeStep, PlacingStep
<1> QED
  BY <1>1, <1>2, PTL DEF LiveSpec, Placed
=============================================================================
