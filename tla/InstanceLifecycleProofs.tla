---------------------- MODULE InstanceLifecycleProofs ----------------------
(***************************************************************************)
(* What TLAPS proves of InstanceLifecycle, for any requests, actions and   *)
(* mishaps.                                                                *)
(***************************************************************************)
EXTENDS InstanceLifecycle, TLAPS

-----------------------------------------------------------------------------
(* What the row, the copies and the threads can be. *)

PowerTasks == {"powering-off", "powering-on", "pausing", "unpausing", "suspending",
               "resuming", "rescuing", "unrescuing", "restoring", "soft-deleting"}
RebootTasks == {"rebooting", "reboot_pending", "reboot_started", "rebooting_hard",
                "reboot_pending_hard", "reboot_started_hard"}
Tasks == PowerTasks \cup RebootTasks \cup {None, "deleting"}
Pcs == {"idle", "done", "ignored", "read", "saved", "cast", "drove", "drove_off",
        "pending", "started", "rebooted", "destroyed", "deleted", "committing",
        "listed", "agrees", "differs"}
PlainOps == {"stop", "force_stop", "start", "pause", "unpause", "suspend", "resume",
             "rescue", "unrescue", "restore", "soft_delete"}

Rows == [vm : VmStates, task : Tasks, power : GuestStates, gone : BOOLEAN]
Steps == [pc : Pcs, op : Ops \cup AllOps \cup {None, "sync", "init"},
          vm : VmStates \cup {None}, task : Tasks, seen : GuestStates]

Resting == {"idle", "done", "ignored"}

\* A thread that has something in hand has a copy of the row, one that reboots
\* keeps to it, and the init has something in hand only while the service
\* initialises.
Threads ==
    /\ flow \in [Flows -> Steps]
    /\ \A f \in Flows : flow[f].pc \notin Resting => flow[f].vm \in VmStates
    /\ \A f \in Flows : flow[f].pc = "pending" => flow[f].op \in DOMAIN Reboot
    /\ flow["init"].pc \notin Resting => compute = "init"

World ==
    /\ row \in Rows /\ guest \in GuestStates /\ compute \in {"down", "init", "up"}
    /\ lock \in Flows \cup {None} /\ charged \in Int /\ reclaim \in BOOLEAN
    /\ Threads
    /\ mishaps \in [crashes : Nat, others : Nat]

\* Without a reclaim interval nothing is soft deleted.
NeverSoft ==
    /\ row.vm # "soft-delete" /\ flow["reclaim"].pc = "idle"
    /\ \A f \in Flows : flow[f].vm # "soft-delete" /\ flow[f].op # "soft_delete"

Committing(f) == flow[f].pc = "committing"

\* One delete destroys the row and is to give the instance back, or has, or died
\* in between.
ReleasedOnce ==
    IF row.gone
    THEN /\ \A f, g \in Flows : Committing(f) /\ Committing(g) => f = g
         /\ IF \E f \in Flows : Committing(f) THEN charged = 1
            ELSE charged = 0 \/ (charged = 1 /\ mishaps.crashes > 0)
    ELSE charged = 1 /\ \A f \in Flows : ~Committing(f)

LifecycleInv == World /\ (~reclaim => NeverSoft /\ ReleasedOnce)

-----------------------------------------------------------------------------
(* What the operators of the model give. *)

LEMMA PlainIs ==
  /\ DOMAIN Plain = PlainOps
  /\ \A op \in PlainOps :
        /\ Plain[op].task \in Tasks /\ Plain[op].guest \in GuestStates
        /\ Plain[op].to \in VmStates
        /\ op # "soft_delete" => Plain[op].to # "soft-delete"
        /\ op = "restore" => Plain[op].from = {"soft-delete"}
<1>1. DOMAIN Plain = PlainOps
  BY DEF Plain, PlainOps
<1>2. ASSUME NEW op \in PlainOps
      PROVE  /\ Plain[op].task \in Tasks /\ Plain[op].guest \in GuestStates
             /\ Plain[op].to \in VmStates
             /\ op # "soft_delete" => Plain[op].to # "soft-delete"
             /\ op = "restore" => Plain[op].from = {"soft-delete"}
  BY DEF Plain, PlainOps, Tasks, PowerTasks, GuestStates, Defined, VmStates
<1> QED
  BY <1>1, <1>2

LEMMA RebootIs ==
  /\ DOMAIN Reboot = {"soft_reboot", "hard_reboot"}
  /\ \A op \in DOMAIN Reboot : /\ Reboot[op].ask \in Tasks /\ Reboot[op].pending \in Tasks
                               /\ Reboot[op].started \in Tasks
BY DEF Reboot, Tasks, RebootTasks

LEMMA IdleStep ==
  /\ Idle \in Steps /\ \A pc \in Pcs : [Idle EXCEPT !.pc = pc] \in Steps
  /\ Idle.pc = "idle" /\ Idle.vm = None /\ Idle.op = None
  /\ \A pc \in Pcs : /\ [Idle EXCEPT !.pc = pc].pc = pc
                     /\ [Idle EXCEPT !.pc = pc].vm = None /\ [Idle EXCEPT !.pc = pc].op = None
BY DEF Idle, Steps, Pcs, Tasks, GuestStates, None

LEMMA StepIs ==
  ASSUME NEW pc \in Pcs, NEW op \in Ops \cup AllOps \cup {None, "sync", "init"},
         NEW vm \in VmStates \cup {None}, NEW task \in Tasks
  PROVE  /\ Step(pc, op, vm, task) \in Steps
         /\ Step(pc, op, vm, task).pc = pc /\ Step(pc, op, vm, task).op = op
         /\ Step(pc, op, vm, task).vm = vm
BY DEF Step, Idle, Steps, GuestStates, None

LEMMA FlowsAre ==
  /\ {"sync", "init", "reclaim"} \subseteq Flows /\ Users \subseteq Flows
  /\ "init" \notin Users /\ "sync" \notin Users /\ "reclaim" \notin Users
BY LifecycleAssumption DEF Flows

\* One thread goes to its next step.
LEMMA ThreadMoves ==
  ASSUME World, NEW f \in Flows, NEW s \in Steps,
         s.pc \notin Resting => s.vm \in VmStates,
         s.pc = "pending" => s.op \in DOMAIN Reboot,
         flow' = [flow EXCEPT ![f] = s],
         compute' = compute \/ f = "init",
         f = "init" => s.pc \in Resting \/ compute' = "init"
  PROVE  /\ Threads' /\ flow'[f] = s
         /\ \A g \in Flows \ {f} : flow'[g] = flow[g]
<1>1. /\ flow' \in [Flows -> Steps] /\ flow'[f] = s
      /\ \A g \in Flows \ {f} : flow'[g] = flow[g]
  BY DEF World, Threads
<1>2. \A g \in Flows :
        /\ flow'[g].pc \notin Resting => flow'[g].vm \in VmStates
        /\ flow'[g].pc = "pending" => flow'[g].op \in DOMAIN Reboot
  BY <1>1 DEF World, Threads
<1>3. flow'["init"].pc \notin Resting => compute' = "init"
  BY <1>1, FlowsAre DEF World, Threads
<1> QED
  BY <1>1, <1>2, <1>3 DEF Threads

\* What every step of a thread does to the threads, those aside that come to
\* commit a delete.
Carries(f) ==
    /\ Threads' /\ \A g \in Flows \ {f} : flow'[g] = flow[g]
    /\ flow'[f].pc # "committing"
    /\ flow'[f].vm \in {flow[f].vm, row.vm, None}
    /\ flow'[f].op = "soft_delete" => flow[f].op = "soft_delete" \/ reclaim

LEMMA GoesTo ==
  ASSUME World, NEW f \in Flows, NEW pc \in Pcs, Goto(f, pc),
         flow[f].pc \notin Resting, pc \notin Resting, compute' = compute,
         pc = "pending" => flow[f].op \in DOMAIN Reboot
  PROVE  /\ Threads' /\ \A g \in Flows \ {f} : flow'[g] = flow[g]
         /\ flow'[f].pc = pc /\ flow'[f].op = flow[f].op /\ flow'[f].vm = flow[f].vm
         /\ pc # "committing" => Carries(f)
<1>1. flow[f] \in Steps /\ flow[f].vm \in VmStates
  BY DEF World, Threads
<1> DEFINE s == [flow[f] EXCEPT !.pc = pc]
<1>2. flow' = [flow EXCEPT ![f] = s]
  BY DEF Goto, World, Threads
<1>3. s \in Steps /\ s.pc = pc /\ s.vm = flow[f].vm /\ s.op = flow[f].op
  BY <1>1 DEF Steps
<1>4. f = "init" => compute' = "init"
  BY DEF World, Threads, Resting
<1> HIDE DEF s
<1>5. /\ Threads' /\ flow'[f] = s
      /\ \A g \in Flows \ {f} : flow'[g] = flow[g]
  BY <1>1, <1>2, <1>3, <1>4, ThreadMoves
<1> QED
  BY <1>3, <1>5 DEF Carries

\* A thread that gave up, or has done all it had to.
LEMMA IsIdle ==
  ASSUME World, NEW f \in Flows, NEW s \in Steps, s.vm = None, s.op = None,
         s.pc \in Resting, flow' = [flow EXCEPT ![f] = s],
         compute' = compute \/ f = "init"
  PROVE  /\ Carries(f) /\ flow'[f].pc \in Resting
<1>1. /\ Threads' /\ flow'[f] = s
      /\ \A g \in Flows \ {f} : flow'[g] = flow[g]
  BY ThreadMoves DEF Resting
<1> QED
  BY <1>1 DEF Carries, Resting, None

LEMMA IsOver ==
  ASSUME World, NEW f \in Flows, NEW pc \in {"done", "ignored"}, Over(f, pc)
  PROVE  /\ Carries(f) /\ flow'[f].pc \in Resting
         /\ compute' \in {"down", "init", "up"} /\ lock' \in Flows \cup {None}
<1>1. pc \in Pcs /\ pc \in Resting
  BY DEF Pcs, Resting
<1>2. compute' \in {"down", "init", "up"} /\ lock' \in Flows \cup {None}
  BY DEF Over, World
<1>3. compute' = compute \/ f = "init"
  BY DEF Over
<1>4. CASE f \in Users
  <2> DEFINE s == [Idle EXCEPT !.pc = pc]
  <2>1. s \in Steps /\ s.vm = None /\ s.op = None /\ s.pc = pc
    BY <1>1, IdleStep
  <2>2. flow' = [flow EXCEPT ![f] = s] /\ f # "init"
    BY <1>4, FlowsAre DEF Over
  <2> HIDE DEF s
  <2> QED
    BY <1>1, <1>2, <1>3, <2>1, <2>2, IsIdle
<1>5. CASE f \notin Users
  <2>1. flow' = [flow EXCEPT ![f] = Idle]
    BY <1>5 DEF Over
  <2>2. Idle.pc \in Resting
    BY IdleStep DEF Resting
  <2> QED
    BY <1>2, <1>3, <2>1, <2>2, IdleStep, IsIdle
<1> QED
  BY <1>4, <1>5

LEMMA Ends ==
  ASSUME World, NEW f \in Flows, End(f)
  PROVE  /\ Carries(f) /\ flow'[f].pc \in Resting
         /\ compute' \in {"down", "init", "up"} /\ lock' \in Flows \cup {None}
BY IsOver DEF End

LEMMA RowSaved ==
  ASSUME World, NEW vm \in VmStates, NEW task \in Tasks, NEW power \in GuestStates,
         Save(vm, task, power) \/ SaveAnyway(vm, task, power)
  PROVE  row' \in Rows /\ row'.gone = row.gone /\ row'.vm \in {vm, row.vm}
<1>1. row' = [row EXCEPT !.vm = vm, !.task = task, !.power = power] \/ row' = row
  BY DEF Save, SaveAnyway
<1> QED
  BY <1>1 DEF World, Rows

LEMMA RowIs ==
  ASSUME World
  PROVE  /\ row.vm \in VmStates /\ row.task \in Tasks /\ row.power \in GuestStates
         /\ row.gone \in BOOLEAN
BY DEF World, Rows

LEMMA ThreadIs ==
  ASSUME World, NEW f \in Flows
  PROVE  /\ flow[f] \in Steps /\ flow[f].pc \in Pcs /\ flow[f].task \in Tasks
         /\ flow[f].seen \in GuestStates /\ flow[f].vm \in VmStates \cup {None}
         /\ flow[f].op \in Ops \cup AllOps \cup {None, "sync", "init"}
         /\ flow[f].pc \notin Resting => flow[f].vm \in VmStates
BY DEF World, Threads, Steps

LEMMA StatesIn ==
  /\ {"active", "error", "deleted", "stopped"} \subseteq VmStates
  /\ {None, "deleting", "soft-deleting"} \subseteq Tasks
  /\ {"shutdown", "running", None} \subseteq GuestStates
  /\ {"read", "saved", "cast", "drove", "drove_off", "pending", "started", "rebooted",
      "destroyed", "deleted", "committing", "listed", "agrees", "differs"} \subseteq Pcs
BY DEF VmStates, Tasks, PowerTasks, GuestStates, Defined, Pcs

LEMMA Counted ==
  ASSUME World, Count("others") \/ UNCHANGED mishaps
  PROVE  mishaps'.crashes = mishaps.crashes /\ mishaps' \in [crashes : Nat, others : Nat]
BY DEF Count, World

-----------------------------------------------------------------------------
(* The steps that neither destroy the row nor commit a delete. *)

\* Such a step leaves the count alone, and a thread of it is not one that
\* commits.
Ordinary(f) ==
    /\ row' \in Rows /\ row'.gone = row.gone
    /\ row'.vm = "soft-delete" => row.vm = "soft-delete" \/ reclaim
    /\ guest' \in GuestStates /\ compute' \in {"down", "init", "up"}
    /\ lock' \in Flows \cup {None} /\ charged' \in Int /\ reclaim' = reclaim
    /\ mishaps' \in [crashes : Nat, others : Nat] /\ mishaps'.crashes = mishaps.crashes
    /\ charged' = charged \/ reclaim
    /\ Carries(f) /\ flow[f].pc # "committing"
    /\ f = "reclaim" => flow[f].pc # "idle" \/ reclaim

LEMMA OrdinaryKeeps ==
  ASSUME LifecycleInv, NEW f \in Flows, Ordinary(f)
  PROVE  LifecycleInv'
<1>1. World'
  <2>1. reclaim' \in BOOLEAN
    BY DEF LifecycleInv, World, Ordinary
  <2> QED
    BY <2>1 DEF Ordinary, Carries, World
<1>2. ASSUME ~reclaim'
      PROVE  NeverSoft' /\ ReleasedOnce'
  <2>1. ~reclaim /\ NeverSoft /\ ReleasedOnce
    BY <1>2 DEF Ordinary, LifecycleInv
  <2>2. /\ f # "reclaim" /\ row'.vm # "soft-delete" /\ charged' = charged
        /\ row'.gone = row.gone /\ mishaps'.crashes = mishaps.crashes
        /\ \A g \in Flows \ {f} : flow'[g] = flow[g]
        /\ flow'[f].vm # "soft-delete" /\ flow'[f].op # "soft_delete"
        /\ flow[f].pc # "committing" /\ flow'[f].pc # "committing"
    BY <2>1 DEF Ordinary, Carries, NeverSoft, None
  <2>3. NeverSoft'
    BY <2>1, <2>2, FlowsAre DEF NeverSoft
  <2>4. \A g \in Flows : Committing(g)' <=> Committing(g)
    BY <2>2 DEF Committing
  <2>5. ReleasedOnce'
    BY <2>1, <2>2, <2>4 DEF ReleasedOnce
  <2> QED
    BY <2>3, <2>5
<1> QED
  BY <1>1, <1>2 DEF LifecycleInv

\* Reads that many steps share: what the world was, and that no thread can be
\* two steps at once.
LEMMA Stays ==
  ASSUME World, UNCHANGED row
  PROVE  row' \in Rows /\ row'.gone = row.gone /\ row'.vm = row.vm
BY DEF World

LEMMA StepTaken ==
  ASSUME World, NEW f \in Flows, NEW pc \in Pcs, NEW op, NEW vm, NEW task,
         pc \notin {"committing", "pending"}, vm \in VmStates, task \in Tasks,
         op \in Ops \cup AllOps \cup {None, "sync", "init"},
         vm \in {flow[f].vm, row.vm}, op = "soft_delete" => flow[f].op = op \/ reclaim,
         flow' = [flow EXCEPT ![f] = Step(pc, op, vm, task)],
         compute' = compute,
         f = "init" => compute' = "init"
  PROVE  Carries(f)
<1>1. /\ Step(pc, op, vm, task) \in Steps /\ Step(pc, op, vm, task).pc = pc
      /\ Step(pc, op, vm, task).op = op /\ Step(pc, op, vm, task).vm = vm
  BY StepIs
<1>2. Threads' /\ flow'[f] = Step(pc, op, vm, task)
      /\ \A g \in Flows \ {f} : flow'[g] = flow[g]
  BY <1>1, ThreadMoves
<1> QED
  BY <1>1, <1>2 DEF Carries

LEMMA RequestKeeps ==
  ASSUME World, NEW u \in Users, Request(u)
  PROVE  u \in Flows /\ Ordinary(u)
<1>1. u \in Flows /\ u \notin {"init", "reclaim", "sync"}
  BY FlowsAre
<1>2. PICK op \in Ops :
        /\ op = "soft_delete" => reclaim
        /\ flow' = [flow EXCEPT ![u] =
               Step("read", op, row.vm, IF op \in DOMAIN Plain \ Deletes THEN None
                                        ELSE row.task)]
  BY DEF Request
<1>3. (IF op \in DOMAIN Plain \ Deletes THEN None ELSE row.task) \in Tasks
  BY RowIs, StatesIn
<1>4. Carries(u)
  <2>1. compute' = compute /\ "read" \in Pcs /\ row.vm \in VmStates
    BY RowIs, StatesIn DEF Request
  <2> QED
    BY <1>1, <1>2, <1>3, <2>1, StepTaken
<1> QED
  BY <1>1, <1>4 DEF Request, Ordinary, World, At

\* An accepted request.  A restore is none: nothing is soft deleted.
LEMMA AcceptKeeps ==
  ASSUME World, ~reclaim => NeverSoft, NEW f \in Flows, NEW from, NEW over, NEW ask \in Tasks,
         flow[f].pc = "read",
         flow[f].op = "restore" => from = {"soft-delete"},
         Accept(f, from, over, ask), UNCHANGED <<guest, reclaim, mishaps>>
  PROVE  Ordinary(f)
<1>1. CASE flow[f].vm \in from /\ Matches(over)
  <2>1. /\ Save(row.vm, ask, row.power)
        /\ flow' = [flow EXCEPT ![f] = Step("cast", flow[f].op, row.vm, None)]
        /\ charged' = charged + (IF flow[f].op = "restore" THEN 1 ELSE 0)
        /\ lock' = IF lock = f THEN None ELSE lock
        /\ UNCHANGED compute
    BY <1>1 DEF Accept, World, Threads
  <2>2. Carries(f)
    <3>1. f = "init" => compute' = "init"
      BY <2>1 DEF World, Threads, Resting
    <3>2. "cast" \in Pcs /\ None \in Tasks /\ row.vm \in VmStates
      BY RowIs, StatesIn
    <3> QED
      BY <2>1, <3>1, <3>2, ThreadIs, StepTaken
  <2>3. row' \in Rows /\ row'.gone = row.gone /\ row'.vm = row.vm
    BY <2>1, RowSaved, RowIs
  <2>4. charged' \in Int
    BY <2>1 DEF World
  <2>5. charged' = charged \/ reclaim
    <3>1. SUFFICES ASSUME ~reclaim PROVE charged' = charged
      OBVIOUS
    <3>2. flow[f].op # "restore"
      BY <1>1, <3>1 DEF NeverSoft
    <3> QED
      BY <2>1, <3>2 DEF World
  <2> QED
    BY <2>1, <2>2, <2>3, <2>4, <2>5 DEF Ordinary, World
<1>2. CASE ~(flow[f].vm \in from /\ Matches(over))
  <2>1. End(f) /\ UNCHANGED <<row, charged>>
    BY <1>2 DEF Accept
  <2> QED
    BY <2>1, Ends DEF Ordinary, World
<1> QED
  BY <1>1, <1>2

LEMMA AskPlainKeeps ==
  ASSUME World, ~reclaim => NeverSoft, NEW f \in Flows, AskPlain(f)
  PROVE  Ordinary(f)
<1>1. flow[f].pc = "read" /\ flow[f].op \in PlainOps
  BY PlainIs DEF AskPlain, At
<1> DEFINE p == Plain[flow[f].op]
<1>2. p.task \in Tasks /\ (flow[f].op = "restore" => p.from = {"soft-delete"})
  BY <1>1, PlainIs
<1>3. Accept(f, p.from, {None}, p.task) /\ UNCHANGED <<guest, reclaim, mishaps>>
  BY DEF AskPlain
<1> QED
  BY <1>1, <1>2, <1>3, AcceptKeeps

LEMMA AskRebootKeeps ==
  ASSUME World, ~reclaim => NeverSoft, NEW f \in Flows, AskReboot(f)
  PROVE  Ordinary(f)
<1>1. flow[f].pc = "read" /\ flow[f].op \in DOMAIN Reboot
  BY DEF AskReboot, At
<1> DEFINE p == Reboot[flow[f].op]
<1>2. p.ask \in Tasks /\ flow[f].op # "restore"
  BY <1>1, RebootIs
<1>3. CASE flow[f].task \in p.copy
  <2>1. Accept(f, p.from, p.over, p.ask) /\ UNCHANGED <<guest, reclaim, mishaps>>
    BY <1>3 DEF AskReboot
  <2> QED
    BY <1>1, <1>2, <2>1, AcceptKeeps
<1>4. CASE flow[f].task \notin p.copy
  <2>1. End(f) /\ UNCHANGED <<row, charged, guest, reclaim, mishaps>>
    BY <1>4 DEF AskReboot
  <2> QED
    BY <1>1, <2>1, Ends DEF Ordinary, World
<1> QED
  BY <1>3, <1>4

LEMMA AskDeleteKeeps ==
  ASSUME World, NEW f \in Flows, AskDelete(f)
  PROVE  Ordinary(f)
<1>1. flow[f].pc = "read" /\ UNCHANGED <<guest, charged, reclaim, mishaps>>
  BY DEF AskDelete, At
<1>2. CASE row.gone
  <2>1. End(f) /\ UNCHANGED row
    BY <1>2 DEF AskDelete
  <2> QED
    BY <1>1, <2>1, Ends DEF Ordinary, World
<1>3. CASE ~row.gone
  <2> DEFINE task == IF flow[f].op = "delete" THEN "deleting" ELSE "soft-deleting"
             s == [[flow[f] EXCEPT !.pc = "saved"] EXCEPT !.vm = row.vm]
  <2>1. /\ Save(row.vm, task, row.power) /\ UNCHANGED <<compute, lock>>
        /\ flow' = [flow EXCEPT ![f] = s]
    BY <1>3, ThreadIs DEF AskDelete, World, Threads
  <2>2. task \in Tasks
    BY StatesIn
  <2>3. row' \in Rows /\ row'.gone = row.gone /\ row'.vm = row.vm
    <3> HIDE DEF task
    <3> QED
      BY <2>1, <2>2, RowIs, RowSaved
  <2>4. s \in Steps /\ s.pc = "saved" /\ s.vm = row.vm /\ s.op = flow[f].op
    BY RowIs, ThreadIs, StatesIn DEF Steps
  <2>5. f = "init" => compute' = "init"
    BY <1>1, <2>1 DEF World, Threads, Resting
  <2>6. Threads' /\ flow'[f] = s /\ \A g \in Flows \ {f} : flow'[g] = flow[g]
    <3> HIDE DEF s
    <3> QED
      BY <2>1, <2>4, <2>5, RowIs, ThreadMoves
  <2>7. Carries(f)
    <3> HIDE DEF s
    <3> QED
      BY <2>4, <2>6 DEF Carries
  <2> QED
    BY <1>1, <2>1, <2>3, <2>7 DEF Ordinary, World
<1> QED
  BY <1>2, <1>3

LEMMA AnswerDeleteKeeps ==
  ASSUME World, NEW f \in Flows, AnswerDelete(f)
  PROVE  Ordinary(f)
<1>1. flow[f].pc = "saved" /\ UNCHANGED <<row, guest, charged, reclaim, mishaps>>
  BY DEF AnswerDelete, At
<1>2. CASE End(f)
  BY <1>1, <1>2, Ends DEF Ordinary, World
<1>3. CASE Over(f, "ignored")
  BY <1>1, <1>3, IsOver DEF Ordinary, World
<1>4. CASE Goto(f, "cast") /\ UNCHANGED <<compute, lock>>
  <2>1. Carries(f)
    BY <1>1, <1>4, GoesTo, StatesIn DEF Resting
  <2> QED
    BY <1>1, <1>4, <2>1 DEF Ordinary, World
<1> QED
  BY <1>2, <1>3, <1>4 DEF AnswerDelete

LEMMA DrivePlainKeeps ==
  ASSUME World, NEW f \in Flows, DrivePlain(f)
  PROVE  Ordinary(f)
<1> DEFINE pc == IF Locked(f) /\ guest \in Off THEN "drove_off" ELSE "drove"
<1>1. /\ flow[f].pc = "cast" /\ flow[f].op \in PlainOps /\ TakeLock(f)
      /\ guest' = Plain[flow[f].op].guest /\ Goto(f, pc)
      /\ UNCHANGED <<row, compute, charged, reclaim, mishaps>>
  BY PlainIs DEF DrivePlain, At
<1>2. guest' \in GuestStates /\ lock' \in Flows \cup {None}
  BY <1>1, PlainIs DEF TakeLock, World
<1>3. pc \in Pcs /\ pc \notin Resting /\ pc \notin {"committing", "pending"}
  BY StatesIn DEF Resting
<1>4. Carries(f)
  <2> HIDE DEF pc
  <2> QED
    BY <1>1, <1>3, GoesTo DEF Resting
<1> QED
  BY <1>1, <1>2, <1>4 DEF Ordinary, World

LEMMA DrivePlainFailsKeeps ==
  ASSUME World, ~reclaim => NeverSoft, NEW f \in Flows, DrivePlainFails(f)
  PROVE  Ordinary(f)
<1>1. /\ flow[f].pc = "cast" /\ (Count("others") \/ UNCHANGED mishaps)
      /\ End(f) /\ UNCHANGED <<guest, charged, reclaim>>
  BY DEF DrivePlainFails, At
<1>2. PICK vm \in FailedVm(f) : SaveAnyway(vm, None, row.power)
  BY DEF DrivePlainFails
<1>3. flow[f].vm \in VmStates
  BY <1>1, ThreadIs DEF Resting
<1>4. vm \in VmStates /\ vm \in {"error", "active", flow[f].vm, row.vm}
  <2>1. FailedVm(f) \subseteq {"error", "active", flow[f].vm, row.vm}
    BY DEF FailedVm
  <2> QED
    BY <1>2, <1>3, <2>1, RowIs, StatesIn
<1>5. row' \in Rows /\ row'.gone = row.gone /\ row'.vm \in {vm, row.vm}
  BY <1>2, <1>4, RowIs, StatesIn, RowSaved
<1>6. row'.vm = "soft-delete" => row.vm = "soft-delete" \/ reclaim
  BY <1>4, <1>5 DEF NeverSoft
<1> QED
  BY <1>1, <1>5, <1>6, Counted, Ends DEF Ordinary, World

\* Only a soft delete leads to the state of its name, and only it commits here.
LEMMA SavePlainKeeps ==
  ASSUME World, ~reclaim => NeverSoft, NEW f \in Flows, SavePlain(f)
  PROVE  Ordinary(f)
<1> DEFINE p == Plain[flow[f].op]
           kept == Matches({p.task} \cup (IF At(f, "drove_off") THEN {None} ELSE {}))
<1>1. /\ flow[f].pc \in {"drove", "drove_off"} /\ flow[f].op \in PlainOps
      /\ End(f) /\ UNCHANGED <<guest, reclaim, mishaps>>
  BY PlainIs DEF SavePlain, At
<1>2. p.to \in VmStates /\ (flow[f].op # "soft_delete" => p.to # "soft-delete")
  BY <1>1, PlainIs
<1>3. CASE kept
  <2>1. /\ Save(p.to, None, guest)
        /\ charged' = charged - (IF /\ flow[f].op = "soft_delete"
                                    /\ flow[f].vm # "soft-delete" THEN 1 ELSE 0)
    BY <1>3 DEF SavePlain
  <2>2. row' \in Rows /\ row'.gone = row.gone /\ row'.vm \in {p.to, row.vm}
    <3> HIDE DEF p
    <3>1. None \in Tasks /\ guest \in GuestStates
      BY StatesIn DEF World
    <3> QED
      BY <1>2, <2>1, <3>1, RowSaved
  <2>3. charged' \in Int /\ (charged' = charged \/ reclaim)
    BY <2>1 DEF World, NeverSoft
  <2>4. row'.vm = "soft-delete" => row.vm = "soft-delete" \/ reclaim
    BY <1>2, <2>2 DEF NeverSoft
  <2> QED
    BY <1>1, <2>2, <2>3, <2>4, Ends DEF Ordinary, World
<1>4. CASE ~kept
  <2>1. UNCHANGED <<row, charged>>
    BY <1>4 DEF SavePlain
  <2> QED
    BY <1>1, <2>1, Ends DEF Ordinary, World
<1> QED
  BY <1>3, <1>4

LEMMA RaisesKeeps ==
  ASSUME World, NEW f \in Flows, RebootRaises(f)
  PROVE  Carries(f) /\ compute' \in {"down", "init", "up"} /\ lock' \in Flows \cup {None}
<1>1. CASE f = "init"
  <2>1. /\ flow' = [flow EXCEPT ![f] = Idle] /\ compute' = "down" /\ UNCHANGED lock
    BY <1>1 DEF RebootRaises
  <2>2. Idle.pc \in Resting
    BY IdleStep DEF Resting
  <2> QED
    BY <1>1, <2>1, <2>2, IdleStep, IsIdle DEF World
<1>2. CASE f # "init"
  BY <1>2, Ends DEF RebootRaises
<1> QED
  BY <1>1, <1>2

LEMMA FailsKeeps ==
  ASSUME World, NEW f \in Flows, NEW task \in Tasks,
         flow[f].pc \notin Resting, RebootFails(f, task)
  PROVE  /\ Carries(f) /\ compute' \in {"down", "init", "up"} /\ lock' \in Flows \cup {None}
         /\ row' \in Rows /\ row'.gone = row.gone /\ row'.vm \in {"error", row.vm}
<1>1. CASE guest = "running"
  <2>1. Goto(f, "rebooted") /\ UNCHANGED <<row, compute, lock>>
    BY <1>1 DEF RebootFails
  <2>2. "rebooted" \in Pcs /\ "rebooted" \notin Resting
    BY StatesIn DEF Resting
  <2> QED
    BY <2>1, <2>2, GoesTo DEF World
<1>2. CASE guest # "running"
  <2>1. SaveAnyway("error", task, row.power) /\ RebootRaises(f)
    BY <1>2 DEF RebootFails
  <2>2. row' \in Rows /\ row'.gone = row.gone /\ row'.vm \in {"error", row.vm}
    BY <2>1, RowSaved, RowIs, StatesIn
  <2> QED
    BY <2>1, <2>2, RaisesKeeps
<1> QED
  BY <1>1, <1>2

LEMMA RebootPendingKeeps ==
  ASSUME World, NEW f \in Flows, RebootPending(f)
  PROVE  Ordinary(f)
<1> DEFINE p == Reboot[flow[f].op]
<1>1. /\ flow[f].pc = "cast" /\ flow[f].op \in DOMAIN Reboot
      /\ UNCHANGED <<guest, charged, reclaim, mishaps>>
  BY DEF RebootPending, At
<1>2. p.pending \in Tasks
  BY <1>1, RebootIs
<1>3. CASE Matches(p.expect)
  <2>1. /\ Save(row.vm, p.pending, guest)
        /\ Goto(f, "pending") /\ UNCHANGED <<compute, lock>>
    BY <1>3 DEF RebootPending
  <2>2. row' \in Rows /\ row'.gone = row.gone /\ row'.vm = row.vm
    <3> HIDE DEF p
    <3>1. row.vm \in VmStates /\ guest \in GuestStates
      BY RowIs DEF World
    <3> QED
      BY <1>2, <2>1, <3>1, RowSaved
  <2>3. Carries(f)
    BY <1>1, <2>1, GoesTo, StatesIn DEF Resting
  <2> QED
    BY <1>1, <2>1, <2>2, <2>3 DEF Ordinary, World
<1>4. CASE ~Matches(p.expect)
  <2>1. RebootRaises(f) /\ UNCHANGED row
    BY <1>4 DEF RebootPending
  <2> QED
    BY <1>1, <2>1, RaisesKeeps DEF Ordinary, World
<1> QED
  BY <1>3, <1>4

LEMMA RebootStartedKeeps ==
  ASSUME World, NEW f \in Flows, RebootStarted(f)
  PROVE  Ordinary(f)
<1> DEFINE p == Reboot[flow[f].op]
<1>1. /\ flow[f].pc = "pending" /\ flow[f].op \in DOMAIN Reboot
      /\ UNCHANGED <<guest, charged, reclaim, mishaps>>
  BY DEF RebootStarted, At, World, Threads
<1>2. p.started \in Tasks
  BY <1>1, RebootIs
<1>3. CASE Matches({p.pending})
  <2>1. /\ Save(row.vm, p.started, row.power)
        /\ Goto(f, "started") /\ UNCHANGED <<compute, lock>>
    BY <1>3 DEF RebootStarted
  <2>2. row' \in Rows /\ row'.gone = row.gone /\ row'.vm = row.vm
    <3> HIDE DEF p
    <3> QED
      BY <1>2, <2>1, RowIs, RowSaved
  <2>3. Carries(f)
    BY <1>1, <2>1, GoesTo, StatesIn DEF Resting
  <2> QED
    BY <1>1, <2>1, <2>2, <2>3 DEF Ordinary, World
<1>4. CASE ~Matches({p.pending})
  <2>1. RebootFails(f, p.started)
    BY <1>4 DEF RebootStarted
  <2>2. /\ Carries(f) /\ compute' \in {"down", "init", "up"} /\ lock' \in Flows \cup {None}
        /\ row' \in Rows /\ row'.gone = row.gone /\ row'.vm \in {"error", row.vm}
    <3> HIDE DEF p
    <3> QED
      BY <1>1, <1>2, <2>1, FailsKeeps DEF Resting
  <2> QED
    BY <1>1, <2>2 DEF Ordinary, World
<1> QED
  BY <1>3, <1>4

LEMMA RebootDriveKeeps ==
  ASSUME World, NEW f \in Flows, RebootDrive(f)
  PROVE  Ordinary(f)
<1>1. flow[f].pc = "started" /\ UNCHANGED <<charged, reclaim>>
  BY DEF RebootDrive, At
<1>2. CASE guest' = "running" /\ Goto(f, "rebooted") /\ UNCHANGED <<row, compute, lock, mishaps>>
  <2>1. Carries(f)
    BY <1>1, <1>2, GoesTo, StatesIn DEF Resting
  <2> QED
    BY <1>1, <1>2, <2>1, StatesIn DEF Ordinary, World
<1>3. CASE (Count("others") \/ UNCHANGED mishaps) /\ RebootFails(f, None) /\ UNCHANGED guest
  <2>1. /\ Carries(f) /\ compute' \in {"down", "init", "up"} /\ lock' \in Flows \cup {None}
        /\ row' \in Rows /\ row'.gone = row.gone /\ row'.vm \in {"error", row.vm}
    BY <1>1, <1>3, FailsKeeps, StatesIn DEF Resting
  <2> QED
    BY <1>1, <1>3, <2>1, Counted DEF Ordinary, World
<1> QED
  BY <1>2, <1>3 DEF RebootDrive

LEMMA RebootEndKeeps ==
  ASSUME World, NEW f \in Flows, RebootEnd(f)
  PROVE  Ordinary(f)
<1>1. /\ flow[f].pc = "rebooted" /\ SaveAnyway("active", None, guest) /\ End(f)
      /\ UNCHANGED <<guest, charged, reclaim, mishaps>>
  BY DEF RebootEnd, At
<1>2. row' \in Rows /\ row'.gone = row.gone /\ row'.vm \in {"active", row.vm}
  <2>1. guest \in GuestStates
    BY DEF World
  <2> QED
    BY <1>1, <2>1, RowSaved, StatesIn
<1> QED
  BY <1>1, <1>2, Ends DEF Ordinary, World

LEMMA DestroyGuestKeeps ==
  ASSUME World, NEW f \in Flows, DestroyGuest(f) \/ DestroyGuestFails(f)
  PROVE  Ordinary(f)
<1>1. CASE DestroyGuest(f)
  <2>1. /\ flow[f].pc = "cast" /\ TakeLock(f) /\ guest' = None /\ Goto(f, "destroyed")
        /\ UNCHANGED <<row, compute, charged, reclaim, mishaps>>
    BY <1>1 DEF DestroyGuest, At
  <2>2. guest' \in GuestStates /\ lock' \in Flows \cup {None}
    BY <2>1, StatesIn DEF TakeLock, World
  <2>3. Carries(f)
    BY <2>1, GoesTo, StatesIn DEF Resting
  <2> QED
    BY <2>1, <2>2, <2>3 DEF Ordinary, World
<1>2. CASE DestroyGuestFails(f)
  <2> DEFINE task == IF f = "init" THEN row.task ELSE None
  <2>1. /\ flow[f].pc = "cast" /\ Count("others") /\ End(f)
        /\ UNCHANGED row \/ SaveAnyway("error", task, row.power)
        /\ UNCHANGED <<guest, charged, reclaim>>
    BY <1>2 DEF DestroyGuestFails, At
  <2>2. row' \in Rows /\ row'.gone = row.gone /\ row'.vm \in {"error", row.vm}
    <3>1. task \in Tasks
      BY RowIs, StatesIn
    <3> HIDE DEF task
    <3> QED
      BY <2>1, <3>1, Stays, RowIs, RowSaved, StatesIn
  <2> QED
    BY <2>1, <2>2, Counted, Ends DEF Ordinary, World
<1> QED
  BY <1>1, <1>2

LEMMA SaveDeletedKeeps ==
  ASSUME World, NEW f \in Flows, SaveDeleted(f)
  PROVE  Ordinary(f)
<1>1. flow[f].pc = "destroyed" /\ UNCHANGED <<guest, charged, reclaim, mishaps>>
  BY DEF SaveDeleted, At
<1>2. CASE End(f) /\ UNCHANGED row
  BY <1>1, <1>2, Ends DEF Ordinary, World
<1>3. CASE Save("deleted", None, None) /\ Goto(f, "deleted") /\ UNCHANGED <<compute, lock>>
  <2>1. row' \in Rows /\ row'.gone = row.gone /\ row'.vm \in {"deleted", row.vm}
    BY <1>3, RowSaved, StatesIn
  <2>2. Carries(f)
    BY <1>1, <1>3, GoesTo, StatesIn DEF Resting
  <2> QED
    BY <1>1, <1>3, <2>1, <2>2 DEF Ordinary, World
<1> QED
  BY <1>2, <1>3 DEF SaveDeleted

-----------------------------------------------------------------------------
(* The periodic tasks and the restart. *)

LEMMA SyncKeeps ==
  ASSUME World, SyncList \/ SyncQuery \/ SyncApply
  PROVE  Ordinary("sync")
<1> DEFINE f == "sync"
<1>1. f \in Flows /\ f \notin {"init", "reclaim"}
  BY FlowsAre
<1>2. CASE SyncList
  <2> DEFINE s == [Step("listed", "sync", row.vm, row.task) EXCEPT !.seen = row.power]
  <2>1. /\ flow[f].pc = "idle" /\ flow' = [flow EXCEPT ![f] = s]
        /\ UNCHANGED <<row, guest, compute, lock, charged, reclaim, mishaps>>
    BY <1>2 DEF SyncList, At, Copy
  <2>2. s \in Steps /\ s.pc = "listed" /\ s.vm = row.vm /\ s.op = "sync"
    BY RowIs, StatesIn, StepIs DEF Steps
  <2> HIDE DEF s
  <2>3. Threads' /\ flow'[f] = s /\ \A g \in Flows \ {f} : flow'[g] = flow[g]
    BY <1>1, <2>1, <2>2, RowIs, ThreadMoves
  <2> QED
    BY <1>1, <2>1, <2>2, <2>3 DEF Ordinary, Carries, World
<1>3. CASE SyncQuery
  <2>1. flow[f].pc = "listed" /\ UNCHANGED <<row, guest, charged, reclaim, mishaps>>
    BY <1>3 DEF SyncQuery, At
  <2>2. CASE End(f)
    BY <1>1, <2>1, <2>2, Ends DEF Ordinary, World
  <2>3. CASE ~End(f)
    <3> DEFINE pc == IF flow["sync"].seen = guest THEN "agrees" ELSE "differs"
               s == [flow[f] EXCEPT !.seen = guest, !.pc = pc]
    <3>1. /\ lock' = "sync" /\ UNCHANGED compute
          /\ flow' = [flow EXCEPT ![f] = s]
      BY <1>1, <1>3, <2>3 DEF SyncQuery, World, Threads
    <3>2. s \in Steps /\ s.pc = pc /\ s.vm = flow[f].vm /\ s.op = flow[f].op
      BY <1>1, ThreadIs, StatesIn DEF Steps, World
    <3>3. pc \notin {"pending", "committing"} /\ flow[f].vm \in VmStates
      BY <1>1, <2>1, ThreadIs DEF Resting
    <3> HIDE DEF s, pc
    <3>4. Threads' /\ flow'[f] = s /\ \A g \in Flows \ {f} : flow'[g] = flow[g]
      BY <1>1, <3>1, <3>2, <3>3, ThreadMoves
    <3>5. Carries(f)
      BY <3>2, <3>3, <3>4 DEF Carries
    <3> QED
      BY <1>1, <2>1, <3>1, <3>5 DEF Ordinary, World
  <2> QED
    BY <2>2, <2>3
<1>4. CASE SyncApply
  <2> DEFINE copy == flow["sync"]
             fresh == IF copy.pc = "differs" THEN row ELSE copy
             revived == /\ copy.vm = "stopped" /\ fresh.task = None
                        /\ copy.seen \in {"running", "suspended", "paused"}
             vm == IF revived THEN "active" ELSE row.vm
             power == IF copy.pc = "differs" \/ revived THEN copy.seen ELSE row.power
  <2>1. /\ flow[f].pc \in {"agrees", "differs"}
        /\ UNCHANGED <<guest, charged, reclaim, mishaps>>
    BY <1>4 DEF SyncApply
  <2>2. \/ End("sync") /\ UNCHANGED row
        \/ Save(vm, row.task, power) /\ Resolve("sync", copy.vm, copy.seen, fresh)
    BY <1>4 DEF SyncApply
  <2>3. /\ vm \in VmStates /\ vm \in {"active", row.vm} /\ power \in GuestStates
        /\ fresh.vm \in VmStates /\ fresh.vm \in {flow[f].vm, row.vm}
    BY <1>1, <2>1, ThreadIs, RowIs, StatesIn DEF Resting
  <2> HIDE DEF vm, power, fresh, revived
  <2>4. CASE End("sync") /\ UNCHANGED row
    BY <1>1, <2>1, <2>4, Ends DEF Ordinary, World
  <2>5. CASE Save(vm, row.task, power) /\ Resolve("sync", copy.vm, copy.seen, fresh)
    <3>1. row' \in Rows /\ row'.gone = row.gone /\ row'.vm \in {vm, row.vm}
      BY <2>3, <2>5, RowIs, RowSaved
    <3>2. CASE End("sync")
      BY <1>1, <2>1, <2>3, <3>1, <3>2, Ends DEF Ordinary, World
    <3>3. ASSUME NEW op \in {"stop", "force_stop"},
                 flow' = [flow EXCEPT !["sync"] = Step("read", op, fresh.vm, None)],
                 UNCHANGED <<compute, lock>>
          PROVE  Ordinary(f)
      <4>1. /\ op \in AllOps /\ op # "soft_delete" /\ None \in Tasks /\ "read" \in Pcs
        BY PlainIs, StatesIn DEF AllOps, PlainOps
      <4>2. Carries(f)
        BY <1>1, <2>3, <3>3, <4>1, StepTaken
      <4> QED
        BY <1>1, <2>1, <2>3, <3>1, <3>3, <4>2 DEF Ordinary, World
    <3> QED
      BY <2>5, <3>2, <3>3 DEF Resolve
  <2> QED
    BY <2>2, <2>4, <2>5
<1> QED
  BY <1>2, <1>3, <1>4

\* There is nothing to reclaim without an interval.
LEMMA ReclaimListKeeps ==
  ASSUME World, ReclaimList
  PROVE  Ordinary("reclaim")
<1>1. /\ reclaim /\ flow["reclaim"].pc = "idle" /\ "reclaim" \in Flows
      /\ UNCHANGED <<row, guest, compute, lock, charged, reclaim, mishaps>>
  BY FlowsAre DEF ReclaimList, At
<1>2. Carries("reclaim")
  <2>1. flow' = [flow EXCEPT !["reclaim"] = Step("cast", "delete", row.vm, row.task)]
    BY DEF ReclaimList, Copy
  <2>2. "delete" \in AllOps /\ "cast" \in Pcs
    BY StatesIn DEF AllOps
  <2> QED
    BY <1>1, <2>1, <2>2, RowIs, StepTaken
<1> QED
  BY <1>1, <1>2 DEF Ordinary, World

LEMMA RestartKeeps ==
  ASSUME World, Restart
  PROVE  Ordinary("init")
<1>1. /\ "init" \in Flows /\ compute = "down" /\ flow["init"].pc \in Resting
      /\ flow["init"].pc # "committing"
      /\ UNCHANGED <<row, guest, lock, charged, reclaim, mishaps>>
  BY FlowsAre DEF Restart, World, Threads, Resting
<1>2. CASE row.gone
  <2>1. compute' = "up" /\ UNCHANGED flow
    BY <1>2 DEF Restart
  <2>2. Carries("init")
    BY <1>1, <2>1 DEF Carries, World, Threads
  <2> QED
    BY <1>1, <2>1, <2>2 DEF Ordinary, World
<1>3. CASE ~row.gone
  <2>1. /\ compute' = "init"
        /\ flow' = [flow EXCEPT !["init"] = Step("listed", "init", row.vm, row.task)]
    BY <1>3 DEF Restart, Copy
  <2> DEFINE s == Step("listed", "init", row.vm, row.task)
  <2>2. s \in Steps /\ s.pc = "listed" /\ s.op = "init" /\ s.vm = row.vm
    <3>1. "listed" \in Pcs /\ "init" \in Ops \cup AllOps \cup {None, "sync", "init"}
      BY StatesIn
    <3>2. row.vm \in VmStates /\ row.task \in Tasks
      BY RowIs
    <3> QED
      BY <3>1, <3>2, StepIs
  <2> HIDE DEF s
  <2>3. flow' = [flow EXCEPT !["init"] = s]
    BY <2>1 DEF s
  <2>4. Threads' /\ flow'["init"] = s /\ \A g \in Flows \ {"init"} : flow'[g] = flow[g]
    BY <1>1, <2>1, <2>2, <2>3, RowIs, ThreadMoves
  <2>5. Carries("init")
    BY <2>2, <2>4 DEF Carries
  <2> QED
    BY <1>1, <2>1, <2>5 DEF Ordinary, World
<1> QED
  BY <1>2, <1>3

LEMMA RetryCarries ==
  ASSUME World, flow["init"].pc = "listed", NEW op \in AllOps, op # "soft_delete",
         Retry(op)
  PROVE  Carries("init") /\ UNCHANGED <<compute, lock>>
<1>1. /\ "init" \in Flows /\ flow["init"] \in Steps /\ flow["init"].vm \in VmStates
      /\ compute' = compute /\ lock' = lock /\ compute' = "init"
  BY FlowsAre, ThreadIs DEF Retry, Resting, World, Threads
<1> DEFINE s == [[flow["init"] EXCEPT !.pc = "cast"] EXCEPT !.op = op]
<1>2. flow' = [flow EXCEPT !["init"] = s]
  BY <1>1 DEF Retry, World, Threads
<1>3. s \in Steps /\ s.pc = "cast" /\ s.op = op /\ s.vm = flow["init"].vm
  BY <1>1, StatesIn DEF Steps
<1> HIDE DEF s
<1>4. Threads' /\ flow'["init"] = s /\ \A g \in Flows \ {"init"} : flow'[g] = flow[g]
  BY <1>1, <1>2, <1>3, ThreadMoves
<1> QED
  BY <1>1, <1>3, <1>4 DEF Carries

LEMMA InitOrdinary ==
  ASSUME World, InitInstance, ~(InitDeleted /\ ~row.gone)
  PROVE  Ordinary("init")
<1> DEFINE vm == flow["init"].vm  task == flow["init"].task
<1>1. /\ "init" \in Flows /\ flow["init"].pc = "listed"
      /\ UNCHANGED <<guest, reclaim, mishaps>>
  BY FlowsAre DEF InitInstance, At
<1>2. CASE End("init") /\ UNCHANGED <<row, charged>>
  BY <1>1, <1>2, Ends DEF Ordinary, World
<1>3. ASSUME NEW op \in AllOps, op # "soft_delete", Retry(op), UNCHANGED <<row, charged>>
      PROVE  Ordinary("init")
  BY <1>1, <1>3, RetryCarries DEF Ordinary, World
<1>4. {"delete", "soft_reboot", "hard_reboot", "unpause", "start", "stop"} \subseteq AllOps
  BY PlainIs, RebootIs DEF AllOps, PlainOps
<1>5. CASE InitDeleted
  BY <1>2, <1>5 DEF InitDeleted
<1>6. CASE InitDeleting
  BY <1>3, <1>4, <1>6 DEF InitDeleting
<1>7. CASE InitReboot(vm, task)
  <2> DEFINE op == IF guest = "running" /\ task \in {"reboot_started", "reboot_pending"}
                   THEN "soft_reboot" ELSE "hard_reboot"
  <2>1. Retry(op) /\ UNCHANGED <<row, charged>>
    BY <1>7 DEF InitReboot
  <2>2. op \in AllOps /\ op # "soft_delete"
    BY <1>4
  <2> HIDE DEF op
  <2> QED
    BY <1>3, <2>1, <2>2
<1>8. CASE InitClear(task)
  <2>1. SaveAnyway("active", None, row.power) /\ End("init") /\ UNCHANGED charged
    BY <1>8 DEF InitClear
  <2>2. row' \in Rows /\ row'.gone = row.gone /\ row'.vm \in {"active", row.vm}
    BY <2>1, RowIs, RowSaved, StatesIn
  <2> QED
    BY <1>1, <2>1, <2>2, Ends DEF Ordinary, World
<1>9. CASE InitRetry(task)
  BY <1>3, <1>4, <1>9 DEF InitRetry
<1>10. CASE InitNothing(vm, task)
  BY <1>2, <1>10 DEF InitNothing
<1> QED
  BY <1>2, <1>5, <1>6, <1>7, <1>8, <1>9, <1>10 DEF InitInstance

-----------------------------------------------------------------------------
(* The steps that destroy the row, those that commit, and those that no      *)
(* thread takes.                                                             *)

\* A restart finishes a delete that saved DELETED: it destroys the row and gives
\* the instance back in one step.
LEMMA InitDeletedKeeps ==
  ASSUME LifecycleInv, At("init", "listed"), InitDeleted, ~row.gone,
         UNCHANGED <<guest, reclaim, mishaps>>
  PROVE  LifecycleInv'
<1>1. /\ row' = [row EXCEPT !.gone = TRUE] /\ charged' = charged - 1
      /\ End("init") /\ "init" \in Flows /\ World
  BY FlowsAre DEF InitDeleted, LifecycleInv
<1>2. row' \in Rows /\ row'.gone /\ row'.vm = row.vm
  BY <1>1 DEF World, Rows
<1>3. Carries("init") /\ compute' \in {"down", "init", "up"} /\ lock' \in Flows \cup {None}
  BY <1>1, Ends
<1>4. World'
  BY <1>1, <1>2, <1>3 DEF World, Carries
<1>5. ASSUME ~reclaim'
      PROVE  NeverSoft' /\ ReleasedOnce'
  <2>1. ~reclaim /\ NeverSoft /\ ReleasedOnce
    BY <1>5 DEF LifecycleInv
  <2>2. charged = 1 /\ \A f \in Flows : ~Committing(f)
    BY <2>1 DEF ReleasedOnce
  <2>3. NeverSoft'
    BY <1>2, <1>3, <2>1, FlowsAre DEF NeverSoft, Carries, None
  <2>4. charged' = 0 /\ \A f \in Flows : ~Committing(f)'
    BY <1>1, <1>3, <2>2 DEF Carries, Committing
  <2> QED
    BY <1>2, <2>3, <2>4 DEF ReleasedOnce
<1> QED
  BY <1>4, <1>5 DEF LifecycleInv

\* Whoever destroys the row is alone in it: the row was there until then.
LEMMA DestroyRowKeeps ==
  ASSUME LifecycleInv, NEW f \in Flows, DestroyRow(f)
  PROVE  LifecycleInv'
<1>1. /\ flow[f].pc = "deleted" /\ UNCHANGED <<guest, charged, reclaim, mishaps>>
      /\ World
  BY DEF DestroyRow, At, LifecycleInv
<1>2. CASE row.gone
  <2>1. End(f) /\ UNCHANGED row
    BY <1>2 DEF DestroyRow
  <2> QED
    BY <1>1, <2>1, Ends, OrdinaryKeeps DEF Ordinary, World
<1>3. CASE ~row.gone
  <2>1. /\ row' = [row EXCEPT !.gone = TRUE]
        /\ Goto(f, "committing") /\ UNCHANGED <<compute, lock>>
    BY <1>3 DEF DestroyRow
  <2>2. row' \in Rows /\ row'.gone /\ row'.vm = row.vm
    BY <1>1, <2>1 DEF World, Rows
  <2>3. /\ Threads' /\ \A g \in Flows \ {f} : flow'[g] = flow[g]
        /\ flow'[f].pc = "committing" /\ flow'[f].op = flow[f].op /\ flow'[f].vm = flow[f].vm
    BY <1>1, <2>1, GoesTo, StatesIn DEF Resting
  <2>4. World'
    BY <1>1, <2>1, <2>2, <2>3 DEF World
  <2>5. ASSUME ~reclaim'
        PROVE  NeverSoft' /\ ReleasedOnce'
    <3>1. ~reclaim /\ NeverSoft /\ ReleasedOnce
      BY <1>1, <2>5 DEF LifecycleInv
    <3>2. charged = 1 /\ \A g \in Flows : ~Committing(g)
      BY <1>3, <3>1 DEF ReleasedOnce
    <3>3. NeverSoft'
      BY <1>1, <2>2, <2>3, <3>1, FlowsAre DEF NeverSoft
    <3>4. charged' = 1 /\ \A g \in Flows : Committing(g)' <=> g = f
      BY <1>1, <2>3, <3>2 DEF Committing
    <3> QED
      BY <2>2, <3>3, <3>4 DEF ReleasedOnce
  <2> QED
    BY <2>4, <2>5 DEF LifecycleInv
<1> QED
  BY <1>2, <1>3

LEMMA CommitDeleteKeeps ==
  ASSUME LifecycleInv, NEW f \in Flows, CommitDelete(f)
  PROVE  LifecycleInv'
<1>1. /\ flow[f].pc = "committing" /\ End(f) /\ UNCHANGED <<row, guest, reclaim, mishaps>>
      /\ charged' = charged - (IF Releases(f) THEN 1 ELSE 0) /\ World
  BY DEF CommitDelete, At, LifecycleInv
<1>2. Carries(f) /\ compute' \in {"down", "init", "up"} /\ lock' \in Flows \cup {None}
  BY <1>1, Ends
<1>3. World'
  BY <1>1, <1>2 DEF World, Carries
<1>4. ASSUME ~reclaim'
      PROVE  NeverSoft' /\ ReleasedOnce'
  <2>1. ~reclaim /\ NeverSoft /\ ReleasedOnce
    BY <1>1, <1>4 DEF LifecycleInv
  <2>2. Committing(f) /\ f # "reclaim" /\ Releases(f)
    BY <1>1, <2>1 DEF Committing, NeverSoft, Releases
  <2>3. row.gone /\ charged = 1 /\ \A g \in Flows : Committing(g) => g = f
    BY <2>1, <2>2 DEF ReleasedOnce
  <2>4. NeverSoft'
    BY <1>1, <1>2, <2>1, <2>2, FlowsAre DEF NeverSoft, Carries, None
  <2>5. charged' = 0 /\ \A g \in Flows : ~Committing(g)'
    BY <1>1, <1>2, <2>2, <2>3 DEF Carries, Committing
  <2> QED
    BY <1>1, <2>3, <2>4, <2>5 DEF ReleasedOnce
<1> QED
  BY <1>3, <1>4 DEF LifecycleInv

\* A commit that dies with the service leaves the instance counted.
LEMMA CrashKeeps ==
  ASSUME LifecycleInv, Crash
  PROVE  LifecycleInv'
<1>1. /\ World /\ Count("crashes") /\ compute' = "down" /\ lock' = None
      /\ flow' = [f \in Flows |-> IF Survives(f) THEN flow[f]
                                  ELSE IF f \in Users THEN [Idle EXCEPT !.pc = "done"]
                                  ELSE Idle]
      /\ UNCHANGED <<row, charged, reclaim>>
  BY DEF Crash, LifecycleInv
<1>2. guest' \in GuestStates
  BY <1>1, StatesIn DEF Crash, World
<1>3. mishaps' \in [crashes : Nat, others : Nat] /\ mishaps'.crashes > 0
  BY <1>1 DEF Count, World
<1>4. \A f \in Flows :
        /\ flow'[f] \in Steps /\ flow'[f].pc # "committing"
        /\ flow'[f].pc \notin Resting => flow'[f].vm \in VmStates
        /\ flow'[f].pc = "pending" => flow'[f].op \in DOMAIN Reboot
        /\ flow'[f].vm \in {flow[f].vm, None} /\ flow'[f].op \in {flow[f].op, None}
        /\ f \in {"init", "reclaim"} => flow'[f].pc \in Resting
  <2> SUFFICES ASSUME NEW f \in Flows
               PROVE  /\ flow'[f] \in Steps /\ flow'[f].pc # "committing"
                      /\ flow'[f].pc \notin Resting => flow'[f].vm \in VmStates
                      /\ flow'[f].pc = "pending" => flow'[f].op \in DOMAIN Reboot
                      /\ flow'[f].vm \in {flow[f].vm, None}
                      /\ flow'[f].op \in {flow[f].op, None}
                      /\ f \in {"init", "reclaim"} => flow'[f].pc \in Resting
    OBVIOUS
  <2>1. CASE Survives(f)
    <3>1. flow'[f] = flow[f]
      BY <1>1, <2>1
    <3> QED
      BY <1>1, <2>1, <3>1, FlowsAre DEF Survives, Resting, World, Threads
  <2>2. ASSUME NEW s \in Steps, flow'[f] = s, s.pc \in Resting, s.vm = None, s.op = None
        PROVE  /\ flow'[f] \in Steps /\ flow'[f].pc # "committing"
               /\ flow'[f].pc \notin Resting => flow'[f].vm \in VmStates
               /\ flow'[f].pc = "pending" => flow'[f].op \in DOMAIN Reboot
               /\ flow'[f].vm \in {flow[f].vm, None}
               /\ flow'[f].op \in {flow[f].op, None}
               /\ f \in {"init", "reclaim"} => flow'[f].pc \in Resting
    BY <2>2 DEF Resting
  <2>3. CASE ~Survives(f) /\ f \in Users
    <3>1. flow'[f] = [Idle EXCEPT !.pc = "done"] /\ "done" \in Pcs /\ "done" \in Resting
      BY <1>1, <2>3 DEF Pcs, Resting
    <3> QED
      BY <2>2, <3>1, IdleStep
  <2>4. CASE ~Survives(f) /\ f \notin Users
    <3>1. flow'[f] = Idle /\ "idle" \in Resting
      BY <1>1, <2>4 DEF Resting
    <3> QED
      BY <2>2, <3>1, IdleStep
  <2> QED
    BY <2>1, <2>3, <2>4
<1>5. World'
  <2>1. flow' \in [Flows -> Steps]
    BY <1>1, <1>4
  <2> QED
    BY <1>1, <1>2, <1>3, <1>4, <2>1, FlowsAre DEF World, Threads
<1>6. ASSUME ~reclaim'
      PROVE  NeverSoft' /\ ReleasedOnce'
  <2>1. ~reclaim /\ NeverSoft /\ ReleasedOnce
    BY <1>1, <1>6 DEF LifecycleInv
  <2>2. flow'["reclaim"] = flow["reclaim"]
    BY <1>1, <2>1, FlowsAre DEF NeverSoft, Survives
  <2>3. NeverSoft'
    BY <1>1, <1>4, <2>1, <2>2 DEF NeverSoft, None
  <2>4. \A f \in Flows : ~Committing(f)'
    BY <1>4 DEF Committing
  <2>5. charged = 1 \/ (row.gone /\ charged = 0)
    BY <2>1 DEF ReleasedOnce
  <2>6. ReleasedOnce'
    BY <1>1, <1>3, <2>1, <2>4, <2>5 DEF ReleasedOnce
  <2> QED
    BY <2>3, <2>6
<1> QED
  BY <1>5, <1>6 DEF LifecycleInv

\* The guest changes and no thread does.
LEMMA GuestChanges ==
  ASSUME LifecycleInv, Reap \/ Quirk \/ UNCHANGED vars
  PROVE  LifecycleInv'
<1>1. /\ World /\ UNCHANGED <<row, compute, flow, lock, charged, reclaim>>
      /\ Count("others") \/ UNCHANGED mishaps
  BY DEF Reap, Quirk, vars, LifecycleInv
<1>2. guest' \in GuestStates
  BY StatesIn DEF Reap, Quirk, vars, LifecycleInv, World
<1>3. mishaps'.crashes = mishaps.crashes /\ mishaps' \in [crashes : Nat, others : Nat]
  BY <1>1, Counted
<1>4. World'
  BY <1>1, <1>2, <1>3 DEF World, Threads
<1>5. \A f \in Flows : Committing(f)' <=> Committing(f)
  BY <1>1 DEF Committing
<1> QED
  BY <1>1, <1>3, <1>4, <1>5 DEF LifecycleInv, NeverSoft, ReleasedOnce

-----------------------------------------------------------------------------
(* The theorems. *)

LEMMA LifecycleStarts == Init => LifecycleInv
<1> SUFFICES ASSUME Init PROVE LifecycleInv
  OBVIOUS
<1>1. flow = [f \in Flows |-> Idle] /\ "active" \in VmStates /\ None \in Tasks
  BY StatesIn DEF Init
<1>2. Threads
  BY <1>1, IdleStep, FlowsAre DEF Threads, Resting
<1>3. World
  BY <1>1, <1>2, StatesIn DEF Init, World, Rows
<1>4. NeverSoft /\ ReleasedOnce
  BY <1>1, IdleStep, FlowsAre DEF Init, NeverSoft, ReleasedOnce, Committing, None
<1> QED
  BY <1>3, <1>4 DEF LifecycleInv

LEMMA HandleKeeps ==
  ASSUME LifecycleInv, NEW f \in Flows, Handle(f)
  PROVE  LifecycleInv'
<1>1. World /\ (~reclaim => NeverSoft)
  BY DEF LifecycleInv
<1>2. CASE DrivePlain(f)
  BY <1>1, <1>2, DrivePlainKeeps, OrdinaryKeeps
<1>3. CASE DrivePlainFails(f)
  BY <1>1, <1>3, DrivePlainFailsKeeps, OrdinaryKeeps
<1>4. CASE SavePlain(f)
  BY <1>1, <1>4, SavePlainKeeps, OrdinaryKeeps
<1>5. CASE RebootPending(f)
  BY <1>1, <1>5, RebootPendingKeeps, OrdinaryKeeps
<1>6. CASE RebootStarted(f)
  BY <1>1, <1>6, RebootStartedKeeps, OrdinaryKeeps
<1>7. CASE RebootDrive(f)
  BY <1>1, <1>7, RebootDriveKeeps, OrdinaryKeeps
<1>8. CASE RebootEnd(f)
  BY <1>1, <1>8, RebootEndKeeps, OrdinaryKeeps
<1>9. CASE DestroyGuest(f) \/ DestroyGuestFails(f)
  BY <1>1, <1>9, DestroyGuestKeeps, OrdinaryKeeps
<1>10. CASE SaveDeleted(f)
  BY <1>1, <1>10, SaveDeletedKeeps, OrdinaryKeeps
<1>11. CASE DestroyRow(f)
  BY <1>11, DestroyRowKeeps
<1>12. CASE CommitDelete(f)
  BY <1>12, CommitDeleteKeeps
<1> QED
  BY <1>2, <1>3, <1>4, <1>5, <1>6, <1>7, <1>8, <1>9, <1>10, <1>11, <1>12 DEF Handle

LEMMA ProceedKeeps ==
  ASSUME LifecycleInv, NEW f \in Flows, Proceed(f)
  PROVE  LifecycleInv'
<1>1. World /\ (~reclaim => NeverSoft)
  BY DEF LifecycleInv
<1>2. CASE AskPlain(f)
  BY <1>1, <1>2, AskPlainKeeps, OrdinaryKeeps
<1>3. CASE AskReboot(f)
  BY <1>1, <1>3, AskRebootKeeps, OrdinaryKeeps
<1>4. CASE AskDelete(f)
  BY <1>1, <1>4, AskDeleteKeeps, OrdinaryKeeps
<1>5. CASE AnswerDelete(f)
  BY <1>1, <1>5, AnswerDeleteKeeps, OrdinaryKeeps
<1>6. CASE Handle(f)
  BY <1>6, HandleKeeps
<1> QED
  BY <1>2, <1>3, <1>4, <1>5, <1>6 DEF Proceed, Ask

LEMMA LifecycleGoesOn == LifecycleInv /\ [Next]_vars => LifecycleInv'
<1> SUFFICES ASSUME LifecycleInv, [Next]_vars PROVE LifecycleInv'
  OBVIOUS
<1>1. World /\ {"sync", "init", "reclaim"} \subseteq Flows /\ Users \subseteq Flows
  BY FlowsAre DEF LifecycleInv
<1>2. ASSUME NEW u \in Users, Request(u) \/ Proceed(u)
      PROVE  LifecycleInv'
  BY <1>1, <1>2, RequestKeeps, ProceedKeeps, OrdinaryKeeps
<1>3. CASE SyncTask
  BY <1>1, <1>3, SyncKeeps, ProceedKeeps, OrdinaryKeeps DEF SyncTask
<1>4. CASE InitTask
  <2>1. CASE Restart
    BY <1>1, <2>1, RestartKeeps, OrdinaryKeeps
  <2>2. CASE InitInstance
    <3>1. CASE InitDeleted /\ ~row.gone
      BY <2>2, <3>1, InitDeletedKeeps DEF InitInstance
    <3>2. CASE ~(InitDeleted /\ ~row.gone)
      BY <1>1, <2>2, <3>2, InitOrdinary, OrdinaryKeeps
    <3> QED
      BY <3>1, <3>2
  <2>3. CASE Handle("init")
    BY <1>1, <2>3, HandleKeeps
  <2> QED
    BY <1>4, <2>1, <2>2, <2>3 DEF InitTask
<1>5. CASE ReclaimList
  BY <1>1, <1>5, ReclaimListKeeps, OrdinaryKeeps
<1>6. CASE Handle("reclaim")
  BY <1>1, <1>6, HandleKeeps
<1>7. CASE Reap \/ Quirk \/ UNCHANGED vars
  BY <1>7, GuestChanges
<1>8. CASE Crash
  BY <1>8, CrashKeeps
<1> QED
  BY <1>2, <1>3, <1>4, <1>5, <1>6, <1>7, <1>8 DEF Next

LEMMA LifecycleSafe == Spec => []LifecycleInv
BY LifecycleStarts, LifecycleGoesOn, PTL DEF Spec

\* The row, the guest, the service, the lock and the quota count always have
\* the values the code gives them, whatever users ask for and whatever fails.
THEOREM LifecycleTypeCorrect == Spec => []TypeOK
<1>1. LifecycleInv => TypeOK
  BY DEF LifecycleInv, World, Rows, TypeOK
<1> QED
  BY <1>1, LifecycleSafe, PTL

\* Released, for any number of users, any actions and any number of mishaps:
\* however the deletes of users, the restarts' and those that fail half way
\* interleave, the instance is given back once, unless a restart fell between
\* the destruction of the row and the commit.
THEOREM InstanceReleased == Spec => []Released
<1>1. LifecycleInv => Released
  BY DEF LifecycleInv, ReleasedOnce, Committing, At, Released
<1> QED
  BY <1>1, LifecycleSafe, PTL
=============================================================================
