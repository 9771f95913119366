------------------------- MODULE ComputePartsProofs -------------------------
(***************************************************************************)
(* What TLAPS proves of InstanceEvents, ServerGroup, Evacuation, Discovery *)
(* and FixedIps, and of the five parts of the compute service beside each  *)
(* other.                                                                  *)
(***************************************************************************)
EXTENDS MCComputeParts, TLAPS
-----------------------------------------------------------------------------
(* InstanceEvents, for any number of threads and interfaces, fatal or not. *)

\* A thread that has not begun has no Event and was promised no answer; one
\* that was promised an answer has all of its Events.
Begun ==
    \A p \in Plugs, v \in Vifs :
        /\ plug[p] = "idle" => holds[p][v] = Nobody
        /\ notice[p][v] # "none" => holds[p][v] # Nobody

\* Whose Event is in the table, or was sent, has made it.
Made ==
    \A p \in Plugs, v \in Vifs :
        (pending[v] = p \/ signal[p][v] # "none") => holds[p][v] = p

\* The Event of a thread whose events were not dropped is in the table, and
\* the table is on, until the Event is sent.
Listed ==
    \A p \in Plugs, v \in Vifs :
        (holds[p][v] # Nobody /\ p \notin cleared /\ Answer(p, v) = "none")
            => pending[v] = holds[p][v] /\ accepts

EventsInv == EventsTypeOK /\ Begun /\ Made /\ Listed /\ SentOnce /\ NoLostAnswer

LEMMA EventsInitially == EventsInit => EventsInv
BY EventsAssumption
DEF EventsInit, EventsInv, EventsTypeOK, Begun, Made, Listed, SentOnce,
    NoLostAnswer, Waiters, Answer

LEMMA BeginKeeps ==
    ASSUME EventsInv, NEW p \in Plugs, Begin(p)
    PROVE  EventsInv'
BY EventsAssumption
DEF EventsInv, EventsTypeOK, Begun, Made, Listed, SentOnce, NoLostAnswer, Answer,
    Begin, Now, Waiters

LEMMA PrepareKeeps ==
    ASSUME EventsInv, NEW p \in Plugs, NEW v \in Vifs, Prepare(p, v)
    PROVE  EventsInv'
<1> USE EventsAssumption DEF EventsInv, EventsTypeOK, Prepare
<1> DEFINE e == IF pending[v] = Nobody THEN p ELSE pending[v]
<1>1. /\ e \in Plugs /\ accepts
      /\ pending' = [pending EXCEPT ![v] = e]
      /\ holds' = [holds EXCEPT ![p][v] = e]
      /\ plug[p] = "registering" /\ holds[p][v] = Nobody
      /\ UNCHANGED <<plug, signal, notice, cleared, accepts>>
  OBVIOUS
<1>2. signal[e][v] = "none" /\ holds'[e][v] = e
  BY <1>1 DEF Made, SentOnce
<1>3. \A q \in Plugs, w \in Vifs :
          holds'[q][w] = IF q = p /\ w = v THEN e ELSE holds[q][w]
  BY <1>1
<1>4. \A w \in Vifs : pending'[w] = IF w = v THEN e ELSE pending[w]
  BY <1>1
<1> HIDE DEF Prepare, e
<1>5. EventsTypeOK'
  BY <1>1
<1>6. Begun'
  BY <1>1, <1>3 DEF Begun
<1>7. Made'
  BY <1>1, <1>2, <1>3, <1>4 DEF Made
<1>8. Listed'
  BY <1>1, <1>2, <1>3, <1>4 DEF Listed, Answer, e
<1>9. SentOnce'
  BY <1>1, <1>2, <1>4 DEF SentOnce
<1>10. NoLostAnswer'
  BY <1>1, <1>3 DEF NoLostAnswer, Begun, Answer
<1> QED
  BY <1>5, <1>6, <1>7, <1>8, <1>9, <1>10

LEMMA PlugVifsKeeps ==
    ASSUME EventsInv, NEW p \in Plugs, PlugVifs(p)
    PROVE  EventsInv'
BY EventsAssumption
DEF EventsInv, EventsTypeOK, Begun, Made, Listed, SentOnce, NoLostAnswer, Answer,
    PlugVifs, Now, Waiters

\* The steps that only end a thread.
LEMMA EndKeeps ==
    ASSUME EventsInv, NEW p \in Plugs,
           PrepareRefused(p) \/ Wake(p) \/ Refused(p) \/ Timeout(p)
    PROVE  EventsInv'
<1>1. PICK step \in {"done", "failed"} : Now(p, step)
  BY DEF PrepareRefused, Wake, Refused, Timeout
<1>2. UNCHANGED <<holds, pending, signal, notice, cleared, accepts>>
  BY DEF PrepareRefused, Wake, Refused, Timeout
<1> QED
  BY <1>1, <1>2
  DEF EventsInv, EventsTypeOK, Begun, Made, Listed, SentOnce, NoLostAnswer,
      Answer, Now, Waiters

LEMMA NoticeKeeps ==
    ASSUME EventsInv, NEW p \in Plugs, NEW v \in Vifs, NEW o \in Outcomes,
           Notice(p, v, o)
    PROVE  EventsInv'
<1> USE EventsAssumption DEF EventsInv, EventsTypeOK
<1> DEFINE e == pending[v]
<1>0. o # "none"
  BY DEF Outcomes
<1>1. /\ notice[p][v] = "due" /\ notice' = [notice EXCEPT ![p][v] = "given"]
      /\ UNCHANGED <<plug, holds, cleared, accepts>>
  BY DEF Notice
<1>2. CASE accepts /\ e # Nobody
  <2>1. /\ e \in Plugs
        /\ signal' = [signal EXCEPT ![e][v] = o]
        /\ pending' = [pending EXCEPT ![v] = Nobody]
    BY <1>2 DEF Notice
  <2>2. /\ \A q \in Plugs, w \in Vifs :
              signal'[q][w] = IF q = e /\ w = v THEN o ELSE signal[q][w]
        /\ \A w \in Vifs : pending'[w] = IF w = v THEN Nobody ELSE pending[w]
    BY <2>1
  <2>3. EventsTypeOK'
    BY <1>1, <2>1
  <2>4. Begun'
    BY <1>1 DEF Begun
  <2>5. Made'
    BY <1>1, <2>1, <2>2 DEF Made
  <2>6. Listed'
    BY <1>0, <1>1, <2>1, <2>2 DEF Listed, Answer
  <2>7. SentOnce'
    BY <2>1, <2>2 DEF SentOnce
  <2>8. NoLostAnswer'
    BY <1>0, <1>1, <2>1, <2>2 DEF NoLostAnswer, Listed, Begun, Answer
  <2> QED
    BY <2>3, <2>4, <2>5, <2>6, <2>7, <2>8
<1>3. CASE ~(accepts /\ e # Nobody)
  <2>1. UNCHANGED <<signal, pending>>
    BY <1>3 DEF Notice
  <2> QED
    BY <1>1, <1>3, <2>1
    DEF Begun, Made, Listed, SentOnce, NoLostAnswer, Answer
<1> QED
  BY <1>2, <1>3

\* A drop of all events, with or without the table.
LEMMA ClearKeeps ==
    ASSUME EventsInv, Clear \/ CancelAll
    PROVE  EventsInv'
<1> USE EventsAssumption DEF EventsInv, EventsTypeOK
<1>1. /\ pending' = [v \in Vifs |-> Nobody]
      /\ cleared' = {p \in Plugs : plug[p] # "idle"} \cup cleared
      /\ accepts' \in BOOLEAN
      /\ UNCHANGED <<plug, holds, signal, notice>>
  BY DEF Clear, CancelAll
<1>2. cleared' \subseteq Plugs
  BY <1>1
<1>3. EventsTypeOK'
  BY <1>1, <1>2
<1>4. \A p \in Plugs \ cleared' : p \notin cleared /\ plug[p] = "idle"
  BY <1>1
<1>5. Begun' /\ Made' /\ SentOnce'
  BY <1>1 DEF Begun, Made, SentOnce
<1>6. Listed' /\ NoLostAnswer'
  BY <1>1, <1>4 DEF Listed, NoLostAnswer, Begun, Answer
<1> QED
  BY <1>3, <1>5, <1>6

LEMMA EventsStep == EventsInv /\ [EventsNext]_events => EventsInv'
<1> SUFFICES ASSUME EventsInv, [EventsNext]_events PROVE EventsInv'
  OBVIOUS
<1>1. ASSUME NEW p \in Plugs, Begin(p) PROVE EventsInv'
  BY <1>1, BeginKeeps
<1>2. ASSUME NEW p \in Plugs, Proceeds(p) PROVE EventsInv'
  BY <1>2, PrepareKeeps, PlugVifsKeeps, EndKeeps DEF Proceeds
<1>3. ASSUME NEW p \in Plugs, NEW v \in Vifs, NEW o \in Outcomes, Notice(p, v, o)
      PROVE  EventsInv'
  BY <1>3, NoticeKeeps
<1>4. CASE Clear \/ CancelAll
  BY <1>4, ClearKeeps
<1>5. CASE UNCHANGED events
  BY <1>5
  DEF EventsInv, EventsTypeOK, Begun, Made, Listed, SentOnce, NoLostAnswer,
      Answer, events
<1> QED
  BY <1>1, <1>2, <1>3, <1>4, <1>5 DEF EventsNext

\* The invariant holds always.
THEOREM EventsInvariant == EventsSpec => []EventsInv
BY EventsInitially, EventsStep, PTL DEF EventsSpec

\* No thread that waits for Neutron misses an answer to its own plug, however
\* many threads share the table of InstanceEvents.
THEOREM AnswersAreHeard == EventsSpec => []NoLostAnswer
<1>1. EventsInv => NoLostAnswer
  BY DEF EventsInv
<1> QED
  BY <1>1, EventsInvariant, PTL

\* pop_instance_event never hands out an Event that was sent before.
THEOREM EventsAreSentOnce == EventsSpec => []SentOnce
<1>1. EventsInv => SentOnce
  BY DEF EventsInv
<1> QED
  BY <1>1, EventsInvariant, PTL

-----------------------------------------------------------------------------
(* ServerGroup, for any number of members, boots and hosts and however     *)
(* often they are scheduled.                                               *)

\* A member is built where its claim was made.
ClaimedWhereSent ==
    \A i \in Members :
        /\ build[i] \in OnHost \cup {"cast", "active"} => dest[i] # NoHost
        /\ build[i] \in OnHost \cup {"active"} => host[i] = dest[i]

\* Of two members that passed the late check, the second saw the first.
CheckedApart ==
    Policy = "anti-affinity" =>
        \A i, j \in Members :
            (i # j /\ build[i] \in {"valid", "active"}
                   /\ build[j] \in {"valid", "active"}) => host[i] # host[j]

GroupInv == GroupTypeOK /\ ClaimedWhereSent /\ CheckedApart

LEMMA GroupInitially == GroupInit => GroupInv
BY GroupAssumption
DEF GroupInit, GroupInv, GroupTypeOK, ClaimedWhereSent, CheckedApart, OnHost

LEMMA HostsAreHosts ==
    ASSUME GroupTypeOK, NEW members \in SUBSET Members
    PROVE  HostsOf(members) \subseteq GroupHosts
BY DEF HostsOf, GroupTypeOK

\* What a request does moves members that wait for it, and no others.
LEMMA PutMoves ==
    ASSUME NEW R \in SUBSET Members, NEW step, Put(R, step), NEW i \in Members
    PROVE  build'[i] = IF i \in Live(R) THEN step ELSE build[i]
BY DEF Put

Steps == {"new", "asked", "read", "cast", "claimed", "valid", "active", "error",
          "forsaken", "deleted"}

LEMMA AskForKeeps ==
    ASSUME GroupInv, NEW R \in Boots, AskFor(R)
    PROVE  GroupInv'
<1>1. R \in SUBSET Members /\ Put(R, "asked")
  BY DEF AskFor, Members
<1>2. UNCHANGED <<host, dest, seen, tried, attempts>>
  BY DEF AskFor
<1>3. \A i \in Members : build'[i] = "asked" \/ build'[i] = build[i]
  BY <1>1, PutMoves
<1>4. build' \in [Members -> Steps]
  BY <1>1 DEF Put, GroupInv, GroupTypeOK, Steps
<1> QED
  BY <1>2, <1>3, <1>4
  DEF GroupInv, GroupTypeOK, ClaimedWhereSent, CheckedApart, OnHost, Steps

\* Members of a request that fails end in error or forsaken; the others stay.
LEMMA FailsMoves ==
    ASSUME GroupInv, NEW R \in SUBSET Members, Fails(R)
    PROVE  /\ build' \in [Members -> Steps]
           /\ \A i \in Members : build'[i] \in {"error", "forsaken", build[i]}
<1>1. PICK saved \in SUBSET Live(R) :
          build' = [i \in Members |-> IF i \in saved THEN "error"
                        ELSE IF i \in Live(R) THEN "forsaken" ELSE build[i]]
  BY DEF Fails
<1>2. build \in [Members -> Steps]
  BY DEF GroupInv, GroupTypeOK, Steps
<1>3. \A i \in Members : build'[i] \in {"error", "forsaken", build[i]}
  BY <1>1
<1>4. \A i \in Members : build[i] \in Steps
  BY <1>2
<1>5. build' \in [Members -> Steps]
  BY <1>1, <1>4 DEF Steps
<1> QED
  BY <1>3, <1>5

LEMMA SetupKeeps ==
    ASSUME GroupInv, NEW R \in SUBSET Members, Setup(R)
    PROVE  GroupInv'
<1>1. Fails(R) \/ Put(R, "read")
  BY DEF Setup
<1>2. UNCHANGED <<host, dest, tried>>
  BY DEF Setup
<1>3. \A i \in Members : build'[i] \in {"error", "forsaken", "read", build[i]}
  BY <1>1, PutMoves, FailsMoves
<1>4. build' \in [Members -> Steps]
  <2>1. CASE Fails(R)
    BY <2>1, FailsMoves
  <2>2. CASE Put(R, "read")
    BY <2>2 DEF Put, GroupInv, GroupTypeOK, Steps
  <2> QED
    BY <1>1, <2>1, <2>2
<1>5. seen' \in [Members -> SUBSET GroupHosts]
  BY HostsAreHosts DEF Setup, GroupInv, GroupTypeOK
<1>6. attempts' \in [Members -> 0..MaxAttempts]
  BY GroupAssumption DEF Setup, GroupInv, GroupTypeOK
<1> QED
  BY <1>2, <1>3, <1>4, <1>5, <1>6
  DEF GroupInv, GroupTypeOK, ClaimedWhereSent, CheckedApart, OnHost, Steps

LEMMA ScheduleKeeps ==
    ASSUME GroupInv, NEW R \in SUBSET Members, Schedule(R)
    PROVE  GroupInv'
<1>1. /\ Put(R, "cast") /\ UNCHANGED <<host, seen, tried, attempts>>
      /\ \A i \in Live(R) : build[i] = "read"
  BY DEF Schedule, Waits
<1>2. PICK f \in Choices(R) :
          dest' = [i \in Members |-> IF i \in R THEN f[i] ELSE dest[i]]
  BY DEF Schedule
<1>3. \A i \in R : f[i] \in GroupHosts
  BY DEF Choices
<1>4. /\ dest' \in [Members -> GroupHosts \cup {NoHost}]
      /\ \A i \in Members : dest'[i] = IF i \in R THEN f[i] ELSE dest[i]
  BY <1>2, <1>3 DEF GroupInv, GroupTypeOK
<1>5. \A i \in Members :
          build'[i] = IF i \in Live(R) THEN "cast" ELSE build[i]
  BY <1>1, PutMoves
<1>6. build' \in [Members -> Steps]
  BY <1>1 DEF Put, GroupInv, GroupTypeOK, Steps
<1>7. \A i \in R \ Live(R) : build[i] = "deleted"
  BY DEF Live
<1>8. GroupTypeOK'
  BY <1>1, <1>4, <1>6 DEF GroupInv, GroupTypeOK, Steps
<1>9. ClaimedWhereSent'
  <2> SUFFICES ASSUME NEW i \in Members
               PROVE  /\ build'[i] \in OnHost \cup {"cast", "active"}
                            => dest'[i] # NoHost
                      /\ build'[i] \in OnHost \cup {"active"}
                            => host'[i] = dest'[i]
    BY DEF ClaimedWhereSent
  <2>1. CASE i \in Live(R)
    BY <2>1, <1>3, <1>4, <1>5, GroupAssumption DEF OnHost, Live
  <2>2. CASE i \in R \ Live(R)
    BY <2>2, <1>5, <1>7 DEF OnHost
  <2>3. CASE i \notin R
    <3>1. build'[i] = build[i] /\ dest'[i] = dest[i] /\ host'[i] = host[i]
      BY <2>3, <1>1, <1>4, <1>5 DEF Live
    <3> QED
      BY <3>1 DEF GroupInv, ClaimedWhereSent
  <2> QED
    BY <2>1, <2>2, <2>3
<1>10. CheckedApart'
  BY <1>1, <1>5 DEF GroupInv, CheckedApart
<1> QED
  BY <1>8, <1>9, <1>10 DEF GroupInv

LEMMA NoValidHostKeeps ==
    ASSUME GroupInv, NEW R \in SUBSET Members, NoValidHost(R)
    PROVE  GroupInv'
<1>1. Fails(R)
  BY DEF NoValidHost
<1>2. UNCHANGED <<host, dest, seen, tried, attempts>>
  BY DEF NoValidHost
<1>3. \A i \in Members : build'[i] \in {"error", "forsaken", build[i]}
  BY <1>1, FailsMoves
<1>4. build' \in [Members -> Steps]
  BY <1>1, FailsMoves
<1> QED
  BY <1>2, <1>3, <1>4
  DEF GroupInv, GroupTypeOK, ClaimedWhereSent, CheckedApart, OnHost, Steps

LEMMA ClaimKeeps ==
    ASSUME GroupInv, NEW i \in Members, Claim(i)
    PROVE  GroupInv'
BY DEF GroupInv, GroupTypeOK, ClaimedWhereSent, CheckedApart, OnHost, Claim

\* A build that raised leaves its host and goes back, or ends.
LEMMA RescheduleKeeps ==
    ASSUME GroupInv, NEW i \in Members, Reschedule(i),
           build[i] \in {"cast"} \cup OnHost
    PROVE  GroupInv'
<1>1. dest[i] \in GroupHosts
  BY DEF GroupInv, ClaimedWhereSent, GroupTypeOK
<1>2. PICK step \in {"error", "asked"} : build' = [build EXCEPT ![i] = step]
  BY DEF Reschedule
<1>3. /\ host' = [host EXCEPT ![i] = NoHost]
      /\ UNCHANGED <<dest, seen, attempts>>
      /\ tried' = tried \/ tried' = [tried EXCEPT ![i] = @ \cup {dest[i]}]
  BY DEF Reschedule
<1>4. tried' \in [Members -> SUBSET GroupHosts]
  BY <1>1, <1>3 DEF GroupInv, GroupTypeOK
<1> QED
  BY <1>2, <1>3, <1>4
  DEF GroupInv, GroupTypeOK, ClaimedWhereSent, CheckedApart, OnHost

LEMMA ValidateKeeps ==
    ASSUME GroupInv, NEW i \in Members, Validate(i)
    PROVE  GroupInv'
<1>1. CASE Violates(i)
  BY <1>1, RescheduleKeeps DEF Validate, OnHost
<1>2. CASE ~Violates(i)
  <2>1. /\ build[i] = "claimed" /\ build' = [build EXCEPT ![i] = "valid"]
        /\ UNCHANGED <<host, dest, seen, tried, attempts>>
    BY <1>2 DEF Validate
  <2>2. GroupTypeOK' /\ ClaimedWhereSent'
    BY <2>1 DEF GroupInv, GroupTypeOK, ClaimedWhereSent, OnHost
  <2>3. ASSUME Policy = "anti-affinity", NEW j \in Members \ {i},
               build[j] \in {"valid", "active"}
        PROVE  host[j] # host[i]
    <3>1. host[j] # NoHost
      BY <2>3 DEF GroupInv, ClaimedWhereSent, OnHost
    <3>2. host[j] \in HostsOf(Members \ {i})
      BY <2>3, <3>1 DEF HostsOf
    <3>3. host[i] = dest[i]
      BY <2>1 DEF GroupInv, ClaimedWhereSent, OnHost
    <3> QED
      BY <1>2, <2>3, <3>2, <3>3 DEF Violates
  <2>4. CheckedApart'
    BY <2>1, <2>3 DEF GroupInv, GroupTypeOK, CheckedApart
  <2> QED
    BY <2>2, <2>4 DEF GroupInv
<1> QED
  BY <1>1, <1>2

\* Whatever else ends a build.
LEMMA EndsKeep ==
    ASSUME GroupInv,
           NEW i \in Members, BuildAborts(i) \/ Spawn(i) \/ GroupDelete(i)
    PROVE  GroupInv'
BY DEF GroupInv, GroupTypeOK, ClaimedWhereSent, CheckedApart, OnHost,
       BuildAborts, Spawn, GroupDelete

LEMMA RestartKeeps ==
    ASSUME GroupInv, NEW h \in GroupHosts, ServiceRestarts(h)
    PROVE  GroupInv'
<1>1. \A i \in Members : build'[i] = "error" \/ build'[i] = build[i]
  BY DEF ServiceRestarts
<1>2. build' \in [Members -> Steps]
  BY DEF ServiceRestarts, GroupInv, GroupTypeOK, Steps
<1>3. UNCHANGED <<host, dest, seen, tried, attempts>>
  BY DEF ServiceRestarts
<1> QED
  BY <1>1, <1>2, <1>3
  DEF GroupInv, GroupTypeOK, ClaimedWhereSent, CheckedApart, OnHost, Steps

LEMMA GroupStep == GroupInv /\ [GroupNext]_group => GroupInv'
<1> SUFFICES ASSUME GroupInv, [GroupNext]_group PROVE GroupInv'
  OBVIOUS
<1>1. ASSUME NEW R \in Boots, AskFor(R) PROVE GroupInv'
  BY <1>1, AskForKeeps
<1>2. ASSUME NEW R \in Requests, Schedules(R) PROVE GroupInv'
  <2>1. R \in SUBSET Members
    BY DEF Requests, Members
  <2> QED
    BY <1>2, <2>1, SetupKeeps, ScheduleKeeps, NoValidHostKeeps DEF Schedules
<1>3. ASSUME NEW i \in Members, Builds(i) PROVE GroupInv'
  <2>1. CASE BuildRaises(i)
    BY <2>1, RescheduleKeeps DEF BuildRaises
  <2> QED
    BY <1>3, <2>1, ClaimKeeps, ValidateKeeps, EndsKeep DEF Builds
<1>4. ASSUME NEW i \in Members, GroupDelete(i) PROVE GroupInv'
  BY <1>4, EndsKeep
<1>5. ASSUME NEW h \in GroupHosts, ServiceRestarts(h) PROVE GroupInv'
  BY <1>5, RestartKeeps
<1>6. CASE UNCHANGED group
  BY <1>6 DEF GroupInv, GroupTypeOK, ClaimedWhereSent, CheckedApart, OnHost, group
<1> QED
  BY <1>1, <1>2, <1>3, <1>4, <1>5, <1>6 DEF GroupNext

\* The invariant holds always.
THEOREM GroupInvariant == GroupSpec => []GroupInv
BY GroupInitially, GroupStep, PTL DEF GroupSpec

\* Members of an anti-affinity group never run on one host, however many of
\* them the scheduler places by one reading: _validate_instance_group_policy
\* looks after the claim has put the host in the row.
THEOREM MembersRunApart == GroupSpec => []AntiAffine
<1>1. GroupInv => AntiAffine
  BY DEF GroupInv, CheckedApart, AntiAffine
<1> QED
  BY <1>1, GroupInvariant, PTL

-----------------------------------------------------------------------------
(* Evacuation, however often the source stops and comes back.              *)

\* A guest that was respawned stays, and finds its files.
Respawned ==
    /\ rebuild.pc \in {"spawned", "active", "settled"} => domain[Dest]
    /\ server.host = Dest => domain[Dest]
    /\ domain[Dest] => files[Dest]

EvacuationInv == EvacuationTypeOK /\ Respawned

LEMMA EvacuationInitially == EvacuationInit => EvacuationInv
BY EvacuationAssumption
DEF EvacuationInit, EvacuationInv, EvacuationTypeOK, Respawned, EvacHosts,
    RebuildTasks, EvacServers, Rebuilds, Returns

LEMMA EvacuationTypes ==
    ASSUME EvacuationTypeOK, EvacuationNext
    PROVE  EvacuationTypeOK'
<1> USE DEF EvacuationTypeOK, EvacuationNext, Rebuilding, Returning,
        SourceFails, Evacuate, LeaveTombstone, NoHostFits, RebuildClaim, Rebuild,
        SaveTask, Fail, RebuildFails, Respawn, SaveActive, SaveHost, SaveDone,
        ListInstances, DestroyEvacuated, InitEvacuated, DestFails, DestReturns
<1>1. server' \in EvacServers
  BY DEF EvacServers, EvacHosts, RebuildTasks
<1>2. rebuild' \in Rebuilds
  BY DEF Rebuilds, To
<1>3. returning' \in Returns
  BY DEF Returns, EvacServers
<1>4. domain' \in [EvacHosts -> BOOLEAN] /\ files' \in [EvacHosts -> BOOLEAN]
  OBVIOUS
<1>5. onShared' \in BOOLEAN /\ up' \in [EvacHosts -> BOOLEAN]
  OBVIOUS
<1>6. tombstone' \in {"none", "accepted", "pre-migrating", "failed", "done",
                     "completed"}
  OBVIOUS
<1>7. troubles' \in 0..EvacMishaps
  BY EvacuationAssumption DEF Trouble
<1> QED
  BY <1>1, <1>2, <1>3, <1>4, <1>5, <1>6, <1>7

\* Only Respawn, which leaves the files as well, starts a guest at Dest.  What
\* the source destroys is not there, and it takes its files only when the
\* answer was that they are not the same ones.
LEMMA RespawnedStays ==
    ASSUME EvacuationTypeOK, Respawned, EvacuationNext
    PROVE  Respawned'
<1> USE EvacuationAssumption
    DEF EvacuationTypeOK, Respawned, EvacuationNext, Rebuilding, Returning,
        SourceFails, Evacuate, LeaveTombstone, NoHostFits, RebuildClaim, Rebuild,
        SaveTask, Fail, RebuildFails, Respawn, SaveActive, SaveHost, SaveDone,
        ListInstances, DestroyEvacuated, InitEvacuated, DestFails, DestReturns
<1>1. (rebuild.pc \in {"spawned", "active", "settled"} => domain[Dest])'
  BY DEF Rebuilds, To, EvacHosts
<1>2. (server.host = Dest => domain[Dest])'
  BY DEF EvacServers, EvacHosts
<1>3. (domain[Dest] => files[Dest])'
  BY DEF EvacHosts, SaysShared
<1> QED
  BY <1>1, <1>2, <1>3

LEMMA EvacuationStep ==
    EvacuationInv /\ [EvacuationNext]_evacuation => EvacuationInv'
<1>1. CASE UNCHANGED evacuation
  BY <1>1 DEF evacuation, EvacuationInv, EvacuationTypeOK, Respawned
<1> QED
  BY <1>1, EvacuationTypes, RespawnedStays DEF EvacuationInv

\* rebuild_instance, its record and the returns of the failed host
\* (_destroy_evacuated_instances) keep the invariant: who has a guest, what the
\* row says and how far the rebuild is go together at every step.
THEOREM EvacuationInvariant == EvacuationSpec => []EvacuationInv
BY EvacuationInitially, EvacuationStep, PTL DEF EvacuationSpec

\* Whenever and however often the failed host comes back, an instance that was
\* rebuilt elsewhere runs there and has its files.
THEOREM EvacuatedRunOn == EvacuationSpec => []EvacuatedRuns
<1>1. EvacuationInv => EvacuatedRuns
  BY DEF EvacuationInv, Respawned, EvacuatedRuns
<1> QED
  BY <1>1, EvacuationInvariant, PTL
-----------------------------------------------------------------------------
(* Discovery, for any number of guests and of changes.                     *)

\* A pass that has ended holds nothing back.
Reported == seek.pc = "idle" => seek.found = {}

DiscoveryInv == DiscoveryTypeOK /\ Reported /\ CachedIsReported

LEMMA DiscoveryInitially == DiscoveryInit => DiscoveryInv
<1>1. NoRecord \in Records /\ Idle \in Seekings /\ NoPurge \in Purgings
  BY DEF NoRecord, Records, Idle, Seekings, NoPurge, Purgings
<1> QED
  BY <1>1, DiscoveryAssumption
  DEF DiscoveryInit, DiscoveryInv, DiscoveryTypeOK, Reported, CachedIsReported, Idle

\* What is left of a message when it has been carried out for g.
LEMMA RestIs ==
    ASSUME DiscoveryTypeOK, NEW m \in mail, NEW g \in m.of
    PROVE  /\ Rest(m, g) \subseteq Messages
           /\ \A h \in Guests \ {g} :
                  (\E n \in mail : n.kind = "register" /\ h \in n.of)
                  => \E n \in Rest(m, g) : n.kind = "register" /\ h \in n.of
           /\ m.kind # "register" =>
                  \A h \in Guests :
                      (\E n \in mail : n.kind = "register" /\ h \in n.of)
                      => \E n \in Rest(m, g) : n.kind = "register" /\ h \in n.of
<1> USE DEF DiscoveryTypeOK
<1> DEFINE left == [m EXCEPT !.of = @ \ {g}]
<1>1. m \in Messages
  OBVIOUS
<1>2. left \in Messages /\ left.kind = m.kind /\ left.of = m.of \ {g}
  BY <1>1 DEF Messages
<1>3. Rest(m, g) = (mail \ {m}) \cup (IF m.of = {g} THEN {} ELSE {left})
  BY DEF Rest
<1> HIDE DEF left
<1>4. Rest(m, g) \subseteq Messages
  BY <1>2, <1>3
<1>5. ASSUME NEW h \in Guests \ {g}, NEW n \in mail, n.kind = "register", h \in n.of
      PROVE  \E o \in Rest(m, g) : o.kind = "register" /\ h \in o.of
  <2>1. CASE n = m
    BY <1>2, <1>3, <1>5, <2>1
  <2>2. CASE n # m
    BY <1>3, <1>5, <2>2
  <2> QED
    BY <2>1, <2>2
<1>6. ASSUME m.kind # "register",
             NEW h \in Guests, NEW n \in mail, n.kind = "register", h \in n.of
      PROVE  \E o \in Rest(m, g) : o.kind = "register" /\ h \in o.of
  BY <1>3, <1>6
<1> QED
  BY <1>4, <1>5, <1>6

\* The types, of the guests' own steps, of the search, of the conductor and of
\* the purge.
LEMMA GuestTypes ==
    ASSUME DiscoveryTypeOK, NEW g \in Guests,
           \/ Appear(g) \/ Vanish(g) \/ BootGuest(g) \/ DeleteGuest(g) \/ Goes(g)
    PROVE  DiscoveryTypeOK'
<1>1. /\ [vm |-> "building", task |-> "spawning"] \in Records
      /\ [vm |-> "active", task |-> "none"] \in Records
      /\ [vm |-> "deleted", task |-> "none"] \in Records
      /\ [record[g] EXCEPT !.task = "deleting"] \in Records
  BY DEF DiscoveryTypeOK, Records
<1>2. CASE Appear(g) \/ Vanish(g) \/ BootGuest(g) \/ DeleteGuest(g)
  BY <1>1, <1>2, DiscoveryAssumption
  DEF Appear, Vanish, BootGuest, DeleteGuest, Change, DiscoveryTypeOK
<1>3. CASE Goes(g)
  BY <1>1, <1>3
  DEF Goes, SpawnGuest, BootEnds, DestroyDomain, DeleteEnds, DiscoveryTypeOK
<1> QED
  BY <1>2, <1>3

LEMMA SeekTypes ==
    ASSUME DiscoveryTypeOK, Seeks \/ ReportFails
    PROVE  DiscoveryTypeOK'
<1>1. /\ seek.todo \subseteq Guests /\ seek.found \subseteq Guests
      /\ [kind |-> "register", of |-> seek.found] \in Messages
  BY DEF DiscoveryTypeOK, Seekings, Messages
<1>2. Idle \in Seekings
  BY DEF Idle, Seekings
<1>3. CASE SeekBegin
  BY <1>3 DEF SeekBegin, DiscoveryTypeOK, Seekings
<1>4. ASSUME NEW g \in Guests, Look(g)
      PROVE  DiscoveryTypeOK'
  <2>1. /\ seek' = [pc |-> seek'.pc, todo |-> seek'.todo, found |-> seek'.found]
        /\ seek'.pc = seek.pc /\ seek'.todo = seek.todo \ {g}
        /\ seek'.found \in {seek.found, seek.found \cup {g}}
    BY <1>4 DEF Look, DiscoveryTypeOK, Seekings
  <2>2. seek' \in Seekings
    BY <1>1, <2>1 DEF DiscoveryTypeOK, Seekings
  <2> QED
    BY <1>4, <2>2 DEF Look, DiscoveryTypeOK
<1>5. CASE (\E g \in Guests : LookFails(g)) \/ Report
  BY <1>1, <1>2, <1>5 DEF LookFails, Report, DiscoveryTypeOK
<1>6. CASE ReportFails
  BY <1>1, <1>2, <1>6, DiscoveryAssumption DEF ReportFails, Change, DiscoveryTypeOK
<1> QED
  BY <1>3, <1>4, <1>5, <1>6 DEF Seeks

LEMMA ConductTypes ==
    ASSUME DiscoveryTypeOK, NEW m \in mail, NEW g \in m.of,
           Register(m, g) \/ NotFound(m, g) \/ RegisterFails(m, g)
    PROVE  DiscoveryTypeOK'
<1>1. m.of \subseteq Guests
  BY DEF DiscoveryTypeOK, Messages
<1>2. mail' \subseteq Messages
  BY RestIs DEF DiscoveryTypeOK, Register, NotFound, RegisterFails
<1>3. \A v \in {"active", "error"} : [record[g] EXCEPT !.vm = v] \in Records
  BY <1>1 DEF DiscoveryTypeOK, Records
<1>4. [vm |-> "active", task |-> "none"] \in Records
  BY DEF Records
<1>5. [record[g] EXCEPT !.vm = record[g].vm] \in Records
  BY <1>1 DEF DiscoveryTypeOK, Records
<1>6. CASE Register(m, g)
  BY <1>1, <1>2, <1>3, <1>4, <1>6 DEF Register, DiscoveryTypeOK
<1>7. CASE NotFound(m, g)
  <2>1. record' \in [Guests -> Records]
    BY <1>1, <1>3, <1>5, <1>7 DEF NotFound, DiscoveryTypeOK
  <2> QED
    BY <1>2, <1>7, <2>1 DEF NotFound, DiscoveryTypeOK
<1>8. CASE RegisterFails(m, g)
  BY <1>1, <1>2, <1>8 DEF RegisterFails, DiscoveryTypeOK
<1> QED
  BY <1>6, <1>7, <1>8

LEMMA PurgeTypes ==
    ASSUME DiscoveryTypeOK, Purges \/ CacheLost
    PROVE  DiscoveryTypeOK'
<1> USE DiscoveryAssumption
    DEF DiscoveryTypeOK, Purges, PurgeRead, PurgeAsk, PurgeList, PurgeTell, PurgeCache, CacheLost
<1>1. purge' \in Purgings
  <2>1. NoPurge \in Purgings
    BY DEF Purgings, NoPurge
  <2>2. CASE PurgeRead
    BY <2>2 DEF Purgings, NoPurge
  <2>3. CASE PurgeAsk
    BY <2>3 DEF Purgings
  <2>4. CASE PurgeList
    BY <2>4 DEF Purgings
  <2>5. CASE PurgeTell
    BY <2>5 DEF Purgings
  <2> QED
    BY <2>1, <2>2, <2>3, <2>4, <2>5
<1>2. seek' \in Seekings
  BY DEF Seekings, Idle
<1>3. cache' \in [Guests -> {"none", "unnamed", "named"}]
  OBVIOUS
<1>4. mail' \subseteq Messages
  BY DEF Messages, Purgings
<1>5. forgotten' \subseteq Guests
  OBVIOUS
<1>6. changes' \in 0..MaxChanges
  BY DEF Change
<1>7. UNCHANGED <<present, record>>
  OBVIOUS
<1> QED
  BY <1>1, <1>2, <1>3, <1>4, <1>5, <1>6, <1>7

LEMMA ReportedStays ==
    ASSUME DiscoveryTypeOK, Reported, DiscoveryNext
    PROVE  Reported'
<1>1. ASSUME NEW g \in Guests, Look(g)
      PROVE  seek'.pc = "looking"
  BY <1>1 DEF DiscoveryTypeOK, Seekings, Look
<1>2. \/ UNCHANGED seek \/ seek'.pc = "looking" \/ seek' = Idle
  BY <1>1 DEF DiscoveryNext, Seeks, Purges, Goes, Conducts, Appear, Vanish, BootGuest,
      SpawnGuest, BootEnds, DeleteGuest, DestroyDomain, DeleteEnds, SeekBegin,
      LookFails, Report, ReportFails, Register, RegisterFails, NotFound, PurgeRead,
      PurgeAsk, PurgeList, PurgeTell, PurgeCache, CacheLost
<1> QED
  BY <1>2 DEF Reported, Idle

\* Guests that are made and removed: a row that is there stays there, and the
\* cache only takes what is not reported yet.
LEMMA GuestReported ==
    ASSUME DiscoveryInv, NEW g \in Guests,
           \/ Appear(g) \/ Vanish(g) \/ BootGuest(g) \/ DeleteGuest(g) \/ Goes(g)
    PROVE  CachedIsReported'
<1> USE DEF DiscoveryInv, DiscoveryTypeOK
<1>1. [record[g] EXCEPT !.task = "deleting"].vm = record[g].vm
  BY DEF Records
<1>2. CASE Appear(g) \/ Vanish(g) \/ BootGuest(g) \/ DeleteGuest(g)
  BY <1>1, <1>2
  DEF Appear, Vanish, BootGuest, DeleteGuest, CachedIsReported, OnItsWay
<1>3. CASE Goes(g)
  BY <1>3
  DEF Goes, SpawnGuest, BootEnds, DestroyDomain, DeleteEnds, CachedIsReported,
      OnItsWay
<1> QED
  BY <1>2, <1>3

\* The search: what it puts in the cache it has found, what it has found it
\* reports or forgets.
LEMMA SeekReported ==
    ASSUME DiscoveryInv, Seeks \/ ReportFails
    PROVE  CachedIsReported'
<1> USE DEF DiscoveryInv, DiscoveryTypeOK
<1>1. CASE SeekBegin
  BY <1>1 DEF SeekBegin, Reported, CachedIsReported, OnItsWay
<1>2. ASSUME NEW g \in Guests, Look(g)
      PROVE  CachedIsReported'
  <2>1. /\ seek.found \subseteq seek'.found
        /\ cache[g] # "named" => g \in seek'.found
    BY <1>2 DEF Look, Seekings
  <2>2. \A h \in Guests \ {g} : cache'[h] = cache[h]
    BY <1>2 DEF Look
  <2> QED
    BY <1>2, <2>1, <2>2 DEF Look, CachedIsReported, OnItsWay
<1>3. CASE (\E g \in Guests : LookFails(g)) \/ ReportFails
  BY <1>3 DEF LookFails, ReportFails, CachedIsReported, OnItsWay
<1>4. CASE Report
  <2> DEFINE new == [kind |-> "register", of |-> seek.found]
  <2>1. /\ mail \subseteq mail' /\ (seek.found # {} => new \in mail')
        /\ UNCHANGED <<cache, record, forgotten>>
    BY <1>4 DEF Report
  <2> QED
    BY <2>1 DEF CachedIsReported, OnItsWay
<1> QED
  BY <1>1, <1>2, <1>3, <1>4 DEF Seeks

\* The conductor: a message is carried out for one guest, which has a row then,
\* or is forgotten, alone or with the rest of it.
LEMMA ConductReported ==
    ASSUME DiscoveryInv, NEW m \in mail, NEW g \in m.of,
           Register(m, g) \/ NotFound(m, g) \/ RegisterFails(m, g)
    PROVE  CachedIsReported'
<1> USE DEF DiscoveryInv, DiscoveryTypeOK
<1>0. g \in Guests /\ UNCHANGED <<cache, seek>>
  BY DEF Messages, Register, NotFound, RegisterFails
<1>1. CASE Register(m, g)
  <2>1. record'[g].vm # "none" /\ \A h \in Guests \ {g} : record'[h] = record[h]
    BY <1>0, <1>1 DEF Register, Records
  <2> QED
    BY <1>0, <1>1, <2>1, RestIs DEF Register, CachedIsReported, OnItsWay
<1>2. CASE NotFound(m, g)
  <2>1. \A h \in Guests : record'[h].vm = "none" => record[h].vm = "none"
    BY <1>0, <1>2 DEF NotFound, Records
  <2> QED
    BY <1>0, <1>2, <2>1, RestIs DEF NotFound, CachedIsReported, OnItsWay
<1>3. CASE RegisterFails(m, g)
  BY <1>0, <1>3, RestIs DEF RegisterFails, CachedIsReported, OnItsWay
<1> QED
  BY <1>1, <1>2, <1>3

\* The purge takes from the cache what it takes from the forgotten, a restart
\* takes all of it.
LEMMA PurgeReported ==
    ASSUME DiscoveryInv, Purges \/ CacheLost
    PROVE  CachedIsReported'
<1> USE DEF DiscoveryInv, DiscoveryTypeOK
<1>1. CASE PurgeRead \/ PurgeAsk \/ PurgeList
  BY <1>1 DEF PurgeRead, PurgeAsk, PurgeList, CachedIsReported, OnItsWay
<1>2. CASE PurgeTell
  <2>1. mail \subseteq mail' /\ UNCHANGED <<cache, record, seek, forgotten>>
    BY <1>2 DEF PurgeTell
  <2> QED
    BY <2>1 DEF CachedIsReported, OnItsWay
<1>3. CASE PurgeCache
  BY <1>3 DEF PurgeCache, CachedIsReported, OnItsWay
<1>4. CASE CacheLost
  BY <1>4 DEF CacheLost, CachedIsReported
<1> QED
  BY <1>1, <1>2, <1>3, <1>4 DEF Purges

LEMMA DiscoveryStep ==
    DiscoveryInv /\ [DiscoveryNext]_discovery => DiscoveryInv'
<1> SUFFICES ASSUME DiscoveryInv, [DiscoveryNext]_discovery PROVE DiscoveryInv'
  OBVIOUS
<1>1. CASE UNCHANGED discovery
  BY <1>1 DEF discovery, DiscoveryInv, DiscoveryTypeOK, Reported, CachedIsReported,
      OnItsWay
<1>2. CASE DiscoveryNext
  <2>1. DiscoveryTypeOK'
    BY <1>2, GuestTypes, SeekTypes, ConductTypes, PurgeTypes
    DEF DiscoveryInv, DiscoveryNext, Conducts
  <2>2. CachedIsReported'
    BY <1>2, GuestReported, SeekReported, ConductReported, PurgeReported
    DEF DiscoveryNext, Conducts
  <2> QED
    BY <1>2, <2>1, <2>2, ReportedStays DEF DiscoveryInv
<1> QED
  BY <1>1, <1>2

\* The search, its reports, the boots and deletes that write the cache beside it
\* and the conductor's answers keep the invariant, passes that fail and lost
\* casts included.
THEOREM DiscoveryInvariant == DiscoverySpec => []DiscoveryInv
BY DiscoveryInitially, DiscoveryStep, PTL DEF DiscoverySpec

\* A guest that the cache takes for reported has a row, or is reported, or its
\* report was lost: the search never passes over one that nobody was told of.
THEOREM CachedAreReported == DiscoverySpec => []CachedIsReported
BY DiscoveryInvariant, PTL DEF DiscoveryInv
-----------------------------------------------------------------------------
(* Addresses, for any number of them, of instances and of failures.         *)

\* The addresses an instance has: it is being given one, or was told of it.
Uses(o, a) == \/ told[o] = a /\ a # NoAddress
              \/ nic[o].pc = "associated" /\ nic[o].row = a

\* Who was told of an address is up.
ToldWhenUp == \A o \in Owners : told[o] # NoAddress => nic[o].pc = "up"

\* A row has been chosen where the steps use it.
RowChosen ==
    \A o \in Owners :
        \/ nic[o].pc \in {"picked", "associated", "copied", "sent", "unleased"}
        \/ nic[o].pc = "listed" /\ nic[o].removes
        => nic[o].row \in Addresses

\* The row of an address in use says so.
UserHasRow ==
    \A o \in Owners : \A a \in Addresses :
        (Uses(o, a) /\ o \notin wronged) => ip[a].inst = o /\ ip[a].allocated

\* A release goes on only if its copy of the row was let go.
LetGoBefore == \A h \in handlers : h.pc = "saved" => ~h.copy.allocated

FixedIpsInv ==
    FixedIpsTypeOK /\ ToldWhenUp /\ RowChosen /\ UserHasRow /\ LetGoBefore

LEMMA NicIs ==
    /\ Free \in Rows
    /\ \A pc \in NicSteps :
          /\ Nic(pc) \in Nics /\ Nic(pc).pc = pc /\ Nic(pc).removes = FALSE
          /\ \A a \in Addresses :
                /\ [Nic(pc) EXCEPT !.row = a] \in Nics
                /\ [Nic(pc) EXCEPT !.row = a].pc = pc
                /\ [Nic(pc) EXCEPT !.row = a].row = a
BY DEF Free, Rows, Nic, Nics

LEMMA FixedIpsInitially == FixedIpsInit => FixedIpsInv
BY NicIs, FixedIpAssumption
DEF FixedIpsInit, FixedIpsInv, FixedIpsTypeOK, ToldWhenUp, RowChosen, UserHasRow,
    Uses, LetGoBefore, NicSteps

LEMMA NicMoves ==
    ASSUME NEW n \in Nics, NEW pc \in NicSteps
    PROVE  LET m == [n EXCEPT !.pc = pc]
           IN m \in Nics /\ m.pc = pc /\ m.row = n.row /\ m.removes = n.removes
BY DEF Nics

\* The steps that write no row, and all that give nobody an address.
Quiet(o) ==
    \/ Asks(o) \/ PickAddress(o) \/ NoMoreFixedIps(o) \/ AllocateEnds(o) \/ CopyRow(o)
    \/ ReadAgain(o) \/ DeallocateEnds(o) \/ DeallocateFails(o)
TakesNone(o) ==
    \/ Quiet(o) \/ AllocateFails(o) \/ LetGo(o) \/ DisassociateIdle(o) \/ RemoveEnds(o)

\* The state of a request after each of its steps: it keeps its type, and has a
\* row where it needs one.
LEMMA NicTaken ==
    ASSUME FixedIpsTypeOK, RowChosen, NEW o \in Owners, FromPool(o) \/ TakePicked(o)
    PROVE  /\ nic' \in [Owners -> Nics] /\ RowChosen'
           /\ \A p \in Owners \ {o} : nic'[p] = nic[p]
<1> USE DEF FixedIpsTypeOK, RowChosen
<1>1. CASE FromPool(o)
  <2>1. PICK a \in Addresses :
            nic' = [nic EXCEPT ![o] = [Nic("associated") EXCEPT !.row = a]]
    BY <1>1 DEF FromPool
  <2>2. LET n == [Nic("associated") EXCEPT !.row = a] IN n \in Nics /\ n.row = a
    BY NicIs DEF NicSteps
  <2> QED
    BY <2>1, <2>2
<1>2. CASE TakePicked(o)
  <2>1. nic' = [nic EXCEPT ![o] = [nic[o] EXCEPT !.pc = "associated"]]
    BY <1>2 DEF TakePicked
  <2>2. LET n == [nic[o] EXCEPT !.pc = "associated"]
        IN n \in Nics /\ n.row = nic[o].row
    BY NicMoves DEF NicSteps
  <2>3. nic[o].row \in Addresses
    BY <1>2 DEF TakePicked
  <2> QED
    BY <2>1, <2>2, <2>3
<1> QED
  BY <1>1, <1>2

LEMMA NicTakesNone ==
    ASSUME FixedIpsTypeOK, RowChosen, NEW o \in Owners, TakesNone(o)
    PROVE  /\ nic' \in [Owners -> Nics] /\ RowChosen'
           /\ \A p \in Owners \ {o} : nic'[p] = nic[p]
           /\ nic'[o].pc # "associated"
<1> USE DEF FixedIpsTypeOK, RowChosen
<1>1. nic[o] \in Nics
  OBVIOUS
<1>2. SUFFICES \E n \in Nics :
          /\ nic' = [nic EXCEPT ![o] = n]
          /\ \/ n.pc \in {"picked", "associated", "copied", "sent", "unleased"}
             \/ n.pc = "listed" /\ n.removes
             => n.row \in Addresses
          /\ n.pc # "associated"
  OBVIOUS
<1>3. CASE AddVif(o) \/ AllocateEnds(o) \/ NoMoreFixedIps(o) \/ AllocateFails(o)
           \/ RemoveEnds(o) \/ DeallocateEnds(o) \/ DeallocateFails(o)
  <2>1. PICK pc \in {"vif", "up", "failed", "bare", "gone"} :
            nic' = [nic EXCEPT ![o] = Nic(pc)]
    BY <1>3 DEF AddVif, AllocateEnds, NoMoreFixedIps, AllocateFails, RemoveEnds,
       DeallocateEnds, DeallocateFails
  <2>2. Nic(pc) \in Nics /\ Nic(pc).pc = pc
    BY NicIs DEF NicSteps
  <2> QED
    BY <2>1, <2>2
<1>4. CASE PickAddress(o)
  <2>1. PICK a \in Addresses :
            nic' = [nic EXCEPT ![o] = [Nic("picked") EXCEPT !.row = a]]
    BY <1>4 DEF PickAddress
  <2>2. LET n == [Nic("picked") EXCEPT !.row = a]
        IN n \in Nics /\ n.row = a /\ n.pc = "picked"
    BY NicIs DEF NicSteps
  <2> QED
    BY <2>1, <2>2
<1>5. CASE LetGo(o) \/ ReadAgain(o) \/ DisassociateIdle(o)
  <2>1. PICK pc \in {"sent", "listed", "unleased"} :
            nic' = [nic EXCEPT ![o] = [nic[o] EXCEPT !.pc = pc]]
    BY <1>5 DEF LetGo, ReadAgain, DisassociateIdle
  <2>2. pc \in NicSteps
    BY DEF NicSteps
  <2>3. LET n == [nic[o] EXCEPT !.pc = pc]
        IN n \in Nics /\ n.row = nic[o].row /\ n.pc = pc
    BY <1>1, <2>2, NicMoves
  <2>4. nic[o].row \in Addresses
    BY <1>5 DEF LetGo, ReadAgain, DisassociateIdle
  <2> QED
    BY <2>1, <2>3, <2>4
<1>6. CASE DeallocateBegins(o)
  <2> DEFINE n == [Nic("listed") EXCEPT !.todo = {a \in Addresses : ip[a].inst = o}]
  <2>1. n \in Nics /\ n.removes = FALSE
    BY DEF Nics, Nic, NicSteps
  <2>2. nic' = [nic EXCEPT ![o] = n]
    BY <1>6 DEF DeallocateBegins
  <2>3. n.pc = "listed"
    BY DEF Nic
  <2> QED
    BY <2>1, <2>2, <2>3
<1>7. CASE RemoveFixedIp(o)
  <2> DEFINE n == [Nic("listed") EXCEPT !.todo = {told[o]}, !.removes = TRUE,
                       !.leased = ip[told[o]].leased, !.row = told[o]]
  <2>1. told[o] \in Addresses /\ ip[told[o]] \in Rows
    BY <1>7 DEF RemoveFixedIp
  <2>2. n \in Nics /\ n.row = told[o] /\ n.pc = "listed"
    BY <2>1 DEF Nics, Nic, NicSteps, Rows
  <2>3. nic' = [nic EXCEPT ![o] = n]
    BY <1>7 DEF RemoveFixedIp
  <2> QED
    BY <2>1, <2>2, <2>3
<1>8. CASE CopyRow(o)
  <2> DEFINE n(a) == [nic[o] EXCEPT !.pc = "copied", !.row = a,
                                    !.todo = nic[o].todo \ {a},
                                    !.inst = ip[a].inst, !.vif = ip[a].vif]
  <2>1. PICK a \in nic[o].todo :
          nic' = [nic EXCEPT ![o] =
                     IF ip[a].inst = NoOwner THEN Nic("failed") ELSE n(a)]
    BY <1>8 DEF CopyRow
  <2>2. a \in Addresses /\ nic[o].todo \ {a} \in SUBSET Addresses
    BY <1>1, <2>1 DEF Nics
  <2>3. /\ ip[a].inst \in Owners \cup {NoOwner}
        /\ ip[a].vif \in Owners \cup {NoOwner}
    BY <2>2 DEF Rows
  <2>4. "copied" \in NicSteps
    BY DEF NicSteps
  <2>4a. n(a) \in Nics /\ n(a).row = a /\ n(a).pc = "copied"
    BY <1>1, <2>2, <2>3, <2>4 DEF Nics
  <2>5. Nic("failed") \in Nics /\ Nic("failed").pc = "failed"
    BY NicIs DEF NicSteps
  <2> HIDE DEF n
  <2> QED
    BY <2>1, <2>2, <2>4a, <2>5
<1> QED
  BY <1>3, <1>4, <1>5, <1>6, <1>7, <1>8 DEF TakesNone, Quiet, Asks

\* What the writes of a row leave of it, and of the others.
LEMMA RowWritten ==
    ASSUME FixedIpsTypeOK, NEW a \in Addresses, NEW o \in Owners
    PROVE  /\ Associated(a, o) \in [Addresses -> Rows]
           /\ Associated(a, o)[a].inst = o /\ Associated(a, o)[a].allocated
           /\ \A b \in Addresses \ {a} : Associated(a, o)[b] = ip[b]
<1>1. ip \in [Addresses -> Rows] /\ ip[a] \in Rows
  BY DEF FixedIpsTypeOK
<1> DEFINE r == [ip[a] EXCEPT !.inst = o, !.vif = o, !.allocated = TRUE]
<1>2. r \in Rows /\ r.inst = o /\ r.allocated
  BY <1>1 DEF Rows
<1>3. Associated(a, o) = [ip EXCEPT ![a] = r]
  BY <1>1 DEF Associated
<1> HIDE DEF r
<1> QED
  BY <1>1, <1>2, <1>3

LEMMA RowFreed ==
    ASSUME FixedIpsTypeOK, NEW a \in Addresses
    PROVE  /\ Disassociated(a) \in [Addresses -> Rows]
           /\ \A b \in Addresses \ {a} : Disassociated(a)[b] = ip[b]
<1>1. ip \in [Addresses -> Rows] /\ ip[a] \in Rows
  BY DEF FixedIpsTypeOK
<1> DEFINE s == [ip[a] EXCEPT !.inst = NoOwner, !.vif = NoOwner]
<1>2. s \in Rows
  BY <1>1 DEF Rows
<1>3. Disassociated(a) = [ip EXCEPT ![a] = s]
  BY <1>1 DEF Disassociated
<1> HIDE DEF s
<1> QED
  BY <1>1, <1>2, <1>3

LEMMA RowTimedOut ==
    ASSUME NEW r \in Rows
    PROVE  /\ [r EXCEPT !.inst = NoOwner, !.leased = FALSE] \in Rows
           /\ [r EXCEPT !.inst = NoOwner, !.leased = FALSE].allocated = r.allocated
BY DEF Rows

\* Who is overtaken is an instance.
LEMMA OvertakenTypes ==
    ASSUME FixedIpsTypeOK, NEW a \in Addresses, NEW i, NEW allocated,
           Overtaken(a, i, allocated)
    PROVE  wronged' \subseteq Owners
<1>1. ip[a].inst \in Owners \cup {NoOwner} /\ wronged \subseteq Owners
  BY DEF FixedIpsTypeOK, Rows
<1> QED
  BY <1>1 DEF Overtaken

\* The requests: the rest of their state.
LEMMA RequestTypes ==
    ASSUME FixedIpsTypeOK, RowChosen, NEW o \in Owners,
           TakesNone(o) \/ FromPool(o) \/ TakePicked(o)
    PROVE  FixedIpsTypeOK'
<1>1. nic' \in [Owners -> Nics] /\ nic[o] \in Nics
  BY NicTaken, NicTakesNone DEF FixedIpsTypeOK
<1>2. \A a \in Addresses : ip[a].inst \in Owners \cup {NoOwner}
  BY DEF FixedIpsTypeOK, Rows
<1>3. CASE Quiet(o)
  <2>1. /\ UNCHANGED <<ip, dhcp, expired, wronged, leases>>
        /\ UNCHANGED ipTroubles \/ IpMishap
    BY <1>3 DEF Quiet, Asks, AddVif, PickAddress, NoMoreFixedIps, AllocateEnds, CopyRow,
       ReadAgain, DeallocateEnds, DeallocateFails, DeallocateBegins, RemoveFixedIp,
       bounds
  <2>2. vifs' \subseteq Owners
    BY <1>3 DEF FixedIpsTypeOK, Quiet, Asks, AddVif, PickAddress, NoMoreFixedIps,
       AllocateEnds, CopyRow, ReadAgain, DeallocateEnds, DeallocateFails,
       DeallocateBegins, RemoveFixedIp
  <2>3. nic[o].row \in Addresses \cup {NoAddress}
    BY <1>1 DEF Nics
  <2>4. told' \in [Owners -> Addresses \cup {NoAddress}]
    BY <1>3, <2>3 DEF FixedIpsTypeOK, Quiet, Asks, AddVif, PickAddress, NoMoreFixedIps,
       AllocateEnds, CopyRow, ReadAgain, DeallocateEnds, DeallocateFails,
       DeallocateBegins, RemoveFixedIp
  <2> QED
    BY <1>1, <2>1, <2>2, <2>4, FixedIpAssumption DEF FixedIpsTypeOK, IpMishap, dhcp
<1>4. CASE FromPool(o)
  <2>1. ip' \in [Addresses -> Rows]
    BY <1>4, RowWritten DEF FromPool
  <2> QED
    BY <1>1, <1>4, <2>1 DEF FromPool, FixedIpsTypeOK, dhcp, bounds
<1>5. CASE TakePicked(o)
  <2>1. nic[o].row \in Addresses
    BY <1>5 DEF TakePicked, RowChosen
  <2>2. ip' \in [Addresses -> Rows] /\ wronged' \subseteq Owners
    BY <1>2, <1>5, <2>1, RowWritten DEF TakePicked, FixedIpsTypeOK
  <2> QED
    BY <1>1, <1>5, <2>2 DEF TakePicked, FixedIpsTypeOK, dhcp, bounds
<1>6. CASE AllocateFails(o)
  <2>1. nic[o].row \in Addresses
    BY <1>6 DEF AllocateFails, RowChosen
  <2>2. ip' \in [Addresses -> Rows] /\ wronged' \subseteq Owners
    BY <1>2, <1>6, <2>1, RowFreed DEF AllocateFails, FixedIpsTypeOK
  <2> QED
    BY <1>1, <1>6, <2>2, FixedIpAssumption
    DEF AllocateFails, FixedIpsTypeOK, IpMishap, dhcp
<1>7. CASE DisassociateIdle(o)
  <2>1. nic[o].row \in Addresses
    BY <1>7 DEF DisassociateIdle, RowChosen
  <2>2. ip' \in [Addresses -> Rows]
    BY <1>7, <2>1, RowFreed DEF DisassociateIdle
  <2>3. wronged' \subseteq Owners
    BY <1>7, <2>1, OvertakenTypes DEF DisassociateIdle
  <2> QED
    BY <1>1, <1>7, <2>2, <2>3 DEF DisassociateIdle, FixedIpsTypeOK, dhcp, bounds
<1>8. CASE RemoveEnds(o)
  <2>1. nic[o].row \in Addresses
    BY <1>8 DEF RemoveEnds, RowChosen
  <2>2. ip' \in [Addresses -> Rows]
    BY <1>8, <2>1, RowFreed DEF RemoveEnds, FixedIpsTypeOK
  <2>3. wronged' \subseteq Owners
    BY <1>8, <2>1, OvertakenTypes DEF RemoveEnds, FixedIpsTypeOK
  <2> QED
    BY <1>1, <1>8, <2>2, <2>3 DEF RemoveEnds, FixedIpsTypeOK, dhcp, bounds
<1>9. CASE LetGo(o)
  <2>1. nic[o].row \in Addresses
    BY <1>9 DEF LetGo, RowChosen
  <2> DEFINE r == [ip[nic[o].row] EXCEPT !.allocated = FALSE, !.vif = NoOwner]
  <2>2. r \in Rows
    <3>1. ip[nic[o].row] \in Rows
      BY <2>1 DEF FixedIpsTypeOK
    <3> QED
      BY <3>1 DEF Rows
  <2>3. ip' = [ip EXCEPT ![nic[o].row] = r]
    BY <1>9, <2>1 DEF LetGo, FixedIpsTypeOK
  <2>4. ip' \in [Addresses -> Rows]
    BY <2>1, <2>2, <2>3 DEF FixedIpsTypeOK
  <2>5. wronged' \subseteq Owners
    BY <1>2, <1>9, <2>1 DEF LetGo, FixedIpsTypeOK
  <2>6. lease' \in [Addresses -> Owners \cup {NoOwner}]
    BY <1>9 DEF LetGo, FixedIpsTypeOK
  <2>7. ASSUME nic[o].vif \in vifs
        PROVE  [kind |-> "del", row |-> nic[o].row, mac |-> nic[o].vif] \in Casts
    BY <2>1, <2>7 DEF FixedIpsTypeOK, Casts
  <2>8. leaseCasts' \subseteq Casts
    BY <1>9, <2>7 DEF LetGo, FixedIpsTypeOK
  <2> QED
    BY <1>1, <1>9, <2>4, <2>5, <2>6, <2>8 DEF LetGo, FixedIpsTypeOK, bounds
<1> QED
  BY <1>3, <1>4, <1>5, <1>6, <1>7, <1>8, <1>9 DEF TakesNone

\* dnsmasq, its casts and their handlers, and the periodic task.
LEMMA HandlerTypes ==
    ASSUME FixedIpsTypeOK, RowChosen,
           \/ \E o \in Owners : GuestLeases(o)
           \/ \E a \in Addresses : LeaseEnds(a)
           \/ \E m \in leaseCasts : ServeCast(m) \/ LoseCast(m)
           \/ \E h \in handlers : Handles(h)
           \/ TimesOut
    PROVE  FixedIpsTypeOK' /\ UNCHANGED nic
<1> USE FixedIpAssumption DEF FixedIpsTypeOK
<1>1. ASSUME NEW o \in Owners, GuestLeases(o) PROVE FixedIpsTypeOK' /\ UNCHANGED nic
  <2>1. [kind |-> "add", row |-> told[o], mac |-> o] \in Casts
    BY <1>1 DEF GuestLeases, Casts
  <2> QED
    BY <1>1, <2>1 DEF GuestLeases
<1>2. ASSUME NEW a \in Addresses, LeaseEnds(a) PROVE FixedIpsTypeOK' /\ UNCHANGED nic
  <2>1. [kind |-> "del", row |-> a, mac |-> lease[a]] \in Casts
    BY <1>2 DEF LeaseEnds, Casts
  <2> QED
    BY <1>2, <2>1 DEF LeaseEnds, bounds
<1>3. ASSUME NEW m \in leaseCasts, ServeCast(m) \/ LoseCast(m)
      PROVE  FixedIpsTypeOK' /\ UNCHANGED nic
  <2>1. [cast |-> m, copy |-> ip[m.row], pc |-> "read"]
            \in [cast : Casts, copy : Rows, pc : {"read", "saved"}]
    BY DEF Casts
  <2> QED
    BY <1>3, <2>1 DEF ServeCast, LoseCast, IpMishap, bounds
<1>4. ASSUME NEW h \in handlers, Handles(h) PROVE FixedIpsTypeOK' /\ UNCHANGED nic
  <2>1. /\ h \in [cast : Casts, copy : Rows, pc : {"read", "saved"}]
        /\ h.cast.row \in Addresses /\ ip[h.cast.row] \in Rows
    BY DEF Casts
  <2>2. [h EXCEPT !.pc = "saved"] \in [cast : Casts, copy : Rows, pc : {"read", "saved"}]
    BY <2>1
  <2>3. \A l \in BOOLEAN : [ip[h.cast.row] EXCEPT !.leased = l] \in Rows
    BY <2>1 DEF Rows
  <2>4. CASE Leased(h)
    BY <2>1, <2>3, <2>4 DEF Leased, bounds
  <2>5. CASE Released(h)
    <3>1. ip' \in [Addresses -> Rows]
      BY <2>1, <2>3, <2>5 DEF Released
    <3> QED
      BY <2>2, <2>5, <3>1 DEF Released, bounds
  <2>6. CASE ReleaseDisassociates(h)
    <3>1. ip' = ip \/ ip' = Disassociated(h.cast.row)
      BY <2>6 DEF ReleaseDisassociates
    <3>2. ip' \in [Addresses -> Rows]
      BY <2>1, <3>1, RowFreed
    <3>3. wronged' \subseteq Owners
      BY <2>1, <2>6, OvertakenTypes DEF ReleaseDisassociates
    <3> QED
      BY <2>6, <3>2, <3>3 DEF ReleaseDisassociates, bounds
  <2> QED
    BY <1>4, <2>4, <2>5, <2>6 DEF Handles
<1>5. CASE ListStale
  BY <1>5 DEF ListStale, Stale, dhcp, bounds
<1>6. CASE FreeStale
  <2>0. \A a \in Addresses : [ip[a] EXCEPT !.inst = NoOwner, !.leased = FALSE] \in Rows
    BY RowTimedOut
  <2>1. ip' \in [Addresses -> Rows]
    BY <1>6, <2>0 DEF FreeStale
  <2>2. wronged' \subseteq Owners
    <3>1. \A a \in Addresses : ip[a].inst \in Owners \cup {NoOwner}
      BY DEF Rows
    <3> QED
      BY <1>6, <3>1 DEF FreeStale
  <2> QED
    BY <1>6, <2>1, <2>2 DEF FreeStale, dhcp, bounds
<1> QED
  BY <1>1, <1>2, <1>3, <1>4, <1>5, <1>6 DEF TimesOut

\* Who was told of an address is up: whoever lets it go takes it back first.
LEMMA ToldStays ==
    ASSUME FixedIpsInv, NEW o \in Owners,
           TakesNone(o) \/ FromPool(o) \/ TakePicked(o)
    PROVE  /\ ToldWhenUp'
           /\ \A p \in Owners \ {o} : told'[p] = told[p] /\ nic'[p] = nic[p]
<1> USE DEF FixedIpsInv, FixedIpsTypeOK
<1>1. \A p \in Owners \ {o} : nic'[p] = nic[p]
  BY NicTaken, NicTakesNone
<1>2. CASE AllocateEnds(o)
  <2>1. nic'[o].pc = "up"
    BY <1>2, NicIs DEF AllocateEnds, NicSteps
  <2> QED
    BY <1>1, <1>2, <2>1 DEF AllocateEnds, ToldWhenUp
<1>3. CASE DeallocateBegins(o) \/ RemoveFixedIp(o)
  BY <1>1, <1>3 DEF DeallocateBegins, RemoveFixedIp, ToldWhenUp
<1>4. CASE /\ ~AllocateEnds(o) /\ ~DeallocateBegins(o) /\ ~RemoveFixedIp(o)
  <2>1. nic[o].pc # "up" /\ told' = told
    BY <1>4 DEF TakesNone, Quiet, Asks, AddVif, First, FromPool, PickAddress,
       TakePicked, NoMoreFixedIps, AllocateFails, CopyRow, LetGo, ReadAgain,
       DisassociateIdle, RemoveEnds, DeallocateEnds, DeallocateFails
  <2> QED
    BY <1>1, <2>1 DEF ToldWhenUp
<1> QED
  BY <1>2, <1>3, <1>4

\* A request that is not given an address now uses none it did not use before.
LEMMA UsesNoMore ==
    ASSUME FixedIpsInv, NEW o \in Owners, TakesNone(o),
           NEW p \in Owners, NEW a \in Addresses, Uses(p, a)'
    PROVE  Uses(p, a) /\ (p = o => Quiet(o))
<1> USE DEF FixedIpsInv, FixedIpsTypeOK
<1>1. CASE p # o
  <2>1. told'[p] = told[p] /\ nic'[p] = nic[p]
    BY <1>1, ToldStays
  <2> QED
    BY <1>1, <2>1 DEF Uses
<1>2. CASE p = o /\ AllocateEnds(o)
  <2>1. nic'[o].pc = "up"
    BY <1>2, NicIs DEF AllocateEnds, NicSteps
  <2> QED
    BY <1>2, <2>1, FixedIpAssumption DEF AllocateEnds, Uses, Quiet
<1>3. CASE p = o /\ ~AllocateEnds(o)
  <2>1. nic'[o].pc # "associated"
    BY NicTakesNone
  <2>2. told'[o] \in {told[o], NoAddress}
    BY <1>3 DEF TakesNone, Quiet, Asks, AddVif, PickAddress, NoMoreFixedIps,
       AllocateFails, CopyRow, LetGo, ReadAgain, DisassociateIdle, RemoveEnds,
       DeallocateEnds, DeallocateFails, DeallocateBegins, RemoveFixedIp
  <2>3. told[o] # NoAddress => Quiet(o)
    BY DEF TakesNone, ToldWhenUp, AllocateFails, LetGo, DisassociateIdle, RemoveEnds
  <2> QED
    BY <1>3, <2>1, <2>2, <2>3 DEF Uses
<1> QED
  BY <1>1, <1>2, <1>3

\* Who keeps a row, not wronged, when one that was let go is taken back: whoever
\* does not use it.
LEMMA OvertakenWronged ==
    ASSUME FixedIpsTypeOK, NEW a \in Addresses, NEW i, NEW allocated \in BOOLEAN,
           Overtaken(a, i, allocated), ~allocated, NEW p \in Owners, p \notin wronged'
    PROVE  p \notin wronged /\ (ip[a].inst = p => ~ip[a].allocated)
BY FixedIpAssumption DEF Overtaken, FixedIpsTypeOK

\* What the requests write.
LEMMA RequestsKeepRows ==
    ASSUME FixedIpsInv, NEW o \in Owners,
           TakesNone(o) \/ FromPool(o) \/ TakePicked(o)
    PROVE  UserHasRow'
<1> USE DEF FixedIpsInv
<1>1. SUFFICES ASSUME NEW p \in Owners, NEW a \in Addresses,
                      Uses(p, a)', p \notin wronged'
               PROVE  ip'[a].inst = p /\ ip'[a].allocated
  BY DEF UserHasRow
<1>2. ip \in [Addresses -> Rows] /\ nic \in [Owners -> Nics]
  BY DEF FixedIpsTypeOK
<1>3. CASE FromPool(o)
  <2>1. PICK b \in Addresses :
          /\ ip[b].inst = NoOwner
          /\ ip' = Associated(b, o)
          /\ nic' = [nic EXCEPT ![o] = [Nic("associated") EXCEPT !.row = b]]
          /\ UNCHANGED <<told, wronged>>
    BY <1>3 DEF FromPool
  <2>2. nic'[o].row = b /\ \A q \in Owners \ {o} : nic'[q] = nic[q]
    BY <1>2, <2>1, NicIs DEF NicSteps
  <2>3. told[o] = NoAddress
    BY <1>3 DEF FromPool, First, ToldWhenUp
  <2>4. CASE p = o
    BY <1>1, <2>1, <2>2, <2>3, <2>4, RowWritten, FixedIpAssumption DEF Uses
  <2>5. CASE p # o
    <3>1. Uses(p, a) /\ p \notin wronged
      BY <1>1, <2>1, <2>2, <2>5 DEF Uses
    <3>2. ip[a].inst = p /\ ip[a].allocated
      BY <3>1 DEF UserHasRow
    <3> QED
      BY <2>1, <3>2, RowWritten, FixedIpAssumption
  <2> QED
    BY <2>4, <2>5
<1>4. CASE TakePicked(o)
  <2> DEFINE b == nic[o].row
  <2>1. /\ b \in Addresses /\ ip' = Associated(b, o) /\ UNCHANGED told
        /\ wronged' = wronged \cup ({ip[b].inst} \ {NoOwner})
        /\ nic'[o].row = b /\ \A q \in Owners \ {o} : nic'[q] = nic[q]
    BY <1>2, <1>4 DEF TakePicked, RowChosen, Nics
  <2>2. told[o] = NoAddress
    BY <1>4 DEF TakePicked, ToldWhenUp
  <2> HIDE DEF b
  <2>3. CASE p = o
    BY <1>1, <2>1, <2>2, <2>3, RowWritten, FixedIpAssumption DEF Uses
  <2>4. CASE p # o
    <3>1. Uses(p, a) /\ p \notin wronged
      BY <1>1, <2>1, <2>4 DEF Uses
    <3>2. ip[a].inst = p /\ ip[a].allocated
      BY <3>1 DEF UserHasRow
    <3>3. a # b
      BY <1>1, <2>1, <3>2, FixedIpAssumption
    <3> QED
      BY <2>1, <3>2, <3>3, RowWritten
  <2> QED
    BY <2>3, <2>4
<1>5. CASE TakesNone(o)
  <2>1. Uses(p, a) /\ (p = o => Quiet(o))
    BY <1>1, <1>5, UsesNoMore
  <2>2. p \notin wronged => ip[a].inst = p /\ ip[a].allocated
    BY <2>1 DEF UserHasRow
  <2>3. CASE Quiet(o)
    <3>1. UNCHANGED <<ip, wronged>>
      BY <2>3 DEF Quiet, Asks, AddVif, PickAddress, NoMoreFixedIps, AllocateEnds,
         CopyRow, ReadAgain, DeallocateEnds, DeallocateFails, DeallocateBegins,
         RemoveFixedIp
    <3> QED
      BY <1>1, <2>2, <3>1
  <2>4. CASE ~Quiet(o)
    <3>1. p # o /\ nic[o].row \in Addresses
      BY <1>5, <2>1, <2>4
      DEF TakesNone, AllocateFails, LetGo, DisassociateIdle, RemoveEnds, RowChosen
    <3> DEFINE b == nic[o].row
    <3>2. /\ p \notin wronged
          /\ ip[b].inst = p => ~ip[b].allocated \/ ip' = ip
      <4>1. CASE AllocateFails(o) \/ LetGo(o)
        BY <1>1, <3>1, <4>1, FixedIpAssumption DEF AllocateFails, LetGo
      <4>2. CASE DisassociateIdle(o)
        <5>1. Overtaken(b, nic[o].inst, FALSE)
          BY <4>2 DEF DisassociateIdle
        <5> QED
          BY <1>1, <3>1, <5>1, OvertakenWronged
      <4>3. CASE RemoveEnds(o) /\ ~nic[o].leased
        <5>1. Overtaken(b, o, FALSE)
          BY <4>3 DEF RemoveEnds
        <5> QED
          BY <1>1, <3>1, <5>1, OvertakenWronged
      <4>4. CASE RemoveEnds(o) /\ nic[o].leased
        BY <1>1, <4>4 DEF RemoveEnds
      <4> QED
        BY <1>5, <2>4, <4>1, <4>2, <4>3, <4>4 DEF TakesNone
    <3>3. \A c \in Addresses \ {b} : ip'[c] = ip[c]
      <4>1. \/ ip' = ip \/ ip' = Disassociated(b)
            \/ ip' = [ip EXCEPT ![b].allocated = FALSE, ![b].vif = NoOwner]
        BY <1>5, <2>4
        DEF TakesNone, AllocateFails, LetGo, DisassociateIdle, RemoveEnds
      <4> QED
        BY <1>2, <3>1, <4>1, RowFreed
    <3> QED
      BY <2>2, <3>1, <3>2, <3>3
  <2> QED
    BY <2>3, <2>4
<1> QED
  BY <1>3, <1>4, <1>5

\* What the messages about leases and the periodic task write: a release that
\* goes on has read that the row was let go.
LEMMA HandlersKeepRows ==
    ASSUME FixedIpsInv,
           \/ \E o \in Owners : GuestLeases(o)
           \/ \E a \in Addresses : LeaseEnds(a)
           \/ \E m \in leaseCasts : ServeCast(m) \/ LoseCast(m)
           \/ \E h \in handlers : Handles(h)
           \/ TimesOut
    PROVE  UserHasRow' /\ UNCHANGED <<nic, told>>
<1> USE DEF FixedIpsInv
<1>1. UNCHANGED <<nic, told>>
  BY HandlerTypes
  DEF GuestLeases, LeaseEnds, ServeCast, LoseCast, Handles, Leased, Released,
      ReleaseDisassociates, TimesOut, ListStale, FreeStale
<1>2. ip \in [Addresses -> Rows]
  BY DEF FixedIpsTypeOK
<1>3. SUFFICES ASSUME NEW p \in Owners, NEW a \in Addresses,
                      Uses(p, a), p \notin wronged'
               PROVE  ip'[a].inst = p /\ ip'[a].allocated
  BY <1>1 DEF UserHasRow, Uses
<1>4. p \notin wronged => ip[a].inst = p /\ ip[a].allocated
  BY <1>3 DEF UserHasRow
<1>5. CASE UNCHANGED <<ip, wronged>>
  BY <1>3, <1>4, <1>5
<1>6. ASSUME NEW h \in handlers, Handles(h)
      PROVE  ip'[a].inst = p /\ ip'[a].allocated
  <2>1. h.cast.row \in Addresses
    BY DEF FixedIpsTypeOK, Casts
  <2>2. CASE Leased(h) \/ Released(h)
    <3>1. wronged' = wronged /\ \E l \in BOOLEAN :
              ip' = ip \/ ip' = [ip EXCEPT ![h.cast.row].leased = l]
      BY <2>2 DEF Leased, Released
    <3>2. \A l \in BOOLEAN : LET r == [ip[h.cast.row] EXCEPT !.leased = l]
              IN r.inst = ip[h.cast.row].inst /\ r.allocated = ip[h.cast.row].allocated
      BY <1>2, <2>1 DEF Rows
    <3> QED
      BY <1>2, <1>3, <1>4, <2>1, <3>1, <3>2
  <2>3. CASE ReleaseDisassociates(h) /\ h.cast.mac \notin vifs \ {h.copy.inst}
    <3>1. /\ ip' = Disassociated(h.cast.row)
          /\ Overtaken(h.cast.row, h.copy.inst, h.copy.allocated)
          /\ h.copy.allocated \in BOOLEAN /\ ~h.copy.allocated
      BY <2>3 DEF ReleaseDisassociates, LetGoBefore, FixedIpsTypeOK, Rows
    <3>2. /\ p \notin wronged
          /\ ip[h.cast.row].inst = p => ~ip[h.cast.row].allocated
      BY <1>3, <2>1, <3>1, OvertakenWronged
    <3> QED
      BY <1>4, <2>1, <3>1, <3>2, RowFreed
  <2> QED
    BY <1>5, <1>6, <2>2, <2>3 DEF Handles, ReleaseDisassociates
<1>7. CASE FreeStale
  <2>1. CASE a \in expired
    <3>1. ip[a].inst = p /\ ip[a].allocated => p \in wronged'
      BY <1>7, <2>1, FixedIpAssumption DEF FreeStale, FixedIpsTypeOK
    <3> QED
      BY <1>3, <1>4, <1>7, <3>1 DEF FreeStale
  <2>2. CASE a \notin expired
    BY <1>3, <1>4, <1>7, <2>2 DEF FreeStale
  <2> QED
    BY <2>1, <2>2
<1> QED
  BY <1>5, <1>6, <1>7
  DEF GuestLeases, LeaseEnds, ServeCast, LoseCast, TimesOut, ListStale

LEMMA LetGoStays ==
    ASSUME FixedIpsInv, FixedIpsNext
    PROVE  LetGoBefore'
<1> USE DEF FixedIpsInv
<1>1. ASSUME NEW m \in leaseCasts, ServeCast(m) PROVE LetGoBefore'
  BY <1>1 DEF ServeCast, LetGoBefore
<1>2. ASSUME NEW h \in handlers, Handles(h) PROVE LetGoBefore'
  <2>1. [h EXCEPT !.pc = "saved"].copy = h.copy
    BY DEF FixedIpsTypeOK
  <2> QED
    BY <1>2, <2>1 DEF Handles, Leased, Released, ReleaseDisassociates, LetGoBefore
<1>3. CASE handlers' = handlers
  BY <1>3 DEF LetGoBefore
<1> QED
  BY <1>1, <1>2, <1>3
  DEF FixedIpsNext, Asks, Allocates, Deallocates, AddVif, FromPool, PickAddress,
      TakePicked, AllocateEnds, NoMoreFixedIps, AllocateFails, DeallocateBegins,
      RemoveFixedIp, CopyRow, LetGo, ReadAgain, DisassociateIdle, RemoveEnds,
      DeallocateEnds, DeallocateFails, GuestLeases, LeaseEnds, LoseCast, TimesOut,
      ListStale, FreeStale, dhcp

LEMMA FixedIpsStep ==
    FixedIpsInv /\ [FixedIpsNext]_fixedips => FixedIpsInv'
<1> SUFFICES ASSUME FixedIpsInv, [FixedIpsNext]_fixedips PROVE FixedIpsInv'
  OBVIOUS
<1> USE DEF FixedIpsInv
<1>1. CASE UNCHANGED fixedips
  BY <1>1 DEF fixedips, FixedIpsTypeOK, ToldWhenUp, RowChosen, UserHasRow, Uses,
      LetGoBefore
<1>2. ASSUME NEW o \in Owners, TakesNone(o) \/ FromPool(o) \/ TakePicked(o)
      PROVE  FixedIpsTypeOK' /\ ToldWhenUp' /\ RowChosen' /\ UserHasRow'
  BY <1>2, NicTaken, NicTakesNone, RequestTypes, ToldStays, RequestsKeepRows
<1>3. ASSUME \/ \E o \in Owners : GuestLeases(o)
             \/ \E a \in Addresses : LeaseEnds(a)
             \/ \E m \in leaseCasts : ServeCast(m) \/ LoseCast(m)
             \/ \E h \in handlers : Handles(h)
             \/ TimesOut
      PROVE  FixedIpsTypeOK' /\ ToldWhenUp' /\ RowChosen' /\ UserHasRow'
  <2>1. FixedIpsTypeOK' /\ UserHasRow' /\ UNCHANGED <<nic, told>>
    BY <1>3, HandlerTypes, HandlersKeepRows
  <2> QED
    BY <2>1 DEF ToldWhenUp, RowChosen
<1>4. CASE FixedIpsNext
  <2>1. \/ \E o \in Owners : TakesNone(o) \/ FromPool(o) \/ TakePicked(o)
        \/ \E o \in Owners : GuestLeases(o)
        \/ \E a \in Addresses : LeaseEnds(a)
        \/ \E m \in leaseCasts : ServeCast(m) \/ LoseCast(m)
        \/ \E h \in handlers : Handles(h)
        \/ TimesOut
    BY <1>4 DEF FixedIpsNext, Allocates, Deallocates, TakesNone, Quiet
  <2> QED
    BY <1>2, <1>3, <1>4, <2>1, LetGoStays
<1> QED
  BY <1>1, <1>4

\* Allocation, release, lease messages and the time-out keep the invariant: an
\* address in use has a row that says whose it is, and a handler lets go of what
\* it read only if its copy was let go.
THEOREM FixedIpsInvariant == FixedIpsSpec => []FixedIpsInv
BY FixedIpsInitially, FixedIpsStep, PTL DEF FixedIpsSpec

\* Nobody who was told of an address loses its row to the pool, to messages about
\* earlier leases or to the time-out, unless counted as wronged.
THEOREM HoldersKeepRows == FixedIpsSpec => []HolderHasRow
<1>1. FixedIpsInv => HolderHasRow
  BY DEF FixedIpsInv, FixedIpsTypeOK, UserHasRow, Uses, HolderHasRow
<1> QED
  BY <1>1, FixedIpsInvariant, PTL

\* So no two instances that were not wronged use one address.
THEOREM AddressesApart ==
    FixedIpsSpec =>
        [](\A o, p \in Owners :
               (o # p /\ told[o] # NoAddress /\ {o, p} \cap wronged = {})
                   => told[o] # told[p])
<1>1. ASSUME HolderHasRow
      PROVE  \A o, p \in Owners :
                 (o # p /\ told[o] # NoAddress /\ {o, p} \cap wronged = {})
                     => told[o] # told[p]
  BY <1>1 DEF HolderHasRow
<1> QED
  BY <1>1, HoldersKeepRows, PTL
-----------------------------------------------------------------------------
(* The parts beside each other.                                            *)

PartsInv == EvacuationInv /\ GroupInv /\ EventsInv /\ DiscoveryInv /\ FixedIpsInv

LEMMA PartsInitially == PartsInit => PartsInv
BY EvacuationInitially, GroupInitially, EventsInitially, DiscoveryInitially,
   FixedIpsInitially
DEF PartsInit, PartsInv

LEMMA PartsStep == PartsInv /\ [PartsNext]_parts => PartsInv'
<1> SUFFICES ASSUME PartsInv, [PartsNext]_parts PROVE PartsInv'
  OBVIOUS
<1>1. EvacuationInv'
  BY EvacuationStep DEF PartsInv, PartsNext, parts
<1>2. GroupInv'
  BY GroupStep DEF PartsInv, PartsNext, parts
<1>3. EventsInv'
  BY EventsStep DEF PartsInv, PartsNext, parts
<1>4. DiscoveryInv'
  BY DiscoveryStep DEF PartsInv, PartsNext, parts
<1>5. FixedIpsInv'
  BY FixedIpsStep DEF PartsInv, PartsNext, parts
<1> QED
  BY <1>1, <1>2, <1>3, <1>4, <1>5 DEF PartsInv

\* The state of each part is of its type in every behaviour of any of them.
THEOREM PartsTyped == PartsSpec => []PartsTypeOK
<1>1. PartsInv => PartsTypeOK
  BY DEF PartsInv, PartsTypeOK, EvacuationInv, GroupInv, EventsInv, DiscoveryInv,
     FixedIpsInv
<1> QED
  BY <1>1, PartsInitially, PartsStep, PTL DEF PartsSpec
=============================================================================
