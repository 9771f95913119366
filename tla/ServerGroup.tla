----------------------------- MODULE ServerGroup -----------------------------
(***************************************************************************)
(* The policy of a server group while its members are built:               *)
(* nova/conductor/manager.py build_instances reads which hosts the group   *)
(* uses, the scheduler chooses by that reading (ServerGroupAffinityFilter, *)
(* ServerGroupAntiAffinityFilter), and as any number of requests do so at  *)
(* once the compute manager looks again, after the claim has put the host  *)
(* in the row (_validate_instance_group_policy).  Whoever fails there is   *)
(* scheduled again, scheduler_max_attempts times.                          *)
(*                                                                         *)
(* The lock taken for the second look is local to a host and guards only   *)
(* reads; nothing is left out with it.                                     *)
(***************************************************************************)
EXTENDS Integers, FiniteSets

CONSTANTS
    GroupHosts,     \* the compute hosts
    Boots,          \* the requests: each a set of members asked for together
    Policy,         \* "affinity" or "anti-affinity"
    MaxAttempts,    \* scheduler_max_attempts
    NoHost,
    GroupMishaps    \* bound: builds that raise, deletes and restarts together

Members == UNION Boots

ASSUME GroupAssumption ==
    /\ Policy \in {"affinity", "anti-affinity"}
    /\ MaxAttempts \in Nat \ {0} /\ GroupMishaps \in Nat
    /\ NoHost \notin GroupHosts

VARIABLES
    build,     \* each member: where its build is
    host,      \* the host of its row
    dest,      \* the host it was cast to
    seen,      \* filter_properties: the group's hosts, as they were read
    tried,     \* and the hosts of earlier attempts
    attempts,  \* and how many there were
    unlucky    \* counts what GroupMishaps bounds

group == <<build, host, dest, seen, tried, attempts, unlucky>>
GroupMishap == unlucky < GroupMishaps /\ unlucky' = unlucky + 1

OnHost == {"claimed", "valid"}

GroupInit ==
    /\ build = [i \in Members |-> "new"]
    /\ host = [i \in Members |-> NoHost] /\ dest = [i \in Members |-> NoHost]
    /\ seen = [i \in Members |-> {}] /\ tried = [i \in Members |-> {}]
    /\ attempts = [i \in Members |-> 0] /\ unlucky = 0

\* InstanceGroup.get_hosts: of the rows of the group that are not deleted.
HostsOf(members) ==
    {host[i] : i \in {m \in members : build[m] # "deleted"}} \ {NoHost}

\* A request in the conductor: all members of a boot, or one rescheduled.
Alone(i) == tried[i] # {}
Live(R) == {i \in R : build[i] # "deleted"}
\* Mutant of Waits: an instance deleted meanwhile ends the request of them all.
WaitsAll(R, step) ==
    /\ \A i \in R : build[i] = step
    /\ IF R \in Boots THEN \A i \in R : ~Alone(i) \/ R = {i}
                     ELSE \A i \in R : Alone(i)
Waits(R, step) ==
    /\ Live(R) # {} /\ \A i \in Live(R) : build[i] = step
    /\ IF R \in Boots THEN \A i \in R : ~Alone(i) \/ R = {i}
                     ELSE \A i \in R : Alone(i)
Requests == Boots \cup {{i} : i \in Members}
Put(R, step) ==
    build' = [i \in Members |-> IF i \in Live(R) THEN step ELSE build[i]]
\* The request fails: its rows are put in ERROR one after the other, until the
\* row of a deleted member raises InstanceNotFound out of the loop; the members
\* after that one are forsaken, BUILDING with nobody at work on them.
Fails(R) ==
    \E saved \in SUBSET Live(R) :
        /\ Live(R) = R => saved = R
        /\ build' = [i \in Members |-> IF i \in saved THEN "error"
                         ELSE IF i \in Live(R) THEN "forsaken" ELSE build[i]]
-----------------------------------------------------------------------------
\* The rows of a request are made.
AskFor(R) ==
    /\ \A i \in R : build[i] = "new"
    /\ Put(R, "asked")
    /\ UNCHANGED <<host, dest, seen, tried, attempts, unlucky>>

\* setup_instance_group adds what is used now to what an earlier attempt had
\* read; populate_retry counts.
Setup(R) ==
    /\ Waits(R, "asked")
    /\ IF \E i \in R : attempts[i] >= MaxAttempts
       THEN Fails(R) /\ UNCHANGED <<seen, attempts>>
       ELSE /\ Put(R, "read")
            /\ seen' = [i \in Members |->
                   IF i \in R THEN seen[i] \cup HostsOf(Members) ELSE seen[i]]
            /\ attempts' = [i \in Members |->
                   IF i \in R THEN attempts[i] + 1 ELSE attempts[i]]
    /\ UNCHANGED <<host, dest, tried, unlucky>>

\* What _schedule may choose for a request: each host passes the retry filter
\* and the group's, to which the hosts already chosen are added.
Choices(R) ==
    {f \in [R -> GroupHosts] :
        \A i \in R :
            /\ f[i] \notin tried[i]
            /\ Policy = "anti-affinity" =>
                  f[i] \notin seen[i] /\ \A j \in R \ {i} : f[i] # f[j]
            /\ Policy = "affinity" =>
                  IF seen[i] = {} THEN \A j \in R : f[i] = f[j]
                                  ELSE f[i] \in seen[i]}

\* The scheduler chooses, and the conductor casts.
Schedule(R) ==
    /\ Waits(R, "read")
    /\ \E f \in Choices(R) :
          dest' = [i \in Members |-> IF i \in R THEN f[i] ELSE dest[i]]
    /\ Put(R, "cast")
    /\ UNCHANGED <<host, seen, tried, attempts, unlucky>>
\* Too few pass, the other filters considered: the whole request fails.
NoValidHost(R) ==
    /\ Waits(R, "read")
    /\ Fails(R)
    /\ UNCHANGED <<host, dest, seen, tried, attempts, unlucky>>
-----------------------------------------------------------------------------
\* instance_claim saves the host.
Claim(i) ==
    /\ build[i] = "cast"
    /\ host' = [host EXCEPT ![i] = dest[i]]
    /\ build' = [build EXCEPT ![i] = "claimed"]
    /\ UNCHANGED <<dest, seen, tried, attempts, unlucky>>

\* The end of a build that raised: with retry information the instance goes
\* back to the conductor, without its host; else to ERROR.
Reschedule(i) ==
    /\ host' = [host EXCEPT ![i] = NoHost]
    /\ IF MaxAttempts = 1
       THEN build' = [build EXCEPT ![i] = "error"] /\ UNCHANGED tried
       ELSE /\ build' = [build EXCEPT ![i] = "asked"]
            /\ tried' = [tried EXCEPT ![i] = @ \cup {dest[i]}]
    /\ UNCHANGED <<dest, seen, attempts>>

\* The claim is refused, or anything after it raises.
BuildRaises(i) ==
    /\ GroupMishap /\ build[i] \in {"cast"} \cup OnHost
    /\ Reschedule(i)
BuildAborts(i) ==
    /\ GroupMishap
    /\ build[i] \in OnHost
    /\ host' = [host EXCEPT ![i] = NoHost]
    /\ build' = [build EXCEPT ![i] = "error"]
    /\ UNCHANGED <<dest, seen, tried, attempts>>

\* _validate_instance_group_policy
Violates(i) ==
    LET others == HostsOf(Members \ {i})
    IN IF Policy = "anti-affinity" THEN dest[i] \in others
       ELSE others # {} /\ dest[i] \notin others
\* Mutant of Validate: only members that are built are looked at.
ValidateActive(i) ==
    /\ build[i] = "claimed"
    /\ IF dest[i] \in {host[j] : j \in {m \in Members : build[m] = "active"}}
       THEN Reschedule(i)
       ELSE /\ build' = [build EXCEPT ![i] = "valid"]
            /\ UNCHANGED <<host, dest, seen, tried, attempts>>
    /\ UNCHANGED unlucky
Validate(i) ==
    /\ build[i] = "claimed"
    /\ IF Violates(i)
       THEN Reschedule(i)
       ELSE /\ build' = [build EXCEPT ![i] = "valid"]
            /\ UNCHANGED <<host, dest, seen, tried, attempts>>
    /\ UNCHANGED unlucky
Spawn(i) ==
    /\ build[i] = "valid"
    /\ build' = [build EXCEPT ![i] = "active"]
    /\ UNCHANGED <<host, dest, seen, tried, attempts, unlucky>>

\* A service restarts: what it was building is in ERROR, with its host.
ServiceRestarts(h) ==
    /\ GroupMishap
    /\ \E i \in Members : build[i] \in OnHost /\ host[i] = h
    /\ build' = [i \in Members |->
           IF build[i] \in OnHost /\ host[i] = h THEN "error" ELSE build[i]]
    /\ UNCHANGED <<host, dest, seen, tried, attempts>>

\* A delete, at whichever step the build is.
GroupDelete(i) ==
    /\ GroupMishap
    /\ build[i] \notin {"new", "deleted"}
    /\ build' = [build EXCEPT ![i] = "deleted"]
    /\ UNCHANGED <<host, dest, seen, tried, attempts>>

Schedules(R) == Setup(R) \/ Schedule(R) \/ NoValidHost(R)
Builds(i) == Claim(i) \/ BuildRaises(i) \/ BuildAborts(i) \/ Validate(i) \/ Spawn(i)

GroupNext ==
    \/ \E R \in Boots : AskFor(R)
    \/ \E R \in Requests : Schedules(R)
    \/ \E i \in Members : Builds(i) \/ GroupDelete(i)
    \/ \E h \in GroupHosts : ServiceRestarts(h)

GroupSpec ==
    /\ GroupInit /\ [][GroupNext]_group
    /\ \A R \in Requests : WF_group(Schedules(R))
    /\ \A i \in Members : WF_group(Builds(i))
-----------------------------------------------------------------------------
GroupTypeOK ==
    /\ build \in [Members -> {"new", "asked", "read", "cast", "claimed", "valid",
                              "active", "error", "forsaken", "deleted"}]
    /\ host \in [Members -> GroupHosts \cup {NoHost}]
    /\ dest \in [Members -> GroupHosts \cup {NoHost}]
    /\ seen \in [Members -> SUBSET GroupHosts]
    /\ tried \in [Members -> SUBSET GroupHosts]
    /\ attempts \in [Members -> 0..MaxAttempts]

\* However many requests for members of an anti-affinity group are scheduled
\* by the same reading, no two members run on one host: each has put its host
\* in its row before it looks at the others'.
AntiAffine ==
    Policy = "anti-affinity" =>
        \A i, j \in Members :
            (i # j /\ build[i] = "active" /\ build[j] = "active")
                => host[i] # host[j]

\* Two members that keep refusing each other's host do so only so often: every
\* build comes to an end, and is active, in error or deleted.  Only members of
\* a boot that failed as a whole after another member of it had been deleted
\* may stay BUILDING, and a member that was scheduled again never does.
Forsaken(i) ==
    /\ build[i] = "forsaken" /\ ~Alone(i)
    /\ \E R \in Boots : i \in R /\ \E j \in R : build[j] = "deleted"
BuildsEnd ==
    (\E i \in Members : build[i] = "asked")
        ~> (\A i \in Members :
               build[i] \in {"new", "active", "error", "deleted"} \/ Forsaken(i))

=============================================================================
