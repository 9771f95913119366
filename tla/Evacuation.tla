----------------------------- MODULE Evacuation -----------------------------
(***************************************************************************)
(* Evacuation: an instance of a host whose service is down is rebuilt on   *)
(* another.  nova/compute/api.py evacuate leaves a migration record in     *)
(* status 'accepted' as a tombstone for the source; rebuild_instance in    *)
(* nova/compute/manager.py works at the destination; when the source comes *)
(* back its init_host destroys the guests it finds a tombstone for.        *)
(* One evacuation of one instance, any number of starts of the source.     *)
(***************************************************************************)
EXTENDS Integers, FiniteSets

CONSTANTS
    Source, Dest,     \* the host that fails and the one evacuated to
    EvacMishaps       \* bound: failures at the destination, late heartbeats
                      \* and stops of the source after the first

ASSUME EvacuationAssumption == Source # Dest /\ EvacMishaps \in Nat

VARIABLES
    server,      \* the instances row: host, vm state, task state
    domain,      \* whether each hypervisor runs a guest of the instance
    files,       \* whether each host finds the instance's files
    onShared,    \* whether they are the same files
    tombstone,   \* status of the migration record
    rebuild,     \* the destination's handler: its step, and whether it claims
    returning,   \* the source's init_host: its step, and its copy of the row
    up,          \* whether the service of each host takes messages
    troubles     \* counts what is bounded

evacuation == <<server, domain, files, onShared, tombstone, rebuild, returning,
                up, troubles>>

EvacHosts == {Source, Dest}
RebuildTasks == {"rebuilding", "rebuild_block_device_mapping",
                 "rebuild_spawning"}
\* What the source destroys the guest of: its record says 'accepted'.
Tombstones == {"accepted"}

Trouble == troubles < EvacMishaps /\ troubles' = troubles + 1

EvacuationInit ==
    /\ server = [host |-> Source, vm |-> "active", task |-> "none"]
    /\ domain = [h \in EvacHosts |-> h = Source]
    /\ onShared \in BOOLEAN
    /\ files = [h \in EvacHosts |-> h = Source \/ onShared]
    /\ tombstone = "none"
    /\ rebuild = [pc |-> "idle", claims |-> FALSE]
    /\ returning = [pc |-> "idle", host |-> Source, vm |-> "none", task |-> "none"]
    /\ up = [h \in EvacHosts |-> TRUE]
    /\ troubles = 0

\* The service of the source stops, alone or with its host.
SourceFails ==
    /\ up[Source]
    /\ \/ tombstone = "none" /\ UNCHANGED troubles
       \/ Trouble
    /\ up' = [up EXCEPT ![Source] = FALSE]
    /\ domain' \in {domain, [domain EXCEPT ![Source] = FALSE]}
    /\ returning' = [returning EXCEPT !.pc = "idle"]
    /\ UNCHANGED <<server, files, onShared, tombstone, rebuild>>

\* evacuate: the service is down, or late with its heartbeat.  The task state
\* is saved, then the record, then the conductor is called and casts, to a
\* host the user named or the scheduler chose: only then is a claim made.
Evacuate ==
    /\ rebuild.pc = "idle" /\ server.task = "none"
    /\ \/ ~up[Source] /\ UNCHANGED troubles
       \/ Trouble
    /\ server' = [server EXCEPT !.task = "rebuilding"]
    /\ rebuild' = [rebuild EXCEPT !.pc = "accepted"]
    /\ UNCHANGED <<domain, files, onShared, tombstone, returning, up>>
LeaveTombstone ==
    /\ rebuild.pc = "accepted"
    /\ tombstone' = "accepted"
    /\ \E claims \in BOOLEAN : rebuild' = [pc |-> "cast", claims |-> claims]
    /\ UNCHANGED <<server, domain, files, onShared, returning, up, troubles>>
\* Mutant of NoHostFits: the two states change places.
NoHostFitsSwapped ==
    /\ rebuild.pc = "cast" /\ rebuild.claims
    /\ server' = [server EXCEPT !.vm = "none", !.task = server.vm]
    /\ rebuild' = [rebuild EXCEPT !.pc = "done"]
    /\ UNCHANGED <<domain, files, onShared, tombstone, returning, up, troubles>>
NoHostFits ==
    /\ rebuild.pc = "cast" /\ rebuild.claims
    /\ server' = [server EXCEPT !.task = "none"]
    /\ rebuild' = [rebuild EXCEPT !.pc = "done"]
    /\ UNCHANGED <<domain, files, onShared, tombstone, returning, up, troubles>>
-----------------------------------------------------------------------------
(* The destination.                                                        *)

To(pc) == rebuild' = [rebuild EXCEPT !.pc = pc]

\* What ends rebuild_instance when anything in it raises: the record has
\* failed, the instance is in ERROR, its task state cleared.
Fail == /\ tombstone' = "failed" /\ To("done")
        /\ server' = [server EXCEPT !.vm = "error", !.task = "none"]

\* rebuild_claim takes the record over.
RebuildClaim ==
    /\ rebuild.pc = "cast" /\ up[Dest]
    /\ tombstone' = IF rebuild.claims THEN "pre-migrating" ELSE tombstone
    /\ To("claimed")
    /\ UNCHANGED <<server, domain, files, onShared, returning, up, troubles>>

\* A saved task state, each on condition of the one before.
SaveTask(pc, expected, task, next) ==
    /\ rebuild.pc = pc /\ up[Dest]
    /\ IF server.task = expected
       THEN /\ server' = [server EXCEPT !.task = task] /\ To(next)
            /\ UNCHANGED tombstone
       ELSE Fail
    /\ UNCHANGED <<domain, files, onShared, returning, up, troubles>>
Rebuild ==
    \/ SaveTask("claimed", "rebuilding", "rebuilding", "detached")
    \/ SaveTask("detached", "rebuilding", "rebuild_block_device_mapping", "mapped")
    \/ SaveTask("mapped", "rebuild_block_device_mapping", "rebuild_spawning",
                "spawning")
RebuildFails ==
    /\ rebuild.pc \in {"claimed", "detached", "mapped", "spawning"} /\ up[Dest]
    /\ Trouble /\ Fail
    /\ UNCHANGED <<domain, files, onShared, returning, up>>
Respawn ==
    /\ rebuild.pc = "spawning" /\ up[Dest]
    /\ domain' = [domain EXCEPT ![Dest] = TRUE]
    /\ files' = [h \in EvacHosts |-> files[h] \/ h = Dest \/ onShared]
    /\ To("spawned")
    /\ UNCHANGED <<server, onShared, tombstone, returning, up, troubles>>

\* The instance is active again, then it is this host's, then the record is
\* done.
SaveActive ==
    /\ rebuild.pc = "spawned" /\ up[Dest]
    /\ IF server.task = "rebuild_spawning"
       THEN /\ server' = [server EXCEPT !.vm = "active", !.task = "none"]
            /\ To("active") /\ UNCHANGED tombstone
       ELSE Fail
    /\ UNCHANGED <<domain, files, onShared, returning, up, troubles>>
SaveHost ==
    /\ rebuild.pc = "active"
    /\ server' = [server EXCEPT !.host = Dest] /\ To("settled")
    /\ UNCHANGED <<domain, files, onShared, tombstone, returning, up, troubles>>
SaveDone ==
    /\ rebuild.pc = "settled"
    /\ tombstone' = "done" /\ To("done")
    /\ UNCHANGED <<server, domain, files, onShared, returning, up, troubles>>
-----------------------------------------------------------------------------
(* The source comes back: init_host.                                       *)

ListInstances ==
    /\ ~up[Source] /\ returning.pc = "idle"
    /\ returning' = [pc |-> "listed", host |-> server.host, vm |-> server.vm,
                     task |-> server.task]
    /\ UNCHANGED <<server, domain, files, onShared, tombstone, rebuild, up, troubles>>

\* _is_instance_storage_shared asks the host the row names, which may still be
\* this one.  No answer counts as shared.
\* Mutant of SaysShared: no answer counts as not shared.
SaysSharedIfAnswered == (server.host = Source \/ up[Dest]) /\ (server.host = Source \/ onShared)
SaysShared == server.host = Source \/ ~up[Dest] \/ onShared
\* _destroy_evacuated_instances
DestroyEvacuated ==
    /\ returning.pc = "listed"
    /\ returning' = [returning EXCEPT !.pc = "swept"]
    /\ IF domain[Source] /\ tombstone \in Tombstones
       THEN /\ domain' = [domain EXCEPT ![Source] = FALSE]
            /\ files' = IF SaysShared THEN files
                        ELSE [h \in EvacHosts |-> files[h] /\ h # Source /\ ~onShared]
            /\ tombstone' = "completed"
       ELSE UNCHANGED <<domain, files, tombstone>>
    /\ UNCHANGED <<server, onShared, rebuild, up, troubles>>

\* _init_instance looks at the copy, and saves without a condition.
InitEvacuated ==
    /\ returning.pc = "swept"
    /\ server' = IF /\ returning.host = Source /\ returning.vm = "active"
                    /\ returning.task \in RebuildTasks
                 THEN [server EXCEPT !.vm = "error", !.task = "none"]
                 ELSE server
    /\ returning' = [returning EXCEPT !.pc = "idle"]
    /\ up' = [up EXCEPT ![Source] = TRUE]
    /\ UNCHANGED <<domain, files, onShared, tombstone, rebuild, troubles>>
-----------------------------------------------------------------------------
\* The service of the destination stops: the rebuild is lost, the row still
\* names the source.
DestFails ==
    /\ up[Dest] /\ Trouble
    /\ up' = [up EXCEPT ![Dest] = FALSE]
    /\ To(IF rebuild.pc \in {"idle", "accepted", "cast", "done"} THEN rebuild.pc
          ELSE "lost")
    /\ UNCHANGED <<server, domain, files, onShared, tombstone, returning>>
DestReturns ==
    /\ ~up[Dest] /\ up' = [up EXCEPT ![Dest] = TRUE]
    /\ UNCHANGED <<server, domain, files, onShared, tombstone, rebuild, returning,
                   troubles>>

Rebuilding == \/ LeaveTombstone \/ NoHostFits \/ RebuildClaim \/ Rebuild \/ RebuildFails
              \/ Respawn \/ SaveActive \/ SaveHost \/ SaveDone
Returning == ListInstances \/ DestroyEvacuated \/ InitEvacuated
EvacuationNext ==
    \/ SourceFails \/ Evacuate \/ Rebuilding \/ Returning \/ DestFails \/ DestReturns

\* The handler goes on, the source is brought back some day and the
\* destination restarted.
EvacuationSpec ==
    /\ EvacuationInit /\ [][EvacuationNext]_evacuation
    /\ WF_evacuation(Rebuilding) /\ WF_evacuation(Returning)
    /\ WF_evacuation(DestReturns)
-----------------------------------------------------------------------------
EvacServers == [host : EvacHosts, vm : {"active", "error"},
                task : RebuildTasks \cup {"none"}]
Rebuilds == [pc : {"idle", "accepted", "cast", "claimed", "detached", "mapped",
                   "spawning", "spawned", "active", "settled", "done", "lost"},
             claims : BOOLEAN]
Returns == [pc : {"idle", "listed", "swept"}, host : EvacHosts,
            vm : {"none", "active", "error"}, task : RebuildTasks \cup {"none"}]
EvacuationTypeOK ==
    /\ server \in EvacServers /\ rebuild \in Rebuilds /\ returning \in Returns
    /\ domain \in [EvacHosts -> BOOLEAN] /\ files \in [EvacHosts -> BOOLEAN]
    /\ onShared \in BOOLEAN /\ up \in [EvacHosts -> BOOLEAN]
    /\ tombstone \in {"none", "accepted", "pre-migrating", "failed", "done",
                      "completed"}
    /\ troubles \in 0..EvacMishaps

\* An instance that was given to the destination runs there; and the source,
\* which destroys what it has of the instance when it comes back, never takes
\* the files a rebuilt guest runs from, named by the row already or not yet.
EvacuatedRuns ==
    /\ server.host = Dest => domain[Dest]
    /\ domain[Dest] => files[Dest]

\* A rebuild ends with the task state cleared, whatever the source makes of the
\* instance meanwhile: when its own save is refused the failure clears it.
\* Only a stop of the destination leaves an instance REBUILDING.
RebuildEnds ==
    (server.task \in RebuildTasks) ~>
        (server.task \notin RebuildTasks \/ rebuild.pc = "lost")

\* _destroy_evacuated_instances: "Check that the instances reported by the
\* driver are still associated with this host. If they are not, destroy them":
\* once the source is back after the evacuation its guest is gone.
EvacuatedGone ==
    (tombstone = "done" /\ ~up[Source]) ~> ~domain[Source]
=============================================================================
