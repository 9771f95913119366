------------------------------ MODULE Discovery ------------------------------
(***************************************************************************)
(* Guests and instances of one hypervisor are kept the same both ways:     *)
(* find_orphaned_vms in nova/compute/manager.py reports guests it does not *)
(* know of, which instance_register of nova/compute/api.py gives a row (or *)
(* their row back), and _remove_instances_not_on_driver puts in ERROR the  *)
(* instances whose guest is gone.  Both tell the conductor by cast, both   *)
(* keep the cache _known_vms of what was reported, and meanwhile guests    *)
(* are made and removed, by the service or behind its back.                *)
(*                                                                         *)
(* A guest keeps its name, is no template and does not move; instances are *)
(* old enough to be missed (launched_at, ten minutes).                     *)
(***************************************************************************)
EXTENDS Integers

CONSTANTS
    Guests,         \* uuids
    MaxChanges      \* bound: guests made and removed, boots, deletes,
                    \* restarts of the service and failures together

ASSUME DiscoveryAssumption == MaxChanges \in Nat

VARIABLES
    present,   \* the guests the hypervisor has
    record,    \* the instances table: state and task of each uuid's row
    cache,     \* _known_vms: not there, there, or there with name_on_host
    seek,      \* find_orphaned_vms: guests still to look at, found, its step
    purge,     \* _remove_instances_not_on_driver: its lists, its step
    mail,      \* casts to the conductor
    forgotten, \* guests in the cache whose report was lost: to state what is
               \* and is not promised of them
    changes    \* counts what MaxChanges bounds

discovery == <<present, record, cache, seek, purge, mail, forgotten, changes>>

Idle == [pc |-> "idle", todo |-> {}, found |-> {}]
NoPurge == [pc |-> "idle", rows |-> {}, gone |-> {}, keys |-> {}]
NoRecord == [vm |-> "none", task |-> "none"]

DiscoveryInit ==
    /\ present = {} /\ record = [g \in Guests |-> NoRecord]
    /\ cache = [g \in Guests |-> "none"]
    /\ seek = Idle /\ purge = NoPurge
    /\ mail = {} /\ forgotten = {} /\ changes = 0

Change == changes < MaxChanges /\ changes' = changes + 1
-----------------------------------------------------------------------------
(* Guests come and go.                                                     *)

\* Behind the service's back.
Appear(g) ==
    /\ Change /\ g \notin present /\ record[g].vm # "deleted"
    /\ present' = present \cup {g}
    /\ UNCHANGED <<record, cache, seek, purge, mail, forgotten>>
Vanish(g) ==
    /\ Change /\ g \in present /\ record[g].task = "none"
    /\ present' = present \ {g}
    /\ UNCHANGED <<record, cache, seek, purge, mail, forgotten>>

\* A boot puts its guest in the cache before it makes it.
BootGuest(g) ==
    /\ Change /\ record[g].vm = "none" /\ g \notin present /\ cache[g] = "none"
    /\ record' = [record EXCEPT ![g] = [vm |-> "building", task |-> "spawning"]]
    /\ cache' = [cache EXCEPT ![g] = "unnamed"]
    /\ UNCHANGED <<present, seek, purge, mail, forgotten>>
SpawnGuest(g) ==
    /\ record[g].task = "spawning" /\ g \notin present
    /\ present' = present \cup {g}
    /\ UNCHANGED <<record, cache, seek, purge, mail, forgotten, changes>>
BootEnds(g) ==
    /\ record[g].task = "spawning" /\ g \in present
    /\ record' = [record EXCEPT ![g] = [vm |-> "active", task |-> "none"]]
    /\ UNCHANGED <<present, cache, seek, purge, mail, forgotten, changes>>

\* A delete destroys the guest, then the row; the cache is left alone.
DeleteGuest(g) ==
    /\ Change /\ record[g].vm \in {"active", "error"} /\ record[g].task = "none"
    /\ record' = [record EXCEPT ![g].task = "deleting"]
    /\ UNCHANGED <<present, cache, seek, purge, mail, forgotten>>
DestroyDomain(g) ==
    /\ record[g].task = "deleting" /\ g \in present
    /\ present' = present \ {g}
    /\ UNCHANGED <<record, cache, seek, purge, mail, forgotten, changes>>
DeleteEnds(g) ==
    /\ record[g].task = "deleting" /\ g \notin present
    /\ record' = [record EXCEPT ![g] = [vm |-> "deleted", task |-> "none"]]
    /\ UNCHANGED <<present, cache, seek, purge, mail, forgotten, changes>>
-----------------------------------------------------------------------------
(* find_orphaned_vms                                                       *)

SeekBegin ==
    /\ seek.pc = "idle"
    /\ seek' = [pc |-> "looking", todo |-> present, found |-> {}]
    /\ UNCHANGED <<present, record, cache, purge, mail, forgotten, changes>>

\* Each is looked up: one that is not in the cache by its name is reported.
\* Mutant of Look: the cache takes it, the report does not.
LookAndDrop(g) ==
    /\ seek.pc = "looking" /\ g \in seek.todo /\ g \in present
    /\ cache' = [cache EXCEPT ![g] = "named"]
    /\ seek' = [seek EXCEPT !.todo = @ \ {g}]
    /\ UNCHANGED <<present, record, purge, mail, forgotten, changes>>
\* Mutant of Look: only what is in the cache is reported.
LookKnown(g) ==
    /\ seek.pc = "looking" /\ g \in seek.todo /\ g \in present
    /\ cache' = [cache EXCEPT ![g] = IF @ = "none" THEN @ ELSE "named"]
    /\ seek' = [seek EXCEPT !.todo = @ \ {g},
                            !.found = IF cache[g] = "unnamed" THEN @ \cup {g} ELSE @]
    /\ UNCHANGED <<present, record, purge, mail, forgotten, changes>>
Look(g) ==
    /\ seek.pc = "looking" /\ g \in seek.todo /\ g \in present
    /\ cache' = [cache EXCEPT ![g] = "named"]
    /\ seek' = [seek EXCEPT !.todo = @ \ {g},
                            !.found = IF cache[g] = "named" THEN @ ELSE @ \cup {g}]
    /\ UNCHANGED <<present, record, purge, mail, forgotten, changes>>

\* The lookup of a guest that is gone by now raises, and ends the pass: what
\* was found stays in the cache, for _clean_known_vm_cache only lists it.
LookFails(g) ==
    /\ seek.pc = "looking" /\ g \in seek.todo \ present
    /\ seek' = Idle /\ forgotten' = forgotten \cup seek.found
    /\ UNCHANGED <<present, record, cache, purge, mail, changes>>

Report ==
    /\ seek.pc = "looking" /\ seek.todo = {}
    /\ mail' = IF seek.found = {} THEN mail
               ELSE mail \cup {[kind |-> "register", of |-> seek.found]}
    /\ seek' = Idle
    /\ UNCHANGED <<present, record, cache, purge, forgotten, changes>>
ReportFails ==
    /\ seek.pc = "looking" /\ seek.todo = {} /\ seek.found # {} /\ Change
    /\ seek' = Idle /\ forgotten' = forgotten \cup seek.found
    /\ UNCHANGED <<present, record, cache, purge, mail>>
-----------------------------------------------------------------------------
(* instance_register, in the conductor: one guest of a message at a time.  *)

\* What is left of a message.
Rest(m, g) == (mail \ {m})
    \cup (IF m.of = {g} THEN {} ELSE {[m EXCEPT !.of = @ \ {g}]})

\* A row is made; one in ERROR because its guest was missing is active again;
\* a deleted one is restored.
Register(m, g) ==
    /\ m \in mail /\ m.kind = "register" /\ g \in m.of
    /\ record' = [record EXCEPT ![g] =
           IF @.vm \in {"none", "deleted"} THEN [vm |-> "active", task |-> "none"]
           ELSE IF @.vm = "error" THEN [@ EXCEPT !.vm = "active"] ELSE @]
    /\ forgotten' = forgotten \ {g}
    /\ mail' = Rest(m, g)
    /\ UNCHANGED <<present, cache, seek, purge, changes>>

\* A new guest that cannot be registered is skipped; a deleted one whose quota
\* cannot be had takes the rest of the message with it.
RegisterFails(m, g) ==
    /\ m \in mail /\ m.kind = "register" /\ g \in m.of
    /\ \/ /\ record[g].vm = "none"
          /\ mail' = Rest(m, g) /\ forgotten' = forgotten \cup {g}
       \/ /\ record[g].vm = "deleted"
          /\ mail' = mail \ {m} /\ forgotten' = forgotten \cup m.of
    /\ UNCHANGED <<present, record, cache, seek, purge, changes>>

\* instance_not_found
NotFound(m, g) ==
    /\ m \in mail /\ m.kind = "not_found" /\ g \in m.of
    /\ record' = [record EXCEPT ![g].vm = IF @ \in {"none", "deleted"} THEN @
                                          ELSE "error"]
    /\ mail' = Rest(m, g)
    /\ UNCHANGED <<present, cache, seek, purge, forgotten, changes>>
-----------------------------------------------------------------------------
(* _remove_instances_not_on_driver                                         *)

\* The rows first, then the hypervisor, then the cache.
PurgeRead ==
    /\ purge.pc = "idle"
    /\ purge' = [NoPurge EXCEPT !.pc = "read", !.rows =
           {g \in Guests : record[g] = [vm |-> "active", task |-> "none"]}]
    /\ UNCHANGED <<present, record, cache, seek, mail, forgotten, changes>>
\* Mutant of PurgeAsk: only what is in the cache is missed.
PurgeAskCached ==
    /\ purge.pc = "read"
    /\ purge' = [purge EXCEPT !.pc = "asked", !.keys = Guests \ present,
           !.gone = {g \in purge.rows \ present : cache[g] # "none"}]
    /\ UNCHANGED <<present, record, cache, seek, mail, forgotten, changes>>
PurgeAsk ==
    /\ purge.pc = "read"
    /\ purge' = [purge EXCEPT !.pc = "asked", !.keys = Guests \ present,
                             !.gone = purge.rows \ present]
    /\ UNCHANGED <<present, record, cache, seek, mail, forgotten, changes>>

\* The mutex of the cache, which a pass of the discovery holds while it looks.
MutexFree == seek.todo = {}
PurgeList ==
    /\ purge.pc = "asked" /\ MutexFree
    /\ purge' = [purge EXCEPT !.pc = "listed",
                             !.keys = {g \in @ : cache[g] # "none"}]
    /\ UNCHANGED <<present, record, cache, seek, mail, forgotten, changes>>
PurgeTell ==
    /\ purge.pc = "listed"
    /\ mail' = IF purge.gone = {} THEN mail
               ELSE mail \cup {[kind |-> "not_found", of |-> purge.gone]}
    /\ purge' = [purge EXCEPT !.pc = "told"]
    /\ UNCHANGED <<present, record, cache, seek, forgotten, changes>>
PurgeCache ==
    /\ purge.pc = "told" /\ MutexFree
    /\ cache' = [g \in Guests |-> IF g \in purge.keys THEN "none" ELSE cache[g]]
    /\ forgotten' = forgotten \ purge.keys
    /\ purge' = NoPurge
    /\ UNCHANGED <<present, record, seek, mail, changes>>
-----------------------------------------------------------------------------
\* The service restarts: its cache is empty, what it was doing is lost.
CacheLost ==
    /\ Change /\ \A g \in Guests : record[g].task = "none"
    /\ cache' = [g \in Guests |-> "none"] /\ forgotten' = {}
    /\ seek' = Idle /\ purge' = NoPurge
    /\ UNCHANGED <<present, record, mail>>

Seeks == SeekBegin \/ (\E g \in Guests : Look(g) \/ LookFails(g)) \/ Report
Purges == PurgeRead \/ PurgeAsk \/ PurgeList \/ PurgeTell \/ PurgeCache
Goes(g) == SpawnGuest(g) \/ BootEnds(g) \/ DestroyDomain(g) \/ DeleteEnds(g)
Conducts == \E m \in mail : \E g \in m.of : Register(m, g) \/ NotFound(m, g)

DiscoveryNext ==
    \/ \E g \in Guests :
          Appear(g) \/ Vanish(g) \/ BootGuest(g) \/ DeleteGuest(g) \/ Goes(g)
    \/ Seeks \/ ReportFails \/ Purges \/ CacheLost
    \/ Conducts
    \/ \E m \in mail : \E g \in m.of : RegisterFails(m, g)

\* Periodic tasks come back, messages are taken, boots and deletes go on.
\* The mutex is an eventlet semaphore, its waiters woken in turn.
DiscoverySpec ==
    /\ DiscoveryInit /\ [][DiscoveryNext]_discovery
    /\ WF_discovery(Seeks) /\ SF_discovery(Purges) /\ WF_discovery(Conducts)
    /\ \A g \in Guests : WF_discovery(Goes(g))
-----------------------------------------------------------------------------
Messages == [kind : {"register", "not_found"}, of : SUBSET Guests]
Records == [vm : {"none", "building", "active", "error", "deleted"},
         task : {"none", "spawning", "deleting"}]
Seekings == [pc : {"idle", "looking"}, todo : SUBSET Guests, found : SUBSET Guests]
Purgings == [pc : {"idle", "read", "asked", "listed", "told"}, rows : SUBSET Guests,
             gone : SUBSET Guests, keys : SUBSET Guests]
DiscoveryTypeOK ==
    /\ present \subseteq Guests /\ forgotten \subseteq Guests
    /\ record \in [Guests -> Records]
    /\ cache \in [Guests -> {"none", "unnamed", "named"}]
    /\ seek \in Seekings /\ purge \in Purgings
    /\ mail \subseteq Messages /\ changes \in 0..MaxChanges

\* A guest without a row that the cache takes for reported is about to be: in
\* the pass that found it or in a message; unless the report was lost.
OnItsWay == seek.found \cup forgotten
            \cup UNION {m.of : m \in {n \in mail : n.kind = "register"}}
CachedIsReported ==
    \A g \in Guests :
        (cache[g] = "named" /\ record[g].vm = "none") => g \in OnItsWay

\* A guest that was made behind the service's back and has no row, its report not
\* lost; an instance that is active without its guest.
Disagree(g) ==
    \/ g \in present /\ record[g].vm = "none" /\ g \notin forgotten
    \/ record[g].vm = "active" /\ g \notin present

\* The rows come to follow the guests, all of them: after guests made and removed
\* behind the service's back, boots, and deletes that crossed with a report and
\* were undone, whatever purges, restarts and messages do meanwhile.
RowsFollowGuests ==
    (\E g \in Guests : Disagree(g)) ~> (\A g \in Guests : ~Disagree(g))
=============================================================================
