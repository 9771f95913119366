----------------------------- MODULE PciDevices -----------------------------
(***************************************************************************)
(* PCI devices that are passed through to guests, on one host:             *)
(* PciDevTracker of nova/pci/manager.py, the devices' own states in        *)
(* nova/objects/pci_device.py, the pools of nova/pci/stats.py, and the     *)
(* claims, aborts, deletes, moves and audits of                            *)
(* nova/compute/resource_tracker.py that call them.                        *)
(*                                                                         *)
(* Who has a device is written down three times: in the device, in the     *)
(* dictionaries of claims and of allocations, in the table.  The tracker   *)
(* works on the first two and saves the third when the resources of the    *)
(* node have changed; after a restart the first two are made from it.      *)
(*                                                                         *)
(* The devices are of one pool.  One that is plugged in again is another   *)
(* one.  None is unplugged while it is assigned, as _set_hvdevs expects.   *)
(***************************************************************************)
EXTENDS Integers, FiniteSets

CONSTANTS
    PciDevs,
    PciGuests, NoGuest,
    Wants,         \* how many devices each guest asks for
    Spare,         \* the devices that may be plugged in later
    PciMishaps     \* bound: claims refused, builds that fail, restarts and
                   \* devices unplugged together

ASSUME PciAssumption ==
    /\ NoGuest \notin PciGuests /\ Spare \subseteq PciDevs
    /\ PciMishaps \in Nat
    /\ IsFiniteSet(PciDevs)

VARIABLES
    step,       \* each guest: where its build, its move or its delete stands
    uses,       \* the devices each guest has, from its claim on
    plugged,    \* the devices the hypervisor lists
    pci,        \* the tracker: its devices, its pool, claims and allocations
    table,      \* pci_devices, in the database
    traced,     \* tracked_instances and tracked_migrations
    told,       \* the size of the pool when the node was saved last
    loose,      \* devices in an entry that was left behind, left out by a save,
                \* or of a guest that was: to state what is not promised of them
    pciTroubles \* counts what PciMishaps bounds

pcis == <<step, uses, plugged, pci, table, traced, told, loose, pciTroubles>>
PciTrouble == pciTroubles < PciMishaps /\ pciTroubles' = pciTroubles + 1

State(status, of) == [status |-> status, of |-> of]
Available == State("available", NoGuest)
Unknown == State("unknown", NoGuest)
Removed == State("removed", NoGuest)
Deleted == State("deleted", NoGuest)
Taken == {"claimed", "allocated"}

PciInit ==
    /\ step = [i \in PciGuests |-> "new"] /\ uses = [i \in PciGuests |-> {}]
    /\ plugged = PciDevs \ Spare
    /\ table = [d \in PciDevs |-> IF d \in Spare THEN Unknown ELSE Available]
    /\ pci = [dev |-> table, pool |-> PciDevs \ Spare,
              claims |-> [i \in PciGuests |-> {}],
              allocations |-> [i \in PciGuests |-> {}]]
    /\ traced = [instances |-> {}, migrations |-> {}]
    /\ told = Cardinality(PciDevs \ Spare)
    /\ loose = {} /\ pciTroubles = 0
-----------------------------------------------------------------------------
(* The tracker; t is its state.                                            *)

Owned(t, i) == {d \in PciDevs : t.dev[d].of = i /\ t.dev[d].status \in Taken}
Put(t, D, state, pool) ==
    [t EXCEPT !.dev = [d \in PciDevs |-> IF d \in D THEN state ELSE @[d]],
              !.pool = pool]
Free(t, D) == Put(t, D, Available, t.pool \cup D)

\* claim_instance: any of the pool, as many as are asked for, or none.
Claims(t, i) ==
    IF Cardinality(t.pool) < Wants[i] THEN {}
    ELSE {[Put(t, D, State("claimed", i), t.pool \ D) EXCEPT !.claims[i] = D] :
             D \in {E \in SUBSET t.pool : Cardinality(E) = Wants[i]}}

\* allocate_instance takes the claim over; free_instance frees what is the
\* guest's, by the devices, and drops one of the two entries.
Allocate(t, i) ==
    [Put(t, t.claims[i], State("allocated", i), t.pool)
        EXCEPT !.claims[i] = {}, !.allocations[i] = @ \cup t.claims[i]]
FreeInstance(t, i) ==
    IF t.allocations[i] # {} THEN [Free(t, Owned(t, i)) EXCEPT !.allocations[i] = {}]
    ELSE IF t.claims[i] # {} THEN [Free(t, Owned(t, i)) EXCEPT !.claims[i] = {}]
    ELSE t

\* save: what was removed is deleted and taken off the list, while the list is
\* gone through: each time the device that came next is left out.
Saved(t, skipped) ==
    [d \in PciDevs |-> IF d \in skipped \/ t.dev[d] = Deleted THEN table[d]
                       ELSE IF t.dev[d] = Removed THEN Deleted ELSE t.dev[d]]
Gone(t) == {d \in PciDevs : t.dev[d] = Removed}
Skips(t) == {K \in SUBSET PciDevs : Cardinality(K) <= Cardinality(Gone(t) \ K)}

\* _update, after something changed in the resources of the node; left is what
\* an entry keeps that should have gone.
Update(t, left) ==
    \E skipped \in Skips(t) :
        /\ table' = Saved(t, skipped)
        /\ pci' = Put(t, Gone(t) \ skipped, Deleted, t.pool)
        /\ told' = Cardinality(t.pool)
        /\ loose' = loose \cup left \cup {d \in skipped : t.dev[d] # table[d]}
-----------------------------------------------------------------------------
(* Builds and deletes.                                                     *)

Goes(i, to) == step' = [step EXCEPT ![i] = to]

\* instance_claim: the devices are claimed while the claim is tested, then
\* allocated, for the instance is new to the tracker.
PciClaim(i) ==
    /\ step[i] = "new" /\ Goes(i, "claimed")
    /\ \E t \in Claims(pci, i) :
          Update(Allocate(t, i), {}) /\ uses' = [uses EXCEPT ![i] = t.claims[i]]
    /\ traced' = [traced EXCEPT !.instances = @ \cup {i}]
    /\ UNCHANGED <<plugged, pciTroubles>>

\* It is refused for want of devices, or of something else after they have
\* been claimed: they stay claimed.
PciClaimRefused(i) ==
    /\ step[i] = "new" /\ Goes(i, "elsewhere")
    /\ \/ Claims(pci, i) = {} /\ UNCHANGED <<pci, pciTroubles>>
       \/ PciTrouble /\ pci' \in Claims(pci, i)
    /\ UNCHANGED <<uses, plugged, table, traced, told, loose>>

PciSpawn(i) ==
    /\ step[i] = "claimed" /\ uses[i] \subseteq plugged /\ Goes(i, "running")
    /\ UNCHANGED <<uses, plugged, pci, table, traced, told, loose, pciTroubles>>

\* abort_instance_claim, of a build that failed and was cleaned up, or whose
\* clean-up failed: that guest stays, with devices that are free for others.
\* Later the host is taken off the row.
PciAbort(i) ==
    /\ step[i] = "claimed" /\ Goes(i, "aborted")
    /\ \/ /\ PciTrouble \/ (~(uses[i] \subseteq plugged) /\ UNCHANGED pciTroubles)
          /\ uses' = [uses EXCEPT ![i] = {}] /\ Update(FreeInstance(pci, i), {})
       \/ /\ PciTrouble /\ uses[i] \subseteq plugged
          /\ UNCHANGED uses /\ Update(FreeInstance(pci, i), uses[i])
    /\ traced' = [traced EXCEPT !.instances = @ \ {i}]
    /\ UNCHANGED plugged
PciReschedule(i) ==
    /\ step[i] = "aborted" /\ Goes(i, "elsewhere")
    /\ UNCHANGED <<uses, plugged, pci, table, traced, told, loose, pciTroubles>>

\* The guest is destroyed and the row says so; then the usage is updated, for
\* an instance that is tracked, and the row goes.
PciDelete(i) ==
    /\ step[i] \in {"running", "error"} /\ Goes(i, "deleted")
    /\ uses' = [uses EXCEPT ![i] = {}]
    /\ UNCHANGED <<plugged, pci, table, traced, told, loose, pciTroubles>>
PciUpdateUsage(i) ==
    /\ step[i] = "deleted" /\ Goes(i, "gone")
    /\ IF i \in traced.instances
       THEN /\ Update(FreeInstance(pci, i), {})
            /\ traced' = [traced EXCEPT !.instances = @ \ {i}]
       ELSE UNCHANGED <<pci, table, traced, told, loose>>
    /\ UNCHANGED <<uses, plugged, pciTroubles>>
-----------------------------------------------------------------------------
(* A guest moves away, and the move is confirmed.                          *)

PciLeave(i) ==
    /\ step[i] = "running" /\ Goes(i, "left")
    /\ uses' = [uses EXCEPT ![i] = {}]
    /\ UNCHANGED <<plugged, pci, table, traced, told, loose, pciTroubles>>

\* drop_move_claim, of a move that an audit has seen, frees all of the guest's
\* devices when one was claimed, and drops no entry.
PciConfirm(i) ==
    /\ step[i] = "left" /\ Goes(i, "elsewhere")
    /\ IF i \in traced.migrations
       THEN /\ LET D == IF pci.claims[i] = {} THEN {} ELSE Owned(pci, i)
               IN Update(Free(pci, D), D)
            /\ traced' = [traced EXCEPT !.migrations = @ \ {i}]
       ELSE UNCHANGED <<pci, table, traced, told, loose>>
    /\ UNCHANGED <<uses, plugged, pciTroubles>>
-----------------------------------------------------------------------------
(* The audit, with the tracker's lock from its first step to its last.     *)

\* _set_hvdevs
Synced(t) ==
    LET lost == {d \in PciDevs \ plugged : t.dev[d].status \in Taken \cup {"available"}}
        found == {d \in plugged : t.dev[d] = Unknown}
        kept == Put(t, lost, Removed, t.pool \ lost)
    IN Put(kept, found, Available, kept.pool \cup found)

\* Mutant of Here: an instance counts once its guest runs.
HereRunning(at) == {i \in PciGuests : at[i] = "running"}
\* The instances of the host that are not deleted; at is as step.
Here(at) == {i \in PciGuests : at[i] \in {"claimed", "aborted", "running", "error"}}
Deleting(at) == {i \in PciGuests : at[i] = "deleted"}
Outbound(at) == {i \in PciGuests : at[i] = "left"}

\* update_pci_for_migration: an instance that left claims once more, when it
\* has no claim and the pool has enough.
Migrated(t, at) ==
    LET claiming == {i \in Outbound(at) : t.claims[i] = {}}
        Taking(c) == Put([t EXCEPT !.claims = [i \in PciGuests |->
                             IF i \in claiming THEN {d \in t.pool : c[d] = i} ELSE @[i]]],
                         {}, Available, {d \in t.pool : c[d] = NoGuest})
        Marked(u, c) == [u EXCEPT !.dev = [d \in PciDevs |->
                            IF d \in t.pool \ u.pool THEN State("claimed", c[d]) ELSE @[d]]]
    IN {Marked(Taking(c), c) : c \in
          {c \in [t.pool -> claiming \cup {NoGuest}] : \A i \in claiming :
              LET n == Cardinality({d \in t.pool : c[d] = i})
              IN \/ n = Wants[i]
                 \/ n = 0 /\ Cardinality({d \in t.pool : c[d] = NoGuest}) < Wants[i]}}

\* The instances that stay are counted anew, which changes nothing here: none
\* has a claim that is not allocated.  clean_usage goes through the entries of
\* instances that are not of the host (one being deleted still is), the claims
\* first, and frees their devices whoever has them now.  It raises at a device
\* that nobody has, and the audit ends there.
Strays(t, at) ==
    {e \in {"claims", "allocations"} \X (PciGuests \ (Here(at) \cup Deleting(at) \cup Outbound(at))) :
        t[e[1]][e[2]] # {}}
Popped(t, E) ==
    [t EXCEPT !.claims = [i \in PciGuests |-> IF <<"claims", i>> \in E THEN {} ELSE @[i]],
              !.allocations = [i \in PciGuests |->
                  IF <<"allocations", i>> \in E THEN {} ELSE @[i]]]
Devs(t, E) == UNION {t[e[1]][e[2]] : e \in E}
MayFree(t, E) ==
    /\ \A d \in Devs(t, E) : t.dev[d].status \in Taken
    /\ \A e, f \in E : e # f => Devs(t, {e}) \cap Devs(t, {f}) = {}
Cleaned(t, E) == Popped(Free(t, Devs(t, E)), E)
\* e is the entry it raises at, S those it has gone through.
RaisesAt(t, E, e, S) ==
    /\ e \notin S /\ MayFree(t, S) /\ ~MayFree(t, S \cup {e})
    /\ \A f \in E \ S : e[1] = "allocations" => f[1] = "allocations"
    /\ e[1] = "claims" => \A f \in S : f[1] = "claims"
Raises(t, E) ==
    \E e \in E, S \in SUBSET E :
       /\ RaisesAt(t, E, e, S)
       /\ \E D \in SUBSET {d \in Devs(t, {e}) : t.dev[d].status \in Taken} :
             pci' = Cleaned(Put(Popped(t, {e}), D, Available, t.pool \cup D), S)

AuditOf(t, at, fresh) ==
    \E u \in Migrated(Synced(t), at) :
        LET E == Strays(u, at)
        IN /\ traced' = [instances |-> Here(at), migrations |-> Outbound(at)]
           /\ IF MayFree(u, E)
              THEN LET v == Cleaned(u, E)
                   IN \/ Update(v, {})
                      \/ /\ ~fresh /\ Cardinality(v.pool) = told
                         /\ pci' = v /\ UNCHANGED <<table, told, loose>>
              ELSE Raises(u, E) /\ UNCHANGED <<table, told, loose>>

PciAudit ==
    /\ AuditOf(pci, step, FALSE)
    /\ UNCHANGED <<step, uses, plugged, pciTroubles>>

\* A restart: the tracker is made from the table, and audited before anything
\* is served.  Builds end in ERROR, a delete that was under way is finished
\* without the tracker.
Loaded ==
    [dev |-> table, pool |-> {d \in PciDevs : table[d] = Available},
     claims |-> [i \in PciGuests |-> {d \in PciDevs : table[d] = State("claimed", i)}],
     allocations |->
         [i \in PciGuests |-> {d \in PciDevs : table[d] = State("allocated", i)}]]
PciStops ==
    /\ PciTrouble
    /\ step' = [i \in PciGuests |-> CASE step[i] \in {"claimed", "aborted"} -> "error"
                                      [] step[i] = "deleted" -> "gone"
                                      [] OTHER -> step[i]]
    /\ uses' = [i \in PciGuests |-> IF step[i] = "claimed" THEN {} ELSE uses[i]]
    /\ AuditOf(Loaded, step', TRUE)
    /\ UNCHANGED plugged
-----------------------------------------------------------------------------
\* The hypervisor; a device goes once it is in the table.
Unplug(d) ==
    /\ d \in plugged /\ table[d] # Unknown /\ PciTrouble
    /\ pci.dev[d].status \notin Taken /\ \A i \in PciGuests : d \notin uses[i]
    /\ plugged' = plugged \ {d}
    /\ UNCHANGED <<step, uses, pci, table, traced, told, loose>>
Plug(d) ==
    /\ d \in Spare \ plugged /\ pci.dev[d] = Unknown
    /\ plugged' = plugged \cup {d}
    /\ UNCHANGED <<step, uses, pci, table, traced, told, loose, pciTroubles>>

PciNext ==
    \/ \E i \in PciGuests :
          \/ PciClaim(i) \/ PciClaimRefused(i) \/ PciSpawn(i) \/ PciAbort(i)
          \/ PciReschedule(i) \/ PciDelete(i) \/ PciUpdateUsage(i)
          \/ PciLeave(i) \/ PciConfirm(i)
    \/ PciAudit \/ PciStops
    \/ \E d \in PciDevs : Unplug(d) \/ Plug(d)
PciSpec == PciInit /\ [][PciNext]_pcis
-----------------------------------------------------------------------------
\* A guest has the devices it was given to itself as long as it has them,
\* whatever is claimed, aborted, deleted, unplugged and audited beside it and
\* wherever the service stops; and what the scheduler is told is free is what
\* is free.  The loose devices are excepted.
DeviceOwned ==
    /\ \A i \in PciGuests : \A d \in (uses[i] \cap plugged) \ loose :
          pci.dev[d].of = i /\ pci.dev[d].status \in Taken
    /\ pci.pool = {d \in PciDevs : pci.dev[d] = Available}
=============================================================================
