--------------------------- MODULE InstanceEvents ---------------------------
(***************************************************************************)
(* Waiting for Neutron to plug the interfaces of an instance:              *)
(* InstanceEvents and ComputeVirtAPI.wait_for_instance_event in            *)
(* nova/compute/manager.py, as _create_domain_and_network of               *)
(* nova/virt/libvirt/driver.py uses them.  A thread registers an event for *)
(* every interface, plugs them, creates the guest paused and waits, with a *)
(* deadline, for all of the events.  Several threads of one instance may   *)
(* do so one after the other, or at once: starts and reboots take no lock. *)
(* They share the Event objects of a table that outlives each of them.     *)
(*                                                                         *)
(* One instance; two have nothing in common but the table being off.       *)
(***************************************************************************)
EXTENDS FiniteSets

CONSTANTS
    Plugs,     \* the threads
    Vifs,      \* the interfaces: an event's name is the interface it is about
    Fatal,     \* vif_plugging_is_fatal
    Nobody

ASSUME EventsAssumption ==
    /\ Fatal \in BOOLEAN /\ Nobody \notin Plugs
    /\ IsFiniteSet(Plugs) /\ IsFiniteSet(Vifs)

VARIABLES
    plug,      \* each thread's step
    holds,     \* the Event it has of each interface: named for its creator
    pending,   \* _events of the instance: the Event of each interface
    signal,    \* what each Event has been sent
    notice,    \* Neutron's answer to each plug
    cleared,   \* the threads whose events were dropped from the table
    accepts    \* whether the table takes events: not after cancel_all_events

events == <<plug, holds, pending, signal, notice, cleared, accepts>>

Waiters == {"registering", "plugged"}
Outcomes == {"completed", "failed"}

EventsInit ==
    /\ plug = [p \in Plugs |-> "idle"]
    /\ holds = [p \in Plugs |-> [v \in Vifs |-> Nobody]]
    /\ pending = [v \in Vifs |-> Nobody]
    /\ signal = [p \in Plugs |-> [v \in Vifs |-> "none"]]
    /\ notice = [p \in Plugs |-> [v \in Vifs |-> "none"]]
    /\ cleared = {} /\ accepts = TRUE

Now(p, step) == plug' = [plug EXCEPT ![p] = step]
-----------------------------------------------------------------------------
Begin(p) ==
    /\ plug[p] = "idle" /\ Now(p, "registering")
    /\ UNCHANGED <<holds, pending, signal, notice, cleared, accepts>>

\* prepare_for_instance_event: the Event that is there, or a new one.
\* Mutant of Prepare: always a new one.
PrepareAnew(p, v) ==
    /\ plug[p] = "registering" /\ accepts /\ holds[p][v] = Nobody
    /\ pending' = [pending EXCEPT ![v] = p]
    /\ holds' = [holds EXCEPT ![p][v] = p]
    /\ UNCHANGED <<plug, signal, notice, cleared, accepts>>
Prepare(p, v) ==
    /\ plug[p] = "registering" /\ accepts /\ holds[p][v] = Nobody
    /\ LET e == IF pending[v] = Nobody THEN p ELSE pending[v]
       IN /\ pending' = [pending EXCEPT ![v] = e]
          /\ holds' = [holds EXCEPT ![p][v] = e]
    /\ UNCHANGED <<plug, signal, notice, cleared, accepts>>

\* It raises once the table is off: the callback raises in turn, before
\* anything is plugged, or the thread goes on and will not wait.
PrepareRefused(p) ==
    /\ plug[p] = "registering" /\ ~accepts
    /\ \E v \in Vifs : holds[p][v] = Nobody
    /\ Now(p, IF Fatal THEN "failed" ELSE "done")
    /\ UNCHANGED <<holds, pending, signal, notice, cleared, accepts>>

\* plug_vifs, and the guest, paused.
PlugVifs(p) ==
    /\ plug[p] = "registering" /\ \A v \in Vifs : holds[p][v] # Nobody
    /\ Now(p, "plugged")
    /\ notice' = [notice EXCEPT ![p] = [v \in Vifs |-> "due"]]
    /\ UNCHANGED <<holds, pending, signal, cleared, accepts>>

\* external_instance_event: Neutron's answer reaches the table, long after
\* perhaps, or never.
\* Mutant of Notice: the Event stays in the table.
NoticeKept(p, v, outcome) ==
    /\ notice[p][v] = "due"
    /\ notice' = [notice EXCEPT ![p][v] = "given"]
    /\ LET e == pending[v]
       IN signal' = IF accepts /\ e # Nobody
                    THEN [signal EXCEPT ![e][v] = outcome] ELSE signal
    /\ UNCHANGED <<plug, holds, pending, cleared, accepts>>
Notice(p, v, outcome) ==
    /\ notice[p][v] = "due"
    /\ notice' = [notice EXCEPT ![p][v] = "given"]
    /\ LET e == pending[v]
       IN IF accepts /\ e # Nobody
          THEN /\ signal' = [signal EXCEPT ![e][v] = outcome]
               /\ pending' = [pending EXCEPT ![v] = Nobody]
          ELSE UNCHANGED <<signal, pending>>
    /\ UNCHANGED <<plug, holds, cleared, accepts>>

Answer(p, v) == signal[holds[p][v]][v]
\* All have come: the guest is resumed, unless one has failed.
Wake(p) ==
    /\ plug[p] = "plugged"
    /\ \A v \in Vifs : Answer(p, v) # "none"
    /\ Fatal => \A v \in Vifs : Answer(p, v) = "completed"
    /\ Now(p, "done")
    /\ UNCHANGED <<holds, pending, signal, notice, cleared, accepts>>
Refused(p) ==
    /\ plug[p] = "plugged" /\ Fatal
    /\ \E v \in Vifs : Answer(p, v) = "failed"
    /\ Now(p, "failed")
    /\ UNCHANGED <<holds, pending, signal, notice, cleared, accepts>>

\* The deadline.  The events stay in the table.
Timeout(p) ==
    /\ plug[p] = "plugged"
    /\ Now(p, IF Fatal THEN "failed" ELSE "done")
    /\ UNCHANGED <<holds, pending, signal, notice, cleared, accepts>>
-----------------------------------------------------------------------------
\* clear_events_for_instance: a delete, a move or the discovery drops the
\* events; nobody is told.
Clear ==
    /\ accepts
    /\ pending' = [v \in Vifs |-> Nobody]
    /\ cleared' = {p \in Plugs : plug[p] # "idle"} \cup cleared
    /\ UNCHANGED <<plug, holds, signal, notice, accepts>>

\* cancel_all_events: the table is off.  Then each event is to be sent
\* 'failed', its name made of the key up to the last dash: but the key ends in
\* the uuid of a port, so that is no name an event may have, and the exception
\* comes before the first one is sent.
CancelAll ==
    /\ accepts /\ accepts' = FALSE
    /\ pending' = [v \in Vifs |-> Nobody]
    /\ cleared' = {p \in Plugs : plug[p] # "idle"} \cup cleared
    /\ UNCHANGED <<plug, holds, signal, notice>>

Proceeds(p) ==
    \/ \E v \in Vifs : Prepare(p, v)
    \/ PrepareRefused(p) \/ PlugVifs(p) \/ Wake(p) \/ Refused(p) \/ Timeout(p)
EventsNext ==
    \/ \E p \in Plugs : Begin(p) \/ Proceeds(p)
    \/ \E p \in Plugs, v \in Vifs, o \in Outcomes : Notice(p, v, o)
    \/ Clear \/ CancelAll

\* A thread goes on: its deadline passes if nothing else happens.  Nothing is
\* expected of Neutron.
EventsSpec ==
    /\ EventsInit /\ [][EventsNext]_events
    /\ \A p \in Plugs : WF_events(Proceeds(p))
-----------------------------------------------------------------------------
EventsTypeOK ==
    /\ plug \in [Plugs -> Waiters \cup {"idle", "done", "failed"}]
    /\ holds \in [Plugs -> [Vifs -> Plugs \cup {Nobody}]]
    /\ pending \in [Vifs -> Plugs \cup {Nobody}]
    /\ signal \in [Plugs -> [Vifs -> Outcomes \cup {"none"}]]
    /\ notice \in [Plugs -> [Vifs -> {"none", "due", "given"}]]
    /\ cleared \subseteq Plugs /\ accepts \in BOOLEAN

\* Whatever other threads of the instance register, time out of or are woken
\* by, an answer to one's own plug never goes by unnoticed: who has not had
\* his events dropped is awake by then.
NoLostAnswer ==
    \A p \in Plugs, v \in Vifs :
        (notice[p][v] = "given" /\ p \notin cleared) => Answer(p, v) # "none"

\* An Event that is in the table has not been sent: sending one twice raises
\* in the thread that serves Neutron's message.
SentOnce ==
    \A v \in Vifs : pending[v] # Nobody => signal[pending[v]][v] = "none"
=============================================================================
