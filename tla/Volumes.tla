------------------------------ MODULE Volumes ------------------------------
(***************************************************************************)
(* Volumes attached to instances, detached from them and let go when an    *)
(* instance is deleted: attach_volume, detach_volume and _delete of        *)
(* nova/compute/api.py, the handlers they call in nova/compute/manager.py, *)
(* and the attach of nova/virt/block_device.py.                            *)
(*                                                                         *)
(* Three parties know of an attachment: Cinder, the table of block devices *)
(* and the hypervisor.  Attaching and deleting are done with the lock of   *)
(* the instance, detaching without one.  Cinder is modelled as the code    *)
(* expects it: it changes the status of one volume at a time, and ignores  *)
(* what does not fit the status the volume is in.  A call of Cinder, of    *)
(* the driver or of the queue may fail; those of the database do not.      *)
(***************************************************************************)
EXTENDS Naturals, FiniteSets

CONSTANTS
    Vols, Servers,
    NoServer,
    VolRequests,  \* the requests users make; of whatever kind
    VolMishaps    \* bound: calls of the driver or of Cinder that fail

ASSUME VolumesAssumption == NoServer \notin Servers /\ VolMishaps \in Nat

VARIABLES
    vol,        \* Cinder: the status of a volume, and the server it is of
    rows,       \* the rows of block_device_mapping: the requests that made them
    connected,  \* those of them that have a connection_info
    attached,   \* the volumes the hypervisor has attached to each server
    server,     \* "active", "deleting", "error" (its guest could not be
                \* destroyed), "destroyed" (its guest is) or "deleted"
    request,    \* what each request asks for and where it stands
    locked,     \* the servers whose lock is held
    wronged,    \* volumes Cinder was told of for a server or a request that did not
                \* have them, or that the driver could not take off a guest again:
                \* to state what is and is not promised of them
    stuck,      \* volumes that a request reserved or was detaching when it failed
                \* with nothing to undo that
    volTroubles \* counts what VolMishaps bounds

volumes == <<vol, rows, connected, attached, server, request, locked, wronged,
             stuck, volTroubles>>
VolTrouble == volTroubles < VolMishaps /\ volTroubles' = volTroubles + 1

VolState(status, of) == [status |-> status, of |-> of]
Unused == VolState("available", NoServer)
Idle == [op |-> "none", i |-> NoServer, v |-> {}, at |-> "idle", rows |-> {}]
VolumesInit ==
    /\ vol = [v \in Vols |-> Unused]
    /\ rows = {} /\ connected = {}
    /\ attached = [i \in Servers |-> {}] /\ server = [i \in Servers |-> "active"]
    /\ request = [r \in VolRequests |-> Idle]
    /\ locked = {} /\ wronged = {} /\ stuck = {} /\ volTroubles = 0

\* The next request; which one makes no difference.
Fresh(r) == request[r] = Idle /\ r = CHOOSE q \in VolRequests : request[q] = Idle
At(r, op, at) == request[r].op = op /\ request[r].at = at
Then(r, at) == request' = [request EXCEPT ![r].at = at]
Lock(i) == i \notin locked /\ locked' = locked \cup {i}
Unlock(i) == locked' = locked \ {i}
HasGuest(i) == server[i] \in {"active", "deleting", "error"}
RowsOf(i) == {b \in rows : request[b].i = i}
RowsFor(v) == {b \in rows : request[b].v = {v}}

(* Cinder. *)
Reserved(v) == [vol EXCEPT ![v] = VolState("attaching", NoServer)]
Unreserved(v) == [vol EXCEPT ![v] = IF @.status = "attaching" THEN Unused ELSE @]
\* Volumes V are detached for the server i, whoever has them.
OfOthers(V, i) == {v \in V : vol[v].of \notin {i, NoServer}}
OnBehalfOf(V, i) == wronged' = wronged \cup OfOthers(V, i)
\* A request other than r has reserved v, or is detaching it.
OthersClaim(r, v) ==
    \E q \in VolRequests \ {r} :
        /\ v \in request[q].v
        /\ \/ request[q].op = "attach" /\ request[q].at \in {"cast", "attached", "saved", "broken"}
           \/ request[q].op = "detach" /\ request[q].at \in {"cast", "detached", "closed"}
\* Of several volumes, for the server i.
Detached(V) == [v \in Vols |-> IF v \in V /\ vol[v].of # NoServer THEN Unused ELSE vol[v]]
CinderDetach(V, i) == vol' = Detached(V) /\ OnBehalfOf(V, i)
-----------------------------------------------------------------------------
(* attach_volume.                                                          *)

AskAttach(r, i, v) ==
    /\ Fresh(r) /\ server[i] = "active"
    /\ request' = [request EXCEPT ![r] = [Idle EXCEPT !.op = "attach", !.i = i,
                                          !.v = {v}, !.at = "asked"]]
    /\ UNCHANGED <<vol, rows, connected, attached, server, locked, wronged, stuck, volTroubles>>

\* reserve_block_device_name, called by the API; it takes the lock for itself.
\* When the answer is lost the row is left.
ReserveName(r) ==
    /\ At(r, "attach", "asked") /\ request[r].i \notin locked
    /\ rows' = rows \cup {r}
    /\ \/ Then(r, "named") /\ UNCHANGED volTroubles
       \/ Then(r, "left") /\ VolTrouble
    /\ UNCHANGED <<vol, connected, attached, server, locked, wronged, stuck>>

\* Mutant of ReserveVolume: the reservation of another request is no obstacle.
ReserveVolumeTwice(r) ==
    \E v \in request[r].v :
        /\ At(r, "attach", "named")
        /\ IF vol[v].status \in {"available", "attaching"}
           THEN vol' = Reserved(v) /\ Then(r, "cast") /\ UNCHANGED rows
           ELSE rows' = rows \ {r} /\ Then(r, "done") /\ UNCHANGED vol
        /\ UNCHANGED <<connected, attached, server, locked, wronged, stuck, volTroubles>>
\* check_attach and reserve_volume; a volume that is not available is refused
\* and the row destroyed.  The row alone is destroyed when the answer of Cinder
\* is lost or the cast fails.
ReserveVolume(r) ==
    \E v \in request[r].v :
        /\ At(r, "attach", "named")
        /\ \/ vol[v] = Unused /\ vol' = Reserved(v) /\ Then(r, "cast")
              /\ UNCHANGED <<rows, stuck, volTroubles>>
           \/ vol[v] = Unused /\ vol' = Reserved(v) /\ Then(r, "done") /\ VolTrouble
              /\ rows' = rows \ {r} /\ stuck' = stuck \cup {v}
           \/ vol[v] # Unused /\ rows' = rows \ {r} /\ Then(r, "done")
              /\ UNCHANGED <<vol, stuck, volTroubles>>
        /\ UNCHANGED <<connected, attached, server, locked, wronged>>

\* The driver attaches it, to a guest that is there; the lock is held until
\* the end.
DriverAttach(r) ==
    LET i == request[r].i
    IN /\ At(r, "attach", "cast") /\ Lock(i)
       /\ \/ /\ HasGuest(i) /\ Then(r, "attached")
             /\ attached' = [attached EXCEPT ![i] = @ \cup request[r].v]
             /\ UNCHANGED volTroubles
          \/ /\ VolTrouble \/ (~HasGuest(i) /\ UNCHANGED volTroubles)
             /\ Then(r, "failed") /\ UNCHANGED attached
       /\ UNCHANGED <<vol, rows, connected, server, wronged, stuck>>

\* Mutant of SaveConnection: it is left for the save that ends the attach.
SaveConnectionLate(r) ==
    /\ At(r, "attach", "attached") /\ Then(r, "saved")
    /\ UNCHANGED <<vol, rows, connected, attached, server, locked, wronged, stuck, volTroubles>>
SaveConnection(r) ==
    /\ At(r, "attach", "attached") /\ Then(r, "saved")
    /\ connected' = connected \cup {r}
    /\ UNCHANGED <<vol, rows, attached, server, locked, wronged, stuck, volTroubles>>

\* Cinder is told.  It may have attached the volume and the call fail.
CinderAttach(r) ==
    LET i == request[r].i
        taken == [vol EXCEPT ![CHOOSE v \in request[r].v : TRUE] = VolState("in-use", i)]
    IN \E v \in request[r].v :
          /\ At(r, "attach", "saved")
          /\ \/ /\ vol[v].status = "attaching" /\ vol' = taken
                /\ Then(r, "done") /\ Unlock(i) /\ UNCHANGED volTroubles
             \/ /\ vol[v].status = "attaching" /\ vol' \in {vol, taken}
                /\ VolTrouble /\ Then(r, "broken") /\ UNCHANGED locked
             \/ /\ vol[v].status # "attaching" /\ UNCHANGED <<vol, volTroubles, locked>>
                /\ Then(r, "broken")
          /\ UNCHANGED <<rows, connected, attached, server, wronged, stuck>>
\* Then the driver takes it off again, if it can, and unless ending the
\* connection fails Cinder is told to detach it, whether it had attached it or not.
UndoAttach(r) ==
    LET i == request[r].i
    IN \E v \in request[r].v, off, told \in BOOLEAN :
          /\ At(r, "attach", "broken") /\ Then(r, "failed")
          /\ IF off /\ told THEN UNCHANGED volTroubles ELSE VolTrouble
          /\ attached' = IF off THEN [attached EXCEPT ![i] = @ \ {v}] ELSE attached
          /\ vol' = IF told THEN Detached({v}) ELSE vol
          /\ wronged' = wronged \cup (IF off /\ ~(told /\ OthersClaim(r, v)) THEN {} ELSE {v})
                                \cup (IF told THEN OfOthers({v}, i) ELSE {})
          /\ UNCHANGED <<rows, connected, server, locked, stuck>>

\* An attach that failed gives the reservation back, which may be another's by
\* now, and then the row.
UnreserveVolume(r) ==
    \E v \in request[r].v :
        /\ At(r, "attach", "failed") /\ Then(r, "unreserved")
        /\ \/ /\ vol' = Unreserved(v) /\ UNCHANGED <<stuck, volTroubles>>
              /\ wronged' = wronged \cup (IF vol[v].status = "attaching" /\ OthersClaim(r, v)
                                          THEN {v} ELSE {})
           \/ /\ VolTrouble /\ stuck' = stuck \cup {v} /\ UNCHANGED <<vol, wronged>>
        /\ UNCHANGED <<rows, connected, attached, server, locked>>
DestroyRow(r) ==
    /\ At(r, "attach", "unreserved") /\ Then(r, "done") /\ Unlock(request[r].i)
    /\ rows' = rows \ {r}
    /\ UNCHANGED <<vol, connected, attached, server, wronged, stuck, volTroubles>>
-----------------------------------------------------------------------------
(* detach_volume.                                                          *)

\* The volume the request has read is of the server.
AskDetach(r, i, v) ==
    /\ Fresh(r) /\ server[i] = "active" /\ vol[v].of = i
    /\ request' = [request EXCEPT ![r] = [Idle EXCEPT !.op = "detach", !.i = i,
                                          !.v = {v}, !.at = "asked"]]
    /\ UNCHANGED <<vol, rows, connected, attached, server, locked, wronged, stuck, volTroubles>>

\* When the answer of Cinder is lost or the cast fails, nothing undoes it.
BeginDetaching(r) ==
    \E v \in request[r].v :
        /\ At(r, "detach", "asked")
        /\ \/ /\ vol[v].status = "in-use" /\ vol' = [vol EXCEPT ![v].status = "detaching"]
              /\ OnBehalfOf({v}, request[r].i)
              /\ \/ Then(r, "cast") /\ UNCHANGED <<stuck, volTroubles>>
                 \/ Then(r, "done") /\ VolTrouble /\ stuck' = stuck \cup {v}
           \/ /\ vol[v].status # "in-use" /\ Then(r, "done")
              /\ UNCHANGED <<vol, wronged, stuck, volTroubles>>
        /\ UNCHANGED <<rows, connected, attached, server, locked>>

\* Any row of the volume will do, of whatever server; one that has no
\* connection makes the detach raise before anything would roll it back.
DriverDetach(r) ==
    LET i == request[r].i
    IN \E v \in request[r].v :
          /\ At(r, "detach", "cast")
          /\ \/ \E b \in RowsFor(v) \cap connected :
                   /\ request' = [request EXCEPT ![r].at = "detached", ![r].rows = {b}]
                   /\ attached' = [attached EXCEPT ![i] = @ \ {v}]
                   /\ UNCHANGED <<vol, wronged, stuck, volTroubles>>
             \/ /\ RowsFor(v) \cap connected # {} /\ VolTrouble /\ Then(r, "done")
                /\ \/ /\ vol' = [vol EXCEPT ![v].status = IF @ = "detaching" THEN "in-use" ELSE @]
                      /\ OnBehalfOf({v}, i) /\ UNCHANGED stuck
                   \/ stuck' = stuck \cup {v} /\ UNCHANGED <<vol, wronged>>
                /\ UNCHANGED attached
             \/ /\ \/ RowsFor(v) = {} /\ stuck' = stuck \cup {v}
                   \/ \E b \in RowsFor(v) \ connected :
                         stuck' = IF request[b].at = "done" THEN stuck ELSE stuck \cup {v}
                /\ Then(r, "done") /\ UNCHANGED <<vol, attached, wronged, volTroubles>>
          /\ UNCHANGED <<rows, connected, server, locked>>
\* The connection is ended, the row destroyed and Cinder told.  A failure of
\* the first or of the last leaves the volume detaching.
DetachDestroysRow(r) ==
    /\ At(r, "detach", "detached")
    /\ \/ /\ Then(r, "closed") /\ rows' = rows \ request[r].rows
          /\ UNCHANGED <<stuck, volTroubles>>
       \/ /\ Then(r, "done") /\ VolTrouble /\ stuck' = stuck \cup request[r].v
          /\ UNCHANGED rows
    /\ UNCHANGED <<vol, connected, attached, server, locked, wronged>>
DetachEnds(r) ==
    /\ At(r, "detach", "closed") /\ Then(r, "done")
    /\ \/ CinderDetach(request[r].v, request[r].i) /\ UNCHANGED <<stuck, volTroubles>>
       \/ VolTrouble /\ stuck' = stuck \cup request[r].v /\ UNCHANGED <<vol, wronged>>
    /\ UNCHANGED <<rows, connected, attached, server, locked>>
-----------------------------------------------------------------------------
(* _delete.                                                                *)

\* The rows are read, then the task state is set, and both are sent.
AskDelete(r, i) ==
    /\ Fresh(r) /\ server[i] = "active"
    /\ request' = [request EXCEPT ![r] = [Idle EXCEPT !.op = "delete", !.i = i,
                                          !.at = "asked", !.rows = RowsOf(i)]]
    /\ UNCHANGED <<vol, rows, connected, attached, server, locked, wronged, stuck, volTroubles>>
BeginDelete(r) ==
    LET i == request[r].i
    IN /\ At(r, "delete", "asked")
       /\ IF server[i] = "active"
          THEN server' = [server EXCEPT ![i] = "deleting"] /\ Then(r, "cast")
          ELSE Then(r, "done") /\ UNCHANGED server
       /\ UNCHANGED <<vol, rows, connected, attached, locked, wronged, stuck, volTroubles>>

\* _shutdown_instance: the guest is destroyed, then Cinder is told of every
\* volume in the list; then the instance and the rows of the list go.  What
\* Cinder answers is ignored, but for errors of another kind.
DestroyGuest(r) ==
    LET i == request[r].i
    IN /\ At(r, "delete", "cast")
       /\ \/ /\ Lock(i) /\ Then(r, "destroyed") /\ UNCHANGED volTroubles
             /\ attached' = [attached EXCEPT ![i] = {}]
             /\ server' = [server EXCEPT ![i] = "destroyed"]
          \/ /\ i \notin locked /\ VolTrouble /\ Then(r, "done")
             /\ server' = [server EXCEPT ![i] = "error"] /\ UNCHANGED <<locked, attached>>
       /\ UNCHANGED <<vol, rows, connected, wronged, stuck>>
ReleaseVolumes(r) ==
    LET listed == UNION {request[b].v : b \in request[r].rows}
    IN \E V \in SUBSET listed :
          /\ At(r, "delete", "destroyed") /\ CinderDetach(V, request[r].i)
          /\ IF V = listed THEN UNCHANGED volTroubles ELSE VolTrouble
          /\ \/ Then(r, "released") /\ UNCHANGED locked
             \/ V # listed /\ Then(r, "done") /\ Unlock(request[r].i)
          /\ UNCHANGED <<rows, connected, attached, server, stuck>>
CompleteDeletion(r) ==
    /\ At(r, "delete", "released") /\ Then(r, "done") /\ Unlock(request[r].i)
    /\ rows' = rows \ request[r].rows
    /\ server' = [server EXCEPT ![request[r].i] = "deleted"]
    /\ UNCHANGED <<vol, connected, attached, wronged, stuck, volTroubles>>
-----------------------------------------------------------------------------
VolumeStep(r) ==
    \/ ReserveName(r) \/ ReserveVolume(r) \/ DriverAttach(r) \/ SaveConnection(r)
    \/ CinderAttach(r) \/ UndoAttach(r) \/ UnreserveVolume(r) \/ DestroyRow(r)
    \/ BeginDetaching(r) \/ DriverDetach(r) \/ DetachDestroysRow(r) \/ DetachEnds(r)
    \/ BeginDelete(r) \/ DestroyGuest(r) \/ ReleaseVolumes(r) \/ CompleteDeletion(r)
VolumesNext ==
    \E r \in VolRequests :
        \/ VolumeStep(r)
        \/ \E i \in Servers :
              AskDelete(r, i) \/ \E v \in Vols : AskAttach(r, i, v) \/ AskDetach(r, i, v)

\* A request that was accepted is carried out: no service stops.
VolumesSpec ==
    /\ VolumesInit /\ [][VolumesNext]_volumes
    /\ \A r \in VolRequests : WF_volumes(VolumeStep(r))
-----------------------------------------------------------------------------
\* A volume is attached to one guest at most, and what a guest has attached
\* Cinder gives to nobody else, whatever attaches, detaches and deletes are
\* carried out at once and whichever of their calls fail.  Excepted are volumes
\* that Cinder was told of by a request that did not have them: a delete or a
\* detach of another server, or the undoing of an attach after the volume was
\* let go and promised to the next; and those the driver could not take off.
OneAttachment ==
    \A i \in Servers : \A v \in attached[i] \ wronged :
        /\ \A j \in Servers \ {i} : v \notin attached[j]
        /\ vol[v] \notin {Unused} \cup {VolState("in-use", j) : j \in Servers \ {i}}

\* No volume stays attaching or detaching, whatever requests meet and whenever
\* the driver fails, but for those a request could not take back: its call of
\* Cinder, or the cast, failed; or a detach found no row, or one of an attach
\* that is not complete.
VolumesSettle ==
    \A v \in Vols : (vol[v].status \in {"attaching", "detaching"})
                    ~> (vol[v].status \in {"available", "in-use"} \/ v \in stuck)

\* "the BDMs may be stale at this point. So check" (nova/compute/manager.py
\* 2642): a deleted instance has no volume.
DeletedLetsGo ==
    \A v \in Vols : \A i \in Servers : server[i] = "deleted" => vol[v].of # i
=============================================================================
