-------------------------- MODULE HostPartsProofs --------------------------
(***************************************************************************)
(* What TLAPS proves of the parts of a compute host that MCHostParts runs: *)
(* Volumes, Shelving, PciDevices and NumaTopology, each with its inductive *)
(* invariant.                                                              *)
(***************************************************************************)
EXTENDS Volumes, Shelving, PciDevices, NumaTopology, SumProofs
-----------------------------------------------------------------------------
(* Volumes, for any number of volumes, servers and requests.               *)

VolStates ==
    {VolState(s, NoServer) : s \in {"available", "attaching"}}
    \cup {VolState(s, i) : s \in {"in-use", "detaching"}, i \in Servers}
VolSteps == {"idle", "asked", "named", "left", "cast", "attached", "saved", "broken", "failed",
             "unreserved", "detached", "closed", "destroyed", "released", "done"}
ServerStates == {"active", "deleting", "error", "destroyed", "deleted"}
AskedBy(op) ==
    IF op = "delete" THEN {{}} ELSE {{v} : v \in Vols}
Requests ==
    {Idle} \cup
    {q \in [op : {"attach", "detach", "delete"}, i : Servers, v : SUBSET Vols,
            at : VolSteps, rows : SUBSET VolRequests] : q.v \in AskedBy(q.op)}
VolumesTypeOK ==
    /\ vol \in [Vols -> VolStates]
    /\ rows \in SUBSET VolRequests
    /\ attached \in [Servers -> SUBSET Vols]
    /\ server \in [Servers -> ServerStates]
    /\ request \in [VolRequests -> Requests]

LEMMA VolumesTypesInit == VolumesInit => VolumesTypeOK
BY DEF VolumesInit, VolumesTypeOK, VolStates, VolState, Unused, Requests, ServerStates

\* A request that takes a step was made, and goes to another step of its kind.
LEMMA RequestSteps ==
    ASSUME VolumesTypeOK, NEW r \in VolRequests, VolumeStep(r)
    PROVE  /\ request[r] \in Requests /\ request[r] # Idle
           /\ request[r].i \in Servers /\ request[r].v \in SUBSET Vols
           /\ request' \in [VolRequests -> Requests]
           /\ \A q \in VolRequests :
                 /\ request'[q].op = request[q].op
                 /\ request'[q].i = request[q].i /\ request'[q].v = request[q].v
                 /\ q # r => request'[q] = request[q]
<1>1. request[r] \in Requests /\ DOMAIN request = VolRequests
  BY DEF VolumesTypeOK
<1>2. PICK op \in {"attach", "detach", "delete"}, at \in VolSteps : At(r, op, at)
  BY DEF VolumeStep, ReserveName, ReserveVolume, DriverAttach, SaveConnection,
         CinderAttach, UndoAttach, UnreserveVolume, DestroyRow, BeginDetaching, DriverDetach,
         DetachDestroysRow, DetachEnds, BeginDelete, DestroyGuest, ReleaseVolumes,
         CompleteDeletion, VolSteps
<1>3. request[r] # Idle
  BY <1>2 DEF At, Idle
<1>4. request[r].i \in Servers /\ request[r].v \in SUBSET Vols
  BY <1>1, <1>3 DEF Requests
<1>5. \/ \E s \in VolSteps : Then(r, s)
      \/ \E b \in VolRequests : request' = [request EXCEPT ![r].at = "detached", ![r].rows = {b}]
  BY DEF VolumeStep, ReserveName, ReserveVolume, DriverAttach, SaveConnection,
         CinderAttach, UndoAttach, UnreserveVolume, DestroyRow, BeginDetaching, DriverDetach,
         DetachDestroysRow, DetachEnds, BeginDelete, DestroyGuest, ReleaseVolumes,
         CompleteDeletion, VolSteps, RowsFor, VolumesTypeOK
<1>6. \A s \in VolSteps : [request[r] EXCEPT !.at = s] \in Requests
  BY <1>1, <1>3 DEF Requests
<1>7. \A b \in VolRequests : [request[r] EXCEPT !.at = "detached", !.rows = {b}] \in Requests
  BY <1>1, <1>3 DEF Requests, VolSteps
<1>8. request' \in [VolRequests -> Requests]
  BY <1>5, <1>6, <1>7 DEF Then, VolumesTypeOK
<1>9. \E f : /\ request' = [request EXCEPT ![r] = f] /\ f.op = request[r].op
             /\ f.i = request[r].i /\ f.v = request[r].v
  <2>1. CASE \E s \in VolSteps : Then(r, s)
    <3>1. PICK s \in VolSteps : Then(r, s)
      BY <2>1
    <3> WITNESS [request[r] EXCEPT !.at = s]
    <3> QED
      BY <3>1, <1>1, <1>3 DEF Then, Requests
  <2>2. CASE \E b \in VolRequests : request' = [request EXCEPT ![r].at = "detached", ![r].rows = {b}]
    <3>1. PICK b \in VolRequests : request' = [request EXCEPT ![r].at = "detached", ![r].rows = {b}]
      BY <2>2
    <3> WITNESS [request[r] EXCEPT !.at = "detached", !.rows = {b}]
    <3> QED
      BY <3>1, <1>1, <1>3 DEF Requests
  <2> QED
    BY <1>5, <2>1, <2>2
<1> QED
  BY <1>1, <1>3, <1>4, <1>8, <1>9

LEMMA VolumesTypes ==
    ASSUME VolumesTypeOK, [VolumesNext]_volumes
    PROVE  VolumesTypeOK'
<1>1. CASE UNCHANGED volumes
  BY <1>1 DEF volumes, VolumesTypeOK
<1>2. ASSUME NEW r \in VolRequests, VolumeStep(r)
      PROVE  VolumesTypeOK'
  <2>1. /\ request[r].i \in Servers /\ request[r].v \in SUBSET Vols
        /\ request' \in [VolRequests -> Requests]
    BY <1>2, RequestSteps
  <2>2. vol' \in [Vols -> VolStates]
    <3>1. vol \in [Vols -> VolStates] /\ Unused \in VolStates
      BY DEF VolumesTypeOK, Unused, VolStates
    <3>2. VolState("attaching", NoServer) \in VolStates
      BY DEF VolStates
    <3>3. VolState("in-use", request[r].i) \in VolStates
      BY <2>1 DEF VolStates
    <3>4. ASSUME NEW v \in Vols, vol[v].status \in {"in-use", "detaching"},
                 NEW s \in {"in-use", "detaching"}
          PROVE  [vol[v] EXCEPT !.status = s] \in VolStates
      <4>1. PICK t \in {"in-use", "detaching"}, i \in Servers : vol[v] = VolState(t, i)
        BY <3>1, <3>4 DEF VolStates, VolState
      <4>2. [vol[v] EXCEPT !.status = s] = VolState(s, i)
        BY <4>1 DEF VolState
      <4> QED
        BY <4>2 DEF VolStates
    <3>5. \A V : Detached(V) \in [Vols -> VolStates]
      BY <3>1 DEF Detached
    <3>6. CASE ReserveVolume(r)
      BY <3>1, <3>2, <3>6 DEF ReserveVolume, Reserved
    <3>7. CASE CinderAttach(r) \/ UndoAttach(r)
      BY <3>1, <3>3, <3>5, <3>7 DEF CinderAttach, UndoAttach
    <3>8. CASE UnreserveVolume(r)
      BY <3>1, <3>8, <2>1 DEF UnreserveVolume, Unreserved
    <3>9. CASE BeginDetaching(r)
      <4>1. PICK v \in Vols : \/ UNCHANGED vol
                              \/ /\ vol[v].status = "in-use"
                                 /\ vol' = [vol EXCEPT ![v].status = "detaching"]
        BY <3>9, <2>1 DEF BeginDetaching
      <4> QED
        BY <4>1, <3>1, <3>4
    <3>10. CASE DriverDetach(r)
      <4>1. PICK v \in Vols : \/ UNCHANGED vol
                              \/ vol' = [vol EXCEPT ![v].status = IF @ = "detaching" THEN "in-use" ELSE @]
        BY <3>10, <2>1 DEF DriverDetach
      <4>2. vol[v].status # "detaching" =>
               [vol[v] EXCEPT !.status = IF @ = "detaching" THEN "in-use" ELSE @] = vol[v]
        BY <3>1 DEF VolStates, VolState
      <4> QED
        BY <4>1, <4>2, <3>1, <3>4
    <3>11. CASE DetachEnds(r) \/ ReleaseVolumes(r)
      BY <3>1, <3>5, <3>11 DEF DetachEnds, ReleaseVolumes, CinderDetach
    <3>12. CASE UNCHANGED vol
      BY <3>1, <3>12
    <3> QED
      BY <1>2, <3>1, <3>6, <3>7, <3>8, <3>9, <3>10, <3>11, <3>12
      DEF VolumeStep, ReserveName, DriverAttach, SaveConnection, DestroyRow,
          DetachDestroysRow, BeginDelete, DestroyGuest, CompleteDeletion
  <2>3. rows' \in SUBSET VolRequests
    BY <1>2
    DEF VolumesTypeOK, VolumeStep, ReserveName, ReserveVolume, DriverAttach, SaveConnection,
        CinderAttach, UndoAttach, UnreserveVolume, DestroyRow, BeginDetaching, DriverDetach,
        DetachDestroysRow, DetachEnds, BeginDelete, DestroyGuest, ReleaseVolumes,
        CompleteDeletion
  <2>4. attached' \in [Servers -> SUBSET Vols]
    <3>1. CASE DriverAttach(r)
      BY <3>1, <2>1 DEF VolumesTypeOK, DriverAttach
    <3>5. CASE UndoAttach(r)
      BY <3>5, <2>1 DEF VolumesTypeOK, UndoAttach
    <3>2. CASE DriverDetach(r)
      BY <3>2, <2>1 DEF VolumesTypeOK, DriverDetach
    <3>3. CASE DestroyGuest(r)
      BY <3>3, <2>1 DEF VolumesTypeOK, DestroyGuest
    <3>4. CASE UNCHANGED attached
      BY <3>4 DEF VolumesTypeOK
    <3> QED
      BY <1>2, <3>1, <3>2, <3>3, <3>4, <3>5
      DEF VolumeStep, ReserveName, ReserveVolume, SaveConnection, CinderAttach,
          UnreserveVolume, DestroyRow, BeginDetaching, DetachDestroysRow, DetachEnds, BeginDelete,
          ReleaseVolumes, CompleteDeletion
  <2>5. server' \in [Servers -> ServerStates]
    BY <1>2, <2>1
    DEF VolumesTypeOK, VolumeStep, ReserveName, ReserveVolume, DriverAttach, SaveConnection,
        CinderAttach, UndoAttach, UnreserveVolume, DestroyRow, BeginDetaching, DriverDetach,
        DetachDestroysRow, DetachEnds, BeginDelete, DestroyGuest, ReleaseVolumes,
        CompleteDeletion, ServerStates
  <2> QED
    BY <2>1, <2>2, <2>3, <2>4, <2>5 DEF VolumesTypeOK
<1>3. ASSUME NEW r \in VolRequests, NEW i \in Servers,
             AskDelete(r, i) \/ \E v \in Vols : AskAttach(r, i, v) \/ AskDetach(r, i, v)
      PROVE  VolumesTypeOK'
  <2>1. \A op \in {"attach", "detach"} : \A v \in Vols :
           [Idle EXCEPT !.op = op, !.i = i, !.v = {v}, !.at = "asked"] \in Requests
    BY DEF Requests, Idle, VolSteps, AskedBy
  <2>2. [Idle EXCEPT !.op = "delete", !.i = i, !.at = "asked", !.rows = RowsOf(i)] \in Requests
    BY DEF Requests, Idle, VolSteps, AskedBy, RowsOf, VolumesTypeOK
  <2> QED
    BY <1>3, <2>1, <2>2 DEF AskDelete, AskAttach, AskDetach, VolumesTypeOK
<1> QED
  BY <1>1, <1>2, <1>3 DEF VolumesNext

Promises(r, v) ==
    /\ request[r].op = "attach" /\ v \in request[r].v
    /\ request[r].at \in {"cast", "attached", "saved"} /\ v \notin wronged
Detaches(r, v) ==
    /\ request[r].op = "detach" /\ v \in request[r].v
    /\ request[r].at \in {"cast", "detached", "closed"}
    /\ v \notin wronged /\ HasGuest(request[r].i)

\* A reservation is of one request, from the cast until Cinder is told.
ReservedOnce ==
    \A r \in VolRequests, v \in Vols :
        Promises(r, v) => /\ vol[v] = VolState("attaching", NoServer)
                          /\ \A q \in VolRequests : Promises(q, v) => q = r
\* So is a detach, as long as the server has a guest; once the driver is done
\* nothing attaches the volume again before it is free.
DetachedOnce ==
    \A r \in VolRequests, v \in Vols :
        Detaches(r, v) =>
            /\ vol[v] = VolState("detaching", request[r].i)
            /\ \A q \in VolRequests : Detaches(q, v) => q = r
            /\ request[r].at # "cast" => v \notin attached[request[r].i]
\* A server whose guest is destroyed has nothing attached, and the volumes of
\* a deleted one are let go after that.
GuestFirst ==
    /\ \A i \in Servers : ~HasGuest(i) => attached[i] = {}
    /\ \A r \in VolRequests : request[r].op = "delete"
           /\ request[r].at \in {"destroyed", "released"} => ~HasGuest(request[r].i)
\* A delete that was cast is the only one of its server.
Deletes(r, i) ==
    request[r].op = "delete" /\ request[r].at = "cast" /\ request[r].i = i
DeletedOnce ==
    \A r \in VolRequests, i \in Servers :
        Deletes(r, i) => /\ server[i] = "deleting"
                         /\ \A q \in VolRequests : Deletes(q, i) => q = r
\* What is attached is of one server, and is the server's in Cinder or about to
\* be: then who attached it is still there, and it is promised to nobody else.
Attaches(r, i, v) ==
    /\ request[r].op = "attach" /\ v \in request[r].v /\ request[r].i = i
    /\ request[r].at \in {"attached", "saved", "broken"}
AttachedIsOf ==
    \A i \in Servers : \A v \in attached[i] \ wronged :
        /\ \A j \in Servers \ {i} : v \notin attached[j]
        /\ \/ vol[v].of = i
           \/ /\ vol[v].status = "attaching"
              /\ \E r \in VolRequests : Attaches(r, i, v)
              /\ \A q \in VolRequests : Promises(q, v) => Attaches(q, i, v)
VolumesInv ==
    /\ VolumesTypeOK /\ ReservedOnce /\ DetachedOnce /\ GuestFirst /\ DeletedOnce
    /\ AttachedIsOf

LEMMA VolumesInitially == VolumesInit => VolumesInv
<1> SUFFICES ASSUME VolumesInit PROVE VolumesInv
  OBVIOUS
<1>1. VolumesTypeOK
  BY VolumesTypesInit
<1>2. \A r \in VolRequests : request[r].op = "none"
  BY DEF VolumesInit, Idle
<1>3. ReservedOnce /\ DetachedOnce /\ GuestFirst /\ DeletedOnce /\ AttachedIsOf
  BY <1>2 DEF VolumesInit, ReservedOnce, DetachedOnce, GuestFirst, DeletedOnce,
     AttachedIsOf, Promises, Detaches, Deletes, Attaches, HasGuest
<1> QED
  BY <1>1, <1>3 DEF VolumesInv

\* What is not freed: a volume is of no server, or Cinder detaches it.
LEMMA VolumesAre ==
    ASSUME VolumesTypeOK, NEW v \in Vols
    PROVE  /\ vol[v] = VolState(vol[v].status, vol[v].of)
           /\ vol[v].of = NoServer <=> vol[v].status \in {"available", "attaching"}
           /\ vol[v].of # NoServer <=> vol[v].status \in {"in-use", "detaching"}
           /\ vol[v].of # NoServer => vol[v].of \in Servers
BY VolumesAssumption DEF VolumesTypeOK, VolStates, VolState

LEMMA AsksKeep ==
    ASSUME VolumesInv, NEW r \in VolRequests, NEW i \in Servers,
           AskDelete(r, i) \/ \E v \in Vols : AskAttach(r, i, v) \/ AskDetach(r, i, v)
    PROVE  /\ ReservedOnce' /\ DetachedOnce' /\ GuestFirst' /\ DeletedOnce' /\ AttachedIsOf'
<1>1. /\ UNCHANGED <<vol, attached, server, wronged>>
      /\ request[r].at = "idle" /\ request'[r].at = "asked"
      /\ \A q \in VolRequests \ {r} : request'[q] = request[q]
  <2>1. request \in [VolRequests -> Requests]
    BY DEF VolumesInv, VolumesTypeOK
  <2>2. /\ UNCHANGED <<vol, attached, server, wronged>> /\ request[r] = Idle
        /\ \/ \E R : request' = [request EXCEPT ![r] = [Idle EXCEPT !.op = "delete", !.i = i,
                                                     !.at = "asked", !.rows = R]]
           \/ \E v \in Vols, op \in {"attach", "detach"} :
                 request' = [request EXCEPT ![r] = [Idle EXCEPT !.op = op, !.i = i,
                                                     !.v = {v}, !.at = "asked"]]
    BY DEF AskDelete, AskAttach, AskDetach, Fresh
  <2>3. /\ \A R : [Idle EXCEPT !.op = "delete", !.i = i, !.at = "asked", !.rows = R].at = "asked"
        /\ \A v, op : [Idle EXCEPT !.op = op, !.i = i, !.v = {v}, !.at = "asked"].at = "asked"
        /\ Idle.at = "idle"
    BY DEF Idle
  <2>4. PICK f : f.at = "asked" /\ request' = [request EXCEPT ![r] = f]
    <3>1. CASE \E R : request' = [request EXCEPT ![r] = [Idle EXCEPT !.op = "delete", !.i = i,
                                                          !.at = "asked", !.rows = R]]
      BY <3>1, <2>3
    <3>2. CASE \E v \in Vols, op \in {"attach", "detach"} :
                 request' = [request EXCEPT ![r] = [Idle EXCEPT !.op = op, !.i = i,
                                                     !.v = {v}, !.at = "asked"]]
      BY <3>2, <2>3
    <3> QED
      BY <2>2, <3>1, <3>2
  <2> QED
    BY <2>1, <2>2, <2>3, <2>4
<1> QED
  <2>1. \A q \in VolRequests, v \in Vols, j \in Servers :
           /\ Promises(q, v)' => Promises(q, v) /\ q # r
           /\ Attaches(q, j, v)' <=> Attaches(q, j, v) /\ q # r
           /\ Attaches(r, j, v) <=> FALSE
           /\ Detaches(q, v)' => Detaches(q, v) /\ q # r
    BY <1>1 DEF Promises, Attaches, Detaches, HasGuest
  <2>5. AttachedIsOf /\ attached \in [Servers -> SUBSET Vols]
    BY DEF VolumesInv, VolumesTypeOK
  <2>6. ASSUME NEW j \in Servers, NEW v \in attached[j], v \notin wronged
        PROVE  /\ \A k \in Servers \ {j} : v \notin attached[k]
               /\ \/ vol[v].of = j
                  \/ /\ vol[v].status = "attaching"
                     /\ \E q \in VolRequests : Attaches(q, j, v)'
                     /\ \A q \in VolRequests : Promises(q, v)' => Attaches(q, j, v)'
    <3>1. v \in Vols
      BY <2>5, <2>6
    <3>2. CASE vol[v].of = j
      BY <3>2, <2>5, <2>6 DEF AttachedIsOf
    <3>3. CASE vol[v].of # j
      <4>1. /\ \A k \in Servers \ {j} : v \notin attached[k]
            /\ vol[v].status = "attaching" /\ \E q \in VolRequests : Attaches(q, j, v)
            /\ \A q \in VolRequests : Promises(q, v) => Attaches(q, j, v)
        BY <3>3, <2>5, <2>6 DEF AttachedIsOf
      <4>2. \E q \in VolRequests : Attaches(q, j, v)'
        BY <4>1, <3>1, <2>1
      <4> QED
        BY <4>1, <4>2, <3>1, <2>1
    <3> QED
      BY <3>2, <3>3
  <2>2. AttachedIsOf'
    <3> SUFFICES ASSUME NEW j \in Servers, NEW v \in attached'[j], v \notin wronged'
                 PROVE  /\ \A k \in Servers \ {j} : v \notin attached'[k]
                        /\ \/ vol'[v].of = j
                           \/ /\ vol'[v].status = "attaching"
                              /\ \E q \in VolRequests : Attaches(q, j, v)'
                              /\ \A q \in VolRequests : Promises(q, v)' => Attaches(q, j, v)'
      BY DEF AttachedIsOf
    <3>1. attached' = attached /\ wronged' = wronged /\ vol' = vol
      BY <1>1
    <3>2. v \in attached[j] /\ v \notin wronged
      BY <3>1
    <3> QED
      BY <2>6, <3>1, <3>2
  <2>3. ReservedOnce'
    BY <1>1, <2>1 DEF VolumesInv, ReservedOnce
  <2>7. DeletedOnce'
    <3>1. \A q \in VolRequests, j \in Servers : Deletes(q, j)' => Deletes(q, j)
      BY <1>1 DEF Deletes
    <3>2. DeletedOnce /\ UNCHANGED server
      BY <1>1 DEF VolumesInv
    <3> QED
      BY <3>1, <3>2 DEF DeletedOnce
  <2>8. GuestFirst'
    BY <1>1 DEF VolumesInv, GuestFirst, HasGuest
  <2>4. DetachedOnce'
    BY <1>1, <2>1 DEF VolumesInv, DetachedOnce
  <2> QED
    BY <2>2, <2>3, <2>4, <2>7, <2>8

\* What of a step the invariant depends on.
LEMMA StepFrame ==
    ASSUME VolumesInv, NEW r \in VolRequests, VolumeStep(r)
    PROVE  /\ request \in [VolRequests -> Requests]
           /\ request[r].i \in Servers /\ request[r].v \in SUBSET Vols
           /\ \A v, w \in request[r].v : v = w
           /\ \A q \in VolRequests : /\ request'[q].op = request[q].op
                                     /\ request'[q].i = request[q].i
                                     /\ request'[q].v = request[q].v
                                     /\ q # r => request'[q] = request[q]
           /\ \A s : Then(r, s) => request'[r].at = s
<1>1. request[r] \in Requests /\ request[r] # Idle /\ request \in [VolRequests -> Requests]
  BY RequestSteps DEF VolumesInv, VolumesTypeOK
<1>2. \A v, w \in request[r].v : v = w
  BY <1>1 DEF Requests, AskedBy
<1>3. \A s : Then(r, s) => request'[r].at = s
  BY <1>1 DEF Then, Requests
<1> QED
  BY <1>1, <1>2, <1>3, RequestSteps DEF VolumesInv

LEMMA NoGuestBack ==
    ASSUME VolumesInv, NEW r \in VolRequests, VolumeStep(r)
    PROVE  /\ \A i \in Servers : HasGuest(i)' => HasGuest(i)
           /\ wronged \subseteq wronged'
<1>1. /\ server \in [Servers -> {"active", "deleting", "error", "destroyed", "deleted"}]
      /\ request[r].i \in Servers /\ DeletedOnce
  BY StepFrame DEF VolumesInv, VolumesTypeOK, ServerStates
<1>2. \A i \in Servers : HasGuest(i)' => HasGuest(i)
  <2>1. CASE BeginDelete(r)
    BY <2>1, <1>1 DEF BeginDelete, HasGuest
  <2>2. CASE DestroyGuest(r) \/ CompleteDeletion(r)
    BY <2>2, <1>1 DEF DestroyGuest, CompleteDeletion, HasGuest, DeletedOnce, Deletes, At
  <2>3. CASE UNCHANGED server
    BY <2>3 DEF HasGuest
  <2> QED
    BY <2>1, <2>2, <2>3
    DEF VolumeStep, ReserveName, ReserveVolume, DriverAttach, SaveConnection, CinderAttach, UndoAttach,
        UnreserveVolume, DestroyRow, BeginDetaching, DriverDetach, DetachDestroysRow,
        DetachEnds, ReleaseVolumes
<1>3. wronged \subseteq wronged'
  BY DEF VolumeStep, ReserveName, ReserveVolume, DriverAttach, SaveConnection, CinderAttach, UndoAttach,
        UnreserveVolume, DestroyRow, BeginDetaching, DriverDetach, DetachDestroysRow,
        DetachEnds, BeginDelete, DestroyGuest, ReleaseVolumes, CompleteDeletion,
        CinderDetach, OnBehalfOf
<1> QED
  BY <1>2, <1>3

\* How a step can change a volume.
LEMMA VolumeMoves ==
    ASSUME VolumesInv, NEW r \in VolRequests, VolumeStep(r), NEW v \in Vols, vol'[v] # vol[v]
    PROVE  LET ofOurs == vol[v].of = request[r].i \/ v \in wronged'
           IN \/ /\ ReserveVolume(r) /\ v \in request[r].v
                 /\ vol[v] = Unused /\ vol'[v] = VolState("attaching", NoServer)
              \/ /\ CinderAttach(r) /\ v \in request[r].v
                 /\ vol[v].status = "attaching" /\ vol'[v] = VolState("in-use", request[r].i)
              \/ /\ UnreserveVolume(r) /\ vol[v].status = "attaching"
                 /\ OthersClaim(r, v) => v \in wronged'
              \/ /\ BeginDetaching(r) /\ v \in request[r].v /\ vol[v].status = "in-use"
                 /\ vol'[v] = VolState("detaching", vol[v].of) /\ ofOurs
              \/ /\ DriverDetach(r) /\ v \in request[r].v /\ request'[r].at = "done"
                 /\ vol[v].status = "detaching" /\ vol'[v] = VolState("in-use", vol[v].of)
                 /\ ofOurs
              \/ /\ vol[v].of # NoServer /\ ofOurs
                 /\ \/ ReleaseVolumes(r)
                    \/ DetachEnds(r) /\ v \in request[r].v
                    \/ UndoAttach(r) /\ v \in request[r].v /\ (OthersClaim(r, v) => v \in wronged')
<1> DEFINE Frame ==
        /\ request[r].v \in SUBSET Vols /\ request[r].i \in Servers
        /\ \A s : Then(r, s) => request'[r].at = s
        /\ vol \in [Vols -> VolStates]
        /\ \A w, u \in request[r].v : w = u
        /\ \A w \in Vols : /\ vol[w] = VolState(vol[w].status, vol[w].of)
                           /\ vol[w].of = NoServer <=> vol[w].status \in {"available", "attaching"}
<1>1. Frame
  BY StepFrame, VolumesAre DEF VolumesInv, VolumesTypeOK
<1> HIDE DEF Frame
<1>2. CASE ReserveVolume(r)
  BY <1>1, <1>2 DEF Frame, ReserveVolume, Reserved
<1>3. CASE CinderAttach(r)
  BY <1>1, <1>3 DEF Frame, CinderAttach
<1>4. CASE UnreserveVolume(r)
  BY <1>1, <1>4 DEF Frame, UnreserveVolume, Unreserved
<1>5. CASE BeginDetaching(r)
  <2>1. PICK w \in request[r].v : /\ vol[w].status = "in-use" /\ OnBehalfOf({w}, request[r].i)
                                  /\ vol' = [vol EXCEPT ![w].status = "detaching"]
    BY <1>5 DEF BeginDetaching
  <2>2. w = v /\ vol'[v] = [vol[v] EXCEPT !.status = "detaching"]
    BY <2>1, <1>1 DEF Frame
  <2>3. [vol[v] EXCEPT !.status = "detaching"] = VolState("detaching", vol[v].of)
    BY <1>1 DEF Frame, VolState
  <2>4. vol[v].of = request[r].i \/ v \in wronged'
    BY <1>1, <2>1, <2>2 DEF Frame, OnBehalfOf, OfOthers
  <2> QED
    BY <1>5, <2>1, <2>2, <2>3, <2>4
<1>6. CASE DriverDetach(r)
  <2>1. PICK w \in request[r].v :
           /\ Then(r, "done") /\ OnBehalfOf({w}, request[r].i)
           /\ vol' = [vol EXCEPT ![w].status = IF @ = "detaching" THEN "in-use" ELSE @]
    BY <1>6 DEF DriverDetach
  <2>2. w = v /\ vol'[v] = [vol[v] EXCEPT !.status = IF @ = "detaching" THEN "in-use" ELSE @]
    BY <2>1, <1>1 DEF Frame
  <2>3. vol[v].status # "detaching" => vol'[v] = vol[v]
    BY <2>2, <1>1 DEF Frame, VolState
  <2>4. vol[v].status = "detaching" => vol'[v] = VolState("in-use", vol[v].of)
    BY <2>2, <1>1 DEF Frame, VolState
  <2>5. vol[v].of = request[r].i \/ v \in wronged'
    BY <1>1, <2>1, <2>2, <2>3 DEF Frame, OnBehalfOf, OfOthers
  <2> QED
    BY <1>1, <1>6, <2>1, <2>2, <2>3, <2>4, <2>5 DEF Frame
<1>7. CASE DetachEnds(r)
  BY <1>1, <1>7 DEF Frame, DetachEnds, CinderDetach, Detached, OnBehalfOf, OfOthers
<1>8. CASE UndoAttach(r)
  <2>1. PICK w \in request[r].v : /\ vol' = Detached({w})
                                  /\ OthersClaim(r, w) => w \in wronged'
                                  /\ OfOthers({w}, request[r].i) \subseteq wronged'
    BY <1>8 DEF UndoAttach
  <2>2. w = v /\ vol[v].of # NoServer
    BY <2>1, <1>1 DEF Frame, Detached
  <2> QED
    BY <1>8, <2>1, <2>2 DEF OfOthers
<1>9. CASE ReleaseVolumes(r)
  <2>1. PICK V : CinderDetach(V, request[r].i)
    BY <1>9 DEF ReleaseVolumes
  <2>2. v \in V /\ vol[v].of # NoServer
    BY <2>1, <1>1 DEF Frame, CinderDetach, Detached
  <2> QED
    BY <1>9, <2>1, <2>2 DEF CinderDetach, OnBehalfOf, OfOthers
<1>10. ~UNCHANGED vol
  OBVIOUS
<1> QED
  BY <1>2, <1>3, <1>4, <1>5, <1>6, <1>7, <1>8, <1>9, <1>10
  DEF VolumeStep, ReserveName, DriverAttach, SaveConnection, DestroyRow, DetachDestroysRow,
      BeginDelete, DestroyGuest, CompleteDeletion

\* The driver attaches only what a request was cast for.
LEMMA AttachedMoves ==
    ASSUME VolumesInv, NEW r \in VolRequests, VolumeStep(r),
           NEW i \in Servers, NEW v \in attached'[i], v \notin attached[i]
    PROVE  /\ v \in Vols /\ DriverAttach(r) /\ i = request[r].i /\ v \in request[r].v
           /\ request'[r].at = "attached" /\ UNCHANGED <<vol, wronged>>
<1>1. /\ request[r].v \in SUBSET Vols /\ request[r].i \in Servers
      /\ \A s : Then(r, s) => request'[r].at = s
      /\ attached \in [Servers -> SUBSET Vols]
  BY StepFrame DEF VolumesInv, VolumesTypeOK
<1>2. CASE DriverAttach(r)
  BY <1>1, <1>2 DEF DriverAttach
<1>3. CASE DriverDetach(r) \/ UndoAttach(r) \/ DestroyGuest(r)
  BY <1>1, <1>3 DEF DriverDetach, UndoAttach, DestroyGuest
<1>4. ~UNCHANGED attached
  OBVIOUS
<1> QED
  BY <1>2, <1>3, <1>4 DEF VolumeStep, ReserveName, ReserveVolume, SaveConnection, CinderAttach,
     UnreserveVolume, DestroyRow, BeginDetaching, DetachDestroysRow, DetachEnds, BeginDelete,
     ReleaseVolumes, CompleteDeletion

\* Who promises a volume after a step has done so before, or has reserved it.
LEMMA PromiseMoves ==
    ASSUME VolumesInv, NEW r \in VolRequests, VolumeStep(r),
           NEW q \in VolRequests, NEW v \in Vols, Promises(q, v)'
    PROVE  \/ Promises(q, v)
           \/ /\ q = r /\ ReserveVolume(r) /\ v \in request[r].v
              /\ vol[v] = Unused /\ vol'[v] = VolState("attaching", NoServer)
<1> DEFINE Frame ==
        /\ request[r].v \in SUBSET Vols
        /\ \A w, u \in request[r].v : w = u
        /\ \A p \in VolRequests : /\ request'[p].op = request[p].op
                                  /\ request'[p].v = request[p].v
                                  /\ p # r => request'[p] = request[p]
        /\ \A s : Then(r, s) => request'[r].at = s
        /\ vol \in [Vols -> VolStates] /\ wronged \subseteq wronged'
<1>1. Frame
  BY StepFrame, NoGuestBack DEF VolumesInv, VolumesTypeOK
<1>2. q # r => Promises(q, v)
  BY <1>1 DEF Promises
<1> HIDE DEF Frame
<1>3. q = r => request[r].op = "attach" /\ v \in request[r].v /\ v \notin wronged
               /\ request'[r].at \in {"cast", "attached", "saved"}
  BY <1>1 DEF Frame, Promises
<1>4. CASE q = r /\ ReserveVolume(r)
  BY <1>1, <1>3, <1>4 DEF Frame, ReserveVolume, Reserved
<1>5. CASE q = r /\ ~ReserveVolume(r)
  <2>1. DriverAttach(r) \/ SaveConnection(r)
    BY <1>1, <1>3, <1>5 DEF Frame, VolumeStep, ReserveName, CinderAttach, UndoAttach,
       UnreserveVolume, DestroyRow, BeginDetaching, DriverDetach, DetachDestroysRow,
       DetachEnds, BeginDelete, DestroyGuest, ReleaseVolumes, CompleteDeletion, At
  <2> QED
    BY <1>3, <1>5, <2>1 DEF DriverAttach, SaveConnection, At, Promises
<1> QED
  BY <1>2, <1>4, <1>5

LEMMA ReservedOnceKept ==
    ASSUME VolumesInv, NEW r \in VolRequests, VolumeStep(r)
    PROVE  ReservedOnce'
<1>1. ReservedOnce /\ wronged \subseteq wronged'
  BY NoGuestBack DEF VolumesInv
<1>2. ASSUME NEW q \in VolRequests, NEW v \in Vols, Promises(q, v)'
      PROVE  vol'[v] = VolState("attaching", NoServer)
  <2>1. CASE Promises(q, v) /\ vol'[v] # vol[v]
    <3>1. /\ vol[v].status = "attaching" /\ vol[v].of = NoServer /\ vol[v] # Unused
      BY <2>1, <1>1 DEF ReservedOnce, VolState, Unused
    <3>2. \/ CinderAttach(r) /\ v \in request[r].v
          \/ UnreserveVolume(r) /\ (OthersClaim(r, v) => v \in wronged')
      BY VolumeMoves, <2>1, <3>1
    <3>3. v \notin wronged /\ v \notin wronged'
      BY <1>1, <1>2 DEF Promises
    <3>4. CASE CinderAttach(r) /\ v \in request[r].v
      <4>1. Promises(r, v) /\ request[r].at = "saved"
        BY <3>3, <3>4 DEF CinderAttach, At, Promises
      <4>2. q = r
        BY <4>1, <2>1, <1>1 DEF ReservedOnce
      <4>3. request'[r].at \in {"done", "broken"}
        BY <3>4, StepFrame DEF CinderAttach
      <4> QED
        BY <4>2, <4>3, <1>2 DEF Promises
    <3>5. CASE UnreserveVolume(r) /\ (OthersClaim(r, v) => v \in wronged')
      BY <2>1, <3>3, <3>5 DEF UnreserveVolume, At, Promises, OthersClaim
    <3> QED
      BY <3>2, <3>4, <3>5
  <2> QED
    BY <2>1, <1>1, <1>2, PromiseMoves DEF ReservedOnce
<1>3. ASSUME NEW q \in VolRequests, NEW p \in VolRequests, NEW v \in Vols,
             Promises(q, v)', Promises(p, v)'
      PROVE  p = q
  <2>1. Promises(q, v) => vol[v] # Unused
    BY <1>1 DEF ReservedOnce, VolState, Unused
  <2>2. Promises(p, v) => vol[v] # Unused
    BY <1>1 DEF ReservedOnce, VolState, Unused
  <2>3. Promises(q, v) \/ (q = r /\ vol[v] = Unused)
    BY <1>3, PromiseMoves
  <2>4. Promises(p, v) \/ (p = r /\ vol[v] = Unused)
    BY <1>3, PromiseMoves
  <2> QED
    BY <2>1, <2>2, <2>3, <2>4, <1>1 DEF ReservedOnce
<1> QED
  BY <1>2, <1>3 DEF ReservedOnce

LEMMA GuestFirstKept ==
    ASSUME VolumesInv, NEW r \in VolRequests, VolumeStep(r)
    PROVE  GuestFirst'
<1> DEFINE Frame ==
        /\ \A q \in VolRequests : /\ request'[q].op = request[q].op
                                  /\ request'[q].i = request[q].i
                                  /\ q # r => request'[q] = request[q]
        /\ \A s : Then(r, s) => request'[r].at = s
        /\ request[r].i \in Servers
        /\ attached \in [Servers -> SUBSET Vols]
        /\ server \in [Servers -> {"active", "deleting", "error", "destroyed", "deleted"}]
<1>1. Frame
  BY StepFrame DEF VolumesInv, VolumesTypeOK, ServerStates
<1>2. GuestFirst /\ DeletedOnce
  BY DEF VolumesInv
<1>8. \A q \in VolRequests : request[q].op # "none" => request[q].i \in Servers
  BY DEF VolumesInv, VolumesTypeOK, Requests, Idle
<1> HIDE DEF Frame
<1>3. CASE DestroyGuest(r)
  <2>1. server[request[r].i] = "deleting" /\ request'[r].at \in {"destroyed", "done"}
    BY <1>1, <1>2, <1>3 DEF Frame, DestroyGuest, At, DeletedOnce, Deletes
  <2>2. CASE request'[r].at = "destroyed"
    <3>1. /\ attached' = [attached EXCEPT ![request[r].i] = {}]
          /\ server' = [server EXCEPT ![request[r].i] = "destroyed"]
      BY <1>1, <1>3, <2>2 DEF Frame, DestroyGuest
    <3> QED
      BY <3>1, <1>1, <1>2 DEF Frame, GuestFirst, HasGuest
  <2>3. CASE request'[r].at = "done"
    <3>1. UNCHANGED attached /\ server' = [server EXCEPT ![request[r].i] = "error"]
      BY <1>1, <1>3, <2>3 DEF Frame, DestroyGuest
    <3>2. \A i \in Servers : HasGuest(i)' <=> HasGuest(i)
      BY <3>1, <2>1, <1>1 DEF Frame, HasGuest
    <3> QED
      BY <3>1, <3>2, <2>3, <1>1, <1>2, <1>8 DEF Frame, GuestFirst, HasGuest
  <2> QED
    BY <2>1, <2>2, <2>3
<1>4. CASE BeginDelete(r) \/ CompleteDeletion(r)
  <2>1. UNCHANGED attached /\ request'[r].at \notin {"destroyed", "released"}
    BY <1>1, <1>4 DEF Frame, BeginDelete, CompleteDeletion
  <2>2. CompleteDeletion(r) => ~HasGuest(request[r].i)
    BY <1>2 DEF CompleteDeletion, GuestFirst, At
  <2>3. \A i \in Servers : HasGuest(i)' <=> HasGuest(i)
    BY <2>2, <1>1, <1>4 DEF Frame, BeginDelete, CompleteDeletion, HasGuest
  <2> QED
    BY <2>1, <2>3, <1>1, <1>2, <1>8 DEF Frame, GuestFirst, HasGuest
<1>5. CASE ReleaseVolumes(r)
  BY <1>1, <1>2, <1>5 DEF Frame, ReleaseVolumes, GuestFirst, HasGuest, At
<1>6. CASE DriverAttach(r) \/ UndoAttach(r) \/ DriverDetach(r)
  <2>1. /\ UNCHANGED server /\ request[r].op # "delete"
        /\ \A i \in Servers : ~HasGuest(i) => attached'[i] \subseteq attached[i]
    BY <1>1, <1>6 DEF Frame, DriverAttach, UndoAttach, DriverDetach, At
  <2> QED
    BY <2>1, <1>1, <1>2 DEF Frame, GuestFirst, HasGuest
<1>7. CASE \/ ReserveName(r) \/ ReserveVolume(r) \/ SaveConnection(r) \/ CinderAttach(r)
           \/ UnreserveVolume(r) \/ DestroyRow(r) \/ BeginDetaching(r) \/ DetachDestroysRow(r) \/ DetachEnds(r)
  <2>1. UNCHANGED <<server, attached>> /\ request[r].op # "delete"
    BY <1>7 DEF ReserveName, ReserveVolume, SaveConnection, CinderAttach, UnreserveVolume, DestroyRow,
       BeginDetaching, DetachDestroysRow, DetachEnds, At
  <2> QED
    BY <2>1, <1>1, <1>2 DEF Frame, GuestFirst, HasGuest
<1> QED
  BY <1>3, <1>4, <1>5, <1>6, <1>7 DEF VolumeStep

LEMMA DeletedOnceKept ==
    ASSUME VolumesInv, NEW r \in VolRequests, VolumeStep(r)
    PROVE  DeletedOnce'
<1>1. /\ \A q \in VolRequests : /\ request'[q].op = request[q].op
                                /\ request'[q].i = request[q].i
                                /\ q # r => request'[q] = request[q]
      /\ \A s : Then(r, s) => request'[r].at = s
      /\ request[r].i \in Servers /\ GuestFirst /\ DeletedOnce
      /\ server \in [Servers -> {"active", "deleting", "error", "destroyed", "deleted"}]
  BY StepFrame DEF VolumesInv, VolumesTypeOK, ServerStates
<1>2. ASSUME NEW q \in VolRequests, q # r
      PROVE  \A i \in Servers : Deletes(q, i)' <=> Deletes(q, i)
  <2>1. request'[q] = request[q]
    BY <1>1, <1>2
  <2> QED
    BY <2>1 DEF Deletes
<1>3. CASE BeginDelete(r)
  <2>1. CASE server[request[r].i] = "active"
    <3>1. \A q \in VolRequests : ~Deletes(q, request[r].i)
      BY <2>1, <1>1 DEF DeletedOnce
    <3>2. /\ server'[request[r].i] = "deleting"
          /\ \A i \in Servers : i # request[r].i => server'[i] = server[i] /\ ~Deletes(r, i)'
      BY <2>1, <1>1, <1>3 DEF BeginDelete, Deletes
    <3> QED
      BY <3>1, <3>2, <1>1, <1>2 DEF DeletedOnce
  <2>2. CASE server[request[r].i] # "active"
    <3>1. UNCHANGED server /\ request'[r].at = "done"
      BY <2>2, <1>1, <1>3 DEF BeginDelete
    <3>2. \A i \in Servers : ~Deletes(r, i)'
      BY <3>1 DEF Deletes
    <3> QED
      BY <3>1, <3>2, <1>1, <1>2 DEF DeletedOnce
  <2> QED
    BY <2>1, <2>2
<1>4. CASE DestroyGuest(r)
  <2>1. Deletes(r, request[r].i) /\ \A i \in Servers : ~Deletes(r, i)'
    BY <1>1, <1>4 DEF DestroyGuest, Deletes, At
  <2>2. \A i \in Servers : i # request[r].i => server'[i] = server[i]
    BY <1>1, <1>4 DEF DestroyGuest
  <2> QED
    BY <1>1, <1>2, <2>1, <2>2 DEF DeletedOnce
<1>5. CASE CompleteDeletion(r)
  <2>1. ~HasGuest(request[r].i) /\ \A i \in Servers : ~Deletes(r, i)'
    BY <1>1, <1>5 DEF CompleteDeletion, GuestFirst, Deletes, At
  <2>2. \A i \in Servers : i # request[r].i => server'[i] = server[i]
    BY <1>1, <1>5 DEF CompleteDeletion
  <2> QED
    BY <1>1, <1>2, <2>1, <2>2 DEF DeletedOnce, HasGuest
<1>6. CASE UNCHANGED server /\ ~BeginDelete(r)
  <2>1. ~(request'[r].op = "delete" /\ request'[r].at = "cast")
    BY <1>1, <1>6 DEF VolumeStep, ReserveName, ReserveVolume, DriverAttach, SaveConnection,
       CinderAttach, UndoAttach, UnreserveVolume, DestroyRow, BeginDetaching, DriverDetach,
       DetachDestroysRow, DetachEnds, DestroyGuest, ReleaseVolumes, CompleteDeletion, At
  <2>2. \A i \in Servers : ~Deletes(r, i)'
    BY <2>1 DEF Deletes
  <2> QED
    BY <1>1, <1>2, <1>6, <2>2 DEF DeletedOnce
<1> QED
  BY <1>3, <1>4, <1>5, <1>6
  DEF VolumeStep, ReserveName, ReserveVolume, DriverAttach, SaveConnection, CinderAttach,
      UndoAttach, UnreserveVolume, DestroyRow, BeginDetaching, DriverDetach, DetachDestroysRow,
      DetachEnds, ReleaseVolumes

LEMMA DetachedOnceKept ==
    ASSUME VolumesInv, NEW r \in VolRequests, VolumeStep(r)
    PROVE  DetachedOnce'
<1> DEFINE Frame ==
        /\ request[r].v \in SUBSET Vols /\ request[r].i \in Servers
        /\ \A v, w \in request[r].v : v = w
        /\ \A q \in VolRequests : /\ request'[q].op = request[q].op
                                  /\ request'[q].i = request[q].i
                                  /\ request'[q].v = request[q].v
                                  /\ q # r => request'[q] = request[q]
        /\ \A s : Then(r, s) => request'[r].at = s
        /\ vol \in [Vols -> VolStates] /\ attached \in [Servers -> SUBSET Vols]
        /\ \A q \in VolRequests : request[q].op # "none" => request[q].i \in Servers
        /\ \A i \in Servers : HasGuest(i)' => HasGuest(i)
        /\ wronged \subseteq wronged'
<1>1. Frame
  BY StepFrame, NoGuestBack DEF VolumesInv, VolumesTypeOK, Requests, Idle
<1>2. DetachedOnce /\ ReservedOnce /\ GuestFirst
  BY DEF VolumesInv
<1> HIDE DEF Frame
<1>3. ASSUME NEW q \in VolRequests, NEW v \in Vols, Detaches(q, v)'
      PROVE  /\ request[q].op = "detach" /\ v \in request[q].v /\ v \notin wronged
             /\ v \notin wronged' /\ HasGuest(request[q].i) /\ request[q].i \in Servers
             /\ request'[q].at \in {"cast", "detached", "closed"}
             /\ request'[q].i = request[q].i
  <2>1. /\ request'[q].op = "detach" /\ v \in request'[q].v /\ v \notin wronged'
        /\ HasGuest(request[q].i)' /\ request'[q].at \in {"cast", "detached", "closed"}
    BY <1>1, <1>3 DEF Frame, Detaches, HasGuest
  <2>2. request[q].op = "detach" /\ request[q].i \in Servers
    BY <2>1, <1>1 DEF Frame
  <2> QED
    BY <2>1, <2>2, <1>1 DEF Frame
\* One that goes on detaching, or begins to.
<1>4. ASSUME NEW q \in VolRequests, NEW v \in Vols, Detaches(q, v)'
      PROVE  \/ Detaches(q, v)
             \/ /\ q = r /\ BeginDetaching(r) /\ request'[q].at = "cast"
                /\ vol[v].status = "in-use" /\ vol'[v] = VolState("detaching", request[r].i)
  <2>1. CASE q # r
    BY <1>3, <1>4, <2>1, <1>1 DEF Frame, Detaches
  <2>2. CASE q = r /\ BeginDetaching(r)
    <3>1. /\ vol[v].status = "in-use" /\ request'[r].at = "cast"
          /\ vol' = [vol EXCEPT ![v].status = "detaching"]
      BY <1>1, <1>3, <1>4, <2>2 DEF Frame, BeginDetaching
    <3>2. vol[v] = VolState("in-use", vol[v].of)
      BY <3>1, VolumesAre DEF VolumesInv
    <3>3. vol'[v] = VolState("detaching", vol[v].of) /\ vol'[v] # vol[v]
      BY <3>1, <3>2, <1>1 DEF Frame, VolState
    <3>4. vol[v].of = request[r].i
      BY <3>1, <3>3, <1>3, <1>4, VolumeMoves, <2>2
      DEF ReserveVolume, CinderAttach, UnreserveVolume, DriverDetach, ReleaseVolumes, DetachEnds,
          UndoAttach, BeginDetaching, At
    <3> QED
      BY <2>2, <3>1, <3>3, <3>4
  <2>3. CASE q = r /\ ~BeginDetaching(r)
    <3>1. DriverDetach(r) \/ DetachDestroysRow(r)
      BY <1>1, <1>3, <1>4, <2>3 DEF Frame, VolumeStep, ReserveName, ReserveVolume, DriverAttach,
         SaveConnection, CinderAttach, UndoAttach, UnreserveVolume, DestroyRow, DetachEnds,
         BeginDelete, DestroyGuest, ReleaseVolumes, CompleteDeletion, At
    <3>2. request[r].at \in {"cast", "detached"}
      BY <3>1 DEF DriverDetach, DetachDestroysRow, At
    <3> QED
      BY <3>2, <2>3, <1>3, <1>4 DEF Detaches
  <2> QED
    BY <2>1, <2>2, <2>3
\* What is detached is taken by no other step, nor attached again.
<1>5. ASSUME NEW q \in VolRequests, NEW v \in Vols, Detaches(q, v)', Detaches(q, v)
      PROVE  /\ vol'[v] = vol[v]
             /\ request'[q].at # "cast" => v \notin attached'[request[q].i]
  <2>1. /\ vol[v] = VolState("detaching", request[q].i)
        /\ request[q].at # "cast" => v \notin attached[request[q].i]
        /\ \A p \in VolRequests : Detaches(p, v) => p = q
    BY <1>5, <1>2 DEF DetachedOnce
  <2>2. /\ vol[v].status = "detaching" /\ vol[v].of = request[q].i /\ vol[v].of # NoServer
        /\ v \notin wronged /\ v \notin wronged' /\ HasGuest(request[q].i)
        /\ request[q].i \in Servers
    BY <2>1, <1>3, <1>5, VolumesAssumption DEF VolState
  <2>6. vol[v] # Unused
    BY <2>2 DEF Unused, VolState
  <2>3. ASSUME vol'[v] # vol[v]
        PROVE  FALSE
    <3>1. /\ request[r].i = request[q].i
          /\ \/ DriverDetach(r) /\ v \in request[r].v /\ request'[r].at = "done"
             \/ ReleaseVolumes(r)
             \/ DetachEnds(r) /\ v \in request[r].v
             \/ UndoAttach(r) /\ (OthersClaim(r, v) => v \in wronged')
      BY <2>2, <2>3, <2>6, VolumeMoves
    <3>2. CASE ReleaseVolumes(r)
      BY <3>1, <3>2, <2>2, <1>2 DEF ReleaseVolumes, At, GuestFirst
    <3>3. CASE UndoAttach(r) /\ (OthersClaim(r, v) => v \in wronged')
      BY <3>3, <2>2, <1>5 DEF UndoAttach, At, OthersClaim, Detaches
    <3>4. CASE (DriverDetach(r) \/ DetachEnds(r)) /\ v \in request[r].v
      <4>1. Detaches(r, v)
        BY <3>1, <3>4, <2>2 DEF DriverDetach, DetachEnds, At, Detaches
      <4>2. q = r /\ request'[r].at = "done"
        BY <4>1, <3>1, <3>4, <2>1, <1>1 DEF Frame, DetachEnds, DriverDetach, ReleaseVolumes,
           UndoAttach, At
      <4> QED
        BY <4>2, <1>5 DEF Detaches
    <3> QED
      BY <3>1, <3>2, <3>3, <3>4
  <2>4. CASE v \notin attached[request[q].i]
    <3>1. ASSUME v \in attached'[request[q].i]
          PROVE  FALSE
      <4>1. DriverAttach(r) /\ v \in request[r].v
        BY <2>2, <2>4, <3>1, AttachedMoves
      <4>2. Promises(r, v)
        BY <4>1, <2>2 DEF DriverAttach, At, Promises
      <4> QED
        BY <4>2, <2>2, <1>2 DEF ReservedOnce, VolState
    <3> QED
      BY <2>3, <3>1
  <2>5. CASE request'[q].at # "cast" /\ request[q].at = "cast"
    <3>1. q = r /\ request[r].op = "detach" /\ request'[r].at # "done"
      BY <2>5, <1>1, <1>3, <1>5 DEF Frame
    <3>2. DriverDetach(r)
      BY <3>1, <2>5 DEF VolumeStep, ReserveName, ReserveVolume, DriverAttach, SaveConnection,
         CinderAttach, UndoAttach, UnreserveVolume, DestroyRow, BeginDetaching, DetachDestroysRow,
         DetachEnds, BeginDelete, DestroyGuest, ReleaseVolumes, CompleteDeletion, At
    <3> QED
      BY <3>1, <3>2, <2>3, <1>1, <1>3, <1>5 DEF Frame, DriverDetach
  <2> QED
    BY <2>1, <2>3, <2>4, <2>5
<1>6. ASSUME NEW q \in VolRequests, NEW v \in Vols, Detaches(q, v)'
      PROVE  /\ vol'[v] = VolState("detaching", request'[q].i)
             /\ request'[q].at # "cast" => v \notin attached'[request'[q].i]
  BY <1>2, <1>3, <1>4, <1>5, <1>6 DEF DetachedOnce
<1>7. ASSUME NEW q \in VolRequests, NEW p \in VolRequests, NEW v \in Vols,
             Detaches(q, v)', Detaches(p, v)'
      PROVE  p = q
  <2>1. ASSUME NEW o \in VolRequests, Detaches(o, v)
        PROVE  vol[v].status = "detaching"
    <3>1. vol[v] = VolState("detaching", request[o].i)
      BY <1>2, <2>1 DEF DetachedOnce
    <3> QED
      BY <3>1 DEF VolState
  <2>2. Detaches(q, v) \/ (q = r /\ vol[v].status = "in-use")
    BY <1>4, <1>7
  <2>3. Detaches(p, v) \/ (p = r /\ vol[v].status = "in-use")
    BY <1>4, <1>7
  <2> QED
    BY <2>1, <2>2, <2>3, <1>2 DEF DetachedOnce
<1> QED
  BY <1>6, <1>7 DEF DetachedOnce

LEMMA AttachedIsOfKept ==
    ASSUME VolumesInv, NEW r \in VolRequests, VolumeStep(r)
    PROVE  AttachedIsOf'
<1> DEFINE Frame ==
        /\ request[r].v \in SUBSET Vols /\ request[r].i \in Servers
        /\ \A v, w \in request[r].v : v = w
        /\ \A q \in VolRequests : /\ request'[q].op = request[q].op
                                  /\ request'[q].i = request[q].i
                                  /\ request'[q].v = request[q].v
                                  /\ q # r => request'[q] = request[q]
        /\ \A s : Then(r, s) => request'[r].at = s
        /\ vol \in [Vols -> VolStates] /\ attached \in [Servers -> SUBSET Vols]
        /\ wronged \subseteq wronged'
<1>1. Frame
  BY StepFrame, NoGuestBack DEF VolumesInv, VolumesTypeOK, Requests, Idle
<1>2. ReservedOnce /\ DetachedOnce /\ GuestFirst /\ AttachedIsOf
  BY DEF VolumesInv
<1> HIDE DEF Frame
<1>3. \A q \in VolRequests : \A i, v : q # r => (Attaches(q, i, v)' <=> Attaches(q, i, v))
  BY <1>1 DEF Frame, Attaches
\* Who attaches a volume had it promised, and it was attached to nobody.
<1>4. ASSUME NEW i \in Servers, NEW v \in attached'[i], v \notin wronged', v \notin attached[i]
      PROVE  /\ v \in Vols /\ DriverAttach(r) /\ i = request[r].i /\ Promises(r, v)
             /\ Attaches(r, i, v)' /\ UNCHANGED vol
             /\ vol[v] = VolState("attaching", NoServer)
             /\ \A j \in Servers : v \notin attached[j]
  <2>1. /\ v \in Vols /\ DriverAttach(r) /\ i = request[r].i /\ v \in request[r].v
        /\ request'[r].at = "attached" /\ UNCHANGED vol /\ v \notin wronged
    BY <1>4, AttachedMoves
  <2>2. Promises(r, v) /\ request[r].at = "cast"
    BY <2>1 DEF DriverAttach, At, Promises
  <2>3. vol[v] = VolState("attaching", NoServer)
    BY <2>1, <2>2, <1>2 DEF ReservedOnce
  <2>4. Attaches(r, i, v)'
    BY <2>1, <2>2, <1>1 DEF Frame, Attaches, Promises
  <2>5. \A j \in Servers : v \notin attached[j]
    BY <2>1, <2>2, <2>3, <1>2, VolumesAssumption DEF AttachedIsOf, Attaches, VolState
  <2> QED
    BY <2>1, <2>2, <2>3, <2>4, <2>5
<1>5. SUFFICES ASSUME NEW i \in Servers, NEW v \in attached'[i], v \notin wronged'
               PROVE  /\ \A j \in Servers \ {i} : v \notin attached'[j]
                      /\ \/ vol'[v].of = i
                         \/ /\ vol'[v].status = "attaching"
                            /\ \E q \in VolRequests : Attaches(q, i, v)'
                            /\ \A q \in VolRequests : Promises(q, v)' => Attaches(q, i, v)'
  BY DEF AttachedIsOf
<1>6. v \in Vols /\ v \notin wronged
  <2>1. attached' \in [Servers -> SUBSET Vols]
    BY VolumesTypes DEF VolumesInv, VolumesTypeOK, VolumesNext
  <2> QED
    BY <2>1, <1>1, <1>5 DEF Frame
<1>7. \A j \in Servers \ {i} : v \notin attached'[j]
  <2> SUFFICES ASSUME NEW j \in Servers \ {i}, v \in attached'[j]
               PROVE  FALSE
    OBVIOUS
  <2>1. v \in attached[i] \/ v \in attached[j]
    BY <1>4, <1>5
  <2>2. v \in attached[i] /\ v \in attached[j]
    BY <1>4, <1>5, <2>1
  <2> QED
    BY <2>2, <1>2, <1>6 DEF AttachedIsOf
<1>8. CASE v \notin attached[i]
  <2>1. /\ Promises(r, v) /\ Attaches(r, i, v)' /\ DriverAttach(r)
        /\ vol'[v] = VolState("attaching", NoServer)
    BY <1>4, <1>5, <1>8
  <2>2. \A q \in VolRequests : Promises(q, v)' => q = r
    BY <2>1, <1>2, <1>6, PromiseMoves DEF ReservedOnce, Unused, VolState
  <2> QED
    BY <1>7, <2>1, <2>2 DEF VolState
\* What Cinder has as the server's.
<1>9. CASE v \in attached[i] /\ vol[v].of = i
  <2>1. vol[v].status \in {"in-use", "detaching"} /\ HasGuest(i) /\ i # NoServer
    BY <1>6, <1>9, <1>2, VolumesAre, VolumesAssumption DEF VolumesInv, GuestFirst
  <2>3. vol[v] # Unused /\ \A s : VolState(s, i).of = i
    BY <2>1 DEF Unused, VolState
  <2>2. CASE vol'[v] # vol[v] /\ vol'[v].of # i
    <3>1. /\ request[r].i = i
          /\ \/ ReleaseVolumes(r)
             \/ DetachEnds(r) /\ v \in request[r].v
             \/ UndoAttach(r) /\ v \in request[r].v
      BY <1>5, <1>6, <1>9, <2>1, <2>2, <2>3, VolumeMoves
    <3>2. CASE ReleaseVolumes(r)
      BY <3>1, <3>2, <2>1, <1>2 DEF ReleaseVolumes, At, GuestFirst
    <3>3. CASE DetachEnds(r) /\ v \in request[r].v
      BY <3>1, <3>3, <2>1, <1>2, <1>6, <1>9 DEF DetachEnds, At, DetachedOnce, Detaches
    <3>4. CASE UndoAttach(r) /\ v \in request[r].v
      BY <3>1, <3>4, <1>1, <1>5, <1>6 DEF Frame, UndoAttach
    <3> QED
      BY <3>1, <3>2, <3>3, <3>4
  <2> QED
    BY <1>7, <1>9, <2>2
\* What is about to be, by somebody who is still there.
<1>10. CASE /\ v \in attached[i] /\ vol[v].status = "attaching"
            /\ \E q \in VolRequests : Attaches(q, i, v)
            /\ \A q \in VolRequests : Promises(q, v) => Attaches(q, i, v)
  <2>1. PICK w \in VolRequests : Attaches(w, i, v)
    BY <1>10
  <2>2. CASE vol'[v] # vol[v]
    <3>1. \/ CinderAttach(r) /\ v \in request[r].v /\ vol'[v] = VolState("in-use", request[r].i)
          \/ UnreserveVolume(r) /\ (OthersClaim(r, v) => v \in wronged')
      BY <1>6, <1>10, <2>2, VolumeMoves, VolumesAre DEF VolumesInv, Unused, VolState
    <3>2. CASE CinderAttach(r) /\ v \in request[r].v /\ vol'[v] = VolState("in-use", request[r].i)
      <4>1. Promises(r, v)
        BY <1>6, <3>2 DEF CinderAttach, At, Promises
      <4>2. request[r].i = i
        BY <4>1, <1>10 DEF Attaches
      <4> QED
        BY <1>7, <3>2, <4>2 DEF VolState
    <3>3. CASE UnreserveVolume(r) /\ (OthersClaim(r, v) => v \in wronged')
      BY <1>5, <2>1, <3>3 DEF UnreserveVolume, At, Attaches, OthersClaim
    <3> QED
      BY <3>1, <3>2, <3>3
  <2>3. CASE vol'[v] = vol[v]
    <3>1. ASSUME NEW q \in VolRequests, Attaches(q, i, v)
          PROVE  Attaches(q, i, v)'
      <4>1. CASE q = r
        <5>1. SaveConnection(r) \/ CinderAttach(r) \/ UndoAttach(r)
          BY <3>1, <4>1 DEF VolumeStep, ReserveName, ReserveVolume, DriverAttach,
             UnreserveVolume, DestroyRow, BeginDetaching, DriverDetach, DetachDestroysRow,
             DetachEnds, BeginDelete, DestroyGuest, ReleaseVolumes, CompleteDeletion, At, Attaches
        <5>2. CASE SaveConnection(r)
          BY <3>1, <4>1, <5>2, <1>1 DEF Frame, SaveConnection, Attaches
        <5>3. CASE CinderAttach(r)
          <6>1. v \in request[r].v /\ \A u \in request[r].v : u = v
            BY <3>1, <4>1, <1>1 DEF Frame, Attaches
          <6>2. (CHOOSE u \in request[r].v : TRUE) = v
            BY <6>1
          <6>3. vol' = [vol EXCEPT ![v] = VolState("in-use", i)] => vol'[v].status = "in-use"
            BY <1>1, <1>6 DEF Frame, VolState
          <6>4. request[r].i = i
            BY <3>1, <4>1 DEF Attaches
          <6>5. Then(r, "broken")
            BY <5>3, <6>1, <6>2, <6>3, <6>4, <2>3, <1>10 DEF CinderAttach
          <6> QED
            BY <6>5, <3>1, <4>1, <1>1 DEF Frame, Attaches
        <5>4. CASE UndoAttach(r)
          BY <3>1, <4>1, <5>4, <1>1, <1>5, <1>6 DEF Frame, UndoAttach, Attaches
        <5> QED
          BY <5>1, <5>2, <5>3, <5>4
      <4> QED
        BY <3>1, <4>1, <1>3
    <3>2. \A q \in VolRequests : Promises(q, v)' => Promises(q, v)
      BY <1>6, <1>10, PromiseMoves DEF Unused, VolState
    <3> QED
      BY <1>7, <1>10, <2>1, <2>3, <3>1, <3>2
  <2> QED
    BY <2>2, <2>3
<1> QED
  BY <1>2, <1>5, <1>6, <1>8, <1>9, <1>10 DEF AttachedIsOf

\* What is attached to the guest of a server Cinder gives to nobody else.
LEMMA AttachedAlone == VolumesInv => OneAttachment
<1> SUFFICES ASSUME VolumesInv, NEW i \in Servers, NEW v \in attached[i], v \notin wronged
             PROVE  /\ \A j \in Servers \ {i} : v \notin attached[j]
                    /\ vol[v] \notin {Unused} \cup {VolState("in-use", j) : j \in Servers \ {i}}
  BY DEF OneAttachment
<1>1. AttachedIsOf
  BY DEF VolumesInv
<1>2. vol[v] # Unused /\ \A j \in Servers \ {i} : vol[v] # VolState("in-use", j)
  BY <1>1, VolumesAssumption DEF AttachedIsOf, Unused, VolState
<1> QED
  BY <1>1, <1>2 DEF AttachedIsOf

\* Reservations and detaches are of one request each, guests go before the
\* volumes do, and what is attached is Cinder's for the same server: reserve_volume,
\* begin_detaching, _shutdown_instance and the attach and detach of the manager.
THEOREM VolumesInvariant == VolumesSpec => []VolumesInv
<1>1. ASSUME VolumesInv, [VolumesNext]_volumes
      PROVE  VolumesInv'
  <2>1. VolumesTypeOK'
    BY <1>1, VolumesTypes DEF VolumesInv
  <2>2. CASE UNCHANGED volumes
    BY <1>1, <2>2 DEF volumes, VolumesInv, VolumesTypeOK, ReservedOnce, DetachedOnce,
       GuestFirst, DeletedOnce, AttachedIsOf, Promises, Detaches, Deletes, Attaches, HasGuest
  <2>3. ASSUME NEW r \in VolRequests, VolumeStep(r)
        PROVE  VolumesInv'
    BY <1>1, <2>1, <2>3, ReservedOnceKept, DetachedOnceKept, GuestFirstKept,
       DeletedOnceKept, AttachedIsOfKept
    DEF VolumesInv
  <2>4. ASSUME NEW r \in VolRequests, NEW i \in Servers,
               AskDelete(r, i) \/ \E v \in Vols : AskAttach(r, i, v) \/ AskDetach(r, i, v)
        PROVE  VolumesInv'
    BY <1>1, <2>1, <2>4, AsksKeep DEF VolumesInv
  <2> QED
    BY <1>1, <2>2, <2>3, <2>4 DEF VolumesNext
<1> QED
  BY VolumesInitially, <1>1, PTL DEF VolumesSpec

\* The property the runs check, for any number of servers, volumes and
\* requests: a volume is attached to one guest at most, and Cinder gives what a
\* guest has attached to nobody else.
THEOREM AttachedToOne == VolumesSpec => []OneAttachment
BY VolumesInvariant, AttachedAlone, PTL
-----------------------------------------------------------------------------
(* Shelving.                                                               *)

Hosts == ShelveHosts \cup {NoHost}
Kept == ShelveUsers \cup {NoImage}
VmStates == {"active", "shelved", "offloaded", "error"}
Rows == [vm : VmStates, task : {"none", "deleting"} \cup ShelvingTasks, host : Hosts,
         image : Kept, gone : BOOLEAN]
ThreadSteps == {"idle", "asked", "listed", "cast", "imageless", "scheduled", "done"} \cup Working
ThreadStates == [op : {"none", "shelve", "offload", "unshelve", "delete"},
                 at : ThreadSteps, host : Hosts, image : Kept, vm : VmStates]
ShelvingTypeOK ==
    /\ row \in Rows
    /\ thread \in [Threads -> ThreadStates]
    /\ thread[Poll].op \in {"none", "offload"}
    /\ overtaken \in BOOLEAN

\* What the steps of a request that has set its task find the row like.
Live(r) ==
    /\ thread[r].op \in {"shelve", "offload", "unshelve"}
    /\ thread[r].at \notin {"idle", "asked", "listed", "done"}
Respawning == \/ row.vm = "offloaded" /\ row.task = "spawning"
              \/ row.vm = "error" /\ row.task = "none"
Fits(r) ==
    \/ /\ thread[r].op = "shelve" /\ row.vm = "active"
       /\ \/ thread[r].at \in {"cast", "left"} /\ row.task = "shelving"
          \/ thread[r].at = "uploading" /\ row.task = "shelving_uploading"
    \/ /\ row.vm = "shelved" /\ row.task = "shelving_offloading"
       /\ \/ thread[r].op = "shelve" /\ thread[r].at \in {"shelved", "destroyed"}
          \/ thread[r].op = "offload" /\ thread[r].at \in {"cast", "left", "destroyed"}
    \/ /\ thread[r].op = "unshelve"
       /\ \/ /\ thread[r].at \in {"cast", "left"} /\ row.task = "unshelving"
             /\ row.vm \in {"shelved", "offloaded"} /\ thread[r].vm = row.vm
          \/ /\ thread[r].at \in {"left", "starting", "up", "dropped"} /\ row.task = "powering_on"
             /\ row.vm = "shelved" /\ thread[r].vm = "shelved" /\ thread[r].host = row.host
          \/ /\ thread[r].at = "scheduled" /\ row.task = "unshelving"
             /\ row.vm = "offloaded" /\ thread[r].vm = "offloaded"
          \/ thread[r].at = "spawning" /\ Respawning /\ thread[r].vm = "offloaded"
          \/ /\ thread[r].at \in {"claimed", "up", "dropped"} /\ Respawning
             /\ thread[r].vm = "offloaded" /\ thread[r].host = row.host
ComesBack(r) == On(r, "unshelve", "up") \/ On(r, "unshelve", "dropped")

\* One request at a time has a task, and the image is dropped by one that has
\* brought the guest back.
OneTask ==
    /\ ~row.gone
    /\ \A r \in Threads : Live(r) => Fits(r) /\ \A q \in Threads : Live(q) => q = r
DataSomewhere ==
    /\ row.vm = "active" => row.host \in guests
    /\ row.vm \in {"shelved", "offloaded"} =>
          row.image \in images \/ \E r \in Threads : On(r, "unshelve", "dropped")
    /\ row.vm = "error" => row.host \in guests \/ row.image \in images
    /\ \A r \in Threads : /\ ComesBack(r) => row.host \in guests
                          /\ thread[r].op = "unshelve" /\ thread[r].at \in {"spawning", "claimed"}
                             => row.image \in images
Regular == ~overtaken /\ ~DeleteBegun
ShelvingInv == ShelvingTypeOK /\ (Regular => OneTask /\ DataSomewhere)

\* How a step of a request changes it.
LEMMA ThreadGoes ==
    ASSUME ShelvingTypeOK, NEW r \in Threads, NEW s \in ThreadSteps
    PROVE  /\ GoesTo(r, s) =>
                /\ thread' \in [Threads -> ThreadStates]
                /\ \A q \in Threads : thread'[q].op = thread[q].op
                                     /\ (q # r => thread'[q] = thread[q])
                /\ thread'[r].at = s /\ thread'[r].host = thread[r].host
                /\ thread'[r].image = thread[r].image /\ thread'[r].vm = thread[r].vm
           /\ GoesOn(r, s) =>
                /\ thread' \in [Threads -> ThreadStates]
                /\ \A q \in Threads : thread'[q].op = thread[q].op
                                     /\ (q # r => thread'[q] = thread[q])
                /\ thread'[r].at = s /\ thread'[r].host = row.host
                /\ thread'[r].image = row.image /\ thread'[r].vm = row.vm
<1>1. thread \in [Threads -> ThreadStates] /\ row \in Rows
  BY DEF ShelvingTypeOK
<1>2. ASSUME GoesTo(r, s)
      PROVE  /\ thread' \in [Threads -> ThreadStates]
             /\ \A q \in Threads : thread'[q].op = thread[q].op
                                  /\ (q # r => thread'[q] = thread[q])
             /\ thread'[r].at = s /\ thread'[r].host = thread[r].host
             /\ thread'[r].image = thread[r].image /\ thread'[r].vm = thread[r].vm
  BY <1>1, <1>2 DEF GoesTo, ThreadStates
<1>3. ASSUME GoesOn(r, s)
      PROVE  /\ thread' \in [Threads -> ThreadStates]
             /\ \A q \in Threads : thread'[q].op = thread[q].op
                                  /\ (q # r => thread'[q] = thread[q])
             /\ thread'[r].at = s /\ thread'[r].host = row.host
             /\ thread'[r].image = row.image /\ thread'[r].vm = row.vm
  BY <1>1, <1>3 DEF GoesOn, ThreadStates, Rows
<1> QED
  BY <1>2, <1>3

\* Every step of a request takes it somewhere, whatever it finds.
LEMMA ThreadsStep ==
    ASSUME ShelvingTypeOK, NEW r \in Threads, Proceeds(r)
    PROVE  /\ thread' \in [Threads -> ThreadStates]
           /\ \A q \in Threads : thread'[q].op = thread[q].op
                                /\ (q # r => thread'[q] = thread[q])
           /\ thread[r].op # "none" /\ thread'[r].at \notin {"idle", "asked", "listed"}
<1>1. CASE \E h \in ShelveHosts : Scheduled(r, h)
  <2>1. thread \in [Threads -> ThreadStates]
    BY DEF ShelvingTypeOK
  <2>2. PICK h \in ShelveHosts :
           /\ thread[r].op = "unshelve"
           /\ thread' = [thread EXCEPT ![r] = [thread[r] EXCEPT !.at = "scheduled", !.host = h]]
    BY <1>1 DEF Scheduled, On
  <2>3. [thread[r] EXCEPT !.at = "scheduled", !.host = h] \in ThreadStates
    BY <2>1 DEF ThreadStates, ThreadSteps, Hosts
  <2>4. /\ [thread[r] EXCEPT !.at = "scheduled", !.host = h].op = thread[r].op
        /\ [thread[r] EXCEPT !.at = "scheduled", !.host = h].at = "scheduled"
    BY <2>1 DEF ThreadStates
  <2> QED
    BY <2>1, <2>2, <2>3, <2>4
<1>2. CASE ~\E h \in ShelveHosts : Scheduled(r, h)
  <2>1. \E s \in ThreadSteps \ {"idle", "asked", "listed"} : GoesTo(r, s) \/ GoesOn(r, s)
    BY <1>2 DEF Proceeds, SetTask, SetsTask, UploadBegins, Shelved, ShelveFails, Destroy,
       OffloadFails, Offloaded, StartAgain, NotUnshelved, PowerOn, Spawning, ClaimForUnshelve,
       SpawnShelved, UnshelveFails, DropImage, Unshelved, DeleteDropsImage, MarkDeleting,
       LocalDelete, TerminateGuest, TerminateFails, TerminateRow, OrStranded, Expecting, Reverts, ThreadSteps, Working
  <2>2. thread[r].op # "none"
    <3>1. CASE SetTask(r)
      BY <3>1 DEF SetTask, Allowed
    <3>2. CASE \/ UploadBegins(r) \/ Shelved(r) \/ ShelveFails(r) \/ Destroy(r)
               \/ OffloadFails(r) \/ Offloaded(r) \/ StartAgain(r) \/ NotUnshelved(r)
      BY <3>2 DEF UploadBegins, Shelved, ShelveFails, Destroy, OffloadFails, Offloaded,
         StartAgain, NotUnshelved, ToOffload, On
    <3>3. CASE \/ PowerOn(r) \/ Spawning(r) \/ ClaimForUnshelve(r) \/ SpawnShelved(r)
               \/ UnshelveFails(r) \/ DropImage(r) \/ Unshelved(r)
      BY <3>3 DEF PowerOn, Spawning, ClaimForUnshelve, SpawnShelved, UnshelveFails,
         DropImage, Unshelved, On
    <3>4. CASE \/ DeleteDropsImage(r) \/ MarkDeleting(r) \/ LocalDelete(r)
               \/ TerminateGuest(r) \/ TerminateFails(r) \/ TerminateRow(r)
      BY <3>4 DEF DeleteDropsImage, MarkDeleting, LocalDelete, TerminateGuest, TerminateFails, TerminateRow, On
    <3> QED
      BY <1>2, <3>1, <3>2, <3>3, <3>4 DEF Proceeds
  <2> QED
    BY <2>1, <2>2, ThreadGoes
<1> QED
  BY <1>1, <1>2

LEMMA RowTypes ==
    ASSUME ShelvingTypeOK, NEW r \in Threads, Proceeds(r)
    PROVE  row' \in Rows
<1>1. row \in Rows /\ thread[r] \in ThreadStates
  BY DEF ShelvingTypeOK
<1>2. \A q \in Threads : Reverts(q) => row' \in Rows
  BY <1>1 DEF Reverts, Rows
<1>3. \A q \in Threads : \A T, s : \A changed \in Rows : Expecting(q, T, changed, s) => row' \in Rows
  BY <1>1 DEF Expecting, Saves
<1>14. \A q \in Threads : \A T, s : \A changed \in Rows : OrStranded(q, T, changed, s) => row' \in Rows
  BY <1>3 DEF OrStranded, Saves
<1>4. CASE SetTask(r)
  <2>1. \A t \in {"shelving", "shelving_offloading", "unshelving"} : [row EXCEPT !.task = t] \in Rows
    BY <1>1 DEF Rows, ShelvingTasks
  <2>2. thread[r].op \in DOMAIN Allowed
    BY <1>4 DEF SetTask
  <2>3. [row EXCEPT !.task = TaskOf[thread[r].op]] \in Rows
    BY <2>1, <2>2 DEF Allowed, TaskOf
  <2> QED
    BY <1>4, <1>14, <2>3 DEF SetTask, SetsTask
<1>5. CASE UploadBegins(r)
  <2>1. [row EXCEPT !.task = "shelving_uploading"] \in Rows
    BY <1>1 DEF Rows, ShelvingTasks
  <2> QED
    BY <1>3, <1>5, <2>1 DEF UploadBegins
<1>6. CASE Shelved(r)
  <2>1. r # Poll
    BY <1>6, ShelvingAssumption DEF Shelved, On, ShelvingTypeOK
  <2>2. r \in Kept
    BY <2>1 DEF Kept, Threads
  <2>3. \A t \in {"none", "shelving_offloading"} :
           [row EXCEPT !.vm = "shelved", !.image = r, !.task = t] \in Rows
    BY <1>1, <2>2 DEF Rows, ShelvingTasks, VmStates
  <2>4. [row EXCEPT !.vm = "shelved", !.image = r, !.task = IF OffloadTime = "at once"
                    THEN "shelving_offloading" ELSE "none"] \in Rows
    BY <2>3
  <2> QED
    BY <1>3, <1>6, <2>4 DEF Shelved
<1>7. CASE Offloaded(r)
  <2>1. [row EXCEPT !.vm = "offloaded", !.host = NoHost, !.task = "none"] \in Rows
    BY <1>1 DEF Rows, VmStates, Hosts
  <2> QED
    BY <1>3, <1>7, <2>1 DEF Offloaded
<1>8. CASE StartAgain(r)
  <2>1. [row EXCEPT !.task = "powering_on"] \in Rows
    BY <1>1 DEF Rows, ShelvingTasks
  <2> QED
    BY <1>8, <1>14, <2>1 DEF StartAgain
<1>9. CASE Unshelved(r)
  <2>1. [row EXCEPT !.vm = "active", !.task = "none", !.image = NoImage] \in Rows
    BY <1>1 DEF Rows, VmStates, Kept
  <2> QED
    BY <1>3, <1>9, <2>1 DEF Unshelved
<1>10. CASE NotUnshelved(r)
  BY <1>1, <1>10 DEF NotUnshelved, Rows, VmStates
<1>11. CASE Spawning(r) \/ ClaimForUnshelve(r)
  BY <1>1, <1>11 DEF Spawning, ClaimForUnshelve, Saves, Rows, ShelvingTasks, ThreadStates
<1>12. CASE MarkDeleting(r) \/ LocalDelete(r) \/ TerminateFails(r) \/ TerminateRow(r)
  BY <1>1, <1>12 DEF MarkDeleting, LocalDelete, TerminateFails, TerminateRow, Saves, Rows,
     VmStates
<1>13. CASE ShelveFails(r) \/ OffloadFails(r) \/ UnshelveFails(r)
  BY <1>2, <1>13 DEF ShelveFails, OffloadFails, UnshelveFails
<1> QED
  BY <1>1, <1>4, <1>5, <1>6, <1>7, <1>8, <1>9, <1>10, <1>11, <1>12, <1>13
  DEF Proceeds, Destroy, Scheduled, PowerOn, SpawnShelved, DropImage, DeleteDropsImage,
      TerminateGuest

LEMMA ShelvingTypes ==
    ASSUME ShelvingTypeOK, [ShelvingNext]_shelving
    PROVE  ShelvingTypeOK'
<1>1. CASE UNCHANGED shelving
  BY <1>1 DEF shelving, ShelvingTypeOK
<1>2. ASSUME NEW r \in Threads, Proceeds(r)
      PROVE  ShelvingTypeOK'
  <2>1. overtaken' \in BOOLEAN
    <3>1. CASE SetTask(r)
      BY <3>1 DEF SetTask, SetsTask, ShelvingTypeOK
    <3> QED
      BY <1>2, <3>1 DEF Proceeds, UploadBegins, Shelved, ShelveFails, Destroy,
       OffloadFails, Offloaded, StartAgain, NotUnshelved, Scheduled, PowerOn, Spawning,
       ClaimForUnshelve, SpawnShelved, UnshelveFails, DropImage, Unshelved, DeleteDropsImage,
       MarkDeleting, LocalDelete, TerminateGuest, TerminateFails, TerminateRow, ShelvingTypeOK
  <2>2. thread'[Poll].op = thread[Poll].op
    BY <1>2, ThreadsStep DEF Threads
  <2> QED
    BY <1>2, <2>1, <2>2, RowTypes, ThreadsStep DEF ShelvingTypeOK
<1>3. ASSUME NEW r \in ShelveUsers, NEW op \in DOMAIN Allowed \cup {"delete"}, AskShelving(r, op)
      PROVE  ShelvingTypeOK'
  <2>1. [op |-> op, at |-> "asked", host |-> row.host, image |-> row.image, vm |-> row.vm]
           \in ThreadStates
    BY DEF Allowed, ShelvingTypeOK, ThreadStates, ThreadSteps, Rows
  <2> QED
    BY <1>3, <2>1, ShelvingAssumption DEF AskShelving, ShelvingTypeOK, Threads
<1>4. CASE PollLists
  <2>1. [op |-> "offload", at |-> "listed", host |-> row.host, image |-> row.image, vm |-> row.vm]
           \in ThreadStates
    BY DEF ShelvingTypeOK, ThreadStates, ThreadSteps, Rows
  <2> QED
    BY <1>4, <2>1 DEF PollLists, ShelvingTypeOK, Threads
<1>5. CASE PollMarks
  <2>1. Poll \in Threads /\ {"cast", "done"} \subseteq ThreadSteps
    BY DEF Threads, ThreadSteps
  <2>2. thread' \in [Threads -> ThreadStates] /\ thread'[Poll].op = thread[Poll].op
    BY <1>5, <2>1, ThreadGoes DEF PollMarks
  <2>3. row' \in Rows /\ overtaken' \in BOOLEAN
    BY <1>5 DEF PollMarks, ShelvingTypeOK, Rows, ShelvingTasks, Saves
  <2> QED
    BY <2>2, <2>3 DEF ShelvingTypeOK
<1>6. CASE ReapShelved
  BY <1>6 DEF ReapShelved, ShelvingTypeOK
<1>7. ASSUME NEW h \in ShelveHosts, RestartService(h)
      PROVE  ShelvingTypeOK'
  <2>1. thread' \in [Threads -> ThreadStates]
    <3>1. \A q \in Threads, s \in {"done", "cast", "starting"} :
             [thread[q] EXCEPT !.at = s] \in ThreadStates
      BY DEF ShelvingTypeOK, ThreadStates, ThreadSteps, Working
    <3> QED
      BY <1>7, <3>1 DEF RestartService, ShelvingTypeOK
  <2>2. thread'[Poll].op = thread[Poll].op
    BY <1>7 DEF RestartService, ShelvingTypeOK, ThreadStates, Threads
  <2>3. row' \in Rows /\ overtaken' \in BOOLEAN
    BY <1>7 DEF RestartService, ShelvingTypeOK, Rows, VmStates
  <2> QED
    BY <2>1, <2>2, <2>3 DEF ShelvingTypeOK
<1> QED
  BY <1>1, <1>2, <1>3, <1>4, <1>5, <1>6, <1>7 DEF ShelvingNext

\* What is excepted stays excepted.
LEMMA RegularBefore ==
    ASSUME ShelvingTypeOK, [ShelvingNext]_shelving, Regular'
    PROVE  Regular
<1>1. ~overtaken
  <2>1. CASE \E r \in Threads : Proceeds(r)
    BY <2>1 DEF Regular, Proceeds, SetTask, SetsTask, UploadBegins, Shelved, ShelveFails, Destroy,
       OffloadFails, Offloaded, StartAgain, NotUnshelved, Scheduled, PowerOn, Spawning,
       ClaimForUnshelve, SpawnShelved, UnshelveFails, DropImage, Unshelved, DeleteDropsImage,
       MarkDeleting, LocalDelete, TerminateGuest, TerminateFails, TerminateRow
  <2> QED
    BY <2>1 DEF Regular, ShelvingNext, AskShelving, PollLists, PollMarks, ReapShelved,
       RestartService, shelving
<1>2. ASSUME NEW u \in ShelveUsers, thread[u].op = "delete", thread[u].at # "asked"
      PROVE  thread'[u].op = "delete" /\ thread'[u].at # "asked"
  <2> USE <1>2
  <2>1. u \in Threads /\ u # Poll /\ thread \in [Threads -> ThreadStates]
    BY ShelvingAssumption DEF Threads, ShelvingTypeOK
  <2>2. CASE \E r \in Threads : Proceeds(r)
    BY <2>1, <2>2, ThreadsStep
  <2>3. CASE \E r \in ShelveUsers, op \in DOMAIN Allowed \cup {"delete"} : AskShelving(r, op)
    <3>1. PICK r \in ShelveUsers, op \in DOMAIN Allowed \cup {"delete"} : AskShelving(r, op)
      BY <2>3
    <3>2. r # u
      BY <3>1 DEF AskShelving, On
    <3> QED
      BY <3>1, <3>2, <2>1 DEF AskShelving
  <2>4. CASE PollLists \/ PollMarks
    BY <2>1, <2>4 DEF PollLists, PollMarks, GoesTo
  <2>5. CASE UNCHANGED thread
    BY <2>5
  <2>6. CASE \E h \in ShelveHosts : RestartService(h)
    BY <2>1, <2>6 DEF RestartService, ThreadStates
  <2> QED
    BY <2>2, <2>3, <2>4, <2>5, <2>6 DEF ShelvingNext, ReapShelved, shelving
<1> QED
  BY <1>1, <1>2 DEF Regular, DeleteBegun

\* What a request without a task, or on its way, does to the data.
OnlyTask(r) ==
    /\ ~row.gone /\ (Live(r) => Fits(r))
    /\ row.vm = "active" => row.host \in guests
    /\ row.vm \in {"shelved", "offloaded"} =>
          row.image \in images \/ On(r, "unshelve", "dropped")
    /\ row.vm = "error" => row.host \in guests \/ row.image \in images
    /\ ComesBack(r) => row.host \in guests
    /\ thread[r].op = "unshelve" /\ thread[r].at \in {"spawning", "claimed"}
          => row.image \in images

LEMMA LiveSteps ==
    ASSUME ShelvingTypeOK, NEW r \in Threads, Live(r), OnlyTask(r), Proceeds(r)
    PROVE  OnlyTask(r)'
<1> DEFINE Went ==
        /\ thread'[r].op = thread[r].op
        /\ \A s \in ThreadSteps :
             /\ GoesTo(r, s) => /\ thread'[r].at = s /\ thread'[r].host = thread[r].host
                                /\ thread'[r].image = thread[r].image
                                /\ thread'[r].vm = thread[r].vm
             /\ GoesOn(r, s) => /\ thread'[r].at = s /\ thread'[r].host = row.host
                                /\ thread'[r].image = row.image /\ thread'[r].vm = row.vm
        /\ {"cast", "uploading", "shelved", "destroyed", "starting", "up", "dropped",
            "spawning", "claimed", "scheduled", "left", "done"} \subseteq ThreadSteps
        /\ row \in Rows
<1>1. Went
  BY ThreadGoes, ThreadsStep DEF ThreadSteps, Working, ShelvingTypeOK
<1> USE DEF Live, OnlyTask, Fits, On, ComesBack, Respawning
<1> HIDE DEF Went
<1>2. ~SetTask(r)
  BY DEF SetTask
<1>3. CASE UploadBegins(r)
  BY <1>1, <1>3 DEF Went, UploadBegins, Expecting, Saves, Rows
<1>4. CASE Shelved(r)
  BY <1>1, <1>4 DEF Went, Shelved, Expecting, Saves, Rows
<1>5. CASE ShelveFails(r)
  BY <1>1, <1>5 DEF Went, ShelveFails, Reverts, Rows
<1>6. CASE Destroy(r)
  BY <1>1, <1>6 DEF Went, Destroy, ToOffload, Rows
<1>7. CASE OffloadFails(r)
  BY <1>1, <1>7 DEF Went, OffloadFails, ToOffload, Reverts, Rows
<1>8. CASE Offloaded(r)
  BY <1>1, <1>8 DEF Went, Offloaded, Expecting, Saves, Rows
<1>9. CASE StartAgain(r)
  BY <1>1, <1>9 DEF Went, StartAgain, OrStranded, Expecting, Saves, Rows
<1>10. CASE NotUnshelved(r)
  BY <1>1, <1>10 DEF Went, NotUnshelved, Rows
<1>11. CASE \E h \in ShelveHosts : Scheduled(r, h)
  <2>1. /\ UNCHANGED <<row, images, guests>> /\ thread[r].op = "unshelve"
        /\ thread[r].at = "cast" /\ thread[r].vm = "offloaded"
    BY <1>11 DEF Scheduled
  <2>2. /\ thread'[r].op = "unshelve" /\ thread'[r].at = "scheduled"
        /\ thread'[r].vm = "offloaded"
    BY <1>11, <2>1 DEF Scheduled, ShelvingTypeOK, ThreadStates
  <2> QED
    BY <2>1, <2>2
<1>12. CASE PowerOn(r)
  BY <1>1, <1>12 DEF Went, PowerOn, Rows
<1>13. CASE Spawning(r)
  BY <1>1, <1>13 DEF Went, Spawning, Saves, Rows
<1>14. CASE ClaimForUnshelve(r)
  BY <1>1, <1>14 DEF Went, ClaimForUnshelve, Saves, Rows
<1>15. CASE SpawnShelved(r)
  BY <1>1, <1>15 DEF Went, SpawnShelved, Rows
<1>16. CASE UnshelveFails(r)
  BY <1>1, <1>16 DEF Went, UnshelveFails, Reverts, Rows
<1>17. CASE DropImage(r)
  BY <1>1, <1>17 DEF Went, DropImage, WithoutImage, Rows
<1>18. CASE Unshelved(r)
  BY <1>1, <1>18 DEF Went, Unshelved, Expecting, Saves, Rows
<1> QED
  BY <1>2, <1>3, <1>4, <1>5, <1>6, <1>7, <1>8, <1>9, <1>10, <1>11, <1>12, <1>13, <1>14,
     <1>15, <1>16, <1>17, <1>18
  DEF Proceeds, DeleteDropsImage, MarkDeleting, LocalDelete, TerminateGuest, TerminateFails, TerminateRow

LEMMA OnlyLive ==
    ASSUME NEW r \in Threads, OneTask, DataSomewhere, \A q \in Threads : Live(q) => q = r
    PROVE  OnlyTask(r)
BY DEF OneTask, DataSomewhere, OnlyTask, Live, On, ComesBack

LEMMA LiveOnly ==
    ASSUME NEW r \in Threads, OnlyTask(r)', \A q \in Threads : Live(q)' => q = r
    PROVE  OneTask' /\ DataSomewhere'
<1>1. OneTask'
  BY DEF OneTask, OnlyTask
<1>2. \A q \in Threads : /\ ComesBack(q)' => q = r
                         /\ thread'[q].op = "unshelve" /\ thread'[q].at \in {"spawning", "claimed"}
                               => q = r
  BY DEF Live, ComesBack, On
<1>3. DataSomewhere'
  BY <1>2 DEF DataSomewhere, OnlyTask
<1> QED
  BY <1>1, <1>3

\* A task that is set for a request that has none yet finds no other.
LEMMA SetTaskStep ==
    ASSUME ShelvingTypeOK, OneTask, DataSomewhere, NEW r \in Threads, ~Live(r), SetTask(r),
           ~overtaken'
    PROVE  OneTask' /\ DataSomewhere'
<1>1. /\ thread' \in [Threads -> ThreadStates] /\ row \in Rows /\ thread[r].op \in DOMAIN Allowed
      /\ \A q \in Threads : thread'[q].op = thread[q].op /\ (q # r => thread'[q] = thread[q])
  BY ThreadsStep DEF ShelvingTypeOK, Proceeds, SetTask
<1>2. UNCHANGED <<images, guests>>
  BY DEF SetTask, SetsTask
<1>3. CASE UNCHANGED row /\ thread'[r].at = "done"
  <2>1. \A q \in Threads : Live(q)' => Live(q) /\ q # r /\ thread'[q] = thread[q]
    BY <1>1, <1>3 DEF Live
  <2>2. \A q \in Threads : ComesBack(q)' => ComesBack(q)
    BY <1>1, <1>3 DEF ComesBack, On
  <2>3. OneTask'
    BY <2>1, <1>3 DEF OneTask, Fits, Respawning
  <2>4. \A q \in Threads : On(q, "unshelve", "dropped") => On(q, "unshelve", "dropped")'
    BY <1>1 DEF On, Live
  <2>5. DataSomewhere'
    <3>1. \A q \in Threads : thread'[q].op = "unshelve" /\ thread'[q].at \in {"spawning", "claimed"}
                              => thread[q].op = "unshelve" /\ thread[q].at \in {"spawning", "claimed"}
      BY <1>1, <1>3
    <3>2. (\E q \in Threads : On(q, "unshelve", "dropped"))
             => (\E q \in Threads : On(q, "unshelve", "dropped"))'
      BY <2>4
    <3> QED
      BY <2>2, <3>1, <3>2, <1>2, <1>3 DEF DataSomewhere
  <2> QED
    BY <2>3, <2>5
<1>4. CASE ~(UNCHANGED row /\ thread'[r].at = "done")
  <2>1. \E s \in {"cast", "left", "done"} :
           /\ ~row.gone /\ row.task = "none"
           /\ row' = [row EXCEPT !.task = TaskOf[thread[r].op]]
           /\ GoesOn(r, s)
           /\ row.host = NoHost /\ thread[r].op # "unshelve" => s # "cast"
    <3>1. "done" \in ThreadSteps /\ (GoesTo(r, "done") => thread'[r].at = "done")
      BY ThreadGoes DEF ThreadSteps
    <3>2. ~row.gone /\ row.task \in {"none"}
      BY <3>1, <1>4 DEF SetTask, SetsTask, OrStranded, Expecting
    <3>3. /\ row' = [row EXCEPT !.task = TaskOf[thread[r].op]]
          /\ \/ GoesOn(r, IF row.host = NoHost /\ thread[r].op # "unshelve" THEN "done" ELSE "cast")
             \/ GoesOn(r, "left")
      BY <3>2 DEF SetTask, SetsTask, OrStranded, Expecting, Saves
    <3> QED
      BY <3>2, <3>3
  <2>2. /\ ~row'.gone /\ row'.task = TaskOf[thread[r].op] /\ row'.task # row.task
        /\ row'.vm = row.vm /\ row'.host = row.host /\ row'.image = row.image
    BY <2>1, <1>1 DEF Rows, Allowed, TaskOf
  <2>3. row.vm \in Allowed[thread[r].op]
    BY <2>2 DEF SetTask, SetsTask
  <2>4. row.vm # "error"
    BY <2>3, <1>1 DEF Allowed
  <2>5. \A q \in Threads : ~Live(q)
    BY <2>1, <2>4 DEF OneTask, Fits, Respawning
  <2>6. \A q \in Threads : Live(q)' => q = r
    BY <2>5, <1>1 DEF Live
  <2>7. OnlyTask(r)
    BY <2>5, OnlyLive
  <2>8. /\ thread'[r].at \in {"cast", "left", "done"} /\ thread'[r].vm = row.vm
        /\ thread'[r].op = thread[r].op
    <3>1. {"cast", "left", "done"} \subseteq ThreadSteps
      BY DEF ThreadSteps, Working
    <3> QED
      BY <2>1, <3>1, <1>1, ThreadGoes
  <2>9. OnlyTask(r)'
    BY <2>2, <2>3, <2>7, <2>8, <2>5, <1>1, <1>2
    DEF OnlyTask, Fits, Live, ComesBack, On, Allowed, TaskOf
  <2> QED
    BY <2>6, <2>9, LiveOnly
<1> QED
  BY <1>3, <1>4

LEMMA ShelvingStep ==
    ASSUME ShelvingTypeOK, OneTask, DataSomewhere, NEW r \in Threads, Proceeds(r), Regular'
    PROVE  OneTask' /\ DataSomewhere'
<1>1. /\ thread' \in [Threads -> ThreadStates]
      /\ \A q \in Threads : thread'[q].op = thread[q].op /\ (q # r => thread'[q] = thread[q])
      /\ thread'[r].at \notin {"idle", "asked", "listed"} /\ thread[r] \in ThreadStates
      /\ thread[r].op # "none"
  BY ThreadsStep DEF ShelvingTypeOK
<1>2. thread[r].op # "delete"
  BY <1>1 DEF ShelvingTypeOK, Regular, DeleteBegun, Threads
<1>3. CASE Live(r)
  <2>1. \A q \in Threads : Live(q) => q = r
    BY <1>3 DEF OneTask
  <2>2. OnlyTask(r)'
    BY <1>3, <2>1, OnlyLive, LiveSteps
  <2>3. \A q \in Threads : Live(q)' => q = r
    BY <2>1, <1>1 DEF Live
  <2> QED
    BY <2>2, <2>3, LiveOnly
<1>4. CASE ~Live(r)
  <2>1. thread[r].op \in {"shelve", "offload", "unshelve"}
    BY <1>1, <1>2 DEF ThreadStates
  <2>2. SetTask(r)
    BY <1>4, <2>1 DEF Live, Proceeds, UploadBegins, Shelved, ShelveFails, Destroy, ToOffload,
       OffloadFails, Offloaded, StartAgain, NotUnshelved, Scheduled, PowerOn, Spawning,
       ClaimForUnshelve, SpawnShelved, UnshelveFails, DropImage, Unshelved, DeleteDropsImage,
       MarkDeleting, LocalDelete, TerminateGuest, TerminateFails, TerminateRow, On
  <2> QED
    BY <1>4, <2>2, SetTaskStep DEF Regular
<1> QED
  BY <1>3, <1>4

\* Asking, and listing, give no task.
LEMMA AskStep ==
    ASSUME ShelvingTypeOK, OneTask, DataSomewhere, NEW r \in Threads,
           UNCHANGED <<row, images, guests>>, ~Live(r), ~Live(r)',
           \A q \in Threads \ {r} : thread'[q] = thread[q]
    PROVE  OneTask' /\ DataSomewhere'
<1>1. OneTask'
  BY DEF OneTask, Live, Fits, Respawning
<1>2. \A q \in Threads : /\ ComesBack(q) <=> ComesBack(q)'
                         /\ On(q, "unshelve", "dropped") <=> On(q, "unshelve", "dropped")'
                         /\ thread'[q].op = "unshelve" /\ thread'[q].at \in {"spawning", "claimed"}
                              => thread[q].op = "unshelve" /\ thread[q].at \in {"spawning", "claimed"}
  BY DEF Live, ComesBack, On
<1>3. (\E q \in Threads : On(q, "unshelve", "dropped"))
         => (\E q \in Threads : On(q, "unshelve", "dropped"))'
  BY <1>2
<1>4. DataSomewhere'
  BY <1>2, <1>3 DEF DataSomewhere
<1> QED
  BY <1>1, <1>4

LEMMA PollMarksStep ==
    ASSUME ShelvingTypeOK, OneTask, DataSomewhere, PollMarks, ~overtaken'
    PROVE  OneTask' /\ DataSomewhere'
<1>1. Poll \in Threads /\ row \in Rows /\ thread[Poll] \in ThreadStates
  BY DEF Threads, ShelvingTypeOK
<1>2. /\ row' = [row EXCEPT !.task = "shelving_offloading"] /\ GoesTo(Poll, "cast")
      /\ row.vm = "shelved" /\ row.task = "none" /\ UNCHANGED <<images, guests>>
      /\ thread[Poll].op = "offload"
  BY DEF PollMarks, OneTask, Saves, On
<1>3. /\ \A q \in Threads : thread'[q].op = thread[q].op /\ (q # Poll => thread'[q] = thread[q])
      /\ thread'[Poll].at = "cast"
  BY <1>1, <1>2, ThreadGoes DEF ThreadSteps
<1>4. \A q \in Threads : ~Live(q)
  BY <1>2 DEF OneTask, Fits, Respawning
<1>5. OnlyTask(Poll)
  BY <1>1, <1>4, OnlyLive
<1>6. OnlyTask(Poll)'
  BY <1>1, <1>2, <1>3, <1>5 DEF OnlyTask, Fits, Live, ComesBack, On, Rows
<1>7. \A q \in Threads : Live(q)' => q = Poll
  BY <1>3, <1>4 DEF Live
<1> QED
  BY <1>1, <1>6, <1>7, LiveOnly

LEMMA RestartStep ==
    ASSUME ShelvingTypeOK, OneTask, DataSomewhere, NEW h \in ShelveHosts, RestartService(h),
           ~overtaken'
    PROVE  OneTask' /\ DataSomewhere'
<1>1. row \in Rows /\ thread \in [Threads -> ThreadStates] /\ Poll \in Threads
  BY DEF Threads, ShelvingTypeOK
<1>2. \A q \in Threads :
         \/ thread'[q] = thread[q]
         \/ /\ thread[q].host = h /\ thread[q].at \in Working /\ ~On(q, "unshelve", "dropped")
            /\ thread'[q].op = thread[q].op /\ thread'[q].host = thread[q].host
            /\ thread'[q].vm = thread[q].vm
            /\ \/ thread'[q].at = "done"
               \/ thread'[q].at = "cast" /\ thread[q].op = "delete"
               \/ /\ thread'[q].at = "starting" /\ thread[q].op = "unshelve"
                  /\ row.host = h /\ row.task = "powering_on"
  BY <1>1 DEF RestartService, ThreadStates
<1>3. /\ UNCHANGED <<images, guests>> /\ row'.gone = row.gone /\ row'.host = row.host
      /\ row'.image = row.image
      /\ \/ row' = row
         \/ /\ row.host = h /\ row.task = "spawning" /\ row'.vm = "error" /\ row'.task = "none"
  BY <1>1 DEF RestartService, Rows
<1>4. PICK r \in Threads : \A q \in Threads : Live(q) => q = r
  BY <1>1 DEF OneTask
<1>5. OnlyTask(r)
  BY <1>4, OnlyLive
<1>6. \A q \in Threads : Live(q)' => Live(q)
  BY <1>2 DEF Live, Working
<1>7. On(r, "unshelve", "dropped") => thread'[r] = thread[r] /\ thread[r].host # h
  BY <1>1, <1>2 DEF RestartService, On, Working
<1>8. (Live(r) => Fits(r))'
  <2>1. SUFFICES ASSUME Live(r)' PROVE Fits(r)'
    OBVIOUS
  <2>2. Fits(r)
    BY <1>5, <1>6, <2>1 DEF OnlyTask
  <2>3. CASE thread'[r] = thread[r]
    BY <2>2, <2>3, <1>1, <1>2, <1>3, <1>7 DEF Fits, Respawning, Working
  <2>4. CASE thread'[r] # thread[r]
    BY <2>1, <2>2, <2>4, <1>2, <1>3, <1>7 DEF Fits, Respawning, Live, Working
  <2> QED
    BY <2>3, <2>4
<1>9. ComesBack(r)' => ComesBack(r)
  BY <1>2 DEF ComesBack, On
<1>10. thread'[r].op = "unshelve" /\ thread'[r].at \in {"spawning", "claimed"} => thread'[r] = thread[r]
  BY <1>2
<1>11. On(r, "unshelve", "dropped") => On(r, "unshelve", "dropped")' /\ row' = row
  BY <1>3, <1>5, <1>7 DEF On, OnlyTask, Live, Fits
<1>12. row.vm \in {"active", "shelved", "offloaded", "error"}
  BY <1>1 DEF Rows, VmStates
<1>13. OnlyTask(r)'
  BY <1>3, <1>5, <1>8, <1>9, <1>10, <1>11, <1>12 DEF OnlyTask
<1> QED
  BY <1>4, <1>6, <1>13, LiveOnly

LEMMA ShelvingInitially == ShelvingInit => ShelvingInv
<1> SUFFICES ASSUME ShelvingInit PROVE ShelvingInv
  OBVIOUS
<1>1. /\ row.host \in ShelveHosts /\ guests = {row.host} /\ row.vm = "active" /\ ~row.gone
      /\ row \in Rows
  BY ShelvingAssumption DEF ShelvingInit, Rows, VmStates, Hosts, Kept
<1>2. NoThread \in ThreadStates
  BY DEF NoThread, ThreadStates, ThreadSteps, Hosts, Kept, VmStates
<1>3. ShelvingTypeOK
  BY <1>1, <1>2 DEF ShelvingInit, ShelvingTypeOK, Threads, NoThread
<1>4. \A r \in Threads : thread[r].op = "none"
  BY DEF ShelvingInit, NoThread
<1>5. OneTask /\ DataSomewhere
  BY <1>1, <1>4 DEF OneTask, DataSomewhere, Live, ComesBack, On
<1> QED
  BY <1>3, <1>5 DEF ShelvingInv

\* As long as no delete has begun and no task was set on what was read too
\* early: one request at a time has a task, and the data is where its step says
\* it is.
THEOREM ShelvingInvariant == ShelvingSpec => []ShelvingInv
<1>1. ASSUME ShelvingInv, [ShelvingNext]_shelving
      PROVE  ShelvingInv'
  <2>1. ShelvingTypeOK'
    BY <1>1, ShelvingTypes DEF ShelvingInv
  <2>2. ASSUME Regular' PROVE OneTask' /\ DataSomewhere'
    <3>1. ShelvingTypeOK /\ OneTask /\ DataSomewhere /\ ~overtaken'
      BY <1>1, <2>2, RegularBefore DEF ShelvingInv, Regular
    <3>2. CASE UNCHANGED shelving
      BY <3>1, <3>2 DEF shelving, OneTask, DataSomewhere, Live, Fits, Respawning, ComesBack, On
    <3>3. ASSUME NEW r \in ShelveUsers, NEW op \in DOMAIN Allowed \cup {"delete"}, AskShelving(r, op)
          PROVE  OneTask' /\ DataSomewhere'
      <4>1. /\ r \in Threads /\ UNCHANGED <<row, images, guests>> /\ ~Live(r) /\ ~Live(r)'
            /\ \A q \in Threads \ {r} : thread'[q] = thread[q]
        BY <3>1, <3>3 DEF AskShelving, On, Live, Threads, ShelvingTypeOK
      <4> QED
        BY <3>1, <4>1, AskStep
    <3>4. ASSUME NEW r \in Threads, Proceeds(r)
          PROVE  OneTask' /\ DataSomewhere'
      BY <2>2, <3>1, <3>4, ShelvingStep
    <3>5. CASE PollLists
      <4>1. /\ Poll \in Threads /\ UNCHANGED <<row, images, guests>> /\ ~Live(Poll) /\ ~Live(Poll)'
            /\ \A q \in Threads \ {Poll} : thread'[q] = thread[q]
        BY <3>1, <3>5 DEF PollLists, Live, Threads, ShelvingTypeOK
      <4> QED
        BY <3>1, <4>1, AskStep
    <3>6. CASE PollMarks
      BY <3>1, <3>6, PollMarksStep
    <3>7. CASE ReapShelved
      BY <3>1, <3>7 DEF ReapShelved, OneTask
    <3>8. ASSUME NEW h \in ShelveHosts, RestartService(h)
          PROVE  OneTask' /\ DataSomewhere'
      BY <3>1, <3>8, RestartStep
    <3> QED
      BY <1>1, <3>2, <3>3, <3>4, <3>5, <3>6, <3>7, <3>8 DEF ShelvingNext
  <2> QED
    BY <2>1, <2>2 DEF ShelvingInv
<1> QED
  BY ShelvingInitially, <1>1, PTL DEF ShelvingSpec

\* The property the runs check, for any number of hosts and requests, every
\* shelved_offload_time and however often drivers fail and services restart:
\* the instance has the guest its row names or the image its row names.
THEOREM ShelvedDataKept == ShelvingSpec => []DataKept
<1>1. ShelvingInv => DataKept
  <2>1. ASSUME ShelvingInv, Regular PROVE row.host \in guests \/ row.image \in images
    <3>1. row.vm \in {"active", "shelved", "offloaded", "error"}
      BY <2>1 DEF ShelvingInv, ShelvingTypeOK, Rows, VmStates
    <3> QED
      BY <2>1, <3>1 DEF ShelvingInv, DataSomewhere, ComesBack
  <2> QED
    BY <2>1 DEF DataKept, Regular
<1> QED
  BY <1>1, ShelvingInvariant, PTL
-----------------------------------------------------------------------------
(* PCI devices.                                                            *)

PciSteps == {"new", "elsewhere", "claimed", "running", "aborted", "error", "deleted", "gone", "left"}
PciStates == [status : {"available", "unknown", "removed", "deleted", "claimed", "allocated"},
              of : PciGuests \cup {NoGuest}]
Trackers == [dev : [PciDevs -> PciStates], pool : SUBSET PciDevs,
             claims : [PciGuests -> SUBSET PciDevs],
             allocations : [PciGuests -> SUBSET PciDevs]]
PciTypeOK ==
    /\ step \in [PciGuests -> PciSteps] /\ uses \in [PciGuests -> SUBSET PciDevs]
    /\ plugged \in SUBSET PciDevs /\ loose \in SUBSET PciDevs
    /\ pci \in Trackers /\ table \in [PciDevs -> PciStates]

\* The pool is what is available; an entry has the devices of its guest in the
\* entry's own status, but for the loose ones, L; a guest that has not left has
\* nothing claimed.
PoolRight(t) == t.pool = {d \in PciDevs : t.dev[d] = Available}
EntriesRight(t, L) ==
    \A i \in PciGuests : \A d \in plugged \ L :
        /\ d \in t.claims[i] => t.dev[d] = State("claimed", i)
        /\ d \in t.allocations[i] => t.dev[d] = State("allocated", i)
Staying(at) == {i \in PciGuests : at[i] \in {"new", "claimed", "running", "aborted", "error", "deleted"}}
NothingClaimed(t, at) ==
    \A i \in Staying(at) : t.claims[i] = {} /\ \A d \in PciDevs : t.dev[d] # State("claimed", i)
Given(dev, us, L) ==
    \A i \in PciGuests : \A d \in (us[i] \cap plugged) \ L : dev[d] = State("allocated", i)
\* A device that has only been plugged in is in nothing yet.
Untouched(t, us, L) ==
    \A d \in PciDevs \ L, i \in PciGuests :
       t.dev[d] = Unknown => d \notin us[i] /\ d \notin t.claims[i] /\ d \notin t.allocations[i]
Good(t, at, us, L) ==
    /\ t \in Trackers /\ PoolRight(t) /\ EntriesRight(t, L)
    /\ NothingClaimed(t, at) /\ Given(t.dev, us, L) /\ Untouched(t, us, L)
UsedBy(at, us, L) == \A i \in PciGuests :
    us[i] # {} => at[i] # "new" /\ (us[i] \subseteq L \/ at[i] \in {"claimed", "running"})
TableRight(saved, at, us, L) ==
    /\ Given(saved, us, L)
    /\ \A i \in Staying(at), d \in PciDevs : saved[d] # State("claimed", i)
    /\ \A i \in PciGuests : \A d \in us[i] \ L : saved[d] # Unknown
PciInv ==
    /\ PciTypeOK /\ Good(pci, step, uses, loose) /\ UsedBy(step, uses, loose)
    /\ TableRight(table, step, uses, loose)

LEMMA StatesAre ==
    /\ Available \in PciStates /\ Unknown \in PciStates /\ Removed \in PciStates
    /\ Deleted \in PciStates
    /\ \A i \in PciGuests : State("claimed", i) \in PciStates /\ State("allocated", i) \in PciStates
    /\ \A i \in PciGuests : \A a \in {"claimed", "allocated"} :
          /\ State(a, i).status = a /\ State(a, i).of = i
          /\ State(a, i) \notin {Available, Unknown, Removed, Deleted}
    /\ Available # Removed /\ Available # Deleted /\ Available # Unknown /\ Removed # Deleted
    /\ Available.status = "available" /\ Removed.status = "removed" /\ Deleted.status = "deleted"
    /\ Unknown.status = "unknown"
BY DEF Available, Unknown, Removed, Deleted, State, PciStates

\* What Put leaves, and what it changes.
Puts(u, t, D, state, pool) ==
    /\ u \in Trackers
    /\ \A d \in PciDevs : u.dev[d] = IF d \in D THEN state ELSE t.dev[d]
    /\ u.pool = pool /\ u.claims = t.claims /\ u.allocations = t.allocations
LEMMA PutPuts ==
    \A D : \A t \in Trackers, state \in PciStates, pool \in SUBSET PciDevs :
       Puts(Put(t, D, state, pool), t, D, state, pool)
<1> SUFFICES ASSUME NEW D, NEW t \in Trackers, NEW state \in PciStates, NEW pool \in SUBSET PciDevs
             PROVE  Puts(Put(t, D, state, pool), t, D, state, pool)
  OBVIOUS
<1> QED
  BY DEF Put, Puts, Trackers

\* Freeing devices, and dropping entries at the same time.
Frees(t, D, u, us, L) ==
    /\ t \in Trackers /\ u \in Trackers /\ D \in SUBSET PciDevs
    /\ \A d \in PciDevs : u.dev[d] = IF d \in D THEN Available ELSE t.dev[d]
    /\ u.pool = t.pool \cup D
    /\ \A i \in PciGuests : /\ u.claims[i] \subseteq t.claims[i]
                            /\ u.allocations[i] \subseteq t.allocations[i]
    /\ \A d \in (D \cap plugged) \ L : \A i \in PciGuests :
          d \notin us[i] /\ d \notin u.claims[i] /\ d \notin u.allocations[i]
LEMMA Freeing ==
    ASSUME plugged \in SUBSET PciDevs, NEW t, NEW D, NEW at, NEW us, NEW L, NEW u,
           Good(t, at, us, L), Frees(t, D, u, us, L)
    PROVE  Good(u, at, us, L)
<1> USE DEF Frees
<1>1. PoolRight(u)
  BY StatesAre DEF Good, PoolRight, Trackers
<1>2. EntriesRight(u, L)
  BY DEF Good, EntriesRight, Trackers
<1>3. NothingClaimed(u, at)
  BY StatesAre DEF Good, NothingClaimed, Staying
<1>4. Given(u.dev, us, L)
  BY DEF Good, Given
<1>5. Untouched(u, us, L)
  BY StatesAre DEF Good, Untouched
<1> QED
  BY <1>1, <1>2, <1>3, <1>4, <1>5 DEF Good

LEMMA FreeTracker ==
    ASSUME NEW t \in Trackers, NEW D \in SUBSET PciDevs
    PROVE  Puts(Free(t, D), t, D, Available, t.pool \cup D)
<1>1. t.pool \cup D \in SUBSET PciDevs
  BY DEF Trackers
<1> QED
  BY <1>1, StatesAre, PutPuts DEF Free

\* What is freed for a guest is what it owns: nobody else's.
LEMMA OwnedApart ==
    ASSUME NEW t, NEW at, NEW us, NEW L, Good(t, at, us, L), NEW i \in PciGuests,
           NEW d \in Owned(t, i), d \in plugged, d \notin L, NEW j \in PciGuests,
           d \in us[j] \/ d \in t.claims[j] \/ d \in t.allocations[j]
    PROVE  i = j
BY StatesAre DEF Good, Given, EntriesRight, Owned

LEMMA FreedInstance ==
    ASSUME NEW t, NEW at, NEW us, NEW L, Good(t, at, us, L), plugged \in SUBSET PciDevs,
           NEW i \in Staying(at), us[i] \subseteq L
    PROVE  Good(FreeInstance(t, i), at, us, L)
<1>1. t \in Trackers /\ i \in PciGuests /\ Owned(t, i) \in SUBSET PciDevs /\ t.claims[i] = {}
  BY DEF Good, Staying, Owned, NothingClaimed
<1>2. CASE t.allocations[i] # {}
  <2> DEFINE f == Free(t, Owned(t, i))
             u == [f EXCEPT !.allocations[i] = {}]
  <2>1. /\ f \in Trackers /\ f.pool = t.pool \cup Owned(t, i)
        /\ f.claims = t.claims /\ f.allocations = t.allocations
        /\ \A d \in PciDevs : f.dev[d] = IF d \in Owned(t, i) THEN Available ELSE t.dev[d]
    BY <1>1, FreeTracker DEF Puts
  <2> HIDE DEF f
  <2>2. /\ u \in Trackers /\ u.dev = f.dev /\ u.pool = f.pool /\ u.claims = f.claims
        /\ u.allocations = [t.allocations EXCEPT ![i] = {}]
    BY <2>1 DEF Trackers
  <2>3. \A d \in (Owned(t, i) \cap plugged) \ L, j \in PciGuests :
           d \notin us[j] /\ d \notin u.claims[j] /\ d \notin u.allocations[j]
    BY <1>1, <2>1, <2>2, OwnedApart DEF Trackers
  <2>4. \A j \in PciGuests : u.claims[j] \subseteq t.claims[j] /\ u.allocations[j] \subseteq t.allocations[j]
    BY <1>1, <2>1, <2>2 DEF Trackers
  <2> HIDE DEF u
  <2>6. Frees(t, Owned(t, i), u, us, L)
    BY <1>1, <2>1, <2>2, <2>3, <2>4 DEF Frees
  <2>5. Good(u, at, us, L)
    BY <2>6, Freeing
  <2> QED
    BY <1>2, <2>5 DEF FreeInstance, u, f
<1>3. CASE t.allocations[i] = {}
  BY <1>1, <1>3 DEF FreeInstance
<1> QED
  BY <1>2, <1>3

\* The audit takes off what is not plugged, and adds what is new.
LEMMA SyncedGood ==
    ASSUME NEW t, NEW at, NEW us, NEW L, Good(t, at, us, L), plugged \in SUBSET PciDevs
    PROVE  Good(Synced(t), at, us, L)
<1> DEFINE lost == {d \in PciDevs \ plugged : t.dev[d].status \in Taken \cup {"available"}}
           found == {d \in plugged : t.dev[d] = Unknown}
           kept == Put(t, lost, Removed, t.pool \ lost)
           u == Put(kept, found, Available, kept.pool \cup found)
<1>1. t \in Trackers /\ found \in SUBSET PciDevs /\ t.pool \in SUBSET PciDevs
  BY DEF Good, Trackers
<1>2. /\ kept \in Trackers /\ kept.pool = t.pool \ lost
      /\ \A d \in PciDevs : kept.dev[d] = IF d \in lost THEN Removed ELSE t.dev[d]
      /\ kept.claims = t.claims /\ kept.allocations = t.allocations
  <2>1. Removed \in PciStates /\ t.pool \ lost \in SUBSET PciDevs
    BY <1>1, StatesAre
  <2> HIDE DEF lost
  <2>2. Puts(kept, t, lost, Removed, t.pool \ lost)
    BY <1>1, <2>1, PutPuts
  <2> QED
    BY <2>2 DEF Puts
<1> HIDE DEF kept
<1>3. /\ u \in Trackers /\ u.pool = kept.pool \cup found
      /\ \A d \in PciDevs : u.dev[d] = IF d \in found THEN Available ELSE kept.dev[d]
      /\ u.claims = kept.claims /\ u.allocations = kept.allocations
  <2>1. Available \in PciStates /\ kept.pool \cup found \in SUBSET PciDevs
    BY <1>1, <1>2, StatesAre
  <2> HIDE DEF found
  <2>2. Puts(u, kept, found, Available, kept.pool \cup found)
    BY <1>2, <2>1, PutPuts
  <2> QED
    BY <2>2 DEF Puts
<1> HIDE DEF u
<1>4. PoolRight(u)
  <2>1. PoolRight(t)
    BY DEF Good
  <2>2. \A d \in PciDevs : d \in u.pool <=> u.dev[d] = Available
    BY <2>1, <1>1, <1>2, <1>3, StatesAre DEF PoolRight
  <2>3. u.pool \in SUBSET PciDevs
    BY <1>3 DEF Trackers
  <2> QED
    BY <2>2, <2>3 DEF PoolRight
<1>5. \A d \in plugged, i \in PciGuests : \A a \in {"claimed", "allocated"} :
         t.dev[d] = State(a, i) => u.dev[d] = State(a, i)
  BY <1>2, <1>3, StatesAre
<1>6. EntriesRight(u, L)
  BY <1>2, <1>3, <1>5 DEF Good, EntriesRight
<1>7. NothingClaimed(u, at)
  BY <1>2, <1>3, StatesAre DEF Good, NothingClaimed, Staying
<1>8. Given(u.dev, us, L)
  BY <1>5 DEF Good, Given
<1>9. Untouched(u, us, L)
  BY <1>2, <1>3, StatesAre DEF Good, Untouched
<1> QED
  BY <1>3, <1>4, <1>6, <1>7, <1>8, <1>9 DEF Good, Synced, u, kept

\* It claims devices of the pool for guests that have left.
LEMMA MigratedGood ==
    ASSUME NEW t, NEW at, NEW us, NEW L, Good(t, at, us, L), plugged \in SUBSET PciDevs,
           PciAssumption, NEW u \in Migrated(t, at)
    PROVE  Good(u, at, us, L)
<1> DEFINE claiming == {i \in Outbound(at) : t.claims[i] = {}}
           C(c) == [i \in PciGuests |->
                       IF i \in claiming THEN {d \in t.pool : c[d] = i} ELSE t.claims[i]]
           rest(c) == {d \in t.pool : c[d] = NoGuest}
           w(c) == Put([t EXCEPT !.claims = C(c)], {}, Available, rest(c))
           G(c) == [d \in PciDevs |->
                       IF d \in t.pool \ w(c).pool THEN State("claimed", c[d]) ELSE w(c).dev[d]]
<1>1. t \in Trackers /\ t.pool \in SUBSET PciDevs
  BY DEF Good, Trackers
<1>2. PICK c \in [t.pool -> claiming \cup {NoGuest}] : u = [w(c) EXCEPT !.dev = G(c)]
  BY <1>1 DEF Migrated, Trackers
<1>3. C(c) \in [PciGuests -> SUBSET PciDevs] /\ rest(c) \in SUBSET PciDevs
  BY <1>1 DEF Trackers
<1>4. [t EXCEPT !.claims = C(c)] \in Trackers /\ [t EXCEPT !.claims = C(c)].dev = t.dev
      /\ [t EXCEPT !.claims = C(c)].claims = C(c)
      /\ [t EXCEPT !.claims = C(c)].allocations = t.allocations
  BY <1>1, <1>3 DEF Trackers
<1>5. Puts(w(c), [t EXCEPT !.claims = C(c)], {}, Available, rest(c))
  BY <1>3, <1>4, StatesAre, PutPuts
<1>6. w(c) \in Trackers /\ w(c).pool = rest(c) /\ w(c).claims = C(c)
      /\ w(c).allocations = t.allocations /\ \A d \in PciDevs : w(c).dev[d] = t.dev[d]
  BY <1>4, <1>5 DEF Puts
<1> HIDE DEF w
<1>7. \A d \in t.pool \ rest(c) : c[d] \in claiming /\ c[d] \in PciGuests /\ at[c[d]] = "left"
  BY <1>1 DEF Outbound
<1>8. G(c) \in [PciDevs -> PciStates]
  BY <1>6, <1>7, StatesAre DEF Trackers
<1>9. /\ u \in Trackers /\ u.pool = rest(c) /\ u.claims = C(c) /\ u.allocations = t.allocations
      /\ u.dev = G(c)
  BY <1>2, <1>6, <1>8 DEF Trackers
<1>10. \A d \in PciDevs : u.dev[d] = IF d \in t.pool \ rest(c) THEN State("claimed", c[d]) ELSE t.dev[d]
  BY <1>6, <1>9
<1>11. \A d \in PciDevs : d \in t.pool <=> t.dev[d] = Available
  BY DEF Good, PoolRight
<1>12. \A i \in PciGuests : /\ i \notin claiming => C(c)[i] = t.claims[i]
                            /\ \A d \in C(c)[i] : \/ d \in t.claims[i]
                                                  \/ d \in t.pool \ rest(c) /\ c[d] = i
  BY PciAssumption DEF Outbound
<1>13. \A i \in Staying(at) : i \in PciGuests /\ i \notin claiming
  BY DEF Staying, Outbound
<1> HIDE DEF claiming, C, G
<1>rest. rest(c) \subseteq t.pool
  OBVIOUS
<1> HIDE DEF rest
<1>pool. \A d \in PciDevs : d \in rest(c) <=> u.dev[d] = Available
  BY <1>7, <1>10, <1>11, <1>rest, StatesAre
<1>14. PoolRight(u)
  BY <1>1, <1>9, <1>rest, <1>pool DEF PoolRight
<1>15. EntriesRight(u, L)
  BY <1>7, <1>9, <1>10, <1>11, <1>12, StatesAre DEF Good, EntriesRight
<1>16. NothingClaimed(u, at)
  <2> SUFFICES ASSUME NEW i \in Staying(at)
               PROVE  u.claims[i] = {} /\ \A d \in PciDevs : u.dev[d] # State("claimed", i)
    BY DEF NothingClaimed
  <2>1. /\ i \in PciGuests /\ i \notin claiming /\ t.claims[i] = {}
        /\ \A d \in PciDevs : t.dev[d] # State("claimed", i)
    BY <1>13 DEF Good, NothingClaimed
  <2>2. \A d \in t.pool \ rest(c) : State("claimed", c[d]) # State("claimed", i)
    BY <1>7, <2>1, StatesAre
  <2> QED
    BY <1>9, <1>10, <1>12, <2>1, <2>2
<1>17. Given(u.dev, us, L)
  BY <1>10, <1>11, StatesAre DEF Good, Given
<1>18. Untouched(u, us, L)
  BY <1>7, <1>9, <1>10, <1>11, <1>12, StatesAre DEF Good, Untouched
<1> QED
  BY <1>9, <1>14, <1>15, <1>16, <1>17, <1>18 DEF Good

\* The entries of guests that are not of the host, E: dropping some and freeing
\* devices of theirs takes nothing from anybody else.
Foreign(at) == {"claims", "allocations"} \X (PciGuests \ (Here(at) \cup Deleting(at) \cup Outbound(at)))
Drops(t, E, D, u) ==
    /\ u \in Trackers
    /\ \A d \in PciDevs : u.dev[d] = IF d \in D THEN Available ELSE t.dev[d]
    /\ u.pool = t.pool \cup D
    /\ u.claims = [i \in PciGuests |-> IF <<"claims", i>> \in E THEN {} ELSE t.claims[i]]
    /\ u.allocations = [i \in PciGuests |-> IF <<"allocations", i>> \in E THEN {} ELSE t.allocations[i]]
LEMMA Dropping ==
    ASSUME plugged \in SUBSET PciDevs, NEW t, NEW D, NEW at, NEW us, NEW L, NEW u, NEW E,
           Good(t, at, us, L), UsedBy(at, us, L), E \subseteq Foreign(at), D \subseteq Devs(t, E),
           Drops(t, E, D, u)
    PROVE  Good(u, at, us, L)
<1>1. t \in Trackers
  BY DEF Good
<1>2. \A e \in E : \/ e[2] \in PciGuests /\ us[e[2]] \subseteq L /\ e = <<"claims", e[2]>>
                   \/ e[2] \in PciGuests /\ us[e[2]] \subseteq L /\ e = <<"allocations", e[2]>>
  BY DEF Foreign, UsedBy, Here
<1>3. Devs(t, E) \in SUBSET PciDevs
  <2> SUFFICES ASSUME NEW e \in E PROVE t[e[1]][e[2]] \subseteq PciDevs
    BY DEF Devs
  <2>1. CASE e[1] = "claims"
    BY <1>1, <1>2, <2>1 DEF Trackers
  <2>2. CASE e[1] = "allocations"
    BY <1>1, <1>2, <2>2 DEF Trackers
  <2> QED
    BY <1>2, <2>1, <2>2
<1>4. ASSUME NEW d \in D, d \in plugged, d \notin L, NEW j \in PciGuests
      PROVE  d \notin us[j] /\ d \notin u.claims[j] /\ d \notin u.allocations[j]
  <2>1. PICK e \in E : d \in t[e[1]][e[2]]
    BY DEF Devs
  <2>2. d \in PciDevs
    BY <1>3
  <2>5. /\ d \in us[j] => t.dev[d] = State("allocated", j)
        /\ d \in t.claims[j] => t.dev[d] = State("claimed", j)
        /\ d \in t.allocations[j] => t.dev[d] = State("allocated", j)
    BY <1>4 DEF Good, Given, EntriesRight
  <2>6. e[2] \in PciGuests /\ us[e[2]] \subseteq L
    BY <1>2
  <2>3. CASE e[1] = "claims"
    <3>1. t.dev[d] = State("claimed", e[2]) /\ <<"claims", e[2]>> \in E
      BY <1>2, <1>4, <2>1, <2>3 DEF Good, EntriesRight
    <3>2. d \notin us[j] /\ d \notin t.allocations[j] /\ (d \in t.claims[j] => j = e[2])
      BY <1>4, <2>5, <2>6, <3>1 DEF State
    <3> QED
      BY <3>1, <3>2 DEF Drops
  <2>4. CASE e[1] = "allocations"
    <3>1. t.dev[d] = State("allocated", e[2]) /\ <<"allocations", e[2]>> \in E
      BY <1>2, <1>4, <2>1, <2>4 DEF Good, EntriesRight
    <3>2. d \notin us[j] /\ d \notin t.claims[j] /\ (d \in t.allocations[j] => j = e[2])
      BY <1>4, <2>5, <2>6, <3>1 DEF State
    <3> QED
      BY <3>1, <3>2 DEF Drops
  <2> QED
    BY <1>2, <2>3, <2>4
<1>5. Frees(t, D, u, us, L)
  BY <1>1, <1>3, <1>4 DEF Frees, Drops
<1> QED
  BY <1>5, Freeing

\* Dropping those entries and then freeing, in the model's words.
LEMMA PoppedTracker ==
    ASSUME NEW t \in Trackers, NEW E
    PROVE  /\ Popped(t, E) \in Trackers /\ Popped(t, E).dev = t.dev /\ Popped(t, E).pool = t.pool
           /\ Popped(t, E).claims = [i \in PciGuests |-> IF <<"claims", i>> \in E THEN {} ELSE t.claims[i]]
           /\ Popped(t, E).allocations =
                 [i \in PciGuests |-> IF <<"allocations", i>> \in E THEN {} ELSE t.allocations[i]]
BY DEF Popped, Trackers

LEMMA CleanedGood ==
    ASSUME plugged \in SUBSET PciDevs, NEW t, NEW at, NEW us, NEW L, NEW E,
           Good(t, at, us, L), UsedBy(at, us, L), E \subseteq Foreign(at)
    PROVE  Good(Cleaned(t, E), at, us, L)
<1>1. t \in Trackers
  BY DEF Good
<1>2. Devs(t, E) \in SUBSET PciDevs
  <2> SUFFICES ASSUME NEW e \in E PROVE t[e[1]][e[2]] \subseteq PciDevs
    BY DEF Devs
  <2>1. CASE e[1] = "claims"
    BY <1>1, <2>1 DEF Trackers, Foreign
  <2>2. CASE e[1] = "allocations"
    BY <1>1, <2>2 DEF Trackers, Foreign
  <2> QED
    BY <2>1, <2>2 DEF Foreign
<1> DEFINE f == Free(t, Devs(t, E))
<1>3. Puts(f, t, Devs(t, E), Available, t.pool \cup Devs(t, E))
  BY <1>1, <1>2, FreeTracker
<1>4. f \in Trackers
  BY <1>3 DEF Puts
<1> HIDE DEF f
<1>5. Drops(t, E, Devs(t, E), Popped(f, E))
  BY <1>3, <1>4, PoppedTracker DEF Drops, Puts
<1> QED
  BY <1>5, Dropping DEF Cleaned, f
LEMMA RaisedGood ==
    ASSUME plugged \in SUBSET PciDevs, NEW t, NEW at, NEW us, NEW L, NEW E,
           Good(t, at, us, L), UsedBy(at, us, L), E \subseteq Foreign(at), Raises(t, E)
    PROVE  Good(pci', at, us, L)
<1>1. t \in Trackers
  BY DEF Good
<1>2. PICK e \in E, S \in SUBSET E : \E D \in SUBSET Devs(t, {e}) :
         pci' = Cleaned(Put(Popped(t, {e}), D, Available, t.pool \cup D), S)
  BY DEF Raises
<1>9. PICK D \in SUBSET Devs(t, {e}) :
         pci' = Cleaned(Put(Popped(t, {e}), D, Available, t.pool \cup D), S)
  BY <1>2
<1> DEFINE w == Put(Popped(t, {e}), D, Available, t.pool \cup D)
<1>3. D \in SUBSET PciDevs
  <2>1. t[e[1]][e[2]] \subseteq PciDevs
    <3>1. CASE e[1] = "claims"
      BY <1>1, <3>1 DEF Trackers, Foreign
    <3>2. CASE e[1] = "allocations"
      BY <1>1, <3>2 DEF Trackers, Foreign
    <3> QED
      BY <3>1, <3>2 DEF Foreign
  <2> QED
    BY <1>9, <2>1 DEF Devs
<1>4. t.pool \cup D \in SUBSET PciDevs
  BY <1>1, <1>3 DEF Trackers
<1>5. Popped(t, {e}) \in Trackers
  BY <1>1, PoppedTracker
<1>6. Puts(w, Popped(t, {e}), D, Available, t.pool \cup D)
  BY <1>4, <1>5, StatesAre, PutPuts
<1> HIDE DEF w
<1>7. Drops(t, {e}, D, w)
  <2>1. /\ Popped(t, {e}).dev = t.dev
        /\ Popped(t, {e}).claims = [i \in PciGuests |-> IF <<"claims", i>> \in {e} THEN {} ELSE t.claims[i]]
        /\ Popped(t, {e}).allocations =
              [i \in PciGuests |-> IF <<"allocations", i>> \in {e} THEN {} ELSE t.allocations[i]]
    BY <1>1, PoppedTracker
  <2> QED
    BY <1>6, <2>1 DEF Drops, Puts
<1>8. Good(w, at, us, L)
  BY <1>7, <1>9, Dropping
<1> QED
  BY <1>8, <1>9, CleanedGood DEF w

\* More devices are excepted, fewer are used, fewer guests stay: what was good
\* still is.
LEMMA StillGood ==
    ASSUME NEW t, NEW at, NEW us, NEW L, NEW to, NEW vs, NEW M, Good(t, at, us, L),
           Staying(to) \subseteq Staying(at), \A i \in PciGuests : vs[i] \subseteq us[i], L \subseteq M
    PROVE  Good(t, to, vs, M)
BY DEF Good, EntriesRight, NothingClaimed, Given, Untouched

\* The table and the tracker when what changed is saved: the devices that are
\* newly used are allocated.
Newly(v, us, vs) ==
    \A i \in PciGuests : \A d \in vs[i] : d \in us[i] \/ v.dev[d] = State("allocated", i)
LEMMA SavedGood ==
    ASSUME PciTypeOK, NEW v, NEW left \in SUBSET PciDevs, NEW at, NEW us, NEW to, NEW vs,
           Good(v, to, vs, loose \cup left), TableRight(table, at, us, loose),
           vs \in [PciGuests -> SUBSET PciDevs],
           Staying(to) \subseteq Staying(at),
           Newly(v, us, vs), Update(v, left)
    PROVE  /\ Good(pci', to, vs, loose') /\ TableRight(table', to, vs, loose')
           /\ loose' \in SUBSET PciDevs /\ table' \in [PciDevs -> PciStates] /\ pci' \in Trackers
<1>1. PICK skipped \in SUBSET PciDevs :
         /\ table' = Saved(v, skipped)
         /\ pci' = Put(v, Gone(v) \ skipped, Deleted, v.pool)
         /\ loose' = loose \cup left \cup {d \in skipped : v.dev[d] # table[d]}
  BY DEF Update, Skips
<1>2. v \in Trackers /\ v.pool \in SUBSET PciDevs /\ loose' \in SUBSET PciDevs
  BY <1>1 DEF Good, Trackers, PciTypeOK
<1>3. Good(v, to, vs, loose')
  <2>1. Staying(to) \subseteq Staying(to) /\ loose \cup left \subseteq loose'
        /\ \A i \in PciGuests : vs[i] \subseteq vs[i]
    BY <1>1
  <2> QED
    BY <2>1, StillGood
<1>4. Puts(pci', v, Gone(v) \ skipped, Deleted, v.pool)
  BY <1>1, <1>2, StatesAre, PutPuts
<1>5. \A d \in PciDevs : \/ pci'.dev[d] = v.dev[d]
                         \/ v.dev[d] = Removed /\ pci'.dev[d] = Deleted
  <2>1. \A d \in Gone(v) : v.dev[d] = Removed
    BY DEF Gone
  <2> QED
    BY <1>4, <2>1 DEF Puts
<1>6. pci' \in Trackers /\ pci'.pool = v.pool /\ pci'.claims = v.claims
      /\ pci'.allocations = v.allocations
  BY <1>4 DEF Puts
<1>7. PoolRight(pci')
  BY <1>3, <1>5, <1>6, StatesAre DEF Good, PoolRight
<1>8. EntriesRight(pci', loose')
  BY <1>3, <1>5, <1>6, StatesAre DEF Good, EntriesRight, PciTypeOK
<1>9. NothingClaimed(pci', to)
  BY <1>3, <1>5, <1>6, StatesAre DEF Good, NothingClaimed, Staying
<1>10. Given(pci'.dev, vs, loose')
  BY <1>3, <1>5, StatesAre DEF Good, Given, PciTypeOK
<1>11. Untouched(pci', vs, loose')
  BY <1>3, <1>5, <1>6, StatesAre DEF Good, Untouched
<1>12. table' \in [PciDevs -> PciStates]
  BY <1>1, <1>2, StatesAre DEF Saved, PciTypeOK, Trackers
<1>13. \A d \in PciDevs : \/ d \in skipped /\ table'[d] = table[d] /\ (d \notin loose' => v.dev[d] = table[d])
                          \/ v.dev[d] = Deleted /\ table'[d] = table[d]
                          \/ v.dev[d] = Removed /\ table'[d] = Deleted
                          \/ table'[d] = v.dev[d]
  BY <1>1 DEF Saved
<1>14. Given(table', vs, loose')
  BY <1>3, <1>13, StatesAre DEF Good, Given, PciTypeOK
<1>15. \A i \in Staying(to), d \in PciDevs : table'[d] # State("claimed", i)
  BY <1>3, <1>13, StatesAre DEF Good, NothingClaimed, TableRight, Staying
<1>16. \A i \in PciGuests : \A d \in vs[i] \ loose' : table'[d] # Unknown
  <2> SUFFICES ASSUME NEW i \in PciGuests, NEW d \in vs[i] \ loose' PROVE table'[d] # Unknown
    OBVIOUS
  <2> QED
    BY <1>1, <1>3, <1>13, StatesAre DEF Good, Untouched, TableRight, Given, Newly
<1> QED
  BY <1>2, <1>6, <1>7, <1>8, <1>9, <1>10, <1>11, <1>12, <1>14, <1>15, <1>16 DEF Good, TableRight

\* The whole audit.
LEMMA AuditGood ==
    ASSUME PciTypeOK, PciAssumption, NEW t, NEW at, NEW us \in [PciGuests -> SUBSET PciDevs],
           NEW fresh, TableRight(table, step, uses, loose), Good(t, at, us, loose), UsedBy(at, us, loose),
           Staying(at) \subseteq Staying(step), \A i \in PciGuests : us[i] \subseteq uses[i],
           AuditOf(t, at, fresh)
    PROVE  /\ Good(pci', at, us, loose') /\ TableRight(table', at, us, loose')
           /\ loose \subseteq loose' /\ loose' \in SUBSET PciDevs /\ table' \in [PciDevs -> PciStates] /\ pci' \in Trackers
<1>1. plugged \in SUBSET PciDevs /\ loose \in SUBSET PciDevs /\ table \in [PciDevs -> PciStates]
      /\ loose \cup {} = loose
  BY DEF PciTypeOK
<1>2. TableRight(table, at, us, loose)
  BY DEF TableRight, Given
<1>3. PICK u \in Migrated(Synced(t), at) :
         IF MayFree(u, Strays(u, at))
         THEN \/ Update(Cleaned(u, Strays(u, at)), {})
              \/ pci' = Cleaned(u, Strays(u, at)) /\ UNCHANGED <<table, told, loose>>
         ELSE Raises(u, Strays(u, at)) /\ UNCHANGED <<table, told, loose>>
  BY DEF AuditOf
<1>4. Good(u, at, us, loose)
  BY <1>1, SyncedGood, MigratedGood
<1>5. Strays(u, at) \subseteq Foreign(at)
  BY DEF Strays, Foreign
<1>6. Good(Cleaned(u, Strays(u, at)), at, us, loose)
  BY <1>1, <1>4, <1>5, CleanedGood
<1>7. CASE Update(Cleaned(u, Strays(u, at)), {})
  <2>1. Newly(Cleaned(u, Strays(u, at)), uses, us)
    BY DEF Newly
  <2> QED
    BY <1>1, <1>6, <1>7, <2>1, SavedGood DEF Update
<1>8. CASE pci' = Cleaned(u, Strays(u, at)) /\ UNCHANGED <<table, told, loose>>
  BY <1>1, <1>2, <1>6, <1>8 DEF Good
<1>9. CASE Raises(u, Strays(u, at)) /\ UNCHANGED <<table, told, loose>>
  <2>1. Good(pci', at, us, loose)
    BY <1>1, <1>4, <1>5, <1>9, RaisedGood
  <2> QED
    BY <1>1, <1>2, <1>9, <2>1 DEF Good
<1> QED
  BY <1>3, <1>7, <1>8, <1>9

\* The tracker that is made from the table.
LEMMA LoadedGood ==
    ASSUME PciTypeOK, NEW at, NEW us, TableRight(table, at, us, loose)
    PROVE  Good(Loaded, at, us, loose)
<1>1. /\ Loaded.dev = table /\ Loaded.pool = {d \in PciDevs : table[d] = Available}
      /\ \A i \in PciGuests : /\ Loaded.claims[i] = {d \in PciDevs : table[d] = State("claimed", i)}
                              /\ Loaded.allocations[i] = {d \in PciDevs : table[d] = State("allocated", i)}
  BY DEF Loaded
<1>2. Loaded \in Trackers
  BY DEF Loaded, Trackers, PciTypeOK
<1>3. PoolRight(Loaded) /\ EntriesRight(Loaded, loose)
  BY <1>1 DEF PoolRight, EntriesRight
<1>4. NothingClaimed(Loaded, at)
  BY <1>1 DEF NothingClaimed, TableRight, Staying
<1>5. Given(Loaded.dev, us, loose)
  BY <1>1 DEF TableRight
<1>6. Untouched(Loaded, us, loose)
  BY <1>1, StatesAre DEF Untouched, TableRight
<1> QED
  BY <1>2, <1>3, <1>4, <1>5, <1>6 DEF Good

\* A claim.
Claimed(t, i, D, u) ==
    /\ u \in Trackers /\ D \subseteq t.pool
    /\ \A d \in PciDevs : u.dev[d] = IF d \in D THEN State("claimed", i) ELSE t.dev[d]
    /\ u.pool = t.pool \ D /\ u.claims = [t.claims EXCEPT ![i] = D]
    /\ u.allocations = t.allocations
LEMMA ClaimTracker ==
    ASSUME NEW t \in Trackers, NEW i \in PciGuests, NEW u \in Claims(t, i)
    PROVE  \E D \in SUBSET PciDevs : Claimed(t, i, D, u)
<1>1. PICK D \in SUBSET t.pool :
         u = [Put(t, D, State("claimed", i), t.pool \ D) EXCEPT !.claims[i] = D]
  BY DEF Claims
<1> DEFINE w == Put(t, D, State("claimed", i), t.pool \ D)
<1>2. t.pool \in SUBSET PciDevs
  BY DEF Trackers
<1>3. Puts(w, t, D, State("claimed", i), t.pool \ D)
  BY <1>2, StatesAre, PutPuts
<1> HIDE DEF w
<1>4. u = [w EXCEPT !.claims[i] = D] /\ D \in SUBSET PciDevs
  BY <1>1, <1>2 DEF w
<1>5. w \in Trackers
  BY <1>3 DEF Puts
<1>6. /\ u \in Trackers /\ u.dev = w.dev /\ u.pool = w.pool
      /\ u.claims = [w.claims EXCEPT ![i] = D] /\ u.allocations = w.allocations
  BY <1>4, <1>5 DEF Trackers
<1>7. Claimed(t, i, D, u)
  BY <1>3, <1>6 DEF Claimed, Puts
<1> QED
  BY <1>4, <1>7
LEMMA ClaimRefusedGood ==
    ASSUME plugged \in SUBSET PciDevs, NEW t, NEW at, NEW us, NEW L, NEW to, NEW i \in PciGuests,
           NEW D, NEW u, Good(t, at, us, L), Claimed(t, i, D, u),
           Staying(to) \subseteq Staying(at) \ {i}, i \in Staying(at)
    PROVE  Good(u, to, us, L)
<1>1. t \in Trackers /\ \A d \in D : d \in PciDevs /\ t.dev[d] = Available
  BY DEF Good, Trackers, PoolRight, Claimed
<1>2. PoolRight(u)
  BY <1>1, StatesAre DEF Good, PoolRight, Claimed
<1>3. \A j \in PciGuests : u.claims[j] = IF j = i THEN D ELSE t.claims[j]
  BY <1>1 DEF Claimed, Trackers
<1>4. EntriesRight(u, L)
  BY <1>1, <1>3, StatesAre DEF Good, EntriesRight, Claimed
<1>5. NothingClaimed(u, to)
  <2> SUFFICES ASSUME NEW j \in Staying(to)
               PROVE  u.claims[j] = {} /\ \A d \in PciDevs : u.dev[d] # State("claimed", j)
    BY DEF NothingClaimed
  <2>1. j # i /\ j \in PciGuests /\ t.claims[j] = {} /\ \A d \in PciDevs : t.dev[d] # State("claimed", j)
    BY DEF Good, NothingClaimed, Staying
  <2>2. State("claimed", i) # State("claimed", j)
    BY <2>1 DEF State
  <2> QED
    BY <1>3, <2>1, <2>2 DEF Claimed
<1>6. Given(u.dev, us, L)
  BY <1>1, StatesAre DEF Good, Given, Claimed
<1>7. Untouched(u, us, L)
  BY <1>1, <1>3, StatesAre DEF Good, Untouched, Claimed
<1> QED
  BY <1>2, <1>4, <1>5, <1>6, <1>7 DEF Good, Claimed
\* A claim for a guest that has nothing yet, and is not leaving.
ClaimedFirst(t, at, us, L, i, D, u, vs) ==
    /\ vs = [us EXCEPT ![i] = D] /\ i \in PciGuests /\ us \in [PciGuests -> SUBSET PciDevs] /\ i \in Staying(at) /\ us[i] = {}
    /\ Good(t, at, us, L) /\ Claimed(t, i, D, u)
LEMMA ClaimGood ==
    ASSUME plugged \in SUBSET PciDevs, NEW t, NEW at, NEW us, NEW L, NEW i, NEW D, NEW u, NEW vs,
           ClaimedFirst(t, at, us, L, i, D, u, vs)
    PROVE  /\ Good(Allocate(u, i), at, vs, L)
           /\ \A d \in D : Allocate(u, i).dev[d] = State("allocated", i)
           /\ u.claims[i] = D
<1> USE DEF ClaimedFirst
<1> DEFINE w == Put(u, u.claims[i], State("allocated", i), u.pool)
           v == Allocate(u, i)
<1>1. /\ t \in Trackers /\ u \in Trackers /\ D \in SUBSET PciDevs /\ u.pool \in SUBSET PciDevs
      /\ \A d \in D : d \in PciDevs /\ t.dev[d] = Available
  BY DEF Good, Trackers, PoolRight, Claimed
<1>2. u.claims[i] = D
  BY <1>1 DEF Claimed, Trackers
<1>3. Puts(w, u, D, State("allocated", i), u.pool)
  BY <1>1, <1>2, StatesAre, PutPuts
<1> HIDE DEF w
<1>4. v = [w EXCEPT !.claims[i] = {}, !.allocations[i] = @ \cup D] /\ w \in Trackers
  BY <1>2, <1>3 DEF Allocate, w, Puts
<1> HIDE DEF v
<1>5. /\ v \in Trackers /\ v.dev = w.dev /\ v.pool = w.pool
      /\ v.claims = [w.claims EXCEPT ![i] = {}]
      /\ v.allocations = [w.allocations EXCEPT ![i] = @ \cup D]
  BY <1>1, <1>4 DEF Trackers
<1>6. /\ \A d \in PciDevs : v.dev[d] = IF d \in D THEN State("allocated", i) ELSE t.dev[d]
      /\ v.pool = t.pool \ D
  BY <1>3, <1>5 DEF Puts, Claimed
<1>7. /\ t.claims \in [PciGuests -> SUBSET PciDevs] /\ t.allocations \in [PciGuests -> SUBSET PciDevs]
      /\ v.claims = [t.claims EXCEPT ![i] = {}]
      /\ v.allocations = [t.allocations EXCEPT ![i] = t.allocations[i] \cup D]
  <2>1. t.claims \in [PciGuests -> SUBSET PciDevs] /\ t.allocations \in [PciGuests -> SUBSET PciDevs]
    BY <1>1 DEF Trackers
  <2>2. w.claims = [t.claims EXCEPT ![i] = D] /\ w.allocations = t.allocations
    BY <1>3 DEF Puts, Claimed
  <2> QED
    BY <1>1, <1>5, <2>1, <2>2
<1>14. vs[i] = D /\ \A j \in PciGuests \ {i} : vs[j] = us[j]
  BY <1>1
<1>15. v.claims[i] = {} /\ v.allocations[i] = t.allocations[i] \cup D
  BY <1>7
<1>16. \A j \in PciGuests \ {i} : v.claims[j] = t.claims[j] /\ v.allocations[j] = t.allocations[j]
  BY <1>7
<1>8. PoolRight(v)
  BY <1>1, <1>6, StatesAre DEF Good, PoolRight
<1>17. \A j \in PciGuests, d \in plugged \ L :
          /\ d \in t.claims[j] => t.dev[d] = State("claimed", j) /\ d \notin D
          /\ d \in t.allocations[j] => t.dev[d] = State("allocated", j) /\ d \notin D
          /\ d \in us[j] => t.dev[d] = State("allocated", j) /\ d \notin D
  BY <1>1, StatesAre DEF Good, EntriesRight, Given
<1>9. EntriesRight(v, L)
  <2>1. \A d \in plugged \ L :
           /\ d \in v.claims[i] => v.dev[d] = State("claimed", i)
           /\ d \in v.allocations[i] => v.dev[d] = State("allocated", i)
    BY <1>6, <1>15, <1>17
  <2>2. \A j \in PciGuests \ {i}, d \in plugged \ L :
           /\ d \in v.claims[j] => v.dev[d] = State("claimed", j)
           /\ d \in v.allocations[j] => v.dev[d] = State("allocated", j)
    BY <1>6, <1>16, <1>17
  <2> QED
    BY <2>1, <2>2 DEF EntriesRight
<1>10. NothingClaimed(v, at)
  BY <1>6, <1>15, <1>16, StatesAre DEF Good, NothingClaimed, Staying
<1>11. Given(v.dev, vs, L)
  <2>1. \A d \in (vs[i] \cap plugged) \ L : v.dev[d] = State("allocated", i)
    BY <1>6, <1>14
  <2>2. \A j \in PciGuests \ {i} : \A d \in (vs[j] \cap plugged) \ L : v.dev[d] = State("allocated", j)
    BY <1>6, <1>14, <1>17
  <2> QED
    BY <2>1, <2>2 DEF Given
<1>12. Untouched(v, vs, L)
  <2> SUFFICES ASSUME NEW d \in PciDevs \ L, NEW j \in PciGuests, v.dev[d] = Unknown
               PROVE  d \notin vs[j] /\ d \notin v.claims[j] /\ d \notin v.allocations[j]
    BY DEF Untouched
  <2>1. d \notin D /\ t.dev[d] = Unknown
    BY <1>6, StatesAre
  <2>2. d \notin us[j] /\ d \notin t.claims[j] /\ d \notin t.allocations[j]
    BY <2>1 DEF Good, Untouched
  <2> QED
    BY <1>14, <1>15, <1>16, <2>1, <2>2
<1>13. \A d \in D : v.dev[d] = State("allocated", i)
  BY <1>1, <1>6
<1> QED
  BY <1>2, <1>5, <1>8, <1>9, <1>10, <1>11, <1>12, <1>13 DEF Good, v

\* What a step leaves, when it unplugs and plugs nothing.
Settled ==
    /\ step' \in [PciGuests -> PciSteps] /\ uses' \in [PciGuests -> SUBSET PciDevs]
    /\ plugged' = plugged /\ loose' \in SUBSET PciDevs /\ pci' \in Trackers
    /\ table' \in [PciDevs -> PciStates] /\ Good(pci', step', uses', loose')
    /\ UsedBy(step', uses', loose') /\ TableRight(table', step', uses', loose')
LEMMA SettledInv == PciInv /\ Settled => PciInv'
BY DEF Settled, PciInv, PciTypeOK, Good, TableRight, Given, EntriesRight, PoolRight,
       NothingClaimed, Untouched, UsedBy, Staying, Trackers, PciStates
LEMMA GuestGoes ==
    ASSUME PciTypeOK, NEW i \in PciGuests, NEW to \in PciSteps, Goes(i, to)
    PROVE  /\ step' \in [PciGuests -> PciSteps] /\ step'[i] = to
           /\ \A j \in PciGuests \ {i} : step'[j] = step[j]
           /\ (to \in {"elsewhere", "gone", "left"} \/ i \in Staying(step))
                 => Staying(step') \subseteq Staying(step)
           /\ to \in {"elsewhere", "gone", "left"} => Staying(step') \subseteq Staying(step) \ {i}
<1>1. /\ step' \in [PciGuests -> PciSteps] /\ step'[i] = to
      /\ \A j \in PciGuests \ {i} : step'[j] = step[j]
  BY DEF PciTypeOK, Goes
<1>2. \A j \in PciGuests \ {i} : j \in Staying(step') <=> j \in Staying(step)
  BY <1>1 DEF Staying
<1>3. to \in {"elsewhere", "gone", "left"} => i \notin Staying(step')
  BY <1>1 DEF Staying
<1>4. Staying(step') \subseteq PciGuests
  BY DEF Staying
<1> QED
  BY <1>1, <1>2, <1>3, <1>4

\* The steps that leave the tracker and the table alone.
LEMMA QuietStep ==
    ASSUME PciInv, UNCHANGED <<plugged, pci, table, loose>>,
           step' \in [PciGuests -> PciSteps], uses' \in [PciGuests -> SUBSET PciDevs],
           Staying(step') \subseteq Staying(step), UsedBy(step', uses', loose'),
           \A i \in PciGuests : uses'[i] \subseteq uses[i]
    PROVE  Settled
<1>1. Good(pci, step', uses', loose)
  BY StillGood DEF PciInv
<1>2. TableRight(table, step', uses', loose)
  BY DEF PciInv, TableRight, Given
<1> QED
  BY <1>1, <1>2 DEF Settled, PciInv, PciTypeOK

LEMMA GuestsSteps ==
    ASSUME PciInv, NEW i \in PciGuests,
           \/ PciSpawn(i) \/ PciReschedule(i) \/ PciDelete(i) \/ PciLeave(i)
           \/ PciUpdateUsage(i) /\ i \notin traced.instances
           \/ PciConfirm(i) /\ i \notin traced.migrations
    PROVE  Settled
<1>1. PciTypeOK /\ UsedBy(step, uses, loose) /\ {"running", "elsewhere", "deleted", "left", "gone"} \subseteq PciSteps
  BY DEF PciInv, PciSteps
<1>2. PICK to \in {"running", "elsewhere", "deleted", "left", "gone"} :
         /\ Goes(i, to)
         /\ to \in {"running", "deleted"} => step[i] \in {"claimed", "running", "error"}
         /\ \/ to = "running"
            \/ uses' = [uses EXCEPT ![i] = {}]
            \/ uses' = uses /\ step[i] \in {"aborted", "deleted", "left"}
         /\ to = "running" => uses' = uses
         /\ UNCHANGED <<plugged, pci, table, loose>>
  BY DEF PciSpawn, PciReschedule, PciDelete, PciLeave, PciUpdateUsage, PciConfirm
<1>3. /\ step' \in [PciGuests -> PciSteps] /\ step'[i] = to
      /\ \A j \in PciGuests \ {i} : step'[j] = step[j]
      /\ Staying(step') \subseteq Staying(step)
  <2>1. to \in {"elsewhere", "gone", "left"} \/ i \in Staying(step)
    BY <1>2 DEF Staying
  <2> QED
    BY <1>1, <1>2, <2>1, GuestGoes
<1>4. uses' \in [PciGuests -> SUBSET PciDevs] /\ \A j \in PciGuests : uses'[j] \subseteq uses[j]
  BY <1>1, <1>2 DEF PciTypeOK
<1>5. loose' = loose /\ (uses'[i] \subseteq loose \/ to = "running")
  BY <1>1, <1>2 DEF PciTypeOK, UsedBy
<1>6. UsedBy(step', uses', loose')
  BY <1>1, <1>3, <1>4, <1>5 DEF UsedBy
<1> QED
  BY <1>2, <1>3, <1>4, <1>6, QuietStep
LEMMA ClaimStep ==
    ASSUME PciInv, NEW i \in PciGuests, PciClaim(i)
    PROVE  Settled
<1>1. /\ PciTypeOK /\ UsedBy(step, uses, loose) /\ "claimed" \in PciSteps /\ pci \in Trackers
      /\ Good(pci, step, uses, loose) /\ TableRight(table, step, uses, loose)
      /\ plugged \in SUBSET PciDevs /\ uses \in [PciGuests -> SUBSET PciDevs]
      /\ loose \cup {} = loose /\ {} \in SUBSET PciDevs
  BY DEF PciInv, PciSteps, PciTypeOK
<1>2. PICK t \in Claims(pci, i) :
         Update(Allocate(t, i), {}) /\ uses' = [uses EXCEPT ![i] = t.claims[i]]
  BY DEF PciClaim
<1>3. PICK D \in SUBSET PciDevs : Claimed(pci, i, D, t)
  BY <1>1, ClaimTracker
<1>4. step[i] = "new" /\ Goes(i, "claimed") /\ plugged' = plugged
  BY DEF PciClaim
<1>5. /\ step' \in [PciGuests -> PciSteps] /\ step'[i] = "claimed"
      /\ \A j \in PciGuests \ {i} : step'[j] = step[j]
      /\ Staying(step') \subseteq Staying(step) /\ i \in Staying(step) /\ uses[i] = {}
  BY <1>1, <1>4, GuestGoes DEF Staying, UsedBy
<1> DEFINE vs == [uses EXCEPT ![i] = D]
<1>11. ClaimedFirst(pci, step, uses, loose, i, D, t, vs)
  BY <1>1, <1>3, <1>5 DEF ClaimedFirst
<1> HIDE DEF vs
<1>12. /\ Good(Allocate(t, i), step, vs, loose) /\ t.claims[i] = D
       /\ \A d \in D : Allocate(t, i).dev[d] = State("allocated", i)
  BY <1>1, <1>11, ClaimGood
<1>13. loose \subseteq loose /\ \A j \in PciGuests : vs[j] \subseteq vs[j]
  OBVIOUS
<1>6. /\ Good(Allocate(t, i), step', [uses EXCEPT ![i] = D], loose) /\ t.claims[i] = D
      /\ \A d \in D : Allocate(t, i).dev[d] = State("allocated", i)
  BY <1>5, <1>12, <1>13, StillGood DEF vs
<1>7. uses' = [uses EXCEPT ![i] = D] /\ uses' \in [PciGuests -> SUBSET PciDevs]
  BY <1>1, <1>2, <1>6
<1>8. Newly(Allocate(t, i), uses, uses')
  BY <1>1, <1>6, <1>7 DEF Newly
<1>9. /\ Good(pci', step', uses', loose') /\ TableRight(table', step', uses', loose')
      /\ loose' \in SUBSET PciDevs /\ table' \in [PciDevs -> PciStates] /\ pci' \in Trackers
  BY <1>1, <1>2, <1>5, <1>6, <1>7, <1>8, SavedGood
<1>10. UsedBy(step', uses', loose')
  BY <1>1, <1>2, <1>5, <1>7 DEF UsedBy, Update
<1> QED
  BY <1>4, <1>5, <1>7, <1>9, <1>10 DEF Settled

LEMMA ClaimRefusedStep ==
    ASSUME PciInv, NEW i \in PciGuests, PciClaimRefused(i)
    PROVE  Settled
<1>1. /\ PciTypeOK /\ UsedBy(step, uses, loose) /\ "elsewhere" \in PciSteps /\ pci \in Trackers
      /\ Good(pci, step, uses, loose) /\ plugged \in SUBSET PciDevs
      /\ uses \in [PciGuests -> SUBSET PciDevs]
  BY DEF PciInv, PciSteps, PciTypeOK
<1>2. /\ step[i] = "new" /\ Goes(i, "elsewhere") /\ UNCHANGED <<uses, plugged, table, loose>>
      /\ pci' = pci \/ pci' \in Claims(pci, i)
  BY DEF PciClaimRefused
<1>3. /\ step' \in [PciGuests -> PciSteps] /\ step'[i] = "elsewhere"
      /\ \A j \in PciGuests \ {i} : step'[j] = step[j]
      /\ Staying(step') \subseteq Staying(step) \ {i} /\ i \in Staying(step) /\ uses[i] = {}
  BY <1>1, <1>2, GuestGoes DEF Staying, UsedBy
<1>4. UsedBy(step', uses', loose')
  BY <1>1, <1>2, <1>3 DEF UsedBy
<1>5. CASE pci' = pci
  BY <1>1, <1>2, <1>3, <1>4, <1>5, QuietStep
<1>6. CASE pci' \in Claims(pci, i)
  <2>1. PICK D \in SUBSET PciDevs : Claimed(pci, i, D, pci')
    BY <1>1, <1>6, ClaimTracker
  <2>2. Good(pci', step', uses, loose)
    BY <1>1, <1>3, <2>1, ClaimRefusedGood
  <2>3. TableRight(table, step', uses, loose)
    BY <1>3 DEF PciInv, TableRight
  <2> QED
    BY <1>1, <1>2, <1>3, <1>4, <2>2, <2>3 DEF Settled, PciTypeOK, Good
<1> QED
  BY <1>2, <1>5, <1>6

\* A build that is aborted, and a delete whose usage is updated.
LEMMA FreeingStep ==
    ASSUME PciInv, NEW i \in PciGuests,
           PciAbort(i) \/ (PciUpdateUsage(i) /\ i \in traced.instances)
    PROVE  Settled
<1>1. /\ PciTypeOK /\ UsedBy(step, uses, loose) /\ {"aborted", "gone"} \subseteq PciSteps
      /\ Good(pci, step, uses, loose) /\ TableRight(table, step, uses, loose)
      /\ plugged \in SUBSET PciDevs /\ uses \in [PciGuests -> SUBSET PciDevs]
      /\ loose \cup {} = loose /\ {} \in SUBSET PciDevs
  BY DEF PciInv, PciSteps, PciTypeOK
<1>2. PICK K \in SUBSET uses[i] :
         /\ Update(FreeInstance(pci, i), K) /\ plugged' = plugged
         /\ uses' = [uses EXCEPT ![i] = K] /\ K \subseteq loose'
         /\ \/ step[i] = "claimed" /\ Goes(i, "aborted")
            \/ step[i] = "deleted" /\ Goes(i, "gone")
  <2>1. CASE PciAbort(i)
    <3>1. \/ Update(FreeInstance(pci, i), {}) /\ uses' = [uses EXCEPT ![i] = {}]
          \/ Update(FreeInstance(pci, i), uses[i]) /\ uses' = [uses EXCEPT ![i] = uses[i]]
      BY <1>1, <2>1 DEF PciAbort
    <3>2. ASSUME NEW K \in SUBSET uses[i], Update(FreeInstance(pci, i), K)
          PROVE  K \subseteq loose'
      BY <3>2 DEF Update
    <3> QED
      BY <2>1, <3>1, <3>2 DEF PciAbort
  <2>2. CASE PciUpdateUsage(i) /\ i \in traced.instances
    <3>1. /\ Update(FreeInstance(pci, i), {}) /\ plugged' = plugged /\ uses' = uses
          /\ step[i] = "deleted" /\ Goes(i, "gone")
      BY <2>2 DEF PciUpdateUsage
    <3>2. uses[i] \subseteq loose
      BY <1>1, <3>1 DEF UsedBy
    <3>3. PICK skipped \in Skips(FreeInstance(pci, i)) :
             /\ table' = Saved(FreeInstance(pci, i), skipped)
             /\ pci' = Put(FreeInstance(pci, i), Gone(FreeInstance(pci, i)) \ skipped, Deleted,
                            FreeInstance(pci, i).pool)
             /\ told' = Cardinality(FreeInstance(pci, i).pool)
             /\ loose' = loose \cup {} \cup {d \in skipped : FreeInstance(pci, i).dev[d] # table[d]}
      BY <3>1 DEF Update
    <3>4. loose \cup {} = loose \cup uses[i]
      BY <3>2
    <3>5. Update(FreeInstance(pci, i), uses[i]) /\ uses[i] \subseteq loose'
      BY <3>2, <3>3, <3>4 DEF Update
    <3> QED
      BY <1>1, <3>1, <3>5
  <2> QED
    BY <2>1, <2>2
<1> DEFINE L == loose \cup K
<1>3. /\ step' \in [PciGuests -> PciSteps] /\ \A j \in PciGuests \ {i} : step'[j] = step[j]
      /\ step'[i] \in {"aborted", "gone"}
      /\ Staying(step') \subseteq Staying(step) /\ i \in Staying(step)
  BY <1>1, <1>2, GuestGoes DEF Staying
<1>4. /\ uses' \in [PciGuests -> SUBSET PciDevs] /\ uses'[i] = K
      /\ \A j \in PciGuests : uses'[j] \subseteq uses[j]
  BY <1>1, <1>2
<1>5. loose \subseteq L /\ Staying(step) \subseteq Staying(step) /\ K \subseteq L
  OBVIOUS
<1>6. Good(pci, step, uses', L)
  BY <1>1, <1>4, <1>5, StillGood
<1>7. Good(FreeInstance(pci, i), step, uses', L)
  BY <1>1, <1>3, <1>4, <1>5, <1>6, FreedInstance
<1>8. Good(FreeInstance(pci, i), step', uses', L)
  <2>1. L \subseteq L /\ \A j \in PciGuests : uses'[j] \subseteq uses'[j]
    OBVIOUS
  <2> QED
    BY <1>3, <1>7, <2>1, StillGood
<1>9. Newly(FreeInstance(pci, i), uses, uses')
  BY <1>4 DEF Newly
<1>12. K \in SUBSET PciDevs
  BY <1>1, <1>2
<1>10. /\ Good(pci', step', uses', loose') /\ TableRight(table', step', uses', loose')
       /\ loose' \in SUBSET PciDevs /\ table' \in [PciDevs -> PciStates] /\ pci' \in Trackers
  BY <1>1, <1>2, <1>3, <1>4, <1>8, <1>9, <1>12, SavedGood
<1>13. loose \subseteq loose'
  BY <1>2 DEF Update
<1>11. UsedBy(step', uses', loose')
  BY <1>1, <1>2, <1>3, <1>4, <1>13 DEF UsedBy
<1> QED
  BY <1>2, <1>3, <1>4, <1>10, <1>11 DEF Settled

LEMMA ConfirmStep ==
    ASSUME PciInv, NEW i \in PciGuests, PciConfirm(i), i \in traced.migrations
    PROVE  Settled
<1>1. /\ PciTypeOK /\ UsedBy(step, uses, loose) /\ "elsewhere" \in PciSteps /\ pci \in Trackers
      /\ Good(pci, step, uses, loose) /\ TableRight(table, step, uses, loose)
      /\ plugged \in SUBSET PciDevs /\ uses \in [PciGuests -> SUBSET PciDevs]
  BY DEF PciInv, PciSteps, PciTypeOK
<1> DEFINE D == IF pci.claims[i] = {} THEN {} ELSE Owned(pci, i)
<1>2. /\ Update(Free(pci, D), D) /\ Goes(i, "elsewhere") /\ UNCHANGED <<uses, plugged>>
      /\ D \in SUBSET PciDevs
  BY DEF PciConfirm, Owned
<1> HIDE DEF D
<1>3. /\ step' \in [PciGuests -> PciSteps] /\ step'[i] = "elsewhere"
      /\ \A j \in PciGuests \ {i} : step'[j] = step[j]
      /\ Staying(step') \subseteq Staying(step)
  BY <1>1, <1>2, GuestGoes
<1>4. Puts(Free(pci, D), pci, D, Available, pci.pool \cup D)
  BY <1>1, <1>2, FreeTracker
<1>5. Frees(pci, D, Free(pci, D), uses, loose \cup D)
  BY <1>1, <1>2, <1>4 DEF Frees, Puts
<1>6. Good(pci, step', uses, loose \cup D)
  <2>1. loose \subseteq loose \cup D /\ \A j \in PciGuests : uses[j] \subseteq uses[j]
    OBVIOUS
  <2> QED
    BY <1>1, <1>3, <2>1, StillGood
<1>7. Good(Free(pci, D), step', uses, loose \cup D)
  BY <1>1, <1>5, <1>6, Freeing
<1>8. /\ Good(pci', step', uses, loose') /\ TableRight(table', step', uses, loose')
      /\ loose' \in SUBSET PciDevs /\ table' \in [PciDevs -> PciStates] /\ pci' \in Trackers
  <2>1. Newly(Free(pci, D), uses, uses)
    BY DEF Newly
  <2> QED
    BY <1>1, <1>2, <1>3, <1>7, <2>1, SavedGood
<1>9. UsedBy(step', uses, loose')
  <2>1. uses[i] \subseteq loose \/ step[i] \in {"claimed", "running"}
    BY <1>1 DEF UsedBy
  <2>2. step[i] = "left" /\ loose \subseteq loose'
    BY <1>2 DEF PciConfirm, Update
  <2> QED
    BY <1>1, <1>3, <2>1, <2>2 DEF UsedBy
<1> QED
  BY <1>1, <1>2, <1>3, <1>8, <1>9 DEF Settled

LEMMA AuditStep == ASSUME PciInv, PciAssumption, PciAudit PROVE Settled
<1>1. /\ PciTypeOK /\ UsedBy(step, uses, loose) /\ Good(pci, step, uses, loose)
      /\ TableRight(table, step, uses, loose) /\ uses \in [PciGuests -> SUBSET PciDevs]
      /\ Staying(step) \subseteq Staying(step) /\ \A i \in PciGuests : uses[i] \subseteq uses[i]
  BY DEF PciInv, PciTypeOK
<1>2. AuditOf(pci, step, FALSE) /\ UNCHANGED <<step, uses, plugged>>
  BY DEF PciAudit
<1>3. /\ Good(pci', step, uses, loose') /\ TableRight(table', step, uses, loose')
      /\ loose \subseteq loose' /\ loose' \in SUBSET PciDevs /\ table' \in [PciDevs -> PciStates] /\ pci' \in Trackers
  BY <1>1, <1>2, AuditGood
<1>4. UsedBy(step', uses', loose')
  BY <1>1, <1>2, <1>3 DEF UsedBy
<1> QED
  BY <1>1, <1>2, <1>3, <1>4 DEF Settled, PciTypeOK

LEMMA StopsStep == ASSUME PciInv, PciAssumption, PciStops PROVE Settled
<1>1. /\ PciTypeOK /\ UsedBy(step, uses, loose) /\ TableRight(table, step, uses, loose)
  BY DEF PciInv
<1>2. AuditOf(Loaded, step', TRUE) /\ plugged' = plugged
  BY DEF PciStops
<1>3. \A i \in PciGuests :
         /\ step[i] \in {"claimed", "aborted"} => step'[i] = "error"
         /\ step[i] = "deleted" => step'[i] = "gone"
         /\ step[i] \notin {"claimed", "aborted", "deleted"} => step'[i] = step[i]
         /\ uses'[i] = IF step[i] = "claimed" THEN {} ELSE uses[i]
  BY DEF PciStops
<1>4. step' \in [PciGuests -> PciSteps] /\ uses' \in [PciGuests -> SUBSET PciDevs]
  <2>1. DOMAIN step' = PciGuests /\ step' = [i \in PciGuests |-> step'[i]]
    BY DEF PciStops
  <2>2. \A i \in PciGuests : step'[i] \in PciSteps
    BY <1>1, <1>3 DEF PciTypeOK, PciSteps
  <2>3. step' \in [PciGuests -> PciSteps]
    BY <2>1, <2>2
  <2>4. uses' \in [PciGuests -> SUBSET PciDevs]
    BY <1>1 DEF PciStops, PciTypeOK
  <2> QED
    BY <2>3, <2>4
<1>5. Staying(step') \subseteq Staying(step) /\ \A i \in PciGuests : uses'[i] \subseteq uses[i]
  BY <1>1, <1>3 DEF Staying, PciTypeOK, PciSteps
<1>6. UsedBy(step', uses', loose)
  BY <1>1, <1>3, <1>5 DEF UsedBy, PciTypeOK, PciSteps
<1>7. TableRight(table, step', uses', loose)
  BY <1>1, <1>5 DEF TableRight, Given
<1>8. Good(Loaded, step', uses', loose)
  BY <1>1, <1>7, LoadedGood
<1>9. /\ Good(pci', step', uses', loose') /\ TableRight(table', step', uses', loose')
      /\ loose \subseteq loose' /\ loose' \in SUBSET PciDevs /\ table' \in [PciDevs -> PciStates] /\ pci' \in Trackers
  BY <1>1, <1>2, <1>4, <1>5, <1>6, <1>8, AuditGood
<1>10. UsedBy(step', uses', loose')
  BY <1>6, <1>9 DEF UsedBy
<1> QED
  BY <1>2, <1>4, <1>9, <1>10 DEF Settled

\* A device that is unplugged is nobody's; one that is plugged in is in nothing.
LEMMA PluggingStep ==
    ASSUME PciInv, PciAssumption, NEW d \in PciDevs, Unplug(d) \/ Plug(d)
    PROVE  PciInv'
<1>1. PciTypeOK'
  BY DEF PciInv, PciTypeOK, Unplug, Plug, Trackers, PciStates
<1>2. UNCHANGED <<step, uses, pci, table, loose>>
      /\ \A e \in plugged' : e \in plugged \/ (e = d /\ pci.dev[d] = Unknown)
  BY DEF Unplug, Plug
<1>3. EntriesRight(pci, loose)'
  BY <1>2 DEF PciInv, Good, EntriesRight, Untouched, PciTypeOK
<1>4. Given(pci.dev, uses, loose)'
  BY <1>2 DEF PciInv, Good, Given, Untouched, PciTypeOK
<1>5. Given(table, uses, loose)'
  BY <1>2 DEF PciInv, Good, TableRight, Given, Untouched, PciTypeOK
<1> QED
  BY <1>1, <1>2, <1>3, <1>4, <1>5
     DEF PciInv, Good, TableRight, PoolRight, NothingClaimed, Untouched, UsedBy, Staying, Trackers, PciStates

LEMMA PciInitially == PciAssumption /\ PciInit => PciInv
<1> SUFFICES ASSUME PciAssumption, PciInit PROVE PciInv
  OBVIOUS
<1>1. /\ \A d \in PciDevs : table[d] = IF d \in Spare THEN Unknown ELSE Available
      /\ table \in [PciDevs -> PciStates] /\ pci.dev = table
      /\ pci.pool = PciDevs \ Spare /\ plugged = PciDevs \ Spare /\ loose = {}
      /\ \A i \in PciGuests : /\ pci.claims[i] = {} /\ pci.allocations[i] = {} /\ uses[i] = {}
                              /\ step[i] = "new"
  BY StatesAre DEF PciInit
<1>2. PciTypeOK
  BY <1>1 DEF PciInit, PciTypeOK, PciSteps, Trackers
<1>3. Good(pci, step, uses, loose)
  BY <1>1, <1>2, StatesAre
     DEF Good, PoolRight, EntriesRight, NothingClaimed, Given, Untouched, Staying, PciTypeOK
<1> QED
  BY <1>1, <1>2, <1>3, StatesAre DEF PciInv, UsedBy, TableRight, Given, Staying

\* Who has a device is written down alike everywhere: the devices that are
\* available are the pool's, an entry's are its guest's in the entry's status, a
\* guest's are allocated to it in the tracker and in the table, whoever claims,
\* aborts, leaves, is deleted or audited, and wherever the service stops; only
\* the loose devices are excepted.
THEOREM PciInvariant == PciSpec => []PciInv
<1>1. PciInit => PciInv
  BY PciInitially, PciAssumption
<1>2. PciInv /\ [PciNext]_pcis => PciInv'
  <2> SUFFICES ASSUME PciInv, [PciNext]_pcis PROVE PciInv'
    OBVIOUS
  <2>1. CASE UNCHANGED pcis
    BY <2>1 DEF pcis, PciInv, PciTypeOK, Good, TableRight, Given, EntriesRight, PoolRight,
                NothingClaimed, Untouched, UsedBy, Staying, Trackers, PciStates
  <2>2. CASE \E i \in PciGuests :
                \/ PciClaim(i) \/ PciClaimRefused(i) \/ PciSpawn(i) \/ PciAbort(i)
                \/ PciReschedule(i) \/ PciDelete(i) \/ PciUpdateUsage(i)
                \/ PciLeave(i) \/ PciConfirm(i)
    <3>1. PICK i \in PciGuests :
                \/ PciClaim(i) \/ PciClaimRefused(i) \/ PciSpawn(i) \/ PciAbort(i)
                \/ PciReschedule(i) \/ PciDelete(i) \/ PciUpdateUsage(i)
                \/ PciLeave(i) \/ PciConfirm(i)
      BY <2>2
    <3>2. Settled
      BY <3>1, ClaimStep, ClaimRefusedStep, GuestsSteps, FreeingStep, ConfirmStep
    <3> QED
      BY <3>2, SettledInv
  <2>3. CASE PciAudit
    BY <2>3, AuditStep, SettledInv, PciAssumption
  <2>4. CASE PciStops
    BY <2>4, StopsStep, SettledInv, PciAssumption
  <2>5. CASE \E d \in PciDevs : Unplug(d) \/ Plug(d)
    BY <2>5, PluggingStep, PciAssumption
  <2> QED
    BY <2>1, <2>2, <2>3, <2>4, <2>5 DEF PciNext
<1> QED
  BY <1>1, <1>2, PTL DEF PciSpec

\* A guest has the devices it was given to itself as long as it has them, and
\* the pool is what is free, for any number of guests, devices and mishaps.
THEOREM DevicesOwned == PciSpec => []DeviceOwned
<1>1. PciInv => DeviceOwned
  BY StatesAre DEF PciInv, Good, Given, PoolRight, DeviceOwned, Taken
<1> QED
  BY <1>1, PciInvariant, PTL
-----------------------------------------------------------------------------
(* NumaTopology, for any number of hosts, cells, cores and instances: the  *)
(* fitting first, then the trackers' usage, then the steps.                *)

\* A finite set of integers has a greatest element, and one of natural numbers
\* a least one.
LEMMA MaxOf ==
    ASSUME NEW S \in SUBSET Int, IsFiniteSet(S), S # {}
    PROVE  Max(S) \in S /\ \A x \in S : x <= Max(S)
<1> DEFINE F == {T \in SUBSET Int : T # {} => \E m \in T : \A x \in T : x <= m}
<1>1. ASSUME NEW T \in SUBSET Int, IsFiniteSet(T), \A U \in SUBSET T : U # T => U \in F, T # {}
      PROVE  \E m \in T : \A x \in T : x <= m
  <2>1. PICK z \in T : TRUE
    BY <1>1
  <2>2. T \ {z} \in F
    BY <1>1
  <2>3. CASE T \ {z} = {}
    BY <2>3, <2>1
  <2>4. CASE T \ {z} # {}
    <3>1. PICK m \in T \ {z} : \A x \in T \ {z} : x <= m
      BY <2>2, <2>4
    <3>2. m \in Int /\ z \in Int /\ T \subseteq Int
      OBVIOUS
    <3> QED
      BY <3>1, <3>2
  <2> QED
    BY <2>3, <2>4
<1>2. \A T \in SUBSET Int : IsFiniteSet(T) /\ (\A U \in SUBSET T : U # T => U \in F) => T \in F
  BY <1>1
<1>3. \A T \in SUBSET Int : IsFiniteSet(T) => T \in F
  <2> HIDE DEF F
  <2> QED
    BY <1>2, FiniteSetsInduction
<1>4. PICK m \in S : \A x \in S : x <= m
  BY <1>3
<1>5. S \subseteq Int
  OBVIOUS
<1> QED
  BY <1>4, <1>5 DEF Max

LEMMA MinOf ==
    ASSUME NEW S \in SUBSET Nat, S # {}
    PROVE  Min(S) \in S
BY LeastOf DEF Min

\* The pairs of a strict total order on a set, as Sorted takes them.
Orders(S, order) ==
    /\ order \in SUBSET (S \X S)
    /\ \A x, y \in S : <<x, y>> \in order => <<y, x>> \notin order
    /\ \A x, y, z \in S : <<x, y>> \in order /\ <<y, z>> \in order => <<x, z>> \in order
    /\ \A x, y \in S : x # y => <<x, y>> \in order \/ <<y, x>> \in order

\* Sorted lists every element once: no two have the same number before them.
LEMMA SortedLists ==
    ASSUME NEW S, IsFiniteSet(S), NEW order, Orders(S, order)
    PROVE  /\ Sorted(S, order) \in [1..Cardinality(S) -> S]
           /\ IsInjective(Sorted(S, order))
           /\ \A x \in S : \E n \in 1..Cardinality(S) : Sorted(S, order)[n] = x
           /\ Cardinality(S) \in Nat
<1> DEFINE N == Cardinality(S)
           below(x) == {y \in S : <<y, x>> \in order}
           rank == [x \in S |-> Cardinality(below(x))]
<1>1. N \in Nat
  BY FS_CardinalityType
<1>2. ASSUME NEW x \in S, NEW y \in S, <<x, y>> \in order
      PROVE  rank[x] < rank[y] /\ rank[x] \in Nat /\ rank[y] \in Nat
  <2>1. below(x) \subseteq below(y) /\ x \in below(y) /\ x \notin below(x)
    BY <1>2 DEF Orders
  <2>2. IsFiniteSet(below(y)) /\ IsFiniteSet(below(x))
    BY FS_Subset
  <2>3. Cardinality(below(x)) <= Cardinality(below(y)) /\ Cardinality(below(x)) # Cardinality(below(y))
    BY <2>1, <2>2, FS_Subset
  <2>4. Cardinality(below(x)) \in Nat /\ Cardinality(below(y)) \in Nat
    BY <2>2, FS_CardinalityType
  <2> QED
    BY <2>3, <2>4
<1>3. ASSUME NEW x \in S
      PROVE  rank[x] \in 0..(N - 1)
  <2>1. below(x) \in SUBSET (S \ {x})
    BY DEF Orders
  <2>2. IsFiniteSet(S \ {x}) /\ Cardinality(S \ {x}) = N - 1
    BY FS_RemoveElement
  <2>3. IsFiniteSet(below(x)) /\ Cardinality(below(x)) <= N - 1
    <3> HIDE DEF below
    <3>1. Cardinality(below(x)) <= Cardinality(S \ {x}) /\ IsFiniteSet(below(x))
      BY <2>1, <2>2, FS_Subset
    <3> QED
      BY <3>1, <2>2
  <2>4. Cardinality(below(x)) \in Nat
    BY <2>3, FS_CardinalityType
  <2> QED
    BY <2>3, <2>4, <1>1
<1>4. rank \in Injection(S, 0..(N - 1))
  <2>1. rank \in [S -> 0..(N - 1)]
    BY <1>3
  <2>2. ASSUME NEW x \in S, NEW y \in S, rank[x] = rank[y]
        PROVE  x = y
    <3> SUFFICES ASSUME x # y PROVE FALSE
      OBVIOUS
    <3>1. <<x, y>> \in order \/ <<y, x>> \in order
      BY DEF Orders
    <3> HIDE DEF rank
    <3> QED
      BY <3>1, <1>2, <2>2
  <2> HIDE DEF rank
  <2> QED
    BY <2>1, <2>2 DEF Injection, IsInjective
<1>5. IsFiniteSet(0..(N - 1)) /\ Cardinality(0..(N - 1)) = N
  BY <1>1, FS_Interval
<1>6. rank \in Surjection(S, 0..(N - 1))
  <2> HIDE DEF rank, N
  <2>1. Cardinality(S) = Cardinality(0..(N - 1))
    BY <1>5 DEF N
  <2> QED
    BY <1>4, <1>5, <2>1, FS_Injection
<1>7. ASSUME NEW n \in 1..N
      PROVE  Sorted(S, order)[n] \in S /\ rank[Sorted(S, order)[n]] = n - 1
  <2>1. n - 1 \in 0..(N - 1)
    BY <1>1
  <2>2. PICK x \in S : rank[x] = n - 1
    BY <1>6, <2>1 DEF Surjection
  <2>3. Cardinality({y \in S : <<y, x>> \in order}) = n - 1
    BY <2>2
  <2>4. Sorted(S, order)[n] = CHOOSE z \in S : Cardinality({y \in S : <<y, z>> \in order}) = n - 1
    BY DEF Sorted
  <2>5. /\ Sorted(S, order)[n] \in S
        /\ Cardinality({y \in S : <<y, Sorted(S, order)[n]>> \in order}) = n - 1
    BY <2>3, <2>4
  <2> QED
    BY <2>5
<1>8. Sorted(S, order) \in [1..N -> S]
  <2> DEFINE nth(n) == CHOOSE x \in S : Cardinality({y \in S : <<y, x>> \in order}) = n - 1
  <2>1. Sorted(S, order) = [n \in 1..N |-> nth(n)]
    BY DEF Sorted
  <2> HIDE DEF N, nth
  <2>2. \A n \in 1..N : nth(n) \in S
    BY <1>7, <2>1
  <2> QED
    BY <2>1, <2>2
<1>9. IsInjective(Sorted(S, order))
  <2> HIDE DEF rank, N
  <2>1. ASSUME NEW m \in 1..N, NEW n \in 1..N, Sorted(S, order)[m] = Sorted(S, order)[n]
        PROVE  m = n
    <3>1. m - 1 = n - 1
      BY <2>1, <1>7
    <3> QED
      BY <3>1, <1>1
  <2> QED
    BY <1>8, <2>1 DEF IsInjective
<1>10. ASSUME NEW x \in S
       PROVE  \E n \in 1..N : Sorted(S, order)[n] = x
  <2> HIDE DEF rank, N
  <2>1. rank[x] + 1 \in 1..N /\ rank[x] \in Int
    BY <1>1, <1>3
  <2>2. rank[Sorted(S, order)[rank[x] + 1]] = rank[x] /\ Sorted(S, order)[rank[x] + 1] \in S
    BY <2>1, <1>7
  <2>3. Sorted(S, order)[rank[x] + 1] = x
    BY <2>2, <1>4 DEF Injection, IsInjective
  <2> QED
    BY <2>1, <2>3
<1> QED
  BY <1>1, <1>8, <1>9, <1>10

LEMMA OrderLists ==
    ASSUME NEW S, FiniteNumbers(S)
    PROVE  /\ Order(S) \in [1..Cardinality(S) -> S] /\ IsInjective(Order(S))
           /\ \A x \in S : \E n \in 1..Cardinality(S) : Order(S)[n] = x
           /\ Cardinality(S) \in Nat /\ Len(Order(S)) = Cardinality(S)
<1> DEFINE less == {p \in S \X S : p[1] < p[2]}
<1>1. \A x, y \in S : <<x, y>> \in less <=> x < y
  OBVIOUS
<1>2. Orders(S, less)
  <2> HIDE DEF less
  <2>1. S \subseteq Int
    BY DEF FiniteNumbers
  <2>2. less \in SUBSET (S \X S)
    BY DEF less
  <2> QED
    BY <1>1, <2>1, <2>2 DEF Orders
<1>3. Order(S) = Sorted(S, less)
  BY DEF Order
<1> HIDE DEF less
<1>4. /\ Order(S) \in [1..Cardinality(S) -> S] /\ IsInjective(Order(S))
      /\ \A x \in S : \E n \in 1..Cardinality(S) : Order(S)[n] = x
      /\ Cardinality(S) \in Nat
  BY <1>2, <1>3, SortedLists DEF FiniteNumbers
<1>5. Order(S) \in Seq(S) /\ Len(Order(S)) = Cardinality(S)
  BY <1>4
<1> QED
  BY <1>4, <1>5
-----------------------------------------------------------------------------
LEMMA CellOrdersFinite ==
    ASSUME NumaAssumption, NEW h \in NumaHosts, NEW m \in Nat
    PROVE  IsFiniteSet(CellOrders(h, m))
<1> DEFINE cells == DOMAIN HostCells[h]
           graph == [p \in CellOrders(h, m) |-> {<<k, p[k]>> : k \in 1..m}]
<1>1. IsFiniteSet(1..m) /\ IsFiniteSet(cells)
  <2>1. Len(HostCells[h]) \in Nat /\ cells = 1..Len(HostCells[h])
    BY DEF NumaAssumption
  <2> QED
    BY <2>1, FS_Interval
<1>2. IsFiniteSet(SUBSET ((1..m) \X cells))
  BY <1>1, FS_Product, FS_SUBSET
<1> HIDE DEF cells
<1>3. CellOrders(h, m) \subseteq [1..m -> cells]
  BY DEF CellOrders, cells
<1>4. graph \in [CellOrders(h, m) -> SUBSET ((1..m) \X cells)]
  BY <1>3
<1>5. ASSUME NEW p \in CellOrders(h, m), NEW q \in CellOrders(h, m), graph[p] = graph[q]
      PROVE  p = q
  <2>1. p \in [1..m -> cells] /\ q \in [1..m -> cells]
    BY <1>3
  <2>2. ASSUME NEW k \in 1..m PROVE p[k] = q[k]
    <3>1. <<k, p[k]>> \in graph[q]
      BY <1>5
    <3> QED
      BY <3>1
  <2> QED
    BY <2>1, <2>2
<1> HIDE DEF graph
<1>6. graph \in Injection(CellOrders(h, m), SUBSET ((1..m) \X cells))
  BY <1>4, <1>5 DEF Injection, IsInjective
<1> QED
  BY <1>2, <1>6, FS_Injection

\* The order of itertools.permutations is one.
LEMMA CellOrdersOrdered ==
    ASSUME NumaAssumption, NEW h \in NumaHosts, NEW m \in Nat, NEW perms, perms = CellOrders(h, m)
    PROVE  Orders(perms, {pq \in perms \X perms : Before(pq[1], pq[2])})
<1> DEFINE order == {pq \in perms \X perms : Before(pq[1], pq[2])}
<1>1. \A p \in perms : p \in [1..m -> Int]
  BY DEF CellOrders, NumaAssumption
<1>2. \A p, q \in perms : <<p, q>> \in order <=> Before(p, q)
  OBVIOUS
<1>3. \A p, q \in perms : Before(p, q) <=>
          \E n \in 1..m : p[n] < q[n] /\ \A k \in 1..(n - 1) : p[k] = q[k]
  BY <1>1 DEF Before
<1>4. order \in SUBSET (perms \X perms)
  OBVIOUS
<1> HIDE DEF order
<1>5. ASSUME NEW p \in perms, NEW q \in perms, Before(p, q)
      PROVE  ~Before(q, p)
  <2>1. PICK n \in 1..m : p[n] < q[n] /\ \A k \in 1..(n - 1) : p[k] = q[k]
    BY <1>3, <1>5
  <2>2. SUFFICES ASSUME NEW j \in 1..m, q[j] < p[j], \A k \in 1..(j - 1) : q[k] = p[k]
                 PROVE  FALSE
    BY <1>3
  <2>3. p[n] \in Int /\ q[n] \in Int /\ p[j] \in Int /\ q[j] \in Int
    BY <1>1
  <2>4. n < j => n \in 1..(j - 1)
    OBVIOUS
  <2>5. j < n => j \in 1..(n - 1)
    OBVIOUS
  <2> QED
    BY <2>1, <2>2, <2>3, <2>4, <2>5
<1>6. ASSUME NEW p \in perms, NEW q \in perms, NEW r \in perms, Before(p, q), Before(q, r)
      PROVE  Before(p, r)
  <2>1. PICK n \in 1..m : p[n] < q[n] /\ \A k \in 1..(n - 1) : p[k] = q[k]
    BY <1>3, <1>6
  <2>2. PICK j \in 1..m : q[j] < r[j] /\ \A k \in 1..(j - 1) : q[k] = r[k]
    BY <1>3, <1>6
  <2>3. PICK l \in 1..m : l = IF n < j THEN n ELSE j
    OBVIOUS
  <2>4. p[l] \in Int /\ q[l] \in Int /\ r[l] \in Int
    BY <1>1
  <2>5. p[l] < r[l]
    <3>1. CASE n < j
      BY <3>1, <2>1, <2>2, <2>3, <2>4, n \in 1..(j - 1)
    <3>2. CASE j < n
      BY <3>2, <2>1, <2>2, <2>3, <2>4, j \in 1..(n - 1)
    <3>3. CASE j = n
      BY <3>3, <2>1, <2>2, <2>3, <2>4
    <3> QED
      BY <3>1, <3>2, <3>3
  <2>6. ASSUME NEW k \in 1..(l - 1) PROVE p[k] = r[k]
    <3>1. k \in 1..(n - 1) /\ k \in 1..(j - 1)
      BY <2>3
    <3> QED
      BY <3>1, <2>1, <2>2
  <2> QED
    BY <2>5, <2>6, <1>3
<1>7. ASSUME NEW p \in perms, NEW q \in perms, p # q
      PROVE  Before(p, q) \/ Before(q, p)
  <2> DEFINE D == {n \in 1..m : p[n] # q[n]}
  <2>1. D \in SUBSET Nat /\ D # {}
    BY <1>1, <1>7
  <2>2. PICK n \in D : \A k \in D : n <= k
    <3> HIDE DEF D
    <3> QED
      BY <2>1, LeastOf
  <2>3. \A k \in 1..(n - 1) : p[k] = q[k]
    BY <2>2
  <2>4. n \in 1..m /\ p[n] \in Int /\ q[n] \in Int /\ p[n] # q[n]
    BY <1>1
  <2> QED
    BY <2>3, <2>4, <1>3
<1>8. Orders(perms, order)
  BY <1>2, <1>4, <1>5, <1>6, <1>7 DEF Orders
<1> QED
  BY <1>8 DEF order

-----------------------------------------------------------------------------
\* The cores a cell may be packed onto: sets of CPUs that share none.
Cores(free) ==
    /\ Len(free) \in Nat /\ DOMAIN free = 1..Len(free)
    /\ \A n \in DOMAIN free : FiniteNumbers(free[n])
    /\ \A m, n \in DOMAIN free : m # n => free[m] \cap free[n] = {}

LEMMA DivMod ==
    ASSUME NEW x \in Nat, NEW t \in Nat \ {0}
    PROVE  x % t \in 0..(t - 1) /\ x \div t \in Nat /\ x = t * (x \div t) + (x % t)
BY SMT

LEMMA CoreNumbers ==
    ASSUME NEW free, Cores(free)
    PROVE  DOMAIN free = 1..Len(free) /\ IsFiniteSet(1..Len(free)) /\ 1..Len(free) \subseteq Nat
<1> DEFINE m == Len(free)
<1>1. m \in Nat /\ DOMAIN free = 1..m
  BY DEF Cores
<1> HIDE DEF m
<1>2. IsFiniteSet(1..m)
  BY <1>1, FS_Interval
<1> QED
  BY <1>1, <1>2 DEF m

\* Cores with t threads each hold t CPUs apiece, no CPU twice.
LEMMA HostCpusApart ==
    ASSUME NEW free, Cores(free), NEW t \in Nat \ {0}, NEW n \in Nat,
           t * Len(CoresFor(free, t)) >= n
    PROVE  /\ \A j \in 1..n : \E c \in DOMAIN free : HostCpu(free, t, j) \in free[c]
           /\ \A j, k \in 1..n : HostCpu(free, t, j) = HostCpu(free, t, k) => j = k
<1> DEFINE usable == {c \in DOMAIN free : Cardinality(free[c]) >= t}
           core(j) == CoresFor(free, t)[((j - 1) \div t) + 1]
<1>1. FiniteNumbers(usable)
  <2>1. IsFiniteSet(1..Len(free))
    BY CoreNumbers
  <2>2. usable \in SUBSET (1..Len(free)) /\ usable \in SUBSET Nat
    BY CoreNumbers
  <2> HIDE DEF usable
  <2>3. IsFiniteSet(usable)
    BY <2>1, <2>2, FS_Subset
  <2> QED
    BY <2>2, <2>3 DEF FiniteNumbers
<1>2. /\ CoresFor(free, t) \in [1..Cardinality(usable) -> usable]
      /\ IsInjective(CoresFor(free, t)) /\ Cardinality(usable) \in Nat
      /\ Len(CoresFor(free, t)) = Cardinality(usable)
  <2> HIDE DEF usable
  <2>1. CoresFor(free, t) = Order(usable)
    BY DEF CoresFor, usable
  <2> QED
    BY <1>1, <2>1, OrderLists
<1> DEFINE N == Cardinality(usable)
<1> HIDE DEF usable, N
<1>3. N \in Nat /\ t * N >= n
  BY <1>2 DEF N
<1>4. ASSUME NEW j \in 1..n
      PROVE  /\ ((j - 1) \div t) + 1 \in 1..N /\ ((j - 1) % t) + 1 \in 1..t
             /\ j - 1 = t * ((j - 1) \div t) + ((j - 1) % t)
  <2>1. j - 1 \in Nat /\ j - 1 < t * N
    BY <1>3
  <2>2. /\ (j - 1) % t \in 0..(t - 1) /\ (j - 1) \div t \in Nat
        /\ j - 1 = t * ((j - 1) \div t) + ((j - 1) % t)
    BY <2>1, DivMod
  <2>3. PICK q \in Nat : q = (j - 1) \div t
    BY <2>2
  <2>4. PICK r \in 0..(t - 1) : r = (j - 1) % t /\ j - 1 = t * q + r
    BY <2>2, <2>3
  <2>5. q < N
    <3> SUFFICES ASSUME q >= N PROVE FALSE
      BY <1>3
    <3>1. t * q >= t * N
      BY <1>3
    <3> QED
      BY <3>1, <2>1, <2>4, <1>3
  <2> QED
    BY <2>2, <2>3, <2>4, <2>5, <1>3
<1>5. ASSUME NEW j \in 1..n
      PROVE  /\ core(j) \in DOMAIN free /\ FiniteNumbers(free[core(j)])
             /\ Cardinality(free[core(j)]) \in Nat /\ Cardinality(free[core(j)]) >= t
  <2>1. core(j) \in usable
    BY <1>2, <1>4 DEF N
  <2>2. core(j) \in DOMAIN free /\ Cardinality(free[core(j)]) >= t
    BY <2>1 DEF usable
  <2>3. FiniteNumbers(free[core(j)])
    BY <2>2 DEF Cores
  <2> QED
    BY <2>2, <2>3, FS_CardinalityType DEF FiniteNumbers
<1>6. ASSUME NEW j \in 1..n
      PROVE  /\ ((j - 1) % t) + 1 \in 1..Cardinality(free[core(j)])
             /\ HostCpu(free, t, j) = Order(free[core(j)])[((j - 1) % t) + 1]
             /\ HostCpu(free, t, j) \in free[core(j)]
  <2>1. ((j - 1) % t) + 1 \in 1..Cardinality(free[core(j)])
    BY <1>4, <1>5
  <2>2. HostCpu(free, t, j) = Order(free[core(j)])[((j - 1) % t) + 1]
    BY DEF HostCpu
  <2>3. Order(free[core(j)]) \in [1..Cardinality(free[core(j)]) -> free[core(j)]]
    BY <1>5, OrderLists
  <2> QED
    BY <2>1, <2>2, <2>3
<1>7. ASSUME NEW j \in 1..n, NEW k \in 1..n, HostCpu(free, t, j) = HostCpu(free, t, k)
      PROVE  j = k
  <2>1. core(j) = core(k)
    BY <1>5, <1>6, <1>7 DEF Cores
  <2>2. ((j - 1) \div t) + 1 = ((k - 1) \div t) + 1
    BY <2>1, <1>2, <1>4 DEF IsInjective, N
  <2>3. IsInjective(Order(free[core(j)])) /\ DOMAIN Order(free[core(j)]) = 1..Cardinality(free[core(j)])
    BY <1>5, OrderLists
  <2>4. ((j - 1) % t) + 1 = ((k - 1) % t) + 1
    <3>1. /\ Order(free[core(j)])[((j - 1) % t) + 1] = Order(free[core(j)])[((k - 1) % t) + 1]
          /\ ((j - 1) % t) + 1 \in DOMAIN Order(free[core(j)])
          /\ ((k - 1) % t) + 1 \in DOMAIN Order(free[core(j)])
      BY <1>6, <1>7, <2>1, <2>3
    <3> HIDE DEF core
    <3> QED
      BY <2>3, <3>1 DEF IsInjective
  <2>5. (j - 1) \div t = (k - 1) \div t /\ (j - 1) % t = (k - 1) % t
    <3>1. (j - 1) \div t \in Int /\ (k - 1) \div t \in Int /\ (j - 1) % t \in Int /\ (k - 1) % t \in Int
      OBVIOUS
    <3> QED
      BY <2>2, <2>4, <3>1
  <2> QED
    BY <1>4, <2>5
<1> QED
  BY <1>5, <1>6, <1>7
-----------------------------------------------------------------------------
\* The sizes of the cores are a finite set of numbers.
LEMMA CoreSizes ==
    ASSUME NEW free, Cores(free)
    PROVE  /\ {Cardinality(free[n]) : n \in DOMAIN free} \in SUBSET Nat
           /\ IsFiniteSet({Cardinality(free[n]) : n \in DOMAIN free})
<1> DEFINE sizes == {Cardinality(free[n]) : n \in DOMAIN free}
           size == [n \in DOMAIN free |-> Cardinality(free[n])]
<1>1. IsFiniteSet(DOMAIN free)
  BY CoreNumbers
<1>2. \A n \in DOMAIN free : Cardinality(free[n]) \in Nat
  BY FS_CardinalityType DEF Cores, FiniteNumbers
<1>3. size \in Surjection(DOMAIN free, sizes)
  BY DEF Surjection
<1>4. IsFiniteSet(sizes)
  <2> HIDE DEF size, sizes
  <2> QED
    BY <1>1, <1>3, FS_Surjection
<1> QED
  BY <1>2, <1>4

LEMMA PackingsOf ==
    ASSUME NEW g, NEW free, Cores(free), Packings(g, free) # {}
    PROVE  /\ Max(Packings(g, free)) \in Packings(g, free)
           /\ Packings(g, free) \in SUBSET (Nat \ {0})
<1> DEFINE sizes == {0} \cup {Cardinality(free[n]) : n \in DOMAIN free}
<1>1. sizes \in SUBSET Int /\ IsFiniteSet(sizes) /\ sizes # {}
  <2> DEFINE some == {Cardinality(free[n]) : n \in DOMAIN free}
  <2>1. some \in SUBSET Nat /\ IsFiniteSet(some)
    BY CoreSizes
  <2>2. sizes = some \cup {0}
    OBVIOUS
  <2> HIDE DEF some, sizes
  <2>3. IsFiniteSet(some \cup {0})
    BY <2>1, FS_AddElement
  <2> QED
    BY <2>1, <2>2, <2>3
<1>2. PICK most \in Int : most = Max(sizes)
  <2> HIDE DEF sizes
  <2> QED
    BY <1>1, MaxOf
<1>3. Packings(g, free) \in SUBSET (1..most)
  BY <1>2 DEF Packings
<1> HIDE DEF sizes
<1>4. IsFiniteSet(1..most)
  BY <1>2, FS_Interval
<1>5. IsFiniteSet(Packings(g, free))
  BY <1>3, <1>4, FS_Subset
<1>6. Packings(g, free) \in SUBSET Int /\ Packings(g, free) \in SUBSET (Nat \ {0})
  BY <1>3
<1> QED
  BY <1>5, <1>6, MaxOf

\* A cell of an instance as the fitting leaves it: what was asked, and pins and
\* threads of a place it was tried on, or of none.
Cell(g, ask) ==
    /\ g \in [id : Nat, cpus : {ask.cpus}, memory : {ask.memory}, pagesize : Int,
              pin : {<<>>} \cup [ask.cpus -> Nat], threads : Nat]
    /\ g.threads # 0 => Cardinality(ask.cpus) % g.threads = 0
\* Every CPU is pinned, to a CPU of its own.
PinnedTo(g, cpus) ==
    DOMAIN g.pin = g.cpus /\ IsInjective(g.pin) /\ \A v \in g.cpus : g.pin[v] \in cpus

LEMMA PackPins ==
    ASSUME NEW ask, IsGuestCell(ask), NEW g, Cell(g, ask), NEW free, Cores(free),
           Packings(g, free) # {}, NEW c \in Nat,
           NEW cpus \in SUBSET Nat, \A n \in DOMAIN free : free[n] \subseteq cpus
    PROVE  /\ Cell(Pack(g, free, c), ask) /\ PinnedTo(Pack(g, free, c), cpus)
           /\ Pack(g, free, c).pagesize = g.pagesize
<1> DEFINE t == Max(Packings(g, free))
           guest == Order(g.cpus)
           N == Cardinality(g.cpus)
           pins == IF HasSiblings(g) THEN g.threads * (Len(guest) \div g.threads)
                                     ELSE Len(guest)
           index(v) == CHOOSE n \in 1..pins : guest[n] = v
           new == [v \in {guest[n] : n \in 1..pins} |-> HostCpu(free, t, index(v))]
<1>1. g.cpus = ask.cpus /\ FiniteNumbers(g.cpus) /\ g.threads \in Nat
  BY DEF Cell, IsGuestCell
<1>2. /\ guest \in [1..N -> g.cpus] /\ IsInjective(guest) /\ N \in Nat /\ Len(guest) = N
      /\ \A v \in g.cpus : \E n \in 1..N : guest[n] = v
  BY <1>1, OrderLists
<1>3. t \in Nat \ {0} /\ CanPack(g, t, CoresFor(free, t))
  <2>1. t \in Packings(g, free) /\ Packings(g, free) \in SUBSET (Nat \ {0})
    BY PackingsOf
  <2>2. \A s \in Packings(g, free) : CanPack(g, s, CoresFor(free, s))
    BY DEF Packings
  <2> QED
    BY <2>1, <2>2
<1> HIDE DEF t, guest, N
<1>4. pins = N
  <2>1. CASE ~HasSiblings(g)
    BY <2>1, <1>2
  <2>2. CASE HasSiblings(g)
    <3>1. g.threads \in Nat \ {0} /\ N % g.threads = 0
      BY <2>2, <1>1 DEF HasSiblings, Cell, N
    <3>2. /\ N = g.threads * (N \div g.threads) + (N % g.threads)
          /\ N \div g.threads \in Nat
      BY <3>1, <1>2, DivMod
    <3>3. N = g.threads * (N \div g.threads)
      BY <3>1, <3>2, <1>2
    <3> QED
      BY <2>2, <3>3, <1>2
  <2> QED
    BY <2>1, <2>2
<1> HIDE DEF pins
<1>5. t * Len(CoresFor(free, t)) >= N
  BY <1>3 DEF CanPack, N
<1>6. /\ \A j \in 1..N : \E n \in DOMAIN free : HostCpu(free, t, j) \in free[n]
      /\ \A j, k \in 1..N : HostCpu(free, t, j) = HostCpu(free, t, k) => j = k
  BY <1>2, <1>3, <1>5, HostCpusApart
<1>7. {guest[n] : n \in 1..pins} = g.cpus
  BY <1>2, <1>4
<1>8. \A v \in g.cpus : index(v) \in 1..N /\ guest[index(v)] = v
  BY <1>2, <1>4
<1>9. new = [v \in g.cpus |-> HostCpu(free, t, index(v))]
  BY <1>7
<1> HIDE DEF index
<1>10. ASSUME NEW v \in g.cpus PROVE new[v] \in cpus
  <2>1. PICK n \in DOMAIN free : HostCpu(free, t, index(v)) \in free[n]
    BY <1>6, <1>8
  <2>2. new[v] = HostCpu(free, t, index(v))
    BY <1>9
  <2> QED
    BY <2>1, <2>2
<1>11. ASSUME NEW v \in g.cpus, NEW w \in g.cpus, new[v] = new[w] PROVE v = w
  <2>1. HostCpu(free, t, index(v)) = HostCpu(free, t, index(w))
    BY <1>9, <1>11
  <2>2. index(v) = index(w)
    BY <2>1, <1>6, <1>8
  <2> QED
    BY <2>2, <1>8
<1>12. DOMAIN new = g.cpus
  BY <1>9
<1> DEFINE pin == [v \in DOMAIN new \cup DOMAIN g.pin |-> IF v \in DOMAIN new THEN new[v] ELSE g.pin[v]]
           packed == [g EXCEPT !.id = c, !.threads = IF @ = 0 THEN t ELSE @, !.pin = pin]
<1>13. Pack(g, free, c) = packed
  BY DEF Pack, t, guest, pins, index
<1> HIDE DEF new
<1>14. DOMAIN g.pin \subseteq g.cpus
  BY <1>1 DEF Cell
<1>15. DOMAIN pin = g.cpus /\ \A v \in g.cpus : pin[v] = new[v]
  BY <1>12, <1>14
<1>16. pin \in [g.cpus -> cpus]
  <2>1. pin = [v \in g.cpus |-> new[v]]
    BY <1>12, <1>14
  <2> QED
    BY <2>1, <1>10
<1> HIDE DEF pin
<1>17. /\ packed.id = c /\ packed.cpus = g.cpus /\ packed.memory = g.memory
       /\ packed.pagesize = g.pagesize /\ packed.pin = pin
       /\ packed.threads = IF g.threads = 0 THEN t ELSE g.threads
       /\ packed \in [id : Nat, cpus : {ask.cpus}, memory : {ask.memory}, pagesize : Int,
                      pin : {<<>>} \cup [ask.cpus -> Nat], threads : Nat]
  <2>1. g \in [id : Nat, cpus : {ask.cpus}, memory : {ask.memory}, pagesize : Int,
               pin : {<<>>} \cup [ask.cpus -> Nat], threads : Nat]
    BY DEF Cell
  <2>2. pin \in [ask.cpus -> Nat]
    BY <1>1, <1>16
  <2> QED
    BY <2>1, <2>2, <1>3
<1>18. packed.threads # 0 => Cardinality(ask.cpus) % packed.threads = 0
  <2>1. CASE g.threads = 0
    BY <2>1, <1>1, <1>3, <1>17 DEF CanPack, HasSiblings
  <2>2. CASE g.threads # 0
    BY <2>2, <1>17 DEF Cell
  <2> QED
    BY <2>1, <2>2
<1>19. Cell(packed, ask)
  BY <1>17, <1>18 DEF Cell
<1>20. PinnedTo(packed, cpus)
  <2>1. IsInjective(pin)
    BY <1>11, <1>15 DEF IsInjective
  <2> QED
    BY <2>1, <1>15, <1>16, <1>17 DEF PinnedTo
<1> QED
  BY <1>13, <1>17, <1>19, <1>20
-----------------------------------------------------------------------------
\* The usage of a cell that a tracker has.
CellUse(h, c, u) ==
    /\ u.memory \in Nat /\ u.cpus \in Nat /\ u.pinned \in SUBSET Nat
    /\ u.used \in [DOMAIN HostCells[h][c].pages -> Nat]

LEMMA CoresOf ==
    ASSUME NumaAssumption, NEW h \in NumaHosts, NEW c \in DOMAIN HostCells[h], NEW use, NEW g
    PROVE  /\ Cores(CoresToTry(h, c, use, g))
           /\ \A n \in DOMAIN CoresToTry(h, c, use, g) :
                 CoresToTry(h, c, use, g)[n] \subseteq FreeCpus(h, c, use)
<1> DEFINE cell == HostCells[h][c]
           siblings == cell.siblings
           cpus == FreeCpus(h, c, use)
           free == [n \in DOMAIN siblings |-> siblings[n] \cap cpus]
           most == Max({Cardinality(free[n]) : n \in DOMAIN free})
           widest == {n \in DOMAIN free : Cardinality(free[n]) = most}
           largest == free[Max(widest)]
<1>1. IsHostCell(cell)
  BY DEF NumaAssumption
<1>2. FiniteNumbers(cpus)
  <2>1. FiniteNumbers(cell.cpus) /\ cpus \in SUBSET cell.cpus
    BY <1>1 DEF IsHostCell, FreeCpus
  <2> QED
    BY <2>1, FS_Subset DEF FiniteNumbers
<1> HIDE DEF cpus
<1>3. Cores(free)
  <2>1. /\ DOMAIN siblings = 1..Len(siblings) /\ Len(siblings) \in Nat
        /\ \A n \in DOMAIN siblings : FiniteNumbers(siblings[n])
        /\ \A m, n \in DOMAIN siblings : m # n => siblings[m] \cap siblings[n] = {}
    BY <1>1 DEF IsHostCell
  <2> HIDE DEF siblings
  <2>2. DOMAIN free = 1..Len(siblings) /\ Len(free) = Len(siblings)
    BY <2>1
  <2>3. ASSUME NEW n \in DOMAIN siblings PROVE FiniteNumbers(free[n])
    <3>1. FiniteNumbers(siblings[n]) /\ free[n] \in SUBSET siblings[n]
      BY <2>1
    <3> QED
      BY <3>1, FS_Subset DEF FiniteNumbers
  <2>4. \A m, n \in DOMAIN free : m # n => free[m] \cap free[n] = {}
    BY <2>1
  <2> QED
    BY <2>1, <2>2, <2>3, <2>4 DEF Cores
<1>4. \A n \in DOMAIN free : free[n] \subseteq cpus
  OBVIOUS
<1>5. siblings # <<>> => largest \subseteq cpus /\ FiniteNumbers(largest)
  <2>1. SUFFICES ASSUME siblings # <<>> PROVE largest \subseteq cpus /\ FiniteNumbers(largest)
    OBVIOUS
  <2>2. 1 \in DOMAIN free
    <3>1. siblings \in Seq(SUBSET Nat)
      BY <1>1 DEF IsHostCell
    <3>2. Len(siblings) # 0
      BY <2>1, <3>1
    <3>3. Len(siblings) \in Nat /\ DOMAIN siblings = 1..Len(siblings)
      BY <3>1
    <3> HIDE DEF siblings
    <3> QED
      BY <3>2, <3>3
  <2> HIDE DEF free
  <2> DEFINE sizes == {Cardinality(free[n]) : n \in DOMAIN free}
  <2>3. sizes \in SUBSET Nat /\ IsFiniteSet(sizes)
    BY <1>3, CoreSizes
  <2>4. sizes \in SUBSET Int /\ sizes # {}
    BY <2>2, <2>3
  <2>5. Max(sizes) \in sizes
    <3> HIDE DEF sizes
    <3> QED
      BY <2>3, <2>4, MaxOf
  <2>6. widest # {}
    BY <2>5
  <2>7. widest \in SUBSET Int /\ IsFiniteSet(widest)
    <3>1. IsFiniteSet(DOMAIN free) /\ DOMAIN free \subseteq Int
      BY <1>3, CoreNumbers
    <3>2. widest \in SUBSET (DOMAIN free)
      OBVIOUS
    <3> HIDE DEF widest
    <3>3. IsFiniteSet(widest)
      BY <3>1, <3>2, FS_Subset
    <3> QED
      BY <3>1, <3>2, <3>3
  <2>8. Max(widest) \in widest
    <3> HIDE DEF widest
    <3> QED
      BY <2>6, <2>7, MaxOf
  <2>9. Max(widest) \in DOMAIN free
    BY <2>8
  <2> QED
    BY <2>9, <1>3, <1>4 DEF Cores
<1>6. \A S : FiniteNumbers(S) => Cores(<<S>>)
  BY DEF Cores
<1>7. CoresToTry(h, c, use, g) \in {<<cpus>>, <<largest>>, free}
  BY DEF CoresToTry, cpus
<1>8. siblings = <<>> => CoresToTry(h, c, use, g) = <<cpus>>
  BY DEF CoresToTry, cpus
<1>9. siblings # <<>> => CoresToTry(h, c, use, g) \in {<<largest>>, free}
  BY DEF CoresToTry, cpus
<1> HIDE DEF free, largest, siblings
<1>10. CASE CoresToTry(h, c, use, g) = <<cpus>>
  <2>1. Cores(<<cpus>>)
    BY <1>2, <1>6
  <2>2. \A n \in DOMAIN <<cpus>> : <<cpus>>[n] \subseteq cpus
    OBVIOUS
  <2> QED
    BY <1>10, <2>1, <2>2 DEF cpus
<1>11. CASE siblings # <<>> /\ CoresToTry(h, c, use, g) = <<largest>>
  <2>1. Cores(<<largest>>)
    BY <1>5, <1>6, <1>11
  <2>2. \A n \in DOMAIN <<largest>> : <<largest>>[n] \subseteq cpus
    BY <1>5, <1>11
  <2> QED
    BY <1>11, <2>1, <2>2 DEF cpus
<1>12. CASE CoresToTry(h, c, use, g) = free
  BY <1>12, <1>3, <1>4 DEF cpus
<1> QED
  BY <1>8, <1>9, <1>10, <1>11, <1>12

\* The page sizes a cell may have: there are pages of it left for the memory.
LEMMA PagesLeft ==
    ASSUME NumaAssumption, NEW h \in NumaHosts, NEW c \in DOMAIN HostCells[h], NEW use,
           CellUse(h, c, use[c]), NEW g, g.memory \in Nat
    PROVE  /\ PagesFor(h, c, use, g) \in SUBSET DOMAIN HostCells[h][c].pages
           /\ PagesFor(h, c, use, g) \in SUBSET Int /\ IsFiniteSet(PagesFor(h, c, use, g))
           /\ \A s \in PagesFor(h, c, use, g) :
                 use[c].used[s] + (g.memory \div s) <= HostCells[h][c].pages[s]
<1> DEFINE pages == HostCells[h][c].pages
           sizes == DOMAIN pages
<1>1. /\ FiniteNumbers(sizes) /\ sizes # {} /\ 0 \notin sizes
      /\ \A s \in sizes : pages[s] \in Nat
  BY DEF NumaAssumption, IsHostCell
<1>2. Min(sizes) \in sizes
  BY <1>1, MinOf DEF FiniteNumbers
<1>3. PagesFor(h, c, use, g) \in SUBSET sizes
  BY <1>2 DEF PagesFor
<1>4. ASSUME NEW s \in PagesFor(h, c, use, g)
      PROVE  use[c].used[s] + (g.memory \div s) <= pages[s]
  <2>1. s \in sizes /\ g.memory <= (pages[s] - use[c].used[s]) * s /\ g.memory % s = 0
    BY <1>2 DEF PagesFor
  <2>2. PICK z \in Nat \ {0} : z = s
    BY <1>1, <2>1 DEF FiniteNumbers
  <2>3. use[c].used[s] \in Nat /\ pages[s] \in Nat
    BY <1>1, <2>1 DEF CellUse
  <2>4. PICK u \in Nat : u = use[c].used[s]
    BY <2>3
  <2>5. PICK p \in Nat : p = pages[s]
    BY <2>3
  <2>6. PICK m \in Nat : m = g.memory
    OBVIOUS
  <2>7. m \div z \in Nat /\ m = z * (m \div z) + (m % z)
    BY DivMod
  <2>8. PICK q \in Nat : q = m \div z
    BY <2>7
  <2>9. m = z * q
    BY <2>1, <2>2, <2>6, <2>7, <2>8
  <2>10. z * q <= (p - u) * z
    BY <2>1, <2>2, <2>4, <2>5, <2>6, <2>9
  <2>11. q <= p - u
    <3> SUFFICES ASSUME q >= (p - u) + 1 PROVE FALSE
      OBVIOUS
    <3>1. z * q >= z * ((p - u) + 1)
      OBVIOUS
    <3> QED
      BY <2>10, <3>1
  <2>12. g.memory \div s = q
    BY <2>2, <2>6, <2>8
  <2>13. u + q <= p
    BY <2>11
  <2> QED
    BY <2>4, <2>5, <2>12, <2>13
<1> QED
  BY <1>1, <1>3, <1>4, FS_Subset DEF FiniteNumbers
-----------------------------------------------------------------------------
\* What the fitting found room for in a host's cell.
FitsIn(h, use, g, dedicated) ==
    LET host == HostCells[h][g.id]
    IN /\ g.id \in DOMAIN HostCells[h]
       /\ use[g.id].memory + g.memory <= host.memory * Ratio
       /\ dedicated => PinnedTo(g, FreeCpus(h, g.id, use))
       /\ g.pagesize \in DOMAIN host.pages =>
             use[g.id].used[g.pagesize] + (g.memory \div g.pagesize) <= host.pages[g.pagesize]

LEMMA CellFits ==
    ASSUME NumaAssumption, NEW h \in NumaHosts, NEW c \in DOMAIN HostCells[h],
           NEW use, CellUse(h, c, use[c]), NEW dedicated \in BOOLEAN,
           NEW ask, IsGuestCell(ask), NEW g, Cell(g, ask), dedicated \/ g.pin = <<>>
    PROVE  LET fit == FitCell(h, c, use, g, dedicated)
           IN /\ fit.fits \in BOOLEAN /\ Cell(fit.cell, ask)
              /\ dedicated \/ fit.cell.pin = <<>>
              /\ fit.fits => fit.cell.id = c /\ FitsIn(h, use, fit.cell, dedicated)
<1> DEFINE cell == HostCells[h][c]
           n == Cardinality(g.cpus)
           tooLarge == g.memory > cell.memory \/ n > Cardinality(cell.cpus)
           short == \/ Cardinality(FreeCpus(h, c, use)) < n
                    \/ cell.memory - use[c].memory < g.memory
           full == \/ use[c].memory + g.memory > cell.memory * Ratio
                   \/ use[c].cpus + n > Cardinality(cell.cpus) * Ratio
           cores == CoresToTry(h, c, use, g)
           placed == IF dedicated THEN Pack(g, cores, c) ELSE g
           sizes == PagesFor(h, c, use, g)
           done == [placed EXCEPT !.id = c,
                          !.pagesize = IF g.pagesize = 0 THEN 0 ELSE Max(sizes)]
           refused == \/ tooLarge \/ (dedicated /\ (short \/ Packings(g, cores) = {}))
                      \/ (~dedicated /\ full)
           fit == FitCell(h, c, use, g, dedicated)
<1>1. fit = IF refused THEN [fits |-> FALSE, raises |-> FALSE, cell |-> g]
            ELSE IF g.pagesize # 0 /\ sizes = {}
            THEN [fits |-> FALSE, raises |-> NoSuchPages(h, c, g), cell |-> placed]
            ELSE [fits |-> TRUE, raises |-> FALSE, cell |-> done]
  BY DEF FitCell
<1>2. /\ g \in [id : Nat, cpus : {ask.cpus}, memory : {ask.memory}, pagesize : Int,
                pin : {<<>>} \cup [ask.cpus -> Nat], threads : Nat]
      /\ g.memory \in Nat /\ FiniteNumbers(ask.cpus) /\ g.pagesize \in Int
      /\ g.cpus = ask.cpus
  BY DEF Cell, IsGuestCell
<1>3. /\ cell.memory \in Nat /\ Ratio \in Nat \ {0} /\ use[c].memory \in Nat
      /\ c \in Nat /\ FiniteNumbers(DOMAIN cell.pages) /\ 0 \notin DOMAIN cell.pages
  BY DEF NumaAssumption, IsHostCell, CellUse
<1>4. FreeCpus(h, c, use) \in SUBSET Nat
  BY DEF NumaAssumption, IsHostCell, FiniteNumbers, FreeCpus
<1>5. /\ sizes \in SUBSET DOMAIN cell.pages /\ sizes \in SUBSET Int /\ IsFiniteSet(sizes)
      /\ \A s \in sizes : use[c].used[s] + (g.memory \div s) <= cell.pages[s]
  BY <1>2, PagesLeft
<1> HIDE DEF cell, cores, sizes, fit
<1>6. ASSUME ~refused
      PROVE  /\ Cell(placed, ask) /\ placed.pagesize = g.pagesize
             /\ dedicated => PinnedTo(placed, FreeCpus(h, c, use))
             /\ dedicated \/ placed.pin = <<>>
             /\ use[c].memory + g.memory <= cell.memory * Ratio
  <2>1. CASE dedicated
    <3>1. /\ Cores(cores) /\ \A m \in DOMAIN cores : cores[m] \subseteq FreeCpus(h, c, use)
      BY CoresOf DEF cores
    <3>2. Packings(g, cores) # {} /\ ~short
      BY <1>6, <2>1
    <3>3. /\ Cell(Pack(g, cores, c), ask) /\ PinnedTo(Pack(g, cores, c), FreeCpus(h, c, use))
          /\ Pack(g, cores, c).pagesize = g.pagesize
      BY <1>3, <1>4, <3>1, <3>2, PackPins
    <3>4. use[c].memory + g.memory <= cell.memory
      <4>1. ~(cell.memory - use[c].memory < g.memory)
        BY <3>2
      <4> QED
        BY <4>1, <1>2, <1>3
    <3>5. cell.memory <= cell.memory * Ratio
      <4>1. \A m \in Nat, r \in Nat \ {0} : m <= m * r
        OBVIOUS
      <4> QED
        BY <4>1, <1>3
    <3>6. cell.memory * Ratio \in Nat
      BY <1>3
    <3> QED
      BY <2>1, <3>3, <3>4, <3>5, <3>6, <1>2, <1>3
  <2>2. CASE ~dedicated
    <3>1. ~full /\ placed = g
      BY <1>6, <2>2
    <3>2. cell.memory * Ratio \in Nat
      BY <1>3
    <3> QED
      BY <2>2, <3>1, <3>2, <1>2, <1>3
  <2> QED
    BY <2>1, <2>2
<1>7. CASE refused
  <2>1. fit.fits = FALSE /\ fit.cell = g
    BY <1>1, <1>7
  <2> QED
    BY <2>1 DEF fit
<1>8. CASE ~refused /\ g.pagesize # 0 /\ sizes = {}
  <2>1. fit.fits = FALSE /\ fit.cell = placed
    BY <1>1, <1>8
  <2> HIDE DEF placed, refused
  <2> QED
    BY <2>1, <1>6, <1>8 DEF fit
<1>9. CASE ~refused /\ ~(g.pagesize # 0 /\ sizes = {})
  <2> DEFINE size == IF g.pagesize = 0 THEN 0 ELSE Max(sizes)
  <2>1. size \in Int /\ (size # 0 => size \in sizes)
    BY <1>5, <1>9, MaxOf
  <2> HIDE DEF size, refused, placed
  <2>2. /\ fit.fits = TRUE /\ fit.cell = [placed EXCEPT !.id = c, !.pagesize = size]
    BY <1>1, <1>9 DEF size
  <2>3. placed \in [id : Nat, cpus : {ask.cpus}, memory : {ask.memory}, pagesize : Int,
                    pin : {<<>>} \cup [ask.cpus -> Nat], threads : Nat]
    BY <1>6, <1>9 DEF Cell
  <2>4. /\ fit.cell \in [id : Nat, cpus : {ask.cpus}, memory : {ask.memory}, pagesize : Int,
                         pin : {<<>>} \cup [ask.cpus -> Nat], threads : Nat]
        /\ fit.cell.id = c /\ fit.cell.pagesize = size /\ fit.cell.pin = placed.pin
        /\ fit.cell.threads = placed.threads /\ fit.cell.cpus = placed.cpus
        /\ fit.cell.memory = g.memory
    BY <1>2, <1>3, <2>1, <2>2, <2>3
  <2>5. Cell(fit.cell, ask)
    BY <2>4, <1>6, <1>9 DEF Cell
  <2>6. dedicated => PinnedTo(fit.cell, FreeCpus(h, c, use))
    BY <2>4, <1>6, <1>9 DEF PinnedTo
  <2>7. size \in DOMAIN cell.pages => use[c].used[size] + (g.memory \div size) <= cell.pages[size]
    BY <1>3, <1>5, <2>1
  <2>8. FitsIn(h, use, fit.cell, dedicated)
    BY <2>4, <2>6, <2>7, <1>6, <1>9 DEF FitsIn, cell
  <2> QED
    BY <2>2, <2>4, <2>5, <2>8, <1>6, <1>9 DEF fit
<1> QED
  BY <1>7, <1>8, <1>9 DEF fit
-----------------------------------------------------------------------------
\* The cells an instance asked for, as one fitting or another left them.
Topology(i, cells) ==
    /\ DOMAIN cells = 1..Len(cells) /\ Len(cells) = Len(Asked[i])
    /\ \A k \in DOMAIN cells : /\ Cell(cells[k], Asked[i][k])
                               /\ i \in Dedicated \/ cells[k].pin = <<>>
\* Each of them has a cell of the host to itself, with room for it.
FitsOn(i, h, use, cells) ==
    /\ \A k \in DOMAIN cells : FitsIn(h, use, cells[k], i \in Dedicated)
    /\ \A k, l \in DOMAIN cells : cells[k].id = cells[l].id => k = l
HostUse(h, use) == DOMAIN use = DOMAIN HostCells[h] /\ \A c \in DOMAIN HostCells[h] : CellUse(h, c, use[c])

LEMMA OrderFits ==
    ASSUME NumaAssumption, NEW h \in NumaHosts, NEW use, HostUse(h, use), NEW i \in NumaGuests,
           NEW cells, Topology(i, cells), NEW p \in CellOrders(h, Len(cells))
    PROVE  LET fit == FitOn(h, use, i \in Dedicated, cells, p)
           IN /\ fit.fits \in BOOLEAN /\ Topology(i, fit.cells)
              /\ fit.fits => FitsOn(i, h, use, fit.cells)
<1> DEFINE one(k) == FitCell(h, p[k], use, cells[k], i \in Dedicated)
           reached(k) == \A j \in 1..(k - 1) : one(j).fits
           new == [k \in DOMAIN cells |-> IF reached(k) THEN one(k).cell ELSE cells[k]]
<1>1. /\ p \in [DOMAIN cells -> DOMAIN HostCells[h]] /\ IsInjective(p)
      /\ DOMAIN cells = 1..Len(cells) /\ Len(cells) = Len(Asked[i])
      /\ Len(Asked[i]) \in Nat /\ DOMAIN Asked[i] = 1..Len(Asked[i])
  BY DEF CellOrders, Topology, NumaAssumption
<1> DEFINE raised == \E k \in DOMAIN p : reached(k) /\ one(k).raises
<1>2. FitOn(h, use, i \in Dedicated, cells, p)
         = [fits |-> \A k \in DOMAIN p : one(k).fits, raises |-> raised, cells |-> new]
  BY DEF FitOn
<1>3. ASSUME NEW k \in DOMAIN cells
      PROVE  /\ one(k).fits \in BOOLEAN /\ Cell(one(k).cell, Asked[i][k])
             /\ i \in Dedicated \/ one(k).cell.pin = <<>>
             /\ one(k).fits => one(k).cell.id = p[k] /\ FitsIn(h, use, one(k).cell, i \in Dedicated)
  <2>1. p[k] \in DOMAIN HostCells[h] /\ CellUse(h, p[k], use[p[k]])
    BY <1>1 DEF HostUse
  <2>2. IsGuestCell(Asked[i][k]) /\ Cell(cells[k], Asked[i][k]) /\ (i \in Dedicated \/ cells[k].pin = <<>>)
    BY <1>1 DEF NumaAssumption, Topology
  <2>3. (i \in Dedicated) \in BOOLEAN
    OBVIOUS
  <2> QED
    BY <2>1, <2>2, <2>3, CellFits
<1> HIDE DEF one
<1>4. DOMAIN new = 1..Len(new) /\ Len(new) = Len(Asked[i]) /\ DOMAIN new = DOMAIN cells
  <2>1. DOMAIN new = 1..Len(Asked[i])
    BY <1>1
  <2>2. new = [k \in 1..Len(Asked[i]) |-> new[k]]
    BY <1>1
  <2>3. Len(new) = Len(Asked[i])
    <3> HIDE DEF new
    <3> QED
      BY <2>2, <1>1
  <2> QED
    BY <2>1, <2>3, <1>1
<1>5. Topology(i, new)
  <2>1. \A k \in DOMAIN cells : new[k] \in {one(k).cell, cells[k]}
    OBVIOUS
  <2>2. \A k \in DOMAIN cells : Cell(cells[k], Asked[i][k]) /\ (i \in Dedicated \/ cells[k].pin = <<>>)
    BY DEF Topology
  <2> HIDE DEF new
  <2> QED
    BY <1>3, <1>4, <2>1, <2>2 DEF Topology
<1>6. ASSUME \A k \in DOMAIN p : one(k).fits
      PROVE  FitsOn(i, h, use, new)
  <2>1. \A k \in DOMAIN cells : one(k).fits
    BY <1>1, <1>6
  <2>2. \A k \in DOMAIN cells : reached(k)
    BY <1>1, <2>1
  <2>3. \A k \in DOMAIN cells : new[k] = one(k).cell
    BY <2>2
  <2> HIDE DEF new
  <2>4. \A k \in DOMAIN cells : FitsIn(h, use, new[k], i \in Dedicated) /\ new[k].id = p[k]
    BY <1>3, <2>1, <2>3
  <2> QED
    BY <1>1, <1>4, <2>4 DEF FitsOn, IsInjective
<1> HIDE DEF new
<1> DEFINE fit == FitOn(h, use, i \in Dedicated, cells, p)
           all == \A k \in DOMAIN p : one(k).fits
<1>7. all \in BOOLEAN
  OBVIOUS
<1>8. fit.fits = all /\ fit.cells = new
  <2>1. fit = [fits |-> all, raises |-> raised, cells |-> new]
    BY <1>2
  <2> HIDE DEF fit, all, raised
  <2> QED
    BY <2>1
<1> HIDE DEF fit
<1>9. fit.fits \in BOOLEAN /\ Topology(i, fit.cells) /\ (fit.fits => FitsOn(i, h, use, fit.cells))
  BY <1>5, <1>6, <1>7, <1>8
<1> QED
  BY <1>9 DEF fit
-----------------------------------------------------------------------------
LEMMA TopologyFits ==
    ASSUME NumaAssumption, NEW h \in NumaHosts, NEW use, HostUse(h, use), NEW i \in NumaGuests,
           NEW cells, Topology(i, cells)
    PROVE  LET fit == Fit(h, use, i \in Dedicated, cells)
           IN /\ fit.fits \in BOOLEAN /\ Topology(i, fit.cells)
              /\ fit.fits => FitsOn(i, h, use, fit.cells)
<1> DEFINE orders == CellOrders(h, Len(cells))
           perms == Sorted(orders, {pq \in orders \X orders : Before(pq[1], pq[2])})
           N == Cardinality(orders)
           none == [fits |-> FALSE, raises |-> FALSE, cells |-> cells]
           next(r, n) == IF r.fits \/ r.raises THEN r ELSE FitOn(h, use, i \in Dedicated, r.cells, perms[n])
           IsAfter(g, n) == g = [m \in 0..n |-> IF m = 0 THEN none ELSE next(g[m - 1], m)]
           after == CHOOSE g : IsAfter(g, N)
           fit == Fit(h, use, i \in Dedicated, cells)
           good(r) == /\ r.fits \in BOOLEAN /\ Topology(i, r.cells)
                      /\ r.fits => FitsOn(i, h, use, r.cells)
<1>1. fit = IF Len(cells) > Len(HostCells[h]) THEN none ELSE after[N]
  BY DEF Fit
<1>2. Len(cells) \in Nat
  BY DEF Topology, NumaAssumption
<1>3. IsFiniteSet(orders) /\ Orders(orders, {pq \in orders \X orders : Before(pq[1], pq[2])})
  BY <1>2, CellOrdersFinite, CellOrdersOrdered
<1>4. N \in Nat /\ perms \in [1..N -> orders]
  <2> DEFINE before == {pq \in orders \X orders : Before(pq[1], pq[2])}
  <2>1. IsFiniteSet(orders) /\ Orders(orders, before)
    BY <1>3
  <2> HIDE DEF orders, before
  <2>2. N \in Nat /\ Sorted(orders, before) \in [1..N -> orders]
    BY <2>1, SortedLists
  <2> QED
    BY <2>2 DEF before
<1> HIDE DEF perms, N
<1>5. good(none)
  BY DEF none
<1>6. ASSUME NEW r, good(r), NEW n \in 1..N
      PROVE  good(next(r, n))
  <2>1. CASE r.fits \/ r.raises
    BY <2>1, <1>6
  <2>2. CASE ~(r.fits \/ r.raises)
    <3>1. Len(r.cells) = Len(cells)
      BY <1>6 DEF Topology
    <3>2. perms[n] \in CellOrders(h, Len(r.cells))
      BY <3>1, <1>4
    <3>3. good(FitOn(h, use, i \in Dedicated, r.cells, perms[n]))
      BY <3>2, <1>6, OrderFits
    <3> QED
      BY <2>2, <3>3
  <2> QED
    BY <2>1, <2>2, <1>6
<1> HIDE DEF orders, none, next, good
<1>7. \E g : IsAfter(g, N)
  <2> DEFINE bad == {n \in 0..N : ~ \E g : IsAfter(g, n)}
  <2>1. SUFFICES ASSUME bad # {} PROVE FALSE
    BY <1>4
  <2>2. PICK n \in bad : \A m \in bad : n <= m
    <3>1. bad \in SUBSET Nat
      BY <1>4
    <3> HIDE DEF bad
    <3> QED
      BY <2>1, <3>1, LeastOf
  <2>3. n \in 0..N /\ ~ \E g : IsAfter(g, n)
    OBVIOUS
  <2>4. n # 0
    <3>1. IsAfter([m \in 0..0 |-> none], 0)
      OBVIOUS
    <3> QED
      BY <2>3, <3>1
  <2>5. n - 1 \in 0..N /\ n - 1 \notin bad
    <3>1. n - 1 \in 0..N /\ ~(n <= n - 1)
      BY <2>3, <2>4, <1>4
    <3> HIDE DEF bad
    <3> QED
      BY <2>2, <3>1
  <2>6. PICK g : IsAfter(g, n - 1)
    BY <2>5
  <2> DEFINE longer == [m \in 0..n |-> IF m = n THEN next(g[n - 1], n) ELSE g[m]]
  <2>7. ASSUME NEW m \in 0..n
        PROVE  longer[m] = IF m = 0 THEN none ELSE next(longer[m - 1], m)
    <3>1. CASE m = n
      <4>1. longer[m - 1] = g[m - 1] /\ longer[m] = next(g[n - 1], n)
        BY <3>1, <2>3, <2>4, <1>4
      <4> QED
        BY <3>1, <4>1, <2>4
    <3>2. CASE m # n
      <4>1. m \in 0..(n - 1)
        BY <3>2, <2>3
      <4>2. g[m] = IF m = 0 THEN none ELSE next(g[m - 1], m)
        BY <2>6, <4>1
      <4>3. longer[m] = g[m] /\ (m # 0 => longer[m - 1] = g[m - 1])
        BY <3>2, <4>1, <2>3
      <4> QED
        BY <4>2, <4>3
    <3> QED
      BY <3>1, <3>2
  <2>8. longer = [m \in 0..n |-> longer[m]]
    OBVIOUS
  <2> HIDE DEF longer
  <2>9. IsAfter(longer, n)
    BY <2>7, <2>8
  <2> QED
    BY <2>3, <2>9
<1>8. IsAfter(after, N)
  <2> HIDE DEF IsAfter
  <2> QED
    BY <1>7
<1> HIDE DEF after
<1>9. \A n \in 0..N : after[n] = IF n = 0 THEN none ELSE next(after[n - 1], n)
  BY <1>8
<1>10. \A n \in 0..N : good(after[n])
  <2> DEFINE bad == {n \in 0..N : ~good(after[n])}
  <2>1. SUFFICES ASSUME bad # {} PROVE FALSE
    OBVIOUS
  <2>2. PICK n \in bad : \A m \in bad : n <= m
    <3>1. bad \in SUBSET Nat
      BY <1>4
    <3> HIDE DEF bad
    <3> QED
      BY <2>1, <3>1, LeastOf
  <2>3. n # 0
    BY <1>5, <1>9
  <2>4. n - 1 \in 0..N /\ n - 1 \notin bad
    BY <2>2, <2>3, <1>4
  <2>5. good(after[n - 1]) /\ n \in 1..N
    BY <2>3, <2>4, <1>4
  <2>6. after[n] = next(after[n - 1], n)
    BY <1>9, <2>3
  <2> QED
    BY <2>5, <2>6, <1>6
<1>11. good(fit)
  BY <1>1, <1>4, <1>5, <1>10
<1> QED
  BY <1>11 DEF good, fit
-----------------------------------------------------------------------------
\* Memory of a cell, as 0, and its pages of each size.
Units(h, c) == {0} \cup DOMAIN HostCells[h][c].pages
Amount(use, u) == IF u = 0 THEN use.memory ELSE use.used[u]
Limit(h, c, u) ==
    IF u = 0 THEN HostCells[h][c].memory * Ratio ELSE HostCells[h][c].pages[u]

LEMMA AmountIsNat ==
    ASSUME NEW h, NEW c, NEW use, CellUse(h, c, use), NEW u \in Units(h, c)
    PROVE  Amount(use, u) \in Nat
BY DEF CellUse, Units, Amount

LEMMA ShareOf ==
    ASSUME NumaAssumption, NEW h \in NumaHosts, NEW c \in DOMAIN HostCells[h],
           NEW i \in NumaGuests, NEW cells, Topology(i, cells)
    PROVE  /\ CellUse(h, c, Share(h, cells, c))
           /\ \A k \in DOMAIN cells :
                 (\A l \in DOMAIN cells : cells[l].id = c <=> l = k) =>
                     /\ Share(h, cells, c).memory = cells[k].memory
                     /\ Share(h, cells, c).pinned = Pins(cells[k])
                     /\ \A s \in DOMAIN HostCells[h][c].pages :
                           Share(h, cells, c).used[s] =
                              IF s # cells[k].pagesize THEN 0 ELSE cells[k].memory \div s
           /\ (\A k \in DOMAIN cells : cells[k].id # c) =>
                 /\ Share(h, cells, c).memory = 0 /\ Share(h, cells, c).pinned = {}
                 /\ \A s \in DOMAIN HostCells[h][c].pages : Share(h, cells, c).used[s] = 0
<1> DEFINE pages == HostCells[h][c].pages
           share == Share(h, cells, c)
           mine == {k \in DOMAIN cells : cells[k].id = c}
           at == CHOOSE k \in mine : TRUE
           g == cells[at]
<1>1. \A s \in DOMAIN pages : s \in Nat \ {0}
  BY DEF NumaAssumption, IsHostCell, FiniteNumbers
<1>2. share = [memory |-> IF mine = {} THEN 0 ELSE g.memory,
               cpus |-> IF mine = {} THEN 0 ELSE Cardinality(g.cpus),
               pinned |-> IF mine = {} THEN {} ELSE Pins(g),
               used |-> [s \in DOMAIN pages |->
                           IF mine = {} \/ s # g.pagesize THEN 0 ELSE g.memory \div s]]
  BY DEF Share
<1> HIDE DEF share
<1>3. mine # {} => at \in DOMAIN cells /\ cells[at].id = c
  BY DEF mine, at
<1>4. \A k \in DOMAIN cells :
         /\ cells[k].memory \in Nat /\ Cardinality(cells[k].cpus) \in Nat
         /\ Pins(cells[k]) \in SUBSET Nat
  <2>1. SUFFICES ASSUME NEW k \in DOMAIN cells
                 PROVE  /\ cells[k].memory \in Nat /\ Cardinality(cells[k].cpus) \in Nat
                        /\ Pins(cells[k]) \in SUBSET Nat
    OBVIOUS
  <2>2. Cell(cells[k], Asked[i][k]) /\ IsGuestCell(Asked[i][k])
    BY DEF Topology, NumaAssumption
  <2>3. /\ cells[k].memory \in Nat /\ FiniteNumbers(cells[k].cpus)
        /\ cells[k].pin = <<>> \/ cells[k].pin \in [cells[k].cpus -> Nat]
    BY <2>2 DEF Cell, IsGuestCell
  <2>4. Pins(cells[k]) \in SUBSET Nat
    BY <2>3 DEF Pins
  <2> QED
    BY <2>3, <2>4, FS_CardinalityType DEF FiniteNumbers
<1> HIDE DEF mine, at
<1>5. CellUse(h, c, share)
  <2>1. CASE mine = {}
    <3>1. share.used = [s \in DOMAIN pages |-> 0]
      BY <1>2, <2>1
    <3> QED
      BY <1>2, <2>1, <3>1 DEF CellUse
  <2>2. CASE mine # {}
    <3>1. g.memory \in Nat /\ Cardinality(g.cpus) \in Nat /\ Pins(g) \in SUBSET Nat
      BY <1>3, <1>4, <2>2
    <3>2. \A s \in DOMAIN pages : g.memory \div s \in Nat
      BY <1>1, <3>1, DivMod
    <3>3. share.used = [s \in DOMAIN pages |-> IF s # g.pagesize THEN 0 ELSE g.memory \div s]
      BY <1>2, <2>2
    <3>4. share.used \in [DOMAIN pages -> Nat]
      BY <3>2, <3>3
    <3> QED
      BY <1>2, <2>2, <3>1, <3>4 DEF CellUse
  <2> QED
    BY <2>1, <2>2
<1>6. ASSUME NEW k \in DOMAIN cells, \A l \in DOMAIN cells : cells[l].id = c <=> l = k
      PROVE  /\ share.memory = cells[k].memory /\ share.pinned = Pins(cells[k])
             /\ \A s \in DOMAIN pages :
                   share.used[s] = IF s # cells[k].pagesize THEN 0 ELSE cells[k].memory \div s
  <2>1. mine # {} /\ at = k
    BY <1>3, <1>6 DEF mine
  <2> QED
    BY <1>2, <2>1
<1>7. ASSUME \A k \in DOMAIN cells : cells[k].id # c
      PROVE  /\ share.memory = 0 /\ share.pinned = {}
             /\ \A s \in DOMAIN pages : share.used[s] = 0
  <2>1. mine = {}
    BY <1>7 DEF mine
  <2> QED
    BY <1>2, <2>1
<1> QED
  BY <1>5, <1>6, <1>7 DEF share

\* What a tracker has after it added a share, or took one away.
LEMMA UsedIs ==
    ASSUME NEW h \in NumaHosts, NEW use, HostUse(h, use), NEW cells,
           \A c \in DOMAIN HostCells[h] : CellUse(h, c, Share(h, cells, c)),
           NEW sign \in {1, -1}, NumaAssumption
    PROVE  /\ HostUse(h, Used(h, use, cells, sign))
           /\ \A c \in DOMAIN HostCells[h] :
                 /\ Used(h, use, cells, 1)[c].pinned = use[c].pinned \cup Share(h, cells, c).pinned
                 /\ Used(h, use, cells, -1)[c].pinned = use[c].pinned \ Share(h, cells, c).pinned
                 /\ \A u \in Units(h, c) :
                       /\ Amount(Used(h, use, cells, 1)[c], u)
                             = Amount(use[c], u) + Amount(Share(h, cells, c), u)
                       /\ Amount(Used(h, use, cells, -1)[c], u)
                             >= Amount(use[c], u) - Amount(Share(h, cells, c), u)
<1>1. ASSUME NEW n \in Int PROVE NoLess(n) \in Nat /\ NoLess(n) >= n /\ (n \in Nat => NoLess(n) = n)
  BY DEF NoLess
<1>2. ASSUME NEW c \in DOMAIN HostCells[h], NEW s \in {1, -1}
      PROVE  /\ CellUse(h, c, Used(h, use, cells, s)[c])
             /\ Used(h, use, cells, s)[c].pinned =
                   IF s = 1 THEN use[c].pinned \cup Share(h, cells, c).pinned
                            ELSE use[c].pinned \ Share(h, cells, c).pinned
             /\ \A u \in Units(h, c) :
                   /\ Amount(Used(h, use, cells, s)[c], u)
                        >= Amount(use[c], u) + s * Amount(Share(h, cells, c), u)
                   /\ s = 1 => Amount(Used(h, use, cells, s)[c], u)
                        = Amount(use[c], u) + Amount(Share(h, cells, c), u)
  <2> DEFINE share == Share(h, cells, c)
             pages == DOMAIN HostCells[h][c].pages
             used == [z \in pages |-> NoLess(use[c].used[z] + s * share.used[z])]
             new == [memory |-> NoLess(use[c].memory + s * share.memory),
                     cpus |-> NoLess(use[c].cpus + s * share.cpus),
                     pinned |-> IF s = 1 THEN use[c].pinned \cup share.pinned
                                         ELSE use[c].pinned \ share.pinned,
                     used |-> used]
  <2>1. /\ CellUse(h, c, share) /\ CellUse(h, c, use[c])
        /\ \A z \in pages : z # 0
    BY DEF HostUse, NumaAssumption, IsHostCell
  <2>2. DOMAIN share.used = pages
    BY <2>1 DEF CellUse
  <2>3. Used(h, use, cells, s)[c] = new
    BY <2>2 DEF Used
  <2> HIDE DEF share, pages
  <2>4. /\ use[c].memory + s * share.memory \in Int /\ use[c].cpus + s * share.cpus \in Int
        /\ \A z \in pages : use[c].used[z] + s * share.used[z] \in Int
    <3>1. \A x, y \in Nat : x + s * y \in Int
      OBVIOUS
    <3>2. /\ use[c].memory \in Nat /\ share.memory \in Nat
          /\ use[c].cpus \in Nat /\ share.cpus \in Nat
          /\ \A z \in pages : use[c].used[z] \in Nat /\ share.used[z] \in Nat
      BY <2>1 DEF CellUse, pages
    <3> QED
      BY <3>1, <3>2
  <2>5. used \in [pages -> Nat]
    BY <2>4, <1>1
  <2>6. CellUse(h, c, new)
    <3>1. new.memory \in Nat /\ new.cpus \in Nat
      BY <2>4, <1>1
    <3>2. new.pinned \in SUBSET Nat
      BY <2>1 DEF CellUse
    <3> QED
      BY <2>5, <3>1, <3>2 DEF CellUse, pages
  <2>7. ASSUME NEW u \in Units(h, c)
        PROVE  Amount(new, u) = NoLess(Amount(use[c], u) + s * Amount(share, u))
    BY <2>1 DEF Amount, Units, pages
  <2>8. ASSUME NEW u \in Units(h, c)
        PROVE  /\ Amount(new, u) >= Amount(use[c], u) + s * Amount(share, u)
               /\ s = 1 => Amount(new, u) = Amount(use[c], u) + Amount(share, u)
    <3>1. Amount(use[c], u) \in Nat /\ Amount(share, u) \in Nat
      BY <2>1, AmountIsNat
    <3>2. PICK a \in Nat : a = Amount(use[c], u)
      BY <3>1
    <3>3. PICK b \in Nat : b = Amount(share, u)
      BY <3>1
    <3>4. a + s * b \in Int /\ (s = 1 => a + s * b = a + b)
      OBVIOUS
    <3>5. Amount(new, u) = NoLess(a + s * b)
      BY <2>7, <3>2, <3>3
    <3> QED
      BY <3>2, <3>3, <3>4, <3>5, <1>1
  <2> HIDE DEF new
  <2> QED
    BY <2>3, <2>6, <2>8 DEF share, new
<1>3. HostUse(h, Used(h, use, cells, sign))
  <2>1. DOMAIN Used(h, use, cells, sign) = DOMAIN HostCells[h]
    BY DEF Used
  <2> QED
    BY <1>2, <2>1 DEF HostUse
<1>4. ASSUME NEW c \in DOMAIN HostCells[h], NEW u \in Units(h, c)
      PROVE  Amount(Used(h, use, cells, -1)[c], u) >= Amount(use[c], u) - Amount(Share(h, cells, c), u)
  <2>1. Amount(use[c], u) \in Nat /\ Amount(Share(h, cells, c), u) \in Nat
    BY AmountIsNat DEF HostUse
  <2>2. Amount(Used(h, use, cells, -1)[c], u) >= Amount(use[c], u) + (-1) * Amount(Share(h, cells, c), u)
    BY <1>2
  <2> QED
    BY <2>1, <2>2
<1> QED
  BY <1>2, <1>3, <1>4
-----------------------------------------------------------------------------
\* An instance's cells are on cells of the host, each on one of its own, and its
\* pinned CPUs on CPUs of that cell.
Sits(i, h, cells) ==
    /\ \A k \in DOMAIN cells :
          /\ cells[k].id \in DOMAIN HostCells[h]
          /\ i \in Dedicated => PinnedTo(cells[k], HostCells[h][cells[k].id].cpus)
    /\ \A k, l \in DOMAIN cells : cells[k].id = cells[l].id => k = l
Amounts(h, c, u, topo) == [i \in NumaGuests |-> Amount(Share(h, topo[i], c), u)]
\* The instances of S sit on the host apart from each other, within its limits,
\* and the tracker has counted what they take.
Right(h, S, topo, use) ==
    /\ \A i \in S : Sits(i, h, topo[i])
    /\ \A c \in DOMAIN HostCells[h] :
          /\ \A i \in S : Share(h, topo[i], c).pinned \subseteq use[c].pinned
          /\ \A i, j \in S : i # j =>
                Share(h, topo[i], c).pinned \cap Share(h, topo[j], c).pinned = {}
          /\ \A u \in Units(h, c) :
                LET sum == SumOf(Amounts(h, c, u, topo), S)
                IN sum <= Amount(use[c], u) /\ sum <= Limit(h, c, u)
Topologies(topo) == \A i \in NumaGuests : Topology(i, topo[i])

\* The shares are sums' terms.
LEMMA SharesAreNat ==
    ASSUME NumaAssumption, NEW h \in NumaHosts, NEW c \in DOMAIN HostCells[h],
           NEW topo, Topologies(topo), NEW u \in Units(h, c)
    PROVE  /\ \A i \in NumaGuests :
                 /\ Amounts(h, c, u, topo)[i] = Amount(Share(h, topo[i], c), u)
                 /\ Amounts(h, c, u, topo)[i] \in Nat
           /\ \A S \in SUBSET NumaGuests :
                 IsFiniteSet(S) /\ SumOf(Amounts(h, c, u, topo), S) \in Nat
           /\ Limit(h, c, u) \in Nat
<1>1. ASSUME NEW i \in NumaGuests
      PROVE  /\ Amounts(h, c, u, topo)[i] = Amount(Share(h, topo[i], c), u)
             /\ Amounts(h, c, u, topo)[i] \in Nat
  <2>1. CellUse(h, c, Share(h, topo[i], c))
    BY ShareOf DEF Topologies
  <2> QED
    BY <2>1, AmountIsNat DEF Amounts
<1>2. ASSUME NEW S \in SUBSET NumaGuests PROVE IsFiniteSet(S)
  BY FS_Subset DEF NumaAssumption
<1>3. \A S \in SUBSET NumaGuests : SumOf(Amounts(h, c, u, topo), S) \in Nat
  BY <1>1, <1>2, SumIsNat
<1>4. Limit(h, c, u) \in Nat
  <2>1. /\ HostCells[h][c].memory \in Nat /\ Ratio \in Nat
        /\ \A s \in DOMAIN HostCells[h][c].pages : HostCells[h][c].pages[s] \in Nat
    BY DEF NumaAssumption, IsHostCell
  <2>2. HostCells[h][c].memory * Ratio \in Nat
    BY <2>1
  <2> QED
    BY <2>1, <2>2 DEF Limit, Units
<1> QED
  BY <1>1, <1>2, <1>3, <1>4

\* The sum over some of the instances, whose cells are the same.
LEMMA FewerTake ==
    ASSUME NumaAssumption, NEW h \in NumaHosts, NEW c \in DOMAIN HostCells[h],
           NEW u \in Units(h, c), NEW topo, Topologies(topo), NEW new, Topologies(new),
           NEW S \in SUBSET NumaGuests, NEW T \in SUBSET S, \A i \in T : new[i] = topo[i]
    PROVE  /\ SumOf(Amounts(h, c, u, new), T) <= SumOf(Amounts(h, c, u, topo), S)
           /\ SumOf(Amounts(h, c, u, new), T) = SumOf(Amounts(h, c, u, topo), T)
<1> DEFINE f == Amounts(h, c, u, new)
           g == Amounts(h, c, u, topo)
           same == [i \in NumaGuests |-> i]
<1>1. \A i \in NumaGuests : f[i] \in Nat /\ g[i] \in Nat
  BY SharesAreNat
<1>2. IsFiniteSet(S) /\ IsFiniteSet(T)
  BY FS_Subset DEF NumaAssumption
<1>3. \A i \in T : f[i] = g[i]
  BY DEF Amounts
<1> HIDE DEF f, g
<1>4. SumOf(f, T) = SumOf(g, T)
  BY <1>2, <1>3, SumSame
<1>5. SumOf(g, T) <= SumOf(g, S)
  <2>1. /\ \A i \in T : g[i] \in Nat /\ same[i] \in S /\ g[i] <= g[same[i]]
        /\ \A i \in S : g[i] \in Nat
        /\ \A i, j \in T : same[i] = same[j] => i = j
    BY <1>1
  <2> HIDE DEF same
  <2> QED
    BY <1>2, <2>1, SumAtMost
<1> QED
  BY <1>4, <1>5 DEF f, g

\* Nothing was added: what is left is still right.
LEMMA FewerAreRight ==
    ASSUME NumaAssumption, NEW h \in NumaHosts, NEW use, HostUse(h, use),
           NEW topo, Topologies(topo), NEW new, Topologies(new),
           NEW S \in SUBSET NumaGuests, Right(h, S, topo, use),
           NEW T \in SUBSET S, \A i \in T : new[i] = topo[i]
    PROVE  Right(h, T, new, use)
<1>1. ASSUME NEW c \in DOMAIN HostCells[h], NEW u \in Units(h, c)
      PROVE  /\ SumOf(Amounts(h, c, u, new), T) <= Amount(use[c], u)
             /\ SumOf(Amounts(h, c, u, new), T) <= Limit(h, c, u)
  <2>1. SumOf(Amounts(h, c, u, new), T) <= SumOf(Amounts(h, c, u, topo), S)
    BY FewerTake
  <2>2. /\ SumOf(Amounts(h, c, u, topo), S) <= Amount(use[c], u)
        /\ SumOf(Amounts(h, c, u, topo), S) <= Limit(h, c, u)
    BY DEF Right
  <2>3. /\ SumOf(Amounts(h, c, u, topo), S) \in Nat /\ SumOf(Amounts(h, c, u, new), T) \in Nat
        /\ Amount(use[c], u) \in Nat /\ Limit(h, c, u) \in Nat
    BY SharesAreNat, AmountIsNat DEF HostUse
  <2> QED
    BY <2>1, <2>2, <2>3
<1>2. \A i \in T : Sits(i, h, new[i])
  BY DEF Right
<1>3. ASSUME NEW c \in DOMAIN HostCells[h]
      PROVE  /\ \A i \in T : Share(h, new[i], c).pinned \subseteq use[c].pinned
             /\ \A i, j \in T : i # j =>
                   Share(h, new[i], c).pinned \cap Share(h, new[j], c).pinned = {}
  BY DEF Right
<1> QED
  BY <1>1, <1>2, <1>3 DEF Right

\* An instance is taken off: the tracker frees what it took, and no more.
LEMMA FreedIsRight ==
    ASSUME NumaAssumption, NEW h \in NumaHosts, NEW use, HostUse(h, use),
           NEW topo, Topologies(topo), NEW new, Topologies(new),
           NEW S \in SUBSET NumaGuests, Right(h, S, topo, use), NEW i \in S,
           NEW T \in SUBSET (S \ {i}), \A j \in T : new[j] = topo[j]
    PROVE  /\ HostUse(h, Used(h, use, topo[i], -1))
           /\ Right(h, T, new, Used(h, use, topo[i], -1))
<1> DEFINE freed == Used(h, use, topo[i], -1)
<1>1. \A c \in DOMAIN HostCells[h] : CellUse(h, c, Share(h, topo[i], c))
  BY ShareOf DEF Topologies
<1>2. /\ HostUse(h, freed)
      /\ \A c \in DOMAIN HostCells[h] :
            /\ freed[c].pinned = use[c].pinned \ Share(h, topo[i], c).pinned
            /\ \A u \in Units(h, c) :
                  Amount(freed[c], u) >= Amount(use[c], u) - Amount(Share(h, topo[i], c), u)
  BY <1>1, UsedIs
<1> HIDE DEF freed
<1>3. ASSUME NEW c \in DOMAIN HostCells[h], NEW u \in Units(h, c)
      PROVE  /\ SumOf(Amounts(h, c, u, new), T) <= Amount(freed[c], u)
             /\ SumOf(Amounts(h, c, u, new), T) <= Limit(h, c, u)
  <2> DEFINE f == Amounts(h, c, u, topo)
             share == Amount(Share(h, topo[i], c), u)
  <2>1. SumOf(Amounts(h, c, u, new), T) <= SumOf(f, S \ {i})
    BY FewerTake
  <2>2. SumOf(f, S) = share + SumOf(f, S \ {i})
    <3>1. /\ \A j \in S : f[j] \in Int
          /\ f[i] = share /\ IsFiniteSet(S)
      BY SharesAreNat
    <3> HIDE DEF f, share
    <3> QED
      BY <3>1, SumRemoves
  <2>3. SumOf(f, S) <= Amount(use[c], u) /\ SumOf(f, S) <= Limit(h, c, u)
    BY DEF Right
  <2>4. /\ SumOf(f, S \ {i}) \in Nat /\ SumOf(Amounts(h, c, u, new), T) \in Nat
        /\ SumOf(f, S) \in Nat /\ Limit(h, c, u) \in Nat
    <3>1. S \ {i} \in SUBSET NumaGuests /\ T \in SUBSET NumaGuests
      OBVIOUS
    <3> QED
      BY <3>1, SharesAreNat
  <2>5. Amount(use[c], u) \in Nat /\ Amount(freed[c], u) \in Nat /\ share \in Nat
    BY <1>1, <1>2, AmountIsNat DEF HostUse
  <2>6. Amount(freed[c], u) >= Amount(use[c], u) - share
    BY <1>2
  <2> HIDE DEF f, share
  <2> QED
    BY <2>1, <2>2, <2>3, <2>4, <2>5, <2>6
<1>4. \A j \in T : Sits(j, h, new[j])
  BY DEF Right
<1>5. ASSUME NEW c \in DOMAIN HostCells[h]
      PROVE  /\ \A j \in T : Share(h, new[j], c).pinned \subseteq freed[c].pinned
             /\ \A j, l \in T : j # l =>
                   Share(h, new[j], c).pinned \cap Share(h, new[l], c).pinned = {}
  <2>1. ASSUME NEW j \in T PROVE Share(h, new[j], c).pinned \subseteq freed[c].pinned
    <3>1. j \in S /\ j # i /\ new[j] = topo[j]
      OBVIOUS
    <3>2. /\ Share(h, topo[j], c).pinned \subseteq use[c].pinned
          /\ Share(h, topo[j], c).pinned \cap Share(h, topo[i], c).pinned = {}
      BY <3>1 DEF Right
    <3>3. freed[c].pinned = use[c].pinned \ Share(h, topo[i], c).pinned
      BY <1>2
    <3> QED
      BY <3>1, <3>2, <3>3
  <2> QED
    BY <2>1 DEF Right
<1>6. Right(h, T, new, freed)
  BY <1>3, <1>4, <1>5 DEF Right
<1> QED
  BY <1>2, <1>6 DEF freed

\* What a cell takes of the cell it fits in, and pins there.
LEMMA ShareFits ==
    ASSUME NumaAssumption, NEW h \in NumaHosts, NEW use, HostUse(h, use),
           NEW i \in NumaGuests, NEW cells, Topology(i, cells), FitsOn(i, h, use, cells),
           NEW c \in DOMAIN HostCells[h]
    PROVE  /\ Sits(i, h, cells)
           /\ Share(h, cells, c).pinned \cap use[c].pinned = {}
           /\ \A u \in Units(h, c) :
                 \/ Amount(Share(h, cells, c), u) = 0
                 \/ Amount(use[c], u) + Amount(Share(h, cells, c), u) <= Limit(h, c, u)
<1>1. \A k \in DOMAIN cells : /\ FitsIn(h, use, cells[k], i \in Dedicated)
                              /\ Cell(cells[k], Asked[i][k]) /\ (i \in Dedicated \/ cells[k].pin = <<>>)
  BY DEF FitsOn, Topology
<1>2. \A k, l \in DOMAIN cells : cells[k].id = cells[l].id => k = l
  BY DEF FitsOn
<1>3. Sits(i, h, cells)
  <2>1. ASSUME NEW k \in DOMAIN cells
        PROVE  /\ cells[k].id \in DOMAIN HostCells[h]
               /\ i \in Dedicated => PinnedTo(cells[k], HostCells[h][cells[k].id].cpus)
    BY <1>1 DEF FitsIn, PinnedTo, FreeCpus
  <2> QED
    BY <1>2, <2>1 DEF Sits
<1>4. CASE \A k \in DOMAIN cells : cells[k].id # c
  <2>1. /\ Share(h, cells, c).memory = 0 /\ Share(h, cells, c).pinned = {}
        /\ \A s \in DOMAIN HostCells[h][c].pages : Share(h, cells, c).used[s] = 0
    BY <1>4, ShareOf
  <2> QED
    BY <1>3, <2>1 DEF Units, Amount
<1>5. ASSUME NEW k \in DOMAIN cells, cells[k].id = c
      PROVE  /\ Share(h, cells, c).pinned \cap use[c].pinned = {}
             /\ \A u \in Units(h, c) :
                   \/ Amount(Share(h, cells, c), u) = 0
                   \/ Amount(use[c], u) + Amount(Share(h, cells, c), u) <= Limit(h, c, u)
  <2>1. \A l \in DOMAIN cells : cells[l].id = c <=> l = k
    BY <1>2, <1>5
  <2>2. /\ Share(h, cells, c).memory = cells[k].memory
        /\ Share(h, cells, c).pinned = Pins(cells[k])
        /\ \A s \in DOMAIN HostCells[h][c].pages :
              Share(h, cells, c).used[s] =
                 IF s # cells[k].pagesize THEN 0 ELSE cells[k].memory \div s
    BY <2>1, ShareOf
  <2>3. FitsIn(h, use, cells[k], i \in Dedicated) /\ (i \in Dedicated \/ cells[k].pin = <<>>)
    BY <1>1
  <2>4. Pins(cells[k]) \cap use[c].pinned = {}
    <3>1. CASE i \in Dedicated
      BY <3>1, <2>3, <1>5 DEF FitsIn, PinnedTo, FreeCpus, Pins
    <3>2. CASE i \notin Dedicated
      BY <3>2, <2>3 DEF Pins
    <3> QED
      BY <3>1, <3>2
  <2>5. /\ use[c].memory + cells[k].memory <= HostCells[h][c].memory * Ratio
        /\ cells[k].pagesize \in DOMAIN HostCells[h][c].pages =>
              use[c].used[cells[k].pagesize] + (cells[k].memory \div cells[k].pagesize)
                 <= HostCells[h][c].pages[cells[k].pagesize]
    BY <1>5, <2>3 DEF FitsIn
  <2>6. ASSUME NEW u \in Units(h, c)
        PROVE  \/ Amount(Share(h, cells, c), u) = 0
               \/ Amount(use[c], u) + Amount(Share(h, cells, c), u) <= Limit(h, c, u)
    BY <2>2, <2>5 DEF Units, Amount, Limit
  <2> QED
    BY <2>2, <2>4, <2>6
<1> QED
  BY <1>3, <1>4, <1>5

\* An instance is claimed for: it was fitted into what the tracker had free.
LEMMA ClaimedIsRight ==
    ASSUME NumaAssumption, NEW h \in NumaHosts, NEW use, HostUse(h, use),
           NEW topo, Topologies(topo), NEW new, Topologies(new),
           NEW S \in SUBSET NumaGuests, Right(h, S, topo, use),
           NEW i \in NumaGuests \ S, FitsOn(i, h, use, new[i]), \A j \in S : new[j] = topo[j]
    PROVE  /\ HostUse(h, Used(h, use, new[i], 1))
           /\ Right(h, S \cup {i}, new, Used(h, use, new[i], 1))
<1> DEFINE T == S \cup {i}
           used == Used(h, use, new[i], 1)
<1>1. \A c \in DOMAIN HostCells[h] : CellUse(h, c, Share(h, new[i], c))
  BY ShareOf DEF Topologies
<1>2. /\ HostUse(h, used)
      /\ \A c \in DOMAIN HostCells[h] :
            /\ used[c].pinned = use[c].pinned \cup Share(h, new[i], c).pinned
            /\ \A u \in Units(h, c) :
                  Amount(used[c], u) = Amount(use[c], u) + Amount(Share(h, new[i], c), u)
  BY <1>1, UsedIs
<1> HIDE DEF used
<1>3. ASSUME NEW c \in DOMAIN HostCells[h]
      PROVE  /\ Sits(i, h, new[i]) /\ Share(h, new[i], c).pinned \cap use[c].pinned = {}
             /\ \A u \in Units(h, c) :
                   \/ Amount(Share(h, new[i], c), u) = 0
                   \/ Amount(use[c], u) + Amount(Share(h, new[i], c), u) <= Limit(h, c, u)
  BY ShareFits DEF Topologies
<1>4. Right(h, S, new, use)
  BY FewerAreRight
<1>5. ASSUME NEW c \in DOMAIN HostCells[h], NEW u \in Units(h, c)
      PROVE  /\ SumOf(Amounts(h, c, u, new), T) <= Amount(used[c], u)
             /\ SumOf(Amounts(h, c, u, new), T) <= Limit(h, c, u)
  <2> DEFINE f == Amounts(h, c, u, new)
             share == Amount(Share(h, new[i], c), u)
  <2>1. /\ \A j \in T : f[j] \in Int
        /\ f[i] = share /\ IsFiniteSet(T) /\ T \ {i} = S
        /\ SumOf(f, S) \in Nat /\ Limit(h, c, u) \in Nat
    <3>1. T \in SUBSET NumaGuests
      OBVIOUS
    <3> QED
      BY <3>1, SharesAreNat
  <2>2. SumOf(f, T) = share + SumOf(f, S)
    <3> HIDE DEF f, share
    <3>1. SumOf(f, T) = f[i] + SumOf(f, T \ {i})
      <4>1. i \in T
        OBVIOUS
      <4> HIDE DEF T
      <4> QED
        BY <2>1, <4>1, SumRemoves
    <3> QED
      BY <2>1, <3>1
  <2>3. SumOf(f, S) <= Amount(use[c], u) /\ SumOf(f, S) <= Limit(h, c, u)
    BY <1>4 DEF Right
  <2>4. Amount(use[c], u) \in Nat /\ share \in Nat
    BY <1>1, AmountIsNat DEF HostUse
  <2>5. Amount(used[c], u) = Amount(use[c], u) + share
    BY <1>2
  <2>6. share = 0 \/ Amount(use[c], u) + share <= Limit(h, c, u)
    BY <1>3
  <2> HIDE DEF f, share, T
  <2>7. SumOf(f, T) <= Amount(used[c], u) /\ SumOf(f, T) <= Limit(h, c, u)
    BY <2>1, <2>2, <2>3, <2>4, <2>5, <2>6
  <2> QED
    BY <2>7 DEF f
<1>6. ASSUME NEW c \in DOMAIN HostCells[h]
      PROVE  /\ \A j \in T : Share(h, new[j], c).pinned \subseteq used[c].pinned
             /\ \A j, l \in T : j # l =>
                   Share(h, new[j], c).pinned \cap Share(h, new[l], c).pinned = {}
  <2>1. /\ \A j \in S : Share(h, new[j], c).pinned \subseteq use[c].pinned
        /\ \A j, l \in S : j # l =>
              Share(h, new[j], c).pinned \cap Share(h, new[l], c).pinned = {}
    BY <1>4 DEF Right
  <2>2. used[c].pinned = use[c].pinned \cup Share(h, new[i], c).pinned
    BY <1>2
  <2>3. Share(h, new[i], c).pinned \cap use[c].pinned = {}
    BY <1>3
  <2> QED
    BY <2>1, <2>2, <2>3
<1>7. \A j \in T : Sits(j, h, new[j])
  <2>1. Sits(i, h, new[i])
    <3>1. CASE DOMAIN HostCells[h] = {}
      <4>1. DOMAIN new[i] = {}
        BY <3>1 DEF FitsOn, FitsIn
      <4> QED
        BY <4>1 DEF Sits
    <3>2. CASE DOMAIN HostCells[h] # {}
      BY <3>2, <1>3
    <3> QED
      BY <3>1, <3>2
  <2> QED
    BY <2>1, <1>4 DEF Right
<1>8. Right(h, T, new, used)
  <2> HIDE DEF T
  <2> QED
    BY <1>5, <1>6, <1>7 DEF Right
<1> QED
  BY <1>2, <1>8 DEF used

\* The rows are counted anew: what is counted has what they take, no less.
LEMMA CountedIsRight ==
    ASSUME NumaAssumption, NEW h \in NumaHosts, NEW use, HostUse(h, use), Topologies(topology),
           NEW S \in SUBSET NumaGuests, Right(h, S, topology, use),
           NEW C \in SUBSET NumaGuests, NEW T \in SUBSET S, T \subseteq C
    PROVE  HostUse(h, CountAnew(h, C)) /\ Right(h, T, topology, CountAnew(h, C))
<1> DEFINE anew == CountAnew(h, C)
<1>1. ASSUME NEW c \in DOMAIN HostCells[h]
      PROVE  /\ CellUse(h, c, anew[c])
             /\ anew[c].pinned = UNION {Share(h, topology[i], c).pinned : i \in C}
             /\ \A u \in Units(h, c) : Amount(anew[c], u) = SumOf(Amounts(h, c, u, topology), C)
  <2> DEFINE pages == DOMAIN HostCells[h][c].pages
             share(i) == Share(h, topology[i], c)
             memory == [i \in C |-> share(i).memory]
             cpus == [i \in C |-> share(i).cpus]
             used(s) == [i \in C |-> share(i).used[s]]
  <2>1. /\ anew[c].memory = SumOf(memory, C) /\ anew[c].cpus = SumOf(cpus, C)
        /\ anew[c].pinned = UNION {share(i).pinned : i \in C}
        /\ anew[c].used = [s \in pages |-> Total(used(s))]
        /\ \A s \in pages : Total(used(s)) = SumOf(used(s), C)
    <3>1. anew[c] = [memory |-> Total(memory), cpus |-> Total(cpus),
                     pinned |-> UNION {share(i).pinned : i \in C},
                     used |-> [s \in pages |-> Total(used(s))]]
      BY DEF CountAnew
    <3>2. ASSUME NEW f, DOMAIN f = C PROVE Total(f) = SumOf(f, C)
      BY <3>2 DEF Total, SumOf
    <3>3. DOMAIN memory = C /\ DOMAIN cpus = C /\ \A s \in pages : DOMAIN used(s) = C
      OBVIOUS
    <3>4. Total(memory) = SumOf(memory, C) /\ Total(cpus) = SumOf(cpus, C)
      <4> HIDE DEF memory, cpus
      <4> QED
        BY <3>2, <3>3
    <3>5. \A s \in pages : Total(used(s)) = SumOf(used(s), C)
      <4> HIDE DEF used
      <4> QED
        BY <3>2, <3>3
    <3> HIDE DEF anew, memory, cpus, used, share
    <3> QED
      BY <3>1, <3>4, <3>5
  <2>2. \A i \in NumaGuests : CellUse(h, c, share(i))
    BY ShareOf DEF Topologies
  <2>3. IsFiniteSet(C) /\ C \subseteq NumaGuests
    BY FS_Subset DEF NumaAssumption
  <2> HIDE DEF anew
  <2>4. ASSUME NEW f, \A i \in C : f[i] \in Nat PROVE SumOf(f, C) \in Nat
    BY <2>3, <2>4, SumIsNat
  <2>5. /\ \A i \in C : memory[i] \in Nat /\ cpus[i] \in Nat
        /\ \A s \in pages : \A i \in C : used(s)[i] \in Nat
    BY <2>2 DEF CellUse
  <2>6. /\ SumOf(memory, C) \in Nat /\ SumOf(cpus, C) \in Nat
        /\ \A s \in pages : SumOf(used(s), C) \in Nat
    <3> HIDE DEF memory, cpus, used
    <3> QED
      BY <2>4, <2>5
  <2>7. UNION {share(i).pinned : i \in C} \in SUBSET Nat
    BY <2>2 DEF CellUse
  <2>8. anew[c].used \in [pages -> Nat]
    <3> HIDE DEF used
    <3> QED
      BY <2>1, <2>6
  <2>9. CellUse(h, c, anew[c])
    <3> HIDE DEF memory, cpus, share
    <3> QED
      BY <2>1, <2>6, <2>7, <2>8 DEF CellUse
  <2>10. ASSUME NEW u \in Units(h, c)
         PROVE  Amount(anew[c], u) = SumOf(Amounts(h, c, u, topology), C)
    <3>1. CASE u = 0
      <4>1. \A i \in C : memory[i] = Amounts(h, c, u, topology)[i]
        BY <3>1 DEF Amounts, Amount
      <4> HIDE DEF memory
      <4>2. SumOf(memory, C) = SumOf(Amounts(h, c, u, topology), C)
        BY <2>3, <4>1, SumSame
      <4> QED
        BY <2>1, <3>1, <4>2 DEF Amount
    <3>2. CASE u # 0
      <4>1. u \in pages
        BY <3>2 DEF Units
      <4>2. \A i \in C : used(u)[i] = Amounts(h, c, u, topology)[i]
        BY <3>2 DEF Amounts, Amount
      <4> HIDE DEF used
      <4>3. SumOf(used(u), C) = SumOf(Amounts(h, c, u, topology), C)
        BY <2>3, <4>2, SumSame
      <4> QED
        BY <2>1, <3>2, <4>1, <4>3 DEF Amount
    <3> QED
      BY <3>1, <3>2
  <2> QED
    BY <2>1, <2>9, <2>10
<1>2. HostUse(h, anew)
  <2>1. DOMAIN anew = DOMAIN HostCells[h]
    BY DEF CountAnew
  <2> HIDE DEF anew
  <2> QED
    BY <1>1, <2>1 DEF HostUse
<1> HIDE DEF anew
<1>3. Right(h, T, topology, use)
  BY FewerAreRight
<1>4. ASSUME NEW c \in DOMAIN HostCells[h], NEW u \in Units(h, c)
      PROVE  /\ SumOf(Amounts(h, c, u, topology), T) <= Amount(anew[c], u)
             /\ SumOf(Amounts(h, c, u, topology), T) <= Limit(h, c, u)
  <2>1. SumOf(Amounts(h, c, u, topology), T) <= SumOf(Amounts(h, c, u, topology), C)
    BY FewerTake
  <2> QED
    BY <2>1, <1>1, <1>3 DEF Right
<1>5. \A c \in DOMAIN HostCells[h] : \A i \in T :
         Share(h, topology[i], c).pinned \subseteq anew[c].pinned
  BY <1>1
<1>6. Right(h, T, topology, anew)
  BY <1>3, <1>4, <1>5 DEF Right
<1> QED
  BY <1>2, <1>6 DEF anew

\* Where nobody is counted nothing is wrong.
LEMMA NobodyIsRight ==
    ASSUME NumaAssumption, NEW h \in NumaHosts, NEW use, HostUse(h, use), NEW topo, Topologies(topo)
    PROVE  Right(h, {}, topo, use)
<1>1. ASSUME NEW c \in DOMAIN HostCells[h], NEW u \in Units(h, c)
      PROVE  /\ SumOf(Amounts(h, c, u, topo), {}) <= Amount(use[c], u)
             /\ SumOf(Amounts(h, c, u, topo), {}) <= Limit(h, c, u)
  <2>1. SumOf(Amounts(h, c, u, topo), {}) = 0
    BY SumUnfolds, FS_EmptySet
  <2>2. Amount(use[c], u) \in Nat /\ Limit(h, c, u) \in Nat
    BY AmountIsNat, SharesAreNat DEF HostUse
  <2> QED
    BY <2>1, <2>2
<1> QED
  BY <1>1 DEF Right
LEMMA CountedIsUse ==
    ASSUME NumaAssumption, NEW h \in NumaHosts, HostUse(h, cellUse[h]), Topologies(topology),
           NEW C \in SUBSET NumaGuests
    PROVE  HostUse(h, CountAnew(h, C))
<1>1. Right(h, {}, topology, cellUse[h]) /\ {} \in SUBSET NumaGuests /\ {} \in SUBSET {} /\ {} \subseteq C
  BY NobodyIsRight
<1> QED
  BY <1>1, CountedIsRight
-----------------------------------------------------------------------------
\* The instances whose cells on the host are theirs: built or being built there,
\* or deleted and not yet taken off.
Keepers(h) ==
    {i \in NumaGuests : /\ onHost[i] = h
                        /\ \/ building[i] \in {"claimed", "running"}
                           \/ building[i] = "deleted" /\ i \in tracks[h]}
BuildSteps == {"asked", "claimed", "running", "aborted", "unclean", "deleted", "gone"}
NumaTypeOK ==
    /\ building \in [NumaGuests -> BuildSteps]
    /\ onHost \in [NumaGuests -> NumaHosts \cup {NoNumaHost}]
    /\ topology = [i \in NumaGuests |-> topology[i]] /\ Topologies(topology)
    /\ tried \in [NumaGuests -> SUBSET NumaHosts]
    /\ tracks \in [NumaHosts -> SUBSET NumaGuests]
    /\ cellUse = [h \in NumaHosts |-> cellUse[h]]
    /\ \A h \in NumaHosts : HostUse(h, cellUse[h])
\* A host that an instance was not tried on does not track it: a claim there adds
\* what it takes, once.
NumaTracked ==
    \A i \in NumaGuests :
        /\ building[i] \in {"asked", "gone"} <=> onHost[i] = NoNumaHost
        /\ building[i] \in {"claimed", "running"} =>
              onHost[i] \in cutShort \/ i \in tracks[onHost[i]]
        /\ building[i] # "gone" =>
              \A h \in NumaHosts : i \in tracks[h] \/ onHost[i] = h => h \in tried[i]
NumaRight == \A h \in NumaHosts \ cutShort : Right(h, Keepers(h), topology, cellUse[h])
NumaInv == NumaTypeOK /\ NumaTracked /\ NumaRight

\* A host whose cells nobody took or freed.
LEMMA HostStaysRight ==
    ASSUME NumaAssumption, NumaInv, Topologies(topology'), NEW h \in NumaHosts \ cutShort,
           cellUse'[h] = cellUse[h], Keepers(h)' \subseteq Keepers(h),
           \A i \in Keepers(h)' : topology'[i] = topology[i]
    PROVE  Right(h, Keepers(h)', topology', cellUse'[h])
<1>1. Keepers(h) \in SUBSET NumaGuests
  BY DEF Keepers
<1>2. Right(h, Keepers(h), topology, cellUse[h]) /\ HostUse(h, cellUse[h]) /\ Topologies(topology)
  BY DEF NumaInv, NumaRight, NumaTypeOK
<1>3. Right(h, Keepers(h)', topology', cellUse[h])
  BY <1>1, <1>2, FewerAreRight
<1> QED
  BY <1>3

LEMMA RequestedIs ==
    ASSUME NumaAssumption, NEW i \in NumaGuests PROVE Topology(i, Requested(i))
<1>1. Len(Asked[i]) \in Nat /\ DOMAIN Asked[i] = 1..Len(Asked[i])
  BY DEF NumaAssumption
<1>2. DOMAIN Requested(i) = 1..Len(Requested(i)) /\ Len(Requested(i)) = Len(Asked[i])
  BY <1>1 DEF Requested
<1>3. ASSUME NEW k \in DOMAIN Asked[i] PROVE Cell(Requested(i)[k], Asked[i][k]) /\ Requested(i)[k].pin = <<>>
  <2>1. Asked[i][k].pagesize \in Int
    BY DEF NumaAssumption, IsGuestCell
  <2>2. Requested(i)[k] = [id |-> 0, cpus |-> Asked[i][k].cpus, memory |-> Asked[i][k].memory,
                           pagesize |-> Asked[i][k].pagesize, pin |-> <<>>, threads |-> 0]
    BY DEF Requested
  <2> QED
    BY <2>1, <2>2 DEF Cell
<1> QED
  BY <1>1, <1>2, <1>3 DEF Topology

LEMMA FreedIs ==
    ASSUME NumaAssumption, NEW h \in NumaHosts
    PROVE  HostUse(h, Freed(h))
BY DEF HostUse, CellUse, Freed

LEMMA NumaInitially == NumaAssumption /\ NumaInit => NumaInv
<1> SUFFICES ASSUME NumaAssumption, NumaInit PROVE NumaInv
  OBVIOUS
<1>1. Topologies(topology)
  BY RequestedIs DEF Topologies, NumaInit
<1>2. \A h \in NumaHosts : HostUse(h, cellUse[h])
  BY FreedIs DEF NumaInit
<1>3. NumaTypeOK
  BY <1>1, <1>2 DEF NumaTypeOK, NumaInit, BuildSteps
<1>4. NumaTracked
  BY DEF NumaTracked, NumaInit, NumaAssumption
<1>5. ASSUME NEW h \in NumaHosts PROVE Right(h, Keepers(h), topology, cellUse[h])
  <2>1. Keepers(h) = {}
    BY DEF Keepers, NumaInit
  <2> QED
    BY <1>1, <1>2, <2>1, NobodyIsRight
<1> QED
  BY <1>3, <1>4, <1>5 DEF NumaInv, NumaRight
-----------------------------------------------------------------------------
LEMMA ClaimRefused ==
    ASSUME NumaAssumption, NumaInv, NEW i \in NumaGuests, NEW h \in NumaHosts,
           tried' = [tried EXCEPT ![i] = @ \cup {h}],
           UNCHANGED <<building, onHost, topology, tracks, cellUse, cutShort>>
    PROVE  NumaInv'
<1>1. NumaTypeOK'
  BY DEF NumaInv, NumaTypeOK, Topologies
<1>2. NumaTracked'
  BY DEF NumaInv, NumaTypeOK, NumaTracked
<1>3. NumaRight'
  BY DEF NumaInv, NumaRight, Keepers
<1> QED
  BY <1>1, <1>2, <1>3 DEF NumaInv

LEMMA ClaimFits ==
    ASSUME NumaAssumption, NumaInv, NEW i \in NumaGuests, NEW h \in NumaHosts, NumaClaim(i, h),
           Fit(h, cellUse[h], i \in Dedicated, topology[i]).fits
    PROVE  NumaInv'
<1> DEFINE fit == Fit(h, cellUse[h], i \in Dedicated, topology[i])
<1>1. /\ NumaTypeOK /\ NumaTracked /\ HostUse(h, cellUse[h]) /\ Topologies(topology)
      /\ building[i] = "asked" /\ onHost[i] = NoNumaHost /\ h \notin tried[i] /\ i \notin tracks[h]
  BY DEF NumaInv, NumaTypeOK, NumaTracked, NumaClaim
<1>2. Topology(i, fit.cells) /\ FitsOn(i, h, cellUse[h], fit.cells)
  BY <1>1, TopologyFits DEF Topologies
<1>3. /\ tried' = [tried EXCEPT ![i] = @ \cup {h}]
      /\ building' = [building EXCEPT ![i] = "claimed"]
      /\ onHost' = [onHost EXCEPT ![i] = h]
      /\ topology' = [topology EXCEPT ![i] = fit.cells]
      /\ tracks' = [tracks EXCEPT ![h] = @ \cup {i}]
      /\ cellUse' = [cellUse EXCEPT ![h] = Used(h, @, fit.cells, 1)] /\ cutShort' = cutShort
  BY <1>1 DEF NumaClaim
<1> HIDE DEF fit
<1>4. /\ topology'[i] = fit.cells /\ \A j \in NumaGuests \ {i} : topology'[j] = topology[j]
      /\ topology' = [j \in NumaGuests |-> topology'[j]]
  BY <1>1, <1>3 DEF NumaTypeOK
<1>5. Topologies(topology')
  BY <1>1, <1>2, <1>4 DEF Topologies
<1>6. /\ Keepers(h)' = Keepers(h) \cup {i} /\ i \notin Keepers(h)
      /\ \A g \in NumaHosts \ {h} : Keepers(g)' = Keepers(g) /\ i \notin Keepers(g)
  BY <1>1, <1>3 DEF Keepers, NumaTypeOK
<1>7. /\ cellUse'[h] = Used(h, cellUse[h], fit.cells, 1)
      /\ \A g \in NumaHosts \ {h} : cellUse'[g] = cellUse[g]
      /\ cellUse' = [g \in NumaHosts |-> cellUse'[g]]
  BY <1>1, <1>3 DEF NumaTypeOK
<1>13. HostUse(h, cellUse'[h])
  <2>1. \A c \in DOMAIN HostCells[h] : CellUse(h, c, Share(h, fit.cells, c))
    BY <1>2, ShareOf
  <2> QED
    BY <1>1, <1>7, <2>1, UsedIs
<1>8. ASSUME h \notin cutShort
      PROVE  Right(h, Keepers(h)', topology', cellUse'[h])
  <2>1. Right(h, Keepers(h), topology, cellUse[h]) /\ Keepers(h) \in SUBSET NumaGuests
    BY <1>8 DEF NumaInv, NumaRight, Keepers
  <2>2. i \in NumaGuests \ Keepers(h) /\ \A j \in Keepers(h) : topology'[j] = topology[j]
    BY <1>4, <1>6, <2>1
  <2>3. FitsOn(i, h, cellUse[h], topology'[i])
    BY <1>2, <1>4
  <2>4. /\ HostUse(h, Used(h, cellUse[h], topology'[i], 1))
        /\ Right(h, Keepers(h) \cup {i}, topology', Used(h, cellUse[h], topology'[i], 1))
    BY <1>1, <1>5, <2>1, <2>2, <2>3, ClaimedIsRight
  <2> QED
    BY <2>4, <1>4, <1>6, <1>7
<1>9. ASSUME NEW g \in NumaHosts \ {h}, g \notin cutShort
      PROVE  Right(g, Keepers(g)', topology', cellUse'[g])
  <2>1. \A j \in Keepers(g) : topology'[j] = topology[j]
    BY <1>4, <1>6 DEF Keepers
  <2> QED
    BY <1>5, <1>6, <1>7, <1>9, <2>1, HostStaysRight
<1>14. \A g \in NumaHosts : HostUse(g, cellUse'[g])
  BY <1>1, <1>7, <1>13 DEF NumaTypeOK
<1>10. NumaTypeOK'
  BY <1>1, <1>3, <1>4, <1>5, <1>7, <1>14 DEF NumaTypeOK, BuildSteps
<1>11. NumaTracked'
  BY <1>1, <1>3 DEF NumaTypeOK, NumaTracked, NumaAssumption
<1>12. NumaRight'
  BY <1>3, <1>8, <1>9 DEF NumaRight
<1> QED
  BY <1>10, <1>11, <1>12 DEF NumaInv

\* Steps that take nothing and free nothing.
LEMMA QuietBuild ==
    ASSUME NumaAssumption, NumaInv, NEW i \in NumaGuests,
           GuestBuilt(i) \/ NumaReschedule(i) \/ NumaDelete(i)
    PROVE  NumaInv'
<1>1. NumaTypeOK /\ NumaTracked
  BY DEF NumaInv
<1>2. UNCHANGED <<topology, tried, tracks, cellUse, cutShort>>
  BY DEF GuestBuilt, NumaReschedule, NumaDelete
<1>3. NumaTypeOK'
  BY <1>1, <1>2 DEF GuestBuilt, NumaReschedule, NumaDelete, NumaTypeOK, Topologies, BuildSteps
<1>4. NumaTracked'
  BY <1>1, <1>2 DEF GuestBuilt, NumaReschedule, NumaDelete, NumaTypeOK, NumaTracked, NumaAssumption
<1>5. ASSUME NEW h \in NumaHosts \ cutShort PROVE Right(h, Keepers(h)', topology', cellUse'[h])
  <2>1. Keepers(h)' \subseteq Keepers(h)
    BY <1>1, <1>2 DEF GuestBuilt, NumaReschedule, NumaDelete, NumaTypeOK, NumaTracked, Keepers, NumaAssumption
  <2>2. Topologies(topology')
    BY <1>3 DEF NumaTypeOK
  <2> QED
    BY <1>2, <2>1, <2>2, HostStaysRight
<1> QED
  BY <1>2, <1>3, <1>4, <1>5 DEF NumaInv, NumaRight

\* An instance is taken off its host, if the host counts it.
LEMMA TakenOff ==
    ASSUME NumaAssumption, NumaInv, NEW i \in NumaGuests, NumaAbort(i) \/ NumaUpdateUsage(i)
    PROVE  NumaInv'
<1> DEFINE h == onHost[i]
<1>1. /\ NumaTypeOK /\ NumaTracked /\ Topologies(topology)
      /\ building[i] \in {"claimed", "deleted"} /\ h \in NumaHosts /\ HostUse(h, cellUse[h])
      /\ building[i] = "claimed" => h \in cutShort \/ i \in tracks[h]
  BY DEF NumaInv, NumaTypeOK, NumaTracked, NumaAbort, NumaUpdateUsage
<1> DEFINE freed == [cellUse EXCEPT ![h] = Used(h, @, topology[i], -1)]
<1>2. /\ tracks' = [tracks EXCEPT ![h] = @ \ {i}] /\ cutShort' = cutShort
      /\ cellUse' \in {freed, cellUse}
      /\ i \in tracks[h] /\ CanFree(h, i) => cellUse' = freed
      /\ i \notin tracks[h] /\ building[i] = "deleted" => cellUse' = cellUse
      /\ topology' \in {topology, [topology EXCEPT ![i] = Requested(i)]}
      /\ \/ /\ \E to \in {"aborted", "unclean"} : building' = [building EXCEPT ![i] = to]
            /\ UNCHANGED <<onHost, tried>>
         \/ building[i] = "deleted" /\ UNCHANGED <<building, onHost, tried>>
         \/ /\ building' = [building EXCEPT ![i] = "gone"]
            /\ onHost' = [onHost EXCEPT ![i] = NoNumaHost] /\ tried' = [tried EXCEPT ![i] = {}]
  <2>1. CASE NumaAbort(i)
    BY <2>1 DEF NumaAbort
  <2>2. CASE NumaUpdateUsage(i)
    BY <2>2 DEF NumaUpdateUsage, RowGoes
  <2> QED
    BY <2>1, <2>2
<1> HIDE DEF freed
<1>3. /\ \A j \in NumaGuests \ {i} : topology'[j] = topology[j]
      /\ topology'[i] \in {topology[i], Requested(i)}
      /\ topology' = [j \in NumaGuests |-> topology'[j]]
  BY <1>1, <1>2 DEF NumaTypeOK
<1>4. Topologies(topology')
  BY <1>1, <1>3, RequestedIs DEF Topologies
<1>5. /\ \A g \in NumaHosts : Keepers(g)' \subseteq Keepers(g) \ {i}
      /\ i \in tracks[h] => i \in Keepers(h)
  <2>1. /\ building'[i] \in {"aborted", "unclean", "gone", "deleted"}
        /\ onHost'[i] \in {h, NoNumaHost} /\ i \notin tracks'[h]
        /\ \A j \in NumaGuests \ {i} : building'[j] = building[j] /\ onHost'[j] = onHost[j]
    BY <1>1, <1>2 DEF NumaTypeOK, BuildSteps
  <2>2. \A g \in NumaHosts : tracks'[g] \subseteq tracks[g]
    BY <1>1, <1>2 DEF NumaTypeOK
  <2>3. \A g \in NumaHosts : i \notin Keepers(g)'
    BY <2>1, NumaAssumption DEF Keepers, NumaAssumption
  <2> QED
    BY <1>1, <2>1, <2>2, <2>3 DEF Keepers
<1>6. \A g \in NumaHosts : \A j \in Keepers(g)' : topology'[j] = topology[j]
  BY <1>3, <1>5 DEF Keepers
<1>7. /\ \A g \in NumaHosts \ {h} : cellUse'[g] = cellUse[g]
      /\ cellUse' = freed => cellUse'[h] = Used(h, cellUse[h], topology[i], -1)
      /\ cellUse' = [g \in NumaHosts |-> cellUse'[g]]
  BY <1>1, <1>2 DEF NumaTypeOK, freed
<1>8. \A g \in NumaHosts : HostUse(g, cellUse'[g])
  <2>1. \A c \in DOMAIN HostCells[h] : CellUse(h, c, Share(h, topology[i], c))
    BY <1>1, ShareOf DEF Topologies
  <2>2. HostUse(h, Used(h, cellUse[h], topology[i], -1))
    BY <1>1, <2>1, UsedIs
  <2> HIDE DEF h
  <2> QED
    BY <1>1, <1>2, <1>7, <2>2 DEF NumaTypeOK
<1> HIDE DEF h
<1>12. ASSUME NEW g \in NumaHosts \ cutShort
       PROVE  Right(g, Keepers(g)', topology', cellUse'[g])
  <2>1. Right(g, Keepers(g), topology, cellUse[g]) /\ Keepers(g) \in SUBSET NumaGuests
        /\ HostUse(g, cellUse[g])
    BY <1>1 DEF NumaInv, NumaRight, Keepers, NumaTypeOK
  <2>2. CASE g = h /\ i \in tracks[h]
    <3>2. i \in Keepers(g) /\ Keepers(g)' \in SUBSET (Keepers(g) \ {i})
      BY <1>5, <2>2
    <3>3. \A j \in Keepers(g)' : topology'[j] = topology[j]
      BY <1>6
    <3>4. Right(g, Keepers(g)', topology', Used(g, cellUse[g], topology[i], -1))
      BY <1>1, <1>4, <2>1, <3>2, <3>3, FreedIsRight
    <3>5. CanFree(h, i)
      BY <2>1, <2>2, <3>2 DEF Right, CanFree
    <3> QED
      BY <1>2, <1>7, <2>2, <3>4, <3>5
  <2>3. CASE ~(g = h /\ i \in tracks[h])
    <3>1. cellUse'[g] = cellUse[g]
      BY <1>1, <1>2, <1>7, <2>3
    <3> QED
      BY <2>1, <3>1, <1>4, <1>5, <1>6, HostStaysRight
  <2> QED
    BY <2>2, <2>3
<1>9. NumaTypeOK'
  <2>1. /\ building' \in [NumaGuests -> BuildSteps]
        /\ onHost' \in [NumaGuests -> NumaHosts \cup {NoNumaHost}]
        /\ tried' \in [NumaGuests -> SUBSET NumaHosts]
    BY <1>1, <1>2 DEF NumaTypeOK, BuildSteps
  <2>2. tracks' \in [NumaHosts -> SUBSET NumaGuests]
    BY <1>1, <1>2 DEF NumaTypeOK
  <2> QED
    BY <2>1, <2>2, <1>3, <1>4, <1>7, <1>8 DEF NumaTypeOK
<1>10. NumaTracked'
  BY <1>1, <1>2 DEF NumaTypeOK, NumaTracked, NumaAssumption, h
<1>11. NumaRight'
  BY <1>2, <1>12 DEF NumaRight
<1> QED
  BY <1>9, <1>10, <1>11 DEF NumaInv

LEMMA AuditKeeps ==
    ASSUME NumaAssumption, NumaInv, NEW h \in NumaHosts, NumaAudit(h)
    PROVE  NumaInv'
<1>1. NumaTypeOK /\ NumaTracked /\ Topologies(topology) /\ HostUse(h, cellUse[h])
  BY DEF NumaInv, NumaTypeOK
<1>2. PICK S \in SUBSET Counted(h), T \in SUBSET Counted(h) :
         /\ tracks' = [tracks EXCEPT ![h] = T]
         /\ cellUse' = [cellUse EXCEPT ![h] = CountAnew(h, S)]
         /\ \/ S = Counted(h) /\ T = S /\ UNCHANGED cutShort
            \/ cutShort' = cutShort \cup {h}
  BY DEF NumaAudit
<1>3. /\ UNCHANGED <<building, onHost, topology, tried>>
      /\ Counted(h) \in SUBSET NumaGuests /\ S \in SUBSET NumaGuests
      /\ \A i \in Counted(h) : onHost[i] = h
  BY DEF NumaAudit, Counted
<1>4. /\ cellUse'[h] = CountAnew(h, S)
      /\ \A g \in NumaHosts \ {h} : cellUse'[g] = cellUse[g] /\ tracks'[g] = tracks[g]
      /\ cellUse' = [g \in NumaHosts |-> cellUse'[g]]
      /\ tracks'[h] = T /\ tracks' \in [NumaHosts -> SUBSET NumaGuests]
  BY <1>1, <1>2, <1>3 DEF NumaTypeOK
<1>5. \A g \in NumaHosts : HostUse(g, cellUse'[g])
  BY <1>1, <1>3, <1>4, CountedIsUse DEF NumaTypeOK
<1>6. ASSUME NEW g \in NumaHosts \ cutShort'
      PROVE  Right(g, Keepers(g)', topology', cellUse'[g])
  <2>1. /\ g \in NumaHosts \ cutShort /\ Right(g, Keepers(g), topology, cellUse[g])
        /\ Keepers(g) \in SUBSET NumaGuests /\ HostUse(g, cellUse[g])
    BY <1>1, <1>2 DEF NumaInv, NumaRight, Keepers, NumaTypeOK
  <2>2. CASE g = h
    <3>1. S = Counted(h) /\ tracks'[h] = Counted(h)
      BY <1>2, <1>4, <2>2
    <3>2. \A i \in NumaGuests : onHost[i] = h /\ building[i] \in {"claimed", "running"} => i \in Counted(h)
      BY DEF Counted
    <3>3. Keepers(h)' \in SUBSET Keepers(h) /\ Keepers(h)' \subseteq Counted(h)
      BY <1>3, <3>1, <3>2 DEF Keepers, Counted
    <3>4. Right(h, Keepers(h)', topology, CountAnew(h, Counted(h)))
      BY <1>1, <1>3, <2>1, <2>2, <3>3, CountedIsRight
    <3> QED
      BY <1>3, <1>4, <2>2, <3>1, <3>4
  <2>3. CASE g # h
    <3>1. /\ Keepers(g)' \subseteq Keepers(g) /\ cellUse'[g] = cellUse[g]
          /\ topology' = topology /\ Topologies(topology')
      BY <1>1, <1>3, <1>4, <2>3 DEF Keepers
    <3> QED
      BY <2>1, <3>1, HostStaysRight
  <2> QED
    BY <2>2, <2>3
<1>7. NumaTypeOK'
  BY <1>1, <1>3, <1>4, <1>5 DEF NumaTypeOK, Topologies
<1>8. NumaTracked'
  <2>1. ASSUME NEW i \in NumaGuests, building[i] \in {"claimed", "running"}
        PROVE  onHost[i] \in cutShort' \/ i \in tracks'[onHost[i]]
    <3>1. onHost[i] \in cutShort \/ i \in tracks[onHost[i]]
      BY <1>1, <2>1 DEF NumaTracked
    <3>2. onHost[i] \in NumaHosts
      BY <1>1, <2>1 DEF NumaTracked, NumaTypeOK
    <3>3. onHost[i] = h => i \in Counted(h)
      BY <2>1 DEF Counted
    <3> QED
      BY <1>2, <1>4, <3>1, <3>2, <3>3
  <2>2. ASSUME NEW i \in NumaGuests, building[i] # "gone", NEW g \in NumaHosts,
               i \in tracks'[g] \/ onHost[i] = g
        PROVE  g \in tried[i]
    <3>1. i \in tracks[g] \/ onHost[i] = g
      BY <1>2, <1>3, <1>4, <2>2
    <3> QED
      BY <1>1, <2>2, <3>1 DEF NumaTracked
  <2> QED
    BY <1>1, <1>3, <2>1, <2>2 DEF NumaTracked
<1>9. NumaRight'
  BY <1>6 DEF NumaRight
<1> QED
  BY <1>7, <1>8, <1>9 DEF NumaInv

\* In every state a host's tracker has counted what the instances there take, and
\* they sit apart on it within its limits, unless an audit of it was cut short.
THEOREM NumaInvariant == NumaSpec => []NumaInv
<1>1. NumaInit => NumaInv
  BY NumaInitially, NumaAssumption
<1>2. NumaInv /\ [NumaNext]_numa => NumaInv'
  <2> SUFFICES ASSUME NumaInv, [NumaNext]_numa PROVE NumaInv'
    OBVIOUS
  <2>1. CASE UNCHANGED numa
    BY <2>1 DEF numa, NumaInv, NumaTypeOK, NumaTracked, NumaRight, Keepers, Topologies
  <2>2. CASE \E i \in NumaGuests : \E h \in NumaHosts : NumaClaim(i, h)
    <3>1. PICK i \in NumaGuests, h \in NumaHosts : NumaClaim(i, h)
      BY <2>2
    <3>2. CASE Fit(h, cellUse[h], i \in Dedicated, topology[i]).fits
      BY <3>1, <3>2, ClaimFits, NumaAssumption
    <3>3. CASE ~Fit(h, cellUse[h], i \in Dedicated, topology[i]).fits
      <4>1. /\ tried' = [tried EXCEPT ![i] = @ \cup {h}]
            /\ UNCHANGED <<building, onHost, topology, tracks, cellUse, cutShort>>
        BY <3>1, <3>3 DEF NumaClaim
      <4> QED
        BY <4>1, ClaimRefused, NumaAssumption
    <3> QED
      BY <3>2, <3>3
  <2>3. CASE \E i \in NumaGuests : GuestBuilt(i) \/ NumaReschedule(i) \/ NumaDelete(i)
    BY <2>3, QuietBuild, NumaAssumption
  <2>4. CASE \E i \in NumaGuests : NumaAbort(i) \/ NumaUpdateUsage(i)
    BY <2>4, TakenOff, NumaAssumption
  <2>5. CASE \E h \in NumaHosts : NumaAudit(h)
    BY <2>5, AuditKeeps, NumaAssumption
  <2> QED
    BY <2>1, <2>2, <2>3, <2>4, <2>5 DEF NumaNext
<1> QED
  BY <1>1, <1>2, PTL DEF NumaSpec
-----------------------------------------------------------------------------
\* A cell of an instance that holds it is what the instance takes of that cell.
LEMMA HeldIs ==
    ASSUME NumaAssumption, NumaInv, NEW h \in NumaHosts \ cutShort, NEW c \in DOMAIN HostCells[h],
           NEW i \in NumaGuests, Holds(i, h), NEW k \in CellOf(i, c)
    PROVE  /\ i \in Keepers(h) /\ \A l \in CellOf(i, c) : l = k
           /\ Amounts(h, c, 0, topology)[i] = topology[i][k].memory
           /\ Share(h, topology[i], c).pinned = Pins(topology[i][k])
           /\ \A s \in DOMAIN HostCells[h][c].pages :
                 Amounts(h, c, s, topology)[i]
                    = IF topology[i][k].pagesize = s THEN topology[i][k].memory \div s ELSE 0
           /\ i \in Dedicated => PinnedTo(topology[i][k], HostCells[h][c].cpus)
<1>1. i \in Keepers(h)
  BY DEF Holds, Keepers
<1>2. Sits(i, h, topology[i]) /\ Topology(i, topology[i])
  BY <1>1 DEF NumaInv, NumaRight, Right, NumaTypeOK, Topologies
<1>3. k \in DOMAIN topology[i] /\ topology[i][k].id = c
  BY DEF CellOf
<1>4. \A l \in DOMAIN topology[i] : topology[i][l].id = c <=> l = k
  BY <1>2, <1>3 DEF Sits
<1>5. /\ Share(h, topology[i], c).memory = topology[i][k].memory
      /\ Share(h, topology[i], c).pinned = Pins(topology[i][k])
      /\ \A s \in DOMAIN HostCells[h][c].pages :
            Share(h, topology[i], c).used[s] =
               IF s # topology[i][k].pagesize THEN 0 ELSE topology[i][k].memory \div s
  BY <1>2, <1>3, <1>4, ShareOf
<1>6. 0 \notin DOMAIN HostCells[h][c].pages
  BY DEF NumaAssumption, IsHostCell
<1>7. Amounts(h, c, 0, topology)[i] = topology[i][k].memory
  BY <1>5 DEF Amounts, Amount
<1>8. ASSUME NEW s \in DOMAIN HostCells[h][c].pages
      PROVE  Amounts(h, c, s, topology)[i]
                = IF topology[i][k].pagesize = s THEN topology[i][k].memory \div s ELSE 0
  BY <1>5, <1>6 DEF Amounts, Amount
<1>9. i \in Dedicated => PinnedTo(topology[i][k], HostCells[h][c].cpus)
  BY <1>2, <1>3 DEF Sits
<1> QED
  BY <1>1, <1>3, <1>4, <1>5, <1>7, <1>8, <1>9 DEF CellOf

LEMMA RightIsApart == NumaAssumption /\ NumaInv => PinnedApart
<1> SUFFICES ASSUME NumaAssumption, NumaInv, NEW h \in NumaHosts \ cutShort, NEW c \in DOMAIN HostCells[h]
             PROVE
        LET here == {g \in NumaGuests \X (1..Len(HostCells[h])) :
                        Holds(g[1], h) /\ g[2] \in CellOf(g[1], c)}
            cell(g) == topology[g[1]][g[2]]
            pinned == {g \in here : g[1] \in Dedicated}
            pages(g, s) == IF cell(g).pagesize = s THEN cell(g).memory \div s ELSE 0
        IN /\ Total([g \in here |-> cell(g).memory]) <= HostCells[h][c].memory * Ratio
           /\ \A g \in pinned : /\ DOMAIN cell(g).pin = cell(g).cpus
                                /\ IsInjective(cell(g).pin)
                                /\ Pins(cell(g)) \subseteq HostCells[h][c].cpus
           /\ \A g, f \in pinned : g # f => Pins(cell(g)) \cap Pins(cell(f)) = {}
           /\ \A s \in DOMAIN HostCells[h][c].pages :
                 Total([g \in here |-> pages(g, s)]) <= HostCells[h][c].pages[s]
  BY DEF PinnedApart
<1> DEFINE here == {g \in NumaGuests \X (1..Len(HostCells[h])) :
                        Holds(g[1], h) /\ g[2] \in CellOf(g[1], c)}
           cell(g) == topology[g[1]][g[2]]
           pinned == {g \in here : g[1] \in Dedicated}
           pages(g, s) == IF cell(g).pagesize = s THEN cell(g).memory \div s ELSE 0
           amount(g, u) == IF u = 0 THEN cell(g).memory ELSE pages(g, u)
<1>1. 0 \notin DOMAIN HostCells[h][c].pages
  BY DEF NumaAssumption, IsHostCell
<1>2. ASSUME NEW g \in here
      PROVE  /\ g[1] \in Keepers(h) /\ g[1] \in NumaGuests
             /\ \A u \in Units(h, c) : amount(g, u) = Amounts(h, c, u, topology)[g[1]]
             /\ Share(h, topology[g[1]], c).pinned = Pins(cell(g))
             /\ g[1] \in Dedicated => PinnedTo(cell(g), HostCells[h][c].cpus)
  <2>1. g[1] \in NumaGuests /\ Holds(g[1], h) /\ g[2] \in CellOf(g[1], c)
    OBVIOUS
  <2>2. /\ g[1] \in Keepers(h) /\ Amounts(h, c, 0, topology)[g[1]] = cell(g).memory
        /\ Share(h, topology[g[1]], c).pinned = Pins(cell(g))
        /\ \A s \in DOMAIN HostCells[h][c].pages : Amounts(h, c, s, topology)[g[1]] = pages(g, s)
        /\ g[1] \in Dedicated => PinnedTo(cell(g), HostCells[h][c].cpus)
    BY <2>1, HeldIs
  <2> HIDE DEF cell, pages
  <2> QED
    BY <1>1, <2>1, <2>2 DEF Units
<1>3. ASSUME NEW g \in here, NEW f \in here, g[1] = f[1]
      PROVE  g = f
  <2>1. g[2] = f[2]
    <3>1. g[1] \in NumaGuests /\ Holds(g[1], h) /\ g[2] \in CellOf(g[1], c) /\ f[2] \in CellOf(g[1], c)
      BY <1>3
    <3> QED
      BY <3>1, HeldIs
  <2> QED
    BY <2>1, <1>3
<1>4. IsFiniteSet(here)
  <2>1. IsFiniteSet(1..Len(HostCells[h])) /\ IsFiniteSet(NumaGuests)
    <3>1. Len(HostCells[h]) \in Nat
      BY DEF NumaAssumption
    <3> QED
      BY <3>1, FS_Interval DEF NumaAssumption
  <2>2. IsFiniteSet(NumaGuests \X (1..Len(HostCells[h])))
    BY <2>1, FS_Product
  <2>3. here \in SUBSET (NumaGuests \X (1..Len(HostCells[h])))
    OBVIOUS
  <2> HIDE DEF here
  <2> QED
    BY <2>2, <2>3, FS_Subset
<1>5. /\ Right(h, Keepers(h), topology, cellUse[h]) /\ Topologies(topology)
      /\ Keepers(h) \in SUBSET NumaGuests
  BY DEF NumaInv, NumaRight, NumaTypeOK, Keepers
<1> HIDE DEF here, amount
<1>6. ASSUME NEW u \in Units(h, c), NEW f, f = [g \in here |-> amount(g, u)]
      PROVE  Total(f) <= Limit(h, c, u)
  <2> DEFINE a == Amounts(h, c, u, topology)
             guest == [g \in here |-> g[1]]
  <2>1. /\ \A i \in NumaGuests : a[i] \in Nat
        /\ IsFiniteSet(Keepers(h)) /\ SumOf(a, Keepers(h)) \in Nat /\ Limit(h, c, u) \in Nat
    BY <1>5, SharesAreNat
  <2>2. SumOf(a, Keepers(h)) <= Limit(h, c, u)
    BY <1>5 DEF Right
  <2> HIDE DEF a
  <2>3. \A g \in here : f[g] = a[g[1]] /\ g[1] \in Keepers(h) /\ g[1] \in NumaGuests
    BY <1>2, <1>6 DEF a
  <2>4. /\ \A g \in here : f[g] \in Nat /\ guest[g] \in Keepers(h) /\ f[g] <= a[guest[g]]
        /\ \A i \in Keepers(h) : a[i] \in Nat
        /\ \A g, e \in here : guest[g] = guest[e] => g = e
    BY <2>1, <2>3, <1>3, <1>5
  <2> HIDE DEF guest
  <2>5. SumOf(f, here) <= SumOf(a, Keepers(h))
    BY <1>4, <2>1, <2>4, SumAtMost
  <2>6. SumOf(f, here) \in Nat
    BY <1>4, <2>4, SumIsNat
  <2>7. Total(f) = SumOf(f, here)
    <3>1. DOMAIN f = here
      BY <1>6
    <3> QED
      BY <3>1 DEF Total, SumOf
  <2> QED
    BY <2>1, <2>2, <2>5, <2>6, <2>7
<1>7. Total([g \in here |-> cell(g).memory]) <= HostCells[h][c].memory * Ratio
  <2>1. [g \in here |-> cell(g).memory] = [g \in here |-> amount(g, 0)]
    BY DEF amount
  <2>2. 0 \in Units(h, c) /\ Limit(h, c, 0) = HostCells[h][c].memory * Ratio
    BY DEF Units, Limit
  <2> QED
    BY <1>6, <2>1, <2>2
<1>8. ASSUME NEW s \in DOMAIN HostCells[h][c].pages
      PROVE  Total([g \in here |-> pages(g, s)]) <= HostCells[h][c].pages[s]
  <2>1. s # 0
    BY <1>1
  <2>2. [g \in here |-> pages(g, s)] = [g \in here |-> amount(g, s)]
    BY <2>1 DEF amount
  <2>3. s \in Units(h, c) /\ Limit(h, c, s) = HostCells[h][c].pages[s]
    BY <2>1 DEF Units, Limit
  <2> HIDE DEF pages
  <2> QED
    BY <1>6, <2>2, <2>3
<1>9. ASSUME NEW g \in pinned
      PROVE  /\ DOMAIN cell(g).pin = cell(g).cpus /\ IsInjective(cell(g).pin)
             /\ Pins(cell(g)) \subseteq HostCells[h][c].cpus
  <2>1. PinnedTo(cell(g), HostCells[h][c].cpus)
    BY <1>2
  <2> HIDE DEF cell
  <2> QED
    BY <2>1 DEF PinnedTo, Pins
<1>10. ASSUME NEW g \in pinned, NEW f \in pinned, g # f
       PROVE  Pins(cell(g)) \cap Pins(cell(f)) = {}
  <2>1. g \in here /\ f \in here /\ g[1] # f[1]
    BY <1>3, <1>10
  <2>2. /\ Share(h, topology[g[1]], c).pinned = Pins(cell(g)) /\ g[1] \in Keepers(h)
        /\ Share(h, topology[f[1]], c).pinned = Pins(cell(f)) /\ f[1] \in Keepers(h)
    BY <1>2, <2>1
  <2>3. Share(h, topology[g[1]], c).pinned \cap Share(h, topology[f[1]], c).pinned = {}
    BY <1>5, <2>1, <2>2 DEF Right
  <2> HIDE DEF cell
  <2> QED
    BY <2>2, <2>3
<1> HIDE DEF pinned, cell, pages
<1>11. /\ Total([g \in here |-> cell(g).memory]) <= HostCells[h][c].memory * Ratio
       /\ \A g \in pinned : /\ DOMAIN cell(g).pin = cell(g).cpus
                            /\ IsInjective(cell(g).pin)
                            /\ Pins(cell(g)) \subseteq HostCells[h][c].cpus
       /\ \A g, f \in pinned : g # f => Pins(cell(g)) \cap Pins(cell(f)) = {}
       /\ \A s \in DOMAIN HostCells[h][c].pages :
             Total([g \in here |-> pages(g, s)]) <= HostCells[h][c].pages[s]
  BY <1>7, <1>8, <1>9, <1>10
<1> QED
  BY <1>11 DEF here, cell, pinned, pages

\* Every CPU of a pinned guest has a host CPU to itself, and memory and pages of
\* a cell are promised once, for any number of instances, hosts, cells, cores
\* and threads, and whatever earlier fittings left in a topology; not on a host an
\* audit of which was cut short.
THEOREM PinnedStayApart == NumaSpec => []PinnedApart
<1>1. NumaInv => PinnedApart
  BY RightIsApart, NumaAssumption
<1> QED
  BY <1>1, NumaInvariant, PTL
=============================================================================
