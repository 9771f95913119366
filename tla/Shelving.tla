------------------------------ MODULE Shelving ------------------------------
(***************************************************************************)
(* Shelving: the instance's disk is uploaded as an image, the guest is     *)
(* taken off its host now or later, and brought back from its disk or from *)
(* the image.  shelve, shelve_offload, unshelve and _delete of             *)
(* nova/compute/api.py, unshelve_instance of nova/conductor/manager.py,    *)
(* and shelve_instance, shelve_offload_instance, start_instance,           *)
(* unshelve_instance and _poll_shelved_instances of compute/manager.py.    *)
(*                                                                         *)
(* The same data is in two places in turn, and each is removed when the    *)
(* other is thought to be safe; one instance, not booted from a volume.    *)
(* The lock unshelving takes is left out: only a terminate takes it too,   *)
(* and never while the instance is shelved_offloaded.                      *)
(***************************************************************************)
EXTENDS Naturals, FiniteSets

CONSTANTS
    ShelveHosts, NoHost, NoImage,
    ShelveUsers,     \* the requests of users; of whatever kind
    Poll,            \* the thread of the periodic task
    OffloadTime,     \* shelved_offload_time: "never", "at once" or "later"
    ShelveMishaps    \* bound: calls of the driver, of Glance and of the queue that
                     \* raise, claims refused, hosts not found and restarts together

ASSUME ShelvingAssumption ==
    /\ OffloadTime \in {"never", "at once", "later"}
    /\ ShelveHosts # {} /\ NoHost \notin ShelveHosts /\ NoImage \notin ShelveUsers
    /\ Poll \notin ShelveUsers /\ ShelveMishaps \in Nat

VARIABLES
    row,         \* the instances row, with system_metadata's shelved_image_id
    images,      \* the images Glance has, by the requests that made them
    guests,      \* the hosts that have the guest, with its disk
    thread,      \* each request, and the task: its step and its copy of the row
    overtaken,   \* whether a task was set on an instance that was not any more
                 \* what it had been read as, or a restart came after an image
                 \* was removed and before the row said so: to state what is
                 \* promised otherwise
    shelveTroubles  \* counts what ShelveMishaps bounds: restarts, failures that
                    \* strand a task and others

shelving == <<row, images, guests, thread, overtaken, shelveTroubles>>

Threads == ShelveUsers \cup {Poll}
ShelveTrouble(kind) ==
    /\ shelveTroubles.restarts + shelveTroubles.stranded + shelveTroubles.others
         < ShelveMishaps
    /\ shelveTroubles' = [shelveTroubles EXCEPT ![kind] = @ + 1]

NoThread == [op |-> "none", at |-> "idle", host |-> NoHost, image |-> NoImage,
             vm |-> "active"]
ShelvingInit ==
    /\ LET h == CHOOSE h \in ShelveHosts : TRUE   \* which makes no difference
       IN /\ guests = {h}
          /\ row = [vm |-> "active", task |-> "none", host |-> h,
                    image |-> NoImage, gone |-> FALSE]
    /\ images = {} /\ thread = [r \in Threads |-> NoThread]
    /\ overtaken = FALSE
    /\ shelveTroubles = [restarts |-> 0, stranded |-> 0, others |-> 0]

On(r, op, at) == thread[r].op = op /\ thread[r].at = at
GoesTo(r, at) == thread' = [thread EXCEPT ![r].at = at]
\* A save brings the copy up to date with what others have saved.
GoesOn(r, at) ==
    thread' = [thread EXCEPT ![r] =
        [op |-> @.op, at |-> at, host |-> row.host, image |-> row.image, vm |-> row.vm]]
Saves(changed) == row' = changed

\* A save that expects a task: who finds another one, or no row, is done.
Expecting(r, tasks, changed, at) ==
    IF ~row.gone /\ row.task \in tasks
    THEN Saves(changed) /\ GoesOn(r, at)
    ELSE GoesTo(r, "done") /\ UNCHANGED row
\* reverts_task_state: clears whatever the task is by now.
Reverts(r) ==
    /\ GoesTo(r, "done")
    /\ row' = IF row.gone THEN row ELSE [row EXCEPT !.task = "none"]
-----------------------------------------------------------------------------
(* The API.                                                                *)

Allowed == [shelve |-> {"active"}, offload |-> {"shelved"},
            unshelve |-> {"shelved", "offloaded"}]
TaskOf == [shelve |-> "shelving", offload |-> "shelving_offloading",
           unshelve |-> "unshelving"]

\* The request's copy is read, and checked.  Who asks makes no difference.
AskShelving(r, op) ==
    /\ On(r, "none", "idle") /\ ~row.gone
    /\ r = CHOOSE u \in ShelveUsers : On(u, "none", "idle")
    \* A delete of an instance that was DELETING already is ignored.
    /\ op = "delete" => row.task # "deleting"
    /\ op \in DOMAIN Allowed => row.vm \in Allowed[op] /\ row.task = "none"
    /\ thread' = [thread EXCEPT ![r] =
           [op |-> op, at |-> "asked", host |-> row.host, image |-> row.image,
            vm |-> row.vm]]
    /\ UNCHANGED <<row, images, guests, overtaken, shelveTroubles>>

\* The next step is a call that nothing reverts: when it raises the task stays.
OrStranded(r, tasks, changed, at) ==
    \/ Expecting(r, tasks, changed, at) /\ UNCHANGED shelveTroubles
    \/ /\ ~row.gone /\ row.task \in tasks /\ ShelveTrouble("stranded")
       /\ Saves(changed) /\ GoesOn(r, "left")
\* The task is set; then a shelve makes its image in Glance, and the request is
\* cast.  Without a host the cast raises.
SetsTask(r, expected) ==
    LET op == thread[r].op
    IN /\ OrStranded(r, expected, [row EXCEPT !.task = TaskOf[op]],
                     IF row.host = NoHost /\ op # "unshelve" THEN "done" ELSE "cast")
       /\ overtaken' = (overtaken \/ (row'.task # row.task /\ row.vm \notin Allowed[op]))
       /\ UNCHANGED <<images, guests>>
\* Mutant of SetTask: the save expects nothing.
SetTaskAnyway(r) ==
    /\ thread[r].op \in DOMAIN Allowed /\ thread[r].at = "asked"
    /\ SetsTask(r, {row.task})
SetTask(r) ==
    /\ thread[r].op \in DOMAIN Allowed /\ thread[r].at = "asked"
    /\ SetsTask(r, {"none"})
-----------------------------------------------------------------------------
(* shelve_instance and shelve_offload_instance.                            *)

\* The guest is powered off, and snapshot saves the step of the upload.
UploadBegins(r) ==
    /\ On(r, "shelve", "cast")
    /\ Expecting(r, {"shelving"}, [row EXCEPT !.task = "shelving_uploading"],
                 "uploading")
    /\ UNCHANGED <<images, guests, overtaken, shelveTroubles>>
Shelved(r) ==
    /\ On(r, "shelve", "uploading")
    /\ thread[r].host \in guests
    /\ images' = images \cup {r}
    /\ LET now == OffloadTime = "at once"
       IN Expecting(r, {"shelving", "shelving_uploading"},
             [row EXCEPT !.vm = "shelved", !.image = r,
                         !.task = IF now THEN "shelving_offloading" ELSE "none"],
             IF now THEN "shelved" ELSE "done")
    /\ UNCHANGED <<guests, overtaken, shelveTroubles>>
ShelveFails(r) ==
    /\ On(r, "shelve", "cast") \/ On(r, "shelve", "uploading")
    /\ \/ ShelveTrouble("others")
       \/ thread[r].host \notin guests /\ UNCHANGED shelveTroubles
    /\ Reverts(r)
    /\ UNCHANGED <<images, guests, overtaken>>

ToOffload(r) == On(r, "shelve", "shelved") \/ On(r, "offload", "cast")
Destroy(r) ==
    /\ ToOffload(r)
    /\ guests' = guests \ {thread[r].host}
    /\ GoesTo(r, "destroyed")
    /\ UNCHANGED <<row, images, overtaken, shelveTroubles>>
OffloadFails(r) ==
    /\ ToOffload(r)
    /\ ShelveTrouble("others") /\ Reverts(r)
    /\ UNCHANGED <<images, guests, overtaken>>
Offloaded(r) ==
    /\ thread[r].at = "destroyed" /\ thread[r].op \in {"shelve", "offload"}
    /\ Expecting(r, {"shelving", "shelving_offloading"},
                 [row EXCEPT !.vm = "offloaded", !.host = NoHost, !.task = "none"],
                 "done")
    /\ UNCHANGED <<images, guests, overtaken, shelveTroubles>>

\* The periodic task: the list is read from a replica, and then the task is
\* set on each instance of it, whatever became of it.
PollLists ==
    /\ OffloadTime = "later" /\ thread[Poll].at \in {"idle", "done"}
    /\ ~row.gone /\ row.vm = "shelved"
    /\ thread' = [thread EXCEPT ![Poll] =
           [op |-> "offload", at |-> "listed", host |-> row.host,
            image |-> row.image, vm |-> row.vm]]
    /\ UNCHANGED <<row, images, guests, overtaken, shelveTroubles>>
PollMarks ==
    /\ On(Poll, "offload", "listed")
    /\ IF row.gone
       THEN GoesTo(Poll, "done") /\ UNCHANGED <<row, overtaken>>
       ELSE /\ Saves([row EXCEPT !.task = "shelving_offloading"])
            /\ GoesTo(Poll, "cast")
            /\ overtaken' = (overtaken \/ row.vm # "shelved" \/ row.task # "none")
    /\ UNCHANGED <<images, guests, shelveTroubles>>
-----------------------------------------------------------------------------
(* unshelve_instance.                                                      *)

\* The conductor.
StartAgain(r) ==
    /\ On(r, "unshelve", "cast") /\ thread[r].vm = "shelved"
    /\ OrStranded(r, {"unshelving"}, [row EXCEPT !.task = "powering_on"], "starting")
    /\ UNCHANGED <<images, guests, overtaken>>
\* Glance has no such image, or does not answer; no host is found.
NotUnshelved(r) ==
    /\ On(r, "unshelve", "cast") /\ GoesTo(r, "done")
    /\ \/ /\ \/ thread[r].vm \notin {"shelved", "offloaded"}
             \/ thread[r].vm = "offloaded" /\ thread[r].image \notin images
          /\ row' = IF row.gone THEN row ELSE [row EXCEPT !.vm = "error"]
          /\ UNCHANGED shelveTroubles
       \/ /\ thread[r].vm = "offloaded" /\ ShelveTrouble("stranded") /\ UNCHANGED row
       \/ /\ thread[r].vm = "offloaded" /\ thread[r].image \in images
          /\ ShelveTrouble("others")
          /\ row' = IF row.gone THEN row ELSE [row EXCEPT !.task = "none"]
    /\ UNCHANGED <<images, guests, overtaken>>
Scheduled(r, h) ==
    /\ On(r, "unshelve", "cast") /\ thread[r].vm = "offloaded"
    /\ thread[r].image \in images
    /\ thread' = [thread EXCEPT ![r].at = "scheduled", ![r].host = h]
    /\ UNCHANGED <<row, images, guests, overtaken, shelveTroubles>>

\* start_instance; the image goes before the row says so.
PowerOn(r) ==
    /\ On(r, "unshelve", "starting") /\ thread[r].host \in guests
    /\ GoesTo(r, "up")
    /\ UNCHANGED <<row, images, guests, overtaken, shelveTroubles>>
\* Compute's unshelve_instance, on the host that was found.
Spawning(r) ==
    /\ On(r, "unshelve", "scheduled")
    /\ IF row.gone THEN GoesTo(r, "done") /\ UNCHANGED row
                   ELSE Saves([row EXCEPT !.task = "spawning"]) /\ GoesTo(r, "spawning")
    /\ UNCHANGED <<images, guests, overtaken, shelveTroubles>>
ClaimForUnshelve(r) ==
    /\ On(r, "unshelve", "spawning")
    /\ IF row.gone THEN GoesTo(r, "done") /\ UNCHANGED row
                   ELSE Saves([row EXCEPT !.host = thread[r].host]) /\ GoesTo(r, "claimed")
    /\ UNCHANGED <<images, guests, overtaken, shelveTroubles>>
SpawnShelved(r) ==
    /\ On(r, "unshelve", "claimed") /\ thread[r].image \in images
    /\ guests' = guests \cup {thread[r].host}
    /\ GoesTo(r, "up")
    /\ UNCHANGED <<row, images, overtaken, shelveTroubles>>
\* The row keeps the host of a claim that was aborted.
UnshelveFails(r) ==
    /\ thread[r].op = "unshelve"
    /\ \/ thread[r].at \in {"starting", "spawning", "claimed"} /\ ShelveTrouble("others")
       \/ /\ \/ thread[r].at = "starting" /\ thread[r].host \notin guests
             \/ thread[r].at = "claimed" /\ thread[r].image \notin images
          /\ UNCHANGED shelveTroubles
    /\ Reverts(r)
    /\ UNCHANGED <<images, guests, overtaken>>

\* Whether Glance deletes the image or not, what follows is done.
WithoutImage(image) ==
    \/ images' = images \ {image} /\ UNCHANGED shelveTroubles
    \/ UNCHANGED images /\ ShelveTrouble("others")
DropImage(r) ==
    /\ On(r, "unshelve", "up") /\ GoesTo(r, "dropped")
    /\ WithoutImage(thread[r].image)
    /\ UNCHANGED <<row, guests, overtaken>>
Unshelved(r) ==
    /\ On(r, "unshelve", "dropped")
    /\ Expecting(r, {IF thread[r].vm = "shelved" THEN "powering_on" ELSE "spawning"},
                 [row EXCEPT !.vm = "active", !.task = "none", !.image = NoImage],
                 "done")
    /\ UNCHANGED <<images, guests, overtaken, shelveTroubles>>
-----------------------------------------------------------------------------
(* A delete.                                                               *)

DeleteDropsImage(r) ==
    /\ On(r, "delete", "asked") /\ GoesTo(r, "imageless")
    /\ IF thread[r].vm \in {"shelved", "offloaded"} THEN WithoutImage(thread[r].image)
                                                  ELSE UNCHANGED <<images, shelveTroubles>>
    /\ UNCHANGED <<row, guests, overtaken>>
MarkDeleting(r) ==
    /\ On(r, "delete", "imageless")
    /\ IF row.gone THEN GoesTo(r, "done") /\ UNCHANGED row
       ELSE Saves([row EXCEPT !.task = "deleting"]) /\ GoesOn(r, "cast")
    /\ UNCHANGED <<images, guests, overtaken, shelveTroubles>>
\* An instance that is nowhere is deleted in the database.
LocalDelete(r) ==
    /\ On(r, "delete", "cast")
    /\ thread[r].vm = "offloaded" \/ thread[r].host = NoHost
    /\ Saves([row EXCEPT !.gone = TRUE, !.task = "none"]) /\ GoesTo(r, "done")
    /\ UNCHANGED <<images, guests, overtaken, shelveTroubles>>
TerminateGuest(r) ==
    /\ On(r, "delete", "cast")
    /\ thread[r].vm # "offloaded" /\ thread[r].host # NoHost
    /\ guests' = guests \ {thread[r].host}
    /\ GoesTo(r, "terminated")
    /\ UNCHANGED <<row, images, overtaken, shelveTroubles>>
\* A delete that fails, before or after the guest is gone, makes an ERROR, and
\* may be asked for again.
TerminateFails(r) ==
    /\ On(r, "delete", "cast") \/ On(r, "delete", "terminated")
    /\ thread[r].vm # "offloaded" /\ thread[r].host # NoHost
    /\ ShelveTrouble("others") /\ GoesTo(r, "done")
    /\ row' = IF row.gone THEN row ELSE [row EXCEPT !.vm = "error", !.task = "none"]
    /\ UNCHANGED <<images, guests, overtaken>>
TerminateRow(r) ==
    /\ On(r, "delete", "terminated")
    /\ Saves([row EXCEPT !.gone = TRUE, !.task = "none"]) /\ GoesTo(r, "done")
    /\ UNCHANGED <<images, guests, overtaken, shelveTroubles>>

\* _cleanup_running_deleted_instances of the host the row names.
ReapShelved ==
    /\ row.gone /\ row.host \in guests
    /\ guests' = guests \ {row.host}
    /\ UNCHANGED <<row, images, thread, overtaken, shelveTroubles>>
-----------------------------------------------------------------------------
\* The service of h restarts: what it was doing is lost, but a delete and a
\* start it takes up again; of a spawn it makes an ERROR.  Shelving tasks stay.
Working == {"uploading", "shelved", "destroyed", "starting", "up", "dropped",
            "spawning", "claimed", "terminated", "left"}
RestartService(h) ==
    /\ ShelveTrouble("restarts")
    /\ LET again(r) == /\ ~row.gone /\ row.host = h
                       /\ \/ thread[r].op = "delete" /\ row.task = "deleting"
                          \/ /\ thread[r].op = "unshelve" /\ row.vm # "error"
                             /\ row.task = "powering_on"
       IN thread' = [r \in Threads |->
             IF thread[r].host # h \/ thread[r].at \notin Working THEN thread[r]
             ELSE [thread[r] EXCEPT
                      !.at = IF ~again(r) THEN "done"
                             ELSE IF thread[r].op = "delete" THEN "cast" ELSE "starting"]]
    /\ row' = IF ~row.gone /\ row.host = h /\ row.vm # "error" /\ row.task = "spawning"
              THEN [row EXCEPT !.vm = "error", !.task = "none"] ELSE row
    /\ overtaken' = (overtaken \/ \E r \in Threads : thread[r].host = h
                                                    /\ On(r, "unshelve", "dropped"))
    /\ UNCHANGED <<images, guests>>

Proceeds(r) ==
    \/ SetTask(r) \/ UploadBegins(r) \/ Shelved(r) \/ ShelveFails(r)
    \/ Destroy(r) \/ OffloadFails(r) \/ Offloaded(r)
    \/ StartAgain(r) \/ NotUnshelved(r) \/ \E h \in ShelveHosts : Scheduled(r, h)
    \/ PowerOn(r) \/ Spawning(r) \/ ClaimForUnshelve(r) \/ SpawnShelved(r)
    \/ UnshelveFails(r) \/ DropImage(r) \/ Unshelved(r)
    \/ DeleteDropsImage(r) \/ MarkDeleting(r) \/ LocalDelete(r)
    \/ TerminateGuest(r) \/ TerminateFails(r) \/ TerminateRow(r)
ShelvingNext ==
    \/ \E r \in ShelveUsers, op \in DOMAIN Allowed \cup {"delete"} : AskShelving(r, op)
    \/ \E r \in Threads : Proceeds(r)
    \/ PollLists \/ PollMarks \/ ReapShelved
    \/ \E h \in ShelveHosts : RestartService(h)

\* Requests are carried on, services come back, the deleted are reaped.
ShelvingSpec ==
    /\ ShelvingInit /\ [][ShelvingNext]_shelving
    /\ \A r \in Threads : WF_shelving(Proceeds(r))
    /\ WF_shelving(PollMarks) /\ WF_shelving(ReapShelved)
-----------------------------------------------------------------------------
\* The data of an instance is never in neither place: it has the guest on the
\* host its row names or the image its row names, wherever the upload, the
\* offloading, the spawn or a restart ends.  An instance that is being deleted
\* is excepted, one that was offloaded on the word of an old copy, and one that
\* a restart left with the name of an image that had just been removed.
DeleteBegun ==
    \E r \in ShelveUsers : thread[r].op = "delete" /\ thread[r].at # "asked"
DataKept ==
    (~overtaken /\ ~DeleteBegun) => row.host \in guests \/ row.image \in images

\* Shelving, offloading and unshelving end, and the guest of a deleted instance
\* goes, whatever else is asked for.  A restart leaves a task behind, and so do a
\* call of Glance or of the queue that raises where nothing reverts the task and
\* an unshelve that does not find its image.
ShelvingTasks == {"shelving", "shelving_uploading", "shelving_offloading",
                  "unshelving", "powering_on", "spawning"}
=============================================================================
