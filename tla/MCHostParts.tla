---------------------------- MODULE MCHostParts ----------------------------
(* NUMA cells, PCI devices, volumes and shelving, for TLC: each behaviour  *)
(* is one of the part chosen at the start.  Host a has two cells, one of   *)
(* them with two cores of two threads; host b has one, without threads.    *)
(* A page is of one or two units of memory.                                *)
EXTENDS NumaTopology, PciDevices, Volumes, Shelving

CONSTANTS a, b, wide, split, shared, single, pair
VARIABLE part

PciWants == [i \in PciGuests |-> IF i = single THEN 1 ELSE 2]

HostCell(cpus, siblings) == [cpus |-> cpus, siblings |-> siblings, memory |-> 4,
                             pages |-> [s \in 1..2 |-> IF s = 1 THEN 2 ELSE 1]]
TwoHosts == [h \in {a, b} |->
    IF h = a THEN <<HostCell(0..3, <<{0, 1}, {2, 3}>>), HostCell(4..5, <<{4, 5}>>)>>
             ELSE <<HostCell(0..1, <<>>)>>]

GuestCell(cpus, memory, pagesize) ==
    [cpus |-> cpus, memory |-> memory, pagesize |-> pagesize]
ThreeGuests == [i \in {wide, split, shared} |->
    CASE i = wide   -> <<GuestCell(0..1, 2, AnyPages)>>
      [] i = split  -> <<GuestCell({0}, 1, SmallPages), GuestCell({1}, 2, LargePages)>>
      [] i = shared -> <<GuestCell(0..1, 4, 0)>>]

hostparts == <<part, numa, pcis, volumes, shelving>>
HostInit ==
    /\ part \in {"numa", "pci", "volumes", "shelving"}
    /\ NumaInit /\ PciInit /\ VolumesInit /\ ShelvingInit
HostNext ==
    /\ UNCHANGED part
    /\ \/ part = "numa" /\ NumaNext /\ UNCHANGED <<pcis, volumes, shelving>>
       \/ part = "pci" /\ PciNext /\ UNCHANGED <<numa, volumes, shelving>>
       \/ part = "volumes" /\ VolumesNext /\ UNCHANGED <<numa, pcis, shelving>>
       \/ part = "shelving" /\ ShelvingNext /\ UNCHANGED <<numa, pcis, volumes>>
\* The fairness of the part's own specification.
HostSpec ==
    /\ HostInit /\ [][HostNext]_hostparts
    /\ \A r \in VolRequests : WF_volumes(part = "volumes" /\ VolumeStep(r))
    /\ \A r \in Threads : WF_shelving(part = "shelving" /\ Proceeds(r))
    /\ WF_shelving(part = "shelving" /\ PollMarks)
    /\ WF_shelving(part = "shelving" /\ ReapShelved)
=============================================================================
