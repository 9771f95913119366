--------------------------- MODULE MCComputeParts ---------------------------
(* Five parts of the compute service that share no state, for TLC: each    *)
(* behaviour is one of the part chosen at the start.                       *)
EXTENDS Evacuation, ServerGroup, InstanceEvents, Discovery, FixedIps
CONSTANTS i1, i2, i3
VARIABLE part

TwoBoots == {{i1}, {i2, i3}}

parts == <<part, evacuation, group, events, discovery, fixedips>>
PartsInit ==
    /\ part \in {"evacuation", "group", "events", "discovery", "addresses"}
    /\ EvacuationInit /\ GroupInit /\ EventsInit /\ DiscoveryInit
    /\ FixedIpsInit
    /\ part # "evacuation" => onShared
PartsNext ==
    /\ UNCHANGED part
    /\ \/ /\ part = "evacuation" /\ EvacuationNext
          /\ UNCHANGED <<group, events, discovery, fixedips>>
       \/ /\ part = "group" /\ GroupNext
          /\ UNCHANGED <<evacuation, events, discovery, fixedips>>
       \/ /\ part = "events" /\ EventsNext
          /\ UNCHANGED <<evacuation, group, discovery, fixedips>>
       \/ /\ part = "discovery" /\ DiscoveryNext
          /\ UNCHANGED <<evacuation, group, events, fixedips>>
       \/ /\ part = "addresses" /\ FixedIpsNext
          /\ UNCHANGED <<evacuation, group, events, discovery>>
\* The fairness of the part's own specification.
PartsSpec ==
    /\ PartsInit /\ [][PartsNext]_parts
    /\ WF_evacuation(part = "evacuation" /\ Rebuilding)
    /\ WF_evacuation(part = "evacuation" /\ Returning)
    /\ WF_evacuation(part = "evacuation" /\ DestReturns)
    /\ \A R \in Requests : WF_group(part = "group" /\ Schedules(R))
    /\ \A i \in Members : WF_group(part = "group" /\ Builds(i))
    /\ \A p \in Plugs : WF_events(part = "events" /\ Proceeds(p))
    /\ WF_discovery(part = "discovery" /\ Seeks)
    /\ SF_discovery(part = "discovery" /\ Purges)
    /\ WF_discovery(part = "discovery" /\ Conducts)
    /\ \A g \in Guests : WF_discovery(part = "discovery" /\ Goes(g))
    /\ \A o \in Owners : /\ WF_fixedips(part = "addresses" /\ Allocates(o))
                        /\ WF_fixedips(part = "addresses" /\ Deallocates(o))
    /\ WF_fixedips(part = "addresses" /\ \E h \in handlers : Handles(h))
    /\ WF_fixedips(part = "addresses" /\ TimesOut)

\* The state of every part is of its type.
PartsTypeOK == EvacuationTypeOK /\ GroupTypeOK /\ EventsTypeOK /\ DiscoveryTypeOK
               /\ FixedIpsTypeOK

\* What one part begins ends: a rebuild that was started, every build that was
\* scheduled, and the way of an address that was let go back to the pool.
BegunEnds == RebuildEnds /\ BuildsEnd /\ AddressComesBack
=============================================================================
