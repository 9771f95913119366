------------------------------ MODULE FixedIps ------------------------------
(***************************************************************************)
(* Fixed addresses of nova-network, FlatDHCP or VLAN: who holds a row of   *)
(* fixed_ips from its association to its return to the pool.               *)
(* nova/network/manager.py gives an instance an address and takes it back  *)
(* (allocate_for_instance, deallocate_for_instance, the add and remove of  *)
(* one address), asks dnsmasq to release it, and is told by dnsmasq, with  *)
(* casts that no one orders, what was leased and released.  A periodic     *)
(* task disassociates what was left over.  The queries are those of        *)
(* nova/db/sqlalchemy/api.py.                                              *)
(*                                                                         *)
(* Handlers read a row and later write some of its columns by address;     *)
(* between the two others write.  Where a row is taken from an instance so,*)
(* the instance is put in "wronged": what the code promises is promised to *)
(* the others.                                                             *)
(***************************************************************************)
EXTENDS Integers, FiniteSets

CONSTANTS
    Addresses,
    Owners,        \* the instances, which also name their interfaces
    NoOwner,
    NoAddress,
    FixedIpMishaps, \* bound: failed requests and lost casts together
    MaxLeases      \* bound: leases that are taken

ASSUME FixedIpAssumption ==
    /\ NoOwner \notin Owners /\ NoAddress \notin Addresses
    /\ FixedIpMishaps \in Nat /\ MaxLeases \in Nat

VARIABLES
    ip,        \* fixed_ips: instance, virtual interface, allocated, leased
    vifs,      \* virtual_interfaces: the instances that have one
    nic,       \* each instance: the request about its address, and its copies
    told,      \* the address the instance was given
    lease,     \* dnsmasq: whose lease each address is
    leaseCasts,   \* casts of nova-dhcpbridge on their way
    handlers,  \* lease_fixed_ip and release_fixed_ip, their row read
    expired,   \* the rows the periodic task has listed
    wronged,   \* instances that lost a row to a handler that had read it before
    ipTroubles, \* counts what FixedIpMishaps bounds
    leases     \* and what MaxLeases bounds

fixedips == <<ip, vifs, nic, told, lease, leaseCasts, handlers, expired, wronged,
              ipTroubles, leases>>

Nic(pc) == [pc |-> pc, row |-> NoAddress, inst |-> NoOwner, vif |-> NoOwner,
            todo |-> {}, removes |-> FALSE, leased |-> FALSE]
Free == [inst |-> NoOwner, vif |-> NoOwner, allocated |-> FALSE, leased |-> FALSE]

FixedIpsInit ==
    /\ ip = [a \in Addresses |-> Free]
    /\ vifs = {}
    /\ nic = [o \in Owners |-> Nic("none")]
    /\ told = [o \in Owners |-> NoAddress]
    /\ lease = [a \in Addresses |-> NoOwner]
    /\ leaseCasts = {} /\ handlers = {} /\ expired = {} /\ wronged = {}
    /\ ipTroubles = 0 /\ leases = 0

IpMishap == ipTroubles < FixedIpMishaps /\ ipTroubles' = ipTroubles + 1

\* A write meant for the row as i had it, allocated or not, finds another's.
Overtaken(a, i, allocated) ==
    wronged' = IF /\ ip[a].inst # NoOwner
                  /\ ip[a].inst # i \/ (ip[a].allocated /\ ~allocated)
               THEN wronged \cup {ip[a].inst} ELSE wronged
\* fixed_ip_disassociate, by address: whoever has it.
Disassociated(a) == [ip EXCEPT ![a].inst = NoOwner, ![a].vif = NoOwner]
dhcp == <<lease, leaseCasts, handlers>>
bounds == <<ipTroubles, leases>>
-----------------------------------------------------------------------------
\* Which of those that have come equally far goes first makes no difference.
First(o, pc) == nic[o].pc = pc /\ o = CHOOSE u \in Owners : nic[u].pc = pc

\* The interface is there before the address is asked for: by
\* _allocate_mac_addresses.  Bound: an instance asks for one address.
AddVif(o) ==
    /\ First(o, "none")
    /\ vifs' = vifs \cup {o}
    /\ nic' = [nic EXCEPT ![o] = Nic("vif")]
    /\ UNCHANGED <<ip, told, dhcp, expired, wronged, bounds>>

Associated(a, o) ==
    [ip EXCEPT ![a].inst = o, ![a].vif = o, ![a].allocated = TRUE]

\* fixed_ip_associate_pool: the update says again that nobody has the row, and
\* is tried again when somebody does.
FromPool(o) ==
    /\ First(o, "vif")
    /\ \E a \in Addresses :
          /\ ip[a].inst = NoOwner
          /\ ip' = Associated(a, o)
          /\ nic' = [nic EXCEPT ![o] = [Nic("associated") EXCEPT !.row = a]]
    /\ UNCHANGED <<vifs, told, dhcp, expired, wronged, bounds>>

\* fixed_ip_associate: an address asked for by name.  The update does not say
\* again that nobody has it.
PickAddress(o) ==
    /\ First(o, "vif")
    /\ \E a \in Addresses :
          /\ ip[a].inst = NoOwner
          /\ nic' = [nic EXCEPT ![o] = [Nic("picked") EXCEPT !.row = a]]
    /\ UNCHANGED <<ip, vifs, told, dhcp, expired, wronged, bounds>>
TakePicked(o) ==
    /\ nic[o].pc = "picked"
    /\ LET a == nic[o].row
       IN /\ wronged' = wronged \cup ({ip[a].inst} \ {NoOwner})
          /\ ip' = Associated(a, o)
    /\ nic' = [nic EXCEPT ![o].pc = "associated"]
    /\ UNCHANGED <<vifs, told, dhcp, expired, bounds>>

\* The network is set up and the instance told.
AllocateEnds(o) ==
    /\ nic[o].pc = "associated"
    /\ told' = [told EXCEPT ![o] = nic[o].row]
    /\ nic' = [nic EXCEPT ![o] = Nic("up")]
    /\ UNCHANGED <<ip, vifs, dhcp, expired, wronged, bounds>>

\* No row is free, or anything raises: the clean-up takes the association back.
NoMoreFixedIps(o) ==
    /\ nic[o].pc = "vif" /\ \A a \in Addresses : ip[a].inst # NoOwner
    /\ nic' = [nic EXCEPT ![o] = Nic("failed")]
    /\ UNCHANGED <<ip, vifs, told, dhcp, expired, wronged, bounds>>
AllocateFails(o) ==
    /\ IpMishap /\ nic[o].pc = "associated"
    /\ LET a == nic[o].row
       IN /\ wronged' = wronged \cup ({ip[a].inst} \ {o, NoOwner})
          /\ ip' = Disassociated(a)
    /\ nic' = [nic EXCEPT ![o] = Nic("failed")]
    /\ UNCHANGED <<vifs, told, dhcp, expired, leases>>
-----------------------------------------------------------------------------
\* The guest boots: dnsmasq has the address for it, if the rows say so.
GuestLeases(o) ==
    LET a == told[o]
    IN /\ nic[o].pc = "up" /\ a # NoAddress
       /\ ip[a].inst = o /\ ip[a].allocated /\ lease[a] = NoOwner
       /\ lease' = [lease EXCEPT ![a] = o]
       /\ leases < MaxLeases /\ leases' = leases + 1
       /\ leaseCasts' = leaseCasts \cup {[kind |-> "add", row |-> a, mac |-> o]}
       /\ UNCHANGED <<ip, vifs, nic, told, handlers, expired, wronged, ipTroubles>>
\* It lets it go, or it is gone and the lease runs out.
LeaseEnds(a) ==
    /\ lease[a] # NoOwner
    /\ leaseCasts' = leaseCasts \cup {[kind |-> "del", row |-> a, mac |-> lease[a]]}
    /\ lease' = [lease EXCEPT ![a] = NoOwner]
    /\ UNCHANGED <<ip, vifs, nic, told, handlers, expired, wronged, bounds>>

\* Casts are served at once and in any order, or lost.
LoseCast(m) ==
    /\ IpMishap /\ leaseCasts' = leaseCasts \ {m}
    /\ UNCHANGED <<ip, vifs, nic, told, lease, handlers, expired, wronged, leases>>
ServeCast(m) ==
    /\ leaseCasts' = leaseCasts \ {m}
    /\ handlers' = IF ip[m.row].inst = NoOwner THEN handlers
                   ELSE handlers \cup {[cast |-> m, copy |-> ip[m.row], pc |-> "read"]}
    /\ UNCHANGED <<ip, vifs, nic, told, lease, expired, wronged, bounds>>

\* lease_fixed_ip
Leased(h) ==
    /\ h.cast.kind = "add"
    /\ ip' = [ip EXCEPT ![h.cast.row].leased = TRUE]
    /\ handlers' = handlers \ {h}
    /\ UNCHANGED <<vifs, nic, told, lease, leaseCasts, expired, wronged, bounds>>
\* release_fixed_ip
\* Mutant of Released: a row that is allocated is let go as well.
ReleasedAllocated(h) ==
    /\ h.cast.kind = "del" /\ h.pc = "read"
    /\ ip' = IF h.copy.leased THEN [ip EXCEPT ![h.cast.row].leased = FALSE] ELSE ip
    /\ handlers' = (handlers \ {h}) \cup {[h EXCEPT !.pc = "saved"]}
    /\ UNCHANGED <<vifs, nic, told, lease, leaseCasts, expired, wronged, bounds>>
Released(h) ==
    /\ h.cast.kind = "del" /\ h.pc = "read"
    /\ ip' = IF h.copy.leased THEN [ip EXCEPT ![h.cast.row].leased = FALSE] ELSE ip
    /\ handlers' = (handlers \ {h})
           \cup (IF h.copy.allocated THEN {} ELSE {[h EXCEPT !.pc = "saved"]})
    /\ UNCHANGED <<vifs, nic, told, lease, leaseCasts, expired, wronged, bounds>>
\* Its interface is not another instance's than the row said: the row goes.
ReleaseDisassociates(h) ==
    /\ h.pc = "saved"
    /\ IF h.cast.mac \in vifs \ {h.copy.inst}
       THEN UNCHANGED <<ip, wronged>>
       ELSE /\ ip' = Disassociated(h.cast.row)
            /\ Overtaken(h.cast.row, h.copy.inst, h.copy.allocated)
    /\ handlers' = handlers \ {h}
    /\ UNCHANGED <<vifs, nic, told, lease, leaseCasts, expired, bounds>>
-----------------------------------------------------------------------------
\* deallocate_for_instance: the instance is being deleted, its guest gone.
DeallocateBegins(o) ==
    /\ nic[o].pc \in {"up", "bare", "failed"}
    /\ told' = [told EXCEPT ![o] = NoAddress]
    /\ nic' = [nic EXCEPT ![o] = [Nic("listed") EXCEPT
                  !.todo = {a \in Addresses : ip[a].inst = o}]]
    /\ UNCHANGED <<ip, vifs, dhcp, expired, wronged, bounds>>
\* remove_fixed_ip_from_instance
RemoveFixedIp(o) ==
    LET a == told[o]
    IN /\ nic[o].pc = "up" /\ a # NoAddress /\ ip[a].inst = o
       /\ told' = [told EXCEPT ![o] = NoAddress]
       /\ nic' = [nic EXCEPT ![o] = [Nic("listed") EXCEPT
                     !.todo = {a}, !.removes = TRUE, !.leased = ip[a].leased,
                     !.row = a]]
       /\ UNCHANGED <<ip, vifs, dhcp, expired, wronged, bounds>>

\* deallocate_fixed_ip.  A row that nobody has any more has no instance whose
\* security groups to refresh: it raises.
CopyRow(o) ==
    /\ nic[o].pc = "listed"
    /\ \E a \in nic[o].todo :
          nic' = [nic EXCEPT ![o] =
              IF ip[a].inst = NoOwner THEN Nic("failed")
              ELSE [@ EXCEPT !.pc = "copied", !.row = a, !.todo = nic[o].todo \ {a},
                             !.inst = ip[a].inst, !.vif = ip[a].vif]]
    /\ UNCHANGED <<ip, vifs, told, dhcp, expired, wronged, bounds>>
\* The row is saved, and with its interface at hand release_dhcp makes dnsmasq
\* give up the lease and say so.
LetGo(o) ==
    LET a == nic[o].row
    IN /\ nic[o].pc = "copied"
       /\ wronged' = wronged \cup ({ip[a].inst} \ {o, NoOwner})
       /\ ip' = [ip EXCEPT ![a].allocated = FALSE, ![a].vif = NoOwner]
       /\ nic' = [nic EXCEPT ![o].pc = IF nic[o].vif \in vifs THEN "sent" ELSE "listed"]
       /\ IF lease[a] = nic[o].vif /\ lease[a] \in vifs
          THEN /\ lease' = [lease EXCEPT ![a] = NoOwner]
               /\ leaseCasts' = leaseCasts
                      \cup {[kind |-> "del", row |-> a, mac |-> nic[o].vif]}
          ELSE UNCHANGED <<lease, leaseCasts>>
       /\ UNCHANGED <<vifs, told, handlers, expired, bounds>>
\* Never leased, or released by now: no message will free it.
ReadAgain(o) ==
    LET row == ip[nic[o].row]
    IN /\ nic[o].pc = "sent"
       /\ nic' = [nic EXCEPT ![o].pc =
              IF row.inst = nic[o].inst /\ ~row.leased THEN "unleased" ELSE "listed"]
       /\ UNCHANGED <<ip, vifs, told, dhcp, expired, wronged, bounds>>
DisassociateIdle(o) ==
    /\ nic[o].pc = "unleased"
    /\ ip' = Disassociated(nic[o].row) /\ Overtaken(nic[o].row, nic[o].inst, FALSE)
    /\ nic' = [nic EXCEPT ![o].pc = "listed"]
    /\ UNCHANGED <<vifs, told, dhcp, expired, bounds>>

\* All are done.  A removal disassociates once more what was not leased when
\* it began; a deallocation drops the interfaces.
RemoveEnds(o) ==
    /\ nic[o].pc = "listed" /\ nic[o].todo = {} /\ nic[o].removes
    /\ IF nic[o].leased THEN UNCHANGED <<ip, wronged>>
       ELSE ip' = Disassociated(nic[o].row) /\ Overtaken(nic[o].row, o, FALSE)
    /\ nic' = [nic EXCEPT ![o] = Nic("bare")]
    /\ UNCHANGED <<vifs, told, dhcp, expired, bounds>>
DeallocateEnds(o) ==
    /\ nic[o].pc = "listed" /\ nic[o].todo = {} /\ ~nic[o].removes
    /\ vifs' = vifs \ {o}
    /\ nic' = [nic EXCEPT ![o] = Nic("gone")]
    /\ UNCHANGED <<ip, told, dhcp, expired, wronged, bounds>>
DeallocateFails(o) ==
    /\ IpMishap /\ nic[o].pc \in {"copied", "sent"}
    /\ nic' = [nic EXCEPT ![o] = Nic("failed")]
    /\ UNCHANGED <<ip, vifs, told, dhcp, expired, wronged, leases>>
-----------------------------------------------------------------------------
\* _disassociate_stale_fixed_ips: rows that were let go and not written for
\* fixed_ip_disassociate_timeout, longer than any handler takes.
Untouched(a) ==
    /\ \A o \in Owners : nic[o].row # a /\ a \notin nic[o].todo
    /\ \A h \in handlers : h.cast.row # a
Stale == {a \in Addresses : ip[a].inst # NoOwner /\ ~ip[a].allocated /\ Untouched(a)}
\* Mutant of ListStale: the rows that were leased.
ListStaleLeased ==
    LET rows == {a \in Stale : ip[a].leased}
    IN /\ expired = {} /\ rows # {} /\ expired' = rows
       /\ UNCHANGED <<ip, vifs, nic, told, dhcp, wronged, bounds>>
ListStale ==
    /\ expired = {} /\ Stale # {} /\ expired' = Stale
    /\ UNCHANGED <<ip, vifs, nic, told, dhcp, wronged, bounds>>
FreeStale ==
    /\ expired # {} /\ expired' = {}
    /\ ip' = [a \in Addresses |->
           IF a \in expired THEN [ip[a] EXCEPT !.inst = NoOwner, !.leased = FALSE]
                            ELSE ip[a]]
    /\ wronged' = wronged \cup
           {ip[a].inst : a \in {b \in expired : ip[b].inst # NoOwner /\ ip[b].allocated}}
    /\ UNCHANGED <<vifs, nic, told, dhcp, bounds>>
-----------------------------------------------------------------------------
\* Bound: nothing new begins once an instance was wronged.
Asks(o) == wronged = {} /\ (AddVif(o) \/ DeallocateBegins(o) \/ RemoveFixedIp(o))
Allocates(o) ==
    \/ FromPool(o) \/ PickAddress(o) \/ TakePicked(o) \/ NoMoreFixedIps(o)
    \/ AllocateEnds(o)
Deallocates(o) ==
    \/ CopyRow(o) \/ LetGo(o) \/ ReadAgain(o)
    \/ DisassociateIdle(o) \/ RemoveEnds(o) \/ DeallocateEnds(o)
Handles(h) == Leased(h) \/ Released(h) \/ ReleaseDisassociates(h)
TimesOut == ListStale \/ FreeStale

FixedIpsNext ==
    \/ \E o \in Owners :
          \/ Asks(o) \/ Allocates(o) \/ AllocateFails(o)
          \/ GuestLeases(o) \/ Deallocates(o) \/ DeallocateFails(o)
    \/ \E a \in Addresses : LeaseEnds(a)
    \/ \E m \in leaseCasts : ServeCast(m) \/ LoseCast(m)
    \/ \E h \in handlers : Handles(h)
    \/ TimesOut

\* Requests that have begun go on, handlers end, the periodic task comes back.
FixedIpsSpec ==
    /\ FixedIpsInit /\ [][FixedIpsNext]_fixedips
    /\ \A o \in Owners : WF_fixedips(Allocates(o)) /\ WF_fixedips(Deallocates(o))
    /\ WF_fixedips(\E h \in handlers : Handles(h))
    /\ WF_fixedips(TimesOut)
-----------------------------------------------------------------------------
NicSteps == {"none", "vif", "picked", "associated", "up", "bare", "failed",
             "listed", "copied", "sent", "unleased", "gone"}
Rows == [inst : Owners \cup {NoOwner}, vif : Owners \cup {NoOwner},
         allocated : BOOLEAN, leased : BOOLEAN]
Nics == [pc : NicSteps, row : Addresses \cup {NoAddress},
         inst : Owners \cup {NoOwner}, vif : Owners \cup {NoOwner},
         todo : SUBSET Addresses, removes : BOOLEAN, leased : BOOLEAN]
Casts == [kind : {"add", "del"}, row : Addresses, mac : Owners]
FixedIpsTypeOK ==
    /\ ip \in [Addresses -> Rows] /\ vifs \subseteq Owners
    /\ nic \in [Owners -> Nics]
    /\ told \in [Owners -> Addresses \cup {NoAddress}]
    /\ lease \in [Addresses -> Owners \cup {NoOwner}]
    /\ leaseCasts \subseteq Casts
    /\ handlers \subseteq [cast : Casts, copy : Rows, pc : {"read", "saved"}]
    /\ expired \subseteq Addresses /\ wronged \subseteq Owners
    /\ ipTroubles \in 0..FixedIpMishaps /\ leases \in 0..MaxLeases

\* The row of an address says which instance uses it, as long as it does: late
\* and reordered messages about earlier holders, failed and repeated requests
\* and the time-out take it from nobody who is using it, handlers that were
\* overtaken between their read and their write excepted.
HolderHasRow ==
    \A o \in Owners :
        (told[o] # NoAddress /\ o \notin wronged)
            => ip[told[o]].inst = o /\ ip[told[o]].allocated

\* An address that was let go is given back to the pool, whichever message was
\* lost and wherever the request failed.
AddressComesBack ==
    \A a \in Addresses :
        (ip[a].inst # NoOwner /\ ~ip[a].allocated)
            ~> (ip[a].inst = NoOwner \/ ip[a].allocated)
=============================================================================
