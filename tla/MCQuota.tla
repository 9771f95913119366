------------------------------ MODULE MCQuota ------------------------------
(* Instances of Quota for TLC: two users, instances counted per user and     *)
(* floating addresses counted for the project.                               *)
EXTENDS Quota, TLC

CONSTANTS alice, bob, nouser, inst, fip

MCUsers == {alice, bob}
MCResources == {inst, fip}
MCPerProject == {fip}
MCSyncWith == [r \in MCResources |-> {r}]

Boot == [r \in {inst} |-> 1]
BootAndAddress == [r \in {inst, fip} |-> 1]
Terminate == [r \in {inst} |-> -1]

MCDeltas == {Boot, BootAndAddress, Terminate}
BootDeltas == {Boot, BootAndAddress}

TwoEach == [r \in MCResources |-> 2]
OneEach == [r \in MCResources |-> 1]
Limits == [r \in MCResources |-> IF r = inst THEN 3 ELSE 2]

MCRows == {<<fip, nouser>>, <<inst, alice>>, <<inst, bob>>}
NoRecords == [w \in MCRows |-> 0]
SomeRecords == [w \in MCRows |-> IF w = <<inst, bob>> THEN 1 ELSE 0]

NoAdmin == {}
AllAdmin == {"usage_reset", "destroy_user", "destroy_project"}

Symmetry == Permutations(Ops)
=============================================================================
