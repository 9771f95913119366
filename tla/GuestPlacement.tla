--------------------------- MODULE GuestPlacement ---------------------------
(***************************************************************************)
(* What live migration promises of an instance: its guest runs on one      *)
(* host; a move that was begun takes it to another host once, or leaves it *)
(* where it is; when the instance is given back to its user the row names  *)
(* the host the guest runs on; and only a delete makes the guest go away.  *)
(* nova/compute/manager.py has the many steps that come to this:           *)
(* LiveMigration is checked to implement it.                               *)
(***************************************************************************)
CONSTANTS Hosts, Nowhere

VARIABLES where,   \* the host the guest runs on, or Nowhere
          told,    \* the host the instance's row names
          busy     \* "no", "moving" or "deleting": the task of the instance
placement == <<where, told, busy>>

Init == where \in Hosts /\ told = where /\ busy = "no"

Begin == busy = "no" /\ busy' = "moving" /\ UNCHANGED <<where, told>>

\* The guest itself moves, once: afterwards the row names another host.
Move == /\ busy = "moving" /\ where = told
        /\ where' \in Hosts \ {where}
        /\ UNCHANGED <<told, busy>>

\* The task ends, the row naming the host of the guest.
Settle == /\ busy = "moving" /\ busy' = "no"
          /\ told' = where /\ UNCHANGED where

\* A delete takes precedence; a move under way may still finish before the
\* guest is gone.
Delete == busy' = "deleting" /\ UNCHANGED <<where, told>>
Vanish == /\ busy = "deleting" /\ where' \in Hosts \cup {Nowhere}
          /\ UNCHANGED <<told, busy>>

Next == Begin \/ Move \/ Settle \/ Delete \/ Vanish
Spec == Init /\ [][Next]_placement
=============================================================================
