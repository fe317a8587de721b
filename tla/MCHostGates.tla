---------------------------- MODULE MCHostGates ----------------------------
(* One sleep with a lock and a fault, and two sleeps without. *)
EXTENDS HostGates

MCBudgets == {[sleeps |-> 1, locks |-> 1, faults |-> 1],
              [sleeps |-> 2, locks |-> 0, faults |-> 0]}
=============================================================================
