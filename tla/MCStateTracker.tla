--------------------------- MODULE MCStateTracker ---------------------------
(***************************************************************************)
(* Scenarios of the model-checking runs of StateTracker: each bounds what  *)
(* the environment does, so that one run covers the slots, the inventory   *)
(* and the Datalink views without their product.                           *)
(***************************************************************************)
EXTENDS StateTracker

Scenario(discover, asks, announcements, triggers, errors, lost, bytes) ==
    [discover |-> discover, query |-> asks, world |-> announcements,
     triggers |-> triggers, errors |-> errors, lost |-> lost, bytes |-> bytes]

\* Announcements alone; sweeps during traffic, with a trigger and an error, with
\* a lost answer; the startup query with a lost answer; bytes.
DaemonScenarios ==
    {Scenario(0, 0, 3, 0, 1, 0, 0),
     Scenario(1, 0, 1, 0, 0, 0, 0), Scenario(1, 0, 0, 1, 1, 0, 0), Scenario(1, 0, 0, 0, 0, 1, 0),
     Scenario(0, 1, 1, 0, 0, 1, 0),
     Scenario(0, 0, 1, 0, 1, 0, 2)}

Order == <<"n1", "vm", "am">>

=============================================================================
