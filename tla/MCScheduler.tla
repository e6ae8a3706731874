---------------------------- MODULE MCScheduler ----------------------------
(* Two nodes with three slots, two Targets of which the second only runs on *)
(* the second node, and observations that disagree with the grants.         *)
EXTENDS Scheduler

CONSTANTS e1, e2

Snapshot(admitted, memory, active, cached, excluded) ==
    [admitted |-> admitted, memory |-> memory, active |-> active, cached |-> cached,
     excluded |-> excluded]

MCMaxRunners == <<1, 2>>
MCCompatible == [t \in Targets |-> IF t = 1 THEN {2} ELSE Nodes]
MCMinMemory  == [t \in Targets |-> t]
MCSnapshots  ==
    {Snapshot(TRUE, 1, {}, {}, {}), Snapshot(TRUE, 2, {e1}, {0}, {}),
     Snapshot(TRUE, 1, {e1, e2}, {}, {1}), Snapshot(FALSE, 0, {e2}, {}, {})}
=============================================================================
