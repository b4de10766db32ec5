----------------------------- MODULE MCScheduler -----------------------------
(* Values for the constants of Scheduler that a .cfg cannot write down. *)
EXTENDS SchedulerProperties

Post(delay, span, interval, prio) ==
    [delay |-> delay, span |-> span, interval |-> interval, prio |-> prio]

Patch(active, start, stop, interval) ==
    [active |-> active, start |-> start, stop |-> stop, interval |-> interval]

(* The shapes of entry the documentation distinguishes: run once, run      *)
(* periodically until stopped, run periodically for a while.               *)
MixedTemplates ==
    {Post(1, None, None, 10), Post(1, 2, 1, 10), Post(0, None, 2, 10)}

(* Run once, at two priorities. *)
TwoPriorities == {Post(1, None, None, 10), Post(1, None, None, 5)}

Periodic == {Post(1, None, 1, 10)}

OneShot == {Post(1, None, None, 10)}

NoPatches == {}

(* Switch an entry off and on. *)
Switch == {Patch(FALSE, Keep, Keep, Keep), Patch(TRUE, Keep, Keep, Keep)}

SwitchOff == {Patch(FALSE, Keep, Keep, Keep)}

(* Switch an entry off; switch it on with another start, stop and          *)
(* interval.                                                               *)
Edits == {Patch(FALSE, Keep, Keep, Keep), Patch(TRUE, 2, 4, None)}
==============================================================================
