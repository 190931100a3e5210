------------------------------ MODULE MCTimers ------------------------------
(* Timers for TLC: two identifiers, one other thread, a one-shot timer as  *)
(* winecord_timer makes it and an interval timer made stopped, to start.   *)
EXTENDS Timers

CONSTANTS i1, i2, t1

MCIds == {i1, i2}
MCThreads == {t1}

OneShot == [delay |-> 1, interval |-> 0, repeat |-> 0, fixed |-> FALSE,
            auto |-> TRUE, canceled |-> FALSE, delete |-> FALSE]
StoppedTimer == [delay |-> -1, interval |-> 1, repeat |-> 2,
                 fixed |-> TRUE, auto |-> FALSE, canceled |-> FALSE,
                 delete |-> FALSE]

MCShapes == {OneShot, StoppedTimer}
MCRepeats == {}
=============================================================================
