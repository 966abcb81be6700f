------------------------------ MODULE PieLoop ------------------------------
(***************************************************************************)
(* The pie chart of the page (app.plugin.js, jquery.easy-pie-chart.js):    *)
(* while it loops, the end of each animation sets a timer, and the timer   *)
(* starts the next animation.  Both look at the flag that a button         *)
(* toggles.  Values are random; how they are drawn is left out.            *)
(***************************************************************************)
EXTENDS Naturals

CONSTANT MaxUpdates   \* bound on the animations and timers at one time

ASSUME PieAssumption == MaxUpdates \in Nat \ {0}

VARIABLE
    pie     \* loop, animations (running), timers (pending), rushed (history: the
            \* loop was started while an animation or a timer was left of the last,
            \* and they have not all ended since)

PieTypeOK ==
    pie \in [loop : BOOLEAN, animations : 0 .. MaxUpdates, timers : 0 .. MaxUpdates,
             rushed : BOOLEAN]

Updates == pie.animations + pie.timers

(* The markup has loop on, and the constructor draws the first value. *)
PieInit == pie = [loop |-> TRUE, animations |-> 1, timers |-> 0, rushed |-> FALSE]

UpdatesOnToggle == IF pie.loop THEN 0 ELSE 1

PieToggle ==
    /\ Updates < MaxUpdates
    /\ pie' = [pie EXCEPT !.loop = ~@, !.animations = @ + UpdatesOnToggle,
                          !.rushed = @ \/ (~pie.loop /\ Updates > 0)]

(* Mutant of PieStop: the flag is not asked for, it is asked for later. *)
PieStopOnly ==
    /\ pie.animations > 0
    /\ pie' = [pie EXCEPT !.animations = @ - 1]

(* An update that finds the flag off is not followed by another. *)
LastUpdate == ~pie.loop /\ Updates = 1

(* onStop. *)
PieStop ==
    /\ pie.animations > 0
    /\ pie' = [pie EXCEPT !.animations = @ - 1, !.timers = IF pie.loop THEN @ + 1 ELSE @,
                          !.rushed = @ /\ ~LastUpdate]

PieTimer ==
    /\ pie.timers > 0
    /\ pie' = [pie EXCEPT !.timers = @ - 1, !.animations = IF pie.loop THEN @ + 1 ELSE @,
                          !.rushed = @ /\ ~LastUpdate]

PieNext == PieToggle \/ PieStop \/ PieTimer

PieSpec == PieInit /\ [][PieNext]_pie

-----------------------------------------------------------------------------
(***************************************************************************)
(* While the flag is on there is always an update to come, however the     *)
(* button is pressed between timers and animations; and there is never     *)
(* more than one, unless the loop is started again before the last one     *)
(* has noticed that it was stopped: then both go on, until the loop is     *)
(* stopped long enough for both to end.                                    *)
(***************************************************************************)
PieLoops ==
    /\ pie.loop => Updates >= 1
    /\ ~pie.rushed => Updates <= 1

=============================================================================
