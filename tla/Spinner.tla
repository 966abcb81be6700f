------------------------------ MODULE Spinner ------------------------------
(***************************************************************************)
(* The spinner of Fuel UX (fuelux.js): a button held down steps the value, *)
(* then a timer does, until the button is released or left.  The timer     *)
(* that is set last can be cleared; one that was pending when another was  *)
(* set cannot (a press without a release before it, by another button of   *)
(* the mouse), and goes on.  How fast the timers are is left out.          *)
(***************************************************************************)
EXTENDS Integers, FiniteSetsExt

CONSTANTS
    SpinMin, SpinMax, SpinStep,
    Typed   \* numbers that may be typed, in the range or not

ASSUME SpinnerAssumption ==
    /\ SpinMin \in Int /\ SpinMax \in Int /\ SpinMin <= SpinMax
    /\ SpinStep \in Nat \ {0}
    /\ Typed \subseteq Int

Directions == {"up", "down"}

VARIABLE
    spinner     \* value (option and field), lastValue (triggered: {it}, or {}),
                \* timeout (direction of the pending timer that was set last, or
                \* "none"), lost (of one that was pending before it), fresh (count
                \* is 1), disabled, held (history: pressed and not released since),
                \* chorded (history: a press lost a timer, and none has ended since)

SpinnerTypeOK ==
    spinner \in [value : Int, lastValue : SUBSET Int, timeout : {"none"} \cup Directions,
                 lost : {"none"} \cup Directions, fresh : BOOLEAN, disabled : BOOLEAN,
                 held : BOOLEAN, chorded : BOOLEAN]

SpinnerInit ==
    spinner = [value |-> SpinMin, lastValue |-> {}, timeout |-> "none", lost |-> "none",
               fresh |-> TRUE, disabled |-> FALSE, held |-> FALSE, chorded |-> FALSE]

(* Mutant of StepOf: the last step is not cut. *)
StepOfUncut(value, up) ==
    IF up = "up" THEN (IF value < SpinMax THEN value + SpinStep ELSE value)
                 ELSE (IF value > SpinMin THEN value - SpinStep ELSE value)

(* step: towards the limit of its direction, and not beyond. *)
StepOf(value, up) ==
    IF up = "up" THEN (IF value < SpinMax THEN Min({value + SpinStep, SpinMax}) ELSE value)
                 ELSE (IF value > SpinMin THEN Max({value - SpinStep, SpinMin}) ELSE value)

Stepped(s, up) == [s EXCEPT !.value = StepOf(@, up)]

(* startSpin, bounded to one lost timer: a step at the first count, and a timer. *)
StartSpin(s, up) ==
    IF s.disabled THEN s
    ELSE [(IF s.fresh THEN Stepped(s, up) ELSE s)
          EXCEPT !.fresh = FALSE,
                 !.lost = IF s.timeout # "none" THEN s.timeout ELSE @,
                 !.timeout = up]

(* triggerChangedEvent: a value that was told is not told again. *)
Triggered(s) == [s EXCEPT !.lastValue = {s.value}]

(* A timer is pending, and another one will be set. *)
Loses == spinner.timeout # "none" /\ ~spinner.disabled

SpinPress(up) ==
    /\ spinner.timeout = "none" \/ spinner.lost = "none"
    /\ spinner' = StartSpin([spinner EXCEPT !.held = TRUE, !.chorded = @ \/ Loses], up)

StopSpin(s) == Triggered([s EXCEPT !.timeout = "none", !.fresh = TRUE])

(* The button is released, or the mouse leaves it; or both. *)
SpinRelease ==
    spinner' = StopSpin([spinner EXCEPT !.held = FALSE, !.chorded = @ /\ spinner.lost # "none"])

(* iterator, by the timer that can be cleared or by the lost one. *)
SpinIterate ==
    /\ spinner.timeout # "none"
    /\ spinner' = StartSpin(Stepped([spinner EXCEPT !.timeout = "none"], spinner.timeout),
                            spinner.timeout)

SpinIterateLost ==
    /\ spinner.lost # "none"
    /\ spinner' = StartSpin(Stepped([spinner EXCEPT !.lost = "none"], spinner.lost),
                            spinner.lost)

(* change: on a key, whatever number the field then holds. *)
SpinType(value) ==
    /\ ~spinner.disabled
    /\ spinner' = Triggered([spinner EXCEPT !.value = value])

SpinDisable == spinner' = [spinner EXCEPT !.disabled = TRUE]
SpinEnable == spinner' = [spinner EXCEPT !.disabled = FALSE]

SpinnerNext ==
    \/ \E up \in Directions : SpinPress(up)
    \/ SpinRelease \/ SpinIterate \/ SpinIterateLost
    \/ \E value \in Typed : SpinType(value)
    \/ SpinDisable \/ SpinEnable

SpinnerSpec == SpinnerInit /\ [][SpinnerNext]_spinner

-----------------------------------------------------------------------------
(***************************************************************************)
(* After a release nothing spins on, and the listeners know the value,     *)
(* unless a press had lost a timer: the lost one goes on after the release *)
(* and nobody is told, until a release comes while none is lost.           *)
(***************************************************************************)
SpinnerSettles ==
    (~spinner.held /\ ~spinner.chorded) =>
        /\ spinner.timeout = "none" /\ spinner.lost = "none"
        /\ spinner.lastValue \subseteq {spinner.value}

(***************************************************************************)
(* Only what is typed leaves the range: however long the buttons are held, *)
(* and by however many timers, steps end at the limits even if the step    *)
(* does not divide the range.                                              *)
(***************************************************************************)
SpinnerStaysInRange ==
    /\ spinner.value > SpinMax => \E value \in Typed : value >= spinner.value
    /\ spinner.value < SpinMin => \E value \in Typed : value <= spinner.value

(***************************************************************************)
(* The spinner: no timer is left behind, and no step leaves the range.     *)
(***************************************************************************)
SpinnerSafe == SpinnerSettles /\ SpinnerStaysInRange

=============================================================================
