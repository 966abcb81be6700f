------------------------------- MODULE Slider -------------------------------
(***************************************************************************)
(* The slider (bootstrap-slider.js), with one handle or, for a range, two. *)
(* A handle is at a distance from the least value, which the code keeps as *)
(* a percentage; positions of the mouse are such distances too.            *)
(***************************************************************************)
EXTENDS Integers, FiniteSetsExt

CONSTANTS
    SliderMin, SliderMax, SliderStep,
    Beyond   \* bound on how far the mouse goes beyond the ends

ASSUME SliderAssumption ==
    /\ SliderMin \in Int /\ SliderMax \in Int /\ SliderMin < SliderMax
    /\ SliderStep \in Nat \ {0}
    /\ Beyond \in Nat

Diff == SliderMax - SliderMin
Positions == (-Beyond) .. (Diff + Beyond)

VARIABLE
    slider  \* range (option), first and second (handles; without a range the second
            \* is one end of the selection), dragged (0 the first, 1 the second),
            \* inDrag, over (the mouse), tip (the tooltip is shown), value (a pair),
            \* tied (history: pressed, and not moved since, below two handles that
            \* were in one place)

SliderTypeOK ==
    slider \in [range : BOOLEAN, first : 0 .. Diff, second : 0 .. Diff, dragged : {0, 1},
                inDrag : BOOLEAN, over : BOOLEAN, tip : BOOLEAN, value : Int \X Int,
                tied : BOOLEAN]

(* Math.round of a fraction that is not negative. *)
Round(n, d) == (2 * n + d) \div (2 * d)

(* getPercentage: to a step, and between the ends, which need not be one. *)
Percentage(position) ==
    LET steps == IF position < 0 THEN 0 ELSE Round(position, SliderStep)
    IN  Min({Diff, steps * SliderStep})

(* calculateValue: without a range the second value stays. *)
CalculateValue(s) ==
    LET value(handle) == SliderMin + Round(handle, SliderStep) * SliderStep
    IN  [s EXCEPT !.value = <<value(s.first), IF s.range THEN value(s.second) ELSE @[2]>>]

(* A single handle, with the selection after it, or a range. *)
SliderInit ==
    \E range \in BOOLEAN :
        slider = [range |-> range, first |-> 0, second |-> Diff, dragged |-> 0,
                  inDrag |-> FALSE, over |-> FALSE, tip |-> FALSE,
                  value |-> <<SliderMin, SliderMax>>, tied |-> FALSE]

Distance(a, b) == IF a < b THEN b - a ELSE a - b

(* The handle that a press takes: the nearer one, or the second. *)
Nearer(p) ==
    IF slider.range /\ ~(Distance(slider.first, p) < Distance(slider.second, p)) THEN 1 ELSE 0

Placed(s, handle, p) ==
    IF handle = 0 THEN [s EXCEPT !.dragged = 0, !.first = p]
                  ELSE [s EXCEPT !.dragged = 1, !.second = p]

Tied(p) == slider.range /\ slider.first = slider.second /\ p < slider.first

(* mousedown; while dragging, too, if the button was released elsewhere. *)
SliderPress(position) ==
    LET p == Percentage(position)
    IN  /\ slider.over
        /\ slider' = CalculateValue(Placed([slider EXCEPT
                         !.inDrag = TRUE,
                         !.tied = @ \/ Tied(p)], Nearer(p), p))

(* Mutant of Dragged: handles do not change places. *)
DraggedOn(p) == Placed(slider, slider.dragged, p)

(* mousemove: a handle that is dragged past the other leaves that one
   there, and takes its place. *)
Dragged(p) ==
    CASE slider.range /\ slider.dragged = 0 /\ slider.second < p ->
             [slider EXCEPT !.first = slider.second, !.second = p, !.dragged = 1]
      [] slider.range /\ slider.dragged = 1 /\ slider.first > p ->
             [slider EXCEPT !.second = slider.first, !.first = p, !.dragged = 0]
      [] OTHER -> Placed(slider, slider.dragged, p)

SliderMove(position) ==
    /\ slider.inDrag
    /\ slider' = CalculateValue([Dragged(Percentage(position)) EXCEPT !.tied = FALSE])

SliderRelease ==
    /\ slider.inDrag
    /\ slider' = CalculateValue([slider EXCEPT !.inDrag = FALSE, !.tip = @ /\ slider.over])

SliderEnter == slider' = [slider EXCEPT !.tip = TRUE, !.over = TRUE]

SliderLeave == slider' = [slider EXCEPT !.tip = @ /\ slider.inDrag, !.over = FALSE]

SliderNext ==
    \/ \E position \in Positions : SliderPress(position)
    \/ \E position \in Positions : SliderMove(position)
    \/ SliderRelease \/ SliderEnter \/ SliderLeave

SliderSpec == SliderInit /\ [][SliderNext]_slider

-----------------------------------------------------------------------------
(***************************************************************************)
(* The handles of a range, and its values, stay in order, whichever handle *)
(* is taken and however far it is dragged past the other - unless a press  *)
(* below two handles in one place takes the second; any move mends that.   *)
(***************************************************************************)
SliderOrdered ==
    (slider.range /\ ~slider.tied) =>
        slider.first <= slider.second /\ slider.value[1] <= slider.value[2]

(***************************************************************************)
(* The tooltip is there while the mouse is over the slider or drags it,    *)
(* wherever it enters, leaves and releases the handle.                     *)
(***************************************************************************)
SliderTooltipFollows == slider.tip = (slider.over \/ slider.inDrag)

(***************************************************************************)
(* Values are in the range if the step divides it.  (If it does not, a     *)
(* handle at the end may be rounded to a value beyond the maximum.)        *)
(***************************************************************************)
SliderValueInRange ==
    Diff % SliderStep = 0 =>
        \A i \in {1, 2} : slider.value[i] >= SliderMin /\ slider.value[i] <= SliderMax

(***************************************************************************)
(* The slider: handles and values in order and in the range, and the       *)
(* tooltip where it belongs.                                               *)
(***************************************************************************)
SliderSafe == SliderOrdered /\ SliderTooltipFollows /\ SliderValueInRange

=============================================================================
