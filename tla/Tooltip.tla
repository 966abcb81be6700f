------------------------------ MODULE Tooltip ------------------------------
(***************************************************************************)
(* Bootstrap's tooltip (bootstrap.js) on one element, triggered by hover   *)
(* or focus, and by toggle, which is the trigger of a popover.  The tip    *)
(* fades out: it is detached by a callback waiting for its transition.     *)
(***************************************************************************)
EXTENDS Naturals

CONSTANTS
    DelayShow, DelayHide,   \* whether options.delay.show and .hide are set
    MaxFadeOuts             \* bound on the detach callbacks that wait

ASSUME TooltipAssumption ==
    DelayShow \in BOOLEAN /\ DelayHide \in BOOLEAN /\ MaxFadeOuts \in Nat \ {0}

VARIABLE
    tooltip   \* attached, in (class), timer (none, or what it calls), hoverState,
              \* fadeOuts (detach callbacks waiting on the tip), enabled,
              \* fade (class: it was shown before),
              \* wanted (history: the last event was an enter),
              \* muted (history: an enter met a disabled tooltip),
              \* hasty (history: last shown while a detach was waiting)

TooltipTypeOK ==
    tooltip \in [attached : BOOLEAN, in : BOOLEAN, timer : {"none", "show", "hide"},
                 hoverState : {"null", "in", "out"}, fadeOuts : 0 .. MaxFadeOuts,
                 enabled : BOOLEAN, fade : BOOLEAN, wanted : BOOLEAN,
                 muted : BOOLEAN, hasty : BOOLEAN]

TooltipInit ==
    tooltip = [attached |-> FALSE, in |-> FALSE, timer |-> "none", hoverState |-> "null",
               fadeOuts |-> 0, enabled |-> TRUE, fade |-> FALSE, wanted |-> FALSE,
               muted |-> FALSE, hasty |-> FALSE]

(* show: the tip is inserted again; a detach that waits on it stays. *)
ShowTip(t) ==
    IF t.enabled
    THEN [t EXCEPT !.attached = TRUE, !.in = TRUE, !.fade = TRUE, !.hasty = t.fadeOuts > 0]
    ELSE [t EXCEPT !.muted = TRUE]

(* hide: one that was never shown has no transition. *)
HideTip(t) ==
    IF t.fade
    THEN [t EXCEPT !.in = FALSE, !.fadeOuts = IF @ < MaxFadeOuts THEN @ + 1 ELSE @]
    ELSE [t EXCEPT !.in = FALSE, !.attached = FALSE]

(* Mutant of Enter: the timer of leave is not cleared. *)
EnterKeepsTimer(t) ==
    IF DelayShow
    THEN [t EXCEPT !.hoverState = "in", !.timer = "show", !.wanted = TRUE]
    ELSE ShowTip([t EXCEPT !.wanted = TRUE])

(* enter and leave: only with a delay is there a hoverState. *)
Enter(t) ==
    IF DelayShow
    THEN [t EXCEPT !.hoverState = "in", !.timer = "show", !.wanted = TRUE]
    ELSE ShowTip([t EXCEPT !.timer = "none", !.wanted = TRUE])

Leave(t) ==
    IF DelayHide
    THEN [t EXCEPT !.hoverState = "out", !.timer = "hide", !.wanted = FALSE]
    ELSE HideTip([t EXCEPT !.timer = "none", !.wanted = FALSE])

-----------------------------------------------------------------------------
TooltipEnter == tooltip' = Enter(tooltip)

TooltipLeave == tooltip' = Leave(tooltip)

(* A click on the element of a popover. *)
TooltipToggle == tooltip' = IF tooltip.in THEN Leave(tooltip) ELSE Enter(tooltip)

TooltipTimeout ==
    /\ tooltip.timer # "none"
    /\ LET t == [tooltip EXCEPT !.timer = "none"]
       IN tooltip' = CASE tooltip.timer = "show" /\ t.hoverState = "in"  -> ShowTip(t)
                       [] tooltip.timer = "hide" /\ t.hoverState = "out" -> HideTip(t)
                       [] OTHER -> t

(* The transition of the tip ends: it is detached, whatever it was for. *)
TooltipFadedOut ==
    /\ tooltip.fadeOuts > 0
    /\ tooltip' = [tooltip EXCEPT !.attached = FALSE, !.fadeOuts = 0]

TooltipToggleEnabled == tooltip' = [tooltip EXCEPT !.enabled = ~@]

TooltipNext ==
    \/ TooltipEnter \/ TooltipLeave \/ TooltipToggle \/ TooltipTimeout
    \/ TooltipFadedOut \/ TooltipToggleEnabled

TooltipFairness == WF_tooltip(TooltipTimeout) /\ WF_tooltip(TooltipFadedOut)

TooltipSpec == TooltipInit /\ [][TooltipNext]_tooltip /\ TooltipFairness

-----------------------------------------------------------------------------
(***************************************************************************)
(* When timers and transitions have ended, the tip is there iff the last   *)
(* event was an enter - so no timer of a leave hides it from under the     *)
(* pointer - unless it was last shown while it faded out: the detach that  *)
(* was waiting then removes the tip that is shown, until it is shown anew. *)
(***************************************************************************)
TooltipFollows ==
    (tooltip.timer = "none" /\ tooltip.fadeOuts = 0 /\ ~tooltip.hasty) =>
        /\ tooltip.attached = tooltip.in
        /\ tooltip.in => tooltip.wanted
        /\ tooltip.wanted => tooltip.in \/ tooltip.muted

(***************************************************************************)
(* A tip does not stay when everybody has left, hasty or not.              *)
(***************************************************************************)
TooltipDisappears ==
    (tooltip.attached /\ ~tooltip.wanted) ~> (~tooltip.attached \/ tooltip.wanted)

=============================================================================
