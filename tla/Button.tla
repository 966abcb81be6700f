------------------------------- MODULE Button -------------------------------
(***************************************************************************)
(* Bootstrap's buttons (bootstrap.js).  setState changes the text at once  *)
(* and the disabled attribute in a timer of 0 ms; timers of 0 ms run in    *)
(* the order they were set.  toggle is for groups of radio buttons.        *)
(***************************************************************************)
EXTENDS Naturals, Sequences

CONSTANTS
    MaxStates,  \* bound on the timers that run
    NumRadios

ASSUME ButtonAssumption == MaxStates \in Nat \ {0} /\ NumRadios \in Nat \ {0}

(* "other" is any further state, with a data-other-text on the button. *)
ButtonState == {"loading", "reset", "other"}

VARIABLE
    button   \* text (what it shows: the original or that of a state), resetText
             \* (as saved in data), disabled, timers, last (history: last state),
             \* active (class) and checked (inputs) of a group of radio buttons,
             \* again (history: the active one was clicked)

ButtonText == {"original", "loading", "other"}

ButtonTypeOK ==
    button \in [text : ButtonText, resetText : {"none"} \cup ButtonText, disabled : BOOLEAN,
                timers : Seq(ButtonState), last : {"none"} \cup ButtonState,
                active : SUBSET (1 .. NumRadios), checked : SUBSET (1 .. NumRadios),
                again : BOOLEAN]

ButtonInit ==
    button = [text |-> "original", resetText |-> "none", disabled |-> FALSE,
              timers |-> <<>>, last |-> "none", active |-> {}, checked |-> {}, again |-> FALSE]

(* The text to come back to is saved once. *)
ResetText == IF button.resetText = "none" THEN button.text ELSE button.resetText

ButtonSetState(state) ==
    /\ Len(button.timers) < MaxStates
    /\ button' = [button EXCEPT !.resetText = ResetText,
                                !.text = IF state = "reset" THEN ResetText ELSE state,
                                !.timers = Append(@, state),
                                !.last = state]

ButtonTimer ==
    /\ button.timers # <<>>
    /\ button' = [button EXCEPT !.disabled = Head(button.timers) = "loading",
                                !.timers = Tail(@)]

(* toggle of a radio button: its input is checked iff it was not active,
   but it is active afterwards in any case. *)
ButtonToggle(r) ==
    button' = [button EXCEPT !.checked = IF r \in button.active THEN @ \ {r} ELSE {r},
                             !.active = {r},
                             !.again = @ \/ r \in button.active]

ButtonNext ==
    \/ \E state \in ButtonState : ButtonSetState(state)
    \/ ButtonTimer
    \/ \E r \in 1 .. NumRadios : ButtonToggle(r)

ButtonSpec == ButtonInit /\ [][ButtonNext]_button /\ WF_button(ButtonTimer)

-----------------------------------------------------------------------------
(***************************************************************************)
(* Text and attribute tell the same state once the timers have run: after  *)
(* any sequence of states a button is disabled iff the last was loading,   *)
(* and reset brings back the text it had before the first.                 *)
(***************************************************************************)
ButtonTellsState ==
    /\ button.timers = <<>> => button.disabled = (button.last = "loading")
    /\ button.last \in {"none", "reset"} => button.text = "original"

(***************************************************************************)
(* In a group of radio buttons what is highlighted is what is submitted,   *)
(* unless the active button is clicked again: that unchecks its input but  *)
(* leaves it active.                                                       *)
(***************************************************************************)
ButtonGroupAgrees == ~button.again => button.active = button.checked

(***************************************************************************)
(* The buttons: text, attribute, class and input agree, as said above.     *)
(***************************************************************************)
ButtonSafe == ButtonTellsState /\ ButtonGroupAgrees

=============================================================================
