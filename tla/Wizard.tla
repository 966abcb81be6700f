------------------------------- MODULE Wizard -------------------------------
(***************************************************************************)
(* The wizard of Fuel UX (fuelux.js) behind the buttons of the page, whose *)
(* handler validates the form of the step before it calls the wizard       *)
(* (app.plugin.js).  Whether the form of a step is valid is up to the      *)
(* user, and can change only while its pane is shown.                      *)
(***************************************************************************)
EXTENDS Naturals

CONSTANTS
    NumSteps,
    RequiredSteps  \* those whose first field is required: the others are not validated

ASSUME WizardAssumption == NumSteps \in Nat \ {0} /\ RequiredSteps \subseteq 1 .. NumSteps

WizardSteps == 1 .. NumSteps

VARIABLE
    wizard   \* currentStep, complete and active (classes of the steps), pane
             \* (shown), valid (forms), prevOff (the previous button is disabled),
             \* finished (history: for which valid forms it was triggered)

WizardTypeOK ==
    wizard \in [currentStep : WizardSteps, complete : SUBSET WizardSteps,
                active : SUBSET WizardSteps, pane : WizardSteps, valid : SUBSET WizardSteps,
                prevOff : BOOLEAN, finished : SUBSET SUBSET WizardSteps]

(* As in the markup: the constructor does not call setState. *)
WizardInit ==
    wizard = [currentStep |-> 1, complete |-> {}, active |-> {1}, pane |-> 1,
              valid |-> WizardSteps \ RequiredSteps, prevOff |-> TRUE, finished |-> {}]

(* Mutant of Moved: steps stay complete when the wizard goes back. *)
MovedKeeps(w, step) ==
    [w EXCEPT !.currentStep = step, !.complete = @ \cup (1 .. (step - 1)),
              !.active = {step}, !.pane = step]

(* currentStep assigned, and setState. *)
Moved(w, step) ==
    [w EXCEPT !.currentStep = step, !.complete = 1 .. (step - 1),
              !.active = {step}, !.pane = step]

Validated(step) == step \in RequiredSteps => step \in wizard.valid

(* next, at the last step, has nowhere to move and triggers finished. *)
WizardNextStep ==
    /\ Validated(wizard.currentStep)
    /\ wizard' = [(IF wizard.currentStep < NumSteps
                   THEN Moved(wizard, wizard.currentStep + 1)
                   ELSE [wizard EXCEPT !.finished = @ \cup {wizard.valid}])
                  EXCEPT !.prevOff = FALSE]

(* previous validates as well: a step with an invalid form is not left
   by the buttons. *)
WizardPreviousStep ==
    /\ ~wizard.prevOff
    /\ Validated(wizard.currentStep)
    /\ wizard' = [(IF wizard.currentStep > 1 THEN Moved(wizard, wizard.currentStep - 1)
                                             ELSE wizard)
                  EXCEPT !.prevOff = (wizard.currentStep - 1 = 1)]

(* stepclicked: steps that are complete lead back to them; the button of
   the page is not told. *)
WizardStepClicked(step) ==
    /\ step \in wizard.complete
    /\ wizard' = Moved(wizard, step)

(* The user edits the form of the pane that is shown. *)
WizardEdit ==
    /\ wizard.pane \in RequiredSteps
    /\ wizard' = [wizard EXCEPT !.valid = IF wizard.pane \in @ THEN @ \ {wizard.pane}
                                                               ELSE @ \cup {wizard.pane}]

WizardNext ==
    \/ WizardNextStep \/ WizardPreviousStep
    \/ \E step \in WizardSteps : WizardStepClicked(step)
    \/ WizardEdit

WizardSpec == WizardInit /\ [][WizardNext]_wizard

-----------------------------------------------------------------------------
(***************************************************************************)
(* A step that is complete is valid, even if the user went back by the     *)
(* badges, made a form invalid and came forward again; and finished is     *)
(* triggered only for a wizard that is valid as a whole.                   *)
(***************************************************************************)
WizardCompleteIsValid ==
    /\ wizard.complete \subseteq wizard.valid
    /\ \A valid \in wizard.finished : valid = WizardSteps

(***************************************************************************)
(* Badges and pane tell where the wizard is: exactly the steps before the  *)
(* current one are complete, its pane is the one shown; and the button     *)
(* back is never disabled where there is a step to go back to.             *)
(***************************************************************************)
WizardTellsStep ==
    /\ wizard.complete = 1 .. (wizard.currentStep - 1)
    /\ wizard.active = {wizard.currentStep} /\ wizard.pane = wizard.currentStep
    /\ wizard.prevOff => wizard.currentStep = 1

(***************************************************************************)
(* The wizard: what is complete is valid, and what is shown is where it    *)
(* is.                                                                     *)
(***************************************************************************)
WizardSafe == WizardCompleteIsValid /\ WizardTellsStep

=============================================================================
