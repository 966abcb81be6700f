---------------------------- MODULE FormControls ----------------------------
(***************************************************************************)
(* Controls of Fuel UX that stand in for what the browser has: a combobox  *)
(* (an input with a list), radio buttons and a check box behind icons      *)
(* (fuelux.js), and the pillbox with the pills the page adds to it         *)
(* (app.plugin.js).                                                        *)
(***************************************************************************)
EXTENDS Naturals, Sequences, SequencesExt

CONSTANTS
    ItemTexts,  \* of the list of the combobox, each once, none empty
    Words,      \* what may be typed, item or not
    Boxes,      \* the radio buttons of one group and the check box
    Disabled    \* those that are disabled, by the markup

(* The check box; the other boxes are the radio buttons. *)
CheckBox == "check"
RadioButtons == Boxes \ {CheckBox}

ASSUME FormControlsAssumption ==
    /\ "" \notin ItemTexts
    /\ CheckBox \in Boxes /\ Disabled \subseteq Boxes /\ RadioButtons \ Disabled # {}

VARIABLE
    form    \* input and selected (of the combobox; "none"), typing (a change event
            \* of the input is to come), checked (inputs of boxes), icons (lit, of
            \* boxes), greyed (icons), pills (their texts), pill (the input of it)

None == "none"
ComboboxTexts == ItemTexts \cup Words

FormTypeOK ==
    form \in [input : ComboboxTexts \cup {""}, selected : ItemTexts \cup {None}, typing : BOOLEAN,
              checked : SUBSET Boxes, icons : SUBSET Boxes, greyed : SUBSET Boxes,
              pills : Seq(Words), pill : Words \cup {""}]

(* The constructors of the boxes set their icons. *)
FormInit ==
    LET first == CHOOSE r \in RadioButtons : r \notin Disabled
    IN  form = [input |-> "", selected |-> None, typing |-> FALSE, checked |-> {first},
                icons |-> {first}, greyed |-> Disabled, pills |-> <<>>, pill |-> ""]

(* selectBySelector: no item, no selection, and the input is left alone. *)
SelectBySelector(f, text) ==
    IF text \in ItemTexts THEN [f EXCEPT !.selected = text, !.input = text]
                          ELSE [f EXCEPT !.selected = None]

(* itemclicked: the change event it triggers is marked, and skipped. *)
ComboboxItem(text) ==
    form' = [form EXCEPT !.selected = text, !.input = text, !.typing = FALSE]

ComboboxType(text) == form' = [form EXCEPT !.input = text, !.typing = TRUE]

(* inputchanged, when the input is left. *)
ComboboxChange ==
    /\ form.typing
    /\ form' = SelectBySelector([form EXCEPT !.typing = FALSE], form.input)

ResetGroup(r) == form.icons \ RadioButtons

(* The browser unchecks the others, without an event for them; then
   itemchecked of the one that is clicked. *)
RadioClick(r) ==
    /\ r \notin Disabled /\ r \notin form.checked
    /\ form' = [form EXCEPT !.checked = (@ \ RadioButtons) \cup {r},
                            !.icons = ResetGroup(r) \cup {r}]

(* itemchecked of the check box. *)
CheckBoxClick ==
    /\ CheckBox \notin Disabled
    /\ form' = [form EXCEPT !.checked = IF CheckBox \in @ THEN @ \ {CheckBox}
                                                          ELSE @ \cup {CheckBox},
                            !.icons = IF CheckBox \in form.checked THEN @ \ {CheckBox}
                                                                   ELSE @ \cup {CheckBox}]

PillType(word) == form' = [form EXCEPT !.pill = word]

PillRepeats == form.pill \in ToSet(form.pills)

(* addPill, on Enter or when its input is left, which keeps a repeated word. *)
PillAdd ==
    /\ form.pill # "" /\ ~PillRepeats
    /\ form' = [form EXCEPT !.pills = Append(@, form.pill), !.pill = ""]

PillClick(i) ==
    /\ i \in DOMAIN form.pills
    /\ form' = [form EXCEPT !.pills = RemoveAt(@, i)]

FormNext ==
    \/ (\E text \in ItemTexts : ComboboxItem(text))
    \/ (\E text \in ComboboxTexts : ComboboxType(text))
    \/ ComboboxChange
    \/ (\E r \in RadioButtons : RadioClick(r))
    \/ CheckBoxClick
    \/ (\E word \in Words : PillType(word))
    \/ PillAdd
    \/ (\E i \in 1 .. Len(form.pills) : PillClick(i))

FormSpec == FormInit /\ [][FormNext]_form

-----------------------------------------------------------------------------
(***************************************************************************)
(* What the combobox says is selected is what its input shows, once a      *)
(* change has been handled: typing a word that is no item takes the        *)
(* selection back, and a click does not count twice.                       *)
(***************************************************************************)
ComboboxAgrees ==
    ~form.typing => form.selected = (IF form.input \in ItemTexts THEN form.input ELSE None)

(***************************************************************************)
(* Icons show the boxes: one is lit iff its input is checked, though the   *)
(* browser sends no event for the radio button that a click unchecks; and  *)
(* exactly the disabled ones are grey.                                     *)
(***************************************************************************)
IconsAgree == form.icons = form.checked /\ form.greyed = Disabled

(* No pill is there twice, whichever were removed and added again. *)
PillsDiffer == \A i, j \in DOMAIN form.pills : i # j => form.pills[i] # form.pills[j]

(***************************************************************************)
(* The controls agree with the inputs they stand in for, and no pill is    *)
(* there twice.                                                            *)
(***************************************************************************)
FormSafe == ComboboxAgrees /\ IconsAgree /\ PillsDiffer

=============================================================================
