------------------------------ MODULE Dropdown ------------------------------
(***************************************************************************)
(* Bootstrap's dropdown menus (bootstrap.js), their keyboard, and the      *)
(* selection that app.js adds to them: items with radio buttons or check   *)
(* boxes, and a label that tells what is checked.  (A click on the input   *)
(* itself changes nothing: the handler undoes what the browser did, or the *)
(* browser what the handler prevented.)                                    *)
(***************************************************************************)
EXTENDS Integers, FiniteSets

CONSTANTS
    NumMenus,
    NumChoices,
    Radios,             \* the menus of radio buttons; the first item is checked
    DisabledChoices     \* items whose input is disabled

ASSUME DropdownAssumption ==
    /\ NumMenus \in Nat \ {0}
    /\ NumChoices \in Nat \ {0}
    /\ Radios \subseteq 1 .. NumMenus
    /\ DisabledChoices \subseteq 2 .. NumChoices

Menu == 1 .. NumMenus
Choice == 1 .. NumChoices

VARIABLE
    dropdown    \* by menu: open, focus (index of the item, -1: none), checked
                \* (inputs), active (li), label (the items it tells)

DropdownTypeOK ==
    dropdown \in [open : [Menu -> BOOLEAN], focus : [Menu -> -1 .. (NumChoices - 1)],
                  checked : [Menu -> SUBSET Choice], active : [Menu -> SUBSET Choice],
                  label : [Menu -> SUBSET Choice]]

DropdownInit ==
    LET first == [m \in Menu |-> IF m \in Radios THEN {1} ELSE {}]
    IN  dropdown = [open |-> [m \in Menu |-> FALSE], focus |-> [m \in Menu |-> -1],
                    checked |-> first, active |-> first, label |-> first]

-----------------------------------------------------------------------------
(* clearMenus; what is hidden loses the focus. *)
ClearMenus(d) ==
    [d EXCEPT !.open = [m \in Menu |-> FALSE], !.focus = [m \in Menu |-> -1]]

(* toggle: the focus goes to the button. *)
ToggleMenu(m) ==
    dropdown' = [ClearMenus(dropdown) EXCEPT !.open[m] = ~dropdown.open[m]]

DropdownToggle(m) == ToggleMenu(m)

(* A click anywhere else. *)
DropdownClear == dropdown' = ClearMenus(dropdown)

(* Escape, or any of the keys when the menu is closed, clicks the button. *)
DropdownKeyClicks(m, key) ==
    /\ ~dropdown.open[m] \/ key = "esc"
    /\ ToggleMenu(m)

DropdownUp(m) ==
    /\ dropdown.open[m]
    /\ dropdown' = [dropdown EXCEPT !.focus[m] = IF @ > 0 THEN @ - 1 ELSE 0]

DropdownDown(m) ==
    /\ dropdown.open[m]
    /\ dropdown' = [dropdown EXCEPT !.focus[m] = IF @ < NumChoices - 1 THEN @ + 1 ELSE @]

(* Mutant of Highlighted: radio buttons are treated as check boxes. *)
HighlightedAll(m, i) ==
    (dropdown.active[m] \ {i}) \cup ({i} \ dropdown.checked[m])

(* The items highlighted after i is chosen: of radio buttons i alone. *)
Highlighted(m, i) ==
    (IF m \in Radios THEN {} ELSE dropdown.active[m] \ {i})
        \cup ({i} \ dropdown.checked[m])

(* The inputs checked then; the browser keeps one radio button checked. *)
Checked(m, i) ==
    CASE m \in Radios                                     -> {i}
      [] m \notin Radios /\ i \in dropdown.checked[m]     -> dropdown.checked[m] \ {i}
      [] m \notin Radios /\ i \notin dropdown.checked[m]  -> dropdown.checked[m] \cup {i}

(* change: a click on the text of an item, which also clears the menus. *)
DropdownChange(m, i) ==
    /\ dropdown.open[m]
    /\ i \notin DisabledChoices
    /\ ~(m \in Radios /\ i \in dropdown.checked[m])
    /\ dropdown' = [ClearMenus(dropdown) EXCEPT !.checked[m] = Checked(m, i),
                                                !.label[m] = Checked(m, i),
                                                !.active[m] = Highlighted(m, i)]

DropdownNext ==
    \/ \E m \in Menu : DropdownToggle(m) \/ DropdownUp(m) \/ DropdownDown(m)
    \/ \E m \in Menu, key \in {"up", "down", "esc"} : DropdownKeyClicks(m, key)
    \/ \E m \in Menu, i \in Choice : DropdownChange(m, i)
    \/ DropdownClear

DropdownSpec == DropdownInit /\ [][DropdownNext]_dropdown

-----------------------------------------------------------------------------
(***************************************************************************)
(* By mouse and keyboard at most one menu is open, and only an open menu   *)
(* has the focus, on one of its items.                                     *)
(***************************************************************************)
DropdownOne ==
    /\ Cardinality({m \in Menu : dropdown.open[m]}) <= 1
    /\ \A m \in Menu : dropdown.focus[m] # -1 =>
           dropdown.open[m] /\ dropdown.focus[m] \in 0 .. (NumChoices - 1)

(***************************************************************************)
(* Inputs, highlighted items and label of a menu agree, though each is     *)
(* kept on its own: the handler reads the input once, before it changes    *)
(* it, and the items' classes by themselves.                               *)
(***************************************************************************)
SelectionAgrees ==
    \A m \in Menu :
        /\ dropdown.active[m] = dropdown.checked[m]
        /\ dropdown.label[m] = dropdown.checked[m]
        /\ m \in Radios => Cardinality(dropdown.checked[m]) = 1

(***************************************************************************)
(* The menus: at most one is open, and each tells what is chosen in it.    *)
(***************************************************************************)
DropdownSafe == DropdownOne /\ SelectionAgrees

=============================================================================
