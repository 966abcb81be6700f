-------------------------------- MODULE Tree --------------------------------
(***************************************************************************)
(* The tree of Fuel UX (fuelux.js), with one folder, its items kept when   *)
(* it is closed (the default).  The data source is the user's and answers  *)
(* some time after it is asked.                                            *)
(***************************************************************************)
EXTENDS Naturals, FiniteSets

CONSTANTS
    Items,      \* that the data source has for the folder
    MaxAsked    \* bound on the questions that wait for an answer

ASSUME TreeAssumption == IsFiniteSet(Items) /\ MaxAsked \in Nat \ {0}

VARIABLE
    tree    \* multiSelect (option), open (the folder), asked (answers to come),
            \* content (how often each item was appended), selected (items, by
            \* class; of the copies of an item the first), told (info of the last
            \* selected event), again (history: how often the data source was asked
            \* while an answer was still to come)

TreeTypeOK ==
    tree \in [multiSelect : BOOLEAN, open : BOOLEAN, asked : 0 .. MaxAsked,
              content : [Items -> 0 .. MaxAsked + 1], selected : SUBSET Items,
              told : SUBSET Items, again : Nat]

TreeInit ==
    /\ \E multiSelect \in BOOLEAN :
           tree = [multiSelect |-> multiSelect, open |-> FALSE, asked |-> 0,
                   content |-> [i \in Items |-> 0], selected |-> {}, told |-> {},
                   again |-> 0]

Filled == \E i \in Items : tree.content[i] > 0

(* Mutant of Populates: only an answer that is to come keeps it from asking. *)
PopulatesAgain == tree.asked = 0

Populates == ~Filled

(* selectFolder: what is closed is only hidden, and asks no more once it
   has items. *)
TreeOpen ==
    /\ ~tree.open
    /\ Populates => tree.asked < MaxAsked
    /\ tree' = [tree EXCEPT !.open = TRUE,
                            !.asked = IF Populates THEN @ + 1 ELSE @,
                            !.again = IF Populates /\ tree.asked > 0 THEN @ + 1 ELSE @]

TreeClose ==
    /\ tree.open
    /\ tree' = [tree EXCEPT !.open = FALSE]

(* The answer appends to the folder, open or not. *)
TreeAnswer ==
    /\ tree.asked > 0
    /\ tree' = [tree EXCEPT !.asked = @ - 1,
                            !.content = [i \in Items |-> tree.content[i] + 1]]

(* Those that remain selected when an item is clicked, but for the item. *)
Deselected(item) ==
    IF tree.multiSelect \/ tree.selected = {item} THEN tree.selected ELSE {}

(* What the event tells: with multiSelect, all that are selected now; and
   otherwise the item, unless it is taken back. *)
SelectedInfo(item) ==
    IF tree.multiSelect
    THEN (tree.selected \ {item}) \cup ({item} \ tree.selected)
    ELSE {item} \ tree.selected

(* selectItem: no event without an item to tell. *)
TreeSelectItem(item) ==
    /\ tree.open /\ tree.content[item] > 0
    /\ tree' = [tree EXCEPT
                   !.selected = IF item \in @ THEN Deselected(item) \ {item}
                                              ELSE Deselected(item) \cup {item},
                   !.told = IF SelectedInfo(item) # {} THEN SelectedInfo(item) ELSE @]

TreeNext ==
    \/ TreeOpen \/ TreeClose \/ TreeAnswer
    \/ \E item \in Items : TreeSelectItem(item)

TreeSpec == TreeInit /\ [][TreeNext]_tree

-----------------------------------------------------------------------------
(***************************************************************************)
(* An item appears once, however often the folder is opened and closed,    *)
(* and once more for every time it was opened before the data source had   *)
(* answered, when it asks again: no other order of clicks and answers,     *)
(* early or late, makes a copy.                                            *)
(***************************************************************************)
TreeNoDuplicates == \A i \in Items : tree.content[i] + tree.asked <= 1 + tree.again

(***************************************************************************)
(* The last event tells exactly what is selected, as long as anything is   *)
(* (taking back the last item tells nothing); and without multiSelect that *)
(* is never more than one item.                                            *)
(***************************************************************************)
TreeTellsSelection ==
    /\ tree.selected # {} => tree.told = tree.selected
    /\ tree.multiSelect \/ Cardinality(tree.selected) <= 1

(***************************************************************************)
(* The tree: items once, and events that tell what is selected.            *)
(***************************************************************************)
TreeSafe == TreeNoDuplicates /\ TreeTellsSelection

=============================================================================
