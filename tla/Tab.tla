-------------------------------- MODULE Tab --------------------------------
(***************************************************************************)
(* Bootstrap's tabs (bootstrap.js) whose panes fade, as the right tab of   *)
(* components.html.  The tab changes at once; its pane becomes active when *)
(* the transition of the panes that were active at the click has ended.    *)
(* All of them take 150 ms, so they end in the order they began.           *)
(***************************************************************************)
EXTENDS Naturals, Sequences, FiniteSets, SequencesExt, SubSequences

CONSTANTS
    NumTabs,
    MaxFades    \* bound on the transitions awaited at a time

ASSUME TabAssumption == NumTabs \in Nat \ {0} /\ MaxFades \in Nat \ {0}

TabId == 1 .. NumTabs

VARIABLE
    tab   \* selected (the active li), active and in (classes of the panes),
          \* fades (next callbacks, oldest first: waiting on each of the panes in
          \* on, it takes the class from those in from and gives it to pane to),
          \* hasty (history: the last click came before a transition had
          \* ended)

TabTypeOK ==
    tab \in [selected : TabId, active : SUBSET TabId, in : SUBSET TabId,
             fades : Seq([on : SUBSET TabId, from : SUBSET TabId, to : TabId]), hasty : BOOLEAN]

TabInit ==
    tab = [selected |-> 1, active |-> {1}, in |-> {1}, fades |-> <<>>, hasty |-> FALSE]

Fade(from, to) == <<[on |-> from, from |-> from, to |-> to]>>

(* Mutant of TabShow: a tab that is not shown yet is left alone. *)
TabShowIdle(t) ==
    /\ t # tab.selected
    /\ Len(tab.fades) < MaxFades
    /\ tab' = [tab EXCEPT !.selected = t, !.in = @ \ tab.active,
                          !.fades = IF @ = <<>> THEN Fade(tab.active, t) ELSE @,
                          !.hasty = tab.fades # <<>>]

(* show: activate for the li, which has no transition, then for the pane. *)
TabShow(t) ==
    /\ t # tab.selected
    /\ Len(tab.fades) < MaxFades
    /\ tab' = [tab EXCEPT !.selected = t, !.in = @ \ tab.active,
                          !.fades = @ \o Fade(tab.active, t),
                          !.hasty = tab.fades # <<>>]

FadeNext(s, f) ==
    [s EXCEPT !.active = (@ \ f.from) \cup {f.to}, !.in = @ \cup {f.to}]

(* The panes whose transitions are the oldest. *)
Ending == Head(tab.fades).on

(* The event of pane p, if its transition ends: each next that waits on it. *)
PaneEnd(s, p) ==
    LET waiting == {f \in Range(tab.fades) : p \in f.on \cap Ending}
    IN  FoldLeft(FadeNext, s, ElementsIn(tab.fades, waiting))

(* The oldest transitions end, together as they began together, and with
   them all next registered on their panes since. *)
TabEnd ==
    /\ tab.fades # <<>>
    /\ LET left == {f \in Range(tab.fades) : f.on \ Ending # {}}
           rest == ElementsIn(tab.fades, left)
       IN tab' = [FoldLeft(PaneEnd, tab, [p \in TabId |-> p])
                    EXCEPT !.fades = [i \in DOMAIN rest |-> [rest[i] EXCEPT !.on = @ \ Ending]]]

TabNext == TabEnd \/ \E t \in TabId : TabShow(t)

TabSpec == TabInit /\ [][TabNext]_tab /\ WF_tab(TabEnd)

-----------------------------------------------------------------------------
(***************************************************************************)
(* However fast the tabs are clicked, when all transitions have ended the  *)
(* pane of the selected tab is the active one - and the only one, if the   *)
(* last click did not come during a transition; otherwise two panes may be *)
(* active until the next click, since both transitions began with the same *)
(* pane.                                                                   *)
(***************************************************************************)
TabShowsSelected ==
    tab.fades = <<>> =>
        /\ tab.selected \in tab.active \cap tab.in
        /\ ~tab.hasty => tab.active = {tab.selected}

=============================================================================
