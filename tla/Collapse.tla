------------------------------ MODULE Collapse ------------------------------
(***************************************************************************)
(* Bootstrap's collapse plugin (bootstrap.js) as the accordion of          *)
(* components.html: panels under one parent, the last one open in the      *)
(* markup, no instance of the plugin before the first click.               *)
(***************************************************************************)
EXTENDS Naturals, Sequences, FiniteSets, FiniteSetsExt

CONSTANT NumPanels

ASSUME CollapseAssumption == NumPanels \in Nat \ {0}

Panel == 1 .. NumPanels

VARIABLE
    collapse   \* by panel: in (its class), inst (none, or its transitioning flag
               \* as idle or moving), parented (its instance knows the parent),
               \* waiting (complete callbacks, own: of the current instance),
               \* folded (class collapsed of its link);
               \* overlapped (history: a panel was opened while another opened),
               \* hasty (history: the last click came while something moved)

CollapseTypeOK ==
    collapse \in [in : [Panel -> BOOLEAN], inst : [Panel -> {"none", "idle", "moving"}],
                  parented : [Panel -> BOOLEAN],
                  waiting : [Panel -> Seq([to : {"in", "out"}, own : BOOLEAN])],
                  folded : [Panel -> BOOLEAN], overlapped : BOOLEAN, hasty : BOOLEAN]

CollapseInit ==
    collapse = [in |-> [p \in Panel |-> p = NumPanels], inst |-> [p \in Panel |-> "none"],
                parented |-> [p \in Panel |-> FALSE], waiting |-> [p \in Panel |-> <<>>],
                folded |-> [p \in Panel |-> FALSE], overlapped |-> FALSE, hasty |-> FALSE]

Opening(p) == \E i \in DOMAIN collapse.waiting[p] : collapse.waiting[p][i].to = "in"

CollapseRests == \A p \in Panel : collapse.waiting[p] = <<>>

Complete(x) == [to |-> x, own |-> TRUE]

(* The panels that show finds open under the parent, if it knows the parent. *)
Actives(p, parented) == IF parented THEN {q \in Panel : collapse.in[q]} ELSE {}

(* It goes by the instance of the first of them only. *)
HasData(actives) == actives # {} /\ collapse.inst[Min(actives)] # "none"

Blocked(actives) == HasData(actives) /\ collapse.inst[Min(actives)] = "moving"

HidesToo(actives, q) == q \in actives /\ collapse.inst[q] # "moving"

(* show of p.  An active panel without an instance gets one, which closes
   it when it is made, and which is dropped if the first active had none. *)
Show(p, parented, click) ==
    LET actives == Actives(p, parented)
        dropped(q) == q \in actives /\ ~HasData(actives)
    IN IF Blocked(actives)
       THEN collapse' = [click EXCEPT !.inst[p] = "idle", !.parented[p] = parented]
       ELSE collapse' = [click EXCEPT
              !.in = [q \in Panel |-> @[q] /\ ~HidesToo(actives, q)],
              !.inst = [q \in Panel |->
                           IF q = p \/ (HidesToo(actives, q) /\ ~dropped(q)) THEN "moving"
                           ELSE IF dropped(q) THEN "none" ELSE @[q]],
              !.parented = [q \in Panel |-> IF q = p THEN parented
                                             ELSE @[q] /\ ~(HidesToo(actives, q) /\ collapse.inst[q] = "none")],
              !.waiting = [q \in Panel |->
                  CASE q = p -> Append(@[q], Complete("in"))
                    [] q # p /\ HidesToo(actives, q) ->
                           Append(@[q], [to |-> "out", own |-> ~dropped(q)])
                    [] OTHER -> @[q]],
              !.overlapped = @ \/ \E q \in Panel \ {p} : Opening(q)]

(* hide of p. *)
Hide(p, parented, click) ==
    collapse' = [click EXCEPT !.in[p] = FALSE, !.inst[p] = "moving", !.parented[p] = parented,
                              !.waiting[p] = Append(@, Complete("out"))]

(* The link of p, with all links of the parent, before toggle is called. *)
Click(p) ==
    [collapse EXCEPT
        !.folded = [q \in Panel |-> IF collapse.inst[p] = "moving" THEN @[q]
                                    ELSE q # p \/ collapse.in[p]],
        !.hasty = ~CollapseRests]

(* A click: without an instance, one is made with the parent of the link,
   and toggles as it is made. *)
ClickOpens(p) ==
    /\ ~collapse.in[p]
    /\ collapse.inst[p] # "moving"
    /\ Show(p, collapse.inst[p] = "none" \/ collapse.parented[p], Click(p))

ClickCloses(p) ==
    /\ collapse.in[p]
    /\ collapse.inst[p] # "moving"
    /\ Hide(p, collapse.inst[p] = "none" \/ collapse.parented[p], Click(p))

(* While it moves toggle does nothing, and the links stay as they are. *)
ClickIgnored(p) ==
    /\ collapse.inst[p] = "moving"
    /\ collapse' = Click(p)

(* Mutant of CollapseEnd: transitioning is reset only after opening. *)
CollapseEndOpened(p) ==
    LET done(x) == \E i \in DOMAIN collapse.waiting[p] : collapse.waiting[p][i] = x
    IN  /\ collapse.waiting[p] # <<>>
        /\ collapse' = [collapse EXCEPT
               !.waiting[p] = <<>>,
               !.in[p] = @ \/ Opening(p),
               !.inst[p] = IF done(Complete("in")) THEN "idle" ELSE @]

(* The transition end of p: every complete that waits for it. *)
CollapseEnd(p) ==
    LET own == \E i \in DOMAIN collapse.waiting[p] : collapse.waiting[p][i].own
    IN  /\ collapse.waiting[p] # <<>>
        /\ collapse' = [collapse EXCEPT
               !.waiting[p] = <<>>,
               !.in[p] = @ \/ Opening(p),
               !.inst[p] = IF own THEN "idle" ELSE @]

CollapseNext ==
    \E p \in Panel : ClickOpens(p) \/ ClickCloses(p) \/ ClickIgnored(p) \/ CollapseEnd(p)

CollapseSpec ==
    CollapseInit /\ [][CollapseNext]_collapse /\ \A p \in Panel : WF_collapse(CollapseEnd(p))

-----------------------------------------------------------------------------
(***************************************************************************)
(* A panel never stays unusable: the flag that makes toggle ignore clicks  *)
(* is set only while a callback is waiting that will reset the flag of     *)
(* this very instance - though instances are dropped and made anew while   *)
(* callbacks of older ones still wait on the same panel.                   *)
(***************************************************************************)
CollapseNotStuck ==
    \A p \in Panel : collapse.inst[p] = "moving" =>
        \E i \in DOMAIN collapse.waiting[p] : collapse.waiting[p][i].own

(***************************************************************************)
(* At most one panel is open or opening, unless one was opened while       *)
(* another was still opening: that one does not have the class in yet, and *)
(* show does not see it.                                                   *)
(***************************************************************************)
CollapseOne ==
    ~collapse.overlapped => Cardinality({p \in Panel : collapse.in[p] \/ Opening(p)}) <= 1

(***************************************************************************)
(* At rest the link of an open panel says open, if the last click did not  *)
(* come while something moved: the links are changed before toggle has     *)
(* decided whether to do anything.  Two panels that are open together have *)
(* one link that says so.                                                  *)
(***************************************************************************)
CollapseLinks ==
    (CollapseRests /\ ~collapse.overlapped /\ ~collapse.hasty) => \A p \in Panel : ~(collapse.in[p] /\ collapse.folded[p])

(***************************************************************************)
(* The accordion: no panel is stuck, at most one is open, links tell       *)
(* which.                                                                  *)
(***************************************************************************)
CollapseSafe == CollapseNotStuck /\ CollapseOne /\ CollapseLinks

=============================================================================
