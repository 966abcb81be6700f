----------------------------- MODULE ScrollSpy -----------------------------
(***************************************************************************)
(* Bootstrap's scroll spy and affix (bootstrap.js): by the position of the *)
(* window, which entry of the navigation is active, and whether the        *)
(* navigation is pinned.  The pages give affix an offset-top only.         *)
(***************************************************************************)
EXTENDS Naturals, Sequences, FiniteSetsExt

CONSTANTS
    Offsets,    \* where the sections begin, as refresh has found and sorted them
    MaxScroll,  \* the position at the bottom of the page
    OffsetTop   \* positions up to it leave the navigation at the top

ASSUME ScrollSpyAssumption ==
    /\ Offsets \in Seq(Nat \ {0}) /\ Offsets # <<>>
    /\ \A i, j \in DOMAIN Offsets : i < j => Offsets[i] < Offsets[j]
    /\ MaxScroll \in Nat
    /\ OffsetTop \in Nat

VARIABLE
    spy     \* scroll (position), activeTarget (a section, 0: null), top (affixed
            \* at the top), visible (the navigation), checks (timers that will
            \* check the position), missed (history: scrolled while not visible)

SpyTypeOK ==
    spy \in [scroll : 0 .. MaxScroll, activeTarget : {0} \cup DOMAIN Offsets, top : BOOLEAN,
             visible : BOOLEAN, checks : BOOLEAN, missed : BOOLEAN]

(* Mutant of Matches: a section has no end. *)
MatchesFrom(i, position) == position >= Offsets[i]

Matches(i, position) ==
    /\ position >= Offsets[i]
    /\ i = Len(Offsets) \/ position <= Offsets[i + 1]

(* process: at the bottom the last section; otherwise, of those that match
   and were not active, the one found last, going from the end. *)
Process(active, position) ==
    LET found == {i \in DOMAIN Offsets : i # active /\ Matches(i, position)}
    IN  CASE position >= MaxScroll                 -> Len(Offsets)
          [] position < MaxScroll /\ found # {}    -> Min(found)
          [] position < MaxScroll /\ found = {}    -> active

(* checkPosition does nothing for what is not visible. *)
CheckPosition(s) ==
    IF s.visible THEN [s EXCEPT !.top = s.scroll <= OffsetTop, !.missed = FALSE]
                 ELSE [s EXCEPT !.missed = TRUE]

SpyInit ==
    spy = [scroll |-> 0, activeTarget |-> Process(0, 0), top |-> TRUE, visible |-> TRUE,
           checks |-> FALSE, missed |-> FALSE]

(* A scroll event, or several at once. *)
SpyScroll(position) ==
    spy' = CheckPosition([spy EXCEPT !.scroll = position,
                                     !.activeTarget = Process(@, position)])

(* A click checks the position after the event loop: it may have changed
   the layout, as the button that hides and shows the navigation does. *)
SpyClick == spy' = [spy EXCEPT !.checks = TRUE]

SpyHideOrShow == spy' = [spy EXCEPT !.visible = ~@, !.checks = TRUE]

SpyCheck ==
    /\ spy.checks
    /\ spy' = CheckPosition([spy EXCEPT !.checks = FALSE])

SpyNext ==
    \/ \E position \in 0 .. MaxScroll : SpyScroll(position)
    \/ SpyClick \/ SpyHideOrShow \/ SpyCheck

SpySpec == SpyInit /\ [][SpyNext]_spy /\ WF_spy(SpyCheck)

-----------------------------------------------------------------------------
(***************************************************************************)
(* The active entry is that of a section the position is in, from whatever *)
(* section the window came and however far it jumped.  (On the line        *)
(* between two sections it is one of the two, and changes with every       *)
(* event; above the first section it stays what it was.)                   *)
(***************************************************************************)
SpyFollows ==
    (spy.scroll >= Offsets[1] /\ spy.scroll < MaxScroll) =>
        /\ spy.activeTarget # 0
        /\ Offsets[spy.activeTarget] <= spy.scroll
        /\ spy.activeTarget < Len(Offsets) => spy.scroll <= Offsets[spy.activeTarget + 1]

(***************************************************************************)
(* When the timers of clicks have run, a navigation that is visible is     *)
(* pinned iff the window is below the offset, even if it was scrolled      *)
(* while the navigation was hidden.                                        *)
(***************************************************************************)
AffixFollows ==
    (spy.visible /\ ~spy.checks) => spy.top = (spy.scroll <= OffsetTop)

(***************************************************************************)
(* The navigation follows the position of the window, in what it           *)
(* highlights and in where it is.                                          *)
(***************************************************************************)
SpySafe == SpyFollows /\ AffixFollows

=============================================================================
