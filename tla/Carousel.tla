------------------------------ MODULE Carousel ------------------------------
(***************************************************************************)
(* Bootstrap's carousel (bootstrap.js) with indicators, the class "slide"  *)
(* and pause on hover.  The end of a slide is an event of the item that    *)
(* leaves; 'slid' is triggered by a timer of 0 ms that this event starts.  *)
(***************************************************************************)
EXTENDS Naturals, Sequences, FiniteSets, SequencesExt, SubSequences

CONSTANTS
    NumItems,
    MaxQueue    \* bound on the handlers that wait for 'slid'

ASSUME CarouselAssumption == NumItems \in Nat \ {0, 1} /\ MaxQueue \in Nat

Item == 1 .. NumItems

VARIABLE
    carousel   \* active (the items of that class), sliding, moves (slides whose end
               \* is awaited), paused, interval (this.interval is a running timer or
               \* undefined), strays (timers running besides), slid (the timer of 0 ms runs),
               \* waiting (handlers of the next 'slid': 0 for the indicators, or the
               \* item to go to), lit (active indicators),
               \* hasty (history: the last slide began before the 'slid' of the one
               \* before)

CarouselTypeOK ==
    carousel \in [active : SUBSET Item, sliding : BOOLEAN, moves : Seq(Item \X Item),
                  paused : BOOLEAN, interval : BOOLEAN, strays : Nat, slid : BOOLEAN,
                  waiting : Seq({0} \cup Item), lit : SUBSET Item, hasty : BOOLEAN]

CarouselInit ==
    carousel = [active |-> {1}, sliding |-> FALSE, moves |-> <<>>, paused |-> FALSE,
                interval |-> TRUE, strays |-> 0, slid |-> FALSE, waiting |-> <<>>, lit |-> {1},
                hasty |-> FALSE]

Active(c) == CHOOSE i \in c.active : TRUE

(* Mutant of After: the last item is not followed by the first. *)
AfterPast(i) == i + 1

After(i) == (i % NumItems) + 1
Before(i) == IF i = 1 THEN NumItems ELSE i - 1

(* Mutant of Cycle: the timer before is not cleared. *)
CycleAgain(c, byEvent) ==
    LET paused == byEvent /\ c.paused
    IN  [c EXCEPT !.paused = paused, !.interval = ~paused,
                  !.strays = IF c.interval THEN @ + 1 ELSE @]

(* cycle; that of an event does not lift a pause. *)
Cycle(c, byEvent) ==
    LET paused == byEvent /\ c.paused
    IN  [c EXCEPT !.paused = paused, !.interval = ~paused]

(* pause; that of an event only stops the timer.  In the middle of a slide
   it calls cycle first, whose timer it then clears. *)
Pause(c, byEvent) == [c EXCEPT !.paused = @ \/ ~byEvent, !.interval = FALSE]

Begins(c) ==
    [c EXCEPT !.sliding = TRUE, !.hasty = c.slid,
              !.paused = @ \/ c.interval]

(* slide: stopped while it prepares, a timer that was running runs again. *)
SlideTo(c, i) ==
    LET s == [Begins(c) EXCEPT !.lit = {}, !.waiting = Append(@, 0),
                               !.moves = Append(@, <<Active(c), i>>)]
    IN  IF c.interval THEN Cycle(s, FALSE) ELSE s

(* to *)
GoTo(c, i) ==
    CASE c.sliding                      -> [c EXCEPT !.waiting = Append(@, i)]
      [] ~c.sliding /\ c.active = {i}   -> Cycle(Pause(c, FALSE), FALSE)
      [] ~c.sliding /\ c.active # {i}   -> SlideTo(c, i)

OnSlid(c, h) ==
    IF h = 0 THEN [c EXCEPT !.lit = @ \cup {Active(c)}] ELSE GoTo(c, h)

-----------------------------------------------------------------------------
(* The arrows, and the timer. *)
CarouselNextItem ==
    /\ ~carousel.sliding
    /\ carousel' = SlideTo(carousel, After(Active(carousel)))

CarouselPrevItem ==
    /\ ~carousel.sliding
    /\ carousel' = SlideTo(carousel, Before(Active(carousel)))

CarouselTick ==
    /\ carousel.interval \/ carousel.strays > 0
    /\ CarouselNextItem

(* An indicator. *)
CarouselTo(i) ==
    /\ Len(carousel.waiting) < MaxQueue
    /\ carousel' = GoTo(carousel, i)

CarouselMouseEnter == carousel' = Pause(carousel, TRUE)

CarouselMouseLeave == carousel' = Cycle(carousel, TRUE)

(* The transition of the leaving item ends; no slide is so short that the
   timer of the one before could still be running. *)
CarouselEnd ==
    /\ carousel.moves # <<>>
    /\ ~carousel.slid
    /\ LET from == Head(carousel.moves)[1]
           ending == {m \in Range(carousel.moves) : m[1] = from}
           others == Range(carousel.moves) \ ending
       IN carousel' = [carousel EXCEPT
              !.active = (@ \cup {m[2] : m \in ending}) \ {from},
              !.moves = ElementsIn(@, others),
              !.sliding = FALSE,
              !.slid = TRUE]

(* Mutant of CarouselSlid: it forgets the handlers that wait. *)
CarouselSlidForgets ==
    /\ carousel.slid
    /\ carousel' = [carousel EXCEPT !.slid = FALSE, !.waiting = <<>>, !.lit = carousel.active]

(* 'slid' runs the handlers registered so far, each once. *)
CarouselSlid ==
    /\ carousel.slid
    /\ carousel' = FoldLeft(OnSlid, [carousel EXCEPT !.slid = FALSE, !.waiting = <<>>],
                            carousel.waiting)

CarouselNext ==
    \/ CarouselNextItem \/ CarouselPrevItem \/ CarouselTick
    \/ \E i \in Item : CarouselTo(i)
    \/ CarouselMouseEnter \/ CarouselMouseLeave
    \/ CarouselEnd \/ CarouselSlid

CarouselFairness == WF_carousel(CarouselEnd) /\ WF_carousel(CarouselSlid)

CarouselSpec == CarouselInit /\ [][CarouselNext]_carousel /\ CarouselFairness

-----------------------------------------------------------------------------
(***************************************************************************)
(* Exactly one item is active, and sliding is set exactly while the end of *)
(* one slide is awaited: arrows, timer, indicators and queued calls never  *)
(* start a slide that overlaps another, nor leave the flag set.            *)
(***************************************************************************)
CarouselOneActive ==
    /\ Cardinality(carousel.active) = 1
    /\ carousel.sliding = (carousel.moves # <<>>)
    /\ Len(carousel.moves) <= 1

(***************************************************************************)
(* No timer is ever lost sight of: hovering, sliding and clicking start    *)
(* and stop the cycle in any order, and it never runs twice as fast.       *)
(***************************************************************************)
CarouselOneTimer == carousel.strays = 0

(***************************************************************************)
(* At rest the indicator is that of the active item, unless the last slide *)
(* was started in the moment between the end of one and its 'slid': the    *)
(* handler then finds the item before, and none is left for its own        *)
(* 'slid'.  The next slide mends that.                                     *)
(***************************************************************************)
CarouselIndicator ==
    (carousel.moves = <<>> /\ ~carousel.slid /\ ~carousel.hasty) =>
        carousel.lit = carousel.active /\ carousel.waiting = <<>>

(***************************************************************************)
(* The carousel: one item, one timer and one indicator, in any order of    *)
(* slides, hovering and clicks.                                            *)
(***************************************************************************)
CarouselSafe == CarouselOneActive /\ CarouselOneTimer /\ CarouselIndicator

(***************************************************************************)
(* A click on an indicator during a slide is not forgotten: in the end its *)
(* item is shown, unless a slide begins in that moment (hasty) before.     *)
(***************************************************************************)
CarouselHonours ==
    \A i \in Item :
        (\E x \in DOMAIN carousel.waiting : carousel.waiting[x] = i)
            ~> (carousel.active = {i} \/ carousel.hasty)

=============================================================================
