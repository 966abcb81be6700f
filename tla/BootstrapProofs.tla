--------------------------- MODULE BootstrapProofs ---------------------------
(***************************************************************************)
(* Proofs about the widgets that bootstrap.js and its neighbours animate    *)
(* (Lightbox, PieLoop, Button, Tooltip, Dropdown, ScrollSpy, Collapse, Modal,*)
(* Carousel, Tab), for every bound.  No fairness is used, so what is proved *)
(* holds of the initial states and the steps alone.                         *)
(***************************************************************************)
EXTENDS Lightbox, PieLoop, Button, Tooltip, Dropdown, ScrollSpy, Collapse, Modal, Carousel, Tab,
        FoldLemmas, FiniteSetTheorems, SequenceTheorems, WellFoundedInduction, TLAPS

(***************************************************************************)
(* LightboxWhole is not inductive: it needs that a new backdrop is none of *)
(* those in the page, and that, unless the last hide was hasty, one is on  *)
(* its way only while the lightbox is shown and not yet displayed.         *)
(***************************************************************************)
BackdropsBefore ==
    /\ \A b \in lightbox.page : b < lightbox.next
    /\ lightbox.backdrop < lightbox.next

OneImage ==
    /\ lightbox.loads > 0 \/ lightbox.displayed => lightbox.isShown
    /\ lightbox.loads <= 1
    /\ lightbox.loads > 0 => ~lightbox.displayed

LightboxInv ==
    /\ LightboxTypeOK /\ LightboxWhole /\ BackdropsBefore
    /\ ~lightbox.hasty => OneImage

(* LightboxInv holds from the first state, and every step keeps it. *)
LEMMA LightboxKeeps == LightboxSpec => []LightboxInv
<1>1. LightboxInit => LightboxInv
  BY LightboxAssumption
     DEF LightboxInit, LightboxInv, LightboxTypeOK, LightboxWhole, BackdropsBefore, OneImage
<1>2. LightboxInv /\ [LightboxNext]_lightbox => LightboxInv'
  <2> SUFFICES ASSUME LightboxInv, [LightboxNext]_lightbox PROVE LightboxInv'
    OBVIOUS
  <2> USE LightboxAssumption DEF LightboxInv, LightboxTypeOK
  <2>1. CASE LightboxShow
    <3>1. LightboxTypeOK'
      <4>1. lightbox.looks + 1 \in 0 .. MaxLooks /\ lightbox.loads + 1 \in Nat
        BY <2>1 DEF LightboxShow
      <4>2. QED BY <2>1, <4>1, Zenon DEF LightboxShow
    <3>2. LightboxWhole' BY <2>1 DEF LightboxShow, LightboxWhole
    <3>3. BackdropsBefore' BY <2>1 DEF LightboxShow, BackdropsBefore
    <3>4. (~lightbox.hasty => OneImage)' BY <2>1 DEF LightboxShow, OneImage
    <3>5. QED BY <3>1, <3>2, <3>3, <3>4
  <2>2. CASE ImageLoaded
    <3>1. LightboxTypeOK'
      <4>1. /\ lightbox.loads - 1 \in Nat /\ lightbox.traps + 1 \in Nat
            /\ lightbox.next \in Nat /\ lightbox.next + 1 \in Nat \ {0}
            /\ lightbox.page \cup {lightbox.next} \in SUBSET (Nat \ {0})
        BY <2>2 DEF ImageLoaded
      <4>2. CASE lightbox.isShown BY <2>2, <4>1, <4>2 DEF ImageLoaded
      <4>3. CASE ~lightbox.isShown BY <2>2, <4>1, <4>3 DEF ImageLoaded
      <4>4. QED BY <4>2, <4>3
    <3>2. LightboxWhole' BY <2>2 DEF ImageLoaded, LightboxWhole, OneImage
    <3>3. BackdropsBefore' BY <2>2 DEF ImageLoaded, BackdropsBefore
    <3>4. (~lightbox.hasty => OneImage)' BY <2>2 DEF ImageLoaded, OneImage
    <3>5. QED BY <3>1, <3>2, <3>3, <3>4
  <2>3. CASE ImageFails
    <3>1. LightboxTypeOK' BY <2>3 DEF ImageFails
    <3>2. LightboxWhole' BY <2>3 DEF ImageFails, LightboxWhole
    <3>3. BackdropsBefore' BY <2>3 DEF ImageFails, BackdropsBefore
    <3>4. (~lightbox.hasty => OneImage)' BY <2>3 DEF ImageFails, OneImage
    <3>5. QED BY <3>1, <3>2, <3>3, <3>4
  <2>4. CASE LightboxHide
    <3>1. LightboxTypeOK' BY <2>4 DEF LightboxHide, LeavesSomething
    <3>2. LightboxWhole' BY <2>4 DEF LightboxHide, LeavesSomething, LightboxWhole
    <3>3. BackdropsBefore' BY <2>4 DEF LightboxHide, BackdropsBefore
    <3>4. (~lightbox.hasty => OneImage)' BY <2>4 DEF LightboxHide, LeavesSomething, OneImage
    <3>5. QED BY <3>1, <3>2, <3>3, <3>4
  <2>5. CASE UNCHANGED lightbox
    BY <2>5 DEF LightboxWhole, BackdropsBefore, OneImage
  <2>6. QED BY <2>1, <2>2, <2>3, <2>4, <2>5 DEF LightboxNext
<1>3. QED BY <1>1, <1>2, PTL DEF LightboxSpec

(* After a hide that leaves no image on its way, the lightbox has one      *)
(* backdrop, which can be removed, and one focus handler, exactly while it *)
(* is displayed.                                                           *)
THEOREM LightboxIsWhole == LightboxSpec => []LightboxWhole
<1>1. LightboxInv => LightboxWhole
  BY DEF LightboxInv
<1>2. QED BY <1>1, LightboxKeeps, PTL

-----------------------------------------------------------------------------
(* The loop of the pie chart: an update is an animation or a timer.        *)
PieInv == PieTypeOK /\ Updates <= MaxUpdates /\ PieLoops

(* PieInv holds from the first state, and every step keeps it. *)
LEMMA PieKeeps == PieSpec => []PieInv
<1>1. PieInit => PieInv
  BY PieAssumption DEF PieInit, PieInv, PieTypeOK, Updates, PieLoops
<1>2. PieInv /\ [PieNext]_pie => PieInv'
  <2> SUFFICES ASSUME PieInv, [PieNext]_pie PROVE PieInv'
    OBVIOUS
  <2> USE PieAssumption DEF PieInv, PieTypeOK, Updates
  <2> DEFINE Update(loop, animations, timers, rushed) ==
               [loop |-> loop, animations |-> animations, timers |-> timers, rushed |-> rushed]
  <2>1. CASE PieToggle
    <3>1. pie.animations + UpdatesOnToggle \in 0 .. MaxUpdates
      BY <2>1 DEF PieToggle, UpdatesOnToggle
    <3>2. PieTypeOK'
      BY <2>1, <3>1 DEF PieToggle
    <3>3. /\ pie'.animations = pie.animations + UpdatesOnToggle
          /\ pie'.timers = pie.timers
      BY <2>1 DEF PieToggle
    <3>4. (Updates <= MaxUpdates)'
      BY <2>1, <3>3 DEF PieToggle, UpdatesOnToggle
    <3>5. (pie'.loop <=> ~pie.loop) /\ (pie'.rushed <=> pie.rushed \/ (~pie.loop /\ Updates > 0))
      BY <2>1 DEF PieToggle
    <3>6. PieLoops'
      BY <3>3, <3>5 DEF PieLoops, UpdatesOnToggle
    <3>7. QED BY <3>2, <3>4, <3>6
  <2>2. CASE PieStop
    <3>1. pie.animations - 1 \in 0 .. MaxUpdates /\ pie.timers + 1 \in 0 .. MaxUpdates
      BY <2>2 DEF PieStop
    <3>2. CASE pie.loop
      <4>1. pie' = Update(TRUE, pie.animations - 1, pie.timers + 1, pie.rushed)
        BY <2>2, <3>2 DEF PieStop, LastUpdate
      <4>2. QED BY <3>1, <3>2, <4>1 DEF PieLoops
    <3>3. CASE ~pie.loop
      <4>1. pie' = Update(FALSE, pie.animations - 1, pie.timers, pie.rushed /\ ~LastUpdate)
        BY <2>2, <3>3 DEF PieStop
      <4>2. QED BY <3>1, <3>3, <4>1 DEF PieLoops, LastUpdate
    <3>4. QED BY <3>2, <3>3
  <2>3. CASE PieTimer
    <3>1. pie.timers - 1 \in 0 .. MaxUpdates /\ pie.animations + 1 \in 0 .. MaxUpdates
      BY <2>3 DEF PieTimer
    <3>2. CASE pie.loop
      <4>1. pie' = Update(TRUE, pie.animations + 1, pie.timers - 1, pie.rushed)
        BY <2>3, <3>2 DEF PieTimer, LastUpdate
      <4>2. QED BY <3>1, <3>2, <4>1 DEF PieLoops
    <3>3. CASE ~pie.loop
      <4>1. pie' = Update(FALSE, pie.animations, pie.timers - 1, pie.rushed /\ ~LastUpdate)
        BY <2>3, <3>3 DEF PieTimer
      <4>2. QED BY <3>1, <3>3, <4>1 DEF PieLoops, LastUpdate
    <3>4. QED BY <3>2, <3>3
  <2>4. CASE UNCHANGED pie BY <2>4 DEF PieLoops
  <2>5. QED BY <2>1, <2>2, <2>3, <2>4 DEF PieNext
<1>3. QED BY <1>1, <1>2, PTL DEF PieSpec

(* The loop never runs dry while its flag is on, and has one update to     *)
(* come at most unless it was restarted too early and not stopped since    *)
(* until all have ended.                                                   *)
THEOREM PieLoopIsAlive == PieSpec => []PieLoops
<1>1. PieInv => PieLoops
  BY DEF PieInv
<1>2. QED BY <1>1, PieKeeps, PTL

-----------------------------------------------------------------------------
(***************************************************************************)
(* What the timers of a button still have to do: after all of them the     *)
(* attribute will tell the last state.  The text to come back to is the    *)
(* original from the first state on.                                       *)
(***************************************************************************)
ButtonInv ==
    /\ ButtonTypeOK
    /\ button.timers = <<>> => (button.disabled <=> button.last = "loading")
    /\ button.timers # <<>> => button.timers[Len(button.timers)] = button.last
    /\ button.last = "none" => button.resetText = "none"
    /\ IF button.resetText = "none" THEN button.text = "original"
                                    ELSE button.resetText = "original"
    /\ button.last \in {"none", "reset"} => button.text = "original"
    /\ ButtonGroupAgrees

(* A sequence and what is left of it have the same last element. *)
LEMMA LastOfRest ==
    ASSUME NEW S, NEW s \in Seq(S), s # <<>>, NEW t \in Seq(S),
           Len(t) = Len(s) - 1, \A i \in 1 .. Len(t) : t[i] = s[i + 1]
    PROVE  /\ t = <<>> => Len(s) = 1
           /\ t # <<>> => t[Len(t)] = s[Len(s)]
<1>1. Len(s) \in Nat /\ Len(t) \in Nat /\ (t = <<>> <=> Len(t) = 0)
  BY EmptySeq
<1>2. t # <<>> => Len(t) \in 1 .. Len(t) /\ Len(t) + 1 = Len(s)
  BY <1>1
<1>3. QED BY <1>1, <1>2

(* ButtonInv holds from the first state, and every step keeps it. *)
LEMMA ButtonKeeps == ButtonInit /\ [][ButtonNext]_button => []ButtonInv
<1>1. ButtonInit => ButtonInv
  <2> SUFFICES ASSUME ButtonInit PROVE ButtonInv
    OBVIOUS
  <2>1. ButtonTypeOK
    BY EmptySeq DEF ButtonInit, ButtonTypeOK, ButtonText, ButtonState
  <2>2. QED BY <2>1 DEF ButtonInit, ButtonInv, ButtonGroupAgrees
<1>2. ButtonInv /\ [ButtonNext]_button => ButtonInv'
  <2> SUFFICES ASSUME ButtonInv, [ButtonNext]_button PROVE ButtonInv'
    OBVIOUS
  <2> USE DEF ButtonInv
  <2>1. ASSUME NEW state \in ButtonState, ButtonSetState(state) PROVE ButtonInv'
    <3>1. Append(button.timers, state) \in Seq(ButtonState)
          /\ Append(button.timers, state) # <<>>
          /\ Append(button.timers, state)[Len(Append(button.timers, state))] = state
      <4>1. button.timers \in Seq(ButtonState) BY DEF ButtonTypeOK
      <4>2. QED BY <4>1, AppendProperties
    <3>2. ResetText = "original"
      BY DEF ResetText
    <3>3. button' = [button EXCEPT !.resetText = "original",
                         !.text = IF state = "reset" THEN "original" ELSE state,
                         !.timers = Append(button.timers, state), !.last = state]
      BY <2>1, <3>2 DEF ButtonSetState
    <3>4. ButtonTypeOK'
      BY <3>1, <3>3 DEF ButtonTypeOK, ButtonText, ButtonState
    <3>5. QED BY <3>1, <3>3, <3>4 DEF ButtonTypeOK, ButtonState, ButtonGroupAgrees
  <2>2. CASE ButtonTimer
    <3>1. button.timers # <<>> /\ button.timers \in Seq(ButtonState)
      BY <2>2 DEF ButtonTimer, ButtonTypeOK
    <3>2. /\ Tail(button.timers) \in Seq(ButtonState)
          /\ Head(button.timers) = button.timers[1]
          /\ Tail(button.timers) = <<>> => Len(button.timers) = 1
          /\ Tail(button.timers) # <<>> =>
                Tail(button.timers)[Len(Tail(button.timers))] = button.timers[Len(button.timers)]
      <4>1. Head(button.timers) = button.timers[1] BY <3>1
      <4>2. QED BY <3>1, <4>1, HeadTailProperties, LastOfRest
    <3>3. ButtonTypeOK'
      BY <2>2, <3>2 DEF ButtonTimer, ButtonTypeOK
    <3>4. /\ button'.timers = Tail(button.timers)
          /\ button'.disabled <=> button.timers[1] = "loading"
          /\ button'.text = button.text /\ button'.resetText = button.resetText
          /\ button'.last = button.last /\ button'.active = button.active
          /\ button'.checked = button.checked /\ (button'.again <=> button.again)
      BY <2>2, <3>2 DEF ButtonTimer, ButtonTypeOK
    <3>5. (button.timers = <<>> => (button.disabled <=> button.last = "loading"))'
      BY <3>1, <3>2, <3>4
    <3>6. (button.timers # <<>> => button.timers[Len(button.timers)] = button.last)'
      BY <3>1, <3>2, <3>4
    <3>7. QED BY <3>3, <3>4, <3>5, <3>6 DEF ButtonGroupAgrees
  <2>3. ASSUME NEW r \in 1 .. NumRadios, ButtonToggle(r) PROVE ButtonInv'
    <3>1. ButtonTypeOK' BY <2>3 DEF ButtonToggle, ButtonTypeOK
    <3>2. ButtonGroupAgrees' BY <2>3 DEF ButtonToggle, ButtonGroupAgrees, ButtonTypeOK
    <3>3. QED BY <2>3, <3>1, <3>2 DEF ButtonToggle, ButtonTypeOK
  <2>4. CASE UNCHANGED button BY <2>4 DEF ButtonTypeOK, ButtonGroupAgrees
  <2>5. QED BY <2>1, <2>2, <2>3, <2>4 DEF ButtonNext
<1>3. QED BY <1>1, <1>2, PTL

(* What follows for the steps alone. *)
LEMMA ButtonStepsSafely == ButtonInit /\ [][ButtonNext]_button => []ButtonSafe
<1>1. ButtonInv => ButtonTellsState
  BY DEF ButtonInv, ButtonTellsState, ButtonTypeOK
<1>2. ButtonInv => ButtonGroupAgrees
  BY DEF ButtonInv
<1>3. ButtonInv => ButtonSafe BY <1>1, <1>2 DEF ButtonSafe
<1>4. QED BY <1>3, ButtonKeeps, PTL

(* When its timers have run a button is disabled iff its last state was    *)
(* loading, and reset brings back the text it had at first; highlighted    *)
(* and checked radio buttons are the same ones until the active one is     *)
(* clicked again (ButtonSafe: bootstrap.js, setState and toggle), for      *)
(* sequences of states of any length.                                      *)
THEOREM ButtonIsSafe == ButtonSpec => []ButtonSafe
BY ButtonStepsSafely, PTL DEF ButtonSpec

-----------------------------------------------------------------------------
(***************************************************************************)
(* What the timer of a tooltip is for, and who waits on a tip that fades   *)
(* out: without a timer the class "in" tells the last event, and with one  *)
(* hoverState does.                                                        *)
(***************************************************************************)
Tips ==
    [attached : BOOLEAN, in : BOOLEAN, timer : {"none", "show", "hide"},
     hoverState : {"null", "in", "out"}, fadeOuts : 0 .. MaxFadeOuts, enabled : BOOLEAN,
     fade : BOOLEAN, wanted : BOOLEAN, muted : BOOLEAN, hasty : BOOLEAN]

TipAttached(t) ==
    ~t.hasty => /\ t.fadeOuts = 0 => (t.attached <=> t.in)
                /\ t.fadeOuts > 0 => ~t.in

TipTimed(t) ==
    /\ t.timer = "show" => t.wanted /\ t.hoverState = "in"
    /\ t.timer = "hide" => ~t.wanted /\ t.hoverState = "out"

TipSettled(t) ==
    t.timer = "none" => (t.in => t.wanted) /\ (t.wanted => t.in \/ t.muted)

TipFades(t) == t.in => t.fade

TipInv(t) == t \in Tips /\ TipAttached(t) /\ TipTimed(t) /\ TipSettled(t) /\ TipFades(t)

(* A tip that is shown when its timer is gone and it is wanted. *)
LEMMA ShowTipKeeps ==
    ASSUME NEW t \in Tips, TipAttached(t), TipFades(t), t.timer = "none", t.wanted
    PROVE  TipInv(ShowTip(t))
<1> USE DEF Tips, ShowTip
<1>1. ShowTip(t) \in Tips
  <2>1. (t.fadeOuts > 0) \in BOOLEAN OBVIOUS
  <2>2. CASE t.enabled BY <2>1, <2>2
  <2>3. CASE ~t.enabled BY <2>3
  <2>4. QED BY <2>2, <2>3
<1>2. TipAttached(ShowTip(t)) BY DEF TipAttached
<1>3. TipTimed(ShowTip(t)) BY DEF TipTimed
<1>4. TipSettled(ShowTip(t)) BY DEF TipSettled
<1>5. TipFades(ShowTip(t)) BY DEF TipFades
<1>6. QED BY <1>1, <1>2, <1>3, <1>4, <1>5 DEF TipInv

(* A tip that is hidden when its timer is gone and nobody wants it. *)
LEMMA HideTipKeeps ==
    ASSUME NEW t \in Tips, TipAttached(t), TipFades(t), t.timer = "none", ~t.wanted
    PROVE  TipInv(HideTip(t))
<1> USE TooltipAssumption DEF Tips, HideTip
<1>1. HideTip(t) \in Tips
  <2>1. t.fadeOuts < MaxFadeOuts => t.fadeOuts + 1 \in 0 .. MaxFadeOuts OBVIOUS
  <2>2. CASE t.fade BY <2>1, <2>2
  <2>3. CASE ~t.fade BY <2>3
  <2>4. QED BY <2>2, <2>3
<1>2. TipAttached(HideTip(t)) BY DEF TipAttached, TipFades
<1>3. TipTimed(HideTip(t)) BY DEF TipTimed
<1>4. TipSettled(HideTip(t)) BY DEF TipSettled
<1>5. TipFades(HideTip(t)) BY DEF TipFades
<1>6. QED BY <1>1, <1>2, <1>3, <1>4, <1>5 DEF TipInv

(* enter keeps the invariant, with a delay and without. *)
LEMMA EnterKeeps ==
    ASSUME NEW t \in Tips, TipInv(t)
    PROVE  TipInv(Enter(t))
<1> USE TooltipAssumption
<1>1. CASE DelayShow
  <2> USE <1>1 DEF Tips, Enter
  <2>1. Enter(t) \in Tips OBVIOUS
  <2>2. TipAttached(Enter(t)) BY DEF TipInv, TipAttached
  <2>3. TipTimed(Enter(t)) BY DEF TipTimed
  <2>4. TipSettled(Enter(t)) BY DEF TipSettled
  <2>5. TipFades(Enter(t)) BY DEF TipInv, TipFades
  <2>6. QED BY <2>1, <2>2, <2>3, <2>4, <2>5 DEF TipInv
<1>2. CASE ~DelayShow
  <2> DEFINE s == [t EXCEPT !.timer = "none", !.wanted = TRUE]
  <2>1. s \in Tips /\ s.timer = "none" /\ s.wanted BY DEF Tips
  <2>2. TipAttached(s) /\ TipFades(s) BY DEF TipInv, TipAttached, TipFades, Tips
  <2>3. Enter(t) = ShowTip(s) BY <1>2 DEF Enter
  <2> HIDE DEF s
  <2>4. QED BY <2>1, <2>2, <2>3, ShowTipKeeps
<1>3. QED BY <1>1, <1>2

(* leave keeps the invariant, with a delay and without. *)
LEMMA LeaveKeeps ==
    ASSUME NEW t \in Tips, TipInv(t)
    PROVE  TipInv(Leave(t))
<1> USE TooltipAssumption
<1>1. CASE DelayHide
  <2> USE <1>1 DEF Tips, Leave
  <2>1. Leave(t) \in Tips OBVIOUS
  <2>2. TipAttached(Leave(t)) BY DEF TipInv, TipAttached
  <2>3. TipTimed(Leave(t)) BY DEF TipTimed
  <2>4. TipSettled(Leave(t)) BY DEF TipSettled
  <2>5. TipFades(Leave(t)) BY DEF TipInv, TipFades
  <2>6. QED BY <2>1, <2>2, <2>3, <2>4, <2>5 DEF TipInv
<1>2. CASE ~DelayHide
  <2> DEFINE s == [t EXCEPT !.timer = "none", !.wanted = FALSE]
  <2>1. s \in Tips /\ s.timer = "none" /\ ~s.wanted BY DEF Tips
  <2>2. TipAttached(s) /\ TipFades(s) BY DEF TipInv, TipAttached, TipFades, Tips
  <2>3. Leave(t) = HideTip(s) BY <1>2 DEF Leave
  <2> HIDE DEF s
  <2>4. QED BY <2>1, <2>2, <2>3, HideTipKeeps
<1>3. QED BY <1>1, <1>2

(* TipInv holds of the tooltip at first, and every step keeps it. *)
LEMMA TooltipKeeps == TooltipInit /\ [][TooltipNext]_tooltip => []TipInv(tooltip)
<1>1. TooltipInit => TipInv(tooltip)
  BY TooltipAssumption
     DEF TooltipInit, TipInv, Tips, TipAttached, TipTimed, TipSettled, TipFades
<1>2. TipInv(tooltip) /\ [TooltipNext]_tooltip => TipInv(tooltip)'
  <2> SUFFICES ASSUME TipInv(tooltip), [TooltipNext]_tooltip PROVE TipInv(tooltip')
    BY DEF TipInv, TipAttached, TipTimed, TipSettled, TipFades
  <2>1. tooltip \in Tips BY DEF TipInv
  <2>2. CASE TooltipEnter BY <2>1, <2>2, EnterKeeps DEF TooltipEnter
  <2>3. CASE TooltipLeave BY <2>1, <2>3, LeaveKeeps DEF TooltipLeave
  <2>4. CASE TooltipToggle BY <2>1, <2>4, EnterKeeps, LeaveKeeps DEF TooltipToggle
  <2>5. CASE TooltipTimeout
    <3> DEFINE t == [tooltip EXCEPT !.timer = "none"]
    <3>1. t \in Tips /\ t.timer = "none" BY <2>1 DEF Tips
    <3>2. TipAttached(t) /\ TipFades(t)
      BY <2>1 DEF TipInv, TipAttached, TipFades, Tips
    <3>3. CASE tooltip.timer = "show"
      <4>1. t.wanted /\ t.hoverState = "in" BY <2>1, <3>3 DEF TipInv, TipTimed, Tips
      <4>2. tooltip' = ShowTip(t) BY <2>5, <3>3, <4>1 DEF TooltipTimeout
      <4> HIDE DEF t
      <4>3. QED BY <3>1, <3>2, <4>1, <4>2, ShowTipKeeps
    <3>4. CASE tooltip.timer = "hide"
      <4>1. ~t.wanted /\ t.hoverState = "out" BY <2>1, <3>4 DEF TipInv, TipTimed, Tips
      <4>2. tooltip' = HideTip(t) BY <2>5, <3>4, <4>1 DEF TooltipTimeout
      <4> HIDE DEF t
      <4>3. QED BY <3>1, <3>2, <4>1, <4>2, HideTipKeeps
    <3>5. QED BY <2>1, <2>5, <3>3, <3>4 DEF TooltipTimeout, Tips
  <2>6. CASE TooltipFadedOut
    <3> USE <2>1, <2>6, TooltipAssumption DEF TooltipFadedOut, Tips
    <3>1. tooltip' \in Tips
      <4>1. 0 \in 0 .. MaxFadeOuts OBVIOUS
      <4>2. QED BY <4>1, Zenon
    <3>2. TipAttached(tooltip') BY DEF TipInv, TipAttached
    <3>3. TipTimed(tooltip') BY DEF TipInv, TipTimed
    <3>4. TipSettled(tooltip') BY DEF TipInv, TipSettled
    <3>5. TipFades(tooltip') BY DEF TipInv, TipFades
    <3>6. QED BY <3>1, <3>2, <3>3, <3>4, <3>5 DEF TipInv
  <2>7. CASE TooltipToggleEnabled
    <3> USE <2>1, <2>7 DEF TooltipToggleEnabled, Tips
    <3>1. tooltip' \in Tips OBVIOUS
    <3>2. TipAttached(tooltip') BY DEF TipInv, TipAttached
    <3>3. TipTimed(tooltip') BY DEF TipInv, TipTimed
    <3>4. TipSettled(tooltip') BY DEF TipInv, TipSettled
    <3>5. TipFades(tooltip') BY DEF TipInv, TipFades
    <3>6. QED BY <3>1, <3>2, <3>3, <3>4, <3>5 DEF TipInv
  <2>8. CASE UNCHANGED tooltip BY <2>8
  <2>9. QED BY <2>2, <2>3, <2>4, <2>5, <2>6, <2>7, <2>8 DEF TooltipNext
<1>3. QED BY <1>1, <1>2, PTL

LEMMA TooltipStepsSafely == TooltipInit /\ [][TooltipNext]_tooltip => []TooltipFollows
<1>1. TipInv(tooltip) => TooltipFollows
  BY DEF TipInv, Tips, TipAttached, TipSettled, TooltipFollows
<1>2. QED BY <1>1, TooltipKeeps, PTL

(* At rest, and not last shown while it faded out, the tip is there iff the*)
(* last event was an enter, with and without delays.                       *)
THEOREM TooltipIsFollowed == TooltipSpec => []TooltipFollows
BY TooltipStepsSafely, PTL DEF TooltipSpec

-----------------------------------------------------------------------------
(***************************************************************************)
(* The menus.  Said without counting: two menus that are open are one, and *)
(* what is checked of radio buttons is one item.                           *)
(***************************************************************************)
OneOpen(d) == \A m, n \in Menu : d.open[m] /\ d.open[n] => m = n

FocusInside(d) ==
    \A m \in Menu : d.focus[m] # -1 => d.open[m] /\ d.focus[m] \in 0 .. (NumChoices - 1)

OneChecked(d) ==
    \A m \in Menu :
        /\ d.active[m] = d.checked[m] /\ d.label[m] = d.checked[m]
        /\ m \in Radios => \E i \in Choice : d.checked[m] = {i}

DropdownInv ==
    DropdownTypeOK /\ OneOpen(dropdown) /\ FocusInside(dropdown) /\ OneChecked(dropdown)

(* Closing all menus, and opening at most one of them, keeps the invariant. *)
LEMMA ToggleKeeps ==
    ASSUME DropdownInv, NEW m \in Menu, ToggleMenu(m)
    PROVE  DropdownInv'
<1> USE DEF DropdownInv
<1> DEFINE closed == [n \in Menu |-> FALSE]
           none == [n \in Menu |-> -1]
<1>1. dropdown' = [dropdown EXCEPT !.open = [closed EXCEPT ![m] = ~dropdown.open[m]],
                                   !.focus = none]
  BY DEF ToggleMenu, ClearMenus, DropdownTypeOK
<1>2. none \in [Menu -> -1 .. (NumChoices - 1)] BY DropdownAssumption
<1>3. DropdownTypeOK' BY <1>1, <1>2 DEF DropdownTypeOK
<1>4. /\ \A n \in Menu : dropdown'.open[n] => n = m
      /\ dropdown'.focus = none
      /\ dropdown'.active = dropdown.active /\ dropdown'.checked = dropdown.checked
      /\ dropdown'.label = dropdown.label
  BY <1>1 DEF DropdownTypeOK
<1>5. OneOpen(dropdown)' BY <1>4 DEF OneOpen
<1>6. FocusInside(dropdown)' BY <1>4 DEF FocusInside
<1>7. OneChecked(dropdown)' BY <1>4 DEF OneChecked
<1>8. QED BY <1>3, <1>5, <1>6, <1>7

(* So does choosing an item. *)
LEMMA ChangeKeeps ==
    ASSUME DropdownInv, NEW m \in Menu, NEW i \in Choice, DropdownChange(m, i)
    PROVE  DropdownInv'
<1> USE DEF DropdownInv
<1> DEFINE closed == [n \in Menu |-> FALSE]
           none == [n \in Menu |-> -1]
           checked == Checked(m, i)
           active == Highlighted(m, i)
<1>1. dropdown' = [dropdown EXCEPT !.open = closed, !.focus = none,
                                   !.checked = [dropdown.checked EXCEPT ![m] = checked],
                                   !.label = [dropdown.label EXCEPT ![m] = checked],
                                   !.active = [dropdown.active EXCEPT ![m] = active]]
  BY DEF DropdownChange, ClearMenus, DropdownTypeOK
<1>2. none \in [Menu -> -1 .. (NumChoices - 1)] BY DropdownAssumption
<1>3. /\ dropdown.checked[m] \subseteq Choice /\ dropdown.active[m] = dropdown.checked[m]
      /\ m \in Radios => i \notin dropdown.checked[m]
  BY DEF DropdownTypeOK, OneChecked, DropdownChange
<1>4. checked \subseteq Choice /\ (m \in Radios => checked = {i})
  BY <1>3 DEF Checked
<1>5. active = checked
  BY <1>3 DEF Checked, Highlighted
<1> HIDE DEF checked, active
<1>6. DropdownTypeOK' BY <1>1, <1>2, <1>4, <1>5 DEF DropdownTypeOK
<1>7. /\ dropdown'.open = closed /\ dropdown'.focus = none
      /\ dropdown'.checked = [dropdown.checked EXCEPT ![m] = checked]
      /\ dropdown'.label = [dropdown.label EXCEPT ![m] = checked]
      /\ dropdown'.active = [dropdown.active EXCEPT ![m] = active]
  BY <1>1 DEF DropdownTypeOK
<1>8. OneOpen(dropdown)' /\ FocusInside(dropdown)'
  BY <1>7 DEF OneOpen, FocusInside
<1>9. OneChecked(dropdown)'
  BY <1>4, <1>5, <1>7 DEF OneChecked, DropdownTypeOK
<1>10. QED BY <1>6, <1>8, <1>9

(* The invariant holds from the first state, and every step keeps it. *)
LEMMA DropdownKeeps == DropdownSpec => []DropdownInv
<1> USE DropdownAssumption
<1>1. DropdownInit => DropdownInv
  <2> DEFINE first == [m \in Menu |-> IF m \in Radios THEN {1} ELSE {}]
  <2> SUFFICES ASSUME dropdown = [open |-> [m \in Menu |-> FALSE],
                                  focus |-> [m \in Menu |-> -1],
                                  checked |-> first, active |-> first, label |-> first]
               PROVE  DropdownInv
    BY DEF DropdownInit
  <2>1. 1 \in Choice BY DEF Choice
  <2>2. first \in [Menu -> SUBSET Choice] BY <2>1
  <2>3. [m \in Menu |-> -1] \in [Menu -> -1 .. (NumChoices - 1)] OBVIOUS
  <2>4. DropdownTypeOK BY <2>2, <2>3 DEF DropdownTypeOK
  <2>5. OneOpen(dropdown) /\ FocusInside(dropdown) BY DEF OneOpen, FocusInside
  <2>6. OneChecked(dropdown) BY <2>1 DEF OneChecked
  <2>7. QED BY <2>4, <2>5, <2>6 DEF DropdownInv
<1>2. DropdownInv /\ [DropdownNext]_dropdown => DropdownInv'
  <2> SUFFICES ASSUME DropdownInv, [DropdownNext]_dropdown PROVE DropdownInv'
    OBVIOUS
  <2>1. ASSUME NEW m \in Menu, DropdownToggle(m) PROVE DropdownInv'
    BY <2>1, ToggleKeeps DEF DropdownToggle
  <2>2. ASSUME NEW m \in Menu, NEW key \in {"up", "down", "esc"}, DropdownKeyClicks(m, key)
        PROVE  DropdownInv'
    BY <2>2, ToggleKeeps DEF DropdownKeyClicks
  <2>3. ASSUME NEW m \in Menu, DropdownUp(m) \/ DropdownDown(m) PROVE DropdownInv'
    <3>1. PICK f \in 0 .. (NumChoices - 1) :
              dropdown' = [dropdown EXCEPT !.focus = [dropdown.focus EXCEPT ![m] = f]]
      <4>1. dropdown.focus[m] \in -1 .. (NumChoices - 1) BY DEF DropdownInv, DropdownTypeOK
      <4>2. CASE DropdownUp(m)
        <5> DEFINE f == IF dropdown.focus[m] > 0 THEN dropdown.focus[m] - 1 ELSE 0
        <5>1. f \in 0 .. (NumChoices - 1) BY <4>1
        <5>2. dropdown' = [dropdown EXCEPT !.focus = [dropdown.focus EXCEPT ![m] = f]]
          BY <4>2 DEF DropdownUp
        <5>3. QED BY <5>1, <5>2
      <4>3. CASE DropdownDown(m)
        <5> DEFINE f == IF dropdown.focus[m] < NumChoices - 1
                        THEN dropdown.focus[m] + 1 ELSE dropdown.focus[m]
        <5>1. f \in 0 .. (NumChoices - 1) BY <4>1
        <5>2. dropdown' = [dropdown EXCEPT !.focus = [dropdown.focus EXCEPT ![m] = f]]
          BY <4>3 DEF DropdownDown
        <5>3. QED BY <5>1, <5>2
      <4>4. QED BY <2>3, <4>2, <4>3
    <3>2. dropdown.open[m] BY <2>3 DEF DropdownUp, DropdownDown
    <3>3. DropdownTypeOK' BY <3>1 DEF DropdownInv, DropdownTypeOK
    <3>4. /\ dropdown'.open = dropdown.open
          /\ dropdown'.focus = [dropdown.focus EXCEPT ![m] = f]
          /\ dropdown'.active = dropdown.active /\ dropdown'.checked = dropdown.checked
          /\ dropdown'.label = dropdown.label
      BY <3>1 DEF DropdownInv, DropdownTypeOK
    <3>5. FocusInside(dropdown)'
      BY <3>2, <3>4 DEF DropdownInv, DropdownTypeOK, FocusInside
    <3>6. OneOpen(dropdown)' /\ OneChecked(dropdown)'
      BY <3>4 DEF DropdownInv, OneOpen, OneChecked
    <3>7. QED BY <3>3, <3>5, <3>6 DEF DropdownInv
  <2>4. ASSUME NEW m \in Menu, NEW i \in Choice, DropdownChange(m, i) PROVE DropdownInv'
    BY <2>4, ChangeKeeps
  <2>5. CASE DropdownClear
    <3>1. dropdown' = [dropdown EXCEPT !.open = [n \in Menu |-> FALSE],
                                       !.focus = [n \in Menu |-> -1]]
      BY <2>5 DEF DropdownClear, ClearMenus
    <3>2. [n \in Menu |-> -1] \in [Menu -> -1 .. (NumChoices - 1)] OBVIOUS
    <3>3. DropdownTypeOK' BY <3>1, <3>2 DEF DropdownInv, DropdownTypeOK
    <3>4. QED
      BY <3>1, <3>3 DEF DropdownInv, DropdownTypeOK, OneOpen, FocusInside, OneChecked
  <2>6. CASE UNCHANGED dropdown
    BY <2>6 DEF DropdownInv, DropdownTypeOK, OneOpen, FocusInside, OneChecked
  <2>7. QED BY <2>1, <2>2, <2>3, <2>4, <2>5, <2>6 DEF DropdownNext
<1>3. QED BY <1>1, <1>2, PTL DEF DropdownSpec

(* By mouse and keyboard at most one menu is open and has the focus, and   *)
(* inputs, highlighted items and label of each agree (DropdownSafe:        *)
(* bootstrap.js, toggle and keydown; app.js, the selection), for any       *)
(* number of menus and items.                                              *)
THEOREM DropdownIsSafe == DropdownSpec => []DropdownSafe
<1>1. DropdownInv => DropdownSafe
  <2> SUFFICES ASSUME DropdownInv PROVE DropdownSafe
    OBVIOUS
  <2> DEFINE opened == {m \in Menu : dropdown.open[m]}
  <2>1. Cardinality(opened) <= 1
    <3>1. CASE opened = {} BY <3>1, FS_EmptySet
    <3>2. CASE opened # {}
      <4>1. PICK m \in opened : TRUE BY <3>2
      <4>2. opened = {m} BY <4>1 DEF DropdownInv, OneOpen
      <4>3. Cardinality({m}) = 1 BY FS_Singleton
      <4>4. QED BY <4>2, <4>3
    <3>3. QED BY <3>1, <3>2
  <2>2. DropdownOne BY <2>1 DEF DropdownInv, FocusInside, DropdownOne
  <2>3. ASSUME NEW m \in Menu, m \in Radios PROVE Cardinality(dropdown.checked[m]) = 1
    <3>1. PICK i \in Choice : dropdown.checked[m] = {i}
      BY <2>3 DEF DropdownInv, OneChecked
    <3>2. Cardinality({i}) = 1 BY FS_Singleton
    <3>3. QED BY <3>1, <3>2
  <2>4. SelectionAgrees BY <2>3 DEF DropdownInv, OneChecked, SelectionAgrees
  <2>5. QED BY <2>2, <2>4 DEF DropdownSafe
<1>2. QED BY <1>1, DropdownKeeps, PTL

-----------------------------------------------------------------------------
(***************************************************************************)
(* The scroll spy: of the sections that match a position process takes     *)
(* one, and there is one.                                                  *)
(***************************************************************************)
(* A position below the beginning of the first section is in some section:
   the one before the first that begins farther down. *)
LEMMA SomeSectionMatches ==
    ASSUME NEW position \in Nat, position >= Offsets[1]
    PROVE  \E i \in DOMAIN Offsets : Matches(i, position)
<1>1. Offsets \in Seq(Nat \ {0}) /\ Len(Offsets) \in Nat \ {0} /\ DOMAIN Offsets = 1 .. Len(Offsets)
  BY ScrollSpyAssumption
<1> DEFINE Farther == {j \in 1 .. Len(Offsets) + 1 : j = Len(Offsets) + 1 \/ ~(position >= Offsets[j])}
<1>2. PICK j \in Farther : \A x \in Farther : j <= x
  <2>1. Farther \subseteq Nat /\ Len(Offsets) + 1 \in Farther
    BY <1>1
  <2>2. QED BY <2>1, LeastNatural
<1>3. j - 1 \in 1 .. Len(Offsets)
  BY <1>1, <1>2
<1>4. position >= Offsets[j - 1]
  BY <1>1, <1>2, <1>3
<1>5. j - 1 = Len(Offsets) \/ position <= Offsets[(j - 1) + 1]
  BY <1>1, <1>2, <1>3
<1>6. QED BY <1>1, <1>3, <1>4, <1>5 DEF Matches

(* What process makes active of a position above the bottom of the page. *)
LEMMA ProcessFollows ==
    ASSUME NEW active \in {0} \cup DOMAIN Offsets, NEW position \in 0 .. MaxScroll
    PROVE  /\ Process(active, position) \in {0} \cup DOMAIN Offsets
           /\ (position >= Offsets[1] /\ position < MaxScroll) =>
                 /\ Process(active, position) \in DOMAIN Offsets
                 /\ Matches(Process(active, position), position)
<1>1. Offsets \in Seq(Nat \ {0}) /\ Len(Offsets) \in Nat \ {0} /\ DOMAIN Offsets = 1 .. Len(Offsets)
  BY ScrollSpyAssumption
<1>2. MaxScroll \in Nat /\ position \in Nat
  BY ScrollSpyAssumption
<1> DEFINE found == {i \in DOMAIN Offsets : i # active /\ Matches(i, position)}
<1>3. CASE position >= MaxScroll
  <2>1. Process(active, position) = Len(Offsets)
    BY <1>2, <1>3 DEF Process
  <2>2. QED BY <1>1, <1>2, <1>3, <2>1
<1>4. CASE position < MaxScroll /\ found # {}
  <2>1. Process(active, position) = Min(found)
    BY <1>2, <1>4 DEF Process
  <2>2. \E x \in found : \A y \in found : x <= y
    <3>1. found \subseteq Nat /\ found # {}
      BY <1>1, <1>4
    <3>2. QED BY <3>1, LeastNatural
  <2>3. Min(found) \in found
    BY <2>2 DEF Min
  <2>4. QED BY <2>1, <2>3
<1>5. CASE position < MaxScroll /\ found = {}
  <2>1. Process(active, position) = active
    BY <1>2, <1>5 DEF Process
  <2>2. QED BY <1>2, <1>5, <2>1, SomeSectionMatches
<1>6. QED BY <1>2, <1>3, <1>4, <1>5

SpyInv == SpyTypeOK /\ SpySafe

LEMMA SpyKeeps == SpyInit /\ [][SpyNext]_spy => []SpyInv
<1>1. Offsets \in Seq(Nat \ {0}) /\ Len(Offsets) \in Nat \ {0} /\ DOMAIN Offsets = 1 .. Len(Offsets)
  BY ScrollSpyAssumption
<1>2. MaxScroll \in Nat /\ OffsetTop \in Nat
  BY ScrollSpyAssumption
<1>3. ASSUME NEW active \in {0} \cup DOMAIN Offsets, NEW position \in 0 .. MaxScroll,
             NEW target, target = Process(active, position)
      PROVE  (position >= Offsets[1] /\ position < MaxScroll) =>
                /\ target # 0
                /\ Offsets[target] <= position
                /\ target < Len(Offsets) => position <= Offsets[target + 1]
  <2>1. SUFFICES ASSUME position >= Offsets[1], position < MaxScroll
                 PROVE  /\ target # 0
                        /\ Offsets[target] <= position
                        /\ target < Len(Offsets) => position <= Offsets[target + 1]
    OBVIOUS
  <2>2. target \in 1 .. Len(Offsets) /\ Matches(target, position)
    BY <1>1, <1>3, <2>1, ProcessFollows
  <2>3. Offsets[target] \in Nat /\ position \in Nat /\ Len(Offsets) \in Nat
    BY <1>1, <1>2, <2>2
  <2>4. position >= Offsets[target] /\ (target = Len(Offsets) \/ position <= Offsets[target + 1])
    BY <2>2 DEF Matches
  <2>5. target \in Int /\ target >= 1
    BY <1>1, <2>2
  <2>6. QED BY <2>3, <2>4, <2>5
<1>4. ASSUME NEW s \in [scroll : 0 .. MaxScroll, activeTarget : {0} \cup DOMAIN Offsets,
                        top : BOOLEAN, visible : BOOLEAN, checks : BOOLEAN, missed : BOOLEAN]
      PROVE  /\ CheckPosition(s) \in [scroll : 0 .. MaxScroll, activeTarget : {0} \cup DOMAIN Offsets,
                        top : BOOLEAN, visible : BOOLEAN, checks : BOOLEAN, missed : BOOLEAN]
             /\ CheckPosition(s).scroll = s.scroll
             /\ CheckPosition(s).activeTarget = s.activeTarget
             /\ CheckPosition(s).visible = s.visible
             /\ s.visible => CheckPosition(s).top = (s.scroll <= OffsetTop)
  <2>1. (s.scroll <= OffsetTop) \in BOOLEAN
    OBVIOUS
  <2>2. CASE s.visible
    BY <2>1, <2>2 DEF CheckPosition
  <2>3. CASE ~s.visible
    BY <2>3 DEF CheckPosition
  <2>4. QED BY <2>2, <2>3
<1>5. SpyInit => SpyInv
  <2> SUFFICES ASSUME SpyInit PROVE SpyInv
    OBVIOUS
  <2>1. 0 \in 0 .. MaxScroll /\ 0 \in {0} \cup DOMAIN Offsets /\ Process(0, 0) \in {0} \cup DOMAIN Offsets
    BY <1>2, ProcessFollows
  <2>2. SpyTypeOK /\ spy.scroll = 0 /\ spy.activeTarget = Process(0, 0)
    BY <2>1 DEF SpyInit, SpyTypeOK
  <2>3. spy.top = TRUE /\ (spy.scroll <= OffsetTop) = TRUE
    BY <1>2, <2>2 DEF SpyInit
  <2>4. SpyFollows
    BY <1>3, <2>1, <2>2 DEF SpyFollows
  <2>5. QED BY <2>2, <2>3, <2>4 DEF SpyInv, SpySafe, AffixFollows
<1>6. SpyInv /\ [SpyNext]_spy => SpyInv'
  <2> SUFFICES ASSUME SpyInv, [SpyNext]_spy PROVE SpyInv'
    OBVIOUS
  <2>1. SpyTypeOK /\ SpyFollows /\ AffixFollows
    BY DEF SpyInv, SpySafe
  <2>2. ASSUME NEW position \in 0 .. MaxScroll, SpyScroll(position) PROVE SpyInv'
    <3> DEFINE s == [spy EXCEPT !.scroll = position, !.activeTarget = Process(@, position)]
    <3>1. spy.activeTarget \in {0} \cup DOMAIN Offsets
          /\ Process(spy.activeTarget, position) \in {0} \cup DOMAIN Offsets
      BY <2>1, ProcessFollows DEF SpyTypeOK
    <3>2. /\ s \in [scroll : 0 .. MaxScroll, activeTarget : {0} \cup DOMAIN Offsets,
                    top : BOOLEAN, visible : BOOLEAN, checks : BOOLEAN, missed : BOOLEAN]
          /\ s.scroll = position /\ s.activeTarget = Process(spy.activeTarget, position)
      BY <2>1, <3>1 DEF SpyTypeOK
    <3>3. spy' = CheckPosition(s)
      BY <2>2 DEF SpyScroll
    <3> HIDE DEF s
    <3>4. SpyTypeOK' /\ AffixFollows'
      BY <1>4, <3>2, <3>3 DEF SpyTypeOK, AffixFollows
    <3>5. SpyFollows'
      <4>1. spy'.scroll = position /\ spy'.activeTarget = Process(spy.activeTarget, position)
        BY <1>4, <3>2, <3>3
      <4>2. QED BY <1>3, <3>1, <4>1 DEF SpyFollows
    <3>6. QED BY <3>4, <3>5 DEF SpyInv, SpySafe
  <2>3. CASE SpyClick \/ SpyHideOrShow
    <3>1. SpyTypeOK' /\ spy'.checks
      BY <2>1, <2>3 DEF SpyClick, SpyHideOrShow, SpyTypeOK
    <3>2. spy'.scroll = spy.scroll /\ spy'.activeTarget = spy.activeTarget
      BY <2>1, <2>3 DEF SpyClick, SpyHideOrShow, SpyTypeOK
    <3>3. QED BY <2>1, <3>1, <3>2 DEF SpyFollows, AffixFollows, SpyInv, SpySafe
  <2>4. CASE SpyCheck
    <3> DEFINE s == [spy EXCEPT !.checks = FALSE]
    <3>1. /\ s \in [scroll : 0 .. MaxScroll, activeTarget : {0} \cup DOMAIN Offsets,
                    top : BOOLEAN, visible : BOOLEAN, checks : BOOLEAN, missed : BOOLEAN]
          /\ s.scroll = spy.scroll /\ s.activeTarget = spy.activeTarget
      BY <2>1 DEF SpyTypeOK
    <3>2. spy' = CheckPosition(s)
      BY <2>4 DEF SpyCheck
    <3> HIDE DEF s
    <3>3. SpyTypeOK' /\ AffixFollows' /\ spy'.scroll = spy.scroll /\ spy'.activeTarget = spy.activeTarget
      BY <1>4, <3>1, <3>2 DEF SpyTypeOK, AffixFollows
    <3>4. QED BY <2>1, <3>3 DEF SpyFollows, SpyInv, SpySafe
  <2>5. CASE UNCHANGED spy
    BY <2>1, <2>5 DEF SpyInv, SpySafe, SpyTypeOK, SpyFollows, AffixFollows
  <2>6. QED BY <2>2, <2>3, <2>4, <2>5 DEF SpyNext
<1>7. QED BY <1>5, <1>6, PTL

(* The navigation follows the window, whatever the sections: what is
   highlighted contains the position, what is pinned is below the offset. *)
THEOREM SpyIsSafe == SpySpec => []SpySafe
BY SpyKeeps, PTL DEF SpySpec, SpyInv

-----------------------------------------------------------------------------
(***************************************************************************)
(* The accordion.  CollapseSafe needs that every instance knows the parent *)
(* (so that show sees what is open), that an own callback waits only while *)
(* its instance moves (so that no later click finds it), and of a panel    *)
(* that is open or opening that its link says so.                          *)
(***************************************************************************)
Completes == [to : {"in", "out"}, own : BOOLEAN]

Opens(w) == \E i \in DOMAIN w : w[i].to = "in"
Owned(w) == \E i \in DOMAIN w : w[i].own

Up(p) == collapse.in[p] \/ Opens(collapse.waiting[p])

OneUp == \A p, q \in Panel : Up(p) /\ Up(q) => p = q

KnowParent == \A p \in Panel : collapse.inst[p] # "none" => collapse.parented[p]

MovesByOwn == \A p \in Panel : collapse.inst[p] = "moving" <=> Owned(collapse.waiting[p])

MovingIsShut == \A p \in Panel : collapse.inst[p] = "moving" => ~collapse.in[p]

LinksOfUp == \A p \in Panel : Up(p) => ~collapse.folded[p]

CollapseInv ==
    /\ CollapseTypeOK /\ MovesByOwn /\ MovingIsShut
    /\ ~collapse.overlapped => OneUp /\ KnowParent
    /\ ~collapse.overlapped /\ ~collapse.hasty => LinksOfUp

(* What one more callback adds to those that wait. *)
LEMMA WaitsLonger ==
    ASSUME NEW w \in Seq(Completes), NEW x \in Completes
    PROVE  /\ Append(w, x) \in Seq(Completes)
           /\ Opens(Append(w, x)) <=> Opens(w) \/ x.to = "in"
           /\ Owned(Append(w, x)) <=> Owned(w) \/ x.own
<1>1. /\ Append(w, x) \in Seq(Completes)
      /\ DOMAIN w = 1 .. Len(w) /\ Len(w) \in Nat
      /\ DOMAIN Append(w, x) = 1 .. Len(w) + 1
      /\ \A i \in 1 .. Len(w) : Append(w, x)[i] = w[i]
      /\ Append(w, x)[Len(w) + 1] = x
  BY LenProperties, AppendProperties
<1>2. \A i \in 1 .. Len(w) + 1 : i \in 1 .. Len(w) \/ i = Len(w) + 1
  BY <1>1
<1>3. Len(w) + 1 \in 1 .. Len(w) + 1 /\ \A i \in 1 .. Len(w) : i \in 1 .. Len(w) + 1
  BY <1>1
<1>4. Opens(Append(w, x)) <=> Opens(w) \/ x.to = "in"
  BY <1>1, <1>2, <1>3 DEF Opens
<1>5. Owned(Append(w, x)) <=> Owned(w) \/ x.own
  BY <1>1, <1>2, <1>3 DEF Owned
<1>6. QED BY <1>1, <1>4, <1>5

(* The first of one active panel is that panel. *)
LEMMA MinOfOne ==
    ASSUME NEW q \in Nat
    PROVE  Min({q}) = q
BY DEF Min

(* Under these conditions the only panel that can be open is seen by show. *)
LEMMA ActiveIsSeen ==
    ASSUME CollapseTypeOK, OneUp, NEW p \in Panel, NEW q \in Panel, collapse.in[q],
           NEW parented \in BOOLEAN, parented
    PROVE  /\ Actives(p, parented) = {q}
           /\ Min(Actives(p, parented)) = q
<1>1. Actives(p, parented) = {q}
  BY DEF OneUp, Up, Actives
<1>2. q \in Nat
  BY CollapseAssumption DEF Panel
<1>3. QED BY <1>1, <1>2, MinOfOne

(* The links after a click on the link of p. *)
LEMMA ClickDoes ==
    ASSUME CollapseTypeOK, NEW p \in Panel
    PROVE  /\ Click(p) = [collapse EXCEPT !.folded = Click(p).folded, !.hasty = Click(p).hasty]
           /\ Click(p).folded \in [Panel -> BOOLEAN]
           /\ collapse.inst[p] # "moving" => Click(p).folded[p] = collapse.in[p]
           /\ Click(p).hasty = ~CollapseRests
<1>1. \A q \in Panel : collapse.folded[q] \in BOOLEAN /\ collapse.in[q] \in BOOLEAN
  BY DEF CollapseTypeOK
<1>2. Click(p).folded = [q \in Panel |-> IF collapse.inst[p] = "moving" THEN collapse.folded[q]
                                         ELSE q # p \/ collapse.in[p]]
  BY DEF CollapseTypeOK, Click
<1>3. Click(p).hasty = ~CollapseRests
  BY DEF CollapseTypeOK, Click
<1>4. Click(p) = [collapse EXCEPT !.folded = Click(p).folded, !.hasty = Click(p).hasty]
  BY <1>2, <1>3 DEF CollapseTypeOK, Click
<1>5. Click(p).folded \in [Panel -> BOOLEAN]
  BY <1>1, <1>2
<1>6. collapse.inst[p] # "moving" => Click(p).folded[p] = collapse.in[p]
  BY <1>1, <1>2
<1>7. QED BY <1>3, <1>4, <1>5, <1>6

(* What show does when nothing blocks it, panel by panel. *)
LEMMA ShowDoes ==
    ASSUME CollapseTypeOK, NEW p \in Panel, ~collapse.in[p], NEW parented \in BOOLEAN,
           NEW actives, actives = Actives(p, parented), ~Blocked(actives), Show(p, parented, Click(p))
    PROVE  /\ CollapseTypeOK'
           /\ collapse'.folded = Click(p).folded /\ collapse'.hasty = Click(p).hasty
           /\ collapse'.overlapped = (collapse.overlapped \/ \E q \in Panel \ {p} : Opening(q))
           /\ \A q \in Panel :
                 /\ collapse'.in[q] = (collapse.in[q] /\ ~HidesToo(actives, q))
                 /\ Opens(collapse'.waiting[q]) <=> Opens(collapse.waiting[q]) \/ q = p
                 /\ Owned(collapse'.waiting[q]) <=>
                       Owned(collapse.waiting[q]) \/ q = p \/ (HidesToo(actives, q) /\ HasData(actives))
                 /\ collapse'.inst[q] = IF q = p \/ (HidesToo(actives, q) /\ HasData(actives)) THEN "moving"
                                        ELSE IF q \in actives /\ ~HasData(actives)
                                             THEN "none" ELSE collapse.inst[q]
                 /\ collapse'.parented[q] =
                       IF q = p THEN parented
                       ELSE collapse.parented[q] /\ ~(HidesToo(actives, q) /\ collapse.inst[q] = "none")
<1> DEFINE hides(q) == HidesToo(actives, q)
           data == HasData(actives)
           in == [q \in Panel |-> collapse.in[q] /\ ~hides(q)]
           inst == [q \in Panel |-> IF q = p \/ (hides(q) /\ ~(q \in actives /\ ~data)) THEN "moving"
                                    ELSE IF q \in actives /\ ~data THEN "none" ELSE collapse.inst[q]]
           knows == [q \in Panel |-> IF q = p THEN parented
                                     ELSE collapse.parented[q] /\ ~(hides(q) /\ collapse.inst[q] = "none")]
           waiting == [q \in Panel |->
                          CASE q = p -> Append(collapse.waiting[q], Complete("in"))
                            [] q # p /\ hides(q) -> Append(collapse.waiting[q],
                                                       [to |-> "out", own |-> ~(q \in actives /\ ~data)])
                            [] OTHER -> collapse.waiting[q]]
           over == collapse.overlapped \/ \E q \in Panel \ {p} : Opening(q)
           click == Click(p)
<1>1. /\ click = [collapse EXCEPT !.folded = click.folded, !.hasty = click.hasty]
      /\ click.folded \in [Panel -> BOOLEAN]
      /\ click.hasty = ~CollapseRests
  BY ClickDoes
<1>2. collapse' = [click EXCEPT !.in = in, !.inst = inst, !.parented = knows,
                                !.waiting = waiting, !.overlapped = over]
  <2> HIDE DEF click
  <2>1. /\ click.in = collapse.in /\ click.inst = collapse.inst
        /\ click.parented = collapse.parented /\ click.waiting = collapse.waiting
        /\ click.overlapped = collapse.overlapped
    BY <1>1 DEF CollapseTypeOK
  <2>2. QED BY <2>1 DEF Show, click
<1>3. \A q \in Panel : collapse.waiting[q] \in Seq(Completes)
  BY DEF CollapseTypeOK, Completes
<1>4. ASSUME NEW q \in Panel
      PROVE  /\ waiting[q] \in Seq(Completes)
             /\ Opens(waiting[q]) <=> Opens(collapse.waiting[q]) \/ q = p
             /\ Owned(waiting[q]) <=> Owned(collapse.waiting[q]) \/ q = p \/ (hides(q) /\ data)
  <2>1. CASE q = p
    <3>1. waiting[q] = Append(collapse.waiting[q], Complete("in")) /\ Complete("in") \in Completes
      BY <2>1 DEF Complete, Completes
    <3>2. Complete("in").to = "in" /\ Complete("in").own
      BY DEF Complete
    <3>3. QED BY <1>3, <2>1, <3>1, <3>2, WaitsLonger
  <2>2. CASE q # p /\ hides(q)
    <3> DEFINE x == [to |-> "out", own |-> ~(q \in actives /\ ~data)]
    <3>1. waiting[q] = Append(collapse.waiting[q], x)
      BY <2>2
    <3>2. x \in Completes /\ x.to # "in"
      BY DEF Completes
    <3>3. x.own <=> data
      BY <2>2 DEF HidesToo
    <3> HIDE DEF x, waiting
    <3>4. QED BY <1>3, <2>2, <3>1, <3>2, <3>3, WaitsLonger
  <2>3. CASE q # p /\ ~hides(q)
    BY <1>3, <2>3
  <2>4. QED BY <2>1, <2>2, <2>3
<1>5. in \in [Panel -> BOOLEAN] /\ knows \in [Panel -> BOOLEAN] /\ over \in BOOLEAN
  BY DEF CollapseTypeOK
<1>6. inst \in [Panel -> {"none", "idle", "moving"}]
  BY DEF CollapseTypeOK
<1>7. waiting \in [Panel -> Seq(Completes)]
  BY <1>4
<1>8. /\ collapse'.in = in /\ collapse'.inst = inst /\ collapse'.parented = knows
      /\ collapse'.waiting = waiting /\ collapse'.overlapped = over
      /\ collapse'.folded = click.folded /\ collapse'.hasty = click.hasty
  <2> HIDE DEF in, inst, knows, waiting, over, click
  <2>1. QED BY <1>1, <1>2 DEF CollapseTypeOK
<1>9. CollapseTypeOK'
  <2>1. click.hasty \in BOOLEAN
    BY <1>1 DEF CollapseTypeOK, CollapseRests
  <2> HIDE DEF in, inst, knows, waiting, over, click
  <2>2. QED BY <1>1, <1>2, <1>5, <1>6, <1>7, <2>1 DEF CollapseTypeOK, Completes
<1>10. \A q \in Panel : hides(q) => q \in actives
  BY DEF HidesToo
<1>11. QED
  BY <1>4, <1>8, <1>9, <1>10

LEMMA ClickOpensKeeps ==
    ASSUME CollapseInv, NEW p \in Panel, ClickOpens(p)
    PROVE  CollapseInv'
<1>0. PICK parented \in BOOLEAN :
          parented = (collapse.inst[p] = "none" \/ collapse.parented[p])
  OBVIOUS
<1> DEFINE actives == Actives(p, parented)
<1>1. CollapseTypeOK /\ MovesByOwn /\ MovingIsShut
  BY DEF CollapseInv
<1>2. ~collapse.in[p] /\ collapse.inst[p] # "moving" /\ Show(p, parented, Click(p))
  BY <1>0 DEF ClickOpens
<1>3. \A q \in actives : q \in Panel /\ collapse.in[q] /\ collapse.inst[q] # "moving"
  BY <1>1 DEF Actives, MovingIsShut
<1>4. \A q \in Panel : HidesToo(actives, q) <=> q \in actives
  BY <1>3 DEF HidesToo
<1>5. ~Blocked(actives)
  <2>1. actives # {} => Min(actives) \in actives
    <3>1. actives \subseteq Nat
      BY <1>3, CollapseAssumption DEF Panel
    <3>2. actives # {} => \E x \in actives : \A y \in actives : x <= y
      BY <3>1, LeastNatural
    <3>3. QED BY <3>2 DEF Min
  <2>2. QED BY <1>3, <2>1 DEF Blocked, HasData
<1> HIDE DEF actives
<1>6. /\ CollapseTypeOK'
      /\ collapse'.folded = Click(p).folded /\ collapse'.hasty = Click(p).hasty
      /\ collapse'.overlapped = (collapse.overlapped \/ \E q \in Panel \ {p} : Opening(q))
      /\ \A q \in Panel :
            /\ collapse'.in[q] = (collapse.in[q] /\ ~HidesToo(actives, q))
            /\ Opens(collapse'.waiting[q]) <=> Opens(collapse.waiting[q]) \/ q = p
            /\ Owned(collapse'.waiting[q]) <=>
                  Owned(collapse.waiting[q]) \/ q = p \/ (HidesToo(actives, q) /\ HasData(actives))
            /\ collapse'.inst[q] = IF q = p \/ (HidesToo(actives, q) /\ HasData(actives)) THEN "moving"
                                   ELSE IF q \in actives /\ ~HasData(actives)
                                        THEN "none" ELSE collapse.inst[q]
            /\ collapse'.parented[q] =
                  IF q = p THEN parented
                  ELSE collapse.parented[q] /\ ~(HidesToo(actives, q) /\ collapse.inst[q] = "none")
  BY <1>1, <1>2, <1>5, ShowDoes DEF actives
<1>7. MovesByOwn'
  BY <1>1, <1>3, <1>4, <1>6 DEF MovesByOwn
<1>8. MovingIsShut'
  BY <1>1, <1>2, <1>3, <1>4, <1>6 DEF MovingIsShut
<1>9. ASSUME ~collapse'.overlapped PROVE OneUp' /\ KnowParent' /\ parented
  <2>1. OneUp /\ KnowParent /\ ~collapse.overlapped
    BY <1>4, <1>6, <1>9 DEF CollapseInv
  <2>2. \A q \in Panel : q # p => ~Opens(collapse.waiting[q])
    BY <1>4, <1>6, <1>9 DEF Opening, Opens
  <2>3. parented
    BY <1>0, <2>1 DEF KnowParent
  <2>4. \A q \in Panel : collapse.in[q] => q \in actives
    BY <2>3 DEF Actives, actives
  <2>5. OneUp'
    BY <1>4, <1>6, <2>2, <2>4 DEF OneUp, Up
  <2>6. ASSUME NEW q \in Panel, q # p, q \in actives, collapse.inst[q] = "none" PROVE ~HasData(actives)
    <3>1. Min(actives) = q
      BY <1>1, <1>3, <2>1, <2>3, <2>6, ActiveIsSeen DEF actives
    <3>2. QED BY <2>6, <3>1 DEF HasData
  <2>7. KnowParent'
    BY <1>4, <1>6, <2>1, <2>3, <2>6 DEF KnowParent
  <2>8. QED BY <2>3, <2>5, <2>7
<1>10. ASSUME ~collapse'.overlapped, ~collapse'.hasty PROVE LinksOfUp'
  <2>1. CollapseRests
    BY <1>1, <1>4, <1>6, <1>10, ClickDoes DEF CollapseTypeOK
  <2>2. \A q \in Panel : ~Opening(q)
    BY <2>1 DEF CollapseRests, Opening
  <2>3. \A q \in Panel : collapse.in[q] => q \in actives
    BY <1>9, <1>10 DEF Actives, actives
  <2>4. ASSUME NEW q \in Panel, Up(q)' PROVE q = p
    BY <1>4, <1>6, <2>2, <2>3, <2>4 DEF Up, Opening, Opens
  <2>5. ~collapse'.folded[p]
    BY <1>1, <1>2, <1>4, <1>6, ClickDoes
  <2>6. QED BY <2>4, <2>5 DEF LinksOfUp
<1>11. QED BY <1>6, <1>7, <1>8, <1>9, <1>10 DEF CollapseInv

LEMMA ClickClosesKeeps ==
    ASSUME CollapseInv, NEW p \in Panel, ClickCloses(p)
    PROVE  CollapseInv'
<1> DEFINE parented == collapse.inst[p] = "none" \/ collapse.parented[p]
           click == Click(p)
           waits == Append(collapse.waiting[p], Complete("out"))
<1>1. CollapseTypeOK /\ MovesByOwn /\ MovingIsShut /\ parented \in BOOLEAN
  BY DEF CollapseInv, CollapseTypeOK
<1>2. collapse.in[p] /\ collapse.inst[p] # "moving" /\ Hide(p, parented, click)
  BY DEF ClickCloses
<1>3. /\ click = [collapse EXCEPT !.folded = click.folded, !.hasty = click.hasty]
      /\ click.folded \in [Panel -> BOOLEAN]
      /\ click.hasty = ~CollapseRests
  BY <1>1, ClickDoes
<1>4. /\ waits \in Seq(Completes)
      /\ Opens(waits) <=> Opens(collapse.waiting[p])
      /\ Owned(waits)
  <2>1. collapse.waiting[p] \in Seq(Completes) /\ Complete("out") \in Completes
        /\ Complete("out").to # "in" /\ Complete("out").own
    BY <1>1 DEF CollapseTypeOK, Completes, Complete
  <2>2. QED BY <2>1, WaitsLonger
<1> HIDE DEF click, waits
<1>5. collapse' = [click EXCEPT !.in = [collapse.in EXCEPT ![p] = FALSE],
                                !.inst = [collapse.inst EXCEPT ![p] = "moving"],
                                !.parented = [collapse.parented EXCEPT ![p] = parented],
                                !.waiting = [collapse.waiting EXCEPT ![p] = waits]]
  <2>1. /\ click.in = collapse.in /\ click.inst = collapse.inst
        /\ click.parented = collapse.parented /\ click.waiting = collapse.waiting
    BY <1>1, <1>3 DEF CollapseTypeOK
  <2>2. QED BY <1>2, <2>1 DEF Hide, waits
<1>6. /\ collapse'.in = [collapse.in EXCEPT ![p] = FALSE]
      /\ collapse'.inst = [collapse.inst EXCEPT ![p] = "moving"]
      /\ collapse'.parented = [collapse.parented EXCEPT ![p] = parented]
      /\ collapse'.waiting = [collapse.waiting EXCEPT ![p] = waits]
      /\ collapse'.overlapped = collapse.overlapped /\ collapse'.hasty = click.hasty
  BY <1>1, <1>3, <1>5 DEF CollapseTypeOK
<1>7. CollapseTypeOK'
  <2>1. click.hasty \in BOOLEAN
    BY <1>1, <1>3 DEF CollapseTypeOK, CollapseRests
  <2>2. QED BY <1>1, <1>3, <1>4, <1>5, <2>1 DEF CollapseTypeOK, Completes
<1>8. MovesByOwn' /\ MovingIsShut'
  BY <1>1, <1>4, <1>6 DEF MovesByOwn, MovingIsShut, CollapseTypeOK
<1>9. \A q \in Panel : Up(q)' => Up(q)
  BY <1>1, <1>4, <1>6 DEF Up, CollapseTypeOK
<1>10. ~collapse'.overlapped => OneUp' /\ KnowParent'
  BY <1>1, <1>6, <1>9 DEF CollapseInv, OneUp, KnowParent, CollapseTypeOK
<1>11. ASSUME ~collapse'.overlapped, ~collapse'.hasty PROVE LinksOfUp'
  <2>1. CollapseRests
    BY <1>3, <1>6, <1>11
  <2>2. OneUp
    BY <1>6, <1>11 DEF CollapseInv
  <2>3. \A q \in Panel : ~Up(q)'
    <3>1. ~collapse'.in[p] /\ ~Opens(collapse'.waiting[p])
      BY <1>1, <1>4, <1>6, <2>1 DEF CollapseRests, Opens, CollapseTypeOK
    <3>2. QED BY <1>2, <1>9, <2>2, <3>1 DEF OneUp, Up
  <2>4. QED BY <2>3 DEF LinksOfUp
<1>12. QED BY <1>7, <1>8, <1>10, <1>11 DEF CollapseInv

LEMMA CollapseEndKeeps ==
    ASSUME CollapseInv, NEW p \in Panel, CollapseEnd(p)
    PROVE  CollapseInv'
<1>1. CollapseTypeOK /\ MovesByOwn /\ MovingIsShut
  BY DEF CollapseInv
<1>2. \A q \in Panel : collapse.waiting[q] \in Seq(Completes)
  BY <1>1 DEF CollapseTypeOK, Completes
<1> DEFINE own == Owned(collapse.waiting[p])
<1>3. collapse' = [collapse EXCEPT !.waiting[p] = <<>>,
                                   !.in[p] = collapse.in[p] \/ Opens(collapse.waiting[p]),
                                   !.inst[p] = IF own THEN "idle" ELSE collapse.inst[p]]
  BY <1>1 DEF CollapseEnd, Owned, Opens, Opening, CollapseTypeOK
<1>4. (collapse.in[p] \/ Opens(collapse.waiting[p])) \in BOOLEAN /\ <<>> \in Seq(Completes)
  BY EmptySeq
<1> HIDE DEF own
<1>5. /\ CollapseTypeOK'
      /\ collapse'.waiting = [collapse.waiting EXCEPT ![p] = <<>>]
      /\ collapse'.in = [collapse.in EXCEPT ![p] = collapse.in[p] \/ Opens(collapse.waiting[p])]
      /\ collapse'.inst = [collapse.inst EXCEPT ![p] = IF own THEN "idle" ELSE collapse.inst[p]]
      /\ collapse'.parented = collapse.parented /\ collapse'.folded = collapse.folded
      /\ collapse'.overlapped = collapse.overlapped /\ collapse'.hasty = collapse.hasty
  BY <1>1, <1>3, <1>4 DEF CollapseTypeOK, Completes
<1>6. ~Owned(<<>>) /\ ~Opens(<<>>)
  BY DEF Owned, Opens
<1>7. own <=> collapse.inst[p] = "moving"
  BY <1>1 DEF MovesByOwn, own
<1>8. MovesByOwn'
  BY <1>1, <1>5, <1>6, <1>7 DEF MovesByOwn, CollapseTypeOK
<1>9. MovingIsShut'
  BY <1>1, <1>5, <1>7 DEF MovingIsShut, CollapseTypeOK
<1>10. \A q \in Panel : Up(q)' => Up(q)
  BY <1>1, <1>5, <1>6 DEF Up, CollapseTypeOK
<1>11. ~collapse'.overlapped => OneUp' /\ KnowParent'
  <2> SUFFICES ASSUME ~collapse.overlapped PROVE OneUp' /\ KnowParent'
    BY <1>5
  <2>1. OneUp /\ KnowParent
    BY DEF CollapseInv
  <2>2. \A q \in Panel : collapse'.inst[q] # "none" => collapse.inst[q] # "none"
    BY <1>1, <1>5, <1>7 DEF CollapseTypeOK
  <2>3. QED BY <1>5, <1>10, <2>1, <2>2 DEF OneUp, KnowParent
<1>12. ~collapse'.overlapped /\ ~collapse'.hasty => LinksOfUp'
  BY <1>5, <1>10 DEF CollapseInv, LinksOfUp
<1>13. QED BY <1>5, <1>8, <1>9, <1>11, <1>12 DEF CollapseInv

LEMMA ClickIgnoredKeeps ==
    ASSUME CollapseInv, NEW p \in Panel, ClickIgnored(p)
    PROVE  CollapseInv'
<1>1. CollapseTypeOK /\ MovesByOwn /\ MovingIsShut
  BY DEF CollapseInv
<1>2. ~CollapseRests
  BY <1>1 DEF ClickIgnored, MovesByOwn, Owned, CollapseRests
<1>3. collapse' = [collapse EXCEPT !.folded = Click(p).folded, !.hasty = TRUE]
      /\ Click(p).folded \in [Panel -> BOOLEAN]
  <2>1. Click(p).hasty = TRUE
    BY <1>1, <1>2, ClickDoes
  <2>2. QED BY <1>1, <2>1, ClickDoes DEF ClickIgnored
<1>4. /\ CollapseTypeOK' /\ collapse'.hasty
      /\ collapse'.in = collapse.in /\ collapse'.inst = collapse.inst
      /\ collapse'.waiting = collapse.waiting /\ collapse'.parented = collapse.parented
      /\ collapse'.overlapped = collapse.overlapped
  BY <1>1, <1>3 DEF CollapseTypeOK
<1>5. QED
  BY <1>1, <1>4 DEF CollapseInv, MovesByOwn, MovingIsShut, OneUp, Up, KnowParent

LEMMA CollapseKeeps == CollapseInit /\ [][CollapseNext]_collapse => []CollapseInv
<1>1. CollapseInit => CollapseInv
  <2> SUFFICES ASSUME CollapseInit PROVE CollapseInv
    OBVIOUS
  <2>1. NumPanels \in Panel /\ <<>> \in Seq(Completes)
    BY CollapseAssumption, EmptySeq DEF Panel
  <2>2. CollapseTypeOK
    BY <2>1 DEF CollapseInit, CollapseTypeOK, Completes
  <2>3. \A p \in Panel : /\ collapse.in[p] <=> p = NumPanels
                         /\ collapse.inst[p] = "none" /\ collapse.waiting[p] = <<>>
                         /\ ~collapse.folded[p]
    BY DEF CollapseInit
  <2>4. \A p \in Panel : Up(p) <=> p = NumPanels
    BY <2>3 DEF Up, Opens
  <2>5. MovesByOwn /\ MovingIsShut /\ OneUp /\ KnowParent /\ LinksOfUp
    BY <2>3, <2>4 DEF MovesByOwn, MovingIsShut, OneUp, KnowParent, LinksOfUp, Owned
  <2>6. ~collapse.overlapped
    BY DEF CollapseInit
  <2>7. QED BY <2>2, <2>5, <2>6 DEF CollapseInv
<1>2. CollapseInv /\ [CollapseNext]_collapse => CollapseInv'
  <2>1. ASSUME CollapseInv, UNCHANGED collapse PROVE CollapseInv'
    BY <2>1 DEF CollapseInv, CollapseTypeOK, MovesByOwn, MovingIsShut, OneUp, Up, KnowParent, LinksOfUp
  <2>2. QED BY <2>1, ClickOpensKeeps, ClickClosesKeeps, ClickIgnoredKeeps, CollapseEndKeeps
               DEF CollapseNext
<1>3. QED BY <1>1, <1>2, PTL

LEMMA CollapseInvSafe == CollapseInv => CollapseSafe
<1> SUFFICES ASSUME CollapseInv PROVE CollapseSafe
  OBVIOUS
<1>1. CollapseTypeOK /\ MovesByOwn
  BY DEF CollapseInv
<1>2. CollapseNotStuck
  BY <1>1 DEF MovesByOwn, Owned, CollapseNotStuck
<1>3. CollapseOne
  <2> SUFFICES ASSUME ~collapse.overlapped
               PROVE  Cardinality({p \in Panel : collapse.in[p] \/ Opening(p)}) <= 1
    BY DEF CollapseOne
  <2> DEFINE up == {p \in Panel : collapse.in[p] \/ Opening(p)}
  <2>1. \A p, q \in up : p = q
    BY DEF CollapseInv, OneUp, Up, Opening, Opens
  <2>2. CASE up = {}
    BY <2>2, FS_EmptySet
  <2>3. CASE up # {}
    <3>1. PICK p \in up : up = {p}
      BY <2>1, <2>3
    <3>2. Cardinality({p}) = 1
      BY FS_Singleton
    <3>3. QED BY <3>1, <3>2
  <2>4. QED BY <2>2, <2>3
<1>4. CollapseLinks
  BY DEF CollapseInv, LinksOfUp, Up, CollapseLinks
<1>5. QED BY <1>2, <1>3, <1>4 DEF CollapseSafe

(* The accordion, of any number of panels: none is stuck, at most one is
   open, links tell which - with the exceptions CollapseSafe names. *)
THEOREM AccordionIsSafe == CollapseSpec => []CollapseSafe
BY CollapseKeeps, CollapseInvSafe, PTL DEF CollapseSpec

-----------------------------------------------------------------------------
(* The dialog: callbacks of the backdrop and of the dialog itself. *)
(* The callbacks of one end event run one after the other: *)
CallbacksRuns(V, base, seq, h) ==
    /\ \A k \in 0 .. Len(seq) : h[k] \in V
    /\ h[0] = base
    /\ \A k \in 1 .. Len(seq) : h[k] = RunCallback(h[k - 1], seq[k])
    /\ FoldLeft(RunCallback, base, seq) = h[Len(seq)]

LEMMA CallbacksGoesThrough ==
    ASSUME NEW V, NEW C, NEW base \in V, NEW seq \in Seq(C),
           \A v \in V, c \in C : RunCallback(v, c) \in V
    PROVE  \E h : CallbacksRuns(V, base, seq, h)
<1> DEFINE n == Len(seq)
           F == [i \in 1 .. n |-> [v \in V |-> RunCallback(v, seq[i])]]
<1>1. n \in Nat /\ DOMAIN seq = 1 .. n /\ \A i \in 1 .. n : seq[i] \in C
  OBVIOUS
<1>2. FoldStays(V, n, F)
  BY <1>1 DEF FoldStays
<1>3. \A i \in 1 .. n, v \in V : F[i][v] = RunCallback(v, seq[i])
  OBVIOUS
<1> HIDE DEF n, F
<1>4. PICK g : FoldSolves(V, base, n, F, g)
  BY <1>1, <1>2, FoldIsDefined
<1>5. g = [s \in SUBSET DOMAIN seq |->
             IF s = {} THEN base ELSE RunCallback(g[s \ {Max(s)}], seq[Max(s)])]
  <2>1. ASSUME NEW s \in SUBSET (1 .. n), s # {}
        PROVE  F[Max(s)][g[s \ {Max(s)}]] = RunCallback(g[s \ {Max(s)}], seq[Max(s)])
    <3>1. Max(s) \in s
      BY <1>1, <2>1, MaxIsGreatest
    <3>2. g[s \ {Max(s)}] \in V
      BY <1>4 DEF FoldSolves
    <3>3. QED BY <1>3, <3>1, <3>2
  <2>2. QED BY <1>1, <1>4, <2>1 DEF FoldSolves
<1>6. PICK it :
         /\ it = [s \in SUBSET DOMAIN seq |->
                    IF s = {} THEN base ELSE RunCallback(it[s \ {Max(s)}], seq[Max(s)])]
         /\ FoldLeft(RunCallback, base, seq) = it[DOMAIN seq]
  BY <1>5 DEF FoldLeft, MapThenFoldSet
<1>7. it[{}] = base
  BY <1>6
<1>8. ASSUME NEW s \in SUBSET (1 .. n), s # {}, it[s \ {Max(s)}] \in V
      PROVE  it[s] = F[Max(s)][it[s \ {Max(s)}]]
  <2>1. Max(s) \in s
    BY <1>1, <1>8, MaxIsGreatest
  <2>2. it[s] = RunCallback(it[s \ {Max(s)}], seq[Max(s)])
    BY <1>1, <1>6, <1>8
  <2>3. QED BY <1>3, <1>8, <2>1, <2>2
<1>9. FoldObeys(V, base, n, F, it)
  BY <1>7, <1>8 DEF FoldObeys
<1>10. PICK h : FoldRuns(V, base, n, F, h) /\ h[n] = it[1 .. n]
  BY <1>1, <1>2, <1>9, FoldGoesThrough
<1>11. \A k \in 1 .. n : h[k] = RunCallback(h[k - 1], seq[k])
  BY <1>1, <1>3, <1>10 DEF FoldRuns
<1>12. QED BY <1>1, <1>6, <1>10, <1>11 DEF n, FoldRuns, CallbacksRuns

(* one, *)
LEMMA RunsOne ==
    ASSUME NEW V, NEW C, NEW m \in V, NEW w \in C, \A v \in V, c \in C : RunCallback(v, c) \in V
    PROVE  FoldLeft(RunCallback, m, <<w>>) = RunCallback(m, w)
<1> DEFINE s == <<w>>
<1>1. s \in Seq(C) /\ Len(s) = 1 /\ s[1] = w
  OBVIOUS
<1> HIDE DEF s
<1>2. PICK h : CallbacksRuns(V, m, s, h)
  BY <1>1, CallbacksGoesThrough
<1>3. h[0] = m /\ h[1] = RunCallback(h[1 - 1], w) /\ FoldLeft(RunCallback, m, s) = h[1]
  BY <1>1, <1>2 DEF CallbacksRuns
<1>4. QED BY <1>3 DEF s

(* or two. *)
TwoRun(m, w, u) ==
    FoldLeft(RunCallback, m, <<w, u>>) = RunCallback(RunCallback(m, w), u)

LEMMA RunsTwo ==
    ASSUME NEW V, NEW C, NEW m \in V, NEW w \in C, NEW u \in C,
           \A v \in V, c \in C : RunCallback(v, c) \in V
    PROVE  TwoRun(m, w, u)
<1> DEFINE s == <<w, u>>
<1>1. s \in Seq(C) /\ Len(s) = 2 /\ s[1] = w /\ s[2] = u
  OBVIOUS
<1> HIDE DEF s
<1>2. PICK h : CallbacksRuns(V, m, s, h)
  BY <1>1, CallbacksGoesThrough
<1>3. /\ h[0] = m /\ h[1] = RunCallback(h[1 - 1], w) /\ h[2] = RunCallback(h[2 - 1], u)
      /\ FoldLeft(RunCallback, m, s) = h[2]
  BY <1>1, <1>2 DEF CallbacksRuns
<1>4. QED BY <1>3 DEF s, TwoRun

(***************************************************************************)
(* A dialog that was never shown while it was closing is closed, or it has *)
(* the one backdrop of the page and is in one of these phases of opening   *)
(* and closing, each with what it waits for.                               *)
(***************************************************************************)
ModalWaits == Seq(ModalCallbacks)
ModalShows == 0 .. MaxShows
ModalBackdrop == {0} \cup Backdrops
ModalPages == SUBSET Backdrops
ModalStates ==
    [isShown : BOOLEAN, displayed : BOOLEAN, escapes : Nat, trap : BOOLEAN,
     backdrop : ModalBackdrop, page : ModalPages, open : BOOLEAN,
     waiting : ModalWaits, shows : ModalShows, next : Backdrops, overlapped : BOOLEAN,
     hasty : BOOLEAN]

ModalClosed(m) ==
    /\ ~m.isShown /\ ~m.displayed /\ ~m.open
    /\ m.backdrop = 0 /\ m.page = {} /\ m.waiting = <<>>
    /\ m.hasty \/ ~m.trap

ModalOpens(m, b) ==
    \/ /\ m.isShown /\ ~m.displayed /\ ~m.open /\ m.waiting = <<Waits(b, "display")>>
    \/ /\ m.isShown /\ m.displayed /\ ~m.open /\ m.trap /\ m.waiting = <<Waits(0, "shown")>>
    \/ /\ m.isShown /\ m.displayed /\ m.open /\ m.trap /\ m.waiting = <<>>

ModalHides(m, b) ==
    \/ /\ m.hasty /\ m.waiting = <<Waits(b, "display"), Waits(0, "hideModal")>>
    \/ /\ m.hasty /\ m.waiting = <<Waits(0, "hideModal"), Waits(0, "shown")>>
    \/ /\ m.hasty \/ ~m.trap
       /\ \/ m.waiting = <<Waits(0, "shown"), Waits(0, "hideModal")>>
          \/ m.waiting = <<Waits(0, "hideModal")>>
          \/ ~m.displayed /\ m.waiting = <<Waits(b, "remove")>>

ModalPhase(m) ==
    \E b \in Backdrops :
        /\ m.backdrop = b /\ m.page = {b}
        /\ ModalOpens(m, b) \/ (~m.isShown /\ ModalHides(m, b))

ModalInv ==
    /\ modal \in ModalStates
    /\ ModalOneEscape
    /\ modal.overlapped \/ ModalClosed(modal) \/ ModalPhase(modal)

(* The type of the dialog, with names for the sets of its fields. *)
LEMMA ModalTyped == ModalTypeOK <=> modal \in ModalStates
BY DEF ModalTypeOK, ModalStates, ModalWaits, ModalShows, ModalBackdrop, ModalPages

(* A second callback comes after the first. *)
LEMMA AppendOne ==
    ASSUME NEW a, NEW b
    PROVE  Append(<<a>>, b) = <<a, b>>
<1> DEFINE s == Append(<<a>>, b)
           t == <<a, b>>
<1>1. s \in Seq({a, b}) /\ Len(s) = 2 /\ s[1] = a /\ s[2] = b
  OBVIOUS
<1>2. t \in Seq({a, b}) /\ Len(t) = 2 /\ t[1] = a /\ t[2] = b
  OBVIOUS
<1> HIDE DEF s, t
<1>3. \A i \in 1 .. Len(s) : s[i] = t[i]
  BY <1>1, <1>2
<1>4. s = t
  BY <1>1, <1>2, <1>3, SeqEqual
<1>5. QED BY <1>4 DEF s, t

(* Callbacks keep the types, and the call of the page that came last. *)
SameCall(m, d) ==
    d.isShown = m.isShown /\ d.escapes = m.escapes /\ d.overlapped = m.overlapped
    /\ d.hasty = m.hasty

(* They do so whichever of them runs. *)
LEMMA CallbacksKeepTypes ==
    ASSUME NEW m \in ModalStates, NEW w \in ModalCallbacks
    PROVE  RunCallback(m, w) \in ModalStates /\ SameCall(m, RunCallback(m, w))
<1> DEFINE rest(b) == ElementsIn(m.waiting, {x \in Range(m.waiting) : x.on # b \/ x.on = 0})
<1>0. m.waiting \in Seq(ModalCallbacks) /\ m.next \in Backdrops /\ m.next + 1 \in Backdrops
  BY DEF ModalStates, ModalWaits, Backdrops
<1>1. \A b : rest(b) \in ModalWaits
  <2> TAKE b
  <2> DEFINE S == {x \in Range(m.waiting) : x.on # b \/ x.on = 0}
  <2> HIDE DEF S
  <2>1. PICK h : SelectionRuns(ModalCallbacks, S, m.waiting, h)
    BY <1>0, SelectionGoesThrough
  <2>2. ElementsIn(m.waiting, S) \in Seq(ModalCallbacks)
    BY <1>0, <2>1 DEF SelectionRuns
  <2>3. QED BY <2>2 DEF S, ModalWaits
<1> DEFINE W(x) == Append(m.waiting, x)
<1>2. \A x \in ModalCallbacks : W(x) \in ModalWaits
  BY <1>0 DEF ModalWaits
<1> HIDE DEF rest, W
<1>3. ASSUME NEW d \in ModalStates, d.next = m.next, d.waiting = m.waiting, SameCall(m, d)
      PROVE  NewBackdrop(d, "remove") \in ModalStates /\ SameCall(m, NewBackdrop(d, "remove"))
  <2>1. Waits(m.next, "remove") \in ModalCallbacks
    BY <1>0 DEF Waits, ModalCallbacks
  <2> DEFINE x == Waits(m.next, "remove")
  <2> HIDE DEF x
  <2>2. NewBackdrop(d, "remove") =
          [d EXCEPT !.backdrop = m.next, !.page = @ \cup {m.next}, !.next = m.next + 1, !.waiting = W(x)]
    BY <1>3 DEF NewBackdrop, W, x, ModalStates
  <2>3. W(x) \in ModalWaits
    BY <1>2, <2>1 DEF x
  <2>4. m.next \in ModalBackdrop /\ d.page \cup {m.next} \in ModalPages
    BY <1>0, <1>3 DEF ModalStates, ModalBackdrop, ModalPages
  <2>5. QED BY <1>0, <1>3, <2>2, <2>3, <2>4 DEF ModalStates, SameCall
<1>4. ASSUME NEW d \in ModalStates, d.waiting = m.waiting, SameCall(m, d)
      PROVE  RemoveBackdrop(d) \in ModalStates /\ SameCall(m, RemoveBackdrop(d))
  <2>1. RemoveBackdrop(d) =
           [d EXCEPT !.page = @ \ {d.backdrop}, !.backdrop = 0, !.open = FALSE,
                     !.waiting = rest(d.backdrop)]
    BY <1>4 DEF RemoveBackdrop, rest, ModalStates
  <2>2. 0 \in ModalBackdrop /\ d.page \ {d.backdrop} \in ModalPages
    BY <1>4 DEF ModalStates, ModalBackdrop, ModalPages
  <2>3. rest(d.backdrop) \in ModalWaits
    BY <1>1
  <2> DEFINE kept == rest(d.backdrop)
             others == d.page \ {d.backdrop}
  <2> HIDE DEF kept, others
  <2>4. RemoveBackdrop(d) =
           [d EXCEPT !.page = others, !.backdrop = 0, !.open = FALSE, !.waiting = kept]
    BY <1>4, <2>1 DEF kept, others, ModalStates
  <2>5. kept \in ModalWaits /\ others \in ModalPages /\ 0 \in ModalBackdrop
    BY <2>2, <2>3 DEF kept, others
  <2>6. QED BY <1>4, <2>4, <2>5 DEF ModalStates, SameCall
<1>5. HideModal(m) \in ModalStates /\ SameCall(m, HideModal(m))
  <2> DEFINE d == [m EXCEPT !.displayed = FALSE]
  <2>1. /\ d \in ModalStates /\ d.next = m.next /\ d.waiting = m.waiting /\ SameCall(m, d)
        /\ d.backdrop = m.backdrop
    BY DEF ModalStates, SameCall
  <2>2. CASE m.isShown
    <3>1. HideModal(m) = NewBackdrop(d, "remove")
      BY <2>2 DEF HideModal
    <3> HIDE DEF d
    <3>2. QED BY <1>3, <2>1, <3>1
  <2>3. CASE ~m.isShown /\ m.backdrop # 0
    <3> DEFINE x == Waits(m.backdrop, "remove")
    <3>1. x \in ModalCallbacks
      BY <2>3 DEF Waits, ModalCallbacks, ModalStates, ModalBackdrop
    <3>2. W(x) \in ModalWaits
      BY <1>2, <3>1
    <3>3. HideModal(m) = [d EXCEPT !.waiting = W(x)]
      BY <2>1, <2>3 DEF HideModal, W
    <3> HIDE DEF x, d
    <3>4. QED BY <2>1, <3>2, <3>3 DEF ModalStates, SameCall
  <2>4. CASE ~m.isShown /\ m.backdrop = 0
    <3>1. HideModal(m) = RemoveBackdrop(d)
      BY <2>4 DEF HideModal
    <3> HIDE DEF d
    <3>2. QED BY <1>4, <2>1, <3>1
  <2>5. QED BY <2>2, <2>3, <2>4
<1>6. Display(m) \in ModalStates /\ SameCall(m, Display(m))
  <2> DEFINE x == Waits(0, "shown")
  <2>1. x \in ModalCallbacks
    BY DEF Waits, ModalCallbacks
  <2>2. W(x) \in ModalWaits
    BY <1>2, <2>1
  <2>3. Display(m) = [m EXCEPT !.displayed = TRUE, !.trap = TRUE, !.waiting = W(x)]
    BY DEF Display, W, ModalStates
  <2> HIDE DEF x
  <2>4. QED BY <2>2, <2>3 DEF ModalStates, SameCall
<1>7. [m EXCEPT !.open = TRUE] \in ModalStates /\ SameCall(m, [m EXCEPT !.open = TRUE])
  BY DEF ModalStates, SameCall
<1>8. RemoveBackdrop(m) \in ModalStates /\ SameCall(m, RemoveBackdrop(m))
  BY <1>4 DEF SameCall
<1>9. w.do \in {"display", "shown", "hideModal", "remove"}
  BY DEF ModalCallbacks
<1>10. QED
  <2>1. CASE w.do = "display"
    BY <1>6, <2>1 DEF RunCallback
  <2>2. CASE w.do = "shown"
    BY <1>7, <2>2 DEF RunCallback
  <2>3. CASE w.do = "hideModal"
    BY <1>5, <2>3 DEF RunCallback
  <2>4. CASE w.do = "remove"
    BY <1>8, <2>4 DEF RunCallback
  <2>5. QED BY <1>9, <2>1, <2>2, <2>3, <2>4

(* The handler of Escape and the types, whatever the phase. *)
LEMMA ModalEndKeeps ==
    ASSUME ModalInv, NEW e, ModalTransitionEnd(e)
    PROVE  modal' \in ModalStates /\ SameCall(modal, modal')
<1> DEFINE mine == {w \in Range(modal.waiting) : w.on = e}
           others == Range(modal.waiting) \ mine
           left == ElementsIn(modal.waiting, others)
           run == ElementsIn(modal.waiting, mine)
           base == [modal EXCEPT !.waiting = left]
           V == {m \in ModalStates : SameCall(modal, m)}
<1>1. modal \in ModalStates /\ modal.waiting \in Seq(ModalCallbacks)
  BY DEF ModalInv, ModalStates, ModalWaits
<1>2. \A S : ElementsIn(modal.waiting, S) \in Seq(ModalCallbacks)
  <2> TAKE S
  <2>1. PICK h : SelectionRuns(ModalCallbacks, S, modal.waiting, h)
    BY <1>1, SelectionGoesThrough
  <2>2. QED BY <1>1, <2>1 DEF SelectionRuns
<1>3. left \in ModalWaits /\ run \in Seq(ModalCallbacks)
  BY <1>2 DEF ModalWaits
<1>4. modal' = FoldLeft(RunCallback, base, run)
  BY DEF ModalTransitionEnd
<1> HIDE DEF left, run
<1>5. base \in V
  BY <1>1, <1>3 DEF ModalStates, SameCall
<1>6. \A m \in V, w \in ModalCallbacks : RunCallback(m, w) \in V
  BY CallbacksKeepTypes DEF SameCall
<1> HIDE DEF base
<1>7. PICK h : CallbacksRuns(V, base, run, h)
  <2> HIDE DEF V
  <2>1. QED BY <1>3, <1>5, <1>6, CallbacksGoesThrough
<1>8. modal' = h[Len(run)] /\ Len(run) \in 0 .. Len(run)
  BY <1>3, <1>4, <1>7 DEF CallbacksRuns
<1>9. modal' \in V
  BY <1>7, <1>8 DEF CallbacksRuns
<1>10. QED BY <1>9

(* One callback that waits runs alone; *)
LEMMA OneEnds ==
    ASSUME modal \in ModalStates, NEW w \in ModalCallbacks, modal.waiting = <<w>>,
           NEW e, ModalTransitionEnd(e)
    PROVE  modal' = RunCallback([modal EXCEPT !.waiting = <<>>], w)
<1> DEFINE mine == {x \in Range(modal.waiting) : x.on = e}
           others == Range(modal.waiting) \ mine
           base == [modal EXCEPT !.waiting = <<>>]
<1>1. Range(modal.waiting) = {w} /\ w.on = e
  BY DEF ModalTransitionEnd, Range
<1>2. mine = {w} /\ others = {}
  BY <1>1
<1>3. modal' = FoldLeft(RunCallback, [modal EXCEPT !.waiting = ElementsIn(<<w>>, others)],
                        ElementsIn(<<w>>, mine))
  BY DEF ModalTransitionEnd
<1> HIDE DEF mine, others
<1>4. ElementsIn(<<w>>, mine) = <<w>> /\ ElementsIn(<<w>>, others) = <<>>
  BY <1>2, OneSelected
<1>5. modal' = FoldLeft(RunCallback, base, <<w>>)
  BY <1>3, <1>4
<1>6. base \in ModalStates
  <2>1. <<>> \in ModalWaits
    BY DEF ModalWaits
  <2>2. QED BY <2>1 DEF ModalStates
<1> HIDE DEF base
<1>7. FoldLeft(RunCallback, base, <<w>>) = RunCallback(base, w)
  <2>1. \A v \in ModalStates, c \in ModalCallbacks : RunCallback(v, c) \in ModalStates
    BY CallbacksKeepTypes
  <2>2. QED BY <1>6, <2>1, RunsOne
<1>8. QED BY <1>5, <1>7 DEF base

(* two of one element run together; *)
LEMMA TwoEnd ==
    ASSUME modal \in ModalStates, NEW w \in ModalCallbacks, NEW u \in ModalCallbacks,
           w.on = u.on, modal.waiting = <<w, u>>, NEW e, ModalTransitionEnd(e)
    PROVE  modal' = RunCallback(RunCallback([modal EXCEPT !.waiting = <<>>], w), u)
<1> DEFINE mine == {x \in Range(modal.waiting) : x.on = e}
           others == Range(modal.waiting) \ mine
           base == [modal EXCEPT !.waiting = <<>>]
<1>1. Range(modal.waiting) = {w, u} /\ w.on = e
  BY DEF ModalTransitionEnd, Range
<1>2. mine = {w, u} /\ others = {}
  BY <1>1
<1>3. modal' = FoldLeft(RunCallback, [modal EXCEPT !.waiting = ElementsIn(<<w, u>>, others)],
                        ElementsIn(<<w, u>>, mine))
  BY DEF ModalTransitionEnd
<1> HIDE DEF mine, others
<1>4. ElementsIn(<<w, u>>, mine) = <<w, u>> /\ ElementsIn(<<w, u>>, others) = <<>>
  BY <1>2, TwoSelected
<1>5. modal' = FoldLeft(RunCallback, base, <<w, u>>)
  BY <1>3, <1>4
<1>6. base \in ModalStates
  <2>1. <<>> \in ModalWaits
    BY DEF ModalWaits
  <2>2. QED BY <2>1 DEF ModalStates
<1> HIDE DEF base
<1>7. FoldLeft(RunCallback, base, <<w, u>>) = RunCallback(RunCallback(base, w), u)
  <2>1. \A v \in ModalStates, c \in ModalCallbacks : RunCallback(v, c) \in ModalStates
    BY CallbacksKeepTypes
  <2>2. w \in ModalCallbacks /\ u \in ModalCallbacks
    OBVIOUS
  <2> DEFINE C == ModalCallbacks
             V == ModalStates
  <2> HIDE DEF C, V
  <2>3. base \in V /\ w \in C /\ u \in C /\ \A v \in V, c \in C : RunCallback(v, c) \in V
    BY <1>6, <2>1, <2>2 DEF C, V
  <2>4. TwoRun(base, w, u)
    BY <2>3, RunsTwo
  <2>5. QED BY <2>4 DEF TwoRun
<1>8. QED BY <1>5, <1>7 DEF base

(* and the display of the backdrop comes before the hideModal of the dialog. *)
LEMMA DisplayEnds ==
    ASSUME modal \in ModalStates, NEW b \in Backdrops, NEW u \in ModalCallbacks, u.on = 0,
           modal.waiting = <<Waits(b, "display"), u>>, NEW e, ModalTransitionEnd(e)
    PROVE  modal' = Display([modal EXCEPT !.waiting = <<u>>])
<1> DEFINE w == Waits(b, "display")
           mine == {x \in Range(modal.waiting) : x.on = e}
           others == Range(modal.waiting) \ mine
           base == [modal EXCEPT !.waiting = <<u>>]
<1>1. w \in ModalCallbacks /\ w.on = b /\ w.do = "display" /\ b # 0
  BY DEF Waits, ModalCallbacks, Backdrops
<1> HIDE DEF w
<1>2. modal.waiting = <<w, u>> /\ Range(modal.waiting) = {w, u}
  BY DEF Range, w
<1>3. e = b
  <2>1. PICK i \in {1, 2} : modal.waiting[i].on = e /\ InTime(i)
    BY <1>2 DEF ModalTransitionEnd
  <2>2. CASE i = 2
    <3>1. 1 \in 1 .. (i - 1) /\ modal.waiting[1].do = "display" /\ modal.waiting[i].on = 0
      BY <1>1, <1>2, <2>2
    <3>2. QED BY <2>1, <3>1 DEF InTime
  <2>3. QED BY <1>1, <1>2, <2>1, <2>2
<1>4. mine = {w} /\ others = {u} /\ w # u
  BY <1>1, <1>2, <1>3
<1>5. modal' = FoldLeft(RunCallback, [modal EXCEPT !.waiting = ElementsIn(<<w, u>>, others)],
                        ElementsIn(<<w, u>>, mine))
  BY <1>2 DEF ModalTransitionEnd
<1> HIDE DEF mine, others
<1>6. ElementsIn(<<w, u>>, mine) = <<w>> /\ ElementsIn(<<w, u>>, others) = <<u>>
  <2>1. w \in mine /\ u \notin mine /\ w \notin others /\ u \in others
    BY <1>4
  <2>2. QED BY <2>1, TwoSelected
<1>7. modal' = FoldLeft(RunCallback, base, <<w>>)
  BY <1>5, <1>6
<1>8. base \in ModalStates
  <2>1. <<u>> \in ModalWaits
    BY DEF ModalWaits
  <2>2. QED BY <2>1 DEF ModalStates
<1> HIDE DEF base
<1>9. FoldLeft(RunCallback, base, <<w>>) = RunCallback(base, w)
  <2>1. \A v \in ModalStates, c \in ModalCallbacks : RunCallback(v, c) \in ModalStates
    BY CallbacksKeepTypes
  <2>2. QED BY <1>1, <1>8, <2>1, RunsOne
<1>10. QED BY <1>1, <1>7, <1>9 DEF base, RunCallback


(* The phases follow each other. *)
LEMMA ModalPhaseEnds ==
    ASSUME ModalInv, ~modal.overlapped, NEW e, ModalTransitionEnd(e)
    PROVE  ModalClosed(modal') \/ ModalPhase(modal')
<1> DEFINE m == modal
           idle == [m EXCEPT !.waiting = <<>>]
<1>1. m \in ModalStates
  BY DEF ModalInv
<1>2. PICK b \in Backdrops : /\ m.backdrop = b /\ m.page = {b}
                             /\ ModalOpens(m, b) \/ (~m.isShown /\ ModalHides(m, b))
  <2>1. m.waiting # <<>>
    BY DEF ModalTransitionEnd
  <2>2. QED BY <2>1 DEF ModalInv, ModalClosed, ModalPhase
<1> DEFINE D == Waits(b, "display")
           S == Waits(0, "shown")
           H == Waits(0, "hideModal")
           R == Waits(b, "remove")
<1>3. /\ D.on = b /\ S.on = 0 /\ H.on = 0 /\ R.on = b /\ b # 0
      /\ D.do = "display" /\ S.do = "shown" /\ H.do = "hideModal" /\ R.do = "remove"
      /\ {D, S, H, R} \subseteq ModalCallbacks
  BY DEF Waits, ModalCallbacks, Backdrops
<1> HIDE DEF D, S, H, R
<1>4. \/ m.waiting = <<D>> /\ m.isShown /\ ~m.open
      \/ m.waiting = <<S>> /\ m.isShown /\ m.displayed /\ m.trap
      \/ m.waiting = <<>>
      \/ m.waiting = <<D, H>> /\ ~m.isShown /\ m.hasty
      \/ m.waiting = <<H, S>> /\ ~m.isShown /\ m.hasty
      \/ m.waiting = <<S, H>> /\ ~m.isShown /\ (m.hasty \/ ~m.trap)
      \/ m.waiting = <<H>> /\ ~m.isShown /\ (m.hasty \/ ~m.trap)
      \/ m.waiting = <<R>> /\ ~m.isShown /\ ~m.displayed /\ (m.hasty \/ ~m.trap)
  <2>1. CASE ModalOpens(m, b)
    BY <2>1 DEF ModalOpens, D, S
  <2>2. CASE ~m.isShown /\ ModalHides(m, b)
    BY <2>2 DEF ModalHides, D, S, H, R
  <2>3. QED BY <1>2, <2>1, <2>2
<1>5. <<>> \in ModalWaits /\ \A x \in ModalCallbacks : Append(<<>>, x) = <<x>> /\ <<x>> \in ModalWaits
  BY DEF ModalWaits
<1>6. /\ idle \in ModalStates /\ idle.waiting = <<>> /\ SameCall(m, idle)
      /\ idle.displayed = m.displayed /\ idle.open = m.open /\ idle.trap = m.trap
      /\ idle.backdrop = b /\ idle.page = {b}
  BY <1>1, <1>2, <1>5 DEF ModalStates, SameCall
<1> HIDE DEF idle
(* What each callback does to a dialog that has its backdrop. *)
<1> DEFINE Has(v) == v \in ModalStates /\ v.backdrop = b /\ v.page = {b} /\ SameCall(m, v)
<1>7. ASSUME NEW v, Has(v)
      PROVE  LET d == RunCallback(v, S)
             IN  /\ Has(d) /\ d.open /\ d.displayed = v.displayed /\ d.trap = v.trap
                 /\ d.waiting = v.waiting
  BY <1>3, <1>7 DEF RunCallback, ModalStates, SameCall
<1>8. ASSUME NEW v, Has(v), ~m.isShown, v.waiting = <<>>
      PROVE  LET d == RunCallback(v, H)
             IN  /\ Has(d) /\ d.open = v.open /\ ~d.displayed /\ d.trap = v.trap
                 /\ d.waiting = <<R>>
  <2>1. RunCallback(v, H) = [v EXCEPT !.displayed = FALSE, !.waiting = <<R>>]
    <3>1. RunCallback(v, H) = HideModal(v)
      BY <1>3 DEF RunCallback
    <3>2. ~v.isShown /\ v.backdrop # 0
      BY <1>3, <1>8 DEF SameCall
    <3>3. HideModal(v) = [[v EXCEPT !.displayed = FALSE] EXCEPT !.waiting = Append(@, Waits(v.backdrop, "remove"))]
      BY <3>2 DEF HideModal
    <3>4. Waits(v.backdrop, "remove") = R
      BY <1>8 DEF R
    <3>5. v.waiting = <<>> /\ Append(<<>>, R) = <<R>>
      BY <1>3, <1>5, <1>8
    <3>6. HideModal(v) = [v EXCEPT !.displayed = FALSE, !.waiting = Append(v.waiting, R)]
      BY <1>8, <3>3, <3>4 DEF ModalStates
    <3>7. QED BY <3>1, <3>5, <3>6
  <2>2. <<R>> \in ModalWaits
    BY <1>3, <1>5
  <2>3. QED BY <1>8, <2>1, <2>2 DEF ModalStates, SameCall
<1>9. ASSUME NEW v, Has(v), v.waiting = <<>>
      PROVE  LET d == RunCallback(v, R)
             IN  /\ d.backdrop = 0 /\ d.page = {} /\ ~d.open /\ d.displayed = v.displayed
                 /\ d.trap = v.trap /\ d.waiting = <<>> /\ SameCall(m, d)
  <2> DEFINE keep == {x \in Range(v.waiting) : x.on # v.backdrop \/ x.on = 0}
  <2>1. RunCallback(v, R) = [v EXCEPT !.page = @ \ {v.backdrop}, !.backdrop = 0, !.open = FALSE,
                                      !.waiting = ElementsIn(@, keep)]
    BY <1>3 DEF RunCallback, RemoveBackdrop
  <2> HIDE DEF keep
  <2>2. ElementsIn(<<>>, keep) = <<>>
    <3>1. <<>> \in Seq(ModalCallbacks) /\ DOMAIN <<>> = {}
      OBVIOUS
    <3>2. QED BY <3>1, NoneSelected
  <2>3. v.waiting = <<>> /\ v.page \ {v.backdrop} = {}
    BY <1>9
  <2>4. RunCallback(v, R) = [v EXCEPT !.page = {}, !.backdrop = 0, !.open = FALSE, !.waiting = <<>>]
    BY <2>1, <2>2, <2>3, <1>9 DEF ModalStates
  <2>5. QED BY <1>5, <1>9, <2>4 DEF ModalStates, SameCall
<1>10. ASSUME NEW v, Has(v), NEW x \in ModalWaits, v.waiting = x
       PROVE  LET d == Display(v)
              IN  /\ Has(d) /\ d.open = v.open /\ d.displayed /\ d.trap
                  /\ d.waiting = Append(x, S)
  <2>1. Append(x, S) \in ModalWaits
    BY <1>3 DEF ModalWaits
  <2>2. Display(v) = [v EXCEPT !.displayed = TRUE, !.trap = TRUE, !.waiting = Append(x, S)]
    BY <1>10 DEF Display, S, ModalStates
  <2>3. QED BY <1>10, <2>1, <2>2 DEF ModalStates, SameCall
<1>11. Has(idle)
  BY <1>6
<1>12. ASSUME NEW d, Has(d), d.waiting = <<R>>, ~m.isShown, ~d.displayed, m.hasty \/ ~d.trap
       PROVE  ModalPhase(d)
  BY <1>12 DEF ModalPhase, ModalHides, R, SameCall
<1> HIDE DEF Has
<1>13. CASE m.waiting = <<D>> /\ m.isShown /\ ~m.open
  <2>1. m' = Display(idle)
    <3>1. m' = RunCallback(idle, D)
      BY <1>1, <1>3, <1>13, OneEnds DEF idle
    <3>2. QED BY <1>3, <3>1 DEF RunCallback
  <2>2. m'.displayed /\ m'.trap /\ m'.open = m.open /\ m'.waiting = <<S>> /\ Has(m')
    BY <1>3, <1>5, <1>6, <1>10, <1>11, <2>1
  <2>3. QED BY <1>13, <2>2 DEF Has, ModalPhase, ModalOpens, S, SameCall
<1>14. CASE m.waiting = <<S>> /\ m.isShown /\ m.displayed /\ m.trap
  <2>1. m' = RunCallback(idle, S)
    BY <1>1, <1>3, <1>14, OneEnds DEF idle
  <2>2. m'.displayed /\ m'.trap /\ m'.open /\ m'.waiting = <<>> /\ Has(m')
    BY <1>6, <1>7, <1>11, <1>14, <2>1
  <2>3. QED BY <1>14, <2>2 DEF Has, ModalPhase, ModalOpens, SameCall
<1>15. CASE m.waiting = <<D, H>> /\ ~m.isShown /\ m.hasty
  <2> DEFINE base == [m EXCEPT !.waiting = <<H>>]
  <2>1. m' = Display(base)
    BY <1>1, <1>3, <1>15, DisplayEnds DEF D
  <2>2. Has(base) /\ base.waiting = <<H>> /\ <<H>> \in ModalWaits
    BY <1>1, <1>2, <1>3, <1>5 DEF Has, ModalStates, SameCall
  <2> HIDE DEF base
  <2>3. Has(m') /\ m'.waiting = Append(<<H>>, S)
    BY <1>10, <2>1, <2>2
  <2>4. Append(<<H>>, S) = <<H, S>>
    BY AppendOne
  <2>5. QED BY <1>15, <2>3, <2>4 DEF Has, ModalPhase, ModalHides, H, S, SameCall
<1>16. CASE m.waiting = <<H, S>> /\ ~m.isShown /\ m.hasty
  <2> DEFINE d == RunCallback(idle, H)
  <2>1. m' = RunCallback(d, S)
    BY <1>1, <1>3, <1>16, TwoEnd DEF idle
  <2>2. Has(d) /\ ~d.displayed /\ d.waiting = <<R>>
    BY <1>6, <1>8, <1>11, <1>16
  <2> HIDE DEF d
  <2>3. Has(m') /\ ~m'.displayed /\ m'.waiting = <<R>>
    BY <1>7, <2>1, <2>2
  <2>4. QED BY <1>12, <1>16, <2>3
<1>17. CASE m.waiting = <<S, H>> /\ ~m.isShown /\ (m.hasty \/ ~m.trap)
  <2> DEFINE d == RunCallback(idle, S)
  <2>1. m' = RunCallback(d, H)
    BY <1>1, <1>3, <1>17, TwoEnd DEF idle
  <2>2. Has(d) /\ d.trap = m.trap /\ d.waiting = <<>>
    BY <1>6, <1>7, <1>11
  <2> HIDE DEF d
  <2>3. Has(m') /\ ~m'.displayed /\ m'.waiting = <<R>> /\ m'.trap = m.trap
    BY <1>8, <1>17, <2>1, <2>2
  <2>4. QED BY <1>12, <1>17, <2>3
<1>18. CASE m.waiting = <<H>> /\ ~m.isShown /\ (m.hasty \/ ~m.trap)
  <2>1. m' = RunCallback(idle, H)
    BY <1>1, <1>3, <1>18, OneEnds DEF idle
  <2>2. Has(m') /\ ~m'.displayed /\ m'.waiting = <<R>> /\ m'.trap = m.trap
    BY <1>6, <1>8, <1>11, <1>18, <2>1
  <2>3. QED BY <1>12, <1>18, <2>2
<1>19. CASE m.waiting = <<R>> /\ ~m.isShown /\ ~m.displayed /\ (m.hasty \/ ~m.trap)
  <2>1. m' = RunCallback(idle, R)
    BY <1>1, <1>3, <1>19, OneEnds DEF idle
  <2>2. /\ m'.backdrop = 0 /\ m'.page = {} /\ ~m'.open /\ m'.displayed = m.displayed
        /\ m'.trap = m.trap /\ m'.waiting = <<>> /\ SameCall(m, m')
    BY <1>6, <1>9, <1>11, <2>1
  <2>3. QED BY <1>19, <2>2 DEF ModalClosed, SameCall
<1>20. CASE m.waiting = <<>>
  BY <1>20 DEF ModalTransitionEnd
<1>21. QED BY <1>4, <1>13, <1>14, <1>15, <1>16, <1>17, <1>18, <1>19, <1>20

(* The page opens the dialog. *)
LEMMA ModalIsShown ==
    ASSUME ModalInv, ModalShow
    PROVE  ModalInv'
<1> DEFINE m == modal
           D == Waits(m.next, "display")
           W == Append(m.waiting, D)
<1>1. m \in ModalStates /\ m.escapes = 0 /\ ~m.isShown
  BY DEF ModalInv, ModalOneEscape, ModalShow
<1>2. m.next \in Backdrops /\ m.next + 1 \in Backdrops /\ W \in ModalWaits
  <2>1. m.next \in Backdrops /\ m.next + 1 \in Backdrops
    BY <1>1 DEF ModalStates, Backdrops
  <2>2. D \in ModalCallbacks /\ m.waiting \in Seq(ModalCallbacks)
    BY <1>1, <2>1 DEF Waits, ModalCallbacks, ModalStates, ModalWaits
  <2>3. QED BY <2>1, <2>2 DEF ModalWaits
<1>3. m.shows + 1 \in ModalShows
  BY <1>1, ModalAssumption DEF ModalShow, ModalShows, ModalStates
<1>4. m' = [m EXCEPT !.isShown = TRUE, !.escapes = 1, !.shows = m.shows + 1,
                     !.overlapped = @ \/ ModalClosing, !.backdrop = m.next,
                     !.page = @ \cup {m.next}, !.next = m.next + 1, !.waiting = W]
  BY <1>1 DEF ModalShow, NewBackdrop, Escapes, ModalStates
<1>5. ModalClosing \in BOOLEAN
  BY DEF ModalClosing, WaitsFor
<1> HIDE DEF W
<1>6. /\ m' \in ModalStates /\ m'.isShown = TRUE /\ m'.escapes = 1
      /\ m'.overlapped = (m.overlapped \/ ModalClosing) /\ m'.backdrop = m.next
      /\ m'.page = m.page \cup {m.next} /\ m'.waiting = W /\ m'.displayed = m.displayed
      /\ m'.open = m.open
  <2>1. m.next \in ModalBackdrop /\ m.page \cup {m.next} \in ModalPages
    BY <1>1, <1>2 DEF ModalStates, ModalBackdrop, ModalPages
  <2>2. QED BY <1>1, <1>2, <1>3, <1>4, <1>5, <2>1 DEF ModalStates
<1>7. m'.overlapped \/ ModalPhase(m')
  <2> SUFFICES ASSUME ~m.overlapped, ~ModalClosing PROVE ModalPhase(m')
    BY <1>6
  <2>1. ModalClosed(m)
    <3> SUFFICES ASSUME ModalPhase(m) PROVE FALSE
      BY DEF ModalInv
    <3>1. PICK b \in Backdrops : ModalHides(m, b)
      BY <1>1 DEF ModalPhase, ModalOpens
    <3>2. \E i \in DOMAIN m.waiting : m.waiting[i].do \in {"hideModal", "remove"}
      BY <3>1 DEF ModalHides, Waits
    <3>3. QED BY <3>2 DEF ModalClosing, WaitsFor
  <2>2. W = <<D>>
    BY <2>1 DEF ModalClosed, W
  <2>3. QED BY <1>2, <1>6, <2>1, <2>2 DEF ModalClosed, ModalPhase, ModalOpens
<1>8. QED BY <1>6, <1>7 DEF ModalInv, ModalOneEscape

(* The page, or the user, dismisses it. *)
LEMMA ModalIsHidden ==
    ASSUME ModalInv, ModalHide
    PROVE  ModalInv'
<1> DEFINE m == modal
           H == Waits(0, "hideModal")
           W == Append(m.waiting, H)
<1>1. m \in ModalStates /\ m.isShown /\ m.waiting \in Seq(ModalCallbacks)
  BY DEF ModalInv, ModalHide, ModalStates, ModalWaits
<1>2. W \in ModalWaits
  BY <1>1 DEF Waits, ModalCallbacks, ModalWaits
<1>3. m' = [m EXCEPT !.isShown = FALSE, !.escapes = 0, !.trap = FALSE, !.waiting = W,
                     !.hasty = WaitsFor("display")]
  BY <1>1 DEF ModalHide, Escapes, ModalStates
<1>4. WaitsFor("display") \in BOOLEAN
  BY DEF WaitsFor
<1> HIDE DEF W
<1>5. /\ m' \in ModalStates /\ m'.isShown = FALSE /\ m'.escapes = 0
      /\ m'.overlapped = m.overlapped /\ m'.backdrop = m.backdrop /\ m'.trap = FALSE
      /\ m'.page = m.page /\ m'.waiting = W /\ m'.displayed = m.displayed
      /\ m'.hasty = WaitsFor("display")
  BY <1>1, <1>2, <1>3, <1>4 DEF ModalStates
<1>6. ~m.overlapped => ModalPhase(m')
  <2> SUFFICES ASSUME ~m.overlapped PROVE ModalPhase(m')
    OBVIOUS
  <2>1. PICK b \in Backdrops : m.backdrop = b /\ m.page = {b} /\ ModalOpens(m, b)
    BY <1>1 DEF ModalInv, ModalClosed, ModalPhase
  <2> DEFINE D == Waits(b, "display")
             S == Waits(0, "shown")
  <2>2. m.waiting \in {<<D>>, <<S>>, <<>>}
    BY <2>1 DEF ModalOpens
  <2>3. CASE m.waiting = <<D>>
    <3>1. WaitsFor("display")
      BY <2>3 DEF WaitsFor, Waits
    <3>2. W = <<D, H>>
      BY <2>3, AppendOne DEF W
    <3>3. QED BY <1>5, <2>1, <3>1, <3>2 DEF ModalPhase, ModalHides
  <2>4. CASE m.waiting = <<S>>
    <3>1. W = <<S, H>>
      BY <2>4, AppendOne DEF W
    <3>2. QED BY <1>5, <2>1, <3>1 DEF ModalPhase, ModalHides
  <2>5. CASE m.waiting = <<>>
    <3>1. W = <<H>>
      BY <2>5 DEF W
    <3>2. QED BY <1>5, <2>1, <3>1 DEF ModalPhase, ModalHides
  <2>6. QED BY <2>2, <2>3, <2>4, <2>5
<1>7. QED BY <1>5, <1>6 DEF ModalInv, ModalOneEscape

(* Shows, hides and transitions in any order. *)
LEMMA ModalKeeps == ModalInit /\ [][ModalNext]_modal => []ModalInv
<1>1. ModalInit => ModalInv
  <2> SUFFICES ASSUME ModalInit PROVE ModalInv
    OBVIOUS
  <2>1. <<>> \in ModalWaits /\ 0 \in ModalShows /\ 1 \in Backdrops
    BY ModalAssumption DEF ModalWaits, ModalShows, Backdrops
  <2>2. 0 \in ModalBackdrop /\ {} \in ModalPages
    BY DEF ModalBackdrop, ModalPages
  <2>3. modal \in ModalStates
    BY <2>1, <2>2 DEF ModalInit, ModalStates
  <2>4. QED BY <2>3 DEF ModalInit, ModalInv, ModalOneEscape, ModalClosed
<1>2. ModalInv /\ [ModalNext]_modal => ModalInv'
  <2> SUFFICES ASSUME ModalInv, [ModalNext]_modal PROVE ModalInv'
    OBVIOUS
  <2>1. CASE ModalShow
    BY <2>1, ModalIsShown
  <2>2. CASE ModalHide
    BY <2>2, ModalIsHidden
  <2>3. CASE ModalEnds
    <3>1. PICK e : ModalTransitionEnd(e)
      BY <2>3 DEF ModalEnds
    <3>2. modal' \in ModalStates /\ SameCall(modal, modal')
      BY <3>1, ModalEndKeeps
    <3>3. ~modal.overlapped => ModalClosed(modal') \/ ModalPhase(modal')
      BY <3>1, ModalPhaseEnds
    <3>4. QED BY <3>2, <3>3 DEF ModalInv, ModalOneEscape, SameCall
  <2>4. CASE UNCHANGED modal
    BY <2>4 DEF ModalInv, ModalOneEscape
  <2>5. QED BY <2>1, <2>2, <2>3, <2>4 DEF ModalNext
<1>3. QED BY <1>1, <1>2, PTL

(* What those phases promise, for the steps alone, *)
LEMMA ModalStepsSafely == ModalInit /\ [][ModalNext]_modal => []ModalSafe
<1>1. ModalInv => ModalSafe
  <2> SUFFICES ASSUME ModalInv PROVE ModalSafe
    OBVIOUS
  <2>1. ASSUME modal.waiting = <<>>, ~modal.overlapped, ModalPhase(modal)
        PROVE  /\ modal.displayed /\ modal.isShown /\ modal.open /\ modal.trap
               /\ modal.page = {modal.backdrop}
    BY <2>1 DEF ModalPhase, ModalOpens, ModalHides
  <2>2. modal \in ModalStates
    BY DEF ModalInv
  <2>3. ModalSettles
    BY <2>1, <2>2 DEF ModalInv, ModalClosed, ModalSettles, ModalStates
  <2>4. QED BY <2>3 DEF ModalInv, ModalSafe
<1>2. QED BY <1>1, ModalKeeps, PTL

(* and for the specification: Escape has one handler exactly while the dialog is
   shown, and when nothing is under way the page agrees with the last call. *)
THEOREM ModalIsSafe == ModalSpec => []ModalSafe
BY ModalStepsSafely, PTL DEF ModalSpec

-----------------------------------------------------------------------------
(* The carousel: slides, the handlers of 'slid' and the timer. *)
(* The handlers of 'slid' run one after the other. *)
SlidsRuns(V, base, seq, h) ==
    /\ \A k \in 0 .. Len(seq) : h[k] \in V
    /\ h[0] = base
    /\ \A k \in 1 .. Len(seq) : h[k] = OnSlid(h[k - 1], seq[k])
    /\ FoldLeft(OnSlid, base, seq) = h[Len(seq)]

LEMMA SlidsGoesThrough ==
    ASSUME NEW V, NEW C, NEW base \in V, NEW seq \in Seq(C),
           \A v \in V, c \in C : OnSlid(v, c) \in V
    PROVE  \E h : SlidsRuns(V, base, seq, h)
<1> DEFINE n == Len(seq)
           F == [i \in 1 .. n |-> [v \in V |-> OnSlid(v, seq[i])]]
<1>1. n \in Nat /\ DOMAIN seq = 1 .. n /\ \A i \in 1 .. n : seq[i] \in C
  OBVIOUS
<1>2. FoldStays(V, n, F)
  BY <1>1 DEF FoldStays
<1>3. \A i \in 1 .. n, v \in V : F[i][v] = OnSlid(v, seq[i])
  OBVIOUS
<1> HIDE DEF n, F
<1>4. PICK g : FoldSolves(V, base, n, F, g)
  BY <1>1, <1>2, FoldIsDefined
<1>5. g = [s \in SUBSET DOMAIN seq |->
             IF s = {} THEN base ELSE OnSlid(g[s \ {Max(s)}], seq[Max(s)])]
  <2>1. ASSUME NEW s \in SUBSET (1 .. n), s # {}
        PROVE  F[Max(s)][g[s \ {Max(s)}]] = OnSlid(g[s \ {Max(s)}], seq[Max(s)])
    <3>1. Max(s) \in s
      BY <1>1, <2>1, MaxIsGreatest
    <3>2. g[s \ {Max(s)}] \in V
      BY <1>4 DEF FoldSolves
    <3>3. QED BY <1>3, <3>1, <3>2
  <2>2. QED BY <1>1, <1>4, <2>1 DEF FoldSolves
<1>6. PICK it :
         /\ it = [s \in SUBSET DOMAIN seq |->
                    IF s = {} THEN base ELSE OnSlid(it[s \ {Max(s)}], seq[Max(s)])]
         /\ FoldLeft(OnSlid, base, seq) = it[DOMAIN seq]
  BY <1>5 DEF FoldLeft, MapThenFoldSet
<1>7. it[{}] = base
  BY <1>6
<1>8. ASSUME NEW s \in SUBSET (1 .. n), s # {}, it[s \ {Max(s)}] \in V
      PROVE  it[s] = F[Max(s)][it[s \ {Max(s)}]]
  <2>1. Max(s) \in s
    BY <1>1, <1>8, MaxIsGreatest
  <2>2. it[s] = OnSlid(it[s \ {Max(s)}], seq[Max(s)])
    BY <1>1, <1>6, <1>8
  <2>3. QED BY <1>3, <1>8, <2>1, <2>2
<1>9. FoldObeys(V, base, n, F, it)
  BY <1>7, <1>8 DEF FoldObeys
<1>10. PICK h : FoldRuns(V, base, n, F, h) /\ h[n] = it[1 .. n]
  BY <1>1, <1>2, <1>9, FoldGoesThrough
<1>11. \A k \in 1 .. n : h[k] = OnSlid(h[k - 1], seq[k])
  BY <1>1, <1>3, <1>10 DEF FoldRuns
<1>12. QED BY <1>1, <1>6, <1>10, <1>11 DEF n, FoldRuns, SlidsRuns

(***************************************************************************)
(* One item is active, and the only slide under way leaves it for another. *)
(* The carousel is at rest, or it slides and the first handler that waits  *)
(* is that of the indicators, or the slide has ended and 'slid' is still   *)
(* to come.  If that slide began before the 'slid' of the one before, its  *)
(* handler runs with that 'slid' and none waits for its own.               *)
(***************************************************************************)
CarouselMoves == Seq(Item \X Item)
CarouselHandlers == Seq({0} \cup Item)
CarouselStates ==
    [active : SUBSET Item, sliding : BOOLEAN, moves : CarouselMoves, paused : BOOLEAN,
     interval : BOOLEAN, strays : Nat, slid : BOOLEAN, waiting : CarouselHandlers,
     lit : SUBSET Item, hasty : BOOLEAN]

OneSlide(c) ==
    \E i \in Item : /\ c.active = {i}
                    /\ c.moves = <<>> \/ \E j \in Item \ {i} : c.moves = << <<i, j>> >>

Turns(c) ==
    /\ c \in CarouselStates
    /\ OneSlide(c)
    /\ c.sliding = (c.moves # <<>>)
    /\ c.strays = 0

IndicatorWaits(c) ==
    /\ c.waiting # <<>> /\ c.waiting[1] = 0
    /\ \A k \in 2 .. Len(c.waiting) : c.waiting[k] # 0

AtRest(c) == c.moves = <<>> /\ ~c.slid /\ c.lit = c.active /\ c.waiting = <<>>
Slides(c) == c.moves # <<>> /\ ~c.slid /\ c.lit = {} /\ IndicatorWaits(c)
HasSlid(c) == c.moves = <<>> /\ c.slid /\ c.lit = {} /\ IndicatorWaits(c)

NoIndicator(c) == \A k \in 1 .. Len(c.waiting) : c.waiting[k] # 0

Late(c) ==
    /\ c.hasty
    /\ \/ c.slid /\ c.moves # <<>>
       \/ NoIndicator(c) /\ (c.slid \/ c.moves # <<>> \/ c.waiting = <<>>)

CarouselInv ==
    /\ Turns(carousel)
    /\ Late(carousel) \/ AtRest(carousel) \/ Slides(carousel) \/ HasSlid(carousel)

(* The type of the carousel, with names for the sets of its fields. *)
LEMMA CarouselTyped == CarouselTypeOK <=> carousel \in CarouselStates
BY DEF CarouselTypeOK, CarouselStates, CarouselMoves, CarouselHandlers

(* The neighbours of an item are other items. *)
LEMMA Neighbours ==
    ASSUME NEW i \in Item
    PROVE  After(i) \in Item \ {i} /\ Before(i) \in Item \ {i}
<1>1. NumItems \in Nat /\ NumItems > 1 /\ i \in 1 .. NumItems
  BY CarouselAssumption DEF Item
<1>2. i < NumItems => i % NumItems = i
  BY <1>1
<1>3. NumItems % NumItems = 0
  BY <1>1
<1>4. QED BY <1>1, <1>2, <1>3 DEF Item, After, Before

(* What cycle and pause leave as it was. *)
SameTurn(c, d) ==
    /\ d \in CarouselStates /\ d.strays = c.strays /\ d.sliding = c.sliding
    /\ d.active = c.active /\ d.moves = c.moves /\ d.slid = c.slid
    /\ d.lit = c.lit /\ d.waiting = c.waiting /\ d.hasty = c.hasty

(* Both leave everything but the timer and the pause. *)
LEMMA CyclesAndPauses ==
    ASSUME NEW c, c \in CarouselStates, NEW e \in BOOLEAN
    PROVE  SameTurn(c, Cycle(c, e)) /\ SameTurn(c, Pause(c, e))
BY DEF Cycle, Pause, CarouselStates, SameTurn

(* So the carousel turns as before. *)
LEMMA SameTurnTurns ==
    ASSUME NEW c, Turns(c), NEW d, SameTurn(c, d)
    PROVE  Turns(d)
BY DEF SameTurn, Turns, OneSlide

(* A click on the active item is a pause and a cycle. *)
LEMMA PausedAndCycled ==
    ASSUME NEW c, Turns(c)
    PROVE  SameTurn(c, Cycle(Pause(c, FALSE), FALSE))
<1> DEFINE b == Pause(c, FALSE)
<1>1. SameTurn(c, b)
  BY CyclesAndPauses DEF Turns
<1> HIDE DEF b
<1>2. SameTurn(b, Cycle(b, FALSE))
  BY <1>1, CyclesAndPauses DEF SameTurn
<1>3. SameTurn(c, Cycle(b, FALSE))
  BY <1>1, <1>2 DEF SameTurn
<1>4. QED BY <1>3 DEF b

(* A slide begins. *)
LEMMA SlideBegins ==
    ASSUME NEW c, Turns(c), ~c.sliding, NEW i \in Item \ c.active
    PROVE  LET d == SlideTo(c, i)
           IN  /\ Turns(d) /\ d.moves # <<>> /\ d.lit = {} /\ d.slid = c.slid
               /\ d.waiting = Append(c.waiting, 0) /\ d.hasty = c.slid
<1>1. PICK a \in Item : c.active = {a} /\ c.moves = <<>>
  BY DEF Turns, OneSlide
<1>2. Active(c) = a /\ a # i
  BY <1>1 DEF Active
<1> DEFINE M == Append(c.moves, <<a, i>>)
           W == Append(c.waiting, 0)
           s == [Begins(c) EXCEPT !.lit = {}, !.waiting = Append(@, 0),
                                  !.moves = Append(@, <<Active(c), i>>)]
<1>3. c \in CarouselStates /\ c.strays = 0
  BY DEF Turns
<1>4. M = << <<a, i>> >> /\ M \in CarouselMoves /\ M # <<>>
  <2>1. << <<a, i>> >> \in CarouselMoves /\ Append(<<>>, <<a, i>>) = << <<a, i>> >>
    BY <1>1 DEF CarouselMoves
  <2>2. QED BY <1>1, <2>1
<1>5. W \in CarouselHandlers
  BY <1>3 DEF CarouselStates, CarouselHandlers
<1> HIDE DEF M, W
<1>6. s = [c EXCEPT !.sliding = TRUE, !.hasty = c.slid, !.paused = @ \/ c.interval,
                    !.lit = {}, !.waiting = W, !.moves = M]
  BY <1>2, <1>3 DEF Begins, CarouselStates, M, W
<1>7. /\ s \in CarouselStates /\ s.strays = 0 /\ s.sliding = TRUE /\ s.active = {a}
      /\ s.moves = M /\ s.lit = {} /\ s.slid = c.slid /\ s.waiting = W
      /\ s.hasty = c.slid
  BY <1>1, <1>3, <1>4, <1>5, <1>6 DEF CarouselStates
<1>8. SlideTo(c, i) = IF c.interval THEN Cycle(s, FALSE) ELSE s
  BY DEF SlideTo
<1> HIDE DEF s
<1>9. Turns(s)
  BY <1>1, <1>2, <1>4, <1>7 DEF Turns, OneSlide
<1>10. SameTurn(s, Cycle(s, FALSE)) /\ Turns(Cycle(s, FALSE))
  BY <1>7, <1>9, CyclesAndPauses, SameTurnTurns
<1>11. QED BY <1>4, <1>7, <1>8, <1>9, <1>10 DEF W, SameTurn

(* Going to an item leads from rest to rest or to a slide; during a slide the
   call waits; and it is late before 'slid'. *)
LEMMA GoesTo ==
    ASSUME NEW c, Turns(c), NEW i \in Item
    PROVE  /\ Turns(GoTo(c, i)) /\ GoTo(c, i).slid = c.slid
           /\ Late(c) => Late(GoTo(c, i)) \/ Slides(GoTo(c, i))
           /\ c.moves # <<>> => GoTo(c, i).moves # <<>> /\ (Late(c) => Late(GoTo(c, i)))
           /\ AtRest(c) => AtRest(GoTo(c, i)) \/ Slides(GoTo(c, i))
           /\ Slides(c) => Slides(GoTo(c, i))
           /\ HasSlid(c) => HasSlid(GoTo(c, i)) \/ Late(GoTo(c, i))
<1>1. c \in CarouselStates /\ c.sliding = (c.moves # <<>>) /\ c.sliding \in BOOLEAN
  BY DEF Turns, CarouselStates
<1>2. CASE c.sliding
  <2> DEFINE W == Append(c.waiting, i)
             d == [c EXCEPT !.waiting = W]
  <2>1. GoTo(c, i) = d
    BY <1>2 DEF GoTo
  <2>2. /\ c.waiting \in Seq({0} \cup Item) /\ W \in CarouselHandlers /\ W # <<>>
        /\ Len(W) = Len(c.waiting) + 1
        /\ \A k \in 1 .. Len(W) : W[k] = IF k = Len(W) THEN i ELSE c.waiting[k]
    BY <1>1 DEF CarouselStates, CarouselHandlers
  <2>3. IndicatorWaits(c) => W[1] = 0 /\ \A k \in 2 .. Len(W) : W[k] # 0
    <3> SUFFICES ASSUME IndicatorWaits(c) PROVE W[1] = 0 /\ \A k \in 2 .. Len(W) : W[k] # 0
      OBVIOUS
    <3>1. Len(c.waiting) \in Nat /\ Len(c.waiting) > 0 /\ i # 0
      BY <2>2 DEF IndicatorWaits, Item
    <3> HIDE DEF W
    <3>2. QED BY <2>2, <3>1 DEF IndicatorWaits
  <2>4. NoIndicator(c) => \A k \in 1 .. Len(W) : W[k] # 0
    <3> SUFFICES ASSUME NoIndicator(c), NEW k \in 1 .. Len(W) PROVE W[k] # 0
      OBVIOUS
    <3>1. Len(c.waiting) \in Nat /\ i # 0
      BY <2>2 DEF Item
    <3> HIDE DEF W
    <3>2. k = Len(W) \/ k \in 1 .. Len(c.waiting)
      BY <2>2, <3>1
    <3>3. QED BY <2>2, <3>1, <3>2 DEF NoIndicator
  <2> HIDE DEF W
  <2>5. /\ d \in CarouselStates /\ d.active = c.active /\ d.moves = c.moves
        /\ d.sliding = c.sliding /\ d.strays = c.strays /\ d.slid = c.slid
        /\ d.lit = c.lit /\ d.waiting = W /\ d.hasty = c.hasty
    BY <1>1, <2>2 DEF CarouselStates
  <2> HIDE DEF d
  <2>6. Turns(d)
    BY <2>5 DEF Turns, OneSlide
  <2>7. Late(c) => Late(d)
    BY <1>1, <1>2, <2>5, <2>4 DEF Late, NoIndicator
  <2>8. QED BY <1>1, <1>2, <2>1, <2>2, <2>3, <2>5, <2>6, <2>7
       DEF AtRest, Slides, HasSlid, IndicatorWaits
<1>3. CASE ~c.sliding /\ c.active = {i}
  <2>1. GoTo(c, i) = Cycle(Pause(c, FALSE), FALSE)
    BY <1>3 DEF GoTo
  <2>2. SameTurn(c, GoTo(c, i)) /\ Turns(GoTo(c, i))
    BY <2>1, PausedAndCycled, SameTurnTurns
  <2>3. QED BY <2>2 DEF SameTurn, AtRest, Slides, HasSlid, IndicatorWaits, Late, NoIndicator
<1>4. CASE ~c.sliding /\ c.active # {i}
  <2>1. GoTo(c, i) = SlideTo(c, i)
    BY <1>4 DEF GoTo
  <2>2. i \in Item \ c.active
    BY <1>4 DEF Turns, OneSlide
  <2> DEFINE d == SlideTo(c, i)
  <2>3. /\ Turns(d) /\ d.moves # <<>> /\ d.lit = {} /\ d.slid = c.slid
        /\ d.waiting = Append(c.waiting, 0) /\ d.hasty = c.slid
    BY <1>4, <2>2, SlideBegins
  <2> HIDE DEF d
  <2>4. ~c.slid /\ c.waiting = <<>> => Slides(d)
    <3>1. Append(<<>>, 0) = <<0>> /\ <<0>> # <<>> /\ <<0>>[1] = 0 /\ Len(<<0>>) = 1
      OBVIOUS
    <3>2. \A k \in 2 .. 1 : FALSE
      OBVIOUS
    <3>3. QED BY <2>3, <3>1, <3>2 DEF Slides, IndicatorWaits
  <2>5. c.slid => Late(d)
    BY <2>3 DEF Late
  <2>6. AtRest(c) => Slides(d)
    BY <2>4 DEF AtRest
  <2>7. Late(c) => Late(d) \/ Slides(d)
    BY <1>1, <1>4, <2>4, <2>5 DEF Late
  <2>8. QED BY <1>1, <1>4, <2>1, <2>3, <2>5, <2>6, <2>7 DEF d, Slides, HasSlid
<1>5. QED BY <1>1, <1>2, <1>3, <1>4

(* The handler of the indicators. *)
LEMMA Lights ==
    ASSUME NEW c, Turns(c)
    PROVE  LET d == OnSlid(c, 0)
           IN  /\ Turns(d) /\ d.slid = c.slid /\ d.hasty = c.hasty /\ d.moves = c.moves
               /\ d.active = c.active /\ d.waiting = c.waiting
               /\ c.lit = {} => d.lit = c.active
<1>1. PICK a \in Item : c.active = {a}
  BY DEF Turns, OneSlide
<1>2. Active(c) = a
  BY <1>1 DEF Active
<1> DEFINE d == [c EXCEPT !.lit = @ \cup {a}]
<1>3. OnSlid(c, 0) = d
  BY <1>2 DEF OnSlid
<1>4. c \in CarouselStates
  BY DEF Turns
<1>5. /\ d \in CarouselStates /\ d.active = c.active /\ d.moves = c.moves
      /\ d.sliding = c.sliding /\ d.strays = c.strays /\ d.slid = c.slid
      /\ d.waiting = c.waiting /\ d.hasty = c.hasty /\ d.lit = c.lit \cup {a}
  BY <1>1, <1>4 DEF CarouselStates
<1> HIDE DEF d
<1>6. QED BY <1>1, <1>3, <1>5 DEF Turns, OneSlide

(* An item may be gone to in any state. *)
LEMMA CarouselGoes ==
    ASSUME CarouselInv, NEW i \in Item, carousel' = GoTo(carousel, i)
    PROVE  CarouselInv'
BY GoesTo DEF CarouselInv

(* The arrows and the timer begin a slide. *)
LEMMA CarouselSlidesOn ==
    ASSUME CarouselInv, CarouselNextItem \/ CarouselPrevItem
    PROVE  CarouselInv'
<1> DEFINE c == carousel
<1>1. PICK a \in Item : c.active = {a}
  BY DEF CarouselInv, Turns, OneSlide
<1>2. Active(c) = a
  BY <1>1 DEF Active
<1>3. PICK i \in Item \ {a} : ~c.sliding /\ c' = SlideTo(c, i)
  BY <1>2, Neighbours DEF CarouselNextItem, CarouselPrevItem
<1>4. c' = GoTo(c, i)
  BY <1>1, <1>3 DEF GoTo
<1>5. QED BY <1>3, <1>4, CarouselGoes

(* Hovering changes the timer only. *)
LEMMA CarouselHovers ==
    ASSUME CarouselInv, CarouselMouseEnter \/ CarouselMouseLeave
    PROVE  CarouselInv'
<1>1. carousel \in CarouselStates /\ Turns(carousel)
  BY DEF CarouselInv, Turns
<1>2. SameTurn(carousel, carousel')
  BY <1>1, CyclesAndPauses DEF CarouselMouseEnter, CarouselMouseLeave
<1>3. Turns(carousel')
  BY <1>1, <1>2, SameTurnTurns
<1>4. QED BY <1>2, <1>3 DEF CarouselInv, SameTurn, AtRest, Slides, HasSlid, IndicatorWaits, Late,
                            NoIndicator

(* The end of the slide makes the other item the active one. *)
LEMMA CarouselArrives ==
    ASSUME CarouselInv, CarouselEnd
    PROVE  CarouselInv'
<1> DEFINE c == carousel
           from == Head(c.moves)[1]
           ending == {m \in Range(c.moves) : m[1] = from}
           others == Range(c.moves) \ ending
<1>0. c \in CarouselStates /\ c.strays = 0
  BY DEF CarouselInv, Turns
<1>1. PICK i \in Item, j \in Item : j # i /\ c.active = {i} /\ c.moves = << <<i, j>> >>
  BY DEF CarouselInv, CarouselEnd, Turns, OneSlide
<1>2. Range(c.moves) = {<<i, j>>} /\ from = i
  BY <1>1 DEF Range
<1>3. ending = {<<i, j>>}
  BY <1>2
<1>4. others = {} /\ (c.active \cup {m[2] : m \in ending}) \ {from} = {j}
  BY <1>1, <1>2, <1>3
<1>5. ElementsIn(c.moves, others) = <<>>
  <2> HIDE DEF others
  <2>1. QED BY <1>1, <1>4, OneSelected
<1>6. c' = [c EXCEPT !.active = {j}, !.moves = <<>>, !.sliding = FALSE, !.slid = TRUE]
  <2>1. c' = [c EXCEPT !.active = (c.active \cup {m[2] : m \in ending}) \ {from},
                       !.moves = ElementsIn(c.moves, others), !.sliding = FALSE, !.slid = TRUE]
    BY DEF CarouselEnd
  <2> HIDE DEF ending, others, from
  <2>2. QED BY <1>4, <1>5, <2>1
<1>7. <<>> \in CarouselMoves
  BY DEF CarouselMoves
<1>8. /\ c' \in CarouselStates /\ c'.active = {j} /\ c'.moves = <<>> /\ c'.sliding = FALSE
      /\ c'.slid = TRUE /\ c'.strays = 0 /\ c'.waiting = c.waiting /\ c'.lit = c.lit
      /\ c'.hasty = c.hasty
  BY <1>0, <1>1, <1>6, <1>7 DEF CarouselStates
<1>9. (c.hasty /\ NoIndicator(c)) \/ Slides(c)
  BY <1>1 DEF CarouselInv, CarouselEnd, AtRest, HasSlid, Late
<1>10. Turns(c')
  BY <1>1, <1>8 DEF Turns, OneSlide
<1>11. Late(c') \/ HasSlid(c')
  BY <1>8, <1>9 DEF Late, NoIndicator, Slides, HasSlid, IndicatorWaits
<1>12. QED BY <1>10, <1>11 DEF CarouselInv

(* 'slid': the first handler lights the indicator, the calls that waited then
   begin a slide or wait again. *)
LEMMA CarouselHandles ==
    ASSUME CarouselInv, CarouselSlid
    PROVE  CarouselInv'
<1> DEFINE c == carousel
           V == {v \in CarouselStates : Turns(v) /\ ~v.slid}
           base == [c EXCEPT !.slid = FALSE, !.waiting = <<>>]
           n == Len(c.waiting)
<1>1. c \in CarouselStates /\ Turns(c) /\ c.slid
  BY DEF CarouselInv, CarouselSlid, Turns
<1>2. c.waiting \in Seq({0} \cup Item) /\ n \in Nat /\ \A k \in 1 .. n : c.waiting[k] \in {0} \cup Item
  <2>1. c.waiting \in Seq({0} \cup Item)
    BY <1>1 DEF CarouselStates, CarouselHandlers
  <2>2. QED BY <2>1
<1>3. /\ base \in CarouselStates /\ base.active = c.active /\ base.moves = c.moves
      /\ base.sliding = c.sliding /\ base.strays = c.strays /\ base.slid = FALSE
      /\ base.waiting = <<>> /\ base.lit = c.lit /\ base.hasty = c.hasty
  <2>1. <<>> \in CarouselHandlers
    BY DEF CarouselHandlers
  <2>2. QED BY <1>1, <2>1 DEF CarouselStates
<1>4. base \in V
  <2> HIDE DEF base
  <2>1. QED BY <1>1, <1>3 DEF Turns, OneSlide
<1>5. \A v \in V, h \in {0} \cup Item : OnSlid(v, h) \in V
  <2> TAKE v \in V, h \in {0} \cup Item
  <2>1. CASE h = 0
    BY <2>1, Lights DEF Turns
  <2>2. CASE h # 0
    BY <2>2, GoesTo DEF Turns, OnSlid
  <2>3. QED BY <2>1, <2>2
<1>6. PICK h : SlidsRuns(V, base, c.waiting, h)
  <2> HIDE DEF V, base
  <2>1. QED BY <1>2, <1>4, <1>5, SlidsGoesThrough
<1>7. /\ \A k \in 0 .. n : h[k] \in V
      /\ h[0] = base
      /\ \A k \in 1 .. n : h[k] = OnSlid(h[k - 1], c.waiting[k])
      /\ c' = h[n]
  BY <1>6 DEF SlidsRuns, CarouselSlid
<1>8. Turns(c')
  <2>1. h[n] \in V
    BY <1>2, <1>7
  <2>2. QED BY <1>7, <2>1
<1>9. ASSUME ~Late(c) PROVE AtRest(c') \/ Slides(c')
  <2>1. c.moves = <<>> /\ c.lit = {} /\ IndicatorWaits(c)
    BY <1>1, <1>9 DEF CarouselInv, AtRest, Slides, HasSlid
  <2>2. n > 0 /\ c.waiting[1] = 0 /\ \A k \in 2 .. n : c.waiting[k] \in Item
    BY <1>2, <2>1 DEF IndicatorWaits
  <2> HIDE DEF n, base
  <2>3. h[1] = OnSlid(base, 0)
    <3>1. 1 \in 1 .. n /\ 1 - 1 = 0
      BY <1>2, <2>2
    <3>2. QED BY <1>7, <2>2, <3>1
  <2>4. AtRest(h[1])
    BY <1>3, <1>4, <2>1, <2>3, Lights DEF AtRest
  <2> DEFINE T == {0} \cup {k \in 1 .. n : AtRest(h[k]) \/ Slides(h[k])}
  <2>5. ASSUME NEW k \in 1 .. n, k - 1 \in T PROVE k \in T
    <3>1. CASE k = 1
      BY <2>4, <3>1
    <3>2. CASE k # 1
      <4>1. k \in 2 .. n /\ k - 1 \in 0 .. n /\ k - 1 \in 1 .. n
        BY <1>2, <3>2
      <4>2. h[k - 1] \in V /\ c.waiting[k] \in Item
        BY <1>7, <2>2, <4>1
      <4>3. h[k] = GoTo(h[k - 1], c.waiting[k])
        <5>1. c.waiting[k] # 0
          BY <4>2 DEF Item
        <5>2. QED BY <1>7, <5>1 DEF OnSlid
      <4>4. AtRest(h[k - 1]) \/ Slides(h[k - 1])
        BY <2>5, <4>1
      <4>5. QED BY <4>2, <4>3, <4>4, GoesTo
    <3>3. QED BY <3>1, <3>2
  <2>6. 0 .. n \subseteq T
    <3>1. 0 \in T
      OBVIOUS
    <3> HIDE DEF T
    <3>2. QED BY <1>2, <2>5, <3>1, HandedOn
  <2>7. n \in 1 .. n /\ n \in 0 .. n
    BY <1>2, <2>2
  <2>8. QED BY <1>7, <2>6, <2>7
<1>10. ASSUME Late(c), c.moves # <<>> PROVE Late(c')
  <2> DEFINE T == {k \in 0 .. n : Late(h[k]) /\ h[k].moves # <<>>}
  <2>1. 0 \in T
    <3>1. Late(base) /\ base.moves # <<>>
      BY <1>3, <1>10 DEF Late, NoIndicator
    <3> HIDE DEF base
    <3>2. QED BY <1>2, <1>7, <3>1
  <2>2. ASSUME NEW k \in 1 .. n, k - 1 \in T PROVE k \in T
    <3>1. k - 1 \in 0 .. n /\ k \in 0 .. n
      BY <1>2
    <3>2. /\ h[k - 1] \in V /\ Late(h[k - 1]) /\ h[k - 1].moves # <<>>
          /\ h[k] = OnSlid(h[k - 1], c.waiting[k]) /\ c.waiting[k] \in {0} \cup Item
      BY <1>2, <1>7, <2>2, <3>1
    <3>3. CASE c.waiting[k] = 0
      <4>1. /\ h[k].slid = h[k - 1].slid /\ h[k].hasty = h[k - 1].hasty
            /\ h[k].moves = h[k - 1].moves /\ h[k].waiting = h[k - 1].waiting
        BY <3>2, <3>3, Lights
      <4>2. QED BY <3>1, <3>2, <4>1 DEF Late, NoIndicator
    <3>4. CASE c.waiting[k] # 0
      <4>1. h[k] = GoTo(h[k - 1], c.waiting[k]) /\ c.waiting[k] \in Item
        BY <3>2, <3>4 DEF OnSlid
      <4>2. QED BY <3>1, <3>2, <4>1, GoesTo
    <3>5. QED BY <3>3, <3>4
  <2> HIDE DEF T, n
  <2>3. 0 .. n \subseteq T
    BY <1>2, <2>1, <2>2, HandedOn
  <2>4. n \in T
    BY <1>2, <2>3
  <2>5. QED BY <1>7, <2>4 DEF T
<1>11. ASSUME Late(c), c.moves = <<>> PROVE Late(c') \/ Slides(c')
  <2> DEFINE T == {k \in 0 .. n : Late(h[k]) \/ Slides(h[k])}
  <2>1. \A k \in 1 .. n : c.waiting[k] \in Item /\ c.waiting[k] # 0
    BY <1>2, <1>11 DEF Late, NoIndicator
  <2>2. 0 \in T
    <3>1. Late(base)
      BY <1>3, <1>11 DEF Late, NoIndicator
    <3> HIDE DEF base
    <3>2. QED BY <1>2, <1>7, <3>1
  <2>3. ASSUME NEW k \in 1 .. n, k - 1 \in T PROVE k \in T
    <3>1. k - 1 \in 0 .. n /\ k \in 0 .. n
      BY <1>2
    <3>2. h[k - 1] \in V /\ (Late(h[k - 1]) \/ Slides(h[k - 1]))
      BY <1>7, <2>3, <3>1
    <3>3. h[k] = GoTo(h[k - 1], c.waiting[k])
      BY <1>7, <2>1 DEF OnSlid
    <3>4. QED BY <2>1, <3>1, <3>2, <3>3, GoesTo
  <2> HIDE DEF T, n
  <2>4. 0 .. n \subseteq T
    BY <1>2, <2>2, <2>3, HandedOn
  <2>5. n \in T
    BY <1>2, <2>4
  <2>6. QED BY <1>7, <2>5 DEF T
<1>12. QED BY <1>8, <1>9, <1>10, <1>11 DEF CarouselInv

(* Arrows, timer, indicators, hovering and the end of the slides, in any order. *)
LEMMA CarouselKeeps == CarouselInit /\ [][CarouselNext]_carousel => []CarouselInv
<1>1. CarouselInit => CarouselInv
  <2> SUFFICES ASSUME CarouselInit PROVE CarouselInv
    OBVIOUS
  <2>1. 1 \in Item
    BY CarouselAssumption DEF Item
  <2>2. <<>> \in CarouselMoves /\ <<>> \in CarouselHandlers
    BY DEF CarouselMoves, CarouselHandlers
  <2>3. carousel \in CarouselStates
    BY <2>1, <2>2 DEF CarouselInit, CarouselStates
  <2>4. QED BY <2>1, <2>3 DEF CarouselInit, CarouselInv, Turns, OneSlide, AtRest
<1>2. CarouselInv /\ [CarouselNext]_carousel => CarouselInv'
  <2> SUFFICES ASSUME CarouselInv, [CarouselNext]_carousel PROVE CarouselInv'
    OBVIOUS
  <2>1. CASE CarouselNextItem \/ CarouselPrevItem \/ CarouselTick
    BY <2>1, CarouselSlidesOn DEF CarouselTick
  <2>2. CASE \E i \in Item : CarouselTo(i)
    BY <2>2, CarouselGoes DEF CarouselTo
  <2>3. CASE CarouselMouseEnter \/ CarouselMouseLeave
    BY <2>3, CarouselHovers
  <2>4. CASE CarouselEnd
    BY <2>4, CarouselArrives
  <2>5. CASE CarouselSlid
    BY <2>5, CarouselHandles
  <2>6. CASE UNCHANGED carousel
    BY <2>6 DEF CarouselInv
  <2>7. QED BY <2>1, <2>2, <2>3, <2>4, <2>5, <2>6 DEF CarouselNext
<1>3. QED BY <1>1, <1>2, PTL

(* What follows for the steps alone, *)
LEMMA CarouselStepsSafely == CarouselInit /\ [][CarouselNext]_carousel => []CarouselSafe
<1>1. CarouselInv => CarouselSafe
  <2> SUFFICES ASSUME CarouselInv PROVE CarouselSafe
    OBVIOUS
  <2>1. PICK i \in Item : /\ carousel.active = {i}
                          /\ carousel.moves = <<>> \/ \E j \in Item : carousel.moves = << <<i, j>> >>
    BY DEF CarouselInv, Turns, OneSlide
  <2>2. Cardinality(carousel.active) = 1
    BY <2>1, FS_Singleton
  <2>3. Len(carousel.moves) <= 1
    BY <2>1
  <2>4. CarouselOneActive /\ CarouselOneTimer
    BY <2>2, <2>3 DEF CarouselOneActive, CarouselOneTimer, CarouselInv, Turns
  <2>5. CarouselIndicator
    BY DEF CarouselIndicator, CarouselInv, AtRest, Slides, HasSlid, Late
  <2>6. QED BY <2>4, <2>5 DEF CarouselSafe
<1>2. QED BY <1>1, CarouselKeeps, PTL

(* and for the specification: one item is active, one slide at most is under
   way, the timer is never doubled, and at rest the indicator of the active
   item is lit, unless the last slide began before the 'slid' of another. *)
THEOREM CarouselIsSafe == CarouselSpec => []CarouselSafe
BY CarouselStepsSafely, PTL DEF CarouselSpec

-----------------------------------------------------------------------------
(* The tabs: transitions of several panes end together. *)
(* The callbacks of one event run one after the other, *)
FadesRuns(V, base, seq, h) ==
    /\ \A k \in 0 .. Len(seq) : h[k] \in V
    /\ h[0] = base
    /\ \A k \in 1 .. Len(seq) : h[k] = FadeNext(h[k - 1], seq[k])
    /\ FoldLeft(FadeNext, base, seq) = h[Len(seq)]

LEMMA FadesGoesThrough ==
    ASSUME NEW V, NEW C, NEW base \in V, NEW seq \in Seq(C),
           \A v \in V, c \in C : FadeNext(v, c) \in V
    PROVE  \E h : FadesRuns(V, base, seq, h)
<1> DEFINE n == Len(seq)
           F == [i \in 1 .. n |-> [v \in V |-> FadeNext(v, seq[i])]]
<1>1. n \in Nat /\ DOMAIN seq = 1 .. n /\ \A i \in 1 .. n : seq[i] \in C
  OBVIOUS
<1>2. FoldStays(V, n, F)
  BY <1>1 DEF FoldStays
<1>3. \A i \in 1 .. n, v \in V : F[i][v] = FadeNext(v, seq[i])
  OBVIOUS
<1> HIDE DEF n, F
<1>4. PICK g : FoldSolves(V, base, n, F, g)
  BY <1>1, <1>2, FoldIsDefined
<1>5. g = [s \in SUBSET DOMAIN seq |->
             IF s = {} THEN base ELSE FadeNext(g[s \ {Max(s)}], seq[Max(s)])]
  <2>1. ASSUME NEW s \in SUBSET (1 .. n), s # {}
        PROVE  F[Max(s)][g[s \ {Max(s)}]] = FadeNext(g[s \ {Max(s)}], seq[Max(s)])
    <3>1. Max(s) \in s
      BY <1>1, <2>1, MaxIsGreatest
    <3>2. g[s \ {Max(s)}] \in V
      BY <1>4 DEF FoldSolves
    <3>3. QED BY <1>3, <3>1, <3>2
  <2>2. QED BY <1>1, <1>4, <2>1 DEF FoldSolves
<1>6. PICK it :
         /\ it = [s \in SUBSET DOMAIN seq |->
                    IF s = {} THEN base ELSE FadeNext(it[s \ {Max(s)}], seq[Max(s)])]
         /\ FoldLeft(FadeNext, base, seq) = it[DOMAIN seq]
  BY <1>5 DEF FoldLeft, MapThenFoldSet
<1>7. it[{}] = base
  BY <1>6
<1>8. ASSUME NEW s \in SUBSET (1 .. n), s # {}, it[s \ {Max(s)}] \in V
      PROVE  it[s] = F[Max(s)][it[s \ {Max(s)}]]
  <2>1. Max(s) \in s
    BY <1>1, <1>8, MaxIsGreatest
  <2>2. it[s] = FadeNext(it[s \ {Max(s)}], seq[Max(s)])
    BY <1>1, <1>6, <1>8
  <2>3. QED BY <1>3, <1>8, <2>1, <2>2
<1>9. FoldObeys(V, base, n, F, it)
  BY <1>7, <1>8 DEF FoldObeys
<1>10. PICK h : FoldRuns(V, base, n, F, h) /\ h[n] = it[1 .. n]
  BY <1>1, <1>2, <1>9, FoldGoesThrough
<1>11. \A k \in 1 .. n : h[k] = FadeNext(h[k - 1], seq[k])
  BY <1>1, <1>3, <1>10 DEF FoldRuns
<1>12. QED BY <1>1, <1>6, <1>10, <1>11 DEF n, FoldRuns, FadesRuns

(* and so do the events of the panes. *)
PanesRuns(V, base, seq, h) ==
    /\ \A k \in 0 .. Len(seq) : h[k] \in V
    /\ h[0] = base
    /\ \A k \in 1 .. Len(seq) : h[k] = PaneEnd(h[k - 1], seq[k])
    /\ FoldLeft(PaneEnd, base, seq) = h[Len(seq)]

LEMMA PanesGoesThrough ==
    ASSUME NEW V, NEW C, NEW base \in V, NEW seq \in Seq(C),
           \A v \in V, c \in C : PaneEnd(v, c) \in V
    PROVE  \E h : PanesRuns(V, base, seq, h)
<1> DEFINE n == Len(seq)
           F == [i \in 1 .. n |-> [v \in V |-> PaneEnd(v, seq[i])]]
<1>1. n \in Nat /\ DOMAIN seq = 1 .. n /\ \A i \in 1 .. n : seq[i] \in C
  OBVIOUS
<1>2. FoldStays(V, n, F)
  BY <1>1 DEF FoldStays
<1>3. \A i \in 1 .. n, v \in V : F[i][v] = PaneEnd(v, seq[i])
  OBVIOUS
<1> HIDE DEF n, F
<1>4. PICK g : FoldSolves(V, base, n, F, g)
  BY <1>1, <1>2, FoldIsDefined
<1>5. g = [s \in SUBSET DOMAIN seq |->
             IF s = {} THEN base ELSE PaneEnd(g[s \ {Max(s)}], seq[Max(s)])]
  <2>1. ASSUME NEW s \in SUBSET (1 .. n), s # {}
        PROVE  F[Max(s)][g[s \ {Max(s)}]] = PaneEnd(g[s \ {Max(s)}], seq[Max(s)])
    <3>1. Max(s) \in s
      BY <1>1, <2>1, MaxIsGreatest
    <3>2. g[s \ {Max(s)}] \in V
      BY <1>4 DEF FoldSolves
    <3>3. QED BY <1>3, <3>1, <3>2
  <2>2. QED BY <1>1, <1>4, <2>1 DEF FoldSolves
<1>6. PICK it :
         /\ it = [s \in SUBSET DOMAIN seq |->
                    IF s = {} THEN base ELSE PaneEnd(it[s \ {Max(s)}], seq[Max(s)])]
         /\ FoldLeft(PaneEnd, base, seq) = it[DOMAIN seq]
  BY <1>5 DEF FoldLeft, MapThenFoldSet
<1>7. it[{}] = base
  BY <1>6
<1>8. ASSUME NEW s \in SUBSET (1 .. n), s # {}, it[s \ {Max(s)}] \in V
      PROVE  it[s] = F[Max(s)][it[s \ {Max(s)}]]
  <2>1. Max(s) \in s
    BY <1>1, <1>8, MaxIsGreatest
  <2>2. it[s] = PaneEnd(it[s \ {Max(s)}], seq[Max(s)])
    BY <1>1, <1>6, <1>8
  <2>3. QED BY <1>3, <1>8, <2>1, <2>2
<1>9. FoldObeys(V, base, n, F, it)
  BY <1>7, <1>8 DEF FoldObeys
<1>10. PICK h : FoldRuns(V, base, n, F, h) /\ h[n] = it[1 .. n]
  BY <1>1, <1>2, <1>9, FoldGoesThrough
<1>11. \A k \in 1 .. n : h[k] = PaneEnd(h[k - 1], seq[k])
  BY <1>1, <1>3, <1>10 DEF FoldRuns
<1>12. QED BY <1>1, <1>6, <1>10, <1>11 DEF n, FoldRuns, PanesRuns

(***************************************************************************)
(* All transitions that are awaited began with the panes that are active,  *)
(* whose events end them together; the last of them leads to the selected  *)
(* tab, and there is one at most unless the last click was hasty.          *)
(***************************************************************************)
TabFades == [on : SUBSET TabId, from : SUBSET TabId, to : TabId]
TabStates ==
    [selected : TabId, active : SUBSET TabId, in : SUBSET TabId, fades : Seq(TabFades),
     hasty : BOOLEAN]

TabInv ==
    /\ TabTypeOK
    /\ tab.active # {}
    /\ \A i \in DOMAIN tab.fades : tab.fades[i].on = tab.active /\ tab.fades[i].from = tab.active
    /\ tab.fades # <<>> => tab.fades[Len(tab.fades)].to = tab.selected
    /\ ~tab.hasty => Len(tab.fades) <= 1
    /\ TabShowsSelected

(* The type of the tabs, with a name for what is awaited. *)
LEMMA TabTyped == TabTypeOK <=> tab \in TabStates
BY DEF TabTypeOK, TabStates, TabFades

(* What the callbacks can make of the panes. *)
Fadings == [selected : {tab.selected}, active : SUBSET TabId, in : SUBSET TabId,
            fades : {tab.fades}, hasty : {tab.hasty}]

(* The callbacks of an event end with the last that waited. *)
LEMMA PaneEnds ==
    ASSUME TabInv, tab.fades # <<>>, NEW s \in Fadings, NEW p \in TabId
    PROVE  LET f == tab.fades[Len(tab.fades)]
           IN  /\ PaneEnd(s, p) \in Fadings
               /\ p \notin tab.active => PaneEnd(s, p) = s
               /\ p \in tab.active =>
                     /\ f.to \in PaneEnd(s, p).active \cap PaneEnd(s, p).in
                     /\ (Len(tab.fades) = 1 /\ s.active \subseteq tab.active \cup {f.to}) =>
                           PaneEnd(s, p).active = {f.to}
<1> DEFINE n == Len(tab.fades)
           f == tab.fades[n]
           waiting == {w \in Range(tab.fades) : p \in w.on \cap Ending}
<1>1. tab.fades \in Seq(TabFades) /\ n \in Nat /\ n > 0 /\ DOMAIN tab.fades = 1 .. n
  BY TabTyped DEF TabInv, TabStates
<1>2. Ending = tab.active /\ f.from = tab.active /\ f \in TabFades
  BY <1>1 DEF Ending, TabInv
<1>3. \A i \in 1 .. n : tab.fades[i] \in Range(tab.fades) /\ tab.fades[i].on = tab.active
  BY <1>1 DEF Range, TabInv
<1>4. PaneEnd(s, p) = FoldLeft(FadeNext, s, ElementsIn(tab.fades, waiting))
  BY DEF PaneEnd
<1>5. \A v \in Fadings, w \in TabFades : FadeNext(v, w) \in Fadings
  BY DEF Fadings, TabFades, FadeNext
<1>6. ElementsIn(tab.fades, waiting) = IF p \in tab.active THEN tab.fades ELSE <<>>
  <2>1. CASE p \in tab.active
    <3>1. \A i \in DOMAIN tab.fades : tab.fades[i] \in waiting
      BY <1>1, <1>2, <1>3, <2>1
    <3> HIDE DEF waiting
    <3>2. QED BY <1>1, <2>1, <3>1, AllSelected
  <2>2. CASE p \notin tab.active
    <3>1. \A i \in DOMAIN tab.fades : tab.fades[i] \notin waiting
      BY <1>1, <1>2, <1>3, <2>2
    <3> HIDE DEF waiting
    <3>2. QED BY <1>1, <2>2, <3>1, NoneSelected
  <2>3. QED BY <2>1, <2>2
<1>7. CASE p \notin tab.active
  <2>1. PaneEnd(s, p) = FoldLeft(FadeNext, s, <<>>)
    BY <1>4, <1>6, <1>7
  <2>2. PICK h : FadesRuns(Fadings, s, <<>>, h)
    <3>1. <<>> \in Seq(TabFades)
      OBVIOUS
    <3>2. QED BY <1>5, <3>1, FadesGoesThrough
  <2>3. QED BY <1>7, <2>1, <2>2 DEF FadesRuns
<1>8. CASE p \in tab.active
  <2>1. PaneEnd(s, p) = FoldLeft(FadeNext, s, tab.fades)
    BY <1>4, <1>6, <1>8
  <2>2. PICK h : FadesRuns(Fadings, s, tab.fades, h)
    BY <1>1, <1>5, FadesGoesThrough
  <2>3. /\ PaneEnd(s, p) = h[n] /\ h[n] \in Fadings /\ h[n - 1] \in Fadings
        /\ h[n] = FadeNext(h[n - 1], f)
        /\ n = 1 => h[n - 1] = s
    BY <1>1, <2>1, <2>2 DEF FadesRuns
  <2>4. h[n].active = (h[n - 1].active \ f.from) \cup {f.to} /\ h[n].in = h[n - 1].in \cup {f.to}
    BY <2>3 DEF FadeNext, Fadings
  <2> HIDE DEF n, f
  <2>5. QED BY <1>2, <1>8, <2>3, <2>4 DEF n, f
<1>9. QED BY <1>7, <1>8

(* When the transitions end the pane of the selected tab is active. *)
LEMMA TabEnds ==
    ASSUME TabInv, TabEnd
    PROVE  /\ tab' \in TabStates /\ tab'.fades = <<>> /\ tab'.selected = tab.selected
           /\ tab'.hasty = tab.hasty
           /\ tab.selected \in tab'.active \cap tab'.in
           /\ ~tab.hasty => tab'.active = {tab.selected}
<1> DEFINE n == Len(tab.fades)
           f == tab.fades[n]
           left == {w \in Range(tab.fades) : w.on \ Ending # {}}
           rest == ElementsIn(tab.fades, left)
           seq == [p \in TabId |-> p]
           end == FoldLeft(PaneEnd, tab, seq)
<1>1. /\ tab.fades \in Seq(TabFades) /\ n \in Nat /\ n > 0 /\ DOMAIN tab.fades = 1 .. n
      /\ tab.fades # <<>> /\ f.to = tab.selected /\ tab.active # {}
      /\ tab.active \subseteq TabId /\ tab \in TabStates
  BY TabTyped DEF TabInv, TabStates, TabEnd
<1>2. Ending = tab.active
  BY <1>1 DEF Ending, TabInv
<1>3. rest = <<>>
  <2>1. \A i \in DOMAIN tab.fades : tab.fades[i] \notin left
    BY <1>1, <1>2 DEF TabInv
  <2> HIDE DEF left
  <2>2. QED BY <1>1, <2>1, NoneSelected
<1>4. tab' = [end EXCEPT !.fades = <<>>]
  <2>1. tab' = [end EXCEPT !.fades = [i \in DOMAIN rest |-> [rest[i] EXCEPT !.on = @ \ Ending]]]
    BY DEF TabEnd
  <2>2. [i \in DOMAIN rest |-> [rest[i] EXCEPT !.on = @ \ Ending]] = <<>>
    <3> HIDE DEF rest
    <3>1. DOMAIN rest = {}
      BY <1>3
    <3>2. \A g : DOMAIN g = {} /\ g = [i \in {} |-> g[i]] => g = <<>>
      OBVIOUS
    <3>3. QED BY <3>1, <3>2
  <2>3. QED BY <2>1, <2>2
<1>5. tab \in Fadings
  BY <1>1 DEF Fadings, TabStates
<1>6. \A s \in Fadings, p \in TabId : PaneEnd(s, p) \in Fadings
  BY <1>1, PaneEnds
<1>7. seq \in Seq(TabId) /\ Len(seq) = NumTabs /\ \A p \in 1 .. NumTabs : seq[p] = p
  BY TabAssumption DEF TabId
<1> HIDE DEF seq
<1>8. PICK h : PanesRuns(Fadings, tab, seq, h)
  BY <1>5, <1>6, <1>7, PanesGoesThrough
<1>9. /\ h[0] = tab /\ end = h[NumTabs]
      /\ \A k \in 0 .. NumTabs : h[k] \in Fadings
      /\ \A k \in 1 .. NumTabs : h[k] = PaneEnd(h[k - 1], k)
  BY <1>7, <1>8 DEF PanesRuns
<1> HIDE DEF end
(* After pane k: nothing yet, or what the last callback left. *)
<1> DEFINE Untouched(s) == s = tab
           Arrived(s) == /\ f.to \in s.active \cap s.in
                         /\ n = 1 => s.active = {f.to}
           T == {k \in 0 .. NumTabs : IF tab.active \cap (1 .. k) = {} THEN Untouched(h[k])
                                                                     ELSE Arrived(h[k])}
<1>10. 0 \in T
  BY <1>9, TabAssumption
<1>11. ASSUME NEW k \in 1 .. NumTabs, k - 1 \in T PROVE k \in T
  <2>1. k \in TabId /\ k - 1 \in 0 .. NumTabs /\ h[k - 1] \in Fadings /\ h[k] = PaneEnd(h[k - 1], k)
    BY <1>9, TabAssumption DEF TabId
  <2>2. 1 .. k = (1 .. (k - 1)) \cup {k}
    BY TabAssumption
  <2>3. k \notin tab.active => h[k] = h[k - 1]
    BY <1>1, <2>1, PaneEnds
  <2>4. k \in tab.active =>
           /\ f.to \in h[k].active \cap h[k].in
           /\ (n = 1 /\ h[k - 1].active \subseteq tab.active \cup {f.to}) => h[k].active = {f.to}
    BY <1>1, <2>1, PaneEnds
  <2>5. h[k - 1].active \subseteq tab.active \cup {f.to} \/ n # 1
    BY <1>11
  <2> HIDE DEF n, f
  <2>6. QED BY <1>11, <2>2, <2>3, <2>4, <2>5
<1>12. 0 .. NumTabs \subseteq T
  <2> HIDE DEF T
  <2>1. QED BY <1>10, <1>11, TabAssumption, HandedOn
<1>13. Arrived(end) /\ end \in Fadings
  <2>1. NumTabs \in T /\ tab.active \cap (1 .. NumTabs) # {} /\ NumTabs \in 0 .. NumTabs
    BY <1>1, <1>12, TabAssumption DEF TabId
  <2> HIDE DEF Untouched, Arrived
  <2>2. QED BY <1>9, <2>1
<1>14. ~tab.hasty => n = 1
  <2>1. ~tab.hasty => n <= 1
    BY DEF TabInv
  <2> HIDE DEF n
  <2>2. QED BY <1>1, <2>1
<1> HIDE DEF n, f
<1>15. tab' = [end EXCEPT !.fades = <<>>]
  BY <1>4
<1>16. /\ tab' \in TabStates /\ tab'.fades = <<>> /\ tab'.selected = tab.selected
       /\ tab'.hasty = tab.hasty /\ tab'.active = end.active /\ tab'.in = end.in
  <2> DEFINE S == Seq(TabFades)
  <2>1. <<>> \in S
    OBVIOUS
  <2>2. /\ tab \in [selected : TabId, active : SUBSET TabId, in : SUBSET TabId, fades : S,
                    hasty : BOOLEAN]
        /\ TabStates = [selected : TabId, active : SUBSET TabId, in : SUBSET TabId, fades : S,
                        hasty : BOOLEAN]
    BY <1>1 DEF TabStates
  <2> HIDE DEF S
  <2>3. QED BY <1>13, <1>15, <2>1, <2>2 DEF Fadings
<1>17. QED BY <1>1, <1>13, <1>14, <1>16

(* A click lets one more transition begin with the panes that are active. *)
LEMMA TabClicked ==
    ASSUME TabInv, NEW t \in TabId, TabShow(t)
    PROVE  TabInv'
<1> DEFINE n == Len(tab.fades)
           f == [on |-> tab.active, from |-> tab.active, to |-> t]
<1>1. /\ tab.fades \in Seq(TabFades) /\ n \in Nat /\ DOMAIN tab.fades = 1 .. n
      /\ tab \in TabStates /\ f \in TabFades /\ (tab.fades # <<>> <=> n > 0)
  BY TabTyped DEF TabInv, TabStates, TabFades
<1>2. tab.fades \o Fade(tab.active, t) = Append(tab.fades, f)
  BY <1>1 DEF Fade
<1>3. /\ tab'.selected = t /\ tab'.active = tab.active /\ tab'.in = tab.in \ tab.active
      /\ tab'.fades = Append(tab.fades, f) /\ tab'.hasty = (tab.fades # <<>>)
      /\ tab' = [tab EXCEPT !.selected = t, !.in = @ \ tab.active,
                          !.fades = Append(tab.fades, f), !.hasty = tab.fades # <<>>]
  BY <1>1, <1>2 DEF TabShow, TabStates
<1>4. /\ Len(tab'.fades) = n + 1 /\ DOMAIN tab'.fades = 1 .. n + 1 /\ tab'.fades # <<>>
      /\ \A i \in 1 .. n + 1 : tab'.fades[i] = IF i = n + 1 THEN f ELSE tab.fades[i]
  <2> HIDE DEF f
  <2>1. QED BY <1>1, <1>3
<1>5. tab' \in TabStates
  <2>1. Append(tab.fades, f) \in Seq(TabFades)
    BY <1>1
  <2> HIDE DEF f
  <2>2. QED BY <1>1, <1>3, <2>1 DEF TabStates
<1>6. TabTypeOK'
  BY <1>5 DEF TabTypeOK, TabStates, TabFades
<1>7. \A i \in DOMAIN tab'.fades :
         tab'.fades[i].on = tab'.active /\ tab'.fades[i].from = tab'.active
  BY <1>1, <1>3, <1>4 DEF TabInv
<1>8. tab'.fades[Len(tab'.fades)].to = tab'.selected
  BY <1>1, <1>3, <1>4
<1>9. ~tab'.hasty => Len(tab'.fades) <= 1
  <2> SUFFICES ASSUME ~tab'.hasty PROVE Len(tab'.fades) <= 1
    OBVIOUS
  <2>1. tab.fades = <<>>
    BY <1>3
  <2>2. n = 0
    BY <2>1
  <2> HIDE DEF n, f
  <2>3. QED BY <1>4, <2>2
<1>10. TabShowsSelected'
  BY <1>4 DEF TabShowsSelected
<1>11. tab'.active # {}
  BY <1>3 DEF TabInv
<1>12. QED BY <1>6, <1>7, <1>8, <1>9, <1>10, <1>11 DEF TabInv

(* However fast the tabs are clicked: when all transitions have ended the pane
   of the selected tab is active, and the only one unless the last click was
   hasty. *)
LEMMA TabKeeps == TabInit /\ [][TabNext]_tab => []TabInv
<1>1. TabInit => TabInv
  <2> SUFFICES ASSUME TabInit PROVE TabInv
    OBVIOUS
  <2>1. tab \in TabStates
    BY TabAssumption DEF TabInit, TabStates, TabId, TabFades
  <2>2. QED BY <2>1, TabTyped DEF TabInit, TabInv, TabShowsSelected
<1>2. TabInv /\ [TabNext]_tab => TabInv'
  <2> SUFFICES ASSUME TabInv, [TabNext]_tab PROVE TabInv'
    OBVIOUS
  <2>1. CASE TabEnd
    <3>1. /\ tab' \in TabStates /\ tab'.fades = <<>> /\ tab'.selected = tab.selected
          /\ tab'.hasty = tab.hasty
          /\ tab.selected \in tab'.active \cap tab'.in
          /\ ~tab.hasty => tab'.active = {tab.selected}
      BY <2>1, TabEnds
    <3>2. TabTypeOK'
      BY <3>1 DEF TabTypeOK, TabStates, TabFades
    <3>3. QED BY <3>1, <3>2 DEF TabInv, TabShowsSelected
  <2>2. CASE \E t \in TabId : TabShow(t)
    BY <2>2, TabClicked
  <2>3. CASE UNCHANGED tab
    BY <2>3 DEF TabInv, TabTypeOK, TabShowsSelected
  <2>4. QED BY <2>1, <2>2, <2>3 DEF TabNext
<1>3. QED BY <1>1, <1>2, PTL

(* When all transitions have ended the tabs show what is selected, and only
   that if the last click did not come during a transition. *)
THEOREM TabShows == TabSpec => []TabShowsSelected
<1>1. TabInv => TabShowsSelected
  BY DEF TabInv
<1>2. QED BY <1>1, TabKeeps, PTL DEF TabSpec

=============================================================================
