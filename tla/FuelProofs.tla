----------------------------- MODULE FuelProofs -----------------------------
(***************************************************************************)
(* Proofs about widgets of Fuel UX (Wizard, Spinner, Datagrid, Tree and    *)
(* FormControls), for every number of steps, range, set of items, page     *)
(* sizes and words.                                                        *)
(***************************************************************************)
EXTENDS Wizard, Spinner, Datagrid, Tree, FormControls, FiniteSetTheorems,
        SequenceTheorems, WellFoundedInduction, TLAPS

(***************************************************************************)
(* The wizard: forms that need no validation are valid, and only the form  *)
(* of the pane that is shown can change, which is not complete.            *)
(***************************************************************************)
WizardInv ==
    /\ WizardTypeOK /\ WizardTellsStep /\ WizardCompleteIsValid
    /\ WizardSteps \ RequiredSteps \subseteq wizard.valid

(* WizardInv holds from the first state, and every step keeps it. *)
LEMMA WizardKeeps == WizardSpec => []WizardInv
<1> USE WizardAssumption
<1>1. WizardInit => WizardInv
  BY DEF WizardInit, WizardInv, WizardTypeOK, WizardTellsStep, WizardCompleteIsValid, WizardSteps
<1>2. WizardInv /\ [WizardNext]_wizard => WizardInv'
  <2> SUFFICES ASSUME WizardInv, [WizardNext]_wizard PROVE WizardInv'
    OBVIOUS
  <2>1. ASSUME NEW s \in WizardSteps, 1 .. (s - 1) \subseteq wizard.valid,
               WizardTypeOK', wizard'.currentStep = s, wizard'.complete = 1 .. (s - 1),
               wizard'.active = {s}, wizard'.pane = s, wizard'.prevOff => s = 1,
               wizard'.valid = wizard.valid, wizard'.finished = wizard.finished
        PROVE  WizardInv'
    <3>1. WizardTellsStep' BY <2>1 DEF WizardTellsStep
    <3>2. WizardCompleteIsValid' BY <2>1 DEF WizardInv, WizardCompleteIsValid
    <3>3. QED BY <2>1, <3>1, <3>2 DEF WizardInv
  <2>2. ASSUME NEW s \in WizardSteps
        PROVE  1 .. (s - 1) \in SUBSET WizardSteps /\ {s} \in SUBSET WizardSteps
    BY DEF WizardSteps
  <2>3. CASE WizardNextStep
    <3>1. wizard.currentStep \in wizard.valid /\ wizard.currentStep \in Nat \ {0}
      BY <2>3 DEF WizardNextStep, Validated, WizardInv, WizardTypeOK, WizardSteps
    <3>2. CASE wizard.currentStep < NumSteps
      <4> DEFINE s == wizard.currentStep + 1
      <4>1. /\ s \in WizardSteps /\ s - 1 = wizard.currentStep
            /\ 1 .. wizard.currentStep \subseteq wizard.valid
        BY <3>1, <3>2
           DEF WizardInv, WizardTypeOK, WizardSteps, WizardTellsStep, WizardCompleteIsValid
      <4>2. wizard' = [Moved(wizard, s) EXCEPT !.prevOff = FALSE]
        BY <2>3, <3>2 DEF WizardNextStep
      <4> HIDE DEF s
      <4>3. WizardTypeOK'
        BY <2>2, <4>1, <4>2 DEF WizardInv, WizardTypeOK, Moved
      <4>4. /\ wizard'.currentStep = s /\ wizard'.complete = 1 .. (s - 1)
            /\ wizard'.active = {s} /\ wizard'.pane = s /\ ~wizard'.prevOff
            /\ wizard'.valid = wizard.valid /\ wizard'.finished = wizard.finished
        BY <4>2 DEF WizardInv, WizardTypeOK, Moved
      <4>5. QED BY <2>1, <4>1, <4>3, <4>4
    <3>3. CASE ~(wizard.currentStep < NumSteps)
      <4> USE DEF WizardInv, WizardTypeOK
      <4>1. wizard.valid = WizardSteps
        <5>1. wizard.currentStep = NumSteps BY <3>1, <3>3 DEF WizardSteps
        <5>2. 1 .. (NumSteps - 1) \subseteq wizard.valid /\ NumSteps \in wizard.valid
          BY <3>1, <5>1 DEF WizardTellsStep, WizardCompleteIsValid
        <5>3. WizardSteps = 1 .. (NumSteps - 1) \cup {NumSteps} BY DEF WizardSteps
        <5>4. QED BY <5>2, <5>3
      <4>2. WizardTypeOK' BY <2>3, <3>3 DEF WizardNextStep
      <4>3. /\ wizard'.currentStep = wizard.currentStep /\ wizard'.complete = wizard.complete
            /\ wizard'.active = wizard.active /\ wizard'.pane = wizard.pane
            /\ ~wizard'.prevOff /\ wizard'.valid = wizard.valid
            /\ wizard'.finished = wizard.finished \cup {wizard.valid}
        BY <2>3, <3>3 DEF WizardNextStep
      <4>4. WizardTellsStep' BY <4>3 DEF WizardTellsStep
      <4>5. WizardCompleteIsValid' BY <4>1, <4>3 DEF WizardCompleteIsValid
      <4>6. QED BY <4>2, <4>3, <4>4, <4>5
    <3>4. QED BY <3>2, <3>3
  <2>4. CASE WizardPreviousStep
    <3>1. CASE wizard.currentStep > 1
      <4> DEFINE s == wizard.currentStep - 1
      <4>1. s \in WizardSteps /\ 1 .. (s - 1) \subseteq wizard.valid
        BY <3>1
           DEF WizardInv, WizardTypeOK, WizardSteps, WizardTellsStep, WizardCompleteIsValid
      <4>2. wizard' = [Moved(wizard, s) EXCEPT !.prevOff = (s = 1)]
        BY <2>4, <3>1 DEF WizardPreviousStep
      <4> HIDE DEF s
      <4>3. WizardTypeOK'
        BY <2>2, <4>1, <4>2 DEF WizardInv, WizardTypeOK, Moved
      <4>4. /\ wizard'.currentStep = s /\ wizard'.complete = 1 .. (s - 1)
            /\ wizard'.active = {s} /\ wizard'.pane = s /\ (wizard'.prevOff <=> s = 1)
            /\ wizard'.valid = wizard.valid /\ wizard'.finished = wizard.finished
        BY <4>2 DEF WizardInv, WizardTypeOK, Moved
      <4>5. QED BY <2>1, <4>1, <4>3, <4>4
    <3>2. CASE ~(wizard.currentStep > 1)
      <4> USE DEF WizardInv, WizardTypeOK
      <4>1. wizard.currentStep = 1 BY <3>2 DEF WizardSteps
      <4>2. wizard' = [wizard EXCEPT !.prevOff = (wizard.currentStep - 1 = 1)]
        BY <2>4, <3>2 DEF WizardPreviousStep
      <4>3. WizardTypeOK' BY <4>2
      <4>4. /\ wizard'.currentStep = wizard.currentStep /\ wizard'.complete = wizard.complete
            /\ wizard'.active = wizard.active /\ wizard'.pane = wizard.pane
            /\ wizard'.valid = wizard.valid /\ wizard'.finished = wizard.finished
        BY <4>2
      <4>5. WizardTellsStep' BY <4>1, <4>4 DEF WizardTellsStep
      <4>6. WizardCompleteIsValid' BY <4>4 DEF WizardCompleteIsValid
      <4>7. QED BY <4>3, <4>4, <4>5, <4>6
    <3>3. QED BY <3>1, <3>2
  <2>5. ASSUME NEW s \in WizardSteps, WizardStepClicked(s) PROVE WizardInv'
    <3>1. 1 .. (s - 1) \subseteq wizard.valid /\ ~wizard.prevOff
      BY <2>5 DEF WizardStepClicked, WizardInv, WizardTypeOK, WizardSteps,
                  WizardTellsStep, WizardCompleteIsValid
    <3>2. WizardTypeOK'
      BY <2>2, <2>5 DEF WizardStepClicked, WizardInv, WizardTypeOK, Moved
    <3>3. /\ wizard'.currentStep = s /\ wizard'.complete = 1 .. (s - 1)
          /\ wizard'.active = {s} /\ wizard'.pane = s /\ (wizard'.prevOff <=> wizard.prevOff)
          /\ wizard'.valid = wizard.valid /\ wizard'.finished = wizard.finished
      BY <2>5 DEF WizardStepClicked, WizardInv, WizardTypeOK, Moved
    <3>4. QED BY <2>1, <3>1, <3>2, <3>3
  <2>6. CASE WizardEdit
    <3> USE <2>6 DEF WizardEdit, WizardInv, WizardTypeOK
    <3>1. wizard.pane \notin wizard.complete
      BY DEF WizardTellsStep, WizardSteps
    <3>2. WizardTypeOK' OBVIOUS
    <3>3. WizardTellsStep' BY DEF WizardTellsStep
    <3>4. WizardCompleteIsValid' BY <3>1 DEF WizardCompleteIsValid
    <3>5. (WizardSteps \ RequiredSteps \subseteq wizard.valid)' OBVIOUS
    <3>6. QED BY <3>2, <3>3, <3>4, <3>5
  <2>7. CASE UNCHANGED wizard
    BY <2>7 DEF WizardInv, WizardTypeOK, WizardTellsStep, WizardCompleteIsValid
  <2>8. QED BY <2>3, <2>4, <2>5, <2>6, <2>7 DEF WizardNext
<1>3. QED BY <1>1, <1>2, PTL DEF WizardSpec

(* A complete step is valid, and badges, pane and the button back agree    *)
(* with the current step (WizardSafe: fuelux.js, the wizard), for any      *)
(* number of steps and any of them required.                               *)
THEOREM WizardIsSafe == WizardSpec => []WizardSafe
<1>1. WizardInv => WizardSafe
  BY DEF WizardInv, WizardSafe
<1>2. QED BY <1>1, WizardKeeps, PTL

-----------------------------------------------------------------------------
Differ(s) == \A i, j \in 1 .. Len(s) : i # j => s[i] # s[j]

(* A sequence without elements is one of different elements.               *)
LEMMA NoneDiffer ==
    ASSUME NEW s, Len(s) = 0
    PROVE  Differ(s)
BY DEF Differ

(* Without one of its elements a sequence of different elements is one.    *)
LEMMA RemovedDiffer ==
    ASSUME NEW S, NEW s \in Seq(S), NEW n \in 1 .. Len(s), Differ(s)
    PROVE  RemoveAt(s, n) \in Seq(S) /\ Differ(RemoveAt(s, n))
<1> DEFINE a == SubSeq(s, 1, n - 1)
           b == SubSeq(s, n + 1, Len(s))
           t == RemoveAt(s, n)
<1>1. n \in 1 .. Len(s) /\ Len(s) \in Nat /\ \A i \in 1 .. Len(s) : s[i] \in S
  BY LenProperties, ElementOfSeq
<1>2. t = a \o b
  BY DEF RemoveAt
<1>3. a \in Seq(S) /\ Len(a) = n - 1 /\ \A i \in 1 .. (n - 1) : a[i] = s[i]
  <2>1. \A i \in 1 .. (n - 1) : s[i] \in S BY <1>1
  <2>2. \A i \in 1 .. (n - 1 - 1 + 1) : a[i] = s[1 + i - 1]
    BY <1>1, <2>1, SubSeqProperties
  <2>3. a \in Seq(S) /\ Len(a) = IF 1 <= n - 1 THEN n - 1 - 1 + 1 ELSE 0
    BY <1>1, <2>1, SubSeqProperties
  <2> HIDE DEF a
  <2>4. QED BY <1>1, <2>2, <2>3
<1>4. /\ b \in Seq(S) /\ Len(b) = Len(s) - n
      /\ \A i \in 1 .. (Len(s) - n) : b[i] = s[n + i]
  <2>1. \A i \in (n + 1) .. Len(s) : s[i] \in S BY <1>1
  <2>2. \A i \in 1 .. (Len(s) - (n + 1) + 1) : b[i] = s[n + 1 + i - 1]
    BY <1>1, <2>1, SubSeqProperties
  <2>3. b \in Seq(S) /\ Len(b) = IF n + 1 <= Len(s) THEN Len(s) - (n + 1) + 1 ELSE 0
    BY <1>1, <2>1, SubSeqProperties
  <2> HIDE DEF b
  <2>4. QED BY <1>1, <2>2, <2>3
<1> HIDE DEF a, b, t
<1>5. t \in Seq(S) /\ Len(t) = Len(s) - 1
  BY <1>1, <1>2, <1>3, <1>4, ConcatProperties
<1>6. ASSUME NEW i \in 1 .. Len(t) PROVE t[i] = s[IF i < n THEN i ELSE i + 1]
  <2>1. t[i] = IF i <= Len(a) THEN a[i] ELSE b[i - Len(a)]
    BY <1>1, <1>2, <1>3, <1>4, <1>5, ConcatProperties
  <2>2. CASE i < n BY <1>1, <1>3, <1>5, <2>1, <2>2
  <2>3. CASE ~(i < n)
    <3>1. i - Len(a) \in 1 .. (Len(s) - n) /\ n + (i - Len(a)) = i + 1 /\ ~(i <= Len(a))
      BY <1>1, <1>3, <1>5, <2>3
    <3>2. b[i - Len(a)] = s[n + (i - Len(a))]
      BY <1>4, <3>1
    <3>3. QED BY <2>1, <2>3, <3>1, <3>2
  <2>4. QED BY <2>2, <2>3
<1>7. Differ(t)
  <2> SUFFICES ASSUME NEW i \in 1 .. Len(t), NEW j \in 1 .. Len(t), i # j PROVE t[i] # t[j]
    BY DEF Differ
  <2> DEFINE at(x) == IF x < n THEN x ELSE x + 1
  <2>1. at(i) \in 1 .. Len(s) /\ at(j) \in 1 .. Len(s) /\ at(i) # at(j)
    BY <1>1, <1>5
  <2>2. t[i] = s[at(i)] /\ t[j] = s[at(j)]
    BY <1>6
  <2> HIDE DEF at
  <2>3. QED BY <2>1, <2>2 DEF Differ
<1>8. QED BY <1>5, <1>7 DEF t

(* With another element at its end it stays one.                           *)
LEMMA AppendedDiffer ==
    ASSUME NEW S, NEW s \in Seq(S), NEW e \in S, e \notin ToSet(s), Differ(s)
    PROVE  Append(s, e) \in Seq(S) /\ Differ(Append(s, e))
<1> DEFINE t == Append(s, e)
<1>1. /\ t \in Seq(S) /\ Len(t) = Len(s) + 1 /\ Len(s) \in Nat
      /\ \A i \in 1 .. Len(s) : t[i] = s[i]
      /\ t[Len(s) + 1] = e
  BY AppendProperties, LenProperties
<1>2. \A i \in 1 .. Len(s) : s[i] # e
  BY LenProperties DEF ToSet
<1> HIDE DEF t
<1>3. QED BY <1>1, <1>2 DEF Differ, t

(* Of what is typed in the form, and clicked, only the widget's own part   *)
(* changes; each part is an invariant by itself, given its types.          *)
FormInv == FormTypeOK /\ ComboboxAgrees /\ IconsAgree /\ Differ(form.pills)

(* FormInv holds from the first state, and every step keeps it. *)
LEMMA FormKeeps == FormSpec => []FormInv
<1> USE FormControlsAssumption DEF RadioButtons, CheckBox
<1>1. FormInit => FormInv
  <2> SUFFICES ASSUME FormInit PROVE FormInv
    OBVIOUS
  <2> DEFINE first == CHOOSE r \in RadioButtons : r \notin Disabled
  <2>1. first \in RadioButtons OBVIOUS
  <2>2. form = [input |-> "", selected |-> None, typing |-> FALSE, checked |-> {first},
                icons |-> {first}, greyed |-> Disabled, pills |-> <<>>, pill |-> ""]
    BY DEF FormInit
  <2> HIDE DEF first
  <2>3. FormTypeOK BY <2>1, <2>2, EmptySeq DEF FormTypeOK
  <2>4. Len(<<>>) = 0 /\ form.pills = <<>> BY <2>2, EmptySeq
  <2>5. Differ(form.pills)
    <3>1. Len(form.pills) = 0 BY <2>4, Zenon
    <3>2. QED BY <3>1, NoneDiffer
  <2>6. ComboboxAgrees BY <2>2 DEF ComboboxAgrees
  <2>7. IconsAgree BY <2>2 DEF IconsAgree
  <2>8. QED BY <2>3, <2>5, <2>6, <2>7 DEF FormInv
<1>2. FormInv /\ [FormNext]_form => FormInv'
  <2> SUFFICES ASSUME FormInv, [FormNext]_form PROVE FormInv'
    OBVIOUS
  <2> USE DEF FormInv, FormTypeOK
  <2>1. ASSUME NEW text \in ItemTexts, ComboboxItem(text) PROVE FormInv'
    <3> USE <2>1 DEF ComboboxItem, ComboboxTexts
    <3>1. FormTypeOK' OBVIOUS
    <3>2. ComboboxAgrees' BY DEF ComboboxAgrees
    <3>3. IconsAgree' BY DEF IconsAgree
    <3>4. form'.pills = form.pills OBVIOUS
    <3>5. QED BY <3>1, <3>2, <3>3, <3>4, Zenon
  <2>2. ASSUME NEW text \in ComboboxTexts, ComboboxType(text) PROVE FormInv'
    <3> USE <2>2 DEF ComboboxType
    <3>1. FormTypeOK' OBVIOUS
    <3>2. ComboboxAgrees' BY DEF ComboboxAgrees
    <3>3. IconsAgree' BY DEF IconsAgree
    <3>4. form'.pills = form.pills OBVIOUS
    <3>5. QED BY <3>1, <3>2, <3>3, <3>4, Zenon
  <2>3. CASE ComboboxChange
    <3> USE <2>3 DEF ComboboxChange, SelectBySelector, ComboboxTexts
    <3>1. FormTypeOK' OBVIOUS
    <3>2. ComboboxAgrees' BY DEF ComboboxAgrees
    <3>3. IconsAgree' BY DEF IconsAgree
    <3>4. form'.pills = form.pills OBVIOUS
    <3>5. QED BY <3>1, <3>2, <3>3, <3>4, Zenon
  <2>4. ASSUME NEW r \in RadioButtons, RadioClick(r) PROVE FormInv'
    <3> USE <2>4 DEF RadioClick, ResetGroup
    <3>1. FormTypeOK' OBVIOUS
    <3>2. ComboboxAgrees' BY DEF ComboboxAgrees
    <3>3. IconsAgree' BY DEF IconsAgree
    <3>4. form'.pills = form.pills OBVIOUS
    <3>5. QED BY <3>1, <3>2, <3>3, <3>4, Zenon
  <2>5. CASE CheckBoxClick
    <3> USE <2>5 DEF CheckBoxClick
    <3>1. FormTypeOK' OBVIOUS
    <3>2. ComboboxAgrees' BY DEF ComboboxAgrees
    <3>3. IconsAgree' BY DEF IconsAgree
    <3>4. form'.pills = form.pills OBVIOUS
    <3>5. QED BY <3>1, <3>2, <3>3, <3>4, Zenon
  <2>6. ASSUME NEW word \in Words, PillType(word) PROVE FormInv'
    <3> USE <2>6 DEF PillType
    <3>1. FormTypeOK' OBVIOUS
    <3>2. ComboboxAgrees' BY DEF ComboboxAgrees
    <3>3. IconsAgree' BY DEF IconsAgree
    <3>4. form'.pills = form.pills OBVIOUS
    <3>5. QED BY <3>1, <3>2, <3>3, <3>4, Zenon
  <2>7. CASE PillAdd
    <3>1. form.pills \in Seq(Words) /\ form.pill \in Words /\ form.pill \notin ToSet(form.pills)
      BY <2>7 DEF PillAdd, PillRepeats
    <3>2. /\ Append(form.pills, form.pill) \in Seq(Words)
          /\ Differ(Append(form.pills, form.pill))
      BY <3>1, AppendedDiffer
    <3>3. FormTypeOK' BY <2>7, <3>2 DEF PillAdd
    <3>4. ComboboxAgrees' BY <2>7 DEF PillAdd, ComboboxAgrees
    <3>5. IconsAgree' BY <2>7 DEF PillAdd, IconsAgree
    <3>6. form'.pills = Append(form.pills, form.pill) BY <2>7 DEF PillAdd
    <3>7. QED BY <3>2, <3>3, <3>4, <3>5, <3>6, Zenon
  <2>8. ASSUME NEW n \in 1 .. Len(form.pills), PillClick(n) PROVE FormInv'
    <3>1. form.pills \in Seq(Words)
      OBVIOUS
    <3>2. RemoveAt(form.pills, n) \in Seq(Words) /\ Differ(RemoveAt(form.pills, n))
      BY <3>1, RemovedDiffer
    <3>3. FormTypeOK' BY <2>8, <3>2 DEF PillClick
    <3>4. ComboboxAgrees' BY <2>8 DEF PillClick, ComboboxAgrees
    <3>5. IconsAgree' BY <2>8 DEF PillClick, IconsAgree
    <3>6. form'.pills = RemoveAt(form.pills, n) BY <2>8 DEF PillClick
    <3>7. QED BY <3>2, <3>3, <3>4, <3>5, <3>6, Zenon
  <2>9. CASE UNCHANGED form
    BY <2>9 DEF ComboboxAgrees, IconsAgree
  <2>10. QED BY <2>1, <2>2, <2>3, <2>4, <2>5, <2>6, <2>7, <2>8, <2>9 DEF FormNext
<1>3. QED BY <1>1, <1>2, PTL DEF FormSpec

(* The combobox selects what its input shows, icons are lit as their inputs *)
(* are checked, and no two pills are the same (FormSafe: fuelux.js and      *)
(* app.js), for any items, boxes and words.                                 *)
THEOREM FormIsSafe == FormSpec => []FormSafe
<1>1. FormInv => ComboboxAgrees /\ IconsAgree
  BY DEF FormInv
<1>2. FormInv => PillsDiffer
  BY LenProperties DEF FormInv, FormTypeOK, Differ, PillsDiffer
<1>3. FormInv => FormSafe BY <1>1, <1>2 DEF FormSafe
<1>4. QED BY <1>3, FormKeeps, PTL

-----------------------------------------------------------------------------
(***************************************************************************)
(* The tree: TreeNoDuplicates holds step by step, as a folder that has     *)
(* items asks no more; without multiSelect two selected items are one.     *)
(***************************************************************************)
TreeOneSelected == ~tree.multiSelect => \A x, y \in tree.selected : x = y

TreeTold == tree.selected # {} => tree.told = tree.selected

TreeInv ==
    /\ tree \in [multiSelect : BOOLEAN, open : BOOLEAN, asked : Nat, content : [Items -> Nat],
                 selected : SUBSET Items, told : SUBSET Items, again : Nat]
    /\ TreeNoDuplicates /\ TreeOneSelected /\ TreeTold

(* TreeInv holds from the first state, and every step keeps it. *)
LEMMA TreeKeeps == TreeSpec => []TreeInv
<1>1. TreeInit => TreeInv
  BY DEF TreeInit, TreeInv, TreeNoDuplicates, TreeOneSelected, TreeTold
<1>2. TreeInv /\ [TreeNext]_tree => TreeInv'
  <2> SUFFICES ASSUME TreeInv, [TreeNext]_tree PROVE TreeInv'
    OBVIOUS
  <2> DEFINE Type == tree \in [multiSelect : BOOLEAN, open : BOOLEAN, asked : Nat,
                               content : [Items -> Nat], selected : SUBSET Items,
                               told : SUBSET Items, again : Nat]
  <2>1. CASE TreeOpen
    <3> USE <2>1 DEF TreeInv, TreeOpen, Populates
    <3>1. Type'
      <4>1. tree.asked + 1 \in Nat /\ tree.again + 1 \in Nat OBVIOUS
      <4>2. CASE Filled BY <4>2
      <4>3. CASE ~Filled BY <4>1, <4>3
      <4>4. QED BY <4>2, <4>3
    <3>2. TreeNoDuplicates'
      <4>1. /\ tree'.content = tree.content
            /\ tree'.again = IF ~Filled /\ tree.asked > 0 THEN tree.again + 1 ELSE tree.again
            /\ tree'.asked = IF Filled THEN tree.asked ELSE tree.asked + 1
        OBVIOUS
      <4>2. ~Filled <=> \A i \in Items : tree.content[i] = 0 BY DEF Filled
      <4>3. QED BY <4>1, <4>2 DEF TreeNoDuplicates
    <3>3. TreeOneSelected' BY DEF TreeOneSelected
    <3>4. TreeTold' BY DEF TreeTold
    <3>5. QED BY <3>1, <3>2, <3>3, <3>4
  <2>2. CASE TreeClose
    <3> USE <2>2 DEF TreeInv, TreeClose
    <3>1. Type' OBVIOUS
    <3>2. TreeNoDuplicates' BY DEF TreeNoDuplicates
    <3>3. TreeOneSelected' BY DEF TreeOneSelected
    <3>4. TreeTold' BY DEF TreeTold
    <3>5. QED BY <3>1, <3>2, <3>3, <3>4
  <2>3. CASE TreeAnswer
    <3> USE <2>3 DEF TreeInv, TreeAnswer
    <3>1. Type'
      <4>1. tree.asked - 1 \in Nat OBVIOUS
      <4>2. [i \in Items |-> tree.content[i] + 1] \in [Items -> Nat] OBVIOUS
      <4>3. QED BY <4>1, <4>2
    <3>2. TreeNoDuplicates' BY DEF TreeNoDuplicates
    <3>3. TreeOneSelected' BY DEF TreeOneSelected
    <3>4. TreeTold' BY DEF TreeTold
    <3>5. QED BY <3>1, <3>2, <3>3, <3>4
  <2>4. ASSUME NEW item \in Items, TreeSelectItem(item) PROVE TreeInv'
    <3> USE <2>4 DEF TreeInv
    <3>1. Type' BY DEF TreeSelectItem, Deselected, SelectedInfo
    <3>2. TreeNoDuplicates' BY DEF TreeSelectItem, TreeNoDuplicates
    <3>3. /\ tree'.multiSelect <=> tree.multiSelect
          /\ tree'.selected = IF item \in tree.selected THEN Deselected(item) \ {item}
                                                        ELSE Deselected(item) \cup {item}
          /\ tree'.told = IF SelectedInfo(item) # {} THEN SelectedInfo(item) ELSE tree.told
      BY DEF TreeSelectItem
    <3>4. CASE tree.multiSelect
      <4>1. Deselected(item) = tree.selected /\ SelectedInfo(item) = tree'.selected
        BY <3>3, <3>4 DEF Deselected, SelectedInfo
      <4>2. QED BY <3>1, <3>2, <3>3, <3>4, <4>1 DEF TreeOneSelected, TreeTold
    <3>5. CASE ~tree.multiSelect /\ item \in tree.selected
      <4>1. tree.selected = {item} /\ tree'.selected = {}
        BY <3>3, <3>5 DEF TreeOneSelected, Deselected
      <4>2. QED BY <3>1, <3>2, <3>3, <3>5, <4>1 DEF TreeOneSelected, TreeTold
    <3>6. CASE ~tree.multiSelect /\ item \notin tree.selected
      <4>1. tree'.selected = {item} /\ SelectedInfo(item) = {item}
        BY <3>3, <3>6 DEF Deselected, SelectedInfo
      <4>2. QED BY <3>1, <3>2, <3>3, <3>6, <4>1 DEF TreeOneSelected, TreeTold
    <3>7. QED BY <3>4, <3>5, <3>6
  <2>5. CASE UNCHANGED tree
    BY <2>5 DEF TreeInv, TreeNoDuplicates, TreeOneSelected, TreeTold
  <2>6. QED BY <2>1, <2>2, <2>3, <2>4, <2>5 DEF TreeNext
<1>3. QED BY <1>1, <1>2, PTL DEF TreeSpec

(* An item is there once, and once more for every time the folder asked    *)
(* again before an answer; and the last event tells what is selected       *)
(* (TreeSafe: fuelux.js, the tree), with multiSelect and without.          *)
THEOREM TreeIsSafe == TreeSpec => []TreeSafe
<1>1. TreeInv => TreeNoDuplicates
  BY DEF TreeInv
<1>2. TreeInv => TreeTellsSelection
  <2> SUFFICES ASSUME TreeInv, ~tree.multiSelect PROVE Cardinality(tree.selected) <= 1
    BY DEF TreeInv, TreeTold, TreeTellsSelection
  <2>1. CASE tree.selected = {}
    BY <2>1, FS_EmptySet
  <2>2. CASE tree.selected # {}
    <3>1. PICK x \in tree.selected : TRUE BY <2>2
    <3>2. tree.selected = {x} BY <3>1 DEF TreeInv, TreeOneSelected
    <3>3. Cardinality({x}) = 1 BY FS_Singleton
    <3>4. QED BY <3>2, <3>3
  <2>3. QED BY <2>1, <2>2
<1>3. TreeInv => TreeSafe BY <1>1, <1>2 DEF TreeSafe
<1>4. QED BY <1>3, TreeKeeps, PTL

(* Questions, and how often an item was appended, stay in the bound: the   *)
(* folder asks only while it is empty.                                     *)
TreeBounded ==
    tree.asked <= MaxAsked /\ \A x \in Items : tree.content[x] + tree.asked <= MaxAsked

(* The type of the tree, with the bounds TreeInv does not need. *)
LEMMA TreeTyped == TreeSpec => []TreeTypeOK
<1> USE TreeAssumption
<1>1. TreeInit => TreeBounded
  BY DEF TreeInit, TreeBounded
<1>2. TreeInv /\ TreeBounded /\ [TreeNext]_tree => TreeBounded'
  <2> SUFFICES ASSUME TreeInv, TreeBounded, [TreeNext]_tree PROVE TreeBounded'
    OBVIOUS
  <2> USE DEF TreeInv, TreeBounded
  <2>1. CASE TreeOpen
    <3>1. tree'.content = tree.content
      BY <2>1 DEF TreeOpen
    <3>2. CASE Filled
      <4>1. tree'.asked = tree.asked BY <2>1, <3>2 DEF TreeOpen, Populates
      <4>2. QED BY <3>1, <4>1
    <3>3. CASE ~Filled
      <4>1. tree'.asked = tree.asked + 1 /\ tree.asked < MaxAsked
        BY <2>1, <3>3 DEF TreeOpen, Populates
      <4>2. \A x \in Items : tree.content[x] = 0
        BY <3>3 DEF Filled
      <4>3. QED BY <3>1, <4>1, <4>2
    <3>4. QED BY <3>2, <3>3
  <2>2. CASE TreeAnswer
    <3>1. /\ tree'.asked = tree.asked - 1 /\ tree.asked > 0
          /\ tree'.content = [x \in Items |-> tree.content[x] + 1]
      BY <2>2 DEF TreeAnswer
    <3>2. QED BY <3>1
  <2>3. CASE UNCHANGED <<tree.asked, tree.content>>
    BY <2>3
  <2>4. QED BY <2>1, <2>2, <2>3 DEF TreeNext, TreeClose, TreeSelectItem
<1>3. TreeInv /\ TreeBounded => TreeTypeOK
  <2> SUFFICES ASSUME TreeInv, TreeBounded PROVE TreeTypeOK
    OBVIOUS
  <2>1. tree.asked \in 0 .. MaxAsked
    BY DEF TreeInv, TreeBounded
  <2>2. tree.content \in [Items -> 0 .. MaxAsked + 1]
    BY <2>1 DEF TreeInv, TreeBounded
  <2>3. QED BY <2>1, <2>2 DEF TreeInv, TreeTypeOK
<1>4. QED BY <1>1, <1>2, <1>3, TreeKeeps, PTL DEF TreeSpec

-----------------------------------------------------------------------------
(* The smaller and the greater of two numbers.                             *)
LEMMA MinMaxOfTwo ==
    ASSUME NEW a \in Int, NEW b \in Int
    PROVE  /\ Min({a, b}) = IF a <= b THEN a ELSE b
           /\ Max({a, b}) = IF a >= b THEN a ELSE b
<1> DEFINE least == IF a <= b THEN a ELSE b
           most == IF a >= b THEN a ELSE b
<1>1. \A x \in {a, b} : (\A y \in {a, b} : x <= y) <=> x = least
  OBVIOUS
<1>2. \A x \in {a, b} : (\A y \in {a, b} : x >= y) <=> x = most
  OBVIOUS
<1>3. least \in {a, b} /\ most \in {a, b}
  OBVIOUS
<1> HIDE DEF least, most
<1>4. Min({a, b}) = least /\ Max({a, b}) = most
  BY <1>1, <1>2, <1>3 DEF Min, Max
<1>5. QED BY <1>4 DEF least, most

(***************************************************************************)
(* The spinner: unless a press has lost a timer that has not ended since,  *)
(* none is lost, and none is pending when no button is held; a step that   *)
(* ends out of the range began out of it, and farther.                     *)
(***************************************************************************)
SpinnerInv ==
    /\ SpinnerTypeOK /\ SpinnerStaysInRange
    /\ ~spinner.chorded => spinner.lost = "none"
    /\ ~spinner.chorded /\ ~spinner.held =>
           spinner.timeout = "none" /\ spinner.lastValue \subseteq {spinner.value}

(* One step of a value, in either direction. *)
LEMMA StepBounds ==
    ASSUME NEW value \in Int, NEW up \in Directions
    PROVE  /\ StepOf(value, up) \in Int
           /\ StepOf(value, up) > SpinMax => value >= StepOf(value, up)
           /\ StepOf(value, up) < SpinMin => value <= StepOf(value, up)
<1>1. /\ Min({value + SpinStep, SpinMax})
             = IF value + SpinStep <= SpinMax THEN value + SpinStep ELSE SpinMax
      /\ Max({value - SpinStep, SpinMin})
             = IF value - SpinStep >= SpinMin THEN value - SpinStep ELSE SpinMin
  <2>1. value + SpinStep \in Int /\ value - SpinStep \in Int /\ SpinMax \in Int /\ SpinMin \in Int
    BY SpinnerAssumption
  <2>2. QED BY <2>1, MinMaxOfTwo
<1>2. QED BY <1>1, SpinnerAssumption DEF StepOf

(* The range is not left by a step from value to next. *)
LEMMA InRangeKept ==
    ASSUME SpinnerStaysInRange, NEW next \in Int, spinner.value \in Int,
           next > SpinMax => spinner.value >= next, next < SpinMin => spinner.value <= next
    PROVE  /\ next > SpinMax => \E value \in Typed : value >= next
           /\ next < SpinMin => \E value \in Typed : value <= next
BY SpinnerAssumption DEF SpinnerStaysInRange

(* What a timer does, and a press after its history. *)
LEMMA StartSpinKeeps ==
    ASSUME NEW s, NEW up \in Directions,
           s \in [value : Int, lastValue : SUBSET Int, timeout : {"none"} \cup Directions,
                  lost : {"none"} \cup Directions, fresh : BOOLEAN, disabled : BOOLEAN,
                  held : BOOLEAN, chorded : BOOLEAN]
    PROVE  /\ StartSpin(s, up) \in
                 [value : Int, lastValue : SUBSET Int, timeout : {"none"} \cup Directions,
                  lost : {"none"} \cup Directions, fresh : BOOLEAN, disabled : BOOLEAN,
                  held : BOOLEAN, chorded : BOOLEAN]
           /\ StartSpin(s, up).value \in {s.value, StepOf(s.value, up)}
           /\ StartSpin(s, up).lost \in {s.lost, s.timeout}
           /\ StartSpin(s, up).timeout \in {s.timeout, up}
           /\ s.timeout = "none" \/ s.disabled => StartSpin(s, up).lost = s.lost
           /\ StartSpin(s, up).lastValue = s.lastValue
           /\ StartSpin(s, up).held <=> s.held
           /\ StartSpin(s, up).chorded <=> s.chorded
<1>1. StepOf(s.value, up) \in Int
  BY StepBounds
<1>2. CASE s.disabled
  BY <1>2 DEF StartSpin
<1>3. CASE ~s.disabled /\ s.fresh
  BY <1>1, <1>3 DEF StartSpin, Stepped
<1>4. CASE ~s.disabled /\ ~s.fresh
  BY <1>4 DEF StartSpin
<1>5. QED BY <1>2, <1>3, <1>4

(* SpinnerInv holds from the first state, and every step keeps it. *)
LEMMA SpinnerKeeps == SpinnerSpec => []SpinnerInv
<1>1. SpinnerInit => SpinnerInv
  BY SpinnerAssumption DEF SpinnerInit, SpinnerInv, SpinnerTypeOK, SpinnerStaysInRange
<1>2. SpinnerInv /\ [SpinnerNext]_spinner => SpinnerInv'
  <2> SUFFICES ASSUME SpinnerInv, [SpinnerNext]_spinner PROVE SpinnerInv'
    OBVIOUS
  <2> DEFINE Quiet == /\ ~spinner.chorded => spinner.lost = "none"
                      /\ ~spinner.chorded /\ ~spinner.held =>
                             /\ spinner.timeout = "none"
                             /\ spinner.lastValue \subseteq {spinner.value}
  <2>1. spinner.value \in Int BY DEF SpinnerInv, SpinnerTypeOK
  <2>2. ASSUME NEW up \in Directions, SpinPress(up) PROVE SpinnerInv'
    <3> DEFINE s == [spinner EXCEPT !.held = TRUE,
                                    !.chorded = spinner.chorded \/ Loses]
    <3>1. spinner' = StartSpin(s, up) BY <2>2 DEF SpinPress
    <3>2. /\ s \in [value : Int, lastValue : SUBSET Int, timeout : {"none"} \cup Directions,
                    lost : {"none"} \cup Directions, fresh : BOOLEAN, disabled : BOOLEAN,
                    held : BOOLEAN, chorded : BOOLEAN]
          /\ s.value = spinner.value /\ s.timeout = spinner.timeout /\ s.lost = spinner.lost
          /\ s.held /\ (s.chorded <=> spinner.chorded \/ Loses)
          /\ (s.disabled <=> spinner.disabled)
      BY DEF SpinnerInv, SpinnerTypeOK, Loses
    <3> HIDE DEF s
    <3>3. SpinnerTypeOK' BY <3>1, <3>2, StartSpinKeeps DEF SpinnerTypeOK
    <3>4. SpinnerStaysInRange'
      <4>1. spinner'.value \in {spinner.value, StepOf(spinner.value, up)}
        BY <3>1, <3>2, StartSpinKeeps
      <4>2. QED BY <2>1, <4>1, StepBounds, InRangeKept DEF SpinnerInv, SpinnerStaysInRange
    <3>5. Quiet'
      <4>1. /\ spinner'.held /\ (spinner'.chorded <=> spinner.chorded \/ Loses)
            /\ ~Loses => spinner'.lost = spinner.lost
        BY <3>1, <3>2, StartSpinKeeps DEF Loses
      <4>2. QED BY <4>1 DEF SpinnerInv
    <3>6. QED BY <3>3, <3>4, <3>5 DEF SpinnerInv
  <2>3. CASE SpinRelease
    <3> USE <2>3 DEF SpinRelease, StopSpin, Triggered, SpinnerTypeOK
    <3>1. {spinner.value} \subseteq Int BY <2>1
    <3>2. SpinnerTypeOK' BY <3>1 DEF SpinnerInv
    <3>3. SpinnerStaysInRange' BY DEF SpinnerInv, SpinnerStaysInRange
    <3>4. Quiet' BY DEF SpinnerInv
    <3>5. QED BY <3>2, <3>3, <3>4 DEF SpinnerInv
  <2>4. ASSUME NEW s, NEW up \in Directions,
               s \in [value : Int, lastValue : SUBSET Int, timeout : {"none"} \cup Directions,
                      lost : {"none"} \cup Directions, fresh : BOOLEAN, disabled : BOOLEAN,
                      held : BOOLEAN, chorded : BOOLEAN],
               s.value = StepOf(spinner.value, up), spinner' = StartSpin(s, up),
               s.held <=> spinner.held, s.chorded <=> spinner.chorded,
               spinner.chorded \/ (spinner.held /\ s.timeout = "none" /\ s.lost = "none")
        PROVE  SpinnerInv'
    <3>1. SpinnerTypeOK' BY <2>4, StartSpinKeeps DEF SpinnerTypeOK
    <3>2. SpinnerStaysInRange'
      <4> DEFINE once == StepOf(spinner.value, up)
                 twice == StepOf(once, up)
      <4>1. /\ once \in Int /\ (once > SpinMax => spinner.value >= once)
            /\ once < SpinMin => spinner.value <= once
        BY <2>1, StepBounds
      <4> HIDE DEF once
      <4>2. /\ twice \in Int /\ (twice > SpinMax => once >= twice)
            /\ twice < SpinMin => once <= twice
        BY <4>1, StepBounds
      <4>3. spinner'.value \in {once, twice}
        BY <2>4, StartSpinKeeps DEF once
      <4> HIDE DEF twice
      <4>4. QED
        BY <2>1, <4>1, <4>2, <4>3, InRangeKept, SpinnerAssumption
           DEF SpinnerInv, SpinnerStaysInRange
    <3>3. Quiet'
      <4>1. /\ spinner'.held <=> spinner.held
            /\ spinner'.chorded <=> spinner.chorded
            /\ s.timeout = "none" => spinner'.lost = s.lost
        BY <2>4, StartSpinKeeps
      <4>2. QED BY <2>4, <4>1
    <3>4. QED BY <3>1, <3>2, <3>3 DEF SpinnerInv
  <2>5. CASE SpinIterate
    <3> DEFINE up == spinner.timeout
               s == Stepped([spinner EXCEPT !.timeout = "none"], up)
    <3>1. up \in Directions /\ spinner' = StartSpin(s, up)
      BY <2>5 DEF SpinIterate, SpinnerInv, SpinnerTypeOK
    <3>2. StepOf(spinner.value, up) \in Int BY <2>1, <3>1, StepBounds
    <3>3. /\ s \in [value : Int, lastValue : SUBSET Int, timeout : {"none"} \cup Directions,
                    lost : {"none"} \cup Directions, fresh : BOOLEAN, disabled : BOOLEAN,
                    held : BOOLEAN, chorded : BOOLEAN]
          /\ s.value = StepOf(spinner.value, up) /\ s.timeout = "none" /\ s.lost = spinner.lost
          /\ (s.held <=> spinner.held) /\ (s.chorded <=> spinner.chorded)
      BY <3>2 DEF SpinnerInv, SpinnerTypeOK, Stepped
    <3>4. spinner.chorded \/ (spinner.held /\ spinner.lost = "none")
      BY <2>5 DEF SpinIterate, SpinnerInv
    <3> HIDE DEF s, up
    <3>5. QED BY <2>4, <3>1, <3>3, <3>4
  <2>6. CASE SpinIterateLost
    <3> DEFINE up == spinner.lost
               s == Stepped([spinner EXCEPT !.lost = "none"], up)
    <3>1. up \in Directions /\ spinner' = StartSpin(s, up)
      BY <2>6 DEF SpinIterateLost, SpinnerInv, SpinnerTypeOK
    <3>2. StepOf(spinner.value, up) \in Int BY <2>1, <3>1, StepBounds
    <3>3. /\ s \in [value : Int, lastValue : SUBSET Int, timeout : {"none"} \cup Directions,
                    lost : {"none"} \cup Directions, fresh : BOOLEAN, disabled : BOOLEAN,
                    held : BOOLEAN, chorded : BOOLEAN]
          /\ s.value = StepOf(spinner.value, up)
          /\ (s.held <=> spinner.held) /\ (s.chorded <=> spinner.chorded)
      BY <3>2 DEF SpinnerInv, SpinnerTypeOK, Stepped
    <3>4. spinner.chorded
      BY <2>6 DEF SpinIterateLost, SpinnerInv
    <3> HIDE DEF s, up
    <3>5. QED BY <2>4, <3>1, <3>3, <3>4
  <2>7. ASSUME NEW value \in Typed, SpinType(value) PROVE SpinnerInv'
    <3> USE <2>7, SpinnerAssumption DEF SpinType, Triggered, SpinnerTypeOK
    <3>1. value \in Int /\ {value} \subseteq Int OBVIOUS
    <3>2. SpinnerTypeOK' BY <3>1 DEF SpinnerInv
    <3>3. SpinnerStaysInRange' BY <3>1 DEF SpinnerInv, SpinnerStaysInRange
    <3>4. Quiet' BY DEF SpinnerInv
    <3>5. QED BY <3>2, <3>3, <3>4 DEF SpinnerInv
  <2>8. CASE SpinDisable \/ SpinEnable
    <3> USE <2>8 DEF SpinDisable, SpinEnable, SpinnerTypeOK
    <3>1. SpinnerTypeOK' BY DEF SpinnerInv
    <3>2. SpinnerStaysInRange' BY DEF SpinnerInv, SpinnerStaysInRange
    <3>3. Quiet' BY DEF SpinnerInv
    <3>4. QED BY <3>1, <3>2, <3>3 DEF SpinnerInv
  <2>9. CASE UNCHANGED spinner
    BY <2>9 DEF SpinnerInv, SpinnerTypeOK, SpinnerStaysInRange
  <2>10. QED BY <2>2, <2>3, <2>5, <2>6, <2>7, <2>8, <2>9 DEF SpinnerNext
<1>3. QED BY <1>1, <1>2, PTL DEF SpinnerSpec

(* After a release nothing spins on, and the listeners know the value,     *)
(* unless a press has lost a timer that has not ended since; and only what *)
(* is typed leaves the range (SpinnerSafe: fuelux.js, the spinner), for    *)
(* any range and any step.                                                 *)
THEOREM SpinnerIsSafe == SpinnerSpec => []SpinnerSafe
<1>1. SpinnerInv => SpinnerSettles /\ SpinnerStaysInRange
  BY DEF SpinnerInv, SpinnerSettles
<1>2. SpinnerInv => SpinnerSafe BY <1>1 DEF SpinnerSafe
<1>3. QED BY <1>2, SpinnerKeeps, PTL

-----------------------------------------------------------------------------
(***************************************************************************)
(* The grid: its page exists for the options in force, answered or not, as *)
(* the pager is used only on an answer to them.                            *)
(***************************************************************************)
GridPages == (Counts[grid.search][grid.filter] + grid.pageSize - 1) \div grid.pageSize

GridPaged == ~grid.hasty => grid.pageIndex = 0 \/ grid.pageIndex \in 1 .. (GridPages - 1)

GridInv ==
    /\ DOMAIN grid = {"pageIndex", "pageSize", "search", "filter", "sort", "pending", "shown",
                      "loading", "text", "activeSearch", "remove", "hasty"}
    /\ grid = [field \in DOMAIN grid |-> grid[field]]
    /\ grid.pageIndex \in Int /\ grid.pageSize \in PageSizes
    /\ {grid.search, grid.text, grid.activeSearch} \subseteq Searches
    /\ grid.filter \in Filters
    /\ grid.remove \in BOOLEAN /\ grid.hasty \in BOOLEAN /\ grid.shown.pages \in Int
    /\ GridShowsOptions /\ GridSearchAgrees /\ GridPaged

(* A query with rows has a page. *)
LEMMA PagesOfRows ==
    ASSUME NEW count \in Nat, NEW size \in Nat \ {0}
    PROVE  /\ (count + size - 1) \div size \in Int
           /\ count > 0 => (count + size - 1) \div size >= 1
OBVIOUS

(* What the data source says of the pages. *)
LEMMA DataPages ==
    /\ Data(grid).pages = GridPages /\ Data(grid).page = grid.pageIndex + 1
    /\ Data(grid).count = Counts[grid.search][grid.filter]
BY DEF Data, GridPages

(* Asking for the first page, whatever the query. *)
LEMMA AskKeeps ==
    ASSUME GridInv, NEW g,
           DOMAIN g = DOMAIN grid, g = [field \in DOMAIN g |-> g[field]],
           g.pageSize \in PageSizes, g.filter \in Filters,
           {g.search, g.text, g.activeSearch} \subseteq Searches,
           g.remove \in BOOLEAN, g.hasty \in BOOLEAN,
           g.shown = grid.shown,
           g.search = g.activeSearch, g.remove <=> (g.text # "" /\ g.text = g.activeSearch),
           grid' = Ask(g)
    PROVE  GridInv'
<1> USE DEF GridInv, Ask, RenderData
<1>1. /\ DOMAIN grid' = DOMAIN grid /\ grid' = [field \in DOMAIN grid' |-> grid'[field]]
      /\ grid'.pageIndex = 0 /\ grid'.pageSize = g.pageSize /\ grid'.search = g.search
      /\ grid'.text = g.text /\ grid'.activeSearch = g.activeSearch
      /\ grid'.filter = g.filter /\ grid'.remove = g.remove /\ grid'.loading
      /\ grid'.hasty = FALSE /\ grid'.shown = grid.shown
  OBVIOUS
<1>2. GridShowsOptions' BY <1>1 DEF GridShowsOptions
<1>3. GridSearchAgrees'
  <2>1. (grid.search = grid.activeSearch)' BY <1>1
  <2>2. (grid.remove <=> grid.text # "" /\ grid.text = grid.activeSearch)' BY <1>1
  <2>3. grid'.remove \in BOOLEAN BY <1>1
  <2>4. (grid.remove = (grid.text # "" /\ grid.text = grid.activeSearch))' BY ONLY <2>2, <2>3
  <2>5. QED BY <2>1, <2>4 DEF GridSearchAgrees
<1>4. GridPaged'
  <2>1. grid'.pageIndex = 0 BY <1>1
  <2>2. QED BY <2>1, Zenon DEF GridPaged
<1>5. {grid'.search, grid'.text, grid'.activeSearch} \subseteq Searches
  BY <1>1
<1>6. /\ grid'.pageIndex \in Int
      /\ grid'.pageSize \in PageSizes /\ grid'.filter \in Filters
      /\ grid'.remove \in BOOLEAN /\ grid'.hasty \in BOOLEAN /\ grid'.shown.pages \in Int
  <2>1. grid'.pageIndex \in Int
    <3>1. grid'.pageIndex = 0 BY <1>1
    <3>2. QED BY ONLY <3>1
  <2>2. grid'.pageSize \in PageSizes /\ grid'.filter \in Filters BY <1>1
  <2>3. grid'.remove \in BOOLEAN /\ grid'.hasty \in BOOLEAN BY <1>1
  <2>4. grid'.shown.pages \in Int BY <1>1
  <2>5. QED BY <2>1, <2>2, <2>3, <2>4
<1>7. /\ DOMAIN grid' = {"pageIndex", "pageSize", "search", "filter", "sort", "pending", "shown",
                         "loading", "text", "activeSearch", "remove", "hasty"}
      /\ grid' = [field \in DOMAIN grid' |-> grid'[field]]
  BY <1>1
<1>8. QED BY <1>2, <1>3, <1>4, <1>5, <1>6, <1>7, Zenon

(* Asking for a page that exists, or in haste. *)
LEMMA PageKeeps ==
    ASSUME GridInv, NEW index \in Int, NEW hasty \in BOOLEAN,
           ~hasty => index = 0 \/ index \in 1 .. (GridPages - 1),
           grid' = RenderData([grid EXCEPT !.pageIndex = index, !.hasty = hasty])
    PROVE  GridInv'
<1> USE DEF GridInv, RenderData
<1>1. /\ DOMAIN grid' = DOMAIN grid /\ grid' = [field \in DOMAIN grid' |-> grid'[field]]
      /\ grid'.pageIndex = index /\ grid'.pageSize = grid.pageSize
      /\ grid'.search = grid.search /\ grid'.text = grid.text
      /\ grid'.activeSearch = grid.activeSearch /\ grid'.filter = grid.filter
      /\ grid'.remove = grid.remove /\ grid'.loading /\ grid'.hasty = hasty
      /\ grid'.shown = grid.shown
  OBVIOUS
<1>2. GridShowsOptions' BY <1>1 DEF GridShowsOptions
<1>3. GridSearchAgrees'
  <2>1. (grid.search = grid.activeSearch)' BY <1>1 DEF GridSearchAgrees
  <2>2. (grid.remove <=> grid.text # "" /\ grid.text = grid.activeSearch)'
    BY <1>1 DEF GridSearchAgrees
  <2>3. grid'.remove \in BOOLEAN BY <1>1
  <2>4. (grid.remove = (grid.text # "" /\ grid.text = grid.activeSearch))' BY ONLY <2>2, <2>3
  <2>5. QED BY <2>1, <2>4 DEF GridSearchAgrees
<1>4. GridPaged'
  <2>1. GridPages' = GridPages BY <1>1 DEF GridPages
  <2>2. grid'.pageIndex = index /\ grid'.hasty = hasty BY <1>1
  <2>3. QED BY ONLY <2>1, <2>2, ~hasty => index = 0 \/ index \in 1 .. (GridPages - 1)
           DEF GridPaged
<1>5. {grid'.search, grid'.text, grid'.activeSearch} \subseteq Searches
  BY <1>1
<1>6. grid'.pageIndex \in Int /\ grid'.hasty \in BOOLEAN
  BY ONLY <1>1, index \in Int, hasty \in BOOLEAN
<1>7. grid'.pageSize \in PageSizes /\ grid'.filter \in Filters /\ grid'.remove \in BOOLEAN
      /\ grid'.shown.pages \in Int
  BY <1>1
<1>8. /\ DOMAIN grid' = {"pageIndex", "pageSize", "search", "filter", "sort", "pending", "shown",
                         "loading", "text", "activeSearch", "remove", "hasty"}
      /\ grid' = [field \in DOMAIN grid' |-> grid'[field]]
  BY <1>1
<1>9. QED BY <1>2, <1>3, <1>4, <1>5, <1>6, <1>7, <1>8, Zenon

(* GridInv holds from the first state, and every step keeps it. *)
LEMMA GridKeeps == GridSpec => []GridInv
<1>1. GridInit => GridInv
  <2> SUFFICES ASSUME GridInit PROVE GridInv
    OBVIOUS
  <2>1. Min(PageSizes) \in PageSizes
    <3>1. \E size \in PageSizes : \A other \in PageSizes :
              ~(<<other, size>> \in OpToRel(<, Nat))
      BY DatagridAssumption, NatLessThanWellFounded, WFMin
    <3>2. PICK size \in PageSizes : \A other \in PageSizes : ~(<<other, size>> \in OpToRel(<, Nat))
      BY <3>1
    <3>3. ASSUME NEW other \in PageSizes PROVE size <= other
      <4>1. other \in Nat /\ size \in Nat BY <3>2, DatagridAssumption
      <4>2. ~(<<other, size>> \in {pair \in Nat \X Nat : pair[1] < pair[2]})
        BY <3>2, Zenon DEF OpToRel
      <4>3. ~(other < size) BY <4>1, <4>2
      <4>4. QED BY <4>1, <4>3
    <3>4. QED BY <3>3 DEF Min
  <2> DEFINE size == Min(PageSizes)
  <2>2. /\ DOMAIN grid = {"pageIndex", "pageSize", "search", "filter", "sort", "pending", "shown",
                          "loading", "text", "activeSearch", "remove", "hasty"}
        /\ grid = [field \in DOMAIN grid |-> grid[field]]
        /\ grid.pageIndex = 0 /\ grid.pageSize = size /\ grid.loading
        /\ grid.search = "" /\ grid.text = "" /\ grid.activeSearch = ""
        /\ grid.filter = "all" /\ grid.remove = FALSE /\ grid.hasty = FALSE
        /\ grid.shown.pages = 0
    BY DEF GridInit
  <2>3. GridSearchAgrees BY <2>2 DEF GridSearchAgrees
  <2>4. GridShowsOptions BY <2>2 DEF GridShowsOptions
  <2>5. GridPaged BY <2>2, Zenon DEF GridPaged
  <2>6. grid.pageIndex \in Int /\ grid.shown.pages \in Int
    <3>1. grid.pageIndex = 0 /\ grid.shown.pages = 0 BY <2>2
    <3>2. QED BY ONLY <3>1
  <2>7. grid.remove \in BOOLEAN /\ grid.hasty \in BOOLEAN BY ONLY <2>2
  <2>8. /\ {grid.search, grid.text, grid.activeSearch} \subseteq Searches
        /\ grid.filter \in Filters /\ grid.pageSize \in PageSizes
    BY <2>1, <2>2 DEF Searches, Filters
  <2>9. QED BY <2>2, <2>3, <2>4, <2>5, <2>6, <2>7, <2>8, Zenon DEF GridInv
<1>2. GridInv /\ [GridStep]_grid => GridInv'
  <2> SUFFICES ASSUME GridInv, [GridStep]_grid PROVE GridInv'
    OBVIOUS
  <2>1. CASE GridSort
    <3> DEFINE g == [grid EXCEPT !.sort = IF grid.sort = "asc" THEN "desc" ELSE "asc"]
    <3>1. grid' = Ask(g) BY <2>1 DEF GridSort
    <3>2. /\ DOMAIN g = DOMAIN grid /\ g = [field \in DOMAIN g |-> g[field]]
          /\ g.pageSize \in PageSizes /\ g.filter \in Filters
          /\ {g.search, g.text, g.activeSearch} \subseteq Searches
          /\ g.remove \in BOOLEAN /\ g.hasty \in BOOLEAN /\ g.shown = grid.shown
      BY <2>1 DEF GridInv, Searches
    <3>3. g.search = g.activeSearch /\ (g.remove <=> g.text # "" /\ g.text = g.activeSearch)
      BY <2>1 DEF GridInv, GridSearchAgrees
    <3> HIDE DEF g
    <3>4. QED BY <3>1, <3>2, <3>3, AskKeeps
  <2>2. ASSUME NEW filter \in Filters, GridFilter(filter) PROVE GridInv'
    <3> DEFINE g == [grid EXCEPT !.filter = filter]
    <3>1. grid' = Ask(g) BY <2>2 DEF GridFilter
    <3>2. /\ DOMAIN g = DOMAIN grid /\ g = [field \in DOMAIN g |-> g[field]]
          /\ g.pageSize \in PageSizes /\ g.filter \in Filters
          /\ {g.search, g.text, g.activeSearch} \subseteq Searches
          /\ g.remove \in BOOLEAN /\ g.hasty \in BOOLEAN /\ g.shown = grid.shown
      BY <2>2 DEF GridInv, Searches
    <3>3. g.search = g.activeSearch /\ (g.remove <=> g.text # "" /\ g.text = g.activeSearch)
      BY <2>2 DEF GridInv, GridSearchAgrees
    <3> HIDE DEF g
    <3>4. QED BY <3>1, <3>2, <3>3, AskKeeps
  <2>3. ASSUME NEW size \in PageSizes, GridPageSize(size) PROVE GridInv'
    <3> DEFINE g == [grid EXCEPT !.pageSize = size]
    <3>1. grid' = Ask(g) BY <2>3 DEF GridPageSize
    <3>2. /\ DOMAIN g = DOMAIN grid /\ g = [field \in DOMAIN g |-> g[field]]
          /\ g.pageSize \in PageSizes /\ g.filter \in Filters
          /\ {g.search, g.text, g.activeSearch} \subseteq Searches
          /\ g.remove \in BOOLEAN /\ g.hasty \in BOOLEAN /\ g.shown = grid.shown
      BY <2>3 DEF GridInv, Searches
    <3>3. g.search = g.activeSearch /\ (g.remove <=> g.text # "" /\ g.text = g.activeSearch)
      BY <2>3 DEF GridInv, GridSearchAgrees
    <3> HIDE DEF g
    <3>4. QED BY <3>1, <3>2, <3>3, AskKeeps
  <2>4. CASE GridSearch
    <3>1. CASE grid' = Cleared(grid)
      <4> DEFINE g == [grid EXCEPT !.search = "", !.activeSearch = "", !.text = "",
                                  !.remove = FALSE]
      <4>1. grid' = Ask(g) BY <3>1 DEF Cleared
      <4>2. /\ DOMAIN g = DOMAIN grid /\ g = [field \in DOMAIN g |-> g[field]]
            /\ g.pageSize \in PageSizes /\ g.filter \in Filters
            /\ {g.search, g.text, g.activeSearch} \subseteq Searches
            /\ g.remove \in BOOLEAN /\ g.hasty \in BOOLEAN /\ g.shown = grid.shown
        BY <3>1 DEF GridInv, Searches
      <4>3. g.search = g.activeSearch /\ (g.remove <=> g.text # "" /\ g.text = g.activeSearch)
        BY <3>1 DEF GridInv, GridSearchAgrees
      <4> HIDE DEF g
      <4>4. QED BY <4>1, <4>2, <4>3, AskKeeps
    <3>2. CASE grid.text # "" /\ grid' = Searched(grid)
      <4> DEFINE g == [grid EXCEPT !.search = grid.text, !.activeSearch = grid.text,
                                  !.remove = TRUE]
      <4>1. grid' = Ask(g) BY <3>2 DEF Searched
      <4>2. /\ DOMAIN g = DOMAIN grid /\ g = [field \in DOMAIN g |-> g[field]]
            /\ g.pageSize \in PageSizes /\ g.filter \in Filters
            /\ {g.search, g.text, g.activeSearch} \subseteq Searches
            /\ g.remove \in BOOLEAN /\ g.hasty \in BOOLEAN /\ g.shown = grid.shown
        BY <3>2 DEF GridInv, Searches
      <4>3. g.search = g.activeSearch /\ (g.remove <=> g.text # "" /\ g.text = g.activeSearch)
        BY <3>2 DEF GridInv, GridSearchAgrees
      <4> HIDE DEF g
      <4>4. QED BY <4>1, <4>2, <4>3, AskKeeps
    <3>3. QED BY <2>4, <3>1, <3>2 DEF GridSearch
  <2>5. grid.pageSize \in Nat \ {0} /\ Counts[grid.search][grid.filter] \in Nat
    BY DatagridAssumption DEF GridInv
  <2>6. GridPages \in Int /\ (Counts[grid.search][grid.filter] > 0 => GridPages >= 1)
    BY <2>5, PagesOfRows DEF GridPages
  <2>7. ASSUME FooterVisible, ~grid.loading
        PROVE  /\ grid.shown.pages = GridPages /\ grid.shown.page = grid.pageIndex + 1
               /\ GridPages >= 1
    <3>1. grid.shown = Data(grid) BY <2>7 DEF GridInv, GridShowsOptions
    <3>2. QED BY <2>6, <2>7, <3>1, DataPages DEF FooterVisible
  <2>8. ASSUME NEW page \in 0 .. MaxPage, GridPageChanged(page) PROVE GridInv'
    <3> DEFINE index == Min({page, grid.shown.pages}) - 1
               hasty == grid.loading \/ page < 1
    <3>1. grid' = RenderData([grid EXCEPT !.pageIndex = index, !.hasty = hasty])
      BY <2>8 DEF GridPageChanged
    <3>2. hasty \in BOOLEAN
      OBVIOUS
    <3>3. ASSUME ~hasty PROVE index = 0 \/ index \in 1 .. (GridPages - 1)
      <4>1. grid.shown.pages = GridPages /\ GridPages >= 1 /\ page >= 1
        BY <2>7, <2>8, <3>3 DEF GridPageChanged
      <4>2. Min({page, GridPages}) = IF page <= GridPages THEN page ELSE GridPages
        BY <2>6, DatagridAssumption, MinMaxOfTwo
      <4>3. QED BY <2>6, <4>1, <4>2, DatagridAssumption
    <3>4. index \in Int
      <4>1. grid.shown.pages \in Int BY DEF GridInv
      <4>2. page \in Int BY DatagridAssumption
      <4>3. Min({page, grid.shown.pages}) \in Int
        BY <4>1, <4>2, MinMaxOfTwo
      <4>4. QED BY <4>3
    <3> HIDE DEF index, hasty
    <3>5. QED BY <3>1, <3>2, <3>3, <3>4, PageKeeps
  <2>9. CASE GridPrevious
    <3> DEFINE index == grid.pageIndex - 1
               hasty == grid.hasty \/ grid.loading
    <3>1. grid' = RenderData([grid EXCEPT !.pageIndex = index, !.hasty = hasty])
      BY <2>9 DEF GridPrevious
    <3>2. hasty \in BOOLEAN /\ index \in Int
      BY DEF GridInv
    <3>3. ASSUME ~hasty PROVE index = 0 \/ index \in 1 .. (GridPages - 1)
      <4>1. grid.pageIndex # 0
        BY <2>7, <2>9, <3>3 DEF GridPrevious
      <4>2. QED BY <2>6, <3>3, <4>1 DEF GridInv, GridPaged
    <3> HIDE DEF index, hasty
    <3>4. QED BY <3>1, <3>2, <3>3, PageKeeps
  <2>10. CASE GridNext
    <3> DEFINE index == grid.pageIndex + 1
               hasty == grid.hasty \/ grid.loading
    <3>1. grid' = RenderData([grid EXCEPT !.pageIndex = index, !.hasty = hasty])
      BY <2>10 DEF GridNext
    <3>2. hasty \in BOOLEAN /\ index \in Int
      BY DEF GridInv
    <3>3. ASSUME ~hasty PROVE index = 0 \/ index \in 1 .. (GridPages - 1)
      <4>1. grid.pageIndex + 1 # GridPages /\ GridPages >= 1
        BY <2>7, <2>10, <3>3 DEF GridNext
      <4>2. QED BY <2>6, <3>3, <4>1 DEF GridInv, GridPaged
    <3> HIDE DEF index, hasty
    <3>4. QED BY <3>1, <3>2, <3>3, PageKeeps
  <2>11. ASSUME NEW text \in Searches, GridType(text) PROVE GridInv'
    <3>1. /\ DOMAIN grid' = DOMAIN grid /\ grid' = [field \in DOMAIN grid' |-> grid'[field]]
          /\ grid'.pageIndex = grid.pageIndex /\ grid'.pageSize = grid.pageSize
          /\ grid'.search = grid.search /\ grid'.activeSearch = grid.activeSearch
          /\ grid'.filter = grid.filter /\ grid'.hasty = grid.hasty
          /\ grid'.loading = grid.loading /\ grid'.shown = grid.shown
          /\ grid'.sort = grid.sort /\ grid'.text = text
          /\ grid'.remove = (text # "" /\ text = grid.activeSearch)
      BY <2>11 DEF GridType, GridInv
    <3>2. GridSearchAgrees'
      BY <3>1 DEF GridInv, GridSearchAgrees
    <3>3. GridPaged'
      <4>1. GridPages' = GridPages BY <3>1 DEF GridPages
      <4>2. QED BY <3>1, <4>1 DEF GridInv, GridPaged
    <3>4. GridShowsOptions'
      <4>1. Data(grid)' = Data(grid) BY <3>1 DEF Data
      <4>2. QED BY <3>1, <4>1 DEF GridInv, GridShowsOptions
    <3>5. grid'.remove \in BOOLEAN BY ONLY <3>1
    <3>6. /\ grid'.pageIndex \in Int /\ grid'.pageSize \in PageSizes
          /\ grid'.filter \in Filters /\ grid'.hasty \in BOOLEAN
          /\ grid'.shown.pages \in Int
          /\ {grid'.search, grid'.text, grid'.activeSearch} \subseteq Searches
      BY <3>1 DEF GridInv
    <3>7. /\ DOMAIN grid' = {"pageIndex", "pageSize", "search", "filter", "sort", "pending", "shown",
                             "loading", "text", "activeSearch", "remove", "hasty"}
          /\ grid' = [field \in DOMAIN grid' |-> grid'[field]]
      BY <3>1 DEF GridInv
    <3>8. QED BY <3>2, <3>3, <3>4, <3>5, <3>6, <3>7, Zenon DEF GridInv
  <2>12. ASSUME GridAnswer \/ GridFails PROVE GridInv'
    <3>1. /\ DOMAIN grid' = DOMAIN grid /\ grid' = [field \in DOMAIN grid' |-> grid'[field]]
          /\ grid'.pageIndex = grid.pageIndex /\ grid'.pageSize = grid.pageSize
          /\ grid'.search = grid.search /\ grid'.activeSearch = grid.activeSearch
          /\ grid'.filter = grid.filter /\ grid'.hasty = grid.hasty
          /\ grid'.sort = grid.sort /\ grid'.text = grid.text /\ grid'.remove = grid.remove
      BY <2>12 DEF GridAnswer, GridFails, GridInv
    <3>2. GridSearchAgrees'
      BY <3>1 DEF GridInv, GridSearchAgrees
    <3>3. GridPages' = GridPages BY <3>1 DEF GridPages
    <3>4. GridPaged' BY <3>1, <3>3 DEF GridInv, GridPaged
    <3>5. Data(grid)' = Data(grid) BY <3>1 DEF Data
    <3>6. \/ grid'.shown = Data(grid)
          \/ grid'.shown = grid.shown /\ grid'.loading = grid.loading
      BY <2>12 DEF GridAnswer, GridFails, GridInv
    <3>7. GridShowsOptions' BY <3>5, <3>6 DEF GridInv, GridShowsOptions
    <3>8. grid'.shown.pages \in Int BY <2>6, <3>6, DataPages DEF GridInv
    <3>9. /\ grid'.pageIndex \in Int /\ grid'.pageSize \in PageSizes
          /\ grid'.filter \in Filters /\ grid'.hasty \in BOOLEAN /\ grid'.remove \in BOOLEAN
          /\ {grid'.search, grid'.text, grid'.activeSearch} \subseteq Searches
      BY <3>1 DEF GridInv
    <3>10. /\ DOMAIN grid' = {"pageIndex", "pageSize", "search", "filter", "sort", "pending",
                              "shown", "loading", "text", "activeSearch", "remove", "hasty"}
           /\ grid' = [field \in DOMAIN grid' |-> grid'[field]]
      BY <3>1 DEF GridInv
    <3>11. QED BY <3>2, <3>4, <3>7, <3>8, <3>9, <3>10, Zenon DEF GridInv
  <2>13. CASE UNCHANGED grid
    BY <2>13 DEF GridInv, GridShowsOptions, GridSearchAgrees, GridPaged, GridPages, Data
  <2>14. QED
    BY <2>1, <2>2, <2>3, <2>4, <2>8, <2>9, <2>10, <2>11, <2>12, <2>13, Zenon DEF GridStep
<1>3. QED BY <1>1, <1>2, PTL DEF GridSpec

(* Rows that are shown are those of the options in force, whatever answers *)
(* are pending; the page shown exists, if the pager is used on an answer;  *)
(* field and grid agree on the search (GridSafe: fuelux.js, the data grid, *)
(* its pager and its search control), for any table of counts.             *)
THEOREM GridIsSafe == GridSpec => []GridSafe
<1>1. GridInv => GridPageExists
  <2> SUFFICES ASSUME GridInv, ~grid.loading, ~grid.hasty
               PROVE  \/ grid.shown.page \in 1 .. grid.shown.pages
                      \/ grid.shown.page = 1 /\ grid.shown.count = 0
    BY DEF GridPageExists
  <2>1. grid.pageSize \in Nat \ {0} /\ Counts[grid.search][grid.filter] \in Nat
    BY DatagridAssumption DEF GridInv
  <2>2. GridPages \in Int /\ (Counts[grid.search][grid.filter] > 0 => GridPages >= 1)
    BY <2>1, PagesOfRows DEF GridPages
  <2>3. /\ grid.shown.pages = GridPages /\ grid.shown.page = grid.pageIndex + 1
        /\ grid.shown.count = Counts[grid.search][grid.filter]
    BY DataPages DEF GridInv, GridShowsOptions
  <2>4. grid.pageIndex = 0 \/ grid.pageIndex \in 1 .. (GridPages - 1)
    BY DEF GridInv, GridPaged
  <2>5. QED BY <2>1, <2>2, <2>3, <2>4
<1>2. GridInv => GridShowsOptions /\ GridSearchAgrees BY DEF GridInv
<1>3. GridInv => GridSafe BY <1>1, <1>2 DEF GridSafe
<1>4. QED BY <1>3, GridKeeps, PTL

(* What GridInv does not need of the type: the bound on the answers, the order
   and the placeholder. *)
GridBounded ==
    grid.pending \in 0 .. MaxPending /\ grid.sort \in Sorts /\ grid.loading \in BOOLEAN

(* The type of the grid. *)
LEMMA GridTyped == GridSpec => []GridTypeOK
<1>1. GridInit => GridBounded
  <2> SUFFICES ASSUME GridInit PROVE GridBounded
    OBVIOUS
  <2>1. grid.pending = 1 /\ grid.sort = "no" /\ grid.loading = TRUE
    BY DEF GridInit
  <2>2. 1 \in 0 .. MaxPending
    BY DatagridAssumption
  <2>3. grid.pending \in 0 .. MaxPending
    BY ONLY <2>1, <2>2
  <2>4. grid.sort \in Sorts /\ grid.loading \in BOOLEAN
    BY ONLY <2>1 DEF Sorts
  <2>5. QED BY <2>3, <2>4 DEF GridBounded
<1>2. GridInv /\ GridBounded /\ [GridStep]_grid => GridBounded'
  <2> SUFFICES ASSUME GridInv, GridBounded, [GridStep]_grid PROVE GridBounded'
    OBVIOUS
  <2> USE DEF GridBounded
  <2>1. ASSUME NEW g, DOMAIN g = DOMAIN grid, g.pending = grid.pending, g.sort \in Sorts,
               MayAsk, grid' = RenderData(g)
        PROVE  GridBounded'
    <3>1. grid'.pending = grid.pending + 1 /\ grid'.sort = g.sort /\ grid'.loading = TRUE
      BY <2>1 DEF RenderData, GridInv
    <3>2. grid.pending + 1 \in 0 .. MaxPending
      BY <2>1, DatagridAssumption DEF MayAsk
    <3>3. QED BY <2>1, <3>1, <3>2
  <2>2. ASSUME NEW g, DOMAIN g = DOMAIN grid, g.pending = grid.pending, g.sort \in Sorts,
               MayAsk, grid' = Ask(g)
        PROVE  GridBounded'
    <3> DEFINE asked == [g EXCEPT !.pageIndex = 0, !.hasty = FALSE]
    <3>1. /\ DOMAIN asked = DOMAIN grid /\ asked.pending = grid.pending
          /\ asked.sort \in Sorts
      BY <2>2 DEF GridInv
    <3>2. grid' = RenderData(asked) BY <2>2 DEF Ask
    <3> HIDE DEF asked
    <3>3. QED BY <2>1, <2>2, <3>1, <3>2
  <2>3. CASE GridSort
    <3> DEFINE sort == IF grid.sort = "asc" THEN "desc" ELSE "asc"
               g == [grid EXCEPT !.sort = sort]
    <3>1. /\ DOMAIN g = DOMAIN grid /\ g.pending = grid.pending /\ g.sort \in Sorts
      BY DEF GridInv, Sorts
    <3>2. MayAsk /\ grid' = Ask(g) BY <2>3 DEF GridSort
    <3> HIDE DEF g
    <3>3. QED BY <2>2, <3>1, <3>2
  <2>4. ASSUME NEW filter \in Filters, GridFilter(filter) PROVE GridBounded'
    <3> DEFINE g == [grid EXCEPT !.filter = filter]
    <3>1. /\ DOMAIN g = DOMAIN grid /\ g.pending = grid.pending /\ g.sort \in Sorts
      BY DEF GridInv
    <3>2. MayAsk /\ grid' = Ask(g) BY <2>4 DEF GridFilter
    <3> HIDE DEF g
    <3>3. QED BY <2>2, <3>1, <3>2
  <2>5. ASSUME NEW size \in PageSizes, GridPageSize(size) PROVE GridBounded'
    <3> DEFINE g == [grid EXCEPT !.pageSize = size]
    <3>1. /\ DOMAIN g = DOMAIN grid /\ g.pending = grid.pending /\ g.sort \in Sorts
      BY DEF GridInv
    <3>2. MayAsk /\ grid' = Ask(g) BY <2>5 DEF GridPageSize
    <3> HIDE DEF g
    <3>3. QED BY <2>2, <3>1, <3>2
  <2>6. ASSUME NEW index, NEW hasty, MayAsk,
               grid' = RenderData([grid EXCEPT !.pageIndex = index, !.hasty = hasty])
        PROVE  GridBounded'
    <3> DEFINE g == [grid EXCEPT !.pageIndex = index, !.hasty = hasty]
    <3>1. /\ DOMAIN g = DOMAIN grid /\ g.pending = grid.pending /\ g.sort \in Sorts
      BY DEF GridInv
    <3>2. grid' = RenderData(g) BY <2>6
    <3> HIDE DEF g
    <3>3. QED BY <2>1, <2>6, <3>1, <3>2
  <2>7. ASSUME NEW page \in 0 .. MaxPage, GridPageChanged(page) PROVE GridBounded'
    BY <2>6, <2>7 DEF GridPageChanged
  <2>8. CASE GridPrevious \/ GridNext
    BY <2>6, <2>8 DEF GridPrevious, GridNext
  <2>9. ASSUME NEW text \in Searches, GridType(text) PROVE GridBounded'
    BY <2>9 DEF GridType, GridInv
  <2>10. CASE GridSearch
    <3>1. CASE grid' = Cleared(grid)
      <4> DEFINE g == [grid EXCEPT !.search = "", !.activeSearch = "", !.text = "",
                                   !.remove = FALSE]
      <4>1. /\ DOMAIN g = DOMAIN grid /\ g.pending = grid.pending /\ g.sort \in Sorts
        BY DEF GridInv
      <4>2. MayAsk /\ grid' = Ask(g) BY <2>10, <3>1 DEF GridSearch, Cleared
      <4> HIDE DEF g
      <4>3. QED BY <2>2, <4>1, <4>2
    <3>2. CASE grid' = Searched(grid)
      <4> DEFINE g == [grid EXCEPT !.search = grid.text, !.activeSearch = grid.text,
                                   !.remove = TRUE]
      <4>1. /\ DOMAIN g = DOMAIN grid /\ g.pending = grid.pending /\ g.sort \in Sorts
        BY DEF GridInv
      <4>2. MayAsk /\ grid' = Ask(g) BY <2>10, <3>2 DEF GridSearch, Searched
      <4> HIDE DEF g
      <4>3. QED BY <2>2, <4>1, <4>2
    <3>3. QED BY <2>10, <3>1, <3>2 DEF GridSearch
  <2>11. CASE GridAnswer
    <3>1. grid.pending - 1 \in 0 .. MaxPending
      BY <2>11, DatagridAssumption DEF GridAnswer
    <3>2. QED BY <2>11, <3>1 DEF GridAnswer, GridInv
  <2>12. CASE GridFails
    <3>1. grid.pending - 1 \in 0 .. MaxPending
      BY <2>12, DatagridAssumption DEF GridFails
    <3>2. QED BY <2>12, <3>1 DEF GridFails, GridInv
  <2>13. CASE UNCHANGED grid
    BY <2>13
  <2>14. QED
    BY <2>3, <2>4, <2>5, <2>7, <2>8, <2>9, <2>10, <2>11, <2>12, <2>13 DEF GridStep
<1>3. GridInv /\ GridBounded => GridTypeOK
  <2> SUFFICES ASSUME GridInv, GridBounded PROVE GridTypeOK
    OBVIOUS
  <2>1. {grid.loading, grid.remove, grid.hasty} \subseteq BOOLEAN
    BY DEF GridInv, GridBounded
  <2>2. QED BY <2>1 DEF GridInv, GridBounded, GridTypeOK
<1>4. QED BY <1>1, <1>2, <1>3, GridKeeps, PTL DEF GridSpec

=============================================================================
