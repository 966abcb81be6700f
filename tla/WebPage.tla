------------------------------ MODULE WebPage ------------------------------
(***************************************************************************)
(* The web page: the widgets of the user interface, and the channel that   *)
(* brings the scheduler's messages.  Each widget keeps its state to itself *)
(* (jQuery's data of its own element), so that what one does is what it    *)
(* does alone; the page therefore has one widget in use, any of them, and  *)
(* the others at rest.                                                     *)
(***************************************************************************)
EXTENDS Modal, Lightbox, Collapse, Carousel, Tab, Tooltip, Dropdown, Button,
        ScrollSpy, Wizard, Datagrid, Spinner, Tree, Datepicker, Slider,
        Combodate, FormControls, PieLoop, UIChannel

VARIABLE
    using   \* the widget that is in use

Widgets == {"modal", "lightbox", "collapse", "carousel", "tab", "tooltip",
            "dropdown", "button", "spy", "wizard", "grid", "spinner", "tree",
            "picker", "slider", "combo", "form", "pie", "channel"}

pageVars == <<using, modal, lightbox, collapse, carousel, tab, tooltip,
             dropdown, button, spy, wizard, grid, spinner, tree, picker,
             slider, combo, form, pie, channel>>

PageTypeOK ==
    /\ using \in Widgets
    /\ ModalTypeOK /\ LightboxTypeOK /\ CollapseTypeOK /\ CarouselTypeOK
    /\ TabTypeOK /\ TooltipTypeOK /\ DropdownTypeOK /\ ButtonTypeOK
    /\ SpyTypeOK /\ WizardTypeOK /\ GridTypeOK /\ SpinnerTypeOK /\ TreeTypeOK
    /\ PickerTypeOK /\ SliderTypeOK /\ ComboTypeOK /\ FormTypeOK /\ PieTypeOK
    /\ ChannelTypeOK

(* A widget that is not in use has its markup's options. *)
PageInit ==
    /\ using \in Widgets
    /\ ModalInit /\ LightboxInit /\ CollapseInit /\ CarouselInit /\ TabInit
    /\ TooltipInit /\ DropdownInit /\ ButtonInit /\ SpyInit /\ WizardInit
    /\ GridInit /\ SpinnerInit /\ TreeInit /\ PickerInit /\ SliderInit
    /\ ComboInit /\ FormInit /\ PieInit /\ ChannelInit
    /\ using = "tree" \/ ~tree.multiSelect
    /\ using = "slider" \/ slider.range
    /\ using = "combo" \/ ~combo.h12

(* Widget w is the one in use: the page, but for it, is left alone. *)
Uses(w) ==
    /\ using = w
    /\ UNCHANGED using
    /\ IF w = "modal" THEN TRUE ELSE UNCHANGED modal
    /\ IF w = "lightbox" THEN TRUE ELSE UNCHANGED lightbox
    /\ IF w = "collapse" THEN TRUE ELSE UNCHANGED collapse
    /\ IF w = "carousel" THEN TRUE ELSE UNCHANGED carousel
    /\ IF w = "tab" THEN TRUE ELSE UNCHANGED tab
    /\ IF w = "tooltip" THEN TRUE ELSE UNCHANGED tooltip
    /\ IF w = "dropdown" THEN TRUE ELSE UNCHANGED dropdown
    /\ IF w = "button" THEN TRUE ELSE UNCHANGED button
    /\ IF w = "spy" THEN TRUE ELSE UNCHANGED spy
    /\ IF w = "wizard" THEN TRUE ELSE UNCHANGED wizard
    /\ IF w = "grid" THEN TRUE ELSE UNCHANGED grid
    /\ IF w = "spinner" THEN TRUE ELSE UNCHANGED spinner
    /\ IF w = "tree" THEN TRUE ELSE UNCHANGED tree
    /\ IF w = "picker" THEN TRUE ELSE UNCHANGED picker
    /\ IF w = "slider" THEN TRUE ELSE UNCHANGED slider
    /\ IF w = "combo" THEN TRUE ELSE UNCHANGED combo
    /\ IF w = "form" THEN TRUE ELSE UNCHANGED form
    /\ IF w = "pie" THEN TRUE ELSE UNCHANGED pie
    /\ IF w = "channel" THEN TRUE ELSE UNCHANGED channel

PageNext ==
    \/ Uses("modal") /\ ModalShow
    \/ Uses("modal") /\ ModalHide
    \/ Uses("modal") /\ ModalEnds
    \/ Uses("lightbox") /\ LightboxShow
    \/ Uses("lightbox") /\ ImageLoaded
    \/ Uses("lightbox") /\ ImageFails
    \/ Uses("lightbox") /\ LightboxHide
    \/ Uses("collapse") /\ \E p \in Panel : ClickOpens(p)
    \/ Uses("collapse") /\ \E p \in Panel : ClickCloses(p)
    \/ Uses("collapse") /\ \E p \in Panel : ClickIgnored(p)
    \/ Uses("collapse") /\ \E p \in Panel : CollapseEnd(p)
    \/ Uses("carousel") /\ CarouselNextItem
    \/ Uses("carousel") /\ CarouselPrevItem
    \/ Uses("carousel") /\ CarouselTick
    \/ Uses("carousel") /\ \E i \in Item : CarouselTo(i)
    \/ Uses("carousel") /\ CarouselMouseEnter
    \/ Uses("carousel") /\ CarouselMouseLeave
    \/ Uses("carousel") /\ CarouselEnd
    \/ Uses("carousel") /\ CarouselSlid
    \/ Uses("tab") /\ \E t \in TabId : TabShow(t)
    \/ Uses("tab") /\ TabEnd
    \/ Uses("tooltip") /\ TooltipEnter
    \/ Uses("tooltip") /\ TooltipLeave
    \/ Uses("tooltip") /\ TooltipToggle
    \/ Uses("tooltip") /\ TooltipTimeout
    \/ Uses("tooltip") /\ TooltipFadedOut
    \/ Uses("tooltip") /\ TooltipToggleEnabled
    \/ Uses("dropdown") /\ \E m \in Menu : DropdownToggle(m)
    \/ Uses("dropdown") /\ DropdownClear
    \/ Uses("dropdown") /\ \E m \in Menu, key \in {"up", "down", "esc"} : DropdownKeyClicks(m, key)
    \/ Uses("dropdown") /\ \E m \in Menu : DropdownUp(m)
    \/ Uses("dropdown") /\ \E m \in Menu : DropdownDown(m)
    \/ Uses("dropdown") /\ \E m \in Menu, i \in Choice : DropdownChange(m, i)
    \/ Uses("button") /\ \E state \in ButtonState : ButtonSetState(state)
    \/ Uses("button") /\ ButtonTimer
    \/ Uses("button") /\ \E r \in 1 .. NumRadios : ButtonToggle(r)
    \/ Uses("spy") /\ \E position \in 0 .. MaxScroll : SpyScroll(position)
    \/ Uses("spy") /\ SpyClick
    \/ Uses("spy") /\ SpyHideOrShow
    \/ Uses("spy") /\ SpyCheck
    \/ Uses("wizard") /\ WizardNextStep
    \/ Uses("wizard") /\ WizardPreviousStep
    \/ Uses("wizard") /\ \E step \in WizardSteps : WizardStepClicked(step)
    \/ Uses("wizard") /\ WizardEdit
    \/ Uses("grid") /\ GridSort
    \/ Uses("grid") /\ \E filter \in Filters : GridFilter(filter)
    \/ Uses("grid") /\ \E size \in PageSizes : GridPageSize(size)
    \/ Uses("grid") /\ \E page \in 0 .. MaxPage : GridPageChanged(page)
    \/ Uses("grid") /\ GridPrevious
    \/ Uses("grid") /\ GridNext
    \/ Uses("grid") /\ \E text \in Searches : GridType(text)
    \/ Uses("grid") /\ GridSearch
    \/ Uses("grid") /\ GridAnswer
    \/ Uses("grid") /\ GridFails
    \/ Uses("spinner") /\ \E up \in Directions : SpinPress(up)
    \/ Uses("spinner") /\ SpinRelease
    \/ Uses("spinner") /\ SpinIterate
    \/ Uses("spinner") /\ SpinIterateLost
    \/ Uses("spinner") /\ \E value \in Typed : SpinType(value)
    \/ Uses("spinner") /\ SpinDisable
    \/ Uses("spinner") /\ SpinEnable
    \/ Uses("tree") /\ TreeOpen
    \/ Uses("tree") /\ TreeClose
    \/ Uses("tree") /\ TreeAnswer
    \/ Uses("tree") /\ \E item \in Items : TreeSelectItem(item)
    \/ Uses("picker") /\ PickerShow
    \/ Uses("picker") /\ PickerHide
    \/ Uses("picker") /\ PickerSwitch
    \/ Uses("picker") /\ \E text \in Texts : PickerType(text)
    \/ Uses("picker") /\ \E i \in 0 .. 41 : PickerClickDay(i)
    \/ Uses("picker") /\ \E dir \in {-1, 1} : PickerNavigate(dir)
    \/ Uses("picker") /\ \E m \in 0 .. 11 : PickerSelectMonth(m)
    \/ Uses("picker") /\ \E month \in Months : PickerSelectYear(month \div 12)
    \/ Uses("slider") /\ \E position \in Positions : SliderPress(position)
    \/ Uses("slider") /\ \E position \in Positions : SliderMove(position)
    \/ Uses("slider") /\ SliderRelease
    \/ Uses("slider") /\ SliderEnter
    \/ Uses("slider") /\ SliderLeave
    \/ Uses("combo") /\ \E date \in SetDates : ComboSetValue(date)
    \/ Uses("combo") /\ \E part \in DateParts : \E n \in Picks[part] : ComboPick(part, n)
    \/ Uses("combo") /\ \E pm \in BOOLEAN : ComboPickAmPm(pm)
    \/ Uses("form") /\ \E text \in ItemTexts : ComboboxItem(text)
    \/ Uses("form") /\ \E text \in ComboboxTexts : ComboboxType(text)
    \/ Uses("form") /\ ComboboxChange
    \/ Uses("form") /\ \E r \in RadioButtons : RadioClick(r)
    \/ Uses("form") /\ CheckBoxClick
    \/ Uses("form") /\ \E word \in Words : PillType(word)
    \/ Uses("form") /\ PillAdd
    \/ Uses("form") /\ \E i \in 1 .. Len(form.pills) : PillClick(i)
    \/ Uses("pie") /\ PieToggle
    \/ Uses("pie") /\ PieStop
    \/ Uses("pie") /\ PieTimer
    \/ Uses("channel") /\ \E subject \in Subjects : ChannelSend(subject)
    \/ Uses("channel") /\ ChannelBroadcast
    \/ Uses("channel") /\ ChannelGivesUp
    \/ Uses("channel") /\ \E t \in Tasker : TaskerTest(t)
    \/ Uses("channel") /\ \E t \in Tasker : TaskerCreate(t)
    \/ Uses("channel") /\ \E t \in Tasker : TaskerStart(t)
    \/ Uses("channel") /\ \E t \in Tasker : TaskerStops(t)
    \/ Uses("channel") /\ BrowserConnects
    \/ Uses("channel") /\ BrowserLosesLine
    \/ Uses("channel") /\ BrowserReceives
    \/ Uses("channel") /\ ProgressEnds

(* What the browser does by itself: transitions end (and are emulated where
   they would not), timers expire.  The server's threads and its mailbox are
   scheduled.  People and the network owe nothing. *)
PageFairness ==
    /\ WF_pageVars(Uses("modal") /\ ModalEnds)
    /\ WF_pageVars(Uses("carousel") /\ CarouselEnd)
    /\ WF_pageVars(Uses("carousel") /\ CarouselSlid)
    /\ WF_pageVars(Uses("tooltip") /\ TooltipTimeout)
    /\ WF_pageVars(Uses("tooltip") /\ TooltipFadedOut)
    /\ WF_pageVars(Uses("channel") /\ ChannelBroadcast)
    /\ \A t \in Tasker :
          WF_pageVars(Uses("channel") /\ (TaskerTest(t) \/ TaskerCreate(t) \/ TaskerStart(t)))

PageSpec == PageInit /\ [][PageNext]_pageVars /\ PageFairness

-----------------------------------------------------------------------------
(***************************************************************************)
(* What the page owes over time: a dialog or a tooltip that is dismissed   *)
(* disappears, an item that was asked for while another slid is shown, the *)
(* messages of the scheduler are taken from their mailbox, and progress    *)
(* never falls back - with the exceptions each of them names.              *)
(***************************************************************************)
PageKeepsWord ==
    ModalDisappears /\ TooltipDisappears /\ CarouselHonours /\ ChannelDrains /\ ChannelProgress

=============================================================================
