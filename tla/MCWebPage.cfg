SPECIFICATION PageSpec
CONSTANTS
    MaxShows = 3
    MaxLooks = 3
    NumPanels = 3
    NumItems = 3
    MaxQueue = 3
    NumTabs = 3
    MaxFades = 4
    DelayShow = FALSE
    DelayHide = TRUE
    MaxFadeOuts = 2
    NumMenus = 2
    NumChoices = 3
    Radios = {1}
    DisabledChoices = {2}
    MaxStates = 3
    NumRadios = 2
    Offsets <- MCOffsets
    MaxScroll = 8
    OffsetTop = 1
    NumSteps = 3
    RequiredSteps = {1, 2, 3}
    Counts <- MCCounts
    PageSizes = {1, 2}
    MaxPending = 2
    MaxPage = 2
    SpinMin = 1
    SpinMax = 6
    SpinStep = 2
    Typed = {0, 3}
    Items = {1, 2, 3}
    MaxAsked = 2
    Months <- MCMonths
    Days = {1, 28, 31}
    Today <- MCToday
    FirstDate <- MCFirstDate
    WeekStart = 0
    MinViewMode = 0
    StartViewMode = 1
    SliderMin = 1
    SliderMax = 7
    SliderStep = 2
    Beyond = 2
    MinYear = 1970
    MaxYear = 2015
    MinuteStep = 5
    SetDates <- MCSetDates
    Picks <- MCPicks
    ItemTexts = {"Item One", "Item Two"}
    Words = {"a", "b", "c"}
    Boxes = {"r1", "r2", "r3", "check"}
    Disabled = {"r3"}
    MaxUpdates = 3
    MaxMessages = 3
    MaxTaskers = 2
    MaxConnects = 2
INVARIANTS
    ModalSafe
    LightboxWhole
    CollapseSafe
    CarouselSafe
    TabShowsSelected
    TooltipFollows
    DropdownSafe
    SpySafe
    WizardSafe
    GridSafe
    TreeSafe
    SpinnerSafe
    PickerSafe
    SliderSafe
    ComboSafe
    PieLoops
    ChannelSafe
    PageTypeOK
PROPERTY
    PageKeepsWord
CHECK_DEADLOCK FALSE
