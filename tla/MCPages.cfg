SPECIFICATION Spec
CONSTANTS
    Absent = Absent
    Containers = {"a", "b"}
    Hosts = {"h1", "h2"}
    Images = {"a", "b"}
    Names = {"a", "b"}
    EnvNames = {"e"}
    EnvKeys = {"k1", "k2"}
    Formats = {"spdx-json", "cyclonedx-json"}
    LineCounts = {1, 2}
    LogLevels = {"info"}
    Texts = {"t"}
    Sections = {"labels", "filter"}
    BotTokens = {"t1"}
    Values = {"va", "vb"}
    Typed = {"va"}
    ReadOnly = FALSE
    MaxIncarnations = 2
    MaxStreams = 2
    MaxFetches = 1
    MaxLogs = 1
    MaxLines = 2
    MaxSheets = 2
    MaxSheetLines = 1
    MaxSheetStreams = 2
    PageSizes = {2}
    UrlPages = {0, 1, 3}
    MaxFlows = 2
    MaxClicks = 2
    MaxContainers = 2
    MaxChanges = 1
    MaxJobs = 1
    MaxOpenings = 2
    MaxScans = 2
    MaxPage = 2
    PageSize = 1
    Filters = {FALSE}
    MaxRows = 2
    MaxEdits = 1
    MaxOthers = 1
    MaxSaves = 2
    Calls = {"c"}
    MaxTokens = 2
    EnvFiles <- OneFile
    EnvValues = {"", "va"}
    Reached = {"a"}
    MaxSockets = 3
    HistoryLength = 2
INVARIANTS
    TypeOK
    StreamsStayInReach
    OnlyWhatIsMeantIsStopped
    UntouchedIsKept
    DialogsShowTheirOwn
    PagesShowTheServer
PROPERTIES
    StepsKeepWhatTheyMust
    StartedIsFollowed
CHECK_DEADLOCK FALSE
