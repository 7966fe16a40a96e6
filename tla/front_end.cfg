SPECIFICATION FrontSpec
CONSTANTS
    Pages <- AllPages
    Insts = {1, 2}
    JobIds = {1, 2}
    MaxRuns = 2
    PageJobs = {1}
    RowOps = {"stop", "uninstall"}
    MaxPosts = 2
    WebSockets = {1, 2}
    PageInst = 1
    EventLimit = 1
    MaxEvents = 2
    Filters <- AppFilters
    Provs = {1, 2}
    DefaultProv = 1
    WithModels = {1}
    Supports <- AppSupports
    Gpus = {1}
    InstallJobs = {1}
    Providers = {1, 2, 3}
    FirstType <- StoredTypes
    PickedTypes = {"openrouter"}
    MaxAsks = 2
    Tabs = {1, 2}
    MaxTokens = 2
    c1 = c1
    c2 = c2
    Containers <- Pair
    Chatty <- Talker
    Installations <- Apps
    Sockets = {s1, s2}
    PoolSize = 3
    MaxBacklog = 1
    MaxInbox = 2
INVARIANTS ListCatchesUp BusyForWholeJob MarkFollowsRequest NoSocketLeft LiveIsOpen
           OutcomeIsReal SaveFollowed TemplateOfApp InstallFits
           KeyOfProvider UrlFitsType TestingClears SentinelsCount
PROPERTIES ListSettles FailureExplained NoPageWithoutSession BadgeFollows
           ThreadsReleased SessionSurvives NothingUnsent
CHECK_DEADLOCK FALSE
