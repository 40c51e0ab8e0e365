CONSTANTS
    Parts = {"store", "updater", "jobs", "migrate", "cutover", "share"}
    e1 = e1
    e2 = e2
    g1 = g1
    g2 = g2
    r1 = r1
    l1 = l1
    tun = tun
    hybrid = hybrid
    Direct = Direct
    None = None
    BadMode = BadMode
    Eps <- MCEps
    Grs <- MCGrs
    Rus = {r1}
    Lis = {l1}
    Modes = {tun, hybrid}
    MemberSets <- MCMembers
    RuleOuts <- MCRuleOuts
    ListVals <- MCLists
    Bundles <- MCBundles
    MaxFaults = 1
    Updaters = {"auto", "h"}
    AutoLoop = "auto"
    Releases <- MCReleases
    Arch = "arm"
    Mirrors = 2
    Nodes = {1, 2, 3, 4, 5, 6, 7}
    NoNode = 0
    Overlap = FALSE
    MaxUpdates = 3
    MaxUpdCrashes = 1
    MaxJobs = 2
    maxJobHistory = 1
    Orders <- MCOrders
    CoreVersions = {1, 2}
    Rejecting = {2}
    MaxJobFaults = 1
    MaxJobRestarts = 1
    KeenConfigs <- MCKeenConfigs
    Files <- MCFiles
    FeedBody <- MCFeedBody
    CIDRUrls = {"ipv4_feed"}
    Catalog = {"youtube"}
    IPs = {"ip1", "ip2", "ip3", "ip4", "ip5"}
    PeerHost <- MCPeerHost
    HostNames = {"vpn.name"}
    MgmtNumber = 2
    RemapIds = {"", "keentest", "nl_failover", "hy2_main"}
    MaxCutovers = 2
    MaxCutFaults = 2
    MaxReboots = 1
    Texts <- MCTexts
SPECIFICATION MCSpec
INVARIANTS DiskAgrees InstalledRuns NeverLockedOut  SelfHeals  RoundTrip
PROPERTIES KeepsValid BackupFirst
\* the bounds on updates and jobs run out
CHECK_DEADLOCK FALSE
