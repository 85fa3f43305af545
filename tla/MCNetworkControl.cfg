SPECIFICATION FairSpec
CONSTANTS
    c1 = c1
    s1 = s1
    h1 = h1
    g1 = g1
    g2 = g2
    Clusters <- OneCluster
    Swarms <- OneSwarm
    Scheduler = scheduler
    Handlers <- OneHandler
    Guards <- TwoGuards
    Cap = 1
    Duration = 1
    Scenes <- MCScenes
INVARIANTS
    GuardsInv
    SettledSessionsWanted
PROPERTIES
    OfflineOutside
    HotPauses
    CoolResumes
CHECK_DEADLOCK FALSE
