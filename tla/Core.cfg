SPECIFICATION FairSpec
CONSTANTS
    n1 = n1
    n2 = n2
    n3 = n3
    g1 = g1
    g2 = g2
    None = None
    Mappings <- MCMappings
    Rows <- MCRows
    Nodes <- MCNodes
    Blacklists <- MCBlacklists
    Tags <- MCTags
    GroupTags <- MCGroupTags
    HopTags <- MCHopTags
    Base <- MCBase
    Ids <- MCIds
    Busy <- MCBusy
    Plan <- MCPlan
INVARIANTS TagsLive PlanApplied
PROPERTIES SyncEnds UpdatesKeepServing OneBadNodeIsExcluded
