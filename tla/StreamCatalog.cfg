SPECIFICATION Spec
CONSTANTS
    Listings = {1, 2, 3, 4, 5, 6}
    Lists = {{1, 2, 4, 6}, {2, 3, 5}, {4}}
    Titles = {"A", "B", "C", "D"}
    Sources = {"1", "10"}
    Attrs = {"chno", "group"}
    Slots <- MCSlots
    Shards = {1, 2}
    TitleOf <- MCTitleOf
    SourceOf <- MCSourceOf
    UrlOf <- MCUrlOf
    ShowsOf <- MCShowsOf
    ChnoOf <- MCChnoOf
    Included = {}
    Excluded = {5}
    HasIncludes = FALSE
    SlotOf <- MCSlotOf
    RankOf <- MCRankOf
    CleanRankOf <- MCCleanRankOf
    Unnamable = {"C"}
    ShardOf <- MCShardOf
    Prefixed <- MCPrefixed
    None = None
    FlushAt = 2
    MaxUpdates = 2
    MaxCrashes = 1
    MaxFaults = 1
INVARIANTS NothingLost LeftoversOnce Resolvable Sorted
PROPERTY ImplementsTable
CHECK_DEADLOCK FALSE
