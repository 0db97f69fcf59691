SPECIFICATION Spec
CONSTANTS
    old = old
    live = live
    supply = supply
    borrow = borrow
    market = market
    Chains = {old, live}
    Fixed = {old}
    Pin <- MCPin
    Start <- MCStart
    Caught <- MCCaught
    Begun <- MCBegun
    Streams = {supply, borrow}
    Lookups = {market}
    Histories <- MCHistories
    PageSize = 2
    MaxRows = 3
    MaxLag = 1
    BackfillLag = 2
    MinChains = 2
    Capacity = 1
    MaxHead = 3
    Prefetcher = Prefetcher
    Nobody = Nobody
    Settled = Settled
INVARIANTS
    FixedReadExact
    LiveReadExplained
PROPERTIES
    EveryJobEnds
CHECK_DEADLOCK FALSE
