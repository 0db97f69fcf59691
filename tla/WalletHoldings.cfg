SPECIFICATION Spec
CONSTANTS
    past = past
    now = now
    root = root
    dsa = dsa
    stranger = stranger
    other = other
    weth = weth
    usd = usd
    odd = odd
    spam = spam
    h2 = h2
    h5 = h5
    h8 = h8
    h9 = h9
    f9 = f9
    Scans = {past, now}
    Accounts <- MCAccounts
    Chain = Chain
    Pin <- MCPin
    Encounters <- MCEncounters
    NoScan = NoScan
    NoAnswer = NoAnswer
    ZeroAddress = ZeroAddress
    Tokens = {weth, usd, odd, spam}
    Native = Native
    Wrapped = weth
    Held <- MCHeld
    Deployed <- MCDeployed
    Reverting <- MCReverting
    NotTokens = {spam}
    Metadata <- MCMetadata
    NoHolds = NoHolds
    Window = 10
    Second = 10
    Width = 4096
    CacheEntries = 1
INVARIANTS
    AmountsCurrent
    FixedExact
    NothingDropped
    CountedOnce
