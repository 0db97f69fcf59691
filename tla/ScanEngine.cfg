SPECIFICATION Spec
CONSTANTS
    eth = eth
    bsc = bsc
    bare = bare
    off = off
    pendle = pendle
    aave = aave
    walletID = walletID
    Asked = {eth, bsc, bare, off}
    Disabled = {off}
    Named = TRUE
    Unconfigured = {bare}
    Adapters <- MCAdapters
    WalletJobs <- WalletOnOne
    Inactive <- LateDeployment
    Probing = {pendle}
    MinChains = 2
    AccountsOn <- TwoOnEth
    Workers = 2
    NoChain = NoChain
INVARIANTS
    EverythingAccountedFor
    ProbesLiveWhileUseful
    ClientsClosedAfterUse
PROPERTIES
    NoLateRead
    ScanReturns
