SPECIFICATION PricingSpec
CONSTANTS
    eth = eth
    arb = arb
    bsc = bsc
    usd = usd
    pt = pt
    nil = nil
    neg = neg
    new = new
    lend = lend
    farm = farm
    wallet = wallet
    NoToken = NoToken
    NoChain = NoChain
    RatioOne = 2
    PinTime <- MCPinTime
    Quote <- MCQuote
    Portfolios <- MCPortfolios
INVARIANTS
    ValuedOrSaid
    TotalsNet
CHECK_DEADLOCK FALSE
