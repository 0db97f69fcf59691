SPECIFICATION Spec
CONSTANTS
    daily = daily
    hourly = hourly
    Routes = {daily, hourly}
    Tables <- MCTables
    Plans <- MCPlans
    MaxTime = 7
    Growth = 1
    MaxSamples = 3
    ProbeSamples = 2
INVARIANTS
    RangeWhole
    AnsweredAsAlone
    OneState
    RetryOnlyUnanswered
PROPERTIES
    ScanReturns
