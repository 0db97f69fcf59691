SPECIFICATION Spec
CONSTANTS
  Reads <- MCReads
  Scans = {1, 2}
  ScanOf <- MCScanOf
  RouteOf <- MCRouteOf
  Engines <- MCEngines
  MaxAge = 1
  MaxWorld = 3
  MaxMarkets = 2
  MaxReserves = 1
INVARIANTS DialNotInherited MarketsExact LatestAccountedFor
PROPERTY LatestReturns
CHECK_DEADLOCK FALSE
