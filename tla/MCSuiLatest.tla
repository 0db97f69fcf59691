---------------------------- MODULE MCSuiLatest ----------------------------
\* Two scans of one node: the first reads NAVI and an indexed protocol, the
\* second NAVI.
EXTENDS SuiLatest

MCReads   == {"navi1", "index1", "navi2"}
MCScanOf  == [navi1 |-> 1, index1 |-> 1, navi2 |-> 2]
MCRouteOf == [navi1 |-> "navi", index1 |-> "index", navi2 |-> "navi"]

\* An engine with everything, one without a node, one with nothing.
MCEngines == {MCReads, {"index1"}, {}}
=============================================================================
