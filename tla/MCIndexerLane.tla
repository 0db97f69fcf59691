---------------------------- MODULE MCIndexerLane ----------------------------
(* One reader of SQL statements and two of GraphQL queries on a lane of one   *)
(* slot, which is where waiting readers queue and a held slot blocks them.    *)
EXTENDS IndexerLane
=============================================================================
