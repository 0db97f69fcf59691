--------------------------- MODULE MCSuiRangeScan ---------------------------
(* A coarse and a fine index.  The fine one has a sample at each of the      *)
(* coarse one's checkpoints, or misses one, or holds one it cannot certify,  *)
(* or begins late; ranges reach over several statements.                     *)
EXTENDS SuiRangeScan

CONSTANTS daily, hourly

S(start, until) == [start |-> start, until |-> until, good |-> TRUE]
Bad(start, until) == [start |-> start, until |-> until, good |-> FALSE]
Two(d, h) == [p \in Routes |-> IF p = daily THEN d ELSE h]

MCTables ==
    {Two(<<S(1, 4), S(4, 7)>>, <<S(1, 2), S(2, 3), S(3, 4), S(4, 5), S(5, 6), S(6, 7)>>),
     Two(<<S(1, 4), S(4, 7)>>, <<S(2, 3), S(3, 4), S(5, 6), S(6, 7)>>),
     Two(<<S(1, 4), Bad(4, 7)>>, <<Bad(1, 2), S(2, 3), S(3, 5), S(5, 7)>>)}

Ask(instants, pinned, beside) ==
    [instants |-> instants, pinned |-> pinned, wallet |-> beside]

MCPlans == {Ask(<<6, 3>>, FALSE, TRUE), Ask(<<2, 5>>, FALSE, FALSE),
            Ask(<<5>>, FALSE, TRUE), Ask(<<3>>, TRUE, TRUE), Ask(<<6>>, TRUE, TRUE)}
=============================================================================
