----------------------------- MODULE NaviMarkets -----------------------------
(***************************************************************************)
(* The discovery of NAVI's markets by a latest read of the Sui node        *)
(* (navi_discovery.go, loadNavi of navi_latest.go).  A market counter      *)
(* names how many markets exist; the markets themselves are found by       *)
(* walking the counter's versions back through the transactions that wrote *)
(* them, down to the version a shared cache knows or to the first.         *)
(*                                                                         *)
(* The chain is the sequence of its states so far; every request reaches   *)
(* some backend, which may answer for any of them.                         *)
(***************************************************************************)
EXTENDS Integers, Sequences, FiniteSets

CONSTANTS Reads,        \* the protocol reads in progress
          MaxWorld,     \* bound on the number of chain states
          MaxMarkets,   \* bound on the markets beside the main one
          MaxReserves   \* bound on the reserves of a market

ASSUME NaviAssumption == {MaxWorld, MaxMarkets, MaxReserves} \subseteq Nat

VARIABLES world,    \* the states of the chain, oldest first
          cache,    \* the markets known at one version of the counter
          gate,     \* the read that holds the cache's gate
          disc      \* Reads -> the state of its discovery

naviVars == <<world, cache, gate, disc>>

Nobody  == "nobody"
Main    == 0
Idle == [pc |-> "idle"]

\* A state has the market counter, the state that wrote it last (its version) and
\* the number of reserves of each market.
NaviInit ==
    /\ world = <<[counter |-> 0, version |-> 1,
                  reserves |-> [m \in 0..MaxMarkets |-> IF m = Main THEN 1 ELSE 0]]>>
    /\ cache = [version |-> 0, ids |-> {}]
    /\ gate = Nobody
    /\ disc = [r \in Reads |-> Idle]

-----------------------------------------------------------------------------
\* A transaction creates one market or several, adds a reserve, or rewrites the
\* counter without creating anything.
Transact ==
    LET now == world[Len(world)]
        n   == Len(world) + 1
    IN  /\ n =< MaxWorld
        /\ \/ \E k \in 0..(MaxMarkets - now.counter) :
                world' = Append(world, [now EXCEPT !.counter = @ + k, !.version = n])
           \/ \E m \in 0..now.counter :
                /\ now.reserves[m] < MaxReserves
                /\ world' = Append(world, [now EXCEPT !.reserves[m] = @ + 1])
        /\ UNCHANGED <<cache, gate, disc>>

\* The markets created by the transaction that wrote version v of the counter:
\* what createdSuiRoots finds among the transaction's object changes.
createdSuiRoots(v) ==
    IF v = 1 THEN {} ELSE (world[v - 1].counter + 1)..world[v].counter

Discovering(r) == disc[r].pc \in {"inventory", "gate", "walk", "storages", "children"}

Go(r, pc) == disc' = [disc EXCEPT ![r] = IF pc = "failed" THEN [pc |-> pc]
                                         ELSE [@ EXCEPT !.pc = pc]]

\* The counter is read before the gate is asked for.
ReadInventory(r) ==
    /\ disc[r].pc = "inventory"
    /\ \E i \in 1..Len(world) :
         disc' = [disc EXCEPT ![r] = [pc |-> "gate", head |-> world[i].version,
                    count |-> world[i].counter, current |-> world[i].version,
                    remaining |-> world[i].counter, ids |-> {}, reserves |-> <<>>]]
    /\ UNCHANGED <<world, cache, gate>>

TakeGate(r) ==
    /\ disc[r].pc = "gate" /\ gate = Nobody
    /\ gate' = r /\ Go(r, "walk")
    /\ UNCHANGED <<world, cache>>

\* A mutant: the cache is filed under the version the walk ended at.
StoreAtWalkEnd(r, ids) == cache' = [version |-> disc[r].current, ids |-> ids]

\* The cache is replaced by what was found at the counter read, even when a read
\* of a newer counter has filled it meanwhile.
StoreMarkets(r, ids) == cache' = [version |-> disc[r].head, ids |-> ids]

\* The end of the walk: everything found, once, and exactly as many as counted.
Found(r, ids) ==
    /\ IF Cardinality(ids) = disc[r].count + 1
       THEN /\ StoreMarkets(r, ids)
            /\ disc' = [disc EXCEPT ![r].pc = "storages", ![r].ids = ids]
       ELSE cache' = cache /\ Go(r, "failed")
    /\ gate' = Nobody /\ UNCHANGED world

\* One step of the walk.  The version before current is read through the
\* transaction that wrote current; a counter that did not grow, or a number of
\* created markets other than its growth, breaks the lineage.
WalkBack(r) ==
    LET d        == disc[r]
        \* every version but the first was written from the one before it
        before   == world[world[d.current - 1].version]
        created  == createdSuiRoots(d.current)
    IN  IF before.counter >= d.remaining
           \/ Cardinality(created) # d.remaining - before.counter
        THEN Go(r, "failed") /\ gate' = Nobody /\ UNCHANGED <<world, cache>>
        ELSE /\ disc' = [disc EXCEPT ![r].current = before.version,
                            ![r].remaining = before.counter, ![r].ids = @ \cup created]
             /\ UNCHANGED <<world, cache, gate>>

Walk(r) ==
    /\ disc[r].pc = "walk"
    /\ IF disc[r].current = cache.version /\ cache.ids # {}
       THEN Found(r, disc[r].ids \cup cache.ids)
       ELSE IF disc[r].remaining = 0
       THEN Found(r, disc[r].ids \cup {Main})
       ELSE WalkBack(r)

\* The Storage objects of the markets, with the number of their reserves, from a
\* backend that has them all; a market it does not know yet fails the read.
ReadStorages(r) ==
    /\ disc[r].pc = "storages"
    /\ \E i \in 1..Len(world) :
         IF disc[r].ids \subseteq 0..world[i].counter
         THEN disc' = [disc EXCEPT ![r].pc = "children", ![r].reserves = world[i].reserves]
         ELSE Go(r, "failed")
    /\ UNCHANGED <<world, cache, gate>>

\* The market fields and the reserve tables are read: the main market's own
\* counter must name exactly the markets found, numbered without a gap, and a
\* table that does not hold as many reserves as its Storage said changed in
\* between.  The balances are looked up in the tables found.
ReadTables(r) ==
    /\ disc[r].pc = "children"
    /\ \E i, j \in 1..Len(world) :
         Go(r, IF /\ disc[r].ids = 0..world[i].counter
                  /\ \A m \in disc[r].ids : world[j].reserves[m] = disc[r].reserves[m]
               THEN "loaded" ELSE "failed")
    /\ UNCHANGED <<world, cache, gate>>

\* A mutant: a read that fails in the walk keeps the gate.
FailsWithGate(r) ==
    /\ Discovering(r) /\ Go(r, "failed")
    /\ UNCHANGED <<world, cache, gate>>

\* Any request of the read fails, its context included; the gate is given back.
LoadFails(r) ==
    /\ Discovering(r)
    /\ Go(r, "failed")
    /\ gate' = IF gate = r THEN Nobody ELSE gate
    /\ UNCHANGED <<world, cache>>

loadNavi(r) == \/ ReadInventory(r) \/ TakeGate(r) \/ Walk(r) \/ ReadStorages(r)
               \/ ReadTables(r) \/ LoadFails(r)
-----------------------------------------------------------------------------
\* The cache holds exactly the markets of the version it is filed under, whoever
\* filled it last and however the counter moved since, and a read that succeeds
\* covers every market there was at one state of the chain, although its requests
\* reach backends at different states and other scans replace the cache meanwhile
\* (discoverNaviMarkets, loadNavi).
MarketsExact ==
    /\ cache.ids # {} => cache.ids = 0..world[cache.version].counter
    /\ \A r \in Reads : disc[r].pc = "loaded" =>
          \E i \in 1..Len(world) : disc[r].ids = 0..world[i].counter
    /\ \A r \in Reads : gate = r <=> disc[r].pc = "walk"
=============================================================================
