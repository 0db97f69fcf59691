---------------------------- MODULE SuiLatestProofs ----------------------------
(***************************************************************************)
(* SuiLatest proved for any scans, reads and chain: the shared dial and    *)
(* the shared cache of NAVI's markets carry nothing wrong from one read to *)
(* another, and a response accounts for every read.                        *)
(***************************************************************************)
EXTENDS SuiLatest, FiniteSetTheorems, TLAPS

-----------------------------------------------------------------------------
(* The inductive invariant.                                                *)

States == [counter : Nat, version : Nat, reserves : [0..MaxMarkets -> Nat]]

\* The chain: a state names the version of its counter, which is a state that has
\* the same counter.
World ==
    /\ world \in Seq(States) /\ Len(world) >= 1
    /\ world[1].counter = 0
    /\ \A i \in 1..Len(world) :
         /\ world[i].counter =< MaxMarkets
         /\ world[i].version \in 1..i
         /\ world[world[i].version].version = world[i].version
         /\ world[world[i].version].counter = world[i].counter

\* The cache: empty, or the markets of the version it is filed under.
Cached ==
    /\ cache \in [version : Nat, ids : SUBSET Nat]
    /\ cache.ids # {} => /\ cache.version \in 1..Len(world)
                         /\ cache.ids = 0..world[cache.version].counter

\* A discovery, before and after it knows of the counter.
Blank == [pc : {"idle", "inventory", "failed", "over"}]
Known == [pc : {"gate", "walk", "storages", "children", "loaded"},
          head : Nat, count : Nat, current : Nat, remaining : Nat, ids : SUBSET Nat,
          reserves : {<<>>} \cup [0..MaxMarkets -> Nat]]

\* The walk: the markets above the remaining ones are found.
Walked(d) ==
    /\ d.head \in 1..Len(world) /\ d.current \in 1..Len(world)
    /\ d.count = world[d.head].counter
    /\ d.remaining = world[d.current].counter /\ d.remaining =< d.count
    /\ d.ids = (d.remaining + 1)..d.count

Discoveries ==
    /\ disc \in [Reads -> Blank \cup Known]
    /\ gate \in Reads \cup {Nobody}
    /\ \A r \in Reads :
         /\ gate = r <=> disc[r].pc = "walk"
         /\ disc[r].pc \in {"gate", "walk"} => Walked(disc[r])
         /\ disc[r].pc = "loaded" => \E i \in 1..Len(world) : disc[r].ids = 0..world[i].counter

Navi == World /\ Cached /\ Discoveries

ReadStates ==
    [pc : {"start", "dialling", "loading", "ok", "failed"}, dial : Dials \cup {NoDial},
     joined : {"none", "running"}, why : {"none", "unconfigured", "index", "dial", "cut", "head"},
     partial : BOOLEAN, holds : BOOLEAN, at : {"head", "sample"}]

\* A read in state d knows the dial it joined, and has no markets before the node.
Sound(r, d) ==
    /\ d.pc \in {"start", "dialling"} => disc[r].pc = "idle"
    /\ d.pc = "start" => d.dial = NoDial
    /\ d.pc = "dialling" => d.dial # NoDial
    /\ d.dial # NoDial => d.joined = "running" /\ RouteOf[r] = "navi"
    /\ d.why = "dial" => d.dial # NoDial /\ dials[d.dial] = "failed"
    /\ d.why = "cut" => ScanOf[r] \in cut
    /\ d.why # "none" => d.pc = "failed"

Joined ==
    /\ read \in [Reads -> ReadStates] /\ cut \subseteq Scans
    /\ \A r \in Reads : Sound(r, read[r])

\* The dials: the dial in flight is the one that runs, a reader ends dialling, and
\* a dial without one has a read that started it.
Dialled ==
    /\ dials \in [Dials -> {"none", "running", "dialled", "refused", "ok", "failed"}]
    /\ dialer \in [reader : BOOLEAN, attempt : Dials \cup {NoDial}]
    /\ \A a \in Dials : dials[a] = "running" <=> dialer.attempt = a
    /\ dialer.reader => dialer.attempt = NoDial
    /\ dialer.reader <=> \E a \in Dials : dials[a] \in {"dialled", "ok"}
    /\ \A a, b \in Dials : dials[a] \in {"dialled", "ok"} /\ dials[b] \in {"dialled", "ok"} => a = b
    /\ \A a \in Dials : dials[a] \in {"running", "refused", "failed"} =>
         \E r \in Reads : read[r].dial = a

\* The responses: what is said of a read is its final state, valued.
Answered ==
    \A s \in Scans : response[s] # <<>> =>
        \A r \in ReadsOf(s) :
            /\ read[r].pc \in {"ok", "failed"}
            /\ response[s].of[r] = Valued(r, response[s].quotable, response[s].refused)

Inv == Navi /\ Joined /\ Dialled /\ Answered /\ DOMAIN response = Scans

-----------------------------------------------------------------------------
(* The chain and the discovery of the markets.                             *)

\* What a state of the chain holds.
LEMMA StateAt ==
    ASSUME World, NEW i \in 1..Len(world)
    PROVE  /\ world[i] \in States /\ Len(world) \in Nat
           /\ world[i].counter \in Nat /\ world[i].version \in 1..i
           /\ world[i].reserves \in [0..MaxMarkets -> Nat]
           /\ world[world[i].version].version = world[i].version
           /\ world[world[i].version].counter = world[i].counter
<1>1. world[i] \in States /\ Len(world) \in Nat
  BY DEF World
<1>2. world[i].counter \in Nat /\ world[i].reserves \in [0..MaxMarkets -> Nat]
  BY <1>1 DEF States
<1> QED
  BY <1>1, <1>2 DEF World

\* A transaction adds a state and changes none.
LEMMA WorldGrows ==
    ASSUME World, Transact
    PROVE  /\ World' /\ Len(world') = Len(world) + 1
           /\ \A i \in 1..Len(world) : world'[i] = world[i]
<1> DEFINE n == Len(world) + 1
           now == world[Len(world)]
<1>1. /\ world \in Seq(States) /\ Len(world) \in Nat /\ Len(world) >= 1
      /\ now \in States /\ now.counter =< MaxMarkets /\ now.version \in 1..Len(world)
  BY DEF World
<1>2. MaxMarkets \in Nat
  BY NaviAssumption
<1>3. \E s \in States : /\ world' = Append(world, s) /\ s.counter =< MaxMarkets
                        /\ \/ s.version = n
                           \/ s.version = now.version /\ s.counter = now.counter
  <2>1. \/ \E k \in 0..(MaxMarkets - now.counter) :
               world' = Append(world, [now EXCEPT !.counter = @ + k, !.version = n])
        \/ \E m \in 0..now.counter :
               world' = Append(world, [now EXCEPT !.reserves[m] = @ + 1])
    BY DEF Transact
  <2> HIDE DEF now
  <2>2. n \in Nat
    BY <1>1
  <2> HIDE DEF n
  <2>3. ASSUME NEW k \in 0..(MaxMarkets - now.counter),
               world' = Append(world, [now EXCEPT !.counter = @ + k, !.version = n])
        PROVE  \E s \in States : /\ world' = Append(world, s) /\ s.counter =< MaxMarkets
                                 /\ s.version = n
    <3>0. now.counter \in Nat
      BY <1>1 DEF States
    <3>1. now.counter + k \in Nat /\ now.counter + k =< MaxMarkets
      BY <1>1, <1>2, <3>0
    <3>2. [now EXCEPT !.counter = @ + k, !.version = n] \in States
      BY <1>1, <2>2, <3>1 DEF States
    <3>3. /\ [now EXCEPT !.counter = @ + k, !.version = n].counter = now.counter + k
          /\ [now EXCEPT !.counter = @ + k, !.version = n].version = n
      BY <1>1 DEF States
    <3> QED
      BY <2>3, <3>1, <3>2, <3>3
  <2>4. ASSUME NEW m \in 0..now.counter,
               world' = Append(world, [now EXCEPT !.reserves[m] = @ + 1])
        PROVE  \E s \in States : /\ world' = Append(world, s) /\ s.counter =< MaxMarkets
                                 /\ s.version = now.version /\ s.counter = now.counter
    <3>1. m \in 0..MaxMarkets
      BY <1>1, <1>2 DEF States
    <3>2. now.reserves \in [0..MaxMarkets -> Nat]
      BY <1>1 DEF States
    <3>3. [now.reserves EXCEPT ![m] = @ + 1] \in [0..MaxMarkets -> Nat]
      <4>1. PICK f \in [0..MaxMarkets -> Nat] : f = now.reserves
        BY <3>2
      <4>2. f[m] \in Nat
        BY <3>1
      <4>3. \A n_m \in Nat : [f EXCEPT ![m] = n_m] \in [0..MaxMarkets -> Nat]
        OBVIOUS
      <4>4. f[m] + 1 \in Nat
        BY <4>2
      <4> QED
        BY <4>1, <4>3, <4>4
    <3>4. [now EXCEPT !.reserves[m] = @ + 1] \in States
      BY <1>1, <3>3 DEF States
    <3>5. /\ [now EXCEPT !.reserves[m] = @ + 1].counter = now.counter
          /\ [now EXCEPT !.reserves[m] = @ + 1].version = now.version
      BY <1>1 DEF States
    <3> QED
      BY <1>1, <2>4, <3>4, <3>5
  <2> QED
    BY <2>1, <2>3, <2>4
<1>4. PICK s \in States : /\ world' = Append(world, s) /\ s.counter =< MaxMarkets
                         /\ \/ s.version = n
                            \/ s.version = now.version /\ s.counter = now.counter
  BY <1>3
<1>5. /\ world' \in Seq(States) /\ Len(world') = n /\ n \in Nat
      /\ \A i \in 1..Len(world) : world'[i] = world[i]
      /\ world'[n] = s
  BY <1>1, <1>4
<1>6. ASSUME NEW i \in 1..n
      PROVE  /\ world'[i].counter =< MaxMarkets
             /\ world'[i].version \in 1..i
             /\ world'[world'[i].version].version = world'[i].version
             /\ world'[world'[i].version].counter = world'[i].counter
  <2>1. CASE i \in 1..Len(world)
    <3>1. /\ world'[i] = world[i] /\ world[i].version \in 1..i
          /\ world[i].version \in 1..Len(world)
      BY <1>1, <1>5, <2>1 DEF World
    <3>2. world'[world[i].version] = world[world[i].version]
      BY <1>5, <3>1
    <3> QED
      BY <2>1, <3>1, <3>2 DEF World
  <2>2. CASE i = n /\ s.version = n
    BY <1>1, <1>4, <1>5, <2>2
  <2>3. CASE i = n /\ s.version = now.version /\ s.counter = now.counter
    <3>1. world'[now.version] = world[now.version]
      BY <1>1, <1>5
    <3>2. /\ world[now.version].version = now.version
          /\ world[now.version].counter = now.counter
      BY <1>1 DEF World
    <3>3. now.version \in 1..n
      BY <1>1
    <3> QED
      BY <1>4, <1>5, <2>3, <3>1, <3>2, <3>3
  <2> QED
    BY <1>1, <1>4, <2>1, <2>2, <2>3
<1>7. world'[1].counter = 0
  BY <1>1, <1>5 DEF World
<1> QED
  BY <1>1, <1>5, <1>6, <1>7 DEF World

\* What is known of the markets stays true as the chain moves on.
LEMMA ChainNavi == ASSUME Navi, Transact PROVE Navi'
<1>0. Len(world) \in Nat /\ UNCHANGED <<cache, gate, disc>>
  <2>1. Len(world) \in Nat
    BY DEF Navi, World
  <2>2. UNCHANGED <<cache, gate, disc>>
    BY DEF Transact
  <2> QED
    BY <2>1, <2>2
<1>1. /\ World' /\ Len(world') = Len(world) + 1 /\ Len(world) \in Nat
      /\ \A i \in 1..Len(world) : world'[i] = world[i]
      /\ UNCHANGED <<cache, gate, disc>>
  BY <1>0, WorldGrows DEF Navi
<1>2. \A i \in 1..Len(world) : i \in 1..Len(world')
  BY <1>1
<1>3. Cached'
  BY <1>1, <1>2 DEF Navi, Cached
<1>4. \A d : Walked(d) => Walked(d)'
  BY <1>1, <1>2 DEF Walked
<1>5. Discoveries'
  BY <1>1, <1>2, <1>4 DEF Navi, Discoveries
<1> QED
  BY <1>1, <1>3, <1>5 DEF Navi

\* A discovery by its state.
LEMMA Shapes ==
    ASSUME Discoveries, NEW r \in Reads
    PROVE  /\ disc[r].pc \in {"gate", "walk", "storages", "children", "loaded"} => disc[r] \in Known
           /\ disc[r] \in Known \cup Blank
  BY DEF Discoveries, Known, Blank

\* A read that is not in the walk may start again or give up.
LEMMA BlankNavi ==
    ASSUME Navi, NEW r \in Reads, NEW p \in {"inventory", "failed", "over"},
           disc' = [disc EXCEPT ![r] = [pc |-> p]], disc[r].pc # "walk",
           UNCHANGED <<world, cache, gate>>
    PROVE  Navi'
<1>1. [pc |-> p] \in Blank /\ [pc |-> p].pc = p
  BY DEF Blank
<1>2. /\ disc' \in [Reads -> Blank \cup Known]
      /\ disc'[r].pc = p /\ \A q \in Reads \ {r} : disc'[q] = disc[q]
  BY <1>1 DEF Navi, Discoveries
<1>3. \A d : Walked(d)' <=> Walked(d)
  BY DEF Walked
<1>4. Discoveries'
  BY <1>2, <1>3 DEF Navi, Discoveries
<1> QED
  BY <1>4 DEF Navi, World, Cached

\* A read that gives up in the walk gives the gate back.
LEMMA FailedNavi ==
    ASSUME Navi, NEW r \in Reads, Go(r, "failed"),
           gate' = IF gate = r THEN Nobody ELSE gate, UNCHANGED <<world, cache>>
    PROVE  Navi'
<1>1. [pc |-> "failed"] \in Blank /\ [pc |-> "failed"].pc = "failed"
  BY DEF Blank
<1>2. /\ disc' \in [Reads -> Blank \cup Known]
      /\ disc'[r].pc = "failed" /\ \A q \in Reads \ {r} : disc'[q] = disc[q]
  BY <1>1 DEF Navi, Discoveries, Go
<1>3. \A d : Walked(d)' <=> Walked(d)
  BY DEF Walked
<1>4. gate' \in Reads \cup {Nobody}
  BY DEF Navi, Discoveries
<1>5. \A q \in Reads : gate' = q <=> disc'[q].pc = "walk"
  BY <1>2, SuiAssumption DEF Navi, Discoveries
<1>6. Discoveries'
  BY <1>2, <1>3, <1>4, <1>5 DEF Navi, Discoveries
<1> QED
  BY <1>6 DEF Navi, World, Cached

\* A read that learns something, outside of the walk's end, keeps what is known.
LEMMA KnownNavi ==
    ASSUME Navi, NEW r \in Reads, NEW d \in Known, disc' = [disc EXCEPT ![r] = d],
           d.pc = "walk" <=> gate' = r, gate' \in Reads \cup {Nobody},
           \A q \in Reads \ {r} : gate' = q <=> gate = q,
           d.pc \in {"gate", "walk"} => Walked(d),
           d.pc = "loaded" => \E i \in 1..Len(world) : d.ids = 0..world[i].counter,
           world' = world
    PROVE  Discoveries'
<1>1. /\ disc' \in [Reads -> Blank \cup Known]
      /\ disc'[r] = d /\ \A q \in Reads \ {r} : disc'[q] = disc[q]
  BY DEF Navi, Discoveries
<1>2. \A e : Walked(e)' <=> Walked(e)
  BY DEF Walked
<1>3. \A q \in Reads : gate' = q <=> disc'[q].pc = "walk"
  BY <1>1 DEF Navi, Discoveries
<1>4. (\A q \in Reads : disc[q].pc \in {"gate", "walk"} => Walked(disc[q]))'
  <2>1. \A q \in Reads \ {r} : disc[q].pc \in {"gate", "walk"} => Walked(disc[q])
    BY DEF Navi, Discoveries
  <2> QED
    BY <1>1, <1>2, <2>1
<1>5. \A q \in Reads : disc'[q].pc = "loaded" =>
          \E i \in 1..Len(world') : disc'[q].ids = 0..world'[i].counter
  BY <1>1 DEF Navi, Discoveries
<1> QED
  BY <1>1, <1>3, <1>4, <1>5 DEF Discoveries

\* The walk starts at the counter that was read, with nothing found.
LEMMA InventoryNavi == ASSUME Navi, NEW r \in Reads, ReadInventory(r) PROVE Navi'
<1>1. PICK i \in 1..Len(world) :
          disc' = [disc EXCEPT ![r] = [pc |-> "gate", head |-> world[i].version,
                    count |-> world[i].counter, current |-> world[i].version,
                    remaining |-> world[i].counter, ids |-> {}, reserves |-> <<>>]]
  BY DEF ReadInventory
<1>2. UNCHANGED <<world, cache, gate>> /\ disc[r].pc = "inventory"
  BY DEF ReadInventory
<1>3. PICK v, c : v = world[i].version /\ c = world[i].counter
  OBVIOUS
<1>4. Len(world) \in Nat /\ v \in 1..i /\ c \in Nat /\ world[v].counter = c
  BY <1>3, StateAt DEF Navi
<1>5. PICK d : d = [pc |-> "gate", head |-> v, count |-> c, current |-> v, remaining |-> c,
                    ids |-> {}, reserves |-> <<>>]
  OBVIOUS
<1>6. d \in Known /\ d.pc = "gate"
  BY <1>4, <1>5 DEF Known
<1>7. v \in 1..Len(world) /\ c =< c /\ (c + 1)..c = {}
  BY <1>4
<1>8. Walked(d)
  BY <1>4, <1>5, <1>7 DEF Walked
<1>9. Discoveries'
  <2>1. gate # r /\ gate \in Reads \cup {Nobody}
    BY <1>2 DEF Navi, Discoveries
  <2>2. disc' = [disc EXCEPT ![r] = d]
    BY <1>1, <1>3, <1>5
  <2> QED
    BY <1>2, <1>6, <1>8, <2>1, <2>2, KnownNavi
<1> QED
  BY <1>2, <1>9 DEF Navi, World, Cached

\* The gate is taken by one read.
LEMMA GateNavi == ASSUME Navi, NEW r \in Reads, TakeGate(r) PROVE Navi'
<1>1. /\ disc[r].pc = "gate" /\ gate = Nobody /\ gate' = r /\ UNCHANGED <<world, cache>>
      /\ disc' = [disc EXCEPT ![r] = [disc[r] EXCEPT !.pc = "walk"]]
  BY DEF TakeGate, Go
<1>2. disc[r] \in Known /\ Walked(disc[r])
  BY <1>1, Shapes DEF Navi, Discoveries
<1>3. PICK d : d = [disc[r] EXCEPT !.pc = "walk"]
  OBVIOUS
<1>4. /\ d \in Known /\ d.pc = "walk"
      /\ d.head = disc[r].head /\ d.current = disc[r].current /\ d.count = disc[r].count
      /\ d.remaining = disc[r].remaining /\ d.ids = disc[r].ids
  BY <1>2, <1>3 DEF Known
<1>5. Walked(d)
  BY <1>2, <1>4 DEF Walked
<1>6. Discoveries'
  BY <1>1, <1>3, <1>4, <1>5, SuiAssumption, KnownNavi
<1> QED
  BY <1>1, <1>6 DEF Navi, World, Cached

\* At the end of the walk the markets found are those of the counter that was read.
LEMMA FoundNavi ==
    ASSUME Navi, NEW r \in Reads, disc[r].pc = "walk",
           NEW ids, ids = 0..disc[r].count, Found(r, ids)
    PROVE  Navi'
<1>1. /\ disc[r] \in Known /\ Walked(disc[r]) /\ gate = r
  BY Shapes DEF Navi, Discoveries
<1>2. gate' = Nobody /\ world' = world
  BY DEF Found
<1>3. CASE Cardinality(ids) = disc[r].count + 1
  <2>1. /\ cache' = [version |-> disc[r].head, ids |-> ids]
        /\ disc' = [disc EXCEPT ![r].pc = "storages", ![r].ids = ids]
    BY <1>3 DEF Found, StoreMarkets
  <2>2. PICK d : d = [disc[r] EXCEPT !.pc = "storages", !.ids = ids]
    OBVIOUS
  <2>3. disc[r].count \in Nat /\ disc[r].head \in Nat
    BY <1>1 DEF Known
  <2>4. ids \in SUBSET Nat
    BY <2>3
  <2>5. d \in Known /\ d.pc = "storages"
    BY <1>1, <2>2, <2>4 DEF Known
  <2>6. disc' = [disc EXCEPT ![r] = d]
    BY <2>1, <2>2 DEF Navi, Discoveries
  <2>7. Discoveries'
    BY <1>1, <1>2, <2>5, <2>6, SuiAssumption, KnownNavi
  <2>8. Cached'
    <3>1. /\ disc[r].head \in 1..Len(world) /\ disc[r].count = world[disc[r].head].counter
      BY <1>1 DEF Walked
    <3>2. cache' \in [version : Nat, ids : SUBSET Nat]
      BY <2>1, <2>3, <2>4
    <3>3. cache'.version = disc[r].head /\ cache'.ids = ids
      BY <2>1
    <3> QED
      BY <1>2, <3>1, <3>2, <3>3 DEF Cached
  <2> QED
    BY <1>2, <2>7, <2>8 DEF Navi, World
<1>4. CASE Cardinality(ids) # disc[r].count + 1
  <2>1. cache' = cache /\ Go(r, "failed")
    BY <1>4 DEF Found
  <2> QED
    BY <1>1, <1>2, <2>1, FailedNavi
<1> QED
  BY <1>3, <1>4

\* A step back finds the markets between two versions of the counter.
LEMMA WalkNavi == ASSUME Navi, NEW r \in Reads, Walk(r) PROVE Navi'
<1>1. disc[r].pc = "walk" /\ disc[r] \in Known /\ Walked(disc[r]) /\ gate = r
  BY Shapes DEF Walk, Navi, Discoveries
<1>2. PICK d : d = disc[r]
  OBVIOUS
<1>3. /\ d.head \in 1..Len(world) /\ d.current \in 1..Len(world) /\ Len(world) \in Nat
      /\ d.count \in Nat /\ d.remaining \in Nat
      /\ d.remaining = world[d.current].counter /\ d.remaining =< d.count
      /\ d.ids = (d.remaining + 1)..d.count
  BY <1>1, <1>2 DEF Walked, Known, Navi, World
<1>4. CASE d.current = cache.version /\ cache.ids # {}
  <2>1. cache.ids = 0..d.remaining
    BY <1>3, <1>4 DEF Navi, Cached
  <2>2. d.ids \cup cache.ids = 0..d.count
    BY <1>3, <2>1
  <2>3. Found(r, d.ids \cup cache.ids)
    BY <1>2, <1>4 DEF Walk
  <2> QED
    BY <1>1, <1>2, <2>2, <2>3, FoundNavi
<1>5. CASE ~(d.current = cache.version /\ cache.ids # {}) /\ d.remaining = 0
  <2>1. d.ids \cup {Main} = 0..d.count
    BY <1>3, <1>5 DEF Main
  <2>2. Found(r, d.ids \cup {Main})
    BY <1>2, <1>5 DEF Walk
  <2> QED
    BY <1>1, <1>2, <2>1, <2>2, FoundNavi
<1>6. CASE ~(d.current = cache.version /\ cache.ids # {}) /\ d.remaining # 0
  <2>1. WalkBack(r)
    BY <1>2, <1>6 DEF Walk
  <2>2. d.current # 1 /\ d.current - 1 \in 1..Len(world)
    <3>1. d.current # 1
      BY <1>3, <1>6 DEF Navi, World
    <3> QED
      BY <1>3, <3>1
  <2>3. PICK v, b : v = world[d.current - 1].version /\ b = world[d.current - 1].counter
    OBVIOUS
  <2>4. /\ v \in 1..(d.current - 1) /\ b \in Nat
        /\ world[v].version = v /\ world[v].counter = b
    BY <2>2, <2>3, StateAt DEF Navi
  <2>5. createdSuiRoots(d.current) = (b + 1)..d.remaining
    BY <1>3, <2>2, <2>3 DEF createdSuiRoots
  <2>6. CASE b >= d.remaining \/ Cardinality((b + 1)..d.remaining) # d.remaining - b
    <3>1. Go(r, "failed") /\ gate' = Nobody /\ UNCHANGED <<world, cache>>
      BY <1>2, <2>1, <2>3, <2>4, <2>5, <2>6 DEF WalkBack
    <3> QED
      BY <1>1, <3>1, FailedNavi
  <2>7. CASE ~(b >= d.remaining \/ Cardinality((b + 1)..d.remaining) # d.remaining - b)
    <3>1. /\ disc' = [disc EXCEPT ![r].current = v, ![r].remaining = b,
                                  ![r].ids = @ \cup ((b + 1)..d.remaining)]
          /\ UNCHANGED <<world, cache, gate>>
      BY <1>2, <2>1, <2>3, <2>4, <2>5, <2>7 DEF WalkBack
    <3>2. PICK e : e = [d EXCEPT !.current = v, !.remaining = b,
                                 !.ids = d.ids \cup ((b + 1)..d.remaining)]
      OBVIOUS
    <3>3. b < d.remaining /\ v \in Nat /\ v \in 1..Len(world)
      BY <1>3, <2>4, <2>7
    <3>4. d.ids \cup ((b + 1)..d.remaining) = (b + 1)..d.count
      <4>1. PICK m, c : m = d.remaining /\ c = d.count
        OBVIOUS
      <4>2. b \in Nat /\ m \in Nat /\ c \in Nat /\ b < m /\ m <= c
        BY <1>3, <2>4, <3>3, <4>1
      <4>3. ((m + 1)..c) \cup ((b + 1)..m) = (b + 1)..c
        BY ONLY <4>2
      <4> QED
        BY <1>3, <4>1, <4>3
    <3>5. (b + 1)..d.count \in SUBSET Nat
      BY <1>3, <2>4
    <3>6. /\ e \in Known /\ e.pc = "walk" /\ e.head = d.head /\ e.count = d.count
          /\ e.current = v /\ e.remaining = b /\ e.ids = (b + 1)..d.count
      BY <1>1, <1>2, <2>4, <3>2, <3>3, <3>4, <3>5 DEF Known
    <3>7. b =< d.count
      BY <1>3, <2>4, <3>3
    <3>8. Walked(e)
      <4>1. d.count = world[d.head].counter
        BY <1>1, <1>2 DEF Walked
      <4> QED
        BY <1>3, <2>4, <3>3, <3>6, <3>7, <4>1 DEF Walked
    <3>9. disc' = [disc EXCEPT ![r] = e]
      BY <1>2, <3>1, <3>2 DEF Navi, Discoveries
    <3>10. gate \in Reads \cup {Nobody}
      BY DEF Navi, Discoveries
    <3>11. Discoveries'
      BY <1>1, <3>1, <3>6, <3>8, <3>9, <3>10, KnownNavi
    <3> QED
      BY <3>1, <3>11 DEF Navi, World, Cached
  <2> QED
    BY <2>6, <2>7
<1> QED
  BY <1>4, <1>5, <1>6

\* Reading the markets found keeps them, and a read is loaded when they are all the
\* markets of one state.
LEMMA TablesNavi ==
    ASSUME Navi, NEW r \in Reads, ReadStorages(r) \/ ReadTables(r) PROVE Navi'
<1>1. /\ disc[r].pc \in {"storages", "children"} /\ UNCHANGED <<world, cache, gate>>
  BY DEF ReadStorages, ReadTables
<1>2. disc[r] \in Known /\ gate # r /\ gate \in Reads \cup {Nobody}
  BY <1>1, Shapes DEF Navi, Discoveries
<1>3. CASE Go(r, "failed")
  BY <1>1, <1>2, <1>3, FailedNavi
<1>4. ASSUME NEW i \in 1..Len(world), disc[r].pc = "storages",
             disc' = [disc EXCEPT ![r].pc = "children", ![r].reserves = world[i].reserves]
      PROVE  Discoveries'
  <2>1. PICK w \in [0..MaxMarkets -> Nat] : w = world[i].reserves
    BY StateAt DEF Navi
  <2>2. PICK d : d = [disc[r] EXCEPT !.pc = "children", !.reserves = w]
    OBVIOUS
  <2>3. d \in Known /\ d.pc = "children"
    BY <1>2, <2>2 DEF Known
  <2>4. disc' = [disc EXCEPT ![r] = d]
    BY <1>4, <2>1, <2>2 DEF Navi, Discoveries
  <2> QED
    BY <1>1, <1>2, <2>3, <2>4, KnownNavi
<1>5. ASSUME NEW i \in 1..Len(world), disc[r].ids = 0..world[i].counter, Go(r, "loaded")
      PROVE  Discoveries'
  <2>1. PICK d : d = [disc[r] EXCEPT !.pc = "loaded"]
    OBVIOUS
  <2>2. d \in Known /\ d.pc = "loaded" /\ d.ids = disc[r].ids
    BY <1>2, <2>1 DEF Known
  <2>3. disc' = [disc EXCEPT ![r] = d]
    BY <1>5, <2>1 DEF Go, Navi, Discoveries
  <2> QED
    BY <1>1, <1>2, <1>5, <2>2, <2>3, KnownNavi
<1>6. CASE Discoveries'
  BY <1>1, <1>6 DEF Navi, World, Cached
<1>7. CASE ReadStorages(r)
  BY <1>3, <1>4, <1>6, <1>7 DEF ReadStorages
<1>8. CASE ReadTables(r)
  <2>1. Go(r, "failed") \/ \E i \in 1..Len(world) : disc[r].ids = 0..world[i].counter /\ Go(r, "loaded")
    BY <1>8 DEF ReadTables
  <2> QED
    BY <1>3, <1>5, <1>6, <2>1
<1> QED
  BY <1>7, <1>8

\* Every step of a discovery keeps what is known of the markets.
LEMMA LoadNavi == ASSUME Navi, NEW r \in Reads, loadNavi(r) PROVE Navi'
<1>1. CASE LoadFails(r)
  BY <1>1, FailedNavi DEF LoadFails
<1> QED
  BY <1>1, InventoryNavi, GateNavi, WalkNavi, TablesNavi DEF loadNavi

\* A discovery changes its own state alone.
LEMMA LoadOwn ==
    ASSUME Navi, NEW r \in Reads, loadNavi(r), NEW q \in Reads \ {r}
    PROVE  disc'[q] = disc[q]
<1>1. \A p : Go(r, p) => disc'[q] = disc[q]
  BY DEF Go, Navi, Discoveries
<1>2. CASE ReadInventory(r)
  BY <1>2 DEF ReadInventory, Navi, Discoveries
<1>3. CASE Walk(r)
  <2>1. CASE \E ids : Found(r, ids)
    BY <1>1, <2>1 DEF Found, Navi, Discoveries
  <2>2. CASE WalkBack(r)
    BY <1>1, <2>2 DEF WalkBack, Navi, Discoveries
  <2> QED
    BY <1>3, <2>1, <2>2 DEF Walk
<1>4. CASE ReadStorages(r)
  BY <1>1, <1>4 DEF ReadStorages, Navi, Discoveries
<1>5. CASE TakeGate(r) \/ ReadTables(r) \/ LoadFails(r)
  BY <1>1, <1>5 DEF TakeGate, ReadTables, LoadFails
<1> QED
  BY <1>2, <1>3, <1>4, <1>5 DEF loadNavi

-----------------------------------------------------------------------------
(* The reads and the dials.                                                *)

\* What is known of a read stays true when nothing of it changes.
LEMMA SoundKept ==
    ASSUME NEW r \in Reads, NEW d \in ReadStates, Sound(r, d), disc'[r].pc = disc[r].pc \/ d.pc = "loading",
           cut \subseteq cut', \A a \in Dials : dials[a] = "failed" => dials'[a] = "failed"
    PROVE  Sound(r, d)'
<1>1. d.dial \in Dials \cup {NoDial}
  BY DEF ReadStates
<1>2. d.why = "dial" => dials'[d.dial] = "failed"
  BY <1>1 DEF Sound
<1> QED
  BY <1>2 DEF Sound

\* A read that moves keeps the reads' part when its new state is sound.
LEMMA MoveJoined ==
    ASSUME Joined, NEW r \in Reads, NEW d \in ReadStates, read' = [read EXCEPT ![r] = d],
           Sound(r, d)', \A q \in Reads \ {r} : disc'[q] = disc[q], cut' = cut,
           \A a \in Dials : dials[a] = "failed" => dials'[a] = "failed"
    PROVE  Joined'
<1>1. /\ read' \in [Reads -> ReadStates]
      /\ read'[r] = d /\ \A q \in Reads \ {r} : read'[q] = read[q]
  BY DEF Joined
<1>2. \A q \in Reads \ {r} : Sound(q, read[q])'
  <2>1. ASSUME NEW q \in Reads \ {r} PROVE Sound(q, read[q])'
    <3>1. PICK e \in ReadStates : e = read[q]
      BY DEF Joined
    <3>2. Sound(q, e)'
      BY <3>1, SoundKept DEF Joined
    <3> QED
      BY <1>1, <3>1, <3>2
  <2> QED
    BY <2>1
<1> QED
  BY <1>1, <1>2 DEF Joined

\* The dials' part when none of them changes, nor what joined it.
LEMMA DialsKept ==
    ASSUME Dialled, UNCHANGED <<dials, dialer>>,
           \A q \in Reads : \/ read'[q].dial = read[q].dial
                            \/ dials[read[q].dial] \notin {"running", "refused", "failed"}
    PROVE  Dialled'
  BY DEF Dialled

\* The responses' part when no read that ended changes.
LEMMA AnswersKept ==
    ASSUME Answered, response' = response,
           \A q \in Reads : read[q].pc \in {"ok", "failed"} => read'[q] = read[q]
    PROVE  Answered'
<1>1. ASSUME NEW q \in Reads, read'[q] = read[q], NEW Q, NEW R
      PROVE  Valued(q, Q, R)' = Valued(q, Q, R)
  BY <1>1 DEF Valued, Unpriced
<1>2. \A s \in Scans : ReadsOf(s) \subseteq Reads
  BY DEF ReadsOf
<1>3. ASSUME NEW s \in Scans, response'[s] # <<>>, NEW r \in ReadsOf(s)
      PROVE  /\ read'[r].pc \in {"ok", "failed"}
             /\ response'[s].of[r] = Valued(r, response[s].quotable, response[s].refused)'
  <2>1. /\ read[r].pc \in {"ok", "failed"} /\ r \in Reads
        /\ response[s].of[r] = Valued(r, response[s].quotable, response[s].refused)
    BY <1>2, <1>3 DEF Answered
  <2>2. PICK Q, R : Q = response[s].quotable /\ R = response[s].refused
    OBVIOUS
  <2>3. read'[r] = read[r] /\ Valued(r, Q, R)' = Valued(r, Q, R)
    BY <1>1, <2>1
  <2> QED
    BY <2>1, <2>2, <2>3
<1> QED
  BY <1>3 DEF Answered

\* A read that moves and leaves the dials alone.
LEMMA MoveRead ==
    ASSUME Joined, Dialled, Answered, NEW r \in Reads, NEW d \in ReadStates,
           read' = [read EXCEPT ![r] = d], read[r].pc \notin {"ok", "failed"}, Sound(r, d)',
           \A q \in Reads \ {r} : disc'[q] = disc[q],
           UNCHANGED <<dialer, dials, cut, response>>,
           d.dial = read[r].dial \/ dials[read[r].dial] \notin {"running", "refused", "failed"}
    PROVE  Joined' /\ Dialled' /\ Answered'
<1>1. read'[r] = d /\ \A q \in Reads \ {r} : read'[q] = read[q]
  BY DEF Joined
<1>2. Joined'
  BY MoveJoined
<1>3. Dialled'
  BY <1>1, DialsKept
<1>4. Answered'
  BY <1>1, AnswersKept
<1> QED
  BY <1>2, <1>3, <1>4

\* A read that fails keeps the dial it joined.
LEMMA FailRead ==
    ASSUME Joined, Dialled, Answered, NEW r \in Reads, NEW why \in {"unconfigured", "index", "dial", "cut", "head"},
           Failed(r, why), read[r].pc \notin {"ok", "failed"},
           why = "dial" => read[r].pc = "dialling" /\ dials[read[r].dial] = "failed",
           why = "cut" => ScanOf[r] \in cut,
           \A q \in Reads \ {r} : disc'[q] = disc[q],
           UNCHANGED <<dialer, dials, cut, response>>
    PROVE  Joined' /\ Dialled' /\ Answered'
<1>1. read[r] \in ReadStates /\ read' = [read EXCEPT ![r].pc = "failed", ![r].why = why]
  BY DEF Joined, Failed
<1>2. PICK d : d = [read[r] EXCEPT !.pc = "failed", !.why = why]
  OBVIOUS
<1>3. /\ d \in ReadStates /\ d.pc = "failed" /\ d.why = why
      /\ d.dial = read[r].dial /\ d.joined = read[r].joined
  BY <1>1, <1>2 DEF ReadStates
<1>4. read' = [read EXCEPT ![r] = d]
  BY <1>1, <1>2 DEF Joined
<1>5. Sound(r, d)'
  <2>1. /\ d.dial # NoDial => d.joined = "running" /\ RouteOf[r] = "navi"
        /\ read[r].pc = "dialling" => d.dial # NoDial
    BY <1>3 DEF Joined, Sound
  <2> QED
    BY <1>3, <2>1 DEF Sound
<1> QED
  BY <1>3, <1>4, <1>5, MoveRead

\* A read that is given the reader leaves the dial, which has succeeded.
LEMMA EnterRead ==
    ASSUME Navi, Joined, Dialled, Answered, NEW r \in Reads, WithReader(r),
           read[r].pc \in {"start", "dialling"},
           read[r].dial = NoDial \/ dials[read[r].dial] = "ok",
           UNCHANGED <<dialer, dials, cut, response>>
    PROVE  Joined' /\ Dialled' /\ Answered'
<1>1. /\ read[r] \in ReadStates
      /\ read' = [read EXCEPT ![r].pc = "loading", ![r].dial = NoDial, ![r].joined = "none"]
  BY DEF Joined, WithReader
<1>2. PICK d : d = [read[r] EXCEPT !.pc = "loading", !.dial = NoDial, !.joined = "none"]
  OBVIOUS
<1>3. /\ d \in ReadStates /\ d.pc = "loading" /\ d.why = read[r].why
      /\ d.dial = NoDial
  BY <1>1, <1>2 DEF ReadStates
<1>4. read' = [read EXCEPT ![r] = d]
  BY <1>1, <1>2 DEF Joined
<1>5. d.why = "none"
  BY <1>3 DEF Joined, Sound
<1>6. Sound(r, d)'
  BY <1>3, <1>5 DEF Sound
<1>7. \A q \in Reads \ {r} : disc'[q] = disc[q]
  BY DEF WithReader, Navi, Discoveries
<1> QED
  BY <1>3, <1>4, <1>6, <1>7, MoveRead

-----------------------------------------------------------------------------
(* A dial for every read that has to start one.                            *)

\* While no reader is known and no dial is in flight, a read that comes finds a dial
\* that was never started: each of the others was started by another read.
LEMMA FreeDial ==
    ASSUME Joined, Dialled, NEW r \in Reads, read[r].pc = "start", RouteOf[r] = "navi",
           ~dialer.reader, dialer.attempt = NoDial
    PROVE  {a \in Dials : dials[a] = "none"} # {}
<1> DEFINE N == {q \in Reads : RouteOf[q] = "navi"}
           M == N \ {r}
           f == [q \in M |-> read[q].dial]
           T == {read[q].dial : q \in M}
<1>1. SUFFICES ASSUME {a \in Dials : dials[a] = "none"} = {} PROVE FALSE
  OBVIOUS
<1>2. /\ IsFiniteSet(N) /\ IsFiniteSet(M) /\ r \in N
      /\ Cardinality(N) \in Nat /\ Cardinality(M) = Cardinality(N) - 1
  BY SuiAssumption, FS_Subset, FS_CardinalityType, FS_RemoveElement
<1>3. Dials = 1..Cardinality(N)
  BY DEF Dials
<1>4. IsFiniteSet(Dials) /\ Cardinality(Dials) = Cardinality(N)
  <2>1. PICK n \in Nat : n = Cardinality(N)
    BY <1>2
  <2>2. IsFiniteSet(1..n) /\ Cardinality(1..n) = n
    BY FS_Interval
  <2> QED
    BY <1>3, <2>1, <2>2
<1>5. ASSUME NEW a \in Dials PROVE a \in T
  <2>1. a # NoDial
    BY <1>2, <1>3 DEF NoDial
  <2>2. dials[a] \in {"refused", "failed"}
    BY <1>1, <2>1 DEF Dialled
  <2>3. PICK q \in Reads : read[q].dial = a
    BY <2>2 DEF Dialled
  <2>4. Sound(q, read[q]) /\ Sound(r, read[r])
    BY DEF Joined
  <2>5. RouteOf[q] = "navi" /\ q # r
    BY <2>1, <2>3, <2>4 DEF Sound
  <2> QED
    BY <2>3, <2>5
<1>6. f \in Surjection(M, T)
  BY DEF Surjection
<1>7. IsFiniteSet(T) /\ Cardinality(T) <= Cardinality(M)
  <2> HIDE DEF M, T, f
  <2> QED
    BY <1>2, <1>6, FS_Surjection
<1>8. Cardinality(Dials) <= Cardinality(T)
  <2> HIDE DEF M, T, f
  <2> QED
    BY <1>5, <1>7, FS_Subset
<1>9. Cardinality(T) \in Nat
  BY <1>7, FS_CardinalityType
<1> HIDE DEF N, M, T, f
<1> QED
  BY <1>2, <1>4, <1>7, <1>8, <1>9

\* The first of them is one of them.
LEMMA FirstDial ==
    ASSUME NEW S \in SUBSET Dials, S # {}
    PROVE  Min(S) \in S
<1>1. S \subseteq Nat
  <2>1. Dials \subseteq Nat
    BY DEF Dials
  <2> QED
    BY <2>1
<1>2. PICK x \in S : \A y \in S : ~(<<y, x>> \in OpToRel(<, Nat))
  BY <1>1, WFMin, NatLessThanWellFounded
<1>3. ASSUME NEW y \in S PROVE x <= y
  <2>1. y \in Nat /\ x \in Nat
    BY <1>1
  <2>2. ~(y < x)
    BY <1>2, <2>1 DEF OpToRel
  <2> QED
    BY <2>1, <2>2
<1> QED
  BY <1>3 DEF Min

-----------------------------------------------------------------------------
(* The steps.                                                              *)

\* A read of the index.
LEMMA IndexStep == ASSUME Inv, NEW r \in Reads, ReadIndex(r) PROVE Inv'
<1>1. /\ Navi /\ Joined /\ Dialled /\ Answered /\ read[r].pc = "start"
      /\ UNCHANGED <<naviVars, dialer, dials, cut, response>>
  BY DEF Inv, ReadIndex
<1>2. Navi'
  BY <1>1 DEF naviVars, Navi, World, Cached, Discoveries, Walked
<1>3. \/ \E why \in {"unconfigured", "index"} : Failed(r, why)
      \/ \E holds \in BOOLEAN :
            read' = [read EXCEPT ![r].pc = "ok", ![r].holds = holds, ![r].at = "sample"]
  BY DEF ReadIndex
<1>4. \A q \in Reads \ {r} : disc'[q] = disc[q]
  BY <1>1 DEF naviVars
<1>5. ASSUME NEW why \in {"unconfigured", "index"}, Failed(r, why)
      PROVE  Joined' /\ Dialled' /\ Answered'
  BY <1>1, <1>4, <1>5, FailRead
<1>6. ASSUME NEW holds \in BOOLEAN,
             read' = [read EXCEPT ![r].pc = "ok", ![r].holds = holds, ![r].at = "sample"]
      PROVE  Joined' /\ Dialled' /\ Answered'
  <2>1. PICK d : d = [read[r] EXCEPT !.pc = "ok", !.holds = holds, !.at = "sample"]
    OBVIOUS
  <2>2. read[r] \in ReadStates
    BY <1>1 DEF Joined
  <2>3. /\ d \in ReadStates /\ d.pc = "ok" /\ d.why = read[r].why
        /\ d.dial = read[r].dial
    BY <2>1, <2>2 DEF ReadStates
  <2>4. read' = [read EXCEPT ![r] = d]
    BY <1>1, <1>6, <2>1 DEF Joined
  <2>5. d.why = "none" /\ d.dial = NoDial
    BY <1>1, <2>3 DEF Joined, Sound
  <2>6. Sound(r, d)'
    BY <2>3, <2>5 DEF Sound
  <2> QED
    BY <1>1, <1>4, <2>3, <2>4, <2>6, MoveRead
<1>7. Joined' /\ Dialled' /\ Answered'
  BY <1>3, <1>5, <1>6
<1> QED
  BY <1>1, <1>2, <1>7 DEF Inv

\* A read that asks for the reader.
LEMMA GetStep == ASSUME Inv, NEW r \in Reads, Get(r) PROVE Inv'
<1> DEFINE free == {a \in Dials : dials[a] = "none"}
           first == IF dialer.attempt = NoDial THEN Min(free) ELSE dialer.attempt
<1>1. /\ Navi /\ Joined /\ Dialled /\ Answered /\ read[r].pc = "start" /\ RouteOf[r] = "navi"
      /\ UNCHANGED <<world, cache, gate, cut, response>>
  BY DEF Inv, Get
<1>2. /\ read[r] \in ReadStates /\ read[r].dial = NoDial /\ read[r].why = "none"
      /\ disc[r].pc = "idle"
  BY <1>1 DEF Joined, Sound
<1>3. CASE r \notin configured
  <2>1. Failed(r, "unconfigured") /\ UNCHANGED <<dialer, dials, disc>>
    BY <1>3 DEF Get
  <2>2. Joined' /\ Dialled' /\ Answered'
    BY <1>1, <2>1, FailRead
  <2>3. Navi'
    BY <1>1, <2>1 DEF Navi, World, Cached, Discoveries, Walked
  <2> QED
    BY <1>1, <2>2, <2>3 DEF Inv
<1>4. CASE r \in configured /\ dialer.reader
  <2>1. WithReader(r) /\ UNCHANGED <<dialer, dials>>
    BY <1>4 DEF Get
  <2>2. Joined' /\ Dialled' /\ Answered'
    BY <1>1, <1>2, <2>1, EnterRead
  <2>3. Navi'
    BY <1>1, <1>2, <2>1, BlankNavi DEF WithReader
  <2> QED
    BY <1>1, <2>2, <2>3 DEF Inv
<1>5. CASE r \in configured /\ ~dialer.reader
  <2>1. PICK a : a = first
    OBVIOUS
  <2>2. /\ dials' = IF dialer.attempt = NoDial THEN [dials EXCEPT ![a] = "running"] ELSE dials
        /\ dialer' = [dialer EXCEPT !.attempt = a]
        /\ read' = [read EXCEPT ![r].pc = "dialling", ![r].dial = a, ![r].joined = dials'[a]]
        /\ disc' = disc
    BY <1>5, <2>1 DEF Get
  <2>3. /\ a \in Dials /\ dials[a] \in {"none", "running"}
        /\ dialer.attempt = NoDial => dials[a] = "none"
        /\ dialer.attempt # NoDial => dials[a] = "running" /\ dialer.attempt = a
    <3>1. CASE dialer.attempt = NoDial
      <4>1. free # {} /\ free \subseteq Dials
        BY <1>1, <1>5, <3>1, FreeDial
      <4>2. Min(free) \in free
        BY <4>1, FirstDial
      <4> QED
        BY <2>1, <3>1, <4>2
    <3>2. CASE dialer.attempt # NoDial
      BY <1>1, <2>1, <3>2 DEF Dialled
    <3> QED
      BY <3>1, <3>2
  <2> HIDE DEF first, free
  <2>4. a # NoDial /\ NoDial \notin Dials
    BY <2>3 DEF Dials, NoDial
  <2>5. /\ dials' \in [Dials -> {"none", "running", "dialled", "refused", "ok", "failed"}]
        /\ dials'[a] = "running" /\ \A b \in Dials \ {a} : dials'[b] = dials[b]
    BY <1>1, <2>2, <2>3 DEF Dialled
  <2>6. dialer' = [reader |-> FALSE, attempt |-> a] /\ dialer'.reader = FALSE /\ dialer'.attempt = a
    BY <1>1, <1>5, <2>2 DEF Dialled
  <2>7. PICK d : d = [read[r] EXCEPT !.pc = "dialling", !.dial = a, !.joined = "running"]
    OBVIOUS
  <2>8. /\ d \in ReadStates /\ d.pc = "dialling" /\ d.dial = a /\ d.joined = "running"
        /\ d.why = "none"
    BY <1>2, <2>3, <2>7 DEF ReadStates
  <2>9. read' = [read EXCEPT ![r] = d]
    <3>1. read' = [read EXCEPT ![r].pc = "dialling", ![r].dial = a, ![r].joined = "running"]
      BY <2>2, <2>5
    <3> QED
      BY <1>1, <2>7, <3>1 DEF Joined
  <2>10. Sound(r, d)'
    BY <1>1, <1>2, <2>2, <2>4, <2>8 DEF Sound
  <2>11. \A b \in Dials : dials[b] = "failed" => dials'[b] = "failed"
    BY <2>3, <2>5
  <2>12. Joined'
    BY <1>1, <2>2, <2>8, <2>9, <2>10, <2>11, MoveJoined
  <2>13. read'[r] = d /\ \A q \in Reads \ {r} : read'[q] = read[q]
    BY <1>1, <2>9 DEF Joined
  <2>14. Answered'
    BY <1>1, <2>13, AnswersKept
  <2>15. Dialled'
    <3>1. \A b \in Dials : dials'[b] = "running" <=> dialer'.attempt = b
      BY <1>1, <2>3, <2>4, <2>5, <2>6 DEF Dialled
    <3>2. \A b \in Dials : dials'[b] \in {"dialled", "ok"} <=> dials[b] \in {"dialled", "ok"}
      BY <2>3, <2>5
    <3>3. ASSUME NEW b \in Dials, dials'[b] \in {"running", "refused", "failed"}
          PROVE  \E q \in Reads : read'[q].dial = b
      <4>1. CASE b = a
        BY <2>8, <2>13, <4>1
      <4>2. CASE b # a
        <5>1. dials[b] \in {"running", "refused", "failed"}
          BY <2>5, <3>3, <4>2
        <5>2. PICK q \in Reads : read[q].dial = b
          BY <1>1, <5>1 DEF Dialled
        <5>3. q # r
          BY <1>2, <2>4, <5>2
        <5> QED
          BY <2>13, <5>2, <5>3
      <4> QED
        BY <4>1, <4>2
    <3>4. dialer' \in [reader : BOOLEAN, attempt : Dials \cup {NoDial}]
      BY <2>3, <2>6
    <3>5. ~ \E b \in Dials : dials'[b] \in {"dialled", "ok"}
      BY <1>1, <1>5, <3>2 DEF Dialled
    <3> QED
      BY <2>5, <2>6, <3>1, <3>3, <3>4, <3>5 DEF Dialled
  <2>16. Navi'
    BY <1>1, <2>2 DEF Navi, World, Cached, Discoveries, Walked
  <2> QED
    BY <1>1, <2>12, <2>14, <2>15, <2>16 DEF Inv
<1> QED
  BY <1>3, <1>4, <1>5

\* A read that is told of its dial, or leaves it.
LEMMA AwaitStep == ASSUME Inv, NEW r \in Reads, Await(r) PROVE Inv'
<1>1. /\ Navi /\ Joined /\ Dialled /\ Answered /\ read[r].pc = "dialling"
      /\ UNCHANGED <<world, cache, gate, dialer, dials, cut, response>>
  BY DEF Inv, Await
<1>2. disc[r].pc = "idle"
  BY <1>1 DEF Joined, Sound
<1>3. CASE dials[read[r].dial] = "ok" /\ WithReader(r)
  <2>1. Joined' /\ Dialled' /\ Answered'
    BY <1>1, <1>3, EnterRead
  <2>2. Navi'
    BY <1>1, <1>2, <1>3, BlankNavi DEF WithReader
  <2> QED
    BY <1>1, <2>1, <2>2 DEF Inv
<1>4. ASSUME NEW why \in {"dial", "cut"}, Failed(r, why), disc' = disc,
             why = "dial" => dials[read[r].dial] = "failed", why = "cut" => ScanOf[r] \in cut
      PROVE  Inv'
  <2>1. Joined' /\ Dialled' /\ Answered'
    BY <1>1, <1>4, FailRead
  <2>2. Navi'
    BY <1>1, <1>4 DEF Navi, World, Cached, Discoveries, Walked
  <2> QED
    BY <1>1, <2>1, <2>2 DEF Inv
<1> QED
  BY <1>3, <1>4 DEF Await

\* A step of the discovery of a read.
LEMMA LoadStep == ASSUME Inv, NEW r \in Reads, Load(r) PROVE Inv'
<1>1. /\ Navi /\ Joined /\ Dialled /\ Answered /\ read[r].pc = "loading" /\ loadNavi(r)
      /\ UNCHANGED <<dialer, dials, read, cut, response>>
  BY DEF Inv, Load, suiVars
<1>2. Navi'
  BY <1>1, LoadNavi
<1>3. Joined'
  <2>1. ASSUME NEW q \in Reads PROVE Sound(q, read[q])'
    <3>1. PICK e \in ReadStates : e = read[q]
      BY <1>1 DEF Joined
    <3>2. Sound(q, e)
      BY <1>1, <3>1 DEF Joined
    <3>3. disc'[q].pc = disc[q].pc \/ e.pc = "loading"
      BY <1>1, <3>1, LoadOwn
    <3>4. Sound(q, e)'
      BY <1>1, <3>2, <3>3, SoundKept
    <3> QED
      BY <1>1, <3>1, <3>4
  <2> QED
    BY <1>1, <2>1 DEF Joined
<1>4. Dialled' /\ Answered'
  BY <1>1, DialsKept, AnswersKept
<1> QED
  BY <1>1, <1>2, <1>3, <1>4 DEF Inv

\* The end of a read of the node.
LEMMA HeadsStep == ASSUME Inv, NEW r \in Reads, ReadHeads(r) PROVE Inv'
<1>1. /\ Navi /\ Joined /\ Dialled /\ Answered /\ read[r].pc = "loading"
      /\ disc' = [disc EXCEPT ![r] = [pc |-> "over"]]
      /\ UNCHANGED <<world, cache, gate, dialer, dials, cut, response>>
      /\ disc[r].pc # "walk"
  BY DEF Inv, ReadHeads
<1>2. Navi'
  BY <1>1, BlankNavi
<1>3. \A q \in Reads \ {r} : disc'[q] = disc[q]
  BY <1>1 DEF Navi, Discoveries
<1>4. \/ Failed(r, "head")
      \/ \E part, holds \in BOOLEAN :
            read' = [read EXCEPT ![r].pc = "ok", ![r].partial = part, ![r].holds = holds]
  BY DEF ReadHeads
<1>5. CASE Failed(r, "head")
  <2>1. Joined' /\ Dialled' /\ Answered'
    BY <1>1, <1>3, <1>5, FailRead
  <2> QED
    BY <1>1, <1>2, <2>1 DEF Inv
<1>6. ASSUME NEW part \in BOOLEAN, NEW holds \in BOOLEAN,
             read' = [read EXCEPT ![r].pc = "ok", ![r].partial = part, ![r].holds = holds]
      PROVE  Inv'
  <2>1. PICK d : d = [read[r] EXCEPT !.pc = "ok", !.partial = part, !.holds = holds]
    OBVIOUS
  <2>2. read[r] \in ReadStates
    BY <1>1 DEF Joined
  <2>3. /\ d \in ReadStates /\ d.pc = "ok" /\ d.why = read[r].why
        /\ d.dial = read[r].dial /\ d.joined = read[r].joined
    BY <2>1, <2>2 DEF ReadStates
  <2>4. read' = [read EXCEPT ![r] = d]
    BY <1>1, <1>6, <2>1 DEF Joined
  <2>5. /\ d.why = "none"
        /\ d.dial # NoDial => d.joined = "running" /\ RouteOf[r] = "navi"
    BY <1>1, <2>3 DEF Joined, Sound
  <2>6. Sound(r, d)'
    BY <2>3, <2>5 DEF Sound
  <2>7. Joined' /\ Dialled' /\ Answered'
    BY <1>1, <1>3, <2>3, <2>4, <2>6, MoveRead
  <2> QED
    BY <1>1, <1>2, <2>7 DEF Inv
<1> QED
  BY <1>4, <1>5, <1>6

\* A dial that ends, and the telling of it.
LEMMA DialStep == ASSUME Inv, NEW a \in Dials, DialEnds(a) \/ DialTold(a) PROVE Inv'
<1>1. /\ Navi /\ Joined /\ Dialled /\ Answered
      /\ UNCHANGED <<naviVars, read, cut, response>>
  BY DEF Inv, DialEnds, DialTold
<1>2. Navi'
  BY <1>1 DEF naviVars, Navi, World, Cached, Discoveries, Walked
<1>3. Answered'
  BY <1>1, AnswersKept
<1>4. \/ /\ dials[a] = "running" /\ dials' = [dials EXCEPT ![a] = "dialled"]
         /\ dialer' = [reader |-> TRUE, attempt |-> NoDial]
      \/ /\ dials[a] = "running" /\ dials' = [dials EXCEPT ![a] = "refused"]
         /\ dialer' = [reader |-> FALSE, attempt |-> NoDial]
      \/ /\ dials[a] = "dialled" /\ dials' = [dials EXCEPT ![a] = "ok"] /\ dialer' = dialer
      \/ /\ dials[a] = "refused" /\ dials' = [dials EXCEPT ![a] = "failed"] /\ dialer' = dialer
  BY DEF DialEnds, DialTold, Record
<1>5. \A b \in Dials \ {a} : dials'[b] = dials[b]
  BY <1>1, <1>4 DEF Dialled
<1>6. \A b \in Dials : dials[b] = "failed" => dials'[b] = "failed"
  BY <1>4, <1>5
<1>7. Joined'
  <2>1. ASSUME NEW q \in Reads PROVE Sound(q, read[q])'
    <3>1. PICK e \in ReadStates : e = read[q]
      BY <1>1 DEF Joined
    <3>2. Sound(q, e)'
      BY <1>1, <1>6, <3>1, SoundKept DEF Joined, naviVars
    <3> QED
      BY <1>1, <3>1, <3>2
  <2> QED
    BY <1>1, <2>1 DEF Joined
<1>8. NoDial \notin Dials
  BY DEF Dials, NoDial
<1>9. Dialled'
  <2>1. dials' \in [Dials -> {"none", "running", "dialled", "refused", "ok", "failed"}]
    BY <1>1, <1>4 DEF Dialled
  <2>2. CASE dials[a] = "running"
    <3>1. /\ dialer.attempt = a /\ ~dialer.reader
          /\ \A b \in Dials : dials[b] \notin {"dialled", "ok"}
      BY <1>1, <1>8, <2>2 DEF Dialled
    <3>2. \/ dials'[a] = "dialled" /\ dialer' = [reader |-> TRUE, attempt |-> NoDial]
          \/ dials'[a] = "refused" /\ dialer' = [reader |-> FALSE, attempt |-> NoDial]
      BY <1>1, <1>4, <2>2 DEF Dialled
    <3>3. \A b \in Dials \ {a} : dials'[b] # "running"
      BY <1>1, <1>5, <3>1 DEF Dialled
    <3>4. \A b \in Dials : dials'[b] \in {"running", "refused", "failed"} =>
             \E q \in Reads : read'[q].dial = b
      BY <1>1, <1>5, <2>2 DEF Dialled
    <3>5. \A b \in Dials \ {a} : dials'[b] \notin {"dialled", "ok"}
      BY <1>5, <3>1
    <3>6. CASE dials'[a] = "dialled" /\ dialer' = [reader |-> TRUE, attempt |-> NoDial]
      <4>1. dialer'.reader = TRUE /\ dialer'.attempt = NoDial
        BY <3>6
      <4>2. dialer' \in [reader : BOOLEAN, attempt : Dials \cup {NoDial}]
        BY <3>6
      <4> QED
        BY <1>8, <2>1, <3>3, <3>4, <3>5, <3>6, <4>1, <4>2 DEF Dialled
    <3>7. CASE dials'[a] = "refused" /\ dialer' = [reader |-> FALSE, attempt |-> NoDial]
      <4>1. dialer'.reader = FALSE /\ dialer'.attempt = NoDial
        BY <3>7
      <4>2. dialer' \in [reader : BOOLEAN, attempt : Dials \cup {NoDial}]
        BY <3>7
      <4> QED
        BY <1>8, <2>1, <3>3, <3>4, <3>5, <3>7, <4>1, <4>2 DEF Dialled
    <3> QED
      BY <3>2, <3>6, <3>7
  <2>3. CASE dials[a] # "running"
    <3>1. /\ dialer' = dialer
          /\ \/ dials[a] = "dialled" /\ dials'[a] = "ok"
             \/ dials[a] = "refused" /\ dials'[a] = "failed"
      BY <1>1, <1>4, <2>3 DEF Dialled
    <3>2. \A b \in Dials : (dials'[b] \in {"dialled", "ok"}) <=> (dials[b] \in {"dialled", "ok"})
      BY <1>5, <3>1
    <3>3. \A b \in Dials : (dials'[b] = "running") <=> (dials[b] = "running")
      BY <1>5, <3>1
    <3>4. \A b \in Dials : dials'[b] \in {"running", "refused", "failed"} =>
             dials[b] \in {"running", "refused", "failed"}
      BY <1>5, <3>1
    <3>5. /\ \A b \in Dials : dials'[b] = "running" <=> dialer'.attempt = b
          /\ dialer' \in [reader : BOOLEAN, attempt : Dials \cup {NoDial}]
          /\ dialer'.reader => dialer'.attempt = NoDial
      BY <1>1, <3>1, <3>3 DEF Dialled
    <3>6. dialer'.reader <=> \E b \in Dials : dials'[b] \in {"dialled", "ok"}
      BY <1>1, <3>1, <3>2 DEF Dialled
    <3>7. \A b, c \in Dials : dials'[b] \in {"dialled", "ok"} /\ dials'[c] \in {"dialled", "ok"} => b = c
      BY <1>1, <3>2 DEF Dialled
    <3>8. \A b \in Dials : dials'[b] \in {"running", "refused", "failed"} =>
             \E q \in Reads : read'[q].dial = b
      BY <1>1, <3>4 DEF Dialled
    <3> QED
      BY <2>1, <3>5, <3>6, <3>7, <3>8 DEF Dialled
  <2> QED
    BY <2>2, <2>3
<1> QED
  BY <1>1, <1>2, <1>3, <1>7, <1>9 DEF Inv

\* The end of a scan's time for its reads.
LEMMA TimeStep == ASSUME Inv, NEW s \in Scans, ReadsOutOfTime(s) PROVE Inv'
<1>1. /\ Navi /\ Joined /\ Dialled /\ Answered /\ cut' = cut \cup {s}
      /\ UNCHANGED <<naviVars, dialer, dials, read, response>>
  BY DEF Inv, ReadsOutOfTime
<1>2. Navi'
  BY <1>1 DEF naviVars, Navi, World, Cached, Discoveries, Walked
<1>3. Joined'
  BY <1>1 DEF naviVars, Joined, Sound
<1>4. Dialled' /\ Answered'
  BY <1>1, DialsKept, AnswersKept
<1> QED
  BY <1>1, <1>2, <1>3, <1>4 DEF Inv

\* A response values every read as it ended.
LEMMA ReturnStep == ASSUME Inv, NEW s \in Scans, Return(s) PROVE Inv'
<1>1. /\ Navi /\ Joined /\ Dialled /\ Answered /\ DOMAIN response = Scans
      /\ \A r \in ReadsOf(s) : read[r].pc \in {"ok", "failed"}
      /\ UNCHANGED <<naviVars, dialer, dials, read, cut>>
  BY DEF Inv, Return
<1>2. Navi' /\ Joined'
  BY <1>1 DEF naviVars, Navi, World, Cached, Discoveries, Walked, Joined, Sound
<1>3. Dialled'
  BY <1>1, DialsKept
<1>4. PICK answered \in SUBSET {read[r].at : r \in {q \in ReadsOf(s) : read[q].holds}},
           late \in BOOLEAN,
           refused \in SUBSET {r \in ReadsOf(s) : read[r].pc = "ok" /\ read[r].holds} :
        response' = [response EXCEPT ![s] =
              [quotable |-> IF late THEN {} ELSE answered,
               refused |-> refused,
               of |-> [r \in ReadsOf(s) |-> Valued(r, quote(s, late, answered), refused)]]]
  BY Zenon DEF Return
<1>5. PICK Q : Q = quote(s, late, answered)
  OBVIOUS
<1>6. response' = [response EXCEPT ![s] =
              [quotable |-> Q, refused |-> refused,
               of |-> [r \in ReadsOf(s) |-> Valued(r, Q, refused)]]]
  BY <1>4, <1>5 DEF quote
<1>7. PICK V : V = [r \in ReadsOf(s) |-> Valued(r, Q, refused)]
  OBVIOUS
<1>8. /\ response'[s].quotable = Q /\ response'[s].refused = refused /\ response'[s].of = V /\ DOMAIN response' = Scans
      /\ \A u \in Scans \ {s} : response'[u] = response[u]
  <2>1. PICK R : R = [quotable |-> Q, refused |-> refused, of |-> V]
    OBVIOUS
  <2>2. response' = [response EXCEPT ![s] = R]
    BY <1>6, <1>7, <2>1
  <2>3. /\ response'[s] = R /\ DOMAIN response' = Scans
        /\ \A u \in Scans \ {s} : response'[u] = response[u]
    BY <1>1, <2>2
  <2> QED
    BY <2>1, <2>3
<1>9. \A r, P, R : Valued(r, P, R)' = Valued(r, P, R)
  BY <1>1 DEF Valued, Unpriced
<1>10. Answered'
  <2>1. ASSUME NEW u \in Scans, response'[u] # <<>>, NEW r \in ReadsOf(u), u # s
        PROVE  read'[r].pc \in {"ok", "failed"} 
               /\ response'[u].of[r] = Valued(r, response'[u].quotable, response'[u].refused)
    BY <1>1, <1>8, <2>1 DEF Answered
  <2>2. ASSUME NEW r \in ReadsOf(s)
        PROVE  read'[r].pc \in {"ok", "failed"} 
               /\ response'[s].of[r] = Valued(r, response'[s].quotable, response'[s].refused)
    BY <1>1, <1>7, <1>8
  <2> QED
    BY <1>9, <2>1, <2>2 DEF Answered
<1> QED
  BY <1>2, <1>3, <1>8, <1>10 DEF Inv

\* A step of the chain.
LEMMA ChainStep == ASSUME Inv, Chain PROVE Inv'
<1>1. /\ Navi /\ Joined /\ Dialled /\ Answered /\ Transact
      /\ UNCHANGED <<dialer, dials, read, cut, response>>
  BY DEF Inv, Chain, suiVars
<1>2. Navi'
  BY <1>1, ChainNavi
<1>3. disc' = disc
  BY <1>1 DEF Transact
<1>4. Joined'
  BY <1>1, <1>3 DEF Joined, Sound
<1>5. Dialled' /\ Answered'
  BY <1>1, DialsKept, AnswersKept
<1> QED
  BY <1>1, <1>2, <1>4, <1>5 DEF Inv

\* The scans begin in the invariant.
LEMMA InitInv == ASSUME Init PROVE Inv
<1>1. World
  <2>1. PICK f \in [0..MaxMarkets -> Nat] :
          world = <<[counter |-> 0, version |-> 1, reserves |-> f]>>
    <3>1. [m \in 0..MaxMarkets |-> IF m = Main THEN 1 ELSE 0] \in [0..MaxMarkets -> Nat]
      OBVIOUS
    <3> QED
      BY <3>1 DEF Init, NaviInit
  <2>2. PICK s : s = [counter |-> 0, version |-> 1, reserves |-> f]
    OBVIOUS
  <2>3. s \in States /\ s.counter = 0 /\ s.version = 1
    BY <2>2 DEF States
  <2>4. world = <<s>> /\ world \in Seq(States) /\ Len(world) = 1 /\ world[1] = s
    BY <2>1, <2>2, <2>3
  <2>5. 0 =< MaxMarkets /\ 1 \in 1..1
    BY NaviAssumption
  <2>6. \A i \in 1..Len(world) : i = 1
    BY <2>4
  <2> QED
    BY <2>3, <2>4, <2>5, <2>6 DEF World
<1>2. Cached
  BY DEF Init, NaviInit, Cached
<1>3. Discoveries
  BY SuiAssumption DEF Init, NaviInit, Discoveries, Idle, Blank
<1>4. /\ read = [r \in Reads |-> NotAsked] /\ cut = {} /\ disc = [r \in Reads |-> Idle]
      /\ dialer = [reader |-> FALSE, attempt |-> NoDial] /\ dials = [a \in Dials |-> "none"]
      /\ response = [s \in Scans |-> <<>>]
  BY DEF Init, NaviInit
<1>5. Joined
  <2>1. NotAsked \in ReadStates
    BY DEF NotAsked, ReadStates
  <2>2. \A r \in Reads : read[r] = NotAsked /\ disc[r].pc = "idle"
    BY <1>4 DEF Idle
  <2>3. \A r \in Reads : Sound(r, NotAsked)
    BY <2>2 DEF Sound, NotAsked
  <2> QED
    BY <1>4, <2>1, <2>2, <2>3 DEF Joined
<1>6. Dialled
  <2>1. NoDial \notin Dials
    BY DEF Dials, NoDial
  <2> QED
    BY <1>4, <2>1 DEF Dialled
<1>7. Answered /\ DOMAIN response = Scans
  BY <1>4 DEF Answered
<1> QED
  BY <1>1, <1>2, <1>3, <1>5, <1>6, <1>7 DEF Inv, Navi

\* Every step keeps the invariant.
LEMMA NextInv == ASSUME Inv, [Next]_vars PROVE Inv'
<1>1. CASE UNCHANGED vars
  <2>1. UNCHANGED <<naviVars, dialer, dials, read, cut, response>>
    BY <1>1 DEF vars, suiVars
  <2>2. Navi' /\ Joined'
    BY <2>1 DEF Inv, naviVars, Navi, World, Cached, Discoveries, Walked, Joined, Sound
  <2>3. Dialled' /\ Answered'
    BY <2>1, DialsKept, AnswersKept DEF Inv
  <2> QED
    BY <2>1, <2>2, <2>3 DEF Inv
<1> QED
  BY <1>1, ChainStep, TimeStep, ReturnStep, DialStep, IndexStep, GetStep, AwaitStep, LoadStep,
     HeadsStep DEF Next, ReadStep

-----------------------------------------------------------------------------
(* What follows.                                                           *)

\* The invariant holds of every run of the engine.
THEOREM Invariant == Spec => []Inv
  BY InitInv, NextInv, PTL DEF Spec

\* Reads share a dial without sharing their fates (suiNodeDialer).
THEOREM DialsApart == Spec => []DialNotInherited
<1>1. Inv => DialNotInherited
  <2> SUFFICES ASSUME Inv PROVE DialNotInherited
    OBVIOUS
  <2>1. ASSUME NEW S, \A a, b \in S : a = b PROVE Cardinality(S) =< 1
    <3>1. CASE S = {}
      BY <3>1, FS_EmptySet
    <3>2. CASE S # {}
      <4>1. PICK a : S = {a}
        BY <2>1, <3>2
      <4> QED
        BY <4>1, FS_Singleton
    <3> QED
      BY <3>1, <3>2
  <2>2. Cardinality({a \in Dials : dials[a] = "running"}) =< 1
    <3>1. \A a, b \in {c \in Dials : dials[c] = "running"} : a = b
      BY DEF Inv, Dialled
    <3> QED
      BY <2>1, <3>1
  <2>3. Cardinality({a \in Dials : dials[a] \in {"dialled", "ok"}}) =< 1
    <3>1. \A a, b \in {c \in Dials : dials[c] \in {"dialled", "ok"}} : a = b
      BY DEF Inv, Dialled
    <3> QED
      BY <2>1, <3>1
  <2>4. \A r \in Reads : Sound(r, read[r])
    BY DEF Inv, Joined
  <2>5. dialer.reader <=> \E a \in Dials : dials[a] \in {"dialled", "ok"}
    BY DEF Inv, Dialled
  <2> QED
    BY <2>2, <2>3, <2>4, <2>5 DEF DialNotInherited, Sound
<1> QED
  BY Invariant, <1>1, PTL

\* The cache and the reads have exactly the markets there were (discoverNaviMarkets).
THEOREM MarketsAreExact == Spec => []MarketsExact
<1>1. Inv => MarketsExact
  BY DEF Inv, Navi, Cached, Discoveries, MarketsExact
<1> QED
  BY Invariant, <1>1, PTL

\* Every selected protocol is read or said not to be, and what is held is priced or
\* said not to be (scanLatest, valueRead).
THEOREM LatestAccounted == Spec => []LatestAccountedFor
<1>1. Inv => LatestAccountedFor
  <2> SUFFICES ASSUME Inv, NEW s \in Scans, response[s] # <<>>, NEW r \in ReadsOf(s)
               PROVE  LET a      == response[s].of[r]
                          valued == a.read /\ r \notin response[s].refused
                      IN  /\ ~valued => "protocol" \in a.errors /\ ~a.snapshot
                          /\ a.read /\ read[r].partial => "protocol" \in a.errors
                          /\ valued /\ RouteOf[r] = "index" => a.snapshot
                          /\ valued /\ read[r].holds /\ ~a.priced => "pricing" \in a.errors
                          /\ valued /\ read[r].holds /\ read[r].at \in response[s].quotable => a.priced
    BY DEF LatestAccountedFor
  <2>1. PICK Q, R : Q = response[s].quotable /\ R = response[s].refused
    OBVIOUS
  <2>2. PICK a : a = response[s].of[r]
    OBVIOUS
  <2>3. a = Valued(r, Q, R)
    BY <2>1, <2>2 DEF Inv, Answered
  <2>6. PICK ok, valued \in BOOLEAN :
           ok = (read[r].pc = "ok") /\ valued = (ok /\ r \notin R)
    OBVIOUS
  <2>4. /\ a.read = ok
        /\ a.snapshot = (valued /\ (read[r].holds \/ RouteOf[r] = "index"))
        /\ a.priced = (valued /\ read[r].holds /\ ~Unpriced(r, Q))
        /\ a.errors = (IF valued /\ ~read[r].partial THEN {} ELSE {"protocol"})
                         \cup (IF ok /\ Unpriced(r, Q) THEN {"pricing"} ELSE {})
    BY <2>3, <2>6 DEF Valued
  <2>5. Unpriced(r, Q) <=> read[r].holds /\ read[r].at \notin Q
    BY DEF Unpriced
  <2> QED
    BY <2>1, <2>2, <2>4, <2>5, <2>6
<1> QED
  BY Invariant, <1>1, PTL
=============================================================================
