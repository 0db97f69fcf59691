--------------------------- MODULE IndexReadProofs ---------------------------
(***************************************************************************)
(* IndexRead proved for any chains, pins, streams, page sizes and lanes,   *)
(* and any histories that HistoryAssumption and RewriteAssumption allow: a *)
(* read at a fixed pin is exact, and a live read misses only what it says. *)
(***************************************************************************)
EXTENDS IndexRead, FiniteSetTheorems, WellFoundedInduction, TLAPS

-----------------------------------------------------------------------------
(* The inductive invariant.                                                *)

\* The blocks at which chain c may be asked.
Askable(c) == Least(Pin[c], Caught[c])..Pin[c]

Before == {"idle", "again"}
Asking == {"presence", "probe"}
Paging == {"pages", "paging"}
Looking == {"lookups", "looking"}

\* What version v of the index of chain c says at block q.
Rows(c, v, q) == RowsAt(indexed[c][v], q)
Checkpoint(c, v, q) == CheckpointAt(indexed[c][v], q)

\* The streams the read of chain c has opened.
Opened(c) == IF pc[c] \in Looking \cup {"looked"} THEN Streams \cup Lookups ELSE Streams

\* A live read without a lag note was made near enough the pin.
NearPin(c, q) == c \notin Fixed => Pin[c] - MaxLag <= q

\* What is admitted is a part of rows: of each stream the first ones, and all of
\* a stream read to its end.
Holds(c, rows) ==
    /\ got[c] \subseteq rows
    /\ \A t \in got[c] : t[1] \in Opened(c)
    /\ \A t \in got[c], r \in rows : r[1] = t[1] /\ r[2] <= t[2] => r \in got[c]
    /\ \A r \in rows : r[1] \in Opened(c) \ todo[c] => r \in got[c]
    /\ \A s \in todo[c] : Cardinality(Taken(c, s)) <= MaxRows

\* Nothing has been admitted yet.
Fresh(c) == want[c] = {} /\ got[c] = {} /\ todo[c] = Streams /\ ~lag[c]

\* All pages so far are of one version as far as block query[c] goes.
OfOneVersion(c) ==
    \E v \in 1..version[c] :
        /\ want[c] = {Checkpoint(c, v, query[c])}
        /\ Holds(c, Rows(c, v, query[c]))
        /\ ~lag[c] => NearPin(c, query[c])

\* The read of chain c.
ReadOf(c) ==
    /\ pc[c] \notin Before \cup {"failed"} =>
           query[c] \in Askable(c) /\ (c \in Fixed => query[c] = Pin[c])
    /\ pc[c] \in Before \cup Asking => Fresh(c)
    /\ pc[c] \in Paging => todo[c] \subseteq Streams /\ (Fresh(c) \/ OfOneVersion(c))
    /\ pc[c] \in Looking => todo[c] \subseteq Lookups /\ OfOneVersion(c)
    /\ Answered(c) => todo[c] = {} /\ OfOneVersion(c)

\* A proof of emptiness for chain c.
ProofOf(c) ==
    \A p \in proof[c] :
        /\ p.query \in Askable(c) /\ NearPin(c, p.query)
        /\ \E v \in 1..version[c] :
               /\ p.checkpoint = Checkpoint(c, v, p.query)
               /\ \A r \in Rows(c, v, p.query) : r[1] \notin Streams

\* The probe: who sends it and at which blocks.
ProbeOf ==
    /\ \A c \in Chains : target[c] # 0 => target[c] \in Askable(c)
    /\ owner \in Chains => pc[owner] = "probe"

\* The types, those TypeOK leaves to what is indexed included.
Types ==
    /\ TypeOK /\ IsFiniteSet(lane)
    /\ DOMAIN want = Chains /\ DOMAIN got = Chains /\ DOMAIN proof = Chains
    /\ indexed \in Histories

Inv ==
    /\ Types
    /\ ProbeOf
    /\ \A c \in Chains : ReadOf(c) /\ ProofOf(c)

-----------------------------------------------------------------------------
(* Pages.                                                                  *)

\* A set of natural numbers has a least element.
LEMMA LeastOf ==
    ASSUME NEW S \in SUBSET Nat, S # {}
    PROVE  \E x \in S : \A y \in S : x <= y
<1>1. PICK x \in S : \A y \in S : ~(<<y, x>> \in OpToRel(<, Nat))
  BY WFMin, NatLessThanWellFounded
<1>2. ASSUME NEW y \in S PROVE x <= y
  <2>1. ~(y < x)
    BY <1>1 DEF OpToRel
  <2> QED
    BY <2>1
<1> QED
  BY <1>2

\* A bounded set of natural numbers has a greatest element.
LEMMA GreatestOf ==
    ASSUME NEW n \in Nat, NEW S \in SUBSET (0..n), S # {}
    PROVE  \E x \in S : \A y \in S : x >= y
<1> DEFINE T == {n - x : x \in S}
<1>1. T \in SUBSET Nat /\ T # {}
  <2>1. \A x \in S : n - x \in Nat
    OBVIOUS
  <2> QED
    BY <2>1
<1> HIDE DEF T
<1>2. PICK t \in T : \A u \in T : t <= u
  BY <1>1, LeastOf
<1>3. PICK x \in S : t = n - x
  BY DEF T
<1>4. ASSUME NEW y \in S PROVE x >= y
  <2>1. n - y \in T
    BY DEF T
  <2>2. n - x <= n - y
    BY <1>2, <1>3, <2>1
  <2>3. x \in 0..n /\ y \in 0..n
    OBVIOUS
  <2> QED
    BY <2>2, <2>3
<1> QED
  BY <1>4

\* A checkpoint's block is a block.
LEMMA CheckpointBlock ==
    ASSUME NEW h, h.checkpoints \subseteq Nat, NEW q \in Nat
    PROVE  CheckpointAt(h, q).block \in Nat
<1> DEFINE by == {b \in h.checkpoints : b <= q}
<1>1. CASE by = {}
  BY <1>1 DEF CheckpointAt
<1>2. CASE by # {}
  <2>1. by \in SUBSET (0..q)
    OBVIOUS
  <2>2. \E x \in by : \A y \in by : x >= y
    BY <1>2, <2>1, GreatestOf
  <2>3. Max(by) \in by
    BY <2>2 DEF Max
  <2> QED
    BY <1>2, <2>1, <2>3 DEF CheckpointAt
<1> QED
  BY <1>1, <1>2

\* Row r's place among the rows of left.
Place(left, r) == Cardinality({t \in left : t[2] < r[2]})

\* The first n of a set of rows of one stream: no more than n, all there are if
\* fewer than n, and no gap.
LEMMA FirstRows ==
    ASSUME NEW left, IsFiniteSet(left), NEW n \in Nat,
           \A r \in left : r[2] \in Nat,
           \A r, t \in left : r[2] = t[2] => r = t,
           NEW page, page = {r \in left : Place(left, r) < n}
    PROVE  /\ page \subseteq left /\ IsFiniteSet(page)
           /\ Cardinality(page) \in Nat /\ Cardinality(page) <= n
           /\ Cardinality(page) # n => page = left
           /\ \A t \in page, r \in left : r[2] <= t[2] => r \in page
<1> DEFINE below(r) == {t \in left : t[2] < r[2]}
<1>1. \A r \in left : /\ IsFiniteSet(below(r)) /\ Cardinality(below(r)) \in Nat
                      /\ Place(left, r) = Cardinality(below(r))
  BY FS_Subset, FS_CardinalityType DEF Place
<1>2. \A r, t \in left : t \in below(r) <=> t[2] < r[2]
  OBVIOUS
<1>3. \A r \in left : below(r) \subseteq left /\ r \notin below(r)
  OBVIOUS
<1> HIDE DEF below
<1>4. page \subseteq left /\ IsFiniteSet(page) /\ Cardinality(page) \in Nat
  BY FS_Subset, FS_CardinalityType
<1>5. ASSUME NEW r \in left, NEW t \in left, r[2] <= t[2]
      PROVE  Place(left, r) <= Place(left, t)
  <2>1. below(r) \subseteq below(t)
    BY <1>5, <1>2, <1>3
  <2>2. Cardinality(below(r)) <= Cardinality(below(t))
    BY <1>1, <2>1, FS_Subset
  <2> QED
    BY <1>1, <2>2
<1>6. ASSUME NEW r \in left, NEW t \in left, r[2] < t[2]
      PROVE  Place(left, r) < Place(left, t)
  <2>1. below(r) \cup {r} \subseteq below(t) /\ r \notin below(r)
    BY <1>6, <1>2, <1>3
  <2>2. Cardinality(below(r) \cup {r}) = Cardinality(below(r)) + 1
    BY <1>1, <2>1, FS_AddElement
  <2>3. Cardinality(below(r) \cup {r}) <= Cardinality(below(t))
    BY <1>1, <2>1, FS_Subset
  <2> QED
    BY <1>1, <2>2, <2>3
<1>7. \A t \in page, r \in left : r[2] <= t[2] => r \in page
  <2> SUFFICES ASSUME NEW t \in page, NEW r \in left, r[2] <= t[2] PROVE r \in page
    OBVIOUS
  <2>1. Place(left, r) <= Place(left, t) /\ Place(left, t) < n
    BY <1>4, <1>5
  <2>2. Place(left, r) \in Nat /\ Place(left, t) \in Nat
    BY <1>1, <1>4
  <2> QED
    BY <2>1, <2>2
<1>8. Cardinality(page) <= n
  <2>1. CASE page = {}
    BY <2>1, FS_EmptySet
  <2>2. CASE page # {}
    <3> DEFINE places == {Place(left, r) : r \in page}
    <3>1. places \in SUBSET (0..n) /\ places # {}
      <4>1. \A r \in page : Place(left, r) \in 0..n
        BY <1>1, <1>4
      <4> QED
        BY <2>2, <4>1
    <3>2. PICK m \in page : \A r \in page : Place(left, m) >= Place(left, r)
      <4>1. PICK x \in places : \A y \in places : x >= y
        BY <3>1, GreatestOf
      <4> QED
        BY <4>1
    <3>3. \A r \in page : r[2] <= m[2]
      <4> SUFFICES ASSUME NEW r \in page, ~(r[2] <= m[2]) PROVE FALSE
        OBVIOUS
      <4>1. m[2] < r[2]
        BY <1>4
      <4>2. Place(left, m) < Place(left, r)
        BY <1>4, <1>6, <4>1
      <4>3. Place(left, m) \in Nat /\ Place(left, r) \in Nat /\ Place(left, m) >= Place(left, r)
        BY <1>1, <1>4, <3>2
      <4> QED
        BY <4>2, <4>3
    <3>4. page \subseteq below(m) \cup {m}
      <4> SUFFICES ASSUME NEW r \in page, r # m PROVE r[2] < m[2]
        BY <1>4, <1>2
      <4> QED
        BY <1>4, <3>3
    <3>5. /\ IsFiniteSet(below(m) \cup {m})
          /\ Cardinality(below(m) \cup {m}) = Cardinality(below(m)) + 1
      BY <1>1, <1>4, <1>3, FS_AddElement
    <3>6. Cardinality(page) <= Cardinality(below(m)) + 1
      BY <3>4, <3>5, FS_Subset
    <3>7. Cardinality(below(m)) < n /\ Cardinality(below(m)) \in Nat
      BY <1>1, <1>4
    <3> QED
      BY <1>4, <3>6, <3>7
  <2> QED
    BY <2>1, <2>2
<1>9. ASSUME page # left PROVE Cardinality(page) = n
  <2>1. PICK r \in left : r \notin page
    BY <1>4, <1>9
  <2> DEFINE out == {x[2] : x \in left \ page}
  <2>2. out \in SUBSET Nat /\ out # {}
    BY <2>1
  <2>3. PICK f \in left \ page : \A x \in left \ page : f[2] <= x[2]
    <3>1. PICK y \in out : \A z \in out : y <= z
      BY <2>2, LeastOf
    <3> QED
      BY <3>1
  <2>4. below(f) \subseteq page
    <3> SUFFICES ASSUME NEW t \in left, t[2] < f[2], t \notin page PROVE FALSE
      BY <1>2, <1>3
    <3> QED
      BY <2>3
  <2>5. Cardinality(below(f)) <= Cardinality(page)
    BY <1>4, <2>4, FS_Subset
  <2>6. n <= Cardinality(below(f)) /\ Cardinality(below(f)) \in Nat
    BY <1>1, <2>3
  <2> QED
    BY <1>4, <1>8, <2>5, <2>6
<1> QED
  BY <1>4, <1>7, <1>8, <1>9

-----------------------------------------------------------------------------
(* What a page admits.                                                     *)

\* The index of a chain holds finitely many rows, each of a stream of the read
\* and numbered in it.
LEMMA History ==
    ASSUME indexed \in Histories, NEW c \in Chains, NEW v \in 1..2, NEW q
    PROVE  /\ IsFiniteSet(Rows(c, v, q))
           /\ Rows(c, v, q) \subseteq (Streams \cup Lookups) \X Nat
           /\ indexed[c][v].checkpoints \subseteq Nat
<1>1. /\ indexed[c][v].checkpoints \subseteq Nat
      /\ IsFiniteSet(DOMAIN indexed[c][v].opened)
      /\ \A r \in DOMAIN indexed[c][v].opened : r \in (Streams \cup Lookups) \X Nat
  BY HistoryAssumption
<1>2. Rows(c, v, q) \subseteq DOMAIN indexed[c][v].opened
  BY DEF Rows, RowsAt
<1> QED
  BY <1>1, <1>2, FS_Subset

\* The page of stream s carries the next rows of the stream, and its last ones
\* when it is short.
LEMMA PageOf ==
    ASSUME TypeOK, indexed \in Histories, NEW c \in Chains, NEW s \in todo[c],
           Holds(c, RowsAt(Seen(c), query[c]))
    PROVE  /\ \A r \in Page(c, s) : r \in RowsAt(Seen(c), query[c]) /\ r[1] = s
           /\ \A r \in RowsAt(Seen(c), query[c]) :
                  /\ r[1] = s /\ Cardinality(Page(c, s)) # First(c, s)
                         => r \in got[c] \cup Page(c, s)
                  /\ \A t \in Page(c, s) : r[1] = s /\ r[2] <= t[2]
                         => r \in got[c] \cup Page(c, s)
<1> DEFINE rows == RowsAt(Seen(c), query[c])
           left == {r \in rows \ got[c] : r[1] = s /\ \A t \in Taken(c, s) : t[2] < r[2]}
<1>1. version[c] \in 1..2 /\ rows = Rows(c, version[c], query[c])
  BY DEF TypeOK, Rows, Seen
<1>2. IsFiniteSet(rows) /\ rows \subseteq (Streams \cup Lookups) \X Nat
  BY <1>1, History
<1>3. Page(c, s) = {r \in left : Place(left, r) < First(c, s)}
  BY DEF Page, Place
<1>4. \A r \in rows : r[1] = s => r \in got[c] \/ r \in left
  <2> SUFFICES ASSUME NEW r \in rows, r[1] = s, r \notin got[c],
                      NEW t \in Taken(c, s)
               PROVE  t[2] < r[2]
    OBVIOUS
  <2>1. t \in got[c] /\ t[1] = s /\ t \in rows
    BY DEF Taken, Holds
  <2>2. ~(r[2] <= t[2])
    BY <2>1 DEF Holds
  <2>3. r[2] \in Nat /\ t[2] \in Nat
    BY <1>2, <2>1
  <2> QED
    BY <2>2, <2>3
<1>5. IsFiniteSet(left) /\ left \subseteq rows
  BY <1>2, FS_Subset
<1>6. /\ \A r \in left : r[2] \in Nat
      /\ \A r, t \in left : r[2] = t[2] => r = t
  <2>1. \A r \in left : r \in (Streams \cup Lookups) \X Nat /\ r[1] = s
    BY <1>2
  <2>2. \A r \in left : r = <<s, r[2]>> /\ r[2] \in Nat
    BY <2>1
  <2> HIDE DEF left
  <2> QED
    BY <2>2
<1>7. First(c, s) \in Nat
  <2>1. IsFiniteSet(got[c])
    BY <1>2, FS_Subset DEF Holds
  <2>2. Cardinality(Taken(c, s)) \in Nat
    BY <2>1, FS_Subset, FS_CardinalityType DEF Taken
  <2>3. Cardinality(Taken(c, s)) <= MaxRows
    BY DEF Holds
  <2>4. MaxRows \in Nat /\ PageSize \in Nat
    BY IndexAssumption
  <2> QED
    BY <2>2, <2>3, <2>4 DEF First, Least
<1> HIDE DEF left, rows
<1>8. /\ Page(c, s) \subseteq left
      /\ Cardinality(Page(c, s)) # First(c, s) => Page(c, s) = left
      /\ \A t \in Page(c, s), r \in left : r[2] <= t[2] => r \in Page(c, s)
  BY <1>3, <1>5, <1>6, <1>7, FirstRows
<1>9. \A r \in left : r[1] = s
  BY DEF left
<1> QED
  BY <1>4, <1>5, <1>8, <1>9 DEF rows

\* The pages of all open streams together leave a read holding what it should.
LEMMA PagesHold ==
    ASSUME TypeOK, indexed \in Histories, NEW c \in Chains,
           NEW rows, rows = RowsAt(Seen(c), query[c]), Holds(c, rows),
           todo[c] \subseteq Opened(c), Opened(c)' = Opened(c),
           got'[c] = got[c] \cup UNION {Page(c, s) : s \in todo[c]},
           todo'[c] = {s \in todo[c] : Cardinality(Page(c, s)) = First(c, s)},
           ~\E s \in todo[c] : Cardinality(Taken(c, s) \cup Page(c, s)) > MaxRows
    PROVE  Holds(c, rows)'
<1>1. \A s \in todo[c] :
          /\ \A r \in Page(c, s) : r \in rows /\ r[1] = s
          /\ \A r \in rows : /\ r[1] = s /\ Cardinality(Page(c, s)) # First(c, s)
                                    => r \in got[c] \cup Page(c, s)
                             /\ \A t \in Page(c, s) : r[1] = s /\ r[2] <= t[2]
                                    => r \in got[c] \cup Page(c, s)
  BY PageOf
<1>2. \A t : t \in got'[c] <=> t \in got[c] \/ \E s \in todo[c] : t \in Page(c, s)
  OBVIOUS
<1>3. got'[c] \subseteq rows
  BY <1>1, <1>2 DEF Holds
<1>4. \A t \in got'[c] : t[1] \in Opened(c)'
  BY <1>1, <1>2 DEF Holds
<1>5. \A t \in got'[c], r \in rows : r[1] = t[1] /\ r[2] <= t[2] => r \in got'[c]
  <2> SUFFICES ASSUME NEW t \in got'[c], NEW r \in rows, r[1] = t[1], r[2] <= t[2]
               PROVE  r \in got'[c]
    OBVIOUS
  <2>1. CASE t \in got[c]
    BY <1>2, <2>1 DEF Holds
  <2>2. ASSUME NEW s \in todo[c], t \in Page(c, s) PROVE r \in got'[c]
    BY <1>1, <1>2, <2>2
  <2> QED
    BY <1>2, <2>1, <2>2
<1>6. \A r \in rows : r[1] \in Opened(c)' \ todo'[c] => r \in got'[c]
  <2> SUFFICES ASSUME NEW r \in rows, r[1] \in Opened(c), r[1] \notin todo'[c]
               PROVE  r \in got'[c]
    OBVIOUS
  <2>1. CASE r[1] \notin todo[c]
    BY <1>2, <2>1 DEF Holds
  <2>2. CASE r[1] \in todo[c]
    BY <1>1, <1>2, <2>2
  <2> QED
    BY <2>1, <2>2
<1>7. \A s \in todo'[c] : Cardinality(Taken(c, s)') <= MaxRows
  <2> SUFFICES ASSUME NEW s \in todo'[c] PROVE Cardinality(Taken(c, s)') <= MaxRows
    OBVIOUS
  <2>1. s \in todo[c]
    OBVIOUS
  <2>2. Taken(c, s)' = Taken(c, s) \cup Page(c, s)
    <3>1. Taken(c, s)' = {r \in got'[c] : r[1] = s} /\ Taken(c, s) = {r \in got[c] : r[1] = s}
      BY DEF Taken
    <3>2. \A r \in got'[c] : r[1] = s => r \in Taken(c, s) \cup Page(c, s)
      BY <1>1, <1>2, <3>1
    <3>3. \A r \in Taken(c, s) \cup Page(c, s) : r \in got'[c] /\ r[1] = s
      BY <1>1, <1>2, <2>1, <3>1
    <3> QED
      BY <3>1, <3>2, <3>3
  <2>3. IsFiniteSet(Taken(c, s)')
    <3>1. version[c] \in 1..2 /\ rows = Rows(c, version[c], query[c])
      BY DEF TypeOK, Rows, Seen
    <3>2. IsFiniteSet(rows)
      BY <3>1, History
    <3>3. Taken(c, s)' \subseteq rows
      BY <1>3 DEF Taken
    <3> QED
      BY <3>2, <3>3, FS_Subset
  <2>4. Cardinality(Taken(c, s)') \in Nat /\ MaxRows \in Nat
    BY <2>3, FS_CardinalityType, IndexAssumption
  <2>5. ~(Cardinality(Taken(c, s)') > MaxRows)
    BY <2>1, <2>2
  <2> QED
    BY <2>4, <2>5
<1> QED
  BY <1>3, <1>4, <1>5, <1>6, <1>7 DEF Holds

-----------------------------------------------------------------------------
(* Versions.                                                               *)

\* Two versions that agree on the checkpoint of a block that may be asked agree
\* on its rows.
LEMMA SameRows ==
    ASSUME indexed \in Histories, NEW c \in Chains, NEW v \in 1..2, NEW w \in 1..2,
           NEW q \in Askable(c), Checkpoint(c, v, q) = Checkpoint(c, w, q)
    PROVE  Rows(c, v, q) = Rows(c, w, q)
<1>1. Checkpoint(c, 1, q) = Checkpoint(c, 2, q) => Rows(c, 1, q) = Rows(c, 2, q)
  BY RewriteAssumption DEF Checkpoint, Rows, Askable
<1> QED
  BY <1>1

\* A read of chain c that holds rows of some version, asked at a block that may
\* be asked, holds rows of the version it sees if the checkpoints agree.
LEMMA SeenRows ==
    ASSUME TypeOK, indexed \in Histories, NEW c \in Chains, query[c] \in Askable(c),
           OfOneVersion(c), want[c] = {CheckpointAt(Seen(c), query[c])}
    PROVE  Holds(c, RowsAt(Seen(c), query[c]))
<1>1. PICK v \in 1..version[c] : /\ want[c] = {Checkpoint(c, v, query[c])}
                                 /\ Holds(c, Rows(c, v, query[c]))
  BY DEF OfOneVersion
<1>2. version[c] \in 1..2 /\ v \in 1..2
  BY DEF TypeOK
<1>3. Checkpoint(c, v, query[c]) = Checkpoint(c, version[c], query[c])
  BY <1>1 DEF Checkpoint, Seen
<1>4. Rows(c, v, query[c]) = Rows(c, version[c], query[c])
  BY <1>2, <1>3, SameRows
<1> QED
  BY <1>1, <1>4 DEF Rows, Seen

-----------------------------------------------------------------------------
(* Types.                                                                  *)

\* A lane that gives and takes slots has no more of them than it has.
LEMMA LaneSlots ==
    ASSUME Types, NEW w \in Chains \cup {Prefetcher},
           \/ lane' = lane \ {w}
           \/ lane' = lane \cup {w} /\ Cardinality(lane) < Capacity
           \/ lane' = lane
    PROVE  /\ lane' \subseteq Chains \cup {Prefetcher}
           /\ Cardinality(lane') <= Capacity /\ IsFiniteSet(lane')
<1>1. IsFiniteSet(lane) /\ Cardinality(lane) \in Nat /\ Cardinality(lane) <= Capacity
  BY FS_CardinalityType DEF Types, TypeOK
<1>2. Capacity \in Nat /\ lane \subseteq Chains \cup {Prefetcher}
  BY IndexAssumption DEF Types, TypeOK
<1>3. /\ IsFiniteSet(lane \ {w}) /\ Cardinality(lane \ {w}) \in Nat
      /\ Cardinality(lane \ {w}) <= Cardinality(lane)
  BY <1>1, FS_Subset, FS_CardinalityType
<1>4. /\ IsFiniteSet(lane \cup {w}) /\ Cardinality(lane \cup {w}) \in Nat
      /\ Cardinality(lane \cup {w}) <= Cardinality(lane) + 1
  BY <1>1, FS_AddElement, FS_CardinalityType
<1> QED
  BY <1>1, <1>2, <1>3, <1>4

\* Blocks asked are blocks.
LEMMA Blocks ==
    ASSUME NEW c \in Chains, NEW n \in 0..MaxHead
    PROVE  /\ Pin[c] \in 1..MaxHead /\ Caught[c] \in 0..MaxHead /\ MaxHead \in Nat
           /\ QueryBlock(c, n) \in 0..MaxHead
           /\ Askable(c) \subseteq 0..MaxHead
           /\ Accepts(c, n) => /\ QueryBlock(c, n) \in Askable(c)
                               /\ c \in Fixed => QueryBlock(c, n) = Pin[c]
<1>1. Pin[c] \in 1..MaxHead /\ Caught[c] \in 0..MaxHead /\ MaxHead \in Nat
  BY IndexAssumption
<1> QED
  BY <1>1 DEF QueryBlock, Askable, Accepts, ProcessingLatest, Least

\* A failing read keeps the types.
LEMMA FailTypes ==
    ASSUME Types, NEW c \in Chains, Fail(c), status' \in [Chains -> 0..MaxHead]
    PROVE  Types'
<1>1. /\ lane' \subseteq Chains \cup {Prefetcher}
      /\ Cardinality(lane') <= Capacity /\ IsFiniteSet(lane')
  BY LaneSlots DEF Fail
<1>2. MaxHead \in Nat /\ Zero \in [Chains -> 0..MaxHead]
  BY IndexAssumption DEF Zero
<1>3. known' \in [Chains -> [Chains -> 0..MaxHead]]
  BY <1>2 DEF Fail, Types, TypeOK
<1>4. /\ query' \in [Chains -> 0..MaxHead]
      /\ todo' \in [Chains -> SUBSET (Streams \cup Lookups)]
      /\ lag' \in [Chains -> BOOLEAN]
  BY <1>2 DEF Fail, Types, TypeOK
<1>5. /\ pc' \in [Chains -> {"idle", "again", "failed", "presence", "probe", "pages",
                  "paging", "answered", "lookups", "looking", "looked", "done"}]
      /\ DOMAIN want' = Chains /\ DOMAIN got' = Chains
  BY DEF Fail, Types, TypeOK
<1>6. UNCHANGED <<indexed, version, head, stopped, owner, target, proof, prefetch>>
  BY DEF Fail, worldVars, probeVars
<1> QED
  BY <1>1, <1>3, <1>4, <1>5, <1>6 DEF Types, TypeOK

\* What a job decides on a status keeps the types.
LEMMA DecideTypes ==
    ASSUME Types, NEW c \in Chains, NEW statuses \in [Chains -> 0..MaxHead],
           Decide(c, statuses), status' \in [Chains -> 0..MaxHead]
    PROVE  Types'
<1>1. CASE Fail(c)
  BY <1>1, FailTypes
<1>2. QueryBlock(c, statuses[c]) \in 0..MaxHead
  BY Blocks
<1>3. CASE ~Fail(c)
  <2>1. /\ known' = [known EXCEPT ![c] = statuses]
        /\ query' = [query EXCEPT ![c] = QueryBlock(c, statuses[c])]
        /\ pc' = [pc EXCEPT ![c] = "presence"]
        /\ UNCHANGED <<worldVars, stopped, lane, probeVars, pageVars>>
    BY <1>3 DEF Decide
  <2>2. known' \in [Chains -> [Chains -> 0..MaxHead]] /\ query' \in [Chains -> 0..MaxHead]
    BY <1>2, <2>1 DEF Types, TypeOK
  <2>3. pc' \in [Chains -> {"idle", "again", "failed", "presence", "probe", "pages",
                  "paging", "answered", "lookups", "looking", "looked", "done"}]
    BY <2>1 DEF Types, TypeOK
  <2> QED
    BY <2>1, <2>2, <2>3 DEF Types, TypeOK, worldVars, probeVars, pageVars
<1> QED
  BY <1>1, <1>3

\* Every step of a job keeps the types.
LEMMA JobTypes ==
    ASSUME Types, NEW c \in Chains, ProofOf(c), Job(c)
    PROVE  Types'
<1>1. head \in [Chains -> 0..MaxHead] /\ status \in [Chains -> 0..MaxHead]
  BY DEF Types, TypeOK
<1>2. CASE ReadStatus(c)
  <2>1. CASE Decide(c, status)
    BY <1>1, <1>2, <2>1, DecideTypes DEF ReadStatus
  <2>2. CASE ~Decide(c, status)
    BY <1>2, <2>2 DEF ReadStatus, Types, TypeOK, worldVars, probeVars, askVars, pageVars
  <2> QED
    BY <2>1, <2>2
<1>3. CASE ReadStatusAgain(c)
  BY <1>1, <1>3, DecideTypes DEF ReadStatusAgain
<1>4. CASE StatusFails(c) \/ PageFails(c)
  BY <1>1, <1>4, FailTypes DEF StatusFails, PageFails
<1>5. CASE ClaimProbe(c)
  <2>1. known[c] \in [Chains -> 0..MaxHead]
    BY DEF Types, TypeOK
  <2>2. Targets(known[c]) \in [Chains -> 0..MaxHead]
    <3>1. \A d \in Chains : QueryBlock(d, known[c][d]) \in 0..MaxHead
      BY <2>1, Blocks
    <3>2. 0 \in 0..MaxHead
      BY IndexAssumption
    <3> QED
      BY <3>1, <3>2 DEF Targets
  <2> QED
    BY <1>5, <2>2 DEF ClaimProbe, Types, TypeOK, worldVars, askVars, pageVars
<1>6. CASE TakeVerdict(c)
  <2>1. Zero \in [Chains -> 0..MaxHead] /\ Askable(c) \subseteq 0..MaxHead
    BY IndexAssumption, Blocks DEF Zero
  <2>2. known' \in [Chains -> [Chains -> 0..MaxHead]]
    BY <1>6, <2>1 DEF TakeVerdict, Types, TypeOK
  <2>3. UNCHANGED <<worldVars, status, stopped, lane, probeVars, got, lag>>
    BY <1>6 DEF TakeVerdict, pageVars
  <2>4. CASE UsableProof(c) = {}
    BY <1>6, <2>2, <2>3, <2>4 DEF TakeVerdict, Types, TypeOK, worldVars, probeVars, pageVars
  <2>5. CASE UsableProof(c) # {}
    <3>1. PICK p \in UsableProof(c) :
              /\ query' = [query EXCEPT ![c] = p.query]
              /\ want' = [want EXCEPT ![c] = {p.checkpoint}]
              /\ todo' = [todo EXCEPT ![c] = {}]
              /\ pc' = [pc EXCEPT ![c] = "answered"]
      BY <1>6, <2>5 DEF TakeVerdict
    <3>2. p.query \in 0..MaxHead
      BY <2>1 DEF UsableProof, ProofOf
    <3> QED
      BY <2>2, <2>3, <3>1, <3>2 DEF Types, TypeOK, worldVars, probeVars
  <2> QED
    BY <2>4, <2>5
<1>7. CASE LeaveVerdict(c)
  <2>1. Zero \in [Chains -> 0..MaxHead]
    BY IndexAssumption DEF Zero
  <2> QED
    BY <1>7, <2>1 DEF LeaveVerdict, Types, TypeOK, worldVars, probeVars, pageVars
<1>8. CASE AskPage(c)
  <2>1. /\ lane' \subseteq Chains \cup {Prefetcher}
        /\ Cardinality(lane') <= Capacity /\ IsFiniteSet(lane')
    BY <1>8, LaneSlots DEF AskPage
  <2> QED
    BY <1>8, <2>1 DEF AskPage, Types, TypeOK, worldVars, probeVars, askVars, pageVars
<1>9. CASE PageAnswers(c)
  <2>1. CASE Fail(c)
    BY <1>1, <1>9, <2>1, FailTypes DEF PageAnswers
  <2>2. CASE ~Fail(c)
    <3>1. /\ lane' \subseteq Chains \cup {Prefetcher}
          /\ Cardinality(lane') <= Capacity /\ IsFiniteSet(lane')
      BY <1>9, <2>2, LaneSlots DEF PageAnswers
    <3>2. \E S \in SUBSET todo[c], P \in {"pages", "answered", "lookups", "looked"}, L \in BOOLEAN :
              /\ todo' = [todo EXCEPT ![c] = S]
              /\ pc' = [pc EXCEPT ![c] = P]
              /\ lag' = [lag EXCEPT ![c] = L]
      <4> DEFINE S == {s \in todo[c] : Cardinality(Page(c, s)) = First(c, s)}
                 L == lag[c] \/ PageVerdict(c, CheckpointAt(Seen(c), query[c])) = "note"
      <4>1. /\ todo' = [todo EXCEPT ![c] = S]
            /\ lag' = [lag EXCEPT ![c] = L]
        BY <1>9, <2>2 DEF PageAnswers
      <4>2. \E P \in {"pages", "answered", "lookups", "looked"} : pc' = [pc EXCEPT ![c] = P]
        BY <1>9, <2>2 DEF PageAnswers
      <4>3. S \in SUBSET todo[c] /\ L \in BOOLEAN
        BY DEF Types, TypeOK
      <4> QED
        BY <4>1, <4>2, <4>3
    <3>3. /\ DOMAIN got' = DOMAIN got /\ DOMAIN want' = DOMAIN want
          /\ UNCHANGED <<worldVars, stopped, probeVars, askVars, status>>
      BY <1>9, <2>2 DEF PageAnswers
    <3> QED
      BY <3>1, <3>2, <3>3 DEF Types, TypeOK, worldVars, probeVars, askVars
  <2> QED
    BY <2>1, <2>2
<1>10. CASE LookUp(c) \/ Finish(c)
  BY <1>10 DEF LookUp, Finish, Types, TypeOK, worldVars, probeVars, askVars, pageVars
<1> QED
  BY <1>2, <1>3, <1>4, <1>5, <1>6, <1>7, <1>8, <1>9, <1>10 DEF Job

\* What targets a status gives, chain by chain.
LEMMA TargetBlocks ==
    ASSUME NEW processed \in [Chains -> 0..MaxHead]
    PROVE  /\ Targets(processed) \in [Chains -> 0..MaxHead]
           /\ \A c \in Chains : Targets(processed)[c] # 0 => Targets(processed)[c] \in Askable(c)
<1>1. \A c \in Chains : /\ QueryBlock(c, processed[c]) \in 0..MaxHead
                        /\ Accepts(c, processed[c]) => QueryBlock(c, processed[c]) \in Askable(c)
  BY Blocks
<1>2. 0 \in 0..MaxHead
  BY IndexAssumption
<1> QED
  BY <1>1, <1>2 DEF Targets

\* Every step of a probe keeps the types.
LEMMA ProbeTypes ==
    ASSUME Types, NEW w \in Chains \cup {Prefetcher}, Probe(w)
    PROVE  Types'
<1>1. /\ lane' \subseteq Chains \cup {Prefetcher}
      /\ Cardinality(lane') <= Capacity /\ IsFiniteSet(lane')
  BY LaneSlots DEF Probe, AskProbe, ProbeAnswers, ProbeFails, Settle
<1>2. CASE AskProbe(w)
  BY <1>1, <1>2 DEF AskProbe, Types, TypeOK, worldVars, probeVars, askVars, pageVars
<1>3. CASE Settle(w) /\ (proof' = proof \/ proof' = [c \in Chains |-> ChainEmpty(c)])
  <2>1. Zero \in [Chains -> 0..MaxHead]
    BY IndexAssumption DEF Zero
  <2>2. DOMAIN proof' = Chains
    BY <1>3 DEF Types
  <2>3. owner' = Settled /\ target' = Zero
    BY <1>3 DEF Settle
  <2>4. /\ prefetch' \in {"idle", "status", "probe", "over"}
        /\ pc' \in [Chains -> {"idle", "again", "failed", "presence", "probe", "pages",
                  "paging", "answered", "lookups", "looking", "looked", "done"}]
    BY <1>3 DEF Settle, Types, TypeOK
  <2>5. UNCHANGED <<worldVars, status, stopped, askVars, pageVars>>
    BY <1>3 DEF Settle
  <2> QED
    BY <1>1, <2>1, <2>2, <2>3, <2>4, <2>5 DEF Types, TypeOK, worldVars, askVars, pageVars
<1> QED
  BY <1>2, <1>3 DEF Probe, ProbeAnswers, ProbeFails

\* Every step keeps the types.
LEMMA NextTypes ==
    ASSUME Types, \A c \in Chains : ProofOf(c), [Next]_vars
    PROVE  Types'
<1>1. CASE StatusRefreshed \/ StopScan \/ PrefetchStart
  BY <1>1 DEF StatusRefreshed, StopScan, PrefetchStart, Types, TypeOK, worldVars, probeVars,
              askVars, pageVars
<1>2. CASE PrefetchStatus
  <2>1. Targets(status) \in [Chains -> 0..MaxHead]
    BY TargetBlocks DEF Types, TypeOK
  <2> QED
    BY <1>2, <2>1 DEF PrefetchStatus, Types, TypeOK, worldVars, askVars, pageVars
<1>3. ASSUME NEW c \in Chains, Job(c) PROVE Types'
  BY <1>3, JobTypes
<1>4. ASSUME NEW w \in Chains \cup {Prefetcher}, Probe(w) PROVE Types'
  BY <1>4, ProbeTypes
<1>5. ASSUME NEW c \in Chains, Advance(c) PROVE Types'
  <2>1. head' \in [Chains -> 0..MaxHead]
    BY <1>5, IndexAssumption DEF Advance, Types, TypeOK
  <2> QED
    BY <1>5, <2>1 DEF Advance, Types, TypeOK, probeVars, askVars, pageVars
<1>6. ASSUME NEW c \in Chains, Rewrite(c) PROVE Types'
  BY <1>6 DEF Rewrite, Types, TypeOK, probeVars, askVars, pageVars
<1>7. CASE UNCHANGED vars
  BY <1>7 DEF vars, Types, TypeOK, worldVars, probeVars, askVars, pageVars
<1> QED
  BY <1>1, <1>2, <1>3, <1>4, <1>5, <1>6, <1>7 DEF Next, Goroutines

-----------------------------------------------------------------------------
(* The probe.                                                              *)

\* A probe is sent at blocks that may be asked, and a chain's job that sends it
\* waits for it.
LEMMA NextProbe ==
    ASSUME Types, ProbeOf, [Next]_vars
    PROVE  ProbeOf'
<1> USE DEF worldVars, probeVars, askVars, pageVars
<1>0. DOMAIN pc = Chains /\ \A c \in Chains : c # Nobody /\ c # Settled /\ c # Prefetcher
  BY IndexAssumption DEF Types, TypeOK
<1>1. CASE StatusRefreshed \/ StopScan \/ UNCHANGED vars
  BY <1>1 DEF StatusRefreshed, StopScan, ProbeOf, vars
<1>2. CASE PrefetchStart
  BY <1>0, <1>2 DEF PrefetchStart, ProbeOf
<1>3. CASE PrefetchStatus
  <2>1. \A c \in Chains : Targets(status)[c] # 0 => Targets(status)[c] \in Askable(c)
    BY TargetBlocks DEF Types, TypeOK
  <2> QED
    BY <1>0, <1>3, <2>1 DEF PrefetchStatus, ProbeOf
<1>4. ASSUME NEW c \in Chains, Job(c), ~ClaimProbe(c) PROVE ProbeOf'
  <2>1. UNCHANGED <<owner, target>>
    BY <1>4 DEF Job, ReadStatus, ReadStatusAgain, StatusFails, Decide, Fail, TakeVerdict,
                LeaveVerdict, AskPage, PageAnswers, PageFails, LookUp, Finish
  <2>2. pc[c] # "probe"
    BY <1>4 DEF Job, ReadStatus, ReadStatusAgain, StatusFails, TakeVerdict,
                LeaveVerdict, AskPage, PageAnswers, PageFails, LookUp, Finish
  <2>3. \A d \in Chains : d # c => pc'[d] = pc[d]
    BY <1>0, <1>4 DEF Job, ReadStatus, ReadStatusAgain, StatusFails, Decide, Fail, TakeVerdict,
                LeaveVerdict, AskPage, PageAnswers, PageFails, LookUp, Finish
  <2> QED
    BY <2>1, <2>2, <2>3 DEF ProbeOf
<1>5. ASSUME NEW c \in Chains, ClaimProbe(c) PROVE ProbeOf'
  <2>1. known[c] \in [Chains -> 0..MaxHead]
    BY DEF Types, TypeOK
  <2>2. \A d \in Chains : Targets(known[c])[d] # 0 => Targets(known[c])[d] \in Askable(d)
    BY <2>1, TargetBlocks
  <2> QED
    BY <1>0, <1>5, <2>2 DEF ClaimProbe, ProbeOf
<1>6. ASSUME NEW w \in Chains \cup {Prefetcher}, Probe(w) PROVE ProbeOf'
  <2>1. CASE AskProbe(w)
    BY <2>1 DEF AskProbe, ProbeOf
  <2>2. CASE Settle(w)
    BY <1>0, <2>2, IndexAssumption DEF Settle, ProbeOf, Zero
  <2> QED
    BY <1>6, <2>1, <2>2 DEF Probe, ProbeAnswers, ProbeFails
<1>7. ASSUME NEW c \in Chains, Advance(c) \/ Rewrite(c) PROVE ProbeOf'
  BY <1>7 DEF Advance, Rewrite, ProbeOf
<1> QED
  BY <1>1, <1>2, <1>3, <1>4, <1>5, <1>6, <1>7 DEF Next, Goroutines

\* A version once seen stays one of the versions, and nothing else of the index
\* moves.
LEMMA VersionsGrow ==
    ASSUME Types, [Next]_vars
    PROVE  /\ indexed' = indexed
           /\ \A c \in Chains : version'[c] \in 1..2 /\ version[c] \in 1..2
                                /\ version[c] <= version'[c]
<1> USE DEF worldVars, probeVars, askVars, pageVars
<1>1. version \in [Chains -> 1..2]
  BY DEF Types, TypeOK
<1>2. CASE UNCHANGED <<indexed, version>>
  BY <1>1, <1>2
<1>3. ASSUME NEW c \in Chains, Rewrite(c)
      PROVE  indexed' = indexed /\ \A d \in Chains : version'[d] \in 1..2 /\ version[d] <= version'[d]
  BY <1>1, <1>3 DEF Rewrite
<1>4. CASE StatusRefreshed \/ StopScan \/ PrefetchStart \/ PrefetchStatus \/ UNCHANGED vars
  BY <1>2, <1>4 DEF StatusRefreshed, StopScan, PrefetchStart, PrefetchStatus, vars
<1>5. ASSUME NEW c \in Chains, Job(c) PROVE UNCHANGED <<indexed, version>>
  BY <1>5 DEF Job, ReadStatus, ReadStatusAgain, StatusFails, Decide, Fail, ClaimProbe,
              TakeVerdict, LeaveVerdict, AskPage, PageAnswers, PageFails, LookUp, Finish
<1>6. ASSUME NEW w \in Chains \cup {Prefetcher}, Probe(w) PROVE UNCHANGED <<indexed, version>>
  BY <1>6 DEF Probe, AskProbe, ProbeAnswers, ProbeFails, Settle
<1>7. ASSUME NEW c \in Chains, Advance(c) PROVE UNCHANGED <<indexed, version>>
  BY <1>7 DEF Advance
<1> QED
  BY <1>1, <1>2, <1>3, <1>4, <1>5, <1>6, <1>7 DEF Next, Goroutines

\* A checkpoint that needs no note, at or below the block asked, puts that block
\* near the pin.
LEMMA GoodIsNear ==
    ASSUME NEW c \in Chains, NEW block \in Nat, NEW q \in Nat, block <= q,
           CheckCheckpoint(c, block) # "note"
    PROVE  NearPin(c, q)
<1> SUFFICES ASSUME c \notin Fixed PROVE Pin[c] - MaxLag <= q
  BY DEF NearPin
<1>1. Pin[c] \in Nat /\ MaxLag \in Nat
  BY IndexAssumption
<1>2. ~(block > Pin[c]) /\ Pin[c] - block > MaxLag => CheckCheckpoint(c, block) = "note"
  BY DEF CheckCheckpoint
<1> QED
  BY <1>1, <1>2

\* What the probe establishes of a chain is so of the version it saw.
LEMMA EmptyIsSo ==
    ASSUME Types, ProbeOf, NEW c \in Chains, NEW p \in ChainEmpty(c)
    PROVE  /\ p.query \in Askable(c) /\ NearPin(c, p.query)
           /\ p.checkpoint = Checkpoint(c, version[c], p.query)
           /\ \A r \in Rows(c, version[c], p.query) : r[1] \notin Streams
<1> DEFINE at == CheckpointAt(Seen(c), target[c])
<1>1. /\ p = [query |-> target[c], checkpoint |-> at]
      /\ target[c] # 0 /\ at.block <= target[c]
      /\ CheckCheckpoint(c, at.block) = "good"
      /\ ~\E r \in RowsAt(Seen(c), target[c]) : r[1] \in Streams
  BY DEF ChainEmpty
<1>2. p.query = target[c] /\ p.checkpoint = at
  BY <1>1
<1>3. target[c] \in Askable(c) /\ target[c] \in Nat /\ version[c] \in 1..2
  BY <1>1 DEF ProbeOf, Types, TypeOK
<1>4. at.block \in Nat
  <2>1. Seen(c).checkpoints \subseteq Nat
    BY <1>3, History DEF Seen, Types
  <2> QED
    BY <1>3, <2>1, CheckpointBlock
<1>5. NearPin(c, target[c])
  BY <1>1, <1>3, <1>4, GoodIsNear
<1> QED
  BY <1>1, <1>2, <1>3, <1>5 DEF Checkpoint, Rows, Seen

\* Proofs of emptiness stay proofs: what they are of is still one of the versions.
LEMMA NextProof ==
    ASSUME Types, ProbeOf, NEW c \in Chains, ProofOf(c), [Next]_vars
    PROVE  ProofOf(c)'
<1>1. /\ indexed' = indexed /\ version'[c] \in 1..2 /\ version[c] \in 1..2
      /\ version[c] <= version'[c]
  BY VersionsGrow
<1>2. \A v, q : /\ Checkpoint(c, v, q)' = Checkpoint(c, v, q)
                /\ Rows(c, v, q)' = Rows(c, v, q)
  BY <1>1 DEF Checkpoint, Rows
<1>3. 1..version[c] \subseteq 1..version'[c]
  BY <1>1
<1>4. CASE proof'[c] = proof[c]
  BY <1>2, <1>3, <1>4 DEF ProofOf
<1>5. CASE proof'[c] = ChainEmpty(c)
  <2> SUFFICES ASSUME NEW p \in proof'[c]
               PROVE  /\ p.query \in Askable(c) /\ NearPin(c, p.query)
                      /\ \E v \in 1..version'[c] :
                             /\ p.checkpoint = Checkpoint(c, v, p.query)'
                             /\ \A r \in Rows(c, v, p.query)' : r[1] \notin Streams
    BY DEF ProofOf, NearPin, Askable
  <2>1. version[c] \in 1..version'[c]
    BY <1>1
  <2> QED
    BY <1>2, <1>5, <2>1, EmptyIsSo
<1>6. proof' = proof \/ proof' = [d \in Chains |-> ChainEmpty(d)]
  <2> USE DEF worldVars, probeVars, askVars, pageVars
  <2>1. ASSUME NEW d \in Chains, Job(d) PROVE proof' = proof
    BY <2>1 DEF Job, ReadStatus, ReadStatusAgain, StatusFails, Decide, Fail, ClaimProbe,
                TakeVerdict, LeaveVerdict, AskPage, PageAnswers, PageFails, LookUp, Finish
  <2>2. ASSUME NEW w \in Chains \cup {Prefetcher}, Probe(w)
        PROVE  proof' = proof \/ proof' = [d \in Chains |-> ChainEmpty(d)]
    BY <2>2 DEF Probe, AskProbe, ProbeAnswers, ProbeFails
  <2>3. CASE StatusRefreshed \/ StopScan \/ PrefetchStart \/ PrefetchStatus \/ UNCHANGED vars
    BY <2>3 DEF StatusRefreshed, StopScan, PrefetchStart, PrefetchStatus, vars
  <2>4. ASSUME NEW d \in Chains, Advance(d) \/ Rewrite(d) PROVE proof' = proof
    BY <2>4 DEF Advance, Rewrite
  <2> QED
    BY <2>1, <2>2, <2>3, <2>4 DEF Next, Goroutines
<1> QED
  BY <1>4, <1>5, <1>6

-----------------------------------------------------------------------------
(* The reads.                                                              *)

\* Chain c's read is as it was.
Same(c) == UNCHANGED <<query[c], want[c], todo[c], got[c], lag[c]>>

\* What was of one version stays so, whatever becomes of the index.
LEMMA StaysOfOneVersion ==
    ASSUME Types, [Next]_vars, NEW c \in Chains, Same(c), Opened(c)' = Opened(c),
           OfOneVersion(c)
    PROVE  OfOneVersion(c)'
<1>1. /\ indexed' = indexed /\ version'[c] \in 1..2 /\ version[c] \in 1..2
      /\ version[c] <= version'[c]
  BY VersionsGrow
<1>2. \A v, q : /\ Checkpoint(c, v, q)' = Checkpoint(c, v, q)
                /\ Rows(c, v, q)' = Rows(c, v, q)
  BY <1>1 DEF Checkpoint, Rows
<1>3. 1..version[c] \subseteq 1..version'[c]
  BY <1>1
<1>4. \A rows : Holds(c, rows)' <=> Holds(c, rows)
  BY DEF Holds, Same, Taken
<1>5. PICK v \in 1..version[c] :
        /\ want[c] = {Checkpoint(c, v, query[c])}
        /\ Holds(c, Rows(c, v, query[c]))
        /\ ~lag[c] => NearPin(c, query[c])
  BY DEF OfOneVersion
<1>6. v \in 1..version'[c]
  BY <1>3
<1>7. want'[c] = {Checkpoint(c, v, query[c])'} /\ Rows(c, v, query[c])' = Rows(c, v, query[c])
  BY <1>2, <1>5 DEF Same
<1> QED
  BY <1>2, <1>4, <1>5, <1>6 DEF OfOneVersion, Same, NearPin

\* A step that leaves chain c's read alone, or only moves it between places of
\* the same kind, keeps what is said of it.
LEMMA StaysAsRead ==
    ASSUME Types, [Next]_vars, NEW c \in Chains, Same(c), ReadOf(c),
           \/ pc'[c] = pc[c]
           \/ pc[c] \in Before \cup Asking /\ pc'[c] \in Before
           \/ pc[c] \in Asking /\ pc'[c] \in Asking \cup Paging
           \/ pc[c] \in Paging /\ pc'[c] \in Paging
           \/ pc[c] \in Looking /\ pc'[c] \in Looking
           \/ pc[c] = "answered" /\ pc'[c] = "done"
    PROVE  ReadOf(c)'
<1> USE DEF Before, Asking, Paging, Looking
<1>1. Opened(c)' = Opened(c)
  BY DEF Opened
<1>2. OfOneVersion(c) => OfOneVersion(c)'
  BY <1>1, StaysOfOneVersion
<1>3. Fresh(c) => Fresh(c)'
  BY DEF Fresh, Same
<1>4. query'[c] = query[c] /\ todo'[c] = todo[c]
  BY DEF Same
<1> QED
  BY <1>2, <1>3, <1>4 DEF ReadOf, Answered, Fresh, Askable

\* A read that failed holds nothing.
LEMMA FailReads ==
    ASSUME Types, NEW c \in Chains, Fail(c)
    PROVE  ReadOf(c)'
<1>1. pc'[c] = "failed"
  BY DEF Fail, Types, TypeOK
<1> QED
  BY <1>1 DEF ReadOf, Before, Asking, Paging, Looking, Answered

\* A job that has its status asks at a block that may be asked.
LEMMA DecideReads ==
    ASSUME Types, NEW c \in Chains, ReadOf(c), pc[c] \in Before,
           NEW statuses \in [Chains -> 0..MaxHead], Decide(c, statuses)
    PROVE  ReadOf(c)'
<1>1. CASE Fail(c)
  BY <1>1, FailReads
<1>2. CASE ~Fail(c)
  <2>1. /\ Accepts(c, statuses[c]) /\ query'[c] = QueryBlock(c, statuses[c])
        /\ pc'[c] = "presence" /\ UNCHANGED pageVars
    BY <1>2 DEF Decide, Types, TypeOK
  <2>2. QueryBlock(c, statuses[c]) \in Askable(c)
        /\ (c \in Fixed => QueryBlock(c, statuses[c]) = Pin[c])
    BY <2>1, Blocks
  <2>3. Fresh(c)'
    BY <2>1 DEF ReadOf, Fresh, pageVars
  <2> QED
    BY <2>1, <2>2, <2>3 DEF ReadOf, Before, Asking, Paging, Looking, Answered
<1> QED
  BY <1>1, <1>2

\* The memo's verdict: a proof that may stand for the pages, or none.
LEMMA VerdictReads ==
    ASSUME Types, [Next]_vars, NEW c \in Chains, ReadOf(c), ProofOf(c), TakeVerdict(c)
    PROVE  ReadOf(c)'
<1>1. pc[c] = "presence" /\ Fresh(c)
  BY DEF TakeVerdict, ReadOf, Asking
<1>2. CASE UsableProof(c) = {}
  <2>1. Same(c) /\ pc'[c] = "pages"
    BY <1>2 DEF TakeVerdict, Same, pageVars, Types, TypeOK
  <2> QED
    BY <1>1, <2>1, StaysAsRead DEF Asking, Paging
<1>3. CASE UsableProof(c) # {}
  <2>1. PICK p \in UsableProof(c) :
            /\ query' = [query EXCEPT ![c] = p.query]
            /\ want' = [want EXCEPT ![c] = {p.checkpoint}]
            /\ todo' = [todo EXCEPT ![c] = {}]
            /\ pc' = [pc EXCEPT ![c] = "answered"]
            /\ UNCHANGED <<got, lag>>
    BY <1>3 DEF TakeVerdict
  <2>2. /\ query'[c] = p.query /\ want'[c] = {p.checkpoint} /\ todo'[c] = {}
        /\ pc'[c] = "answered" /\ got'[c] = {} /\ ~lag'[c]
    BY <1>1, <2>1 DEF Types, TypeOK, Fresh
  <2>3. p \in proof[c] /\ (c \in Fixed => p.query = Pin[c])
    BY DEF UsableProof
  <2>4. p.query \in Askable(c) /\ NearPin(c, p.query)
    BY <2>3 DEF ProofOf
  <2>5. PICK v \in 1..version[c] :
            /\ p.checkpoint = Checkpoint(c, v, p.query)
            /\ \A r \in Rows(c, v, p.query) : r[1] \notin Streams
    BY <2>3 DEF ProofOf
  <2>6. indexed' = indexed /\ version' = version
    BY DEF TakeVerdict, worldVars
  <2>7. \A w, q : Checkpoint(c, w, q)' = Checkpoint(c, w, q) /\ Rows(c, w, q)' = Rows(c, w, q)
    BY <2>6 DEF Checkpoint, Rows
  <2>8. Opened(c)' = Streams
    BY <2>2 DEF Opened, Looking
  <2>9. Holds(c, Rows(c, v, p.query))'
    BY <2>2, <2>5, <2>7, <2>8 DEF Holds
  <2>10. OfOneVersion(c)'
    <3>1. v \in 1..version'[c]
      BY <2>6
    <3>2. want'[c] = {Checkpoint(c, v, query[c])'}
      BY <2>2, <2>5, <2>7
    <3>3. Holds(c, Rows(c, v, query[c]))'
      BY <2>2, <2>9, <2>7
    <3>4. NearPin(c, query[c])'
      BY <2>2, <2>4 DEF NearPin
    <3> QED
      BY <3>1, <3>2, <3>3, <3>4 DEF OfOneVersion
  <2> QED
    BY <2>2, <2>3, <2>4, <2>10 DEF ReadOf, Before, Asking, Paging, Looking, Answered, Askable
<1> QED
  BY <1>2, <1>3

\* A lookup opens streams of which nothing is held yet.
LEMMA LookUpReads ==
    ASSUME Types, [Next]_vars, NEW c \in Chains, ReadOf(c), LookUp(c)
    PROVE  ReadOf(c)'
<1>1. /\ pc[c] = "answered" /\ pc'[c] = "lookups" /\ todo'[c] = Lookups
      /\ UNCHANGED <<query, want, got, lag, indexed, version>>
  BY DEF LookUp, Types, TypeOK, worldVars, askVars
<1>2. Opened(c) = Streams /\ Opened(c)' = Streams \cup Lookups /\ Streams \cap Lookups = {}
  BY <1>1, IndexAssumption DEF Opened, Looking
<1>3. todo[c] = {} /\ OfOneVersion(c)
  BY <1>1 DEF ReadOf, Answered
<1>4. PICK v \in 1..version[c] :
        /\ want[c] = {Checkpoint(c, v, query[c])}
        /\ Holds(c, Rows(c, v, query[c]))
        /\ ~lag[c] => NearPin(c, query[c])
  BY <1>3 DEF OfOneVersion
<1>5. PICK rows : rows = Rows(c, v, query[c]) /\ rows = Rows(c, v, query[c])'
  BY <1>1 DEF Rows
<1>6. ASSUME NEW s \in Lookups PROVE Cardinality(Taken(c, s)') <= MaxRows
  <2>1. Taken(c, s)' = {}
    BY <1>1, <1>2, <1>4 DEF Taken, Holds
  <2> QED
    BY <2>1, FS_EmptySet, IndexAssumption
<1>7. Holds(c, rows)'
  BY <1>1, <1>2, <1>3, <1>4, <1>5, <1>6 DEF Holds
<1>8. OfOneVersion(c)'
  BY <1>1, <1>4, <1>5, <1>7 DEF OfOneVersion, Checkpoint, NearPin
<1> QED
  BY <1>1, <1>8 DEF ReadOf, Before, Asking, Paging, Looking, Answered, Askable

\* The first page's checkpoint, if it is accepted without a note, puts the read
\* near the pin.
LEMMA CertifiedIsNear ==
    ASSUME Types, NEW c \in Chains, query[c] \in Askable(c),
           Certify(c, CheckpointAt(Seen(c), query[c])) \notin {"error", "note"}
    PROVE  NearPin(c, query[c])
<1> DEFINE at == CheckpointAt(Seen(c), query[c])
           block == IF at.written THEN at.block ELSE Start[c]
<1>1. query[c] \in Nat /\ version[c] \in 1..2
  BY DEF Types, TypeOK
<1>2. Seen(c).checkpoints \subseteq Nat
  BY <1>1, History DEF Seen, Types
<1>3. at.block \in Nat /\ Start[c] \in Nat
  BY <1>1, <1>2, CheckpointBlock, IndexAssumption
<1>4. ~(block > query[c]) /\ CheckCheckpoint(c, block) # "note"
  BY DEF Certify
<1> QED
  BY <1>1, <1>3, <1>4, GoodIsNear

\* A page that is admitted is of the version the read is of.
LEMMA PageReads ==
    ASSUME Types, [Next]_vars, NEW c \in Chains, ReadOf(c), PageAnswers(c)
    PROVE  ReadOf(c)'
<1> DEFINE checkpoint == CheckpointAt(Seen(c), query[c])
           verdict == PageVerdict(c, checkpoint)
           rows == RowsAt(Seen(c), query[c])
           open == {s \in todo[c] : Cardinality(Page(c, s)) = First(c, s)}
<1>1. CASE Fail(c)
  BY <1>1, FailReads
<1>2. CASE ~Fail(c)
  <2>1. pc[c] \in {"paging", "looking"} /\ verdict # "error"
    BY <1>2 DEF PageAnswers
  <2>2. ~\E s \in todo[c] : Cardinality(Taken(c, s) \cup Page(c, s)) > MaxRows
    BY <1>2 DEF PageAnswers
  <2>3. /\ got'[c] = got[c] \cup UNION {Page(c, s) : s \in todo[c]}
        /\ todo'[c] = open
        /\ want'[c] = {checkpoint}
        /\ lag'[c] = (lag[c] \/ verdict = "note")
    BY <1>2 DEF PageAnswers, Types, TypeOK
  <2>4. /\ pc[c] = "paging" => pc'[c] = IF open # {} THEN "pages" ELSE "answered"
        /\ pc[c] = "looking" => pc'[c] = IF open # {} THEN "lookups" ELSE "looked"
    BY <1>2, <2>1 DEF PageAnswers, Types, TypeOK
  <2>5. indexed' = indexed /\ version' = version /\ query' = query
    BY <1>2 DEF PageAnswers, worldVars, askVars
  <2> HIDE DEF checkpoint, verdict, rows, open
  <2>6. Opened(c)' = Opened(c) /\ todo[c] \subseteq Opened(c)
    BY <2>1, <2>4 DEF Opened, Looking, Paging, ReadOf
  <2>7. query[c] \in Askable(c) /\ (c \in Fixed => query[c] = Pin[c])
    BY <2>1 DEF ReadOf, Before
  <2>8. /\ Fresh(c) \/ OfOneVersion(c)
        /\ pc[c] = "paging" => todo[c] \subseteq Streams
        /\ pc[c] = "looking" => todo[c] \subseteq Lookups
    BY <2>1 DEF ReadOf, Paging, Looking
  <2>9. version[c] \in 1..2
    BY DEF Types, TypeOK
  <2>10. ASSUME Fresh(c)
         PROVE  Holds(c, rows) /\ (~lag'[c] => NearPin(c, query[c]))
    <3>1. got[c] = {} /\ todo[c] = Streams /\ want[c] = {} /\ ~lag[c]
      BY <2>10 DEF Fresh
    <3>2. Opened(c) = Streams
      <4>1. pc[c] = "paging"
        BY <2>1, <2>8, <3>1, IndexAssumption
      <4> QED
        BY <4>1 DEF Opened, Looking
    <3>3. \A s \in todo[c] : Cardinality(Taken(c, s)) <= MaxRows
      <4> SUFFICES ASSUME NEW s \in todo[c] PROVE Cardinality(Taken(c, s)) <= MaxRows
        OBVIOUS
      <4>1. Taken(c, s) = {}
        BY <3>1 DEF Taken
      <4> QED
        BY <4>1, FS_EmptySet, IndexAssumption
    <3>4. Holds(c, rows)
      BY <3>1, <3>2, <3>3 DEF Holds
    <3>5. verdict = Certify(c, checkpoint)
      BY <3>1 DEF verdict, PageVerdict
    <3>6. ASSUME ~lag'[c] PROVE NearPin(c, query[c])
      <4>1. Certify(c, checkpoint) \notin {"error", "note"}
        BY <2>1, <2>3, <3>5, <3>6
      <4> QED
        BY <2>7, <4>1, CertifiedIsNear DEF checkpoint
    <3> QED
      BY <3>4, <3>6
  <2>11. ASSUME OfOneVersion(c)
         PROVE  Holds(c, rows) /\ (~lag'[c] => NearPin(c, query[c]))
    <3>1. PICK v \in 1..version[c] : /\ want[c] = {Checkpoint(c, v, query[c])}
                                     /\ ~lag[c] => NearPin(c, query[c])
      BY <2>11 DEF OfOneVersion
    <3>2. want[c] = {checkpoint}
      BY <2>1, <3>1 DEF verdict, PageVerdict
    <3>3. Holds(c, rows)
      BY <2>7, <2>11, <3>2, SeenRows DEF Types, checkpoint, rows
    <3> QED
      BY <2>3, <3>1, <3>3
  <2>12. Holds(c, rows) /\ (~lag'[c] => NearPin(c, query[c]))
    BY <2>8, <2>10, <2>11
  <2>13. Holds(c, rows)'
    <3>1. PICK R : R = rows
      OBVIOUS
    <3>2. Holds(c, R)'
      BY <2>2, <2>3, <2>6, <2>12, <3>1, PagesHold DEF Types, rows, open
    <3>3. rows' = rows
      BY <2>5 DEF rows, Seen
    <3> QED
      BY <3>1, <3>2, <3>3
  <2>14. OfOneVersion(c)'
    <3>1. /\ rows' = Rows(c, version[c], query[c])'
          /\ checkpoint = Checkpoint(c, version[c], query[c])'
      BY <2>5 DEF rows, Rows, checkpoint, Checkpoint, Seen
    <3>2. NearPin(c, query[c])' <=> NearPin(c, query[c])
      BY <2>5 DEF NearPin
    <3>3. version'[c] \in 1..version'[c]
      BY <2>5, <2>9
    <3> QED
      BY <2>3, <2>12, <2>13, <3>1, <3>2, <3>3 DEF OfOneVersion
  <2>15. todo'[c] \subseteq todo[c] /\ (open = {} => todo'[c] = {})
    BY <2>3 DEF open
  <2>16. query'[c] \in Askable(c) /\ (c \in Fixed => query'[c] = Pin[c])
    BY <2>5, <2>7
  <2>17. \/ pc'[c] = "pages" /\ todo'[c] \subseteq Streams
         \/ pc'[c] = "lookups" /\ todo'[c] \subseteq Lookups
         \/ pc'[c] \in {"answered", "looked"} /\ todo'[c] = {}
    BY <2>1, <2>4, <2>8, <2>15
  <2> QED
    BY <2>14, <2>16, <2>17 DEF ReadOf, Before, Asking, Paging, Looking, Answered, Askable
<1> QED
  BY <1>1, <1>2

\* Every step of its job keeps what is said of a chain's read.
LEMMA JobReads ==
    ASSUME Types, [Next]_vars, NEW c \in Chains, ReadOf(c), ProofOf(c), Job(c)
    PROVE  ReadOf(c)'
<1> USE DEF Before, Asking, Paging, Looking
<1>1. head \in [Chains -> 0..MaxHead] /\ status \in [Chains -> 0..MaxHead] /\ DOMAIN pc = Chains
  BY DEF Types, TypeOK
<1>2. CASE ReadStatus(c)
  <2>1. CASE Decide(c, status)
    BY <1>1, <1>2, <2>1, DecideReads DEF ReadStatus
  <2>2. CASE ~Decide(c, status)
    <3>1. pc[c] = "idle" /\ pc'[c] = "again" /\ Same(c)
      BY <1>1, <1>2, <2>2 DEF ReadStatus, Same, askVars, pageVars
    <3> QED
      BY <3>1, StaysAsRead
  <2> QED
    BY <2>1, <2>2
<1>3. CASE ReadStatusAgain(c)
  BY <1>1, <1>3, DecideReads DEF ReadStatusAgain
<1>4. CASE StatusFails(c) \/ PageFails(c)
  BY <1>4, FailReads DEF StatusFails, PageFails
<1>5. CASE ClaimProbe(c)
  <2>1. pc[c] = "presence" /\ pc'[c] \in {"presence", "probe"} /\ Same(c)
    BY <1>1, <1>5 DEF ClaimProbe, Same, askVars, pageVars
  <2> QED
    BY <2>1, StaysAsRead
<1>6. CASE TakeVerdict(c)
  BY <1>6, VerdictReads
<1>7. CASE LeaveVerdict(c)
  <2>1. pc[c] = "presence" /\ pc'[c] = "pages" /\ Same(c)
    BY <1>1, <1>7 DEF LeaveVerdict, Same, pageVars
  <2> QED
    BY <2>1, StaysAsRead
<1>8. CASE AskPage(c)
  <2>1. /\ \/ pc[c] = "pages" /\ pc'[c] = "paging"
           \/ pc[c] = "lookups" /\ pc'[c] = "looking"
        /\ Same(c)
    BY <1>1, <1>8 DEF AskPage, Same, askVars, pageVars
  <2> QED
    BY <2>1, StaysAsRead
<1>9. CASE PageAnswers(c)
  BY <1>9, PageReads
<1>10. CASE LookUp(c)
  BY <1>10, LookUpReads
<1>11. CASE Finish(c)
  <2>1. pc[c] = "answered" /\ pc'[c] = "done" /\ Same(c)
    BY <1>1, <1>11 DEF Finish, Same, askVars, pageVars
  <2> QED
    BY <2>1, StaysAsRead
<1> QED
  BY <1>2, <1>3, <1>4, <1>5, <1>6, <1>7, <1>8, <1>9, <1>10, <1>11 DEF Job

\* Every step keeps what is said of a chain's read.
LEMMA NextReads ==
    ASSUME Types, ProbeOf, [Next]_vars, NEW c \in Chains, ReadOf(c), ProofOf(c)
    PROVE  ReadOf(c)'
<1> USE DEF worldVars, askVars, pageVars
<1>1. DOMAIN pc = Chains /\ DOMAIN query = Chains /\ DOMAIN todo = Chains /\ DOMAIN lag = Chains
      /\ DOMAIN want = Chains /\ DOMAIN got = Chains
  BY DEF Types, TypeOK
<1>2. CASE UNCHANGED <<pc, query, pageVars>>
  <2>1. Same(c) /\ pc'[c] = pc[c]
    BY <1>2 DEF Same
  <2> QED
    BY <2>1, StaysAsRead
<1>3. CASE Job(c)
  BY <1>3, JobReads
<1>4. ASSUME NEW d \in Chains, d # c, Job(d) PROVE ReadOf(c)'
  <2>1. Same(c) /\ pc'[c] = pc[c]
    BY <1>1, <1>4 DEF Same, Job, ReadStatus, ReadStatusAgain, StatusFails, Decide, Fail,
        ClaimProbe, TakeVerdict, LeaveVerdict, AskPage, PageAnswers, PageFails, LookUp, Finish
  <2> QED
    BY <2>1, StaysAsRead
<1>5. ASSUME NEW w \in Chains \cup {Prefetcher}, Probe(w) PROVE ReadOf(c)'
  <2>1. Same(c)
    BY <1>5 DEF Same, Probe, AskProbe, ProbeAnswers, ProbeFails, Settle
  <2>2. pc'[c] = pc[c] \/ (pc[c] = "probe" /\ pc'[c] = "presence")
    BY <1>1, <1>5, IndexAssumption DEF Probe, AskProbe, ProbeAnswers, ProbeFails, Probing, Settle,
                                       ProbeOf
  <2> QED
    BY <2>1, <2>2, StaysAsRead DEF Asking
<1>6. CASE StatusRefreshed \/ StopScan \/ PrefetchStart \/ PrefetchStatus \/ UNCHANGED vars
  BY <1>2, <1>6 DEF StatusRefreshed, StopScan, PrefetchStart, PrefetchStatus, vars
<1>7. ASSUME NEW d \in Chains, Advance(d) \/ Rewrite(d) PROVE ReadOf(c)'
  BY <1>2, <1>7 DEF Advance, Rewrite
<1> QED
  BY <1>3, <1>4, <1>5, <1>6, <1>7 DEF Next, Goroutines

-----------------------------------------------------------------------------
(* The theorems.                                                           *)

\* The invariant holds of every scan's reads of an index, whatever is indexed,
\* rewritten, probed or cut off meanwhile.
THEOREM Invariant == Spec => []Inv
<1>1. Init => Inv
  <2> SUFFICES ASSUME Init PROVE Inv
    OBVIOUS
  <2>1. lane = {} /\ IsFiniteSet(lane) /\ Cardinality(lane) = 0
    BY FS_EmptySet DEF Init
  <2>2. MaxHead \in Nat /\ Capacity \in Nat /\ Begun \in [Chains -> 0..MaxHead]
    BY IndexAssumption
  <2>3. Zero \in [Chains -> 0..MaxHead]
    BY <2>2 DEF Zero
  <2>4. Types
    <3>1. known = [c \in Chains |-> Zero] /\ known \in [Chains -> [Chains -> 0..MaxHead]]
      BY <2>3 DEF Init
    <3>2. /\ version \in [Chains -> 1..2]
          /\ head \in [Chains -> 0..MaxHead] /\ status \in [Chains -> 0..MaxHead]
          /\ target \in [Chains -> 0..MaxHead] /\ query \in [Chains -> 0..MaxHead]
      BY <2>2, <2>3 DEF Init
    <3>3. /\ lane \subseteq Chains \cup {Prefetcher} /\ Cardinality(lane) <= Capacity
      BY <2>1, <2>2
    <3>4. /\ todo \in [Chains -> SUBSET (Streams \cup Lookups)]
          /\ lag \in [Chains -> BOOLEAN] /\ stopped \in BOOLEAN
          /\ pc \in [Chains -> {"idle", "again", "failed", "presence", "probe", "pages",
                  "paging", "answered", "lookups", "looking", "looked", "done"}]
      BY DEF Init
    <3> QED
      BY <2>1, <3>1, <3>2, <3>3, <3>4 DEF Init, Types, TypeOK
  <2>5. ProbeOf
    BY IndexAssumption DEF Init, ProbeOf, Zero
  <2>6. ASSUME NEW c \in Chains PROVE ReadOf(c) /\ ProofOf(c)
    BY DEF Init, ReadOf, ProofOf, Fresh, Before, Asking, Paging, Looking, Answered
  <2> QED
    BY <2>4, <2>5, <2>6 DEF Inv
<1>2. Inv /\ [Next]_vars => Inv'
  <2> SUFFICES ASSUME Inv, [Next]_vars PROVE Inv'
    OBVIOUS
  <2>1. Types /\ ProbeOf /\ \A c \in Chains : ReadOf(c) /\ ProofOf(c)
    BY DEF Inv
  <2>2. Types'
    BY <2>1, NextTypes
  <2>3. ProbeOf'
    BY <2>1, NextProbe
  <2>4. ASSUME NEW c \in Chains PROVE ReadOf(c)'
    BY <2>1, NextReads
  <2>5. ASSUME NEW c \in Chains PROVE ProofOf(c)'
    BY <2>1, NextProof
  <2> QED
    BY <2>2, <2>3, <2>4, <2>5 DEF Inv
<1> QED
  BY <1>1, <1>2, PTL DEF Spec

\* Jobs, probes, lane and statuses keep their types, and the lane never admits
\* more requests than it has slots (indexerLane, under sentioIndex.read).
THEOREM TypeCorrect == Spec => []TypeOK
<1>1. Inv => TypeOK
  BY DEF Inv, Types
<1> QED
  BY <1>1, Invariant, PTL

\* What an answered read holds is what one version of the index says.
LEMMA AnswerExact ==
    ASSUME Inv, NEW c \in Chains, Answered(c)
    PROVE  /\ query[c] \in Askable(c) /\ (c \in Fixed => query[c] = Pin[c])
           /\ \E h \in Versions(c) : /\ got[c] = Expected(c, h, query[c])
                                     /\ ~lag[c] => NearPin(c, query[c])
<1>1. ReadOf(c) /\ Types
  BY DEF Inv
<1>2. query[c] \in Askable(c) /\ (c \in Fixed => query[c] = Pin[c])
  BY <1>1 DEF ReadOf, Before, Answered
<1>3. todo[c] = {} /\ OfOneVersion(c)
  BY <1>1 DEF ReadOf
<1>4. PICK v \in 1..version[c] : /\ Holds(c, Rows(c, v, query[c]))
                                 /\ ~lag[c] => NearPin(c, query[c])
  BY <1>3 DEF OfOneVersion
<1>5. PICK h : h = indexed[c][v]
  OBVIOUS
<1>6. h \in Versions(c) /\ Rows(c, v, query[c]) = RowsAt(h, query[c])
  BY <1>5 DEF Versions, Rows
<1>7. \A r \in RowsAt(h, query[c]) : r[1] \in Streams \cup Lookups
  <2>1. v \in 1..2
    BY <1>1 DEF Types, TypeOK
  <2>2. RowsAt(h, query[c]) \subseteq (Streams \cup Lookups) \X Nat
    BY <1>1, <1>6, <2>1, History DEF Types
  <2> QED
    BY <2>2
<1>8. \A r \in RowsAt(h, query[c]) :
          r \in got[c] <=> r[1] \in Streams \/ pc[c] = "looked"
  BY <1>3, <1>4, <1>6, <1>7 DEF Holds, Opened, Looking, Answered
<1>9. got[c] = Expected(c, h, query[c])
  BY <1>4, <1>6, <1>8 DEF Expected, Holds
<1> QED
  BY <1>2, <1>4, <1>6, <1>9

\* A read at a fixed pin is exact: the rows opened by the pin, of one version of
\* the index, whoever probed or rewrote it meanwhile (indexQueryBlock,
\* chainProvenEmpty, pages).
THEOREM FixedExact == Spec => []FixedReadExact
<1>1. Inv => FixedReadExact
  <2> SUFFICES ASSUME Inv, NEW c \in Fixed, Answered(c)
               PROVE  \E h \in Versions(c) : got[c] = Expected(c, h, Pin[c])
    BY DEF FixedReadExact
  <2>1. c \in Chains
    BY IndexAssumption
  <2> QED
    BY <2>1, AnswerExact
<1> QED
  BY <1>1, Invariant, PTL

\* A live read is exact at its query block and, unless it comes with a lag note,
\* misses no row older than MaxLag at the pin (checkIndexCheckpoint, certify,
\* presenceChainEmpty).
THEOREM LiveExplained == Spec => []LiveReadExplained
<1>1. Inv => LiveReadExplained
  <2> SUFFICES ASSUME Inv, NEW c \in Chains \ Fixed, Answered(c)
               PROVE  \E h \in Versions(c) :
                          /\ got[c] = Expected(c, h, query[c])
                          /\ ~lag[c] => Expected(c, h, Pin[c] - MaxLag) \subseteq got[c]
    BY DEF LiveReadExplained
  <2>1. PICK h \in Versions(c) : /\ got[c] = Expected(c, h, query[c])
                                 /\ ~lag[c] => NearPin(c, query[c])
    BY AnswerExact
  <2>2. ASSUME ~lag[c] PROVE Expected(c, h, Pin[c] - MaxLag) \subseteq Expected(c, h, query[c])
    <3>1. Pin[c] - MaxLag <= query[c]
      BY <2>1, <2>2 DEF NearPin
    <3>2. Pin[c] - MaxLag \in Int /\ query[c] \in Int
      BY IndexAssumption DEF Inv, Types, TypeOK
    <3>3. \A r \in DOMAIN h.opened : h.opened[r] \in Nat
      <4>1. indexed \in Histories /\ version[c] \in 1..2
        BY DEF Inv, Types, TypeOK
      <4>2. PICK v \in 1..version[c] : h = indexed[c][v]
        BY DEF Versions
      <4>3. v \in 1..2
        BY <4>1
      <4> QED
        BY <4>1, <4>2, <4>3, HistoryAssumption
    <3> QED
      BY <3>1, <3>2, <3>3 DEF Expected, RowsAt
  <2> QED
    BY <2>1, <2>2
<1> QED
  BY <1>1, Invariant, PTL
=============================================================================
