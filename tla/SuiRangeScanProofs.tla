-------------------------- MODULE SuiRangeScanProofs --------------------------
(***************************************************************************)
(* SuiRangeScan proved for any indexes, instants and statement sizes: a    *)
(* range is read whole, an instant is answered as if it were alone, the    *)
(* wallet is shown at one state, and an index that answered is not asked   *)
(* again.                                                                  *)
(***************************************************************************)
EXTENDS SuiRangeScan, FiniteSetTheorems, WellFoundedInduction, SequenceTheorems, TLAPS

-----------------------------------------------------------------------------
(* The inductive invariant.                                                *)

Early == {"start", "read"}

\* Samples in order, whose intervals do not meet.
Tidy(s) ==
    /\ s \in Seq(Samples)
    /\ \A k \in 1..Len(s) : s[k].start < s[k].until
    /\ \A j, k \in 1..Len(s) : j < k => s[j].until <= s[k].start

\* A range read from lo to hi of an index of samples s, n of them completed, holds
\* a run of samples that begins with the first to end after lo, and goes on after
\* that run; ended well, it holds every sample of the range that was completed
\* when it began.
Ranged(s, n, r, lo, hi) ==
    /\ lo <= hi /\ r.to = hi
    /\ r.limit \in Nat \ {0} /\ r.ceiling \in Nat \ {0}
    /\ r.had \in 0..n
    /\ r.err \in {"none", "failed"} /\ r.pc \in {"range", "over"}
    /\ \/ r.samples = << >> /\ r.from = lo
       \/ \E a, b \in 1..n :
            /\ a <= b /\ r.samples = SubSeq(s, a, b) /\ r.from = s[b].until
            /\ \A k \in 1..(a - 1) : s[k].until <= lo
            /\ s[a].until > lo /\ s[b].start <= hi
    /\ r.pc = "over" /\ r.err = "none" =>
           \A k \in 1..r.had : Meets(s[k], lo, hi) => s[k] \in ToSet(r.samples)

\* A read at checkpoint t: the certified sample covering it, at its start.
Pointed(s, n, r, t) ==
    /\ r.from = t /\ r.had \in 0..n
    /\ r.pc \in {"checkpoint", "over"}
    /\ \/ /\ r.samples = << >>
          /\ r.err \in {"none", "failed", "uncertified", "nosample"}
          /\ r.err = "none" <=> r.pc = "checkpoint"
       \/ /\ r.pc = "over" /\ r.err = "none"
          /\ \E k \in 1..n :
                /\ Covers(s[k], t) /\ s[k].good
                /\ r.samples = <<[s[k] EXCEPT !.until = s[k].start + 1]>>

\* r reads the times in asked.
ReadsFor(p, r, asked) ==
    IF plan.pinned THEN Pointed(table[p], ready[p], r, Min(asked))
    ELSE Ranged(table[p], ready[p], r, Min(asked), Max(asked))

\* The targets of p the first reads did not reach.
Missing(p) ==
    {t \in {target[i][p] : i \in Instants} \ {0} :
        plan.pinned \/ SampleAt(first[p].samples, t) = NoSample}

World ==
    /\ table \in Tables /\ plan \in Plans
    /\ ready \in [Routes -> Nat] /\ \A p \in Routes : ready[p] <= Len(table[p])
    /\ phase \in Early \cup {"align", "resolve", "wallet", "price", "done"}
    /\ DOMAIN read = Routes /\ \A p \in Routes : DOMAIN read[p] = DOMAIN NoRead
    /\ DOMAIN target = Instants /\ DOMAIN answers = Instants
    /\ retries \in [Instants -> BOOLEAN] /\ DOMAIN wallet = Instants

\* The reads of route p.
Readings(p) ==
    /\ phase = "start" => read[p] = NoRead
    /\ phase = "read" => ReadsFor(p, read[p], ToSet(plan.instants))
    /\ phase \notin Early => /\ first[p].pc = "over"
                             /\ ReadsFor(p, first[p], ToSet(plan.instants))
    /\ phase = "resolve" =>
           /\ \A i \in Instants : target[i][p] = TargetOf(i, p)
           /\ IF Missing(p) = {} THEN read[p] = NoRead ELSE ReadsFor(p, read[p], Missing(p))
    /\ phase \notin {"read", "resolve"} => read[p].pc \in {"unused", "over"}

\* What p alone says of instant i when m of its samples are completed.
RawAt(m, i, p) ==
    LET s == SampleAt(SubSeq(table[p], 1, m), plan.instants[i])
    IN  IF s = NoSample THEN Failure("nosample") ELSE AnswerFrom(s)

\* An answer is a checkpoint no later than its instant, or a failure.
Dated(i, answer) ==
    \/ \E t \in 1..plan.instants[i] : answer = [at |-> t, err |-> "none"]
    \/ \E e \in {"failed", "uncertified", "nosample"} : answer = Failure(e)

\* Instant i is answered as a scan of it alone would answer it.
AsAlone(i) ==
    \E n \in [Routes -> 0..MaxTime] :
        /\ \A p \in Routes : n[p] \in first[p].had..ready[p]
        /\ \A p \in Routes : answers[i][p] = Alone(n, i, p)

\* The answers to instant i.
Answering(i) ==
    /\ phase \notin Early => \A p \in Routes : Dated(i, answers[i][p])
    /\ phase \in {"align", "resolve"} /\ ~retries[i] =>
           \A p \in Routes : \E m \in first[p].had..ready[p] :
               /\ answers[i][p] = RawAt(m, i, p)
               /\ phase = "resolve" /\ read[p].pc # "unused" => m <= read[p].had
    /\ phase \in {"wallet", "price", "done"} /\ ~retries[i] => AsAlone(i)
    /\ phase \in Early \cup {"align", "resolve", "wallet"} => wallet[i] = 0
    /\ phase \in {"align", "resolve"} /\ ~plan.pinned /\ retries[i] =>
           \E p \in Routes : FellShort(first[p], plan.instants[i])

Inv ==
    /\ World
    /\ \A p \in Routes : Readings(p)
    /\ \A i \in Instants : Answering(i) /\ DOMAIN answers[i] = Routes
    /\ OneState
    /\ RetryOnlyUnanswered
    /\ phase \in {"align", "resolve"} => plan.wallet

-----------------------------------------------------------------------------
(* Numbers and sequences.                                                  *)

\* A set of natural numbers has a least element, and Min is it.
LEMMA LeastOf ==
    ASSUME NEW S \in SUBSET Nat, S # {}
    PROVE  Min(S) \in S /\ \A y \in S : Min(S) <= y
<1>1. PICK x \in S : \A y \in S : ~(<<y, x>> \in OpToRel(<, Nat))
  BY WFMin, NatLessThanWellFounded
<1>2. ASSUME NEW y \in S PROVE x <= y
  <2>1. ~(y < x)
    BY <1>1 DEF OpToRel
  <2> QED
    BY <2>1
<1> QED
  BY <1>2 DEF Min

\* A bounded set of natural numbers has a greatest element, and Max is it.
LEMMA GreatestOf ==
    ASSUME NEW n \in Nat, NEW S \in SUBSET (0..n), S # {}
    PROVE  Max(S) \in S /\ \A y \in S : Max(S) >= y
<1> DEFINE T == {n - x : x \in S}
<1>1. T \in SUBSET Nat /\ T # {}
  <2>1. \A x \in S : n - x \in Nat
    OBVIOUS
  <2> QED
    BY <2>1
<1> HIDE DEF T
<1>2. Min(T) \in T /\ \A u \in T : Min(T) <= u
  BY <1>1, LeastOf
<1>3. PICK x \in S : Min(T) = n - x
  BY <1>2 DEF T
<1>4. ASSUME NEW y \in S PROVE x >= y
  <2>1. n - y \in T
    BY DEF T
  <2>2. n - x <= n - y
    BY <1>2, <1>3, <2>1
  <2>3. x \in 0..n /\ y \in 0..n
    OBVIOUS
  <2> QED
    BY <2>2, <2>3
<1> QED
  BY <1>4 DEF Max

\* The members of a sequence at the places from a to b, in order, are that run.
LEMMA ChosenRun ==
    ASSUME NEW S, NEW s \in Seq(S), NEW a \in 1..Len(s), NEW b \in a..Len(s)
    PROVE  Chosen(s, a..b) = SubSeq(s, a, b)
<1>1. Len(s) \in Nat /\ a \in Nat /\ b \in Nat
  OBVIOUS
<1>2. Cardinality(a..b) = b - a + 1
  BY <1>1, FS_Interval
<1> DEFINE upTo(i) == Cardinality({j \in a..b : j <= i})
<1>3. ASSUME NEW i \in a..b PROVE upTo(i) = i - a + 1
  <2>1. {j \in a..b : j <= i} = a..i
    BY <1>1
  <2>2. i \in Int /\ a \in Int /\ a <= i
    BY <1>1
  <2>3. Cardinality(a..i) = i - a + 1
    BY <2>2, FS_Interval
  <2> QED
    BY <2>1, <2>3
<1>4. Chosen(s, a..b) = [n \in 1..(b - a + 1) |-> s[CHOOSE i \in a..b : upTo(i) = n]]
  BY <1>2 DEF Chosen
<1> HIDE DEF upTo
<1>5. ASSUME NEW n \in 1..(b - a + 1)
      PROVE  (CHOOSE i \in a..b : upTo(i) = n) = a + n - 1
  <2>1. a + n - 1 \in a..b
    BY <1>1
  <2>2. \A i \in a..b : upTo(i) = n <=> i = a + n - 1
    BY <1>1, <1>3
  <2> QED
    BY <2>1, <2>2
<1>6. Chosen(s, a..b) = [n \in 1..(b - a + 1) |-> s[a + n - 1]]
  BY <1>4, <1>5
<1> QED
  BY <1>1, <1>6

\* Nothing chosen is the empty sequence.
LEMMA ChosenNone == \A s : Chosen(s, {}) = << >>
<1>1. Cardinality({}) = 0
  BY FS_EmptySet
<1> QED
  BY <1>1 DEF Chosen

-----------------------------------------------------------------------------
(* Indexes.                                                                *)

\* A sample of an index.
LEMMA SampleOf ==
    ASSUME NEW s, Tidy(s), NEW k \in 1..Len(s)
    PROVE  /\ s[k] \in Samples /\ s[k] # NoSample
           /\ s[k].start \in Nat /\ s[k].until \in Nat /\ s[k].start < s[k].until
           /\ s[k].start \in 1..MaxTime /\ s[k].until \in 1..MaxTime
<1>1. MaxTime \in Nat
  BY SampleAssumption
<1>2. s[k] \in Samples /\ s[k].start < s[k].until
  BY DEF Tidy
<1>3. \A x \in Samples : x.start \in 1..MaxTime /\ x.until \in 1..MaxTime /\ x # NoSample
  BY <1>1 DEF Samples, NoSample
<1> QED
  BY <1>1, <1>2, <1>3

\* Later samples start and end later.
LEMMA Later ==
    ASSUME NEW s, Tidy(s), NEW j \in 1..Len(s), NEW k \in 1..Len(s)
    PROVE  /\ j < k => s[j].until <= s[k].start
           /\ j <= k => s[j].start <= s[k].start /\ s[j].until <= s[k].until
<1>1. /\ s[j].start < s[j].until /\ s[j].start \in Nat /\ s[j].until \in Nat
      /\ s[k].start < s[k].until /\ s[k].start \in Nat /\ s[k].until \in Nat
  BY SampleOf
<1>2. j < k => s[j].until <= s[k].start
  BY DEF Tidy
<1>3. j \in Int /\ k \in Int /\ (j <= k => j < k \/ j = k)
  OBVIOUS
<1> QED
  BY <1>1, <1>2, <1>3

\* A run of an index.
LEMMA Runs ==
    ASSUME NEW s, Tidy(s), NEW a \in Nat \ {0}, NEW b \in Nat, b <= Len(s)
    PROVE  /\ SubSeq(s, a, b) \in Seq(Samples)
           /\ Len(SubSeq(s, a, b)) = IF a <= b THEN b - a + 1 ELSE 0
           /\ \A k \in a..b : SubSeq(s, a, b)[k - a + 1] = s[k]
           /\ ToSet(SubSeq(s, a, b)) = {s[k] : k \in a..b}
           /\ a <= b => SubSeq(s, a, b) # << >> /\ Last(SubSeq(s, a, b)) = s[b]
<1>0. PICK run : run = SubSeq(s, a, b)
  OBVIOUS
<1>1. \A k \in a..b : s[k] \in Samples
  BY DEF Tidy
<1>2. /\ run \in Seq(Samples)
      /\ Len(run) = IF a <= b THEN b - a + 1 ELSE 0
      /\ \A k \in 1..(b - a + 1) : run[k] = s[a + k - 1]
  BY <1>0, <1>1, SubSeqProperties
<1>3. \A k \in a..b : k - a + 1 \in 1..(b - a + 1) /\ a + (k - a + 1) - 1 = k
  OBVIOUS
<1>4. \A k \in a..b : run[k - a + 1] = s[k]
  BY <1>2, <1>3
<1>5. DOMAIN run = 1..Len(run)
  BY <1>2
<1>6. ToSet(run) = {s[k] : k \in a..b}
  <2>1. ASSUME NEW i \in DOMAIN run PROVE \E k \in a..b : run[i] = s[k]
    <3>1. a <= b /\ i \in 1..(b - a + 1) /\ a + i - 1 \in a..b
      BY <1>2, <1>5
    <3> QED
      BY <1>2, <3>1
  <2>2. ASSUME NEW k \in a..b PROVE \E i \in DOMAIN run : run[i] = s[k]
    <3>1. k - a + 1 \in DOMAIN run
      BY <1>2, <1>3, <1>5
    <3> QED
      BY <1>4, <3>1
  <2> QED
    BY <2>1, <2>2 DEF ToSet
<1>7. ASSUME a <= b PROVE run # << >> /\ Last(run) = s[b]
  <2>1. Len(run) = b - a + 1 /\ b \in a..b
    BY <1>2, <1>7
  <2> QED
    BY <1>4, <2>1 DEF Last
<1> QED
  BY <1>0, <1>2, <1>4, <1>6, <1>7

\* The samples from the a-th to the b-th.
RunOf(s, a, b) == {s[k] : k \in a..b}

\* The members of a run, and its last one.
LEMMA RunMembers ==
    ASSUME NEW s, Tidy(s), NEW a \in Nat \ {0}, NEW b \in Nat, b <= Len(s)
    PROVE  /\ SubSeq(s, a, b) \in Seq(Samples)
           /\ ToSet(SubSeq(s, a, b)) = RunOf(s, a, b)
           /\ a <= b => Last(SubSeq(s, a, b)) = s[b]
  BY Runs DEF RunOf

\* The samples that meet a stretch of time are a run.
LEMMA MeetingRun ==
    ASSUME NEW s, Tidy(s), NEW n \in Nat, n <= Len(s), NEW from \in Nat, NEW to \in Nat
    PROVE  \/ /\ Meeting(s, n, from, to) = << >>
              /\ \A k \in 1..n : ~Meets(s[k], from, to)
           \/ \E a, b \in 1..n :
                /\ a <= b /\ Meeting(s, n, from, to) = SubSeq(s, a, b)
                /\ \A k \in 1..n : Meets(s[k], from, to) <=> k \in a..b
<1> DEFINE K == {k \in 1..n : Meets(s[k], from, to)}
<1>1. Meeting(s, n, from, to) = Chosen(s, K)
  BY DEF Meeting
<1>2. CASE K = {}
  BY <1>1, <1>2, ChosenNone
<1>3. CASE K # {}
  <2>1. K \in SUBSET Nat /\ K \in SUBSET (0..n)
    OBVIOUS
  <2>2. PICK a \in K : \A k \in K : a <= k
    BY <1>3, <2>1, LeastOf
  <2>3. PICK b \in K : \A k \in K : b >= k
    BY <1>3, <2>1, GreatestOf
  <2>4. a \in 1..n /\ b \in 1..n /\ a <= b
    BY <2>2, <2>3
  <2>5. ASSUME NEW k \in a..b PROVE k \in K
    <3>1. Len(s) \in Nat
      BY DEF Tidy
    <3>2. k \in 1..n /\ k \in 1..Len(s) /\ a \in 1..Len(s) /\ b \in 1..Len(s)
      BY <2>4, <3>1
    <3>3. a <= k /\ k <= b
      BY <2>4
    <3>4. s[k].start <= s[b].start /\ s[a].until <= s[k].until
      BY <3>2, <3>3, Later
    <3>5. s[b].start <= to /\ s[a].until > from
      BY <2>2, <2>3 DEF Meets
    <3>6. s[k].start \in Nat /\ s[b].start \in Nat /\ s[a].until \in Nat /\ s[k].until \in Nat
      BY <3>2, SampleOf
    <3>7. s[k].start <= to /\ s[k].until > from
      <4>1. from \in Nat /\ to \in Nat
        OBVIOUS
      <4> QED
        BY ONLY <3>4, <3>5, <3>6, <4>1
    <3> QED
      BY <3>2, <3>7 DEF Meets
  <2>6. K = a..b
    BY <2>1, <2>2, <2>3, <2>4, <2>5
  <2>7. Chosen(s, a..b) = SubSeq(s, a, b)
    <3>1. s \in Seq(Samples) /\ a \in 1..Len(s) /\ b \in a..Len(s)
      BY <2>4 DEF Tidy
    <3> QED
      BY <3>1, ChosenRun
  <2> QED
    BY <1>1, <2>4, <2>6, <2>7
<1> QED
  BY <1>2, <1>3

\* Of samples of one index at most one covers a time, and it is the one found.
LEMMA FoundAt ==
    ASSUME NEW s, Tidy(s), NEW t \in Nat, NEW samples,
           ToSet(samples) \subseteq {s[k] : k \in 1..Len(s)}
    PROVE  /\ SampleAt(samples, t) = NoSample <=> ~\E x \in ToSet(samples) : Covers(x, t)
           /\ \A x \in ToSet(samples) : Covers(x, t) => SampleAt(samples, t) = x
           /\ SampleAt(samples, t) # NoSample =>
                SampleAt(samples, t) \in ToSet(samples) /\ Covers(SampleAt(samples, t), t)
<1> DEFINE covering == {x \in ToSet(samples) : Covers(x, t)}
<1>1. ASSUME NEW x \in covering, NEW y \in covering PROVE x = y
  <2>1. PICK j \in 1..Len(s) : x = s[j]
    OBVIOUS
  <2>2. PICK k \in 1..Len(s) : y = s[k]
    OBVIOUS
  <2>3. s[j].start <= t /\ t < s[j].until /\ s[k].start <= t /\ t < s[k].until
    BY <2>1, <2>2 DEF Covers
  <2>4. /\ s[j].start \in Nat /\ s[j].until \in Nat /\ s[k].start \in Nat /\ s[k].until \in Nat
        /\ j < k => s[j].until <= s[k].start
        /\ k < j => s[k].until <= s[j].start
    BY SampleOf, Later
  <2>5. j \in Int /\ k \in Int
    OBVIOUS
  <2>6. j = k
    BY <2>3, <2>4, <2>5
  <2> QED
    BY <2>1, <2>2, <2>6
<1>2. \A x \in covering : x # NoSample /\ x.start \in Nat
  BY SampleOf
<1>3. SampleAt(samples, t) =
          IF covering = {} THEN NoSample
          ELSE CHOOSE x \in covering : \A y \in covering : y.start <= x.start
  BY DEF SampleAt
<1> HIDE DEF covering
<1>4. ASSUME NEW x \in covering PROVE SampleAt(samples, t) = x
  <2>1. \A y \in covering : y.start <= x.start
    BY <1>1, <1>2
  <2> QED
    BY <1>1, <1>3, <2>1
<1>5. covering = {} => SampleAt(samples, t) = NoSample
  BY <1>3
<1>6. \A x : x \in covering <=> x \in ToSet(samples) /\ Covers(x, t)
  BY DEF covering
<1> QED
  BY <1>2, <1>4, <1>5, <1>6

\* Of the first n samples of an index, the one covering a time is found.
LEMMA FoundCompleted ==
    ASSUME NEW s, Tidy(s), NEW n \in Nat, n <= Len(s), NEW t \in Nat,
           NEW x, x = SampleAt(SubSeq(s, 1, n), t)
    PROVE  /\ \A k \in 1..n : Covers(s[k], t) => x = s[k]
           /\ (\A k \in 1..n : ~Covers(s[k], t)) => x = NoSample
           /\ x # NoSample => \E k \in 1..n : x = s[k] /\ Covers(s[k], t)
<1>1. Len(s) \in Nat /\ 1..n \subseteq 1..Len(s)
  BY DEF Tidy
<1>2. ToSet(SubSeq(s, 1, n)) = {s[k] : k \in 1..n}
  <2>1. PICK one \in Nat \ {0} : one = 1
    OBVIOUS
  <2>2. ToSet(SubSeq(s, one, n)) = {s[k] : k \in one..n}
    BY <1>1, Runs
  <2> QED
    BY <2>1, <2>2
<1>3. ToSet(SubSeq(s, 1, n)) \subseteq {s[k] : k \in 1..Len(s)}
  BY <1>1, <1>2
<1>4. PICK some : some = ToSet(SubSeq(s, 1, n))
  OBVIOUS
<1>5. /\ x = NoSample <=> ~\E y \in some : Covers(y, t)
      /\ \A y \in some : Covers(y, t) => x = y
      /\ x # NoSample => x \in some /\ Covers(x, t)
  BY <1>3, <1>4, FoundAt
<1> QED
  BY <1>2, <1>4, <1>5

-----------------------------------------------------------------------------
(* A range read.                                                           *)

\* What a range read holds is of its index.
LEMMA RangedSamples ==
    ASSUME NEW s, Tidy(s), NEW n \in Nat, n <= Len(s), NEW r, NEW lo \in Nat, NEW hi \in Nat,
           Ranged(s, n, r, lo, hi)
    PROVE  /\ r.samples \in Seq(Samples)
           /\ ToSet(r.samples) \subseteq {s[k] : k \in 1..n}
           /\ ToSet(r.samples) \subseteq {s[k] : k \in 1..Len(s)}
<1>1. CASE r.samples = << >>
  BY <1>1 DEF ToSet
<1>2. ASSUME NEW a \in 1..n, NEW b \in 1..n, a <= b, r.samples = SubSeq(s, a, b)
      PROVE  /\ r.samples \in Seq(Samples)
             /\ ToSet(r.samples) \subseteq {s[k] : k \in 1..n}
  <2>1. a \in Nat \ {0} /\ b \in Nat /\ b <= Len(s)
    BY DEF Tidy
  <2>2. r.samples \in Seq(Samples) /\ ToSet(r.samples) = {s[k] : k \in a..b}
    <3>1. SubSeq(s, a, b) \in Seq(Samples) /\ ToSet(SubSeq(s, a, b)) = RunOf(s, a, b)
      BY <2>1, RunMembers
    <3> QED
      BY ONLY <1>2, <3>1 DEF RunOf
  <2>3. a..b \subseteq 1..n
    OBVIOUS
  <2> QED
    BY <2>2, <2>3
<1>3. 1..n \subseteq 1..Len(s)
  BY DEF Tidy
<1>4. /\ r.samples \in Seq(Samples)
      /\ ToSet(r.samples) \subseteq {s[k] : k \in 1..n}
  BY <1>1, <1>2 DEF Ranged
<1> QED
  BY <1>3, <1>4

\* A range read that is over, did not fall short of t and holds no sample covering
\* it shows that none was completed when it began.
LEMMA Reached ==
    ASSUME NEW s, Tidy(s), NEW n \in Nat, n <= Len(s), NEW r, NEW lo \in Nat, NEW hi \in Nat,
           Ranged(s, n, r, lo, hi), r.pc = "over", NEW t \in Nat, lo <= t, t <= hi,
           SampleAt(r.samples, t) = NoSample, ~FellShort(r, t),
           NEW k \in 1..r.had
    PROVE  ~Covers(s[k], t)
<1> SUFFICES ASSUME Covers(s[k], t) PROVE FALSE
  OBVIOUS
<1>1. k \in 1..n /\ k \in 1..Len(s) /\ k \in Int
  BY DEF Ranged, Tidy
<1>2. s[k] \notin ToSet(r.samples)
  <2>1. ToSet(r.samples) \subseteq {s[i] : i \in 1..Len(s)}
    BY RangedSamples
  <2> QED
    BY <2>1, FoundAt
<1>3. s[k].start \in Nat /\ s[k].until \in Nat /\ s[k].start <= t /\ t < s[k].until
  BY <1>1, SampleOf DEF Covers
<1>4. CASE r.err = "none"
  <2>1. Meets(s[k], lo, hi)
    BY <1>3 DEF Meets
  <2> QED
    BY <1>2, <1>4, <2>1 DEF Ranged
<1>5. CASE r.err # "none"
  <2>1. r.samples # << >> /\ ~(t >= Last(r.samples).until)
    BY <1>5 DEF FellShort
  <2>2. PICK a \in 1..n, b \in 1..n :
            /\ a <= b /\ r.samples = SubSeq(s, a, b)
            /\ \A i \in 1..(a - 1) : s[i].until <= lo
    BY <2>1 DEF Ranged
  <2>3. a \in Nat \ {0} /\ b \in Nat /\ b <= Len(s) /\ b \in 1..Len(s)
    BY DEF Tidy
  <2>4. Last(r.samples) = s[b] /\ ToSet(r.samples) = {s[i] : i \in a..b}
    BY <2>2, <2>3, Runs
  <2>5. s[b].until \in Nat /\ t < s[b].until
    BY <2>1, <2>3, <2>4, SampleOf
  <2>6. ~(k < a)
    <3> SUFFICES ASSUME k < a PROVE FALSE
      OBVIOUS
    <3>1. k \in 1..(a - 1)
      BY <1>1, <2>3
    <3>2. s[k].until <= lo
      BY <2>2, <3>1
    <3> QED
      BY <1>3, <3>2
  <2>7. ~(b < k)
    <3> SUFFICES ASSUME b < k PROVE FALSE
      OBVIOUS
    <3>1. s[b].until <= s[k].start
      BY <1>1, <2>3, Later
    <3> QED
      BY <1>3, <2>5, <3>1
  <2>8. k \in a..b
    BY <1>1, <2>3, <2>6, <2>7
  <2> QED
    BY <1>2, <2>4, <2>8
<1> QED
  BY <1>4, <1>5

\* The least and the greatest of two.
LEMMA LesserOf ==
    ASSUME NEW x \in Nat, NEW y \in Nat
    PROVE  Min({x, y}) \in {x, y} /\ Min({x, y}) <= x /\ Min({x, y}) <= y
<1>1. {x, y} \in SUBSET Nat /\ {x, y} # {}
  OBVIOUS
<1>2. Min({x, y}) \in {x, y} /\ \A z \in {x, y} : Min({x, y}) <= z
  BY <1>1, LeastOf
<1> QED
  BY <1>2

\* A statement selects nothing, when no sample meets what it asks for, or a run that
\* begins with the first that does.
Selects(s, n, from, to, sel) ==
    \/ sel = << >> /\ \A k \in 1..n : ~Meets(s[k], from, to)
    \/ \E c, e \in 1..n :
         /\ c <= e /\ sel = SubSeq(s, c, e) /\ sel # << >> /\ Last(sel) = s[e]
         /\ s[c].until > from /\ s[e].start <= to
         /\ \A k \in 1..(c - 1) : s[k].until <= from

\* What rangeSQL and its limit select.
LEMMA SelectedRun ==
    ASSUME NEW s, Tidy(s), NEW n \in Nat, n <= Len(s), NEW from \in Nat, NEW to \in Nat,
           NEW limit \in Nat \ {0}, NEW m, m = Meeting(s, n, from, to),
           NEW sel, sel = SubSeq(m, 1, Min({limit, Len(m)}))
    PROVE  Selects(s, n, from, to, sel)
<1>1. CASE m = << >> /\ \A k \in 1..n : ~Meets(s[k], from, to)
  <2>1. Len(m) = 0
    BY <1>1
  <2>2. Min({limit, Len(m)}) \in Nat /\ Min({limit, Len(m)}) <= 0
    BY <2>1, LesserOf
  <2>3. sel = << >>
    BY <1>1, <2>2
  <2> QED
    BY <1>1, <2>3 DEF Selects
<1>2. ASSUME NEW a \in 1..n, NEW b \in 1..n, a <= b, m = SubSeq(s, a, b),
             \A k \in 1..n : Meets(s[k], from, to) <=> k \in a..b
      PROVE  \E c, e \in 1..n :
                /\ c <= e /\ sel = SubSeq(s, c, e) /\ sel # << >> /\ Last(sel) = s[e]
                /\ s[c].until > from /\ s[e].start <= to
                /\ \A k \in 1..(c - 1) : s[k].until <= from
  <2>1. Len(s) \in Nat /\ s \in Seq(Samples) /\ a \in Nat \ {0} /\ b \in Nat /\ b <= Len(s)
    BY DEF Tidy
  <2>2. Len(m) = b - a + 1 /\ m \in Seq(Samples)
    BY <1>2, <2>1, Runs
  <2>3. PICK l : l = Min({limit, Len(m)})
    OBVIOUS
  <2>4. l \in 1..(b - a + 1)
    <3>1. Len(m) \in Nat /\ Len(m) >= 1 /\ limit \in Nat /\ limit >= 1
      BY <1>2, <2>1, <2>2
    <3>2. l \in {limit, Len(m)} /\ l <= limit /\ l <= Len(m)
      BY <2>3, <3>1, LesserOf
    <3> QED
      BY <2>2, <3>1, <3>2
  <2>5. PICK e : e = a + l - 1
    OBVIOUS
  <2>6. e \in 1..n /\ e \in Nat /\ a <= e /\ e <= b /\ e <= Len(s) /\ e \in a..b
    BY <2>1, <2>4, <2>5
  <2>7. sel = SubSeq(s, a, e)
    <3>1. a \in 1..Len(s) /\ b \in 1..Len(s) /\ 1 \in 1..(b - a + 1) /\ a + 1 - 1 = a
      BY <1>2, <2>1
    <3>2. SubSeq(SubSeq(s, a, b), 1, l) = SubSeq(s, a + 1 - 1, a + l - 1)
      BY <2>1, <2>4, <3>1, SubSeqOfSubSeq
    <3> QED
      BY <1>2, <2>3, <2>5, <3>1, <3>2
  <2>8. sel # << >> /\ Last(sel) = s[e]
    BY <2>1, <2>6, <2>7, Runs
  <2>9. a \in a..b
    BY <1>2
  <2>10. s[a].until > from /\ s[e].start <= to
    BY <1>2, <2>6, <2>9 DEF Meets
  <2>11. ASSUME NEW k \in 1..(a - 1) PROVE s[k].until <= from
    <3>1. k \in 1..n /\ k \notin a..b /\ k \in 1..Len(s) /\ a \in 1..Len(s) /\ k <= a
      BY <2>1
    <3>2. ~Meets(s[k], from, to) /\ Meets(s[a], from, to)
      BY <1>2, <2>9, <3>1
    <3>3. s[k].start <= s[a].start
      BY <3>1, Later
    <3>4. s[k].start \in Nat /\ s[k].until \in Nat /\ s[a].start \in Nat
      BY <3>1, SampleOf
    <3>5. s[a].start <= to /\ ~(s[k].start <= to /\ s[k].until > from)
      BY <3>2 DEF Meets
    <3> QED
      <4>1. from \in Nat /\ to \in Nat
        OBVIOUS
      <4> QED
        BY ONLY <3>3, <3>4, <3>5, <4>1
  <2> QED
    BY <1>2, <2>6, <2>7, <2>8, <2>10, <2>11
<1>3. \/ m = << >> /\ \A k \in 1..n : ~Meets(s[k], from, to)
      \/ \E a, b \in 1..n : /\ a <= b /\ m = SubSeq(s, a, b)
                            /\ \A k \in 1..n : Meets(s[k], from, to) <=> k \in a..b
  BY MeetingRun
<1> QED
  BY <1>1, <1>2, <1>3 DEF Selects

\* A statement's samples go on where the read had come to.
LEMMA StatementGoesOn ==
    ASSUME NEW s, Tidy(s), NEW n \in Nat, n <= Len(s), NEW lo \in Nat, NEW hi \in Nat,
           NEW r, Ranged(s, n, r, lo, hi), r.pc = "range",
           NEW c \in 1..n, NEW e \in 1..n, c <= e,
           s[c].until > r.from, s[e].start <= r.to, \A k \in 1..(c - 1) : s[k].until <= r.from,
           NEW q, q.samples = r.samples \o SubSeq(s, c, e), q.from = s[e].until,
           q.limit \in Nat \ {0}, q.ceiling = r.ceiling, q.to = r.to, q.had = r.had,
           q.pc = r.pc, q.err = r.err
    PROVE  Ranged(s, n, q, lo, hi)
<1>1. Len(s) \in Nat /\ s \in Seq(Samples) /\ c \in Nat \ {0} /\ e \in Nat /\ e <= Len(s)
  BY DEF Tidy
<1>2. /\ lo <= hi /\ q.to = hi /\ s[e].start <= hi
      /\ q.limit \in Nat \ {0} /\ q.ceiling \in Nat \ {0}
      /\ q.had \in 0..n
      /\ q.err \in {"none", "failed"} /\ q.pc \in {"range", "over"}
      /\ q.pc # "over"
  BY DEF Ranged
<1>3. \E a \in 1..n : 
          /\ a <= e /\ q.samples = SubSeq(s, a, e)
          /\ \A k \in 1..(a - 1) : s[k].until <= lo
          /\ s[a].until > lo
  <2>1. CASE r.samples = << >> /\ r.from = lo
    <3>1. SubSeq(s, c, e) \in Seq(Samples)
      BY <1>1, Runs
    <3>2. q.samples = SubSeq(s, c, e)
      BY <2>1, <3>1, ConcatEmptySeq
    <3> QED
      BY <2>1, <3>2
  <2>2. ASSUME NEW a \in 1..n, NEW b \in 1..n, a <= b, r.samples = SubSeq(s, a, b),
               r.from = s[b].until, \A k \in 1..(a - 1) : s[k].until <= lo, s[a].until > lo
        PROVE  /\ a <= e /\ q.samples = SubSeq(s, a, e)
               /\ \A k \in 1..(a - 1) : s[k].until <= lo
               /\ s[a].until > lo
    <3>1. a \in 1..Len(s) /\ b \in 1..Len(s) /\ c \in 1..Len(s)
      <4>1. a \in Nat /\ 1 <= a /\ a <= n /\ b \in Nat /\ 1 <= b /\ b <= n
            /\ c \in Nat /\ 1 <= c /\ c <= n /\ n \in Nat /\ n <= Len(s) /\ Len(s) \in Nat
        BY <1>1
      <4> QED
        BY ONLY <4>1
    <3>2. s[b].until \in Nat /\ s[c].until \in Nat
      BY <3>1, SampleOf
    <3>3. ~(c <= b)
      <4>1. r.from = s[b].until /\ s[c].until > r.from
        BY <2>2
      <4>2. c <= b => s[c].until <= s[b].until
        BY <3>1, Later
      <4> QED
        BY ONLY <3>2, <4>1, <4>2
    <3>4. ~(b + 1 < c)
      <4> SUFFICES ASSUME b + 1 < c PROVE FALSE
        OBVIOUS
      <4>0. PICK d : d = b + 1
        OBVIOUS
      <4>1. d \in 1..(c - 1) /\ d \in 1..Len(s) /\ b < d
        BY <1>1, <3>1, <4>0
      <4>2. s[d].until <= s[b].until
        BY <2>2, <4>1
      <4>3. s[b].until <= s[d].start
        BY <3>1, <4>1, Later
      <4>4. s[d].start < s[d].until /\ s[d].start \in Nat /\ s[d].until \in Nat
        BY <4>1, SampleOf
      <4> QED
        BY ONLY <3>2, <4>2, <4>3, <4>4
    <3>5. c = b + 1
      BY <3>1, <3>3, <3>4
    <3>6. SubSeq(s, a, b) \o SubSeq(s, b + 1, e) = SubSeq(s, a, e)
      <4>1. a \in 1..(Len(s) + 1) /\ b \in (a - 1)..Len(s) /\ e \in b..Len(s)
        BY <1>1, <2>2, <3>1, <3>5
      <4> QED
        BY <1>1, <4>1, ConcatAdjacentSubSeq
    <3>7. a <= e
      BY <2>2, <3>1, <3>5, <1>1
    <3> QED
      BY <2>2, <3>5, <3>6, <3>7
  <2>3. \/ r.samples = << >> /\ r.from = lo
        \/ \E a, b \in 1..n :
            /\ a <= b /\ r.samples = SubSeq(s, a, b) /\ r.from = s[b].until
            /\ \A k \in 1..(a - 1) : s[k].until <= lo
            /\ s[a].until > lo /\ s[b].start <= hi
    BY DEF Ranged
  <2> QED
    BY <2>1, <2>2, <2>3
<1> QED
  BY <1>2, <1>3 DEF Ranged

\* A range read is over well when no sample is left or it has come past the range.
LEMMA RangeEndsWhole ==
    ASSUME NEW s, Tidy(s), NEW n \in Nat, n <= Len(s), NEW lo \in Nat, NEW hi \in Nat,
           NEW r, Ranged(s, n, r, lo, hi), r.pc = "range",
           r.from <= r.to => \A k \in 1..n : ~Meets(s[k], r.from, r.to),
           NEW q, q.samples = r.samples, q.from = r.from, q.limit = r.limit,
           q.ceiling = r.ceiling, q.to = r.to, q.had = r.had, q.pc = "over", q.err = "none"
    PROVE  Ranged(s, n, q, lo, hi)
<1>1. ASSUME NEW k \in 1..r.had, Meets(s[k], lo, hi) PROVE s[k] \in ToSet(r.samples)
  <2>1. r.had \in 0..n /\ lo <= hi /\ r.to = hi
    BY DEF Ranged
  <2>2. Len(s) \in Nat /\ k \in 1..n /\ k \in 1..Len(s) /\ k \in Int
    BY <2>1 DEF Tidy
  <2>3. s[k].start \in Nat /\ s[k].until \in Nat /\ s[k].start < s[k].until
    BY <2>2, SampleOf
  <2>4. s[k].start <= hi /\ s[k].until > lo
    BY <1>1 DEF Meets
  <2>5. CASE r.samples = << >> /\ r.from = lo
    BY <1>1, <2>1, <2>2, <2>5
  <2>6. ASSUME NEW a \in 1..n, NEW b \in 1..n, a <= b, r.samples = SubSeq(s, a, b),
               r.from = s[b].until, \A j \in 1..(a - 1) : s[j].until <= lo
        PROVE  s[k] \in ToSet(r.samples)
    <3>1. a \in Nat \ {0} /\ b \in Nat /\ b <= Len(s) /\ b \in 1..Len(s) /\ a \in Int /\ b \in Int
      BY <2>2
    <3>2. ToSet(r.samples) = {s[j] : j \in a..b}
      BY <2>6, <3>1, Runs
    <3>3. ~(k < a)
      <4> SUFFICES ASSUME k < a PROVE FALSE
        OBVIOUS
      <4>1. k \in 1..(a - 1)
        BY <2>2, <3>1
      <4>2. s[k].until <= lo
        BY <2>6, <4>1
      <4> QED
        BY <2>3, <2>4, <4>2
    <3>4. ~(b < k)
      <4> SUFFICES ASSUME b < k PROVE FALSE
        OBVIOUS
      <4>1. r.from <= s[k].start
        BY <2>2, <2>6, <3>1, Later
      <4>2. r.from \in Nat
        BY <2>6, <3>1, SampleOf
      <4>3. r.from <= r.to /\ s[k].start <= r.to /\ s[k].until > r.from
        BY <2>1, <2>3, <2>4, <4>1, <4>2
      <4>4. Meets(s[k], r.from, r.to)
        BY <4>3 DEF Meets
      <4> QED
        BY <2>2, <4>3, <4>4
    <3>5. k \in a..b
      BY <2>2, <3>1, <3>3, <3>4
    <3> QED
      BY <3>2, <3>5
  <2>7. \/ r.samples = << >> /\ r.from = lo
        \/ \E a, b \in 1..n : /\ a <= b /\ r.samples = SubSeq(s, a, b)
                              /\ r.from = s[b].until
                              /\ \A j \in 1..(a - 1) : s[j].until <= lo
    BY DEF Ranged
  <2> QED
    BY <2>5, <2>6, <2>7
<1>2. /\ lo <= hi /\ q.to = hi
      /\ q.limit \in Nat \ {0} /\ q.ceiling \in Nat \ {0}
      /\ q.had \in 0..n
      /\ \/ q.samples = << >> /\ q.from = lo
         \/ \E a, b \in 1..n :
            /\ a <= b /\ q.samples = SubSeq(s, a, b) /\ q.from = s[b].until
            /\ \A k \in 1..(a - 1) : s[k].until <= lo
            /\ s[a].until > lo /\ s[b].start <= hi
  BY DEF Ranged
<1> QED
  BY <1>1, <1>2 DEF Ranged

\* A read keeps what it holds when it is sized anew or fails.
LEMMA RangedAnew ==
    ASSUME NEW s, NEW n, NEW lo, NEW hi, NEW r, Ranged(s, n, r, lo, hi),
           NEW q, q.samples = r.samples, q.from = r.from, q.to = r.to, q.had = r.had,
           q.limit \in Nat \ {0}, q.ceiling \in Nat \ {0},
           \/ q.pc = "range" /\ q.err = r.err
           \/ q.pc = "over" /\ q.err = "failed"
    PROVE  Ranged(s, n, q, lo, hi)
<1>1. /\ lo <= hi /\ q.to = hi
      /\ q.had \in 0..n
      /\ \/ q.samples = << >> /\ q.from = lo
         \/ \E a, b \in 1..n :
            /\ a <= b /\ q.samples = SubSeq(s, a, b) /\ q.from = s[b].until
            /\ \A k \in 1..(a - 1) : s[k].until <= lo
            /\ s[a].until > lo /\ s[b].start <= hi
      /\ r.err \in {"none", "failed"}
  BY DEF Ranged
<1>2. /\ q.err \in {"none", "failed"} /\ q.pc \in {"range", "over"}
      /\ ~(q.pc = "over" /\ q.err = "none")
  BY <1>1
<1> QED
  BY <1>1, <1>2 DEF Ranged

\* A read keeps what it says when further samples are completed.
LEMMA MoreCompleted ==
    ASSUME NEW s, NEW n \in Nat, NEW m \in Nat, n <= m, NEW r, NEW lo, NEW hi
    PROVE  /\ Ranged(s, n, r, lo, hi) => Ranged(s, m, r, lo, hi)
           /\ Pointed(s, n, r, lo) => Pointed(s, m, r, lo)
<1>1. 1..n \subseteq 1..m /\ 0..n \subseteq 0..m
  OBVIOUS
<1>2. ASSUME Ranged(s, n, r, lo, hi) PROVE Ranged(s, m, r, lo, hi)
  BY <1>1, <1>2 DEF Ranged
<1>3. ASSUME Pointed(s, n, r, lo) PROVE Pointed(s, m, r, lo)
  BY <1>1, <1>3 DEF Pointed
<1> QED
  BY <1>2, <1>3

\* The runs of an index: one that begins where another begins and ends no later is
\* a prefix of it.
LEMMA RunPrefix ==
    ASSUME NEW s, Tidy(s), NEW a \in Nat \ {0}, NEW b \in Nat, NEW e \in Nat,
           a <= b, b <= e, e <= Len(s)
    PROVE  IsPrefix(SubSeq(s, a, b), SubSeq(s, a, e))
<1>1. Len(s) \in Nat /\ s \in Seq(Samples)
  BY DEF Tidy
<1>2. PICK u : u = SubSeq(s, a, b)
  OBVIOUS
<1>3. PICK v : v = SubSeq(s, a, e)
  OBVIOUS
<1>4. u \in Seq(Samples) /\ Len(u) = b - a + 1 /\ v \in Seq(Samples) /\ Len(v) = e - a + 1
  BY <1>1, <1>2, <1>3, Runs
<1>5. Len(u) <= Len(v)
  BY <1>4
<1>6. SubSeq(u, 1, Len(u)) = u
  BY <1>4, SubSeqFull
<1>7. SubSeq(v, 1, Len(u)) = u
  <2>0. PICK l : l = b - a + 1
    OBVIOUS
  <2>1. /\ a \in 1..Len(s) /\ e \in 1..Len(s) /\ 1 \in 1..(e - a + 1) /\ l \in 1..(e - a + 1)
        /\ a + 1 - 1 = a /\ a + l - 1 = b
    BY <1>1, <2>0
  <2>2. SubSeq(SubSeq(s, a, e), 1, l) = SubSeq(s, a + 1 - 1, a + l - 1)
    BY <1>1, <2>1, SubSeqOfSubSeq
  <2> QED
    BY <1>2, <1>3, <1>4, <2>0, <2>1, <2>2
<1> QED
  BY <1>2, <1>3, <1>5, <1>6, <1>7 DEF IsPrefix

\* Nothing is a prefix of anything.
LEMMA NothingPrefix ==
    ASSUME NEW s \in Seq(Samples)
    PROVE  IsPrefix(<< >>, s)
<1>1. Len(<< >>) = 0 /\ Len(s) \in Nat
  OBVIOUS
<1>2. SubSeq(<< >>, 1, 0) = << >> /\ SubSeq(s, 1, 0) = << >>
  OBVIOUS
<1> QED
  BY <1>1, <1>2 DEF IsPrefix

\* A range read holds the first of the samples of the range, and all of them that were
\* completed when it began if it is over well.
LEMMA ReadWhole ==
    ASSUME NEW s, Tidy(s), NEW n \in Nat, n <= Len(s), NEW lo \in Nat, NEW hi \in Nat,
           NEW r, Ranged(s, n, r, lo, hi)
    PROVE  /\ IsPrefix(r.samples, Meeting(s, n, lo, hi))
           /\ r.pc = "over" /\ r.err = "none" => IsPrefix(Meeting(s, r.had, lo, hi), r.samples)
<1>1. Len(s) \in Nat /\ r.had \in Nat /\ r.had <= n /\ r.had <= Len(s)
  BY DEF Ranged, Tidy
<1>2. ASSUME NEW m \in Nat, m <= Len(s)
      PROVE  \/ /\ Meeting(s, m, lo, hi) = << >>
                /\ \A k \in 1..m : ~Meets(s[k], lo, hi)
             \/ \E a, b \in 1..m :
                  /\ a <= b /\ Meeting(s, m, lo, hi) = SubSeq(s, a, b)
                  /\ \A k \in 1..m : Meets(s[k], lo, hi) <=> k \in a..b
  BY <1>2, MeetingRun
<1>3. ASSUME NEW m \in Nat, m <= Len(s) PROVE Meeting(s, m, lo, hi) \in Seq(Samples)
  <2>1. ASSUME NEW a \in 1..m, NEW b \in 1..m PROVE SubSeq(s, a, b) \in Seq(Samples)
    <3>1. a \in Nat \ {0} /\ b \in Nat /\ b <= Len(s)
      BY <1>1, <1>3
    <3> QED
      BY <3>1, Runs
  <2>2. << >> \in Seq(Samples)
    BY EmptySeq
  <2>3. \/ Meeting(s, m, lo, hi) = << >>
        \/ \E a, b \in 1..m : Meeting(s, m, lo, hi) = SubSeq(s, a, b)
    BY <1>2, <1>3
  <2> QED
    BY <2>1, <2>2, <2>3
<1>4. r.samples \in Seq(Samples)
  BY RangedSamples
<1>5. ASSUME NEW a \in 1..n, NEW b \in 1..n, a <= b, r.samples = SubSeq(s, a, b),
             \A k \in 1..(a - 1) : s[k].until <= lo, s[a].until > lo, s[b].start <= hi
      PROVE  /\ Meets(s[a], lo, hi) /\ Meets(s[b], lo, hi)
             /\ \A k \in 1..(a - 1) : ~Meets(s[k], lo, hi)
  <2>1. a \in 1..Len(s) /\ b \in 1..Len(s)
    BY <1>1
  <2>2. s[a].start <= s[b].start /\ s[a].until <= s[b].until
    BY <1>5, <2>1, Later
  <2>3. s[a].start \in Nat /\ s[b].start \in Nat /\ s[a].until \in Nat /\ s[b].until \in Nat
    BY <2>1, SampleOf
  <2>4. s[a].start <= hi /\ s[b].until > lo
    <3>1. s[a].until > lo /\ s[b].start <= hi
      BY <1>5
    <3> QED
      <4>1. lo \in Nat /\ hi \in Nat
        OBVIOUS
      <4> QED
        BY ONLY <2>2, <2>3, <3>1, <4>1
  <2>5. ASSUME NEW k \in 1..(a - 1) PROVE ~(s[k].until > lo)
    <3>1. k \in 1..Len(s)
      BY <2>1
    <3>2. s[k].until \in Nat /\ s[k].until <= lo
      BY <1>5, <3>1, SampleOf
    <3> QED
      BY <3>2
  <2> QED
    BY <1>5, <2>4, <2>5 DEF Meets
<1>6. IsPrefix(r.samples, Meeting(s, n, lo, hi))
  <2>1. CASE r.samples = << >>
    BY <1>3, <2>1, NothingPrefix
  <2>2. CASE r.samples # << >>
    <3>1. PICK a \in 1..n, b \in 1..n :
              /\ a <= b /\ r.samples = SubSeq(s, a, b)
              /\ \A k \in 1..(a - 1) : s[k].until <= lo
              /\ s[a].until > lo /\ s[b].start <= hi
      BY <2>2 DEF Ranged
    <3>2. /\ Meets(s[a], lo, hi) /\ Meets(s[b], lo, hi)
          /\ \A k \in 1..(a - 1) : ~Meets(s[k], lo, hi)
      BY <1>5, <3>1
    <3>3. PICK c \in 1..n, e \in 1..n :
              /\ c <= e /\ Meeting(s, n, lo, hi) = SubSeq(s, c, e)
              /\ \A k \in 1..n : Meets(s[k], lo, hi) <=> k \in c..e
      BY <1>2, <3>2
    <3>4. a \in c..e /\ b \in c..e /\ c \in c..e
      BY <3>2, <3>3
    <3>5. c \notin 1..(a - 1)
      BY <3>2, <3>3, <3>4
    <3>6. a = c /\ b <= e
      BY <3>4, <3>5
    <3>7. a \in Nat \ {0} /\ b \in Nat /\ e \in Nat /\ e <= Len(s)
      BY <1>1
    <3> QED
      BY <3>1, <3>3, <3>6, <3>7, RunPrefix
  <2> QED
    BY <2>1, <2>2
<1>7. ASSUME r.pc = "over", r.err = "none" PROVE IsPrefix(Meeting(s, r.had, lo, hi), r.samples)
  <2>1. CASE Meeting(s, r.had, lo, hi) = << >>
    BY <1>4, <2>1, NothingPrefix
  <2>2. CASE Meeting(s, r.had, lo, hi) # << >>
    <3>1. PICK c \in 1..r.had, e \in 1..r.had :
              /\ c <= e /\ Meeting(s, r.had, lo, hi) = SubSeq(s, c, e)
              /\ \A k \in 1..r.had : Meets(s[k], lo, hi) <=> k \in c..e
      BY <1>1, <1>2, <2>2
    <3>2. \A k \in 1..r.had : Meets(s[k], lo, hi) => s[k] \in ToSet(r.samples)
      BY <1>7 DEF Ranged
    <3>3. c \in c..e /\ e \in c..e
      BY <3>1
    <3>4. Meets(s[c], lo, hi) /\ s[c] \in ToSet(r.samples) /\ s[e] \in ToSet(r.samples)
      BY <3>1, <3>2, <3>3
    <3>5. r.samples # << >>
      BY <3>4 DEF ToSet
    <3>6. PICK a \in 1..n, b \in 1..n :
              /\ a <= b /\ r.samples = SubSeq(s, a, b)
              /\ \A k \in 1..(a - 1) : s[k].until <= lo
              /\ s[a].until > lo /\ s[b].start <= hi
      BY <3>5 DEF Ranged
    <3>7. /\ Meets(s[a], lo, hi)
          /\ \A k \in 1..(a - 1) : ~Meets(s[k], lo, hi)
      BY <1>5, <3>6
    <3>8. a \in Nat \ {0} /\ b \in Nat /\ c \in Nat /\ e \in Nat /\ b <= Len(s) /\ e <= Len(s)
      BY <1>1
    <3>9. c \notin 1..(a - 1)
      BY <3>4, <3>7
    <3>10. a <= c
      BY <3>8, <3>9
    <3>11. e <= b
      <4>1. ToSet(r.samples) = {s[k] : k \in a..b}
        <5>1. ToSet(SubSeq(s, a, b)) = RunOf(s, a, b)
          BY <3>8, RunMembers
        <5> QED
          BY ONLY <3>6, <5>1 DEF RunOf
      <4>2. PICK k \in a..b : s[e] = s[k]
        BY <3>4, <4>1
      <4>3. k \in 1..Len(s) /\ e \in 1..Len(s) /\ k <= b
        BY <1>1, <3>8
      <4>4. ~(k < e)
        <5> SUFFICES ASSUME k < e PROVE FALSE
          OBVIOUS
        <5>1. s[k].until <= s[e].start
          BY <4>3, Later
        <5>2. s[k].start < s[k].until /\ s[k].start \in Nat /\ s[k].until \in Nat
          BY <4>3, SampleOf
        <5> QED
          BY <4>2, <5>1, <5>2
      <4> QED
        BY <3>8, <4>3, <4>4
    <3>12. a \in 1..r.had
      BY <1>1, <3>1, <3>8, <3>10
    <3>13. a \in c..e
      BY <3>1, <3>7, <3>12
    <3>14. a = c
      BY <3>8, <3>10, <3>13
    <3> QED
      BY <3>1, <3>6, <3>8, <3>11, <3>14, RunPrefix
  <2> QED
    BY <2>1, <2>2
<1> QED
  BY <1>6, <1>7

-----------------------------------------------------------------------------
(* A read at a checkpoint.                                                 *)

\* It is answered with the completed sample covering the checkpoint, or that there is
\* none, or that it cannot be certified.
LEMMA PointAnswered ==
    ASSUME NEW s, Tidy(s), NEW n \in Nat, n <= Len(s), NEW t \in Nat,
           NEW r, Pointed(s, n, r, t), r.pc = "checkpoint",
           NEW x, x = SampleAt(SubSeq(s, 1, n), t),
           NEW q, q.from = r.from, q.had = r.had, q.pc = "over",
           \/ q.samples = r.samples /\ q.err \in {"nosample", "uncertified", "failed"}
           \/ /\ x # NoSample /\ x.good /\ q.err = r.err
              /\ q.samples = <<[x EXCEPT !.until = x.start + 1]>>
    PROVE  Pointed(s, n, q, t)
<1>1. /\ q.from = t /\ q.had \in 0..n
      /\ r.samples = << >> /\ r.err = "none"
  BY DEF Pointed
<1>2. CASE q.samples = r.samples /\ q.err \in {"nosample", "uncertified", "failed"}
  BY <1>1, <1>2 DEF Pointed
<1>3. CASE /\ x # NoSample /\ x.good /\ q.err = r.err
           /\ q.samples = <<[x EXCEPT !.until = x.start + 1]>>
  <2>1. PICK k \in 1..n : x = s[k] /\ Covers(s[k], t)
    BY <1>3, FoundCompleted
  <2> QED
    BY <1>1, <1>3, <2>1 DEF Pointed
<1> QED
  BY <1>2, <1>3

-----------------------------------------------------------------------------
(* The world of a scan.                                                    *)

\* A set of times has a first and a last.
LEMMA Span ==
    ASSUME NEW S \in SUBSET (1..MaxTime), S # {}
    PROVE  /\ Min(S) \in S /\ Max(S) \in S /\ Min(S) \in Nat /\ Max(S) \in Nat
           /\ Min(S) <= Max(S) /\ \A t \in S : t \in Nat /\ Min(S) <= t /\ t <= Max(S)
<1>1. MaxTime \in Nat
  BY SampleAssumption
<1>2. S \in SUBSET Nat /\ S \in SUBSET (0..MaxTime)
  BY <1>1
<1>3. PICK lo : lo = Min(S)
  OBVIOUS
<1>4. PICK hi : hi = Max(S)
  OBVIOUS
<1>5. lo \in S /\ \A t \in S : lo <= t
  BY <1>2, <1>3, LeastOf
<1>6. hi \in S /\ \A t \in S : hi >= t
  BY <1>1, <1>2, <1>4, GreatestOf
<1>7. \A t \in S : t \in Nat
  BY <1>2
<1> QED
  BY <1>3, <1>4, <1>5, <1>6, <1>7

\* An index is in order, and no longer than there are times.
LEMMA IndexOf ==
    ASSUME World, NEW p \in Routes
    PROVE  /\ Tidy(table[p])
           /\ ready[p] \in Nat /\ ready[p] <= Len(table[p])
           /\ Len(table[p]) \in Nat /\ Len(table[p]) <= MaxTime
<1>0. PICK s : s = table[p]
  OBVIOUS
<1>1. MaxTime \in Nat
  BY SampleAssumption
<1>2. table \in Tables /\ ready[p] \in Nat /\ ready[p] <= Len(table[p])
  BY DEF World
<1>3. /\ s \in Seq(Samples)
      /\ \A i \in DOMAIN s : s[i].start < s[i].until
      /\ \A i, j \in DOMAIN s : i < j => s[i].until <= s[j].start
  BY <1>0, <1>2, SampleAssumption
<1>4. DOMAIN s = 1..Len(s) /\ Len(s) \in Nat
  BY <1>3
<1>5. Tidy(s)
  BY <1>3, <1>4 DEF Tidy
<1>6. Len(s) <= MaxTime
  <2> DEFINE f == [k \in 1..Len(s) |-> s[k].start]
  <2>1. \A k \in 1..Len(s) : s[k].start \in 1..MaxTime
    BY <1>5, SampleOf
  <2>2. ASSUME NEW j \in 1..Len(s), NEW k \in 1..Len(s), s[j].start = s[k].start PROVE j = k
    <3>1. /\ s[j].start \in Nat /\ s[j].until \in Nat /\ s[j].start < s[j].until
          /\ s[k].start \in Nat /\ s[k].until \in Nat /\ s[k].start < s[k].until
      BY <1>5, SampleOf
    <3>2. (j < k => s[j].until <= s[k].start) /\ (k < j => s[k].until <= s[j].start)
      BY <1>5, Later
    <3>3. j \in Int /\ k \in Int
      OBVIOUS
    <3>4. ~(j < k) /\ ~(k < j)
      BY <2>2, <3>1, <3>2
    <3> QED
      BY <3>3, <3>4
  <2>3. f \in Injection(1..Len(s), 1..MaxTime)
    BY <2>1, <2>2 DEF Injection, IsInjective
  <2>4. IsFiniteSet(1..MaxTime) /\ Cardinality(1..MaxTime) = MaxTime /\ Cardinality(1..Len(s)) = Len(s)
    <3>1. /\ \A m \in Nat : 1 \in Int /\ m \in Int
          /\ \A m \in Nat : (IF 1 > m THEN 0 ELSE m - 1 + 1) = m
      OBVIOUS
    <3> QED
      BY <1>1, <1>4, <3>1, FS_Interval
  <2>5. Cardinality(1..Len(s)) <= Cardinality(1..MaxTime)
    BY <2>3, <2>4, FS_Injection
  <2> QED
    BY <2>4, <2>5
<1> QED
  BY <1>0, <1>2, <1>4, <1>5, <1>6

\* The instants that may be asked.
LEMMA Asked ==
    ASSUME World, NEW asked, asked = ToSet(plan.instants)
    PROVE  /\ asked \in SUBSET (1..MaxTime) /\ asked # {}
           /\ \A i \in Instants :
                /\ plan.instants[i] \in asked /\ plan.instants[i] \in Nat
                /\ plan.pinned => plan.instants[i] = Min(asked)
<1>1. plan \in Plans /\ MaxTime \in Nat
  BY SampleAssumption DEF World
<1>2. /\ plan.instants # << >> /\ plan.instants \in Seq(1..MaxTime)
      /\ plan.pinned => Len(plan.instants) = 1
  BY <1>1, SampleAssumption
<1>3. PICK ts : ts = plan.instants
  OBVIOUS
<1>4. ts \in Seq(1..MaxTime) /\ DOMAIN ts = 1..Len(ts) /\ Len(ts) \in Nat /\ Len(ts) # 0
  BY <1>2, <1>3
<1>5. asked = {ts[i] : i \in DOMAIN ts}
  BY <1>3 DEF ToSet
<1>6. \A i \in DOMAIN ts : ts[i] \in 1..MaxTime /\ ts[i] \in Nat /\ ts[i] \in asked
  BY <1>1, <1>4, <1>5
<1>7. 1 \in DOMAIN ts
  BY <1>4
<1>8. asked \in SUBSET (1..MaxTime) /\ asked # {}
  BY <1>5, <1>6, <1>7
<1>9. ASSUME plan.pinned, NEW i \in DOMAIN ts PROVE ts[i] = Min(asked)
  <2>1. Len(ts) = 1
    BY <1>2, <1>3, <1>9
  <2>2. DOMAIN ts = {1}
    BY <1>4, <2>1
  <2>3. asked = {ts[i]}
    BY <1>5, <2>2
  <2>4. Min(asked) \in asked
    BY <1>8, Span
  <2> QED
    BY <2>3, <2>4
<1> QED
  BY <1>3, <1>6, <1>8, <1>9 DEF Instants

\* A read goes on as a read of the same times.
LEMMA ReadGoesOn ==
    ASSUME World, NEW p \in Routes, ReadStep(p),
           NEW asked \in SUBSET (1..MaxTime), asked # {}, ReadsFor(p, read[p], asked)
    PROVE  ReadsFor(p, read'[p], asked)
<1>0. PICK s, n, r, q, lo, hi :
          /\ s = table[p] /\ n = ready[p] /\ r = read[p] /\ q = read'[p]
          /\ lo = Min(asked) /\ hi = Max(asked)
  OBVIOUS
<1>1. Tidy(s) /\ n \in Nat /\ n <= Len(s)
  BY <1>0, IndexOf
<1>2. lo \in Nat /\ hi \in Nat
  BY <1>0, Span
<1>3. DOMAIN read = Routes /\ DOMAIN r = DOMAIN NoRead
  BY <1>0 DEF World
<1>4. DOMAIN r = {"pc", "from", "to", "limit", "ceiling", "samples", "err", "had"}
  BY <1>3 DEF NoRead
<1>5. plan.pinned => Pointed(s, n, r, lo)
  BY <1>0 DEF ReadsFor
<1>6. ~plan.pinned => Ranged(s, n, r, lo, hi)
  BY <1>0 DEF ReadsFor
<1>7. r.pc \in {"range", "checkpoint"}
  BY <1>0 DEF ReadStep, StatementAnswers, RangeEnds, StatementTooCostly, StatementFails,
              CheckpointAnswers, CheckpointFails, Asking, InRange
<1>8. plan.pinned => r.pc = "checkpoint"
  BY <1>5, <1>7 DEF Pointed
<1>9. ~plan.pinned => r.pc = "range"
  BY <1>6, <1>7 DEF Ranged
<1>10. ASSUME NEW err, Over(p, err)
       PROVE  /\ q.pc = "over" /\ q.err = err
              /\ q.samples = r.samples /\ q.from = r.from /\ q.limit = r.limit
              /\ q.ceiling = r.ceiling /\ q.to = r.to /\ q.had = r.had
  BY <1>0, <1>3, <1>4, <1>10 DEF Over
<1>11. PICK m, sel : m = Meeting(s, n, r.from, r.to) /\ sel = SubSeq(m, 1, Min({r.limit, Len(m)}))
  OBVIOUS
<1>12. Selected(p) = sel
  BY <1>0, <1>11 DEF Selected
<1>13. ASSUME ~plan.pinned
       PROVE  /\ r.from \in Nat /\ r.to \in Nat /\ r.limit \in Nat \ {0}
              /\ r.ceiling \in Nat \ {0}
  <2>1. Ranged(s, n, r, lo, hi)
    BY <1>6, <1>13
  <2>2. r.to = hi /\ r.limit \in Nat \ {0} /\ r.ceiling \in Nat \ {0}
    BY <2>1 DEF Ranged
  <2>3. r.from = lo \/ \E b \in 1..n : r.from = s[b].until
    BY <2>1 DEF Ranged
  <2>4. ASSUME NEW b \in 1..n PROVE s[b].until \in Nat
    <3>1. b \in 1..Len(s)
      BY <1>1 DEF Tidy
    <3> QED
      BY <1>1, <3>1, SampleOf
  <2> QED
    BY <1>2, <2>2, <2>3, <2>4
<1>14. ASSUME ~plan.pinned
       PROVE  Selects(s, n, r.from, r.to, sel)
  BY <1>1, <1>11, <1>13, <1>14, SelectedRun
<1>15. CASE StatementAnswers(p)
  <2>1. ~plan.pinned
    BY <1>0, <1>8, <1>15 DEF StatementAnswers, Asking, InRange
  <2>2. PICK sized \in 1..MaxSamples :
            read' = [read EXCEPT
                       ![p].samples = @ \o Selected(p),
                       ![p].from = NextFrom(Selected(p)),
                       ![p].limit = Min({sized, read[p].ceiling})]
    BY <1>15 DEF StatementAnswers
  <2>3. /\ q.samples = r.samples \o sel /\ q.from = Last(sel).until
        /\ q.limit = Min({sized, r.ceiling})
        /\ q.ceiling = r.ceiling /\ q.to = r.to /\ q.had = r.had
        /\ q.pc = r.pc /\ q.err = r.err
    BY <1>0, <1>3, <1>4, <1>12, <2>2 DEF NextFrom
  <2>4. q.limit \in Nat \ {0}
    <3>1. sized \in Nat /\ sized >= 1 /\ r.ceiling \in Nat /\ r.ceiling >= 1
      BY <1>13, <2>1, SampleAssumption
    <3>2. q.limit \in {sized, r.ceiling}
      BY <2>3, <3>1, LesserOf
    <3> QED
      BY <3>1, <3>2
  <2>5. sel # << >>
    BY <1>12, <1>15 DEF StatementAnswers
  <2>6. PICK c \in 1..n, e \in 1..n :
            /\ c <= e /\ sel = SubSeq(s, c, e) /\ Last(sel) = s[e]
            /\ s[c].until > r.from /\ s[e].start <= r.to
            /\ \A k \in 1..(c - 1) : s[k].until <= r.from
    BY <1>14, <2>1, <2>5 DEF Selects
  <2>7. q.samples = r.samples \o SubSeq(s, c, e) /\ q.from = s[e].until
    BY <2>3, <2>6
  <2>8. Ranged(s, n, q, lo, hi)
    BY <1>1, <1>2, <1>6, <1>9, <2>1, <2>3, <2>4, <2>6, <2>7, StatementGoesOn
  <2> QED
    BY <1>0, <2>1, <2>8 DEF ReadsFor
<1>16. CASE RangeEnds(p)
  <2>1. ~plan.pinned
    BY <1>0, <1>8, <1>16 DEF RangeEnds, InRange
  <2>2. Over(p, "none") /\ (r.from <= r.to => sel = << >>)
    BY <1>0, <1>9, <1>12, <1>16, <2>1 DEF RangeEnds, Asking, InRange
  <2>3. r.from <= r.to => \A k \in 1..n : ~Meets(s[k], r.from, r.to)
    BY <1>14, <2>1, <2>2 DEF Selects
  <2>4. Ranged(s, n, q, lo, hi)
    BY <1>1, <1>2, <1>6, <1>9, <1>10, <2>1, <2>2, <2>3, RangeEndsWhole
  <2> QED
    BY <1>0, <2>1, <2>4 DEF ReadsFor
<1>17. CASE StatementTooCostly(p)
  <2>1. ~plan.pinned
    BY <1>0, <1>8, <1>17 DEF StatementTooCostly, Asking, InRange
  <2>2. /\ r.limit > 1
        /\ q.samples = r.samples /\ q.from = r.from /\ q.to = r.to /\ q.had = r.had
        /\ q.limit = r.limit \div 2 /\ q.ceiling = r.limit \div 2
        /\ q.pc = r.pc /\ q.err = r.err
    BY <1>0, <1>3, <1>4, <1>17 DEF StatementTooCostly
  <2>3. r.limit \div 2 \in Nat \ {0}
    <3>1. \A x \in Nat : x > 1 => x \div 2 \in Nat \ {0}
      OBVIOUS
    <3> QED
      BY <1>13, <2>1, <2>2, <3>1
  <2>4. Ranged(s, n, q, lo, hi)
    BY <1>6, <1>9, <2>1, <2>2, <2>3, RangedAnew
  <2> QED
    BY <1>0, <2>1, <2>4 DEF ReadsFor
<1>18. CASE StatementFails(p)
  <2>1. ~plan.pinned
    BY <1>0, <1>8, <1>18 DEF StatementFails, Asking, InRange
  <2>2. Over(p, "failed")
    BY <1>18 DEF StatementFails
  <2>3. Ranged(s, n, q, lo, hi)
    BY <1>6, <1>10, <1>13, <2>1, <2>2, RangedAnew
  <2> QED
    BY <1>0, <2>1, <2>3 DEF ReadsFor
<1>19. CASE CheckpointAnswers(p)
  <2>1. plan.pinned /\ r.pc = "checkpoint"
    BY <1>0, <1>9, <1>19 DEF CheckpointAnswers
  <2>2. r.from = lo /\ r.err = "none"
    BY <1>5, <2>1 DEF Pointed
  <2>3. PICK x : x = SampleAt(SubSeq(s, 1, n), lo)
    OBVIOUS
  <2>4. \/ Over(p, "nosample") \/ Over(p, "uncertified")
        \/ /\ x # NoSample /\ x.good
           /\ read' = [read EXCEPT ![p].pc = "over",
                                   ![p].samples = <<[x EXCEPT !.until = x.start + 1]>>]
    BY <1>0, <1>19, <2>2, <2>3 DEF CheckpointAnswers, Completed
  <2>5. /\ q.from = r.from /\ q.had = r.had /\ q.pc = "over"
        /\ \/ q.samples = r.samples /\ q.err \in {"nosample", "uncertified", "failed"}
           \/ /\ x # NoSample /\ x.good /\ q.err = r.err
              /\ q.samples = <<[x EXCEPT !.until = x.start + 1]>>
    <3>1. CASE Over(p, "nosample")
      BY <1>10, <3>1
    <3>2. CASE Over(p, "uncertified")
      BY <1>10, <3>2
    <3>3. CASE /\ x # NoSample /\ x.good
               /\ read' = [read EXCEPT ![p].pc = "over",
                                       ![p].samples = <<[x EXCEPT !.until = x.start + 1]>>]
      BY <1>0, <1>3, <1>4, <3>3
    <3> QED
      BY <2>4, <3>1, <3>2, <3>3
  <2>6. Pointed(s, n, q, lo)
    BY <1>1, <1>2, <1>5, <2>1, <2>3, <2>5, PointAnswered
  <2> QED
    BY <1>0, <2>1, <2>6 DEF ReadsFor
<1>20. CASE CheckpointFails(p)
  <2>1. plan.pinned /\ r.pc = "checkpoint" /\ Over(p, "failed")
    BY <1>0, <1>9, <1>20 DEF CheckpointFails
  <2>2. Pointed(s, n, q, lo)
    BY <1>1, <1>2, <1>5, <1>10, <2>1, PointAnswered
  <2> QED
    BY <1>0, <2>1, <2>2 DEF ReadsFor
<1> QED
  BY <1>15, <1>16, <1>17, <1>18, <1>19, <1>20 DEF ReadStep

\* What a read's step leaves alone.
LEMMA ReadStepFrame ==
    ASSUME World, NEW p \in Routes, ReadStep(p)
    PROVE  /\ UNCHANGED <<table, ready, plan, inTime, scanVars>>
           /\ read[p].pc \in {"range", "checkpoint"}
           /\ read'[p].pc # "unused" /\ read'[p].had = read[p].had
           /\ DOMAIN read' = Routes /\ DOMAIN read'[p] = DOMAIN NoRead
           /\ \A o \in Routes \ {p} : read'[o] = read[o]
<1>1. DOMAIN read = Routes /\ DOMAIN read[p] = DOMAIN NoRead
  BY DEF World
<1>2. "pc" \in DOMAIN read[p] /\ "had" \in DOMAIN read[p]
  BY <1>1 DEF NoRead
<1>3. read[p].pc \in {"range", "checkpoint"} /\ ReadVarsOnly
  BY DEF ReadStep, StatementAnswers, RangeEnds, StatementTooCostly, StatementFails,
         CheckpointAnswers, CheckpointFails, Asking, InRange
<1>4. /\ read'[p].pc # "unused" /\ read'[p].had = read[p].had
      /\ DOMAIN read' = Routes /\ DOMAIN read'[p] = DOMAIN read[p]
      /\ \A o \in Routes \ {p} : read'[o] = read[o]
  <2>1. ASSUME NEW err, Over(p, err)
        PROVE  /\ read'[p].pc # "unused" /\ read'[p].had = read[p].had
               /\ DOMAIN read' = Routes /\ DOMAIN read'[p] = DOMAIN read[p]
               /\ \A o \in Routes \ {p} : read'[o] = read[o]
    BY <1>1, <1>2, <2>1 DEF Over
  <2>2. CASE StatementAnswers(p)
    BY <1>1, <1>2, <1>3, <2>2 DEF StatementAnswers
  <2>3. CASE StatementTooCostly(p)
    BY <1>1, <1>2, <1>3, <2>3 DEF StatementTooCostly
  <2>4. CASE RangeEnds(p) \/ StatementFails(p) \/ CheckpointFails(p)
    BY <2>1, <2>4 DEF RangeEnds, StatementFails, CheckpointFails
  <2>5. CASE CheckpointAnswers(p)
    <3>1. PICK s : \/ Over(p, "nosample") \/ Over(p, "uncertified")
                   \/ read' = [read EXCEPT ![p].pc = "over",
                                           ![p].samples = <<[s EXCEPT !.until = s.start + 1]>>]
      BY <2>5 DEF CheckpointAnswers
    <3> QED
      BY <1>1, <1>2, <2>1, <3>1
  <2> QED
    BY <2>2, <2>3, <2>4, <2>5 DEF ReadStep
<1> QED
  BY <1>1, <1>3, <1>4 DEF ReadVarsOnly

\* A read says no less of an index that has completed more.
LEMMA ReadsMore ==
    ASSUME World, NEW p \in Routes, NEW r, NEW asked, ReadsFor(p, r, asked),
           table' = table, plan' = plan, ready' \in [Routes -> Nat], ready[p] <= ready'[p]
    PROVE  ReadsFor(p, r, asked)'
<1>1. ready[p] \in Nat /\ ready'[p] \in Nat
  BY DEF World
<1>2. PICK s, n, m, lo, hi : /\ s = table[p] /\ n = ready[p] /\ m = ready'[p]
                             /\ lo = Min(asked) /\ hi = Max(asked)
  OBVIOUS
<1>3. /\ Ranged(s, n, r, lo, hi) => Ranged(s, m, r, lo, hi)
      /\ Pointed(s, n, r, lo) => Pointed(s, m, r, lo)
  BY <1>1, <1>2, MoreCompleted
<1> QED
  BY <1>2, <1>3 DEF ReadsFor

\* What depends on the indexes and the plan alone.
LEMMA Unmoved ==
    ASSUME table' = table, plan' = plan
    PROVE  /\ Instants' = Instants
           /\ \A m, i, p : RawAt(m, i, p)' = RawAt(m, i, p)
           /\ \A n, i, p : Alone(n, i, p)' = Alone(n, i, p)
           /\ \A i, x : Dated(i, x)' <=> Dated(i, x)
           /\ \A p : Tiles(p)' <=> Tiles(p)
<1>1. \A m, i, p : RawAt(m, i, p)' = RawAt(m, i, p)
  BY DEF RawAt
<1>2. \A n, i, p : Raw(n, i, p)' = Raw(n, i, p)
  BY DEF Raw, AloneAt
<1>3. ASSUME NEW n, NEW i, NEW p PROVE Alone(n, i, p)' = Alone(n, i, p)
  <2>1. \A t : AloneAt(n, p, t)' = AloneAt(n, p, t)
    BY DEF AloneAt
  <2>2. {Raw(n, i, q).at : q \in Routes}' = {Raw(n, i, q).at : q \in Routes}
    BY <1>2
  <2>3. Min({Raw(n, i, q).at : q \in Routes})' = Min({Raw(n, i, q).at : q \in Routes})
    BY <2>2
  <2> QED
    BY <1>2, <2>1, <2>3 DEF Alone
<1> QED
  BY <1>1, <1>3 DEF Instants, Dated, Tiles

\* The oldest checkpoint of an instant, when every protocol has one.
LEMMA OldestOf ==
    ASSUME World, NEW i \in Instants, \A p \in Routes : Dated(i, answers[i][p]), Oldest(i) # 0
    PROVE  /\ Oldest(i) \in 1..MaxTime /\ Oldest(i) \in Nat
           /\ Oldest(i) = Min({answers[i][p].at : p \in Routes})
           /\ \A p \in Routes :
                /\ answers[i][p].err = "none"
                /\ answers[i][p].at \in Nat /\ Oldest(i) <= answers[i][p].at
                /\ answers[i][p].at <= plan.instants[i]
                /\ answers[i][p] = [at |-> answers[i][p].at, err |-> "none"]
<1> DEFINE ats == {answers[i][p].at : p \in Routes}
<1>1. Oldest(i) = Min(ats) /\ \A p \in Routes : answers[i][p].err = "none"
  BY DEF Oldest
<1>2. plan.instants[i] \in 1..MaxTime /\ MaxTime \in Nat
  BY Asked, SampleAssumption
<1>3. ASSUME NEW p \in Routes
      PROVE  /\ answers[i][p].at \in 1..MaxTime /\ answers[i][p].at <= plan.instants[i]
             /\ answers[i][p] = [at |-> answers[i][p].at, err |-> "none"]
  <2>1. /\ Failure("failed").err # "none" /\ Failure("uncertified").err # "none"
        /\ Failure("nosample").err # "none"
    BY DEF Failure
  <2>2. PICK t \in 1..plan.instants[i] : answers[i][p] = [at |-> t, err |-> "none"]
    BY <1>1, <2>1 DEF Dated
  <2>3. t \in 1..MaxTime /\ t <= plan.instants[i]
    BY <1>2
  <2> QED
    BY <2>2, <2>3
<1>4. ats \in SUBSET (1..MaxTime) /\ ats # {}
  BY <1>3, SampleAssumption
<1>5. \A p \in Routes : answers[i][p].at \in ats
  OBVIOUS
<1> HIDE DEF ats
<1>6. Min(ats) \in ats /\ \A t \in ats : t \in Nat /\ Min(ats) <= t
  BY <1>4, Span
<1>7. Min(ats) \in 1..MaxTime /\ Min(ats) \in Nat
  BY <1>4, <1>6
<1>8. Oldest(i) = Min({answers[i][p].at : p \in Routes})
  BY <1>1 DEF ats
<1> QED
  BY <1>1, <1>3, <1>5, <1>6, <1>7, <1>8

\* Indexes that complete samples and reads that go on disturb nothing.
LEMMA Around ==
    ASSUME Inv, table' = table, plan' = plan, scanVars' = scanVars,
           ready' \in [Routes -> Nat],
           \A p \in Routes : ready[p] <= ready'[p] /\ ready'[p] <= Len(table[p]),
           DOMAIN read' = Routes, \A p \in Routes : DOMAIN read'[p] = DOMAIN NoRead,
           \A p \in Routes :
                \/ read'[p] = read[p]
                \/ /\ read[p].pc \in {"range", "checkpoint"}
                   /\ read'[p].had = read[p].had
                   /\ \A asked \in SUBSET (1..MaxTime) :
                        asked # {} /\ ReadsFor(p, read[p], asked) => ReadsFor(p, read'[p], asked)
    PROVE  Inv'
<1>1. /\ phase' = phase /\ first' = first /\ target' = target /\ answers' = answers
      /\ retries' = retries /\ wallet' = wallet
  BY DEF scanVars
<1>2. World /\ \A p \in Routes : ready[p] \in Nat /\ ready'[p] \in Nat
  BY DEF Inv, World
<1>3. Instants' = Instants
  BY Unmoved
<1>4. World'
  BY <1>1, <1>2, <1>3 DEF World
<1>5. \A p : Missing(p)' = Missing(p)
  BY <1>1, <1>3 DEF Missing
<1>6. \A i, p : TargetOf(i, p)' = TargetOf(i, p)
  BY <1>1 DEF TargetOf, Oldest
<1>7. ASSUME NEW p \in Routes PROVE Readings(p)'
  <2>1. Readings(p)
    BY DEF Inv
  <2>2. ASSUME NEW r, NEW asked, ReadsFor(p, r, asked)
        PROVE  ReadsFor(p, r, asked)'
    BY <1>2, <2>2, ReadsMore
  <2>3. ASSUME NEW asked \in SUBSET (1..MaxTime), asked # {}, ReadsFor(p, read[p], asked)
        PROVE  ReadsFor(p, read[p], asked)'
    <3>1. ReadsFor(p, read'[p], asked)
      BY <2>3
    <3>2. PICK r : r = read'[p]
      OBVIOUS
    <3>3. ReadsFor(p, r, asked)'
      BY <2>2, <3>1, <3>2
    <3> QED
      BY <3>2, <3>3 DEF ReadsFor
  <2>4. phase \notin {"read", "resolve"} => read'[p] = read[p]
    BY <2>1 DEF Readings
  <2>5. phase' = "start" => read'[p] = NoRead
    BY <1>1, <2>1, <2>4 DEF Readings
  <2>6. ASSUME phase = "read" PROVE ReadsFor(p, read[p], ToSet(plan.instants))'
    <3>1. PICK asked : asked = ToSet(plan.instants)
      OBVIOUS
    <3>2. asked \in SUBSET (1..MaxTime) /\ asked # {}
      BY <1>2, <3>1, Asked
    <3>3. ReadsFor(p, read[p], asked)
      BY <2>1, <2>6, <3>1 DEF Readings
    <3>4. ReadsFor(p, read[p], asked)'
      BY <2>3, <3>2, <3>3
    <3> QED
      BY <3>1, <3>4 DEF ReadsFor
  <2>7. ASSUME phase \notin Early
        PROVE  (first[p].pc = "over" /\ ReadsFor(p, first[p], ToSet(plan.instants)))'
    <3>1. PICK asked, r : asked = ToSet(plan.instants) /\ r = first[p]
      OBVIOUS
    <3>2. first[p].pc = "over" /\ ReadsFor(p, r, asked)
      BY <2>1, <2>7, <3>1 DEF Readings
    <3>3. ReadsFor(p, r, asked)'
      BY <2>2, <3>2
    <3> QED
      BY <1>1, <3>1, <3>2, <3>3 DEF ReadsFor
  <2>8. ASSUME phase = "resolve"
        PROVE  /\ \A i \in Instants' : target'[i][p] = TargetOf(i, p)'
               /\ IF Missing(p)' = {} THEN read'[p] = NoRead
                  ELSE ReadsFor(p, read[p], Missing(p))'
    <3>1. /\ \A i \in Instants : target[i][p] = TargetOf(i, p)
          /\ IF Missing(p) = {} THEN read[p] = NoRead ELSE ReadsFor(p, read[p], Missing(p))
      BY <2>1, <2>8 DEF Readings
    <3>2. \A i \in Instants' : target'[i][p] = TargetOf(i, p)'
      BY <1>1, <1>3, <1>6, <3>1
    <3>3. CASE Missing(p) = {}
      <4>1. read[p].pc = "unused"
        BY <3>1, <3>3 DEF NoRead
      <4> QED
        BY <1>5, <3>1, <3>2, <3>3, <4>1
    <3>4. CASE Missing(p) # {}
      <4>1. PICK asked : asked = Missing(p)
        OBVIOUS
      <4>2. asked \in SUBSET (1..MaxTime)
        <5>1. ASSUME NEW i \in Instants, NEW q \in Routes, target[i][q] # 0,
                     target[i][q] = TargetOf(i, q)
              PROVE  target[i][q] \in 1..MaxTime
          <6>1. target[i][q] = Oldest(i)
            BY <5>1 DEF TargetOf
          <6>2. \A o \in Routes : Dated(i, answers[i][o])
            BY <2>8 DEF Inv, Answering, Early
          <6> QED
            BY <1>2, <5>1, <6>1, <6>2, OldestOf
        <5> QED
          BY <3>1, <4>1, <5>1 DEF Missing
      <4>3. ReadsFor(p, read[p], asked)'
        BY <2>3, <3>1, <3>4, <4>1, <4>2
      <4>4. ReadsFor(p, read[p], Missing(p))'
        BY <1>5, <4>1, <4>3 DEF ReadsFor
      <4> QED
        BY <1>5, <3>2, <3>4, <4>4
    <3> QED
      BY <3>3, <3>4
  <2>9. phase' \notin {"read", "resolve"} => read'[p].pc \in {"unused", "over"}
    BY <1>1, <2>1, <2>4 DEF Readings
  <2> QED
    BY <1>1, <2>5, <2>6, <2>7, <2>8, <2>9 DEF Readings
<1>8. ASSUME NEW i \in Instants' PROVE (Answering(i) /\ DOMAIN answers[i] = Routes)'
  <2>1. i \in Instants /\ Answering(i) /\ DOMAIN answers[i] = Routes
    BY <1>3 DEF Inv
  <2>2. phase' \notin Early => \A p \in Routes : Dated(i, answers[i][p])'
    BY <1>1, <2>1 DEF Answering, Dated
  <2>3. ASSUME phase \in {"align", "resolve"}, ~retries[i], NEW p \in Routes
        PROVE  \E m \in first'[p].had..ready'[p] :
                 /\ answers'[i][p] = RawAt(m, i, p)'
                 /\ phase' = "resolve" /\ read'[p].pc # "unused" => m <= read'[p].had
    <3>1. PICK m \in first[p].had..ready[p] :
                 /\ answers[i][p] = RawAt(m, i, p)
                 /\ phase = "resolve" /\ read[p].pc # "unused" => m <= read[p].had
      BY <2>1, <2>3 DEF Answering
    <3>2. m \in first'[p].had..ready'[p]
      <4>1. first[p].had \in Nat
        <5>1. ReadsFor(p, first[p], ToSet(plan.instants))
          BY <2>3 DEF Inv, Readings, Early
        <5>2. first[p].had \in 0..ready[p]
          BY <5>1 DEF ReadsFor, Ranged, Pointed
        <5> QED
          BY <1>2, <5>2
      <4> QED
        BY <1>1, <1>2, <4>1
    <3>3. answers'[i][p] = RawAt(m, i, p)'
      BY <1>1, <3>1, Unmoved
    <3> QED
      BY <1>1, <3>1, <3>2, <3>3
  <2>4. ASSUME phase \in {"wallet", "price", "done"}, ~retries[i] PROVE AsAlone(i)'
    <3>1. phase \notin Early
      BY <2>4 DEF Early
    <3>2. PICK n \in [Routes -> 0..MaxTime] :
              /\ \A p \in Routes : n[p] \in first[p].had..ready[p]
              /\ \A p \in Routes : answers[i][p] = Alone(n, i, p)
      BY <2>1, <2>4 DEF Answering, AsAlone
    <3>3. ASSUME NEW p \in Routes PROVE n[p] \in first'[p].had..ready'[p]
      <4>1. ReadsFor(p, first[p], ToSet(plan.instants))
        BY <3>1 DEF Inv, Readings
      <4>2. first[p].had \in 0..ready[p]
        BY <4>1 DEF ReadsFor, Ranged, Pointed
      <4>3. n[p] \in first[p].had..ready[p]
        BY <3>2
      <4> QED
        BY <1>1, <1>2, <4>2, <4>3
    <3>4. \A p \in Routes : answers'[i][p] = Alone(n, i, p)'
      BY <1>1, <3>2, Unmoved
    <3> QED
      BY <3>3, <3>4 DEF AsAlone
  <2>5. phase' \in Early \cup {"align", "resolve", "wallet"} => wallet'[i] = 0
    BY <1>1, <2>1 DEF Answering
  <2>6. phase' \in {"align", "resolve"} /\ ~plan'.pinned /\ retries'[i] =>
           \E p \in Routes : FellShort(first'[p], plan'.instants[i])
    BY <1>1, <2>1 DEF Answering
  <2> QED
    BY <1>1, <2>1, <2>2, <2>3, <2>4, <2>5, <2>6 DEF Answering
<1>9. OneState'
  BY <1>1, <1>3 DEF Inv, OneState
<1>10. RetryOnlyUnanswered'
  <2>1. phase = "wallet" => \A p \in Routes : read'[p] = read[p]
    BY DEF Inv, Readings
  <2>2. RetryOnlyUnanswered
    BY DEF Inv
  <2> QED
    BY <1>1, <1>3, <2>1, <2>2 DEF RetryOnlyUnanswered, Tiles
<1> QED
  BY <1>1, <1>4, <1>7, <1>8, <1>9, <1>10 DEF Inv

-----------------------------------------------------------------------------
(* The scan.                                                               *)

\* A read begins as a read of the times it is asked for.
LEMMA ReadBegins ==
    ASSUME World, NEW p \in Routes, NEW asked \in SUBSET (1..MaxTime), asked # {},
           NEW r, r = BeginRead(p, Min(asked), Max(asked))
    PROVE  /\ ReadsFor(p, r, asked) /\ r.had = ready[p] /\ DOMAIN r = DOMAIN NoRead
           /\ r.pc # "over"
<1>0. PICK n, lo, hi : n = ready[p] /\ lo = Min(asked) /\ hi = Max(asked)
  OBVIOUS
<1>1. lo \in Nat /\ hi \in Nat /\ lo <= hi
  BY <1>0, Span
<1>2. n \in Nat /\ ProbeSamples \in Nat \ {0} /\ MaxSamples \in Nat \ {0}
  <2>1. ProbeSamples \in 1..MaxSamples /\ MaxSamples \in Nat
    BY SampleAssumption
  <2> QED
    BY <1>0, <2>1, IndexOf
<1>3. /\ r.pc = IF plan.pinned THEN "checkpoint" ELSE "range"
      /\ r.from = lo /\ r.to = hi /\ r.had = n
      /\ r.limit = ProbeSamples /\ r.ceiling = MaxSamples
      /\ r.samples = << >> /\ r.err = "none" /\ DOMAIN r = DOMAIN NoRead
  BY <1>0 DEF BeginRead, NoRead
<1>4. n \in 0..n
  BY <1>2
<1>5. CASE plan.pinned
  <2>1. Pointed(table[p], n, r, lo)
    BY <1>3, <1>4, <1>5 DEF Pointed
  <2> QED
    BY <1>0, <1>3, <1>5, <2>1 DEF ReadsFor
<1>6. CASE ~plan.pinned
  <2>1. Ranged(table[p], n, r, lo, hi)
    BY <1>1, <1>2, <1>3, <1>4, <1>6 DEF Ranged
  <2> QED
    BY <1>0, <1>3, <1>6, <2>1 DEF ReadsFor
<1> QED
  BY <1>5, <1>6

\* What a read that is over answers to an instant: a checkpoint no later, or a failure;
\* what its index alone answers, or that it fell short.
LEMMA FirstAnswer ==
    ASSUME World, NEW p \in Routes, NEW i \in Instants, NEW r, r.pc = "over",
           ReadsFor(p, r, ToSet(plan.instants)),
           NEW x, x = IF plan.pinned THEN CheckpointAnswer(r)
                      ELSE RangeAnswer(r, plan.instants[i])
    PROVE  /\ Dated(i, x)
           /\ ~AskAgain(x) => \E m \in r.had..ready[p] : x = RawAt(m, i, p)
           /\ ~plan.pinned /\ AskAgain(x) => FellShort(r, plan.instants[i])
<1>0. PICK s, n, t, asked, lo, hi :
          /\ s = table[p] /\ n = ready[p] /\ t = plan.instants[i]
          /\ asked = ToSet(plan.instants) /\ lo = Min(asked) /\ hi = Max(asked)
  OBVIOUS
<1>1. Tidy(s) /\ n \in Nat /\ n <= Len(s)
  BY <1>0, IndexOf
<1>2. asked \in SUBSET (1..MaxTime) /\ asked # {} /\ t \in asked /\ (plan.pinned => t = lo)
  BY <1>0, Asked
<1>3. lo \in Nat /\ hi \in Nat /\ t \in Nat /\ lo <= t /\ t <= hi
  BY <1>0, <1>2, Span
<1>4. \A k \in 1..n : k \in 1..Len(s)
  BY <1>1 DEF Tidy
<1>5. ASSUME NEW k \in 1..n, Covers(s[k], t)
      PROVE  /\ Dated(i, AnswerFrom(s[k]))
             /\ AnswerFrom(s[k]) = RawAt(n, i, p)
  <2>1. s[k].start \in Nat /\ s[k].start \in 1..MaxTime /\ s[k] # NoSample
    BY <1>1, <1>4, SampleOf
  <2>2. s[k].start \in 1..t
    <3>1. s[k].start <= t
      BY <1>5 DEF Covers
    <3>2. s[k].start >= 1
      BY <2>1, SampleAssumption
    <3> QED
      BY <1>3, <2>1, <3>1, <3>2
  <2>3. Dated(i, AnswerFrom(s[k]))
    BY <1>0, <2>2 DEF Dated, AnswerFrom
  <2>4. SampleAt(SubSeq(s, 1, n), t) = s[k]
    BY <1>1, <1>3, <1>5, FoundCompleted
  <2> QED
    BY <1>0, <2>1, <2>3, <2>4 DEF RawAt
<1>6. CASE plan.pinned
  <2>1. Pointed(s, n, r, t)
    BY <1>0, <1>2, <1>6 DEF ReadsFor
  <2>2. r.had \in 0..n
    BY <2>1 DEF Pointed
  <2>3. x = CheckpointAnswer(r)
    BY <1>6
  <2>4. CASE r.err = "none"
    <3>1. PICK k \in 1..n : /\ Covers(s[k], t) /\ s[k].good
                            /\ r.samples = <<[s[k] EXCEPT !.until = s[k].start + 1]>>
      BY <2>1, <2>4 DEF Pointed
    <3>2. s[k] \in Samples
      BY <1>1, <1>4, SampleOf
    <3>3. r.samples[1].start = s[k].start /\ r.samples[1].good = s[k].good
      <4>1. \A y \in Samples : /\ [y EXCEPT !.until = y.start + 1].start = y.start
                               /\ [y EXCEPT !.until = y.start + 1].good = y.good
        BY DEF Samples
      <4>2. r.samples[1] = [s[k] EXCEPT !.until = s[k].start + 1]
        BY <3>1
      <4> QED
        BY <3>2, <4>1, <4>2
    <3>4. x = AnswerFrom(s[k])
      BY <2>3, <2>4, <3>1, <3>3 DEF CheckpointAnswer, AnswerFrom
    <3>5. n \in r.had..n
      BY <1>1, <2>2
    <3> QED
      BY <1>0, <1>5, <1>6, <3>1, <3>4, <3>5
  <2>5. CASE r.err # "none"
    <3>1. x = Failure(r.err) /\ r.err \in {"failed", "uncertified", "nosample"}
      BY <2>1, <2>3, <2>5 DEF CheckpointAnswer, Pointed
    <3>2. x.err # "none"
      BY <2>5, <3>1 DEF Failure
    <3>3. AskAgain(x)
      BY <1>6, <3>2 DEF AskAgain
    <3>4. Dated(i, x)
      BY <3>1 DEF Dated
    <3> QED
      BY <1>6, <3>3, <3>4
  <2> QED
    BY <2>4, <2>5
<1>7. CASE ~plan.pinned
  <2>1. Ranged(s, n, r, lo, hi)
    BY <1>0, <1>7 DEF ReadsFor
  <2>2. r.had \in 0..n /\ r.err \in {"none", "failed"}
    BY <2>1 DEF Ranged
  <2>3. x = RangeAnswer(r, t)
    BY <1>0, <1>7
  <2>4. ToSet(r.samples) \subseteq {s[k] : k \in 1..n} /\ ToSet(r.samples) \subseteq {s[k] : k \in 1..Len(s)}
    BY <1>1, <1>3, <2>1, RangedSamples
  <2>5. PICK y : y = SampleAt(r.samples, t)
    OBVIOUS
  <2>6. CASE y # NoSample
    <3>1. y \in ToSet(r.samples) /\ Covers(y, t)
      BY <1>1, <1>3, <2>4, <2>5, <2>6, FoundAt
    <3>2. PICK k \in 1..n : y = s[k]
      BY <2>4, <3>1
    <3>3. x = AnswerFrom(s[k])
      BY <2>3, <2>5, <2>6, <3>2 DEF RangeAnswer
    <3>4. n \in r.had..n
      BY <1>1, <2>2
    <3>5. x.err # "failed"
      BY <3>3 DEF AnswerFrom, Failure
    <3>6. ~AskAgain(x)
      BY <1>7, <3>5 DEF AskAgain
    <3> QED
      BY <1>0, <1>5, <3>1, <3>2, <3>3, <3>4, <3>6
  <2>7. CASE y = NoSample /\ FellShort(r, t)
    <3>1. x = Failure("failed")
      BY <2>2, <2>3, <2>5, <2>7 DEF RangeAnswer, FellShort
    <3>2. AskAgain(x) /\ Dated(i, x)
      BY <1>7, <3>1 DEF AskAgain, Failure, Dated
    <3> QED
      BY <1>0, <2>7, <3>2
  <2>8. CASE y = NoSample /\ ~FellShort(r, t)
    <3>1. x = Failure("nosample")
      BY <2>3, <2>5, <2>8 DEF RangeAnswer
    <3>2. ~AskAgain(x) /\ Dated(i, x)
      BY <1>7, <3>1 DEF AskAgain, Failure, Dated
    <3>3. \A k \in 1..r.had : ~Covers(s[k], t)
      BY <1>1, <1>3, <2>1, <2>5, <2>8, Reached
    <3>4. r.had \in Nat /\ r.had <= Len(s) /\ r.had \in r.had..n
      BY <1>1, <2>2 DEF Tidy
    <3>5. SampleAt(SubSeq(s, 1, r.had), t) = NoSample
      BY <1>1, <1>3, <3>3, <3>4, FoundCompleted
    <3>6. x = RawAt(r.had, i, p)
      BY <1>0, <3>1, <3>5 DEF RawAt
    <3> QED
      BY <1>0, <3>2, <3>4, <3>6
  <2> QED
    BY <2>6, <2>7, <2>8
<1> QED
  BY <1>6, <1>7

\* The reads of the instants begin.
LEMMA BeginReadsKeeps == Inv /\ BeginReads => Inv'
<1> SUFFICES ASSUME Inv, BeginReads PROVE Inv'
  OBVIOUS
<1>1. /\ phase = "start" /\ phase' = "read"
      /\ read' = [p \in Routes |-> BeginRead(p, Min(ToSet(plan.instants)),
                                                Max(ToSet(plan.instants)))]
      /\ table' = table /\ ready' = ready /\ plan' = plan /\ first' = first
      /\ target' = target /\ answers' = answers /\ retries' = retries /\ wallet' = wallet
  BY DEF BeginReads
<1>2. World
  BY DEF Inv
<1>3. Instants' = Instants
  BY <1>1, Unmoved
<1>4. PICK asked : asked = ToSet(plan.instants)
  OBVIOUS
<1>5. asked \in SUBSET (1..MaxTime) /\ asked # {}
  BY <1>2, <1>4, Asked
<1>6. ASSUME NEW p \in Routes
      PROVE  ReadsFor(p, read'[p], asked) /\ DOMAIN read'[p] = DOMAIN NoRead
  <2>1. read'[p] = BeginRead(p, Min(asked), Max(asked))
    BY <1>1, <1>4
  <2> QED
    BY <1>2, <1>5, <2>1, ReadBegins
<1>7. World'
  BY <1>1, <1>2, <1>3, <1>6 DEF World, Early
<1>8. ASSUME NEW p \in Routes PROVE Readings(p)'
  <2>1. ReadsFor(p, read[p], ToSet(plan.instants))'
    BY <1>1, <1>4, <1>6 DEF ReadsFor
  <2> QED
    BY <1>1, <2>1 DEF Readings, Early
<1>9. ASSUME NEW i \in Instants' PROVE (Answering(i) /\ DOMAIN answers[i] = Routes)'
  <2>1. Answering(i) /\ DOMAIN answers[i] = Routes
    BY <1>3 DEF Inv
  <2>2. wallet'[i] = 0
    BY <1>1, <2>1 DEF Answering, Early
  <2> QED
    BY <1>1, <2>1, <2>2 DEF Answering, Early
<1>10. OneState'
  BY <1>1, <1>3 DEF Inv, OneState
<1>11. RetryOnlyUnanswered'
  BY <1>1 DEF RetryOnlyUnanswered
<1> QED
  BY <1>1, <1>7, <1>8, <1>9, <1>10, <1>11 DEF Inv

\* An answer's checkpoint, and what an answer without one is.
LEMMA DatedAt ==
    ASSUME World, NEW i \in Instants, NEW x, Dated(i, x)
    PROVE  /\ x.at \in Nat /\ x.at <= plan.instants[i] /\ x.at \in 0..MaxTime
           /\ x.at # 0 => x = [at |-> x.at, err |-> "none"]
           /\ x.err # "none" => x.at = 0
<1>1. plan.instants[i] \in Nat /\ plan.instants[i] \in 1..MaxTime /\ MaxTime \in Nat
  BY Asked, SampleAssumption
<1>2. ASSUME NEW t \in 1..plan.instants[i], x = [at |-> t, err |-> "none"]
      PROVE  /\ x.at \in Nat /\ x.at <= plan.instants[i] /\ x.at \in 0..MaxTime
             /\ x.at # 0 => x = [at |-> x.at, err |-> "none"]
             /\ x.err # "none" => x.at = 0
  <2>1. t \in Nat /\ t <= plan.instants[i] /\ t \in 0..MaxTime
    BY <1>1
  <2>2. x.at = t /\ x.err = "none"
    BY <1>2
  <2> QED
    BY <1>2, <2>1, <2>2
<1>3. ASSUME NEW e, x = Failure(e)
      PROVE  x.at = 0
  BY <1>3 DEF Failure
<1>4. 0 \in 0..MaxTime /\ 0 <= plan.instants[i]
  BY <1>1
<1> QED
  BY <1>2, <1>3, <1>4 DEF Dated

\* Instant i is answered by each index alone with n[p] samples of p completed.
Choice(n, i, had, upto, answer) ==
    \A p \in Routes : /\ n[p] \in had[p]..upto[p] /\ n[p] \in had[p]..ready[p]
                      /\ answer[p] = RawAt(n[p], i, p)
                      /\ answer[p] = Raw(n, i, p)

\* Answers that each index alone would give at some number of its samples are given by
\* one choice of these numbers.
LEMMA AloneIsRaw ==
    ASSUME World, NEW i, NEW had, NEW upto, NEW answer,
           \A p \in Routes : upto[p] \in Nat /\ upto[p] <= ready[p] /\ had[p] \in Nat,
           \A p \in Routes : \E m \in had[p]..upto[p] : answer[p] = RawAt(m, i, p)
    PROVE  \E n \in [Routes -> 0..MaxTime] : Choice(n, i, had, upto, answer)
<1> DEFINE n == [p \in Routes |-> CHOOSE m \in had[p]..upto[p] : answer[p] = RawAt(m, i, p)]
<1>1. ASSUME NEW p \in Routes
      PROVE  n[p] \in had[p]..upto[p] /\ answer[p] = RawAt(n[p], i, p)
  OBVIOUS
<1>2. ASSUME NEW p \in Routes PROVE n[p] \in 0..MaxTime /\ n[p] \in had[p]..ready[p]
  <2>1. /\ ready[p] \in Nat /\ ready[p] <= Len(table[p])
        /\ Len(table[p]) \in Nat /\ Len(table[p]) <= MaxTime /\ MaxTime \in Nat
    BY IndexOf, SampleAssumption
  <2>2. upto[p] \in Nat /\ upto[p] <= ready[p] /\ had[p] \in Nat
    OBVIOUS
  <2>3. n[p] \in had[p]..upto[p]
    BY <1>1
  <2> HIDE DEF n
  <2>4. PICK m : m = n[p]
    OBVIOUS
  <2>5. m \in 0..MaxTime /\ m \in had[p]..ready[p]
    BY <2>1, <2>2, <2>3, <2>4
  <2> QED
    BY <2>4, <2>5
<1>3. n \in [Routes -> 0..MaxTime]
  BY <1>2
<1> HIDE DEF n
<1>4. \A p \in Routes : RawAt(n[p], i, p) = Raw(n, i, p)
  BY DEF RawAt, Raw, AloneAt
<1>5. Choice(n, i, had, upto, answer)
  BY <1>1, <1>2, <1>4 DEF Choice
<1> QED
  BY <1>3, <1>5

\* The reads are over and answer the instants.
LEMMA AnswerInstantsKeeps == Inv /\ AnswerInstants => Inv'
<1> SUFFICES ASSUME Inv, AnswerInstants PROVE Inv'
  OBVIOUS
<1>1. /\ phase = "read" /\ phase' = (IF plan.wallet THEN "align" ELSE "price") /\ ReadsOver
      /\ first' = read /\ read' = read
      /\ table' = table /\ ready' = ready /\ plan' = plan
      /\ target' = target /\ wallet' = wallet
  BY DEF AnswerInstants
<1>2. /\ answers' = [i \in Instants |-> [p \in Routes |->
                       IF plan.pinned THEN CheckpointAnswer(read[p])
                       ELSE RangeAnswer(read[p], plan.instants[i])]]
      /\ retries' = [i \in Instants |-> \E p \in Routes : AskAgain(answers'[i][p])]
  BY DEF AnswerInstants
<1>3. World
  BY DEF Inv
<1>4. Instants' = Instants
  BY <1>1, Unmoved
<1>5. World'
  BY <1>1, <1>2, <1>3, <1>4 DEF World, Early
<1>6. ASSUME NEW p \in Routes
      PROVE  read[p].pc = "over" /\ ReadsFor(p, read[p], ToSet(plan.instants))
  <2>1. ReadsFor(p, read[p], ToSet(plan.instants))
    BY <1>1 DEF Inv, Readings
  <2>2. read[p].pc # "unused"
    BY <2>1 DEF ReadsFor, Ranged, Pointed
  <2> QED
    BY <1>1, <2>1, <2>2 DEF ReadsOver
<1>7. ASSUME NEW p \in Routes PROVE Readings(p)'
  <2>1. ReadsFor(p, first[p], ToSet(plan.instants))'
    BY <1>1, <1>6 DEF ReadsFor
  <2> QED
    BY <1>1, <1>6, <2>1 DEF Readings, Early
<1>8. ASSUME NEW i \in Instants, NEW p \in Routes
      PROVE  /\ Dated(i, answers'[i][p])
             /\ ~AskAgain(answers'[i][p]) =>
                  \E m \in first'[p].had..ready[p] : answers'[i][p] = RawAt(m, i, p)
             /\ ~plan.pinned /\ AskAgain(answers'[i][p]) => FellShort(first'[p], plan.instants[i])
  <2>1. answers'[i][p] = IF plan.pinned THEN CheckpointAnswer(read[p])
                         ELSE RangeAnswer(read[p], plan.instants[i])
    BY <1>2
  <2>2. PICK x, r : x = answers'[i][p] /\ r = read[p]
    OBVIOUS
  <2>3. /\ Dated(i, x)
        /\ ~AskAgain(x) => \E m \in r.had..ready[p] : x = RawAt(m, i, p)
        /\ ~plan.pinned /\ AskAgain(x) => FellShort(r, plan.instants[i])
    BY <1>3, <1>6, <2>1, <2>2, FirstAnswer
  <2> QED
    BY <1>1, <2>2, <2>3
<1>9. ASSUME NEW i \in Instants' PROVE (Answering(i) /\ DOMAIN answers[i] = Routes)'
  <2>0. i \in Instants
    BY <1>4
  <2>1. DOMAIN answers'[i] = Routes /\ wallet'[i] = 0
    BY <1>1, <1>2, <2>0 DEF Inv, Answering, Early
  <2>2. \A p \in Routes : Dated(i, answers[i][p])'
    BY <1>1, <1>8, <2>0 DEF Dated
  <2>3. retries'[i] <=> \E p \in Routes : AskAgain(answers'[i][p])
    BY <1>2, <2>0
  <2>4. ~retries'[i] => \A p \in Routes : \E m \in first'[p].had..ready'[p] :
                            answers'[i][p] = RawAt(m, i, p)'
    <3>1. \A m, p : RawAt(m, i, p)' = RawAt(m, i, p)
      BY <1>1, Unmoved
    <3> QED
      BY <1>1, <1>8, <2>0, <2>3, <3>1
  <2>5. ~plan'.pinned /\ retries'[i] =>
            \E p \in Routes : FellShort(first'[p], plan'.instants[i])
    BY <1>1, <1>8, <2>0, <2>3
  <2>6. ASSUME ~retries'[i], phase' = "price" PROVE AsAlone(i)'
    <3>0. PICK had, answer : had = [p \in Routes |-> first'[p].had] /\ answer = answers'[i]
      OBVIOUS
    <3>1. /\ \A p \in Routes : ready[p] \in Nat /\ ready[p] <= ready[p] /\ had[p] \in Nat
          /\ \A p \in Routes : \E m \in had[p]..ready[p] : answer[p] = RawAt(m, i, p)
      <4>1. \A p \in Routes : read[p].had \in 0..ready[p]
        BY <1>6 DEF ReadsFor, Ranged, Pointed
      <4>2. \A p \in Routes : ready[p] \in Nat
        BY <1>3, IndexOf
      <4>3. \A p \in Routes : read[p].had \in Nat
        BY <4>1, <4>2
      <4> QED
        BY <1>1, <1>8, <2>0, <2>3, <2>6, <3>0, <4>2, <4>3
    <3>2. PICK n \in [Routes -> 0..MaxTime] : Choice(n, i, had, ready, answer)
      BY <1>3, <3>1, AloneIsRaw
    <3>3. ~plan'.wallet
      BY <1>1, <2>6
    <3>4. \A p \in Routes : Alone(n, i, p) = Raw(n, i, p)
      BY <1>1, <3>3 DEF Alone
    <3>5. \A p \in Routes : Alone(n, i, p)' = Alone(n, i, p)
      BY <1>1, Unmoved
    <3>6. \A p \in Routes : /\ n[p] \in first'[p].had..ready'[p]
                             /\ answers'[i][p] = Alone(n, i, p)'
      BY <1>1, <3>0, <3>2, <3>4, <3>5 DEF Choice
    <3> QED
      BY <3>6 DEF AsAlone
  <2>7. phase' # "resolve" /\ phase' \notin {"wallet", "done"}
    BY <1>1
  <2> QED
    BY <2>1, <2>2, <2>4, <2>5, <2>6, <2>7 DEF Answering
<1>10. OneState'
  <2>1. \A i \in Instants : wallet[i] = 0
    BY <1>1 DEF Inv, Answering, Early
  <2> QED
    BY <1>1, <1>4, <2>1 DEF OneState
<1>11. RetryOnlyUnanswered'
  BY <1>1 DEF RetryOnlyUnanswered
<1>12. phase' \in {"align", "resolve"} => plan'.wallet
  BY <1>1
<1> QED
  BY <1>5, <1>7, <1>9, <1>10, <1>11, <1>12 DEF Inv

\* The targets, and the reads of those not reached.
LEMMA AlignKeeps == Inv /\ Align => Inv'
<1> SUFFICES ASSUME Inv, Align PROVE Inv'
  OBVIOUS
<1>1. /\ phase = "align" /\ phase' = "resolve"
      /\ target' = [i \in Instants |-> [p \in Routes |-> TargetOf(i, p)]]
      /\ table' = table /\ ready' = ready /\ plan' = plan /\ first' = first
      /\ answers' = answers /\ retries' = retries /\ wallet' = wallet
  BY DEF Align
<1>2. World /\ plan.wallet
  BY <1>1 DEF Inv
<1>3. Instants' = Instants
  BY <1>1, Unmoved
<1>4. \A i, p : TargetOf(i, p)' = TargetOf(i, p)
  BY <1>1 DEF TargetOf, Oldest
<1>5. \A i \in Instants : \A p \in Routes : target'[i][p] = TargetOf(i, p)
  BY <1>1
<1>6. ASSUME NEW p \in Routes
      PROVE  /\ Missing(p)' \in SUBSET (1..MaxTime)
             /\ read'[p] = IF Missing(p)' = {} THEN NoRead
                           ELSE BeginRead(p, Min(Missing(p)'), Max(Missing(p)'))
  <2> DEFINE wanted == {TargetOf(i, p) : i \in Instants} \ {0}
             missing == IF plan.pinned THEN wanted
                        ELSE {t \in wanted : SampleAt(first[p].samples, t) = NoSample}
  <2>1. read'[p] = IF missing = {} THEN NoRead ELSE BeginRead(p, Min(missing), Max(missing))
    BY DEF Align
  <2>2. {target'[i][p] : i \in Instants'} = {TargetOf(i, p) : i \in Instants}
    BY <1>3, <1>5
  <2>3. Missing(p)' = {t \in wanted : plan.pinned \/ SampleAt(first[p].samples, t) = NoSample}
    BY <1>1, <2>2 DEF Missing
  <2>4. missing = {t \in wanted : plan.pinned \/ SampleAt(first[p].samples, t) = NoSample}
    OBVIOUS
  <2>5. ASSUME NEW i \in Instants, TargetOf(i, p) # 0 PROVE TargetOf(i, p) \in 1..MaxTime
    <3>1. \A o \in Routes : Dated(i, answers[i][o])
      BY <1>1 DEF Inv, Answering, Early
    <3>2. TargetOf(i, p) = Oldest(i)
      BY <2>5 DEF TargetOf
    <3> QED
      BY <1>2, <2>5, <3>1, <3>2, OldestOf
  <2>6. wanted \in SUBSET (1..MaxTime)
    BY <2>5
  <2> HIDE DEF wanted
  <2>7. missing = Missing(p)' /\ missing \in SUBSET (1..MaxTime)
    BY <2>3, <2>4, <2>6
  <2> HIDE DEF missing
  <2> QED
    BY <2>1, <2>7
<1>7. ASSUME NEW p \in Routes
      PROVE  /\ DOMAIN read'[p] = DOMAIN NoRead
             /\ IF Missing(p)' = {} THEN read'[p] = NoRead
                ELSE ReadsFor(p, read'[p], Missing(p)') /\ read'[p].had = ready[p]
  <2>1. PICK asked, r : asked = Missing(p)' /\ r = read'[p]
    OBVIOUS
  <2>2. asked \in SUBSET (1..MaxTime)
    BY <1>6, <2>1
  <2>3. CASE asked = {}
    BY <1>6, <2>1, <2>3
  <2>4. CASE asked # {}
    <3>1. r = BeginRead(p, Min(asked), Max(asked))
      BY <1>6, <2>1, <2>4
    <3>2. ReadsFor(p, r, asked) /\ r.had = ready[p] /\ DOMAIN r = DOMAIN NoRead
      BY <1>2, <2>2, <2>4, <3>1, ReadBegins
    <3> QED
      BY <2>1, <2>4, <3>2
  <2> QED
    BY <2>3, <2>4
<1>8. DOMAIN read' = Routes
  BY DEF Align
<1>9. World'
  BY <1>1, <1>2, <1>3, <1>7, <1>8 DEF World, Early
<1>10. ASSUME NEW p \in Routes PROVE Readings(p)'
  <2>1. (first[p].pc = "over" /\ ReadsFor(p, first[p], ToSet(plan.instants)))'
    BY <1>1 DEF Inv, Readings, Early, ReadsFor
  <2>2. \A i \in Instants' : target'[i][p] = TargetOf(i, p)'
    BY <1>3, <1>4, <1>5
  <2>3. IF Missing(p)' = {} THEN read'[p] = NoRead ELSE ReadsFor(p, read[p], Missing(p))'
    <3>1. CASE Missing(p)' = {}
      BY <1>7, <3>1
    <3>2. CASE Missing(p)' # {}
      <4>1. ReadsFor(p, read'[p], Missing(p)')
        BY <1>7, <3>2
      <4> QED
        BY <1>1, <3>2, <4>1 DEF ReadsFor
    <3> QED
      BY <3>1, <3>2
  <2> QED
    BY <1>1, <2>1, <2>2, <2>3 DEF Readings, Early
<1>11. ASSUME NEW i \in Instants' PROVE (Answering(i) /\ DOMAIN answers[i] = Routes)'
  <2>1. i \in Instants /\ Answering(i) /\ DOMAIN answers[i] = Routes
    BY <1>3 DEF Inv
  <2>2. wallet'[i] = 0 /\ \A p \in Routes : Dated(i, answers[i][p])'
    BY <1>1, <2>1 DEF Answering, Dated, Early
  <2>3. ASSUME ~retries[i], NEW p \in Routes
        PROVE  \E m \in first'[p].had..ready'[p] :
                 /\ answers'[i][p] = RawAt(m, i, p)'
                 /\ phase' = "resolve" /\ read'[p].pc # "unused" => m <= read'[p].had
    <3>1. PICK m \in first[p].had..ready[p] : answers[i][p] = RawAt(m, i, p)
      BY <1>1, <2>1, <2>3 DEF Answering
    <3>2. answers'[i][p] = RawAt(m, i, p)'
      BY <1>1, <3>1, Unmoved
    <3>3. read'[p].pc # "unused" => read'[p].had = ready[p]
      BY <1>7 DEF NoRead
    <3>4. m <= ready[p]
      <4>1. first[p].had \in 0..ready[p]
        BY <1>1 DEF Inv, Readings, Early, ReadsFor, Ranged, Pointed
      <4>2. ready[p] \in Nat
        BY <1>2, IndexOf
      <4> QED
        BY <4>1, <4>2
    <3> QED
      BY <1>1, <3>1, <3>2, <3>3, <3>4
  <2>4. ~plan'.pinned /\ retries'[i] =>
            \E p \in Routes : FellShort(first'[p], plan'.instants[i])
    BY <1>1, <2>1 DEF Answering
  <2> QED
    BY <1>1, <2>1, <2>2, <2>3, <2>4 DEF Answering
<1>12. OneState'
  BY <1>1, <1>3 DEF Inv, OneState
<1>13. RetryOnlyUnanswered'
  BY <1>1 DEF RetryOnlyUnanswered
<1> QED
  BY <1>1, <1>2, <1>9, <1>10, <1>11, <1>12, <1>13 DEF Inv

-----------------------------------------------------------------------------
(* Alignment.                                                              *)

\* A sample of an index that covers a time before another of its samples is an earlier
\* sample: it was completed when the other one was.
LEMMA EarlierSample ==
    ASSUME NEW s, Tidy(s), NEW m \in Nat, m <= Len(s), NEW at \in Nat, NEW t \in Nat,
           NEW x, x = SampleAt(SubSeq(s, 1, m), at), x # NoSample, t < x.start,
           NEW y, y = SampleAt(SubSeq(s, 1, m), t),
           NEW k \in 1..Len(s), Covers(s[k], t)
    PROVE  k \in 1..m /\ y = s[k]
<1>1. PICK o \in 1..m : x = s[o]
  BY FoundCompleted
<1>2. Len(s) \in Nat /\ o \in 1..Len(s) /\ k \in Int /\ o \in Int
  BY DEF Tidy
<1>3. s[k].start \in Nat /\ s[o].start \in Nat /\ s[k].start <= t
  BY <1>2, SampleOf DEF Covers
<1>4. ~(o <= k)
  <2> SUFFICES ASSUME o <= k PROVE FALSE
    OBVIOUS
  <2>1. s[o].start <= s[k].start
    BY <1>2, Later
  <2> QED
    BY <1>1, <1>3, <2>1
<1>5. k \in 1..m
  BY <1>2, <1>4
<1> QED
  BY <1>5, FoundCompleted

\* z is the certified sample of s that covers t, if that starts there.
PointedAt(s, t, z) ==
    \E k \in 1..Len(s) :
        /\ Covers(s[k], t) /\ s[k].good
        /\ s[k].start = t => z # NoSample /\ z.good /\ z.start = t
        /\ s[k].start # t => z = NoSample

\* What a checkpoint read holds at its checkpoint: nothing if it failed, and else the
\* certified sample covering it, if it starts there.
LEMMA PointedFound ==
    ASSUME NEW s, Tidy(s), NEW n \in Nat, n <= Len(s), NEW t \in Nat,
           NEW r, Pointed(s, n, r, t), r.pc = "over", NEW z, z = SampleAt(r.samples, t)
    PROVE  /\ r.err # "none" => z = NoSample
           /\ r.err = "none" => PointedAt(s, t, z)
<1>1. CASE r.err # "none"
  <2>1. r.samples = << >>
    BY <1>1 DEF Pointed
  <2>2. ToSet(r.samples) = {}
    BY <2>1 DEF ToSet
  <2>3. z = NoSample
    BY <2>2 DEF SampleAt
  <2> QED
    BY <1>1, <2>3
<1>2. CASE r.err = "none"
  <2>1. PICK k \in 1..n : /\ Covers(s[k], t) /\ s[k].good
                          /\ r.samples = <<[s[k] EXCEPT !.until = s[k].start + 1]>>
    BY <1>2 DEF Pointed
  <2>2. k \in 1..Len(s)
    BY DEF Tidy
  <2>3. s[k] \in Samples /\ s[k].start \in Nat /\ s[k].start \in 1..MaxTime
    BY <2>2, SampleOf
  <2>4. PICK y : y = [s[k] EXCEPT !.until = s[k].start + 1]
    OBVIOUS
  <2>5. y.start = s[k].start /\ y.until = s[k].start + 1 /\ y.good = s[k].good
    <3>1. \A w \in Samples : /\ [w EXCEPT !.until = w.start + 1].start = w.start
                             /\ [w EXCEPT !.until = w.start + 1].until = w.start + 1
                             /\ [w EXCEPT !.until = w.start + 1].good = w.good
      BY DEF Samples
    <3> QED
      BY <2>3, <2>4, <3>1
  <2>6. ToSet(r.samples) = {y}
    BY <2>1, <2>4 DEF ToSet
  <2>7. Covers(y, t) <=> s[k].start = t
    BY <2>3, <2>5 DEF Covers
  <2>8. y # NoSample
    <3>1. y.start # 0 /\ NoSample.start = 0
      BY <2>3, <2>5, SampleAssumption DEF NoSample
    <3> QED
      BY <3>1
  <2>9. ASSUME s[k].start = t PROVE z = y
    <3>1. {w \in ToSet(r.samples) : Covers(w, t)} = {y}
      BY <2>6, <2>7, <2>9
    <3>2. y.start <= y.start
      BY <2>3, <2>5
    <3> QED
      BY <3>1, <3>2 DEF SampleAt
  <2>10. ASSUME s[k].start # t PROVE z = NoSample
    <3>1. {w \in ToSet(r.samples) : Covers(w, t)} = {}
      BY <2>6, <2>7, <2>10
    <3> QED
      BY <3>1 DEF SampleAt
  <2> QED
    BY <1>2, <2>1, <2>2, <2>5, <2>8, <2>9, <2>10 DEF PointedAt
<1> QED
  BY <1>1, <1>2

\* What two reads of an index hold together at a time.
LEMMA JointlyFound ==
    ASSUME NEW s, Tidy(s), NEW t \in Nat, NEW u \in Seq(Samples), NEW v \in Seq(Samples),
           ToSet(u) \subseteq {s[k] : k \in 1..Len(s)},
           ToSet(v) \subseteq {s[k] : k \in 1..Len(s)},
           NEW z, z = SampleAt(u \o v, t)
    PROVE  /\ z # NoSample => \E k \in 1..Len(s) : z = s[k] /\ Covers(s[k], t)
           /\ z = NoSample => SampleAt(u, t) = NoSample /\ SampleAt(v, t) = NoSample
<1>1. PICK w : w = u \o v
  OBVIOUS
<1>2. /\ w \in Seq(Samples) /\ Len(w) = Len(u) + Len(v)
      /\ DOMAIN w = 1..Len(w) /\ DOMAIN u = 1..Len(u) /\ DOMAIN v = 1..Len(v)
      /\ Len(u) \in Nat /\ Len(v) \in Nat
      /\ \A k \in 1..Len(w) : w[k] = IF k <= Len(u) THEN u[k] ELSE v[k - Len(u)]
  BY <1>1
<1>3. ToSet(w) = ToSet(u) \cup ToSet(v)
  <2>1. ASSUME NEW k \in DOMAIN w PROVE w[k] \in ToSet(u) \cup ToSet(v)
    <3>1. CASE k <= Len(u)
      <4>1. k \in DOMAIN u /\ w[k] = u[k]
        BY <1>2, <3>1
      <4> QED
        BY <4>1 DEF ToSet
    <3>2. CASE ~(k <= Len(u))
      <4>1. k - Len(u) \in DOMAIN v /\ w[k] = v[k - Len(u)]
        BY <1>2, <3>2
      <4> QED
        BY <4>1 DEF ToSet
    <3> QED
      BY <3>1, <3>2
  <2>2. ASSUME NEW k \in DOMAIN u PROVE u[k] \in ToSet(w)
    <3>1. k \in DOMAIN w /\ w[k] = u[k]
      BY <1>2
    <3> QED
      BY <3>1 DEF ToSet
  <2>3. ASSUME NEW k \in DOMAIN v PROVE v[k] \in ToSet(w)
    <3>1. PICK j : j = k + Len(u)
      OBVIOUS
    <3>2. j \in DOMAIN w /\ ~(j <= Len(u)) /\ j - Len(u) = k
      BY <1>2, <3>1
    <3>3. w[j] = v[k]
      BY <1>2, <3>2
    <3> QED
      BY <3>2, <3>3 DEF ToSet
  <2>4. /\ \A y : y \in ToSet(w) <=> \E k \in DOMAIN w : y = w[k]
        /\ \A y : y \in ToSet(u) <=> \E k \in DOMAIN u : y = u[k]
        /\ \A y : y \in ToSet(v) <=> \E k \in DOMAIN v : y = v[k]
    BY DEF ToSet
  <2> QED
    BY <2>1, <2>2, <2>3, <2>4
<1>4. ToSet(w) \subseteq {s[k] : k \in 1..Len(s)}
  BY <1>3
<1>5. /\ z = NoSample <=> ~\E y \in ToSet(w) : Covers(y, t)
      /\ z # NoSample => z \in ToSet(w) /\ Covers(z, t)
  BY <1>1, <1>4, FoundAt
<1>6. /\ SampleAt(u, t) = NoSample <=> ~\E y \in ToSet(u) : Covers(y, t)
      /\ SampleAt(v, t) = NoSample <=> ~\E y \in ToSet(v) : Covers(y, t)
  BY FoundAt
<1> QED
  BY <1>3, <1>4, <1>5, <1>6

\* A read of samples that leave no gaps, which failed without falling short of a time,
\* has the sample covering it, unless the time is before the first sample.
LEMMA OnlyBeforeFirst ==
    ASSUME NEW s, Tidy(s), \A k \in 2..Len(s) : s[k].start = s[k - 1].until,
           NEW n \in Nat, n <= Len(s), NEW lo \in Nat, NEW hi \in Nat,
           NEW r, Ranged(s, n, r, lo, hi), r.err # "none",
           NEW t \in Nat, lo <= t, SampleAt(r.samples, t) = NoSample, ~FellShort(r, t)
    PROVE  t < s[1].start
<1>1. r.samples # << >> /\ ~(t >= Last(r.samples).until)
  BY DEF FellShort
<1>2. PICK a \in 1..n, b \in 1..n :
          /\ a <= b /\ r.samples = SubSeq(s, a, b)
          /\ \A k \in 1..(a - 1) : s[k].until <= lo
  BY <1>1 DEF Ranged
<1>3. /\ Len(s) \in Nat /\ a \in Nat \ {0} /\ b \in Nat /\ b <= Len(s) /\ b \in 1..Len(s)
      /\ 1 \in 1..Len(s)
  BY DEF Tidy
<1>4. Last(r.samples) = s[b] /\ ToSet(r.samples) = {s[k] : k \in a..b}
  <2>1. Tidy(s) /\ a \in Nat \ {0} /\ b \in Nat /\ b <= Len(s) /\ a <= b
    BY <1>2, <1>3
  <2>2. Last(SubSeq(s, a, b)) = s[b] /\ ToSet(SubSeq(s, a, b)) = RunOf(s, a, b)
    BY ONLY <2>1, RunMembers
  <2> QED
    BY ONLY <1>2, <2>2 DEF RunOf
<1>5. s[b].until \in Nat /\ t < s[b].until
  BY <1>1, <1>3, <1>4, SampleOf
<1>6. ASSUME NEW k \in 1..b PROVE ~Covers(s[k], t)
  <2> SUFFICES ASSUME Covers(s[k], t) PROVE FALSE
    OBVIOUS
  <2>1. k \in 1..Len(s)
    BY <1>3
  <2>2. s[k].until \in Nat /\ t < s[k].until
    BY <2>1, SampleOf DEF Covers
  <2>3. CASE k < a
    <3>1. k \in 1..(a - 1)
      BY <1>3, <2>3
    <3>2. s[k].until <= lo
      BY <1>2, <3>1
    <3> QED
      BY <2>2, <3>2
  <2>4. CASE ~(k < a)
    <3>1. k \in a..b
      BY <1>3, <2>4
    <3>2. ToSet(r.samples) \subseteq {s[j] : j \in 1..Len(s)}
      BY RangedSamples
    <3>3. \A x \in ToSet(r.samples) : ~Covers(x, t)
      BY <3>2, FoundAt
    <3> QED
      BY <1>4, <3>1, <3>3
  <2> QED
    BY <2>3, <2>4
<1>7. s[1].start \in Nat
  BY <1>3, SampleOf
<1> SUFFICES ASSUME s[1].start <= t PROVE FALSE
  BY <1>7
<1> DEFINE K == {k \in 1..b : s[k].start <= t}
<1>8. K \in SUBSET (0..b) /\ 1 \in K
  BY <1>3
<1>9. PICK k \in K : \A j \in K : k >= j
  BY <1>3, <1>8, GreatestOf
<1>10. k \in 1..b /\ s[k].start <= t /\ k \in 1..Len(s)
  BY <1>3, <1>9
<1>11. s[k].until \in Nat
  BY <1>10, SampleOf
<1>12. ~(t < s[k].until)
  BY <1>6, <1>10 DEF Covers
<1>13. k # b
  BY <1>5, <1>12
<1>14. PICK j : j = k + 1
  OBVIOUS
<1>15. j \in 1..b /\ j \in 2..Len(s) /\ j - 1 = k /\ ~(k >= j)
  BY <1>3, <1>10, <1>13, <1>14
<1>16. s[j].start = s[k].until
  BY <1>15
<1>17. s[j].start <= t
  BY <1>11, <1>12, <1>16
<1>18. j \in K
  BY <1>15, <1>17
<1> QED
  BY <1>9, <1>15, <1>18

\* What each read under way or over says at alignment.
LEMMA SecondRead ==
    ASSUME Inv, phase = "resolve", ReadsOver, NEW p \in Routes
    PROVE  /\ first[p].had \in Nat /\ first[p].had <= ready[p]
           /\ read[p].pc # "unused" => read[p].had \in Nat /\ read[p].had <= ready[p]
           /\ read[p].err \in {"none", "failed", "uncertified", "nosample"}
           /\ Missing(p) \in SUBSET (1..MaxTime)
           /\ IF Missing(p) = {} THEN read[p] = NoRead
              ELSE ReadsFor(p, read[p], Missing(p)) /\ read[p].pc = "over"
<1>1. World /\ Readings(p) /\ ready[p] \in Nat
  BY IndexOf DEF Inv
<1>2. /\ ReadsFor(p, first[p], ToSet(plan.instants))
      /\ \A i \in Instants : target[i][p] = TargetOf(i, p)
      /\ IF Missing(p) = {} THEN read[p] = NoRead ELSE ReadsFor(p, read[p], Missing(p))
  BY <1>1 DEF Readings, Early
<1>3. first[p].had \in 0..ready[p]
  BY <1>2 DEF ReadsFor, Ranged, Pointed
<1>4. CASE Missing(p) = {}
  <2>1. read[p].pc = "unused" /\ read[p].err = "none"
    BY <1>2, <1>4 DEF NoRead
  <2>2. Missing(p) \in SUBSET (1..MaxTime)
    BY <1>4
  <2> QED
    BY <1>1, <1>2, <1>3, <1>4, <2>1, <2>2
<1>5. CASE Missing(p) # {}
  <2>1. ReadsFor(p, read[p], Missing(p))
    BY <1>2, <1>5
  <2>2. /\ read[p].pc # "unused" /\ read[p].had \in 0..ready[p]
        /\ read[p].err \in {"none", "failed", "uncertified", "nosample"}
    BY <2>1 DEF ReadsFor, Ranged, Pointed
  <2>3. read[p].pc = "over"
    BY <2>2 DEF ReadsOver
  <2>4. ASSUME NEW i \in Instants, target[i][p] # 0 PROVE target[i][p] \in 1..MaxTime
    <3>1. \A o \in Routes : Dated(i, answers[i][o])
      BY DEF Inv, Answering, Early
    <3>2. target[i][p] = Oldest(i)
      BY <1>2, <2>4 DEF TargetOf
    <3> QED
      BY <1>1, <2>4, <3>1, <3>2, OldestOf
  <2>5. Missing(p) \in SUBSET (1..MaxTime)
    BY <2>4 DEF Missing
  <2> QED
    BY <1>1, <1>3, <1>5, <2>1, <2>2, <2>3, <2>5
<1> QED
  BY <1>4, <1>5

\* A target that is resolved, and no failure, is resolved to what the index alone says
\* of it with as many samples as gave its first answer.
LEMMA ResolvedAlone ==
    ASSUME Inv, phase = "resolve", ReadsOver, NEW i \in Instants, NEW p \in Routes,
           NEW t, t = target[i][p], t # 0, Found(p, t) # NoSample \/ read[p].err = "none",
           NEW m \in first[p].had..ready[p], answers[i][p] = RawAt(m, i, p),
           read[p].pc # "unused" => m <= read[p].had,
           NEW y, y = SampleAt(SubSeq(table[p], 1, m), t)
    PROVE  Resolved(i, p) = IF y # NoSample /\ ~y.good THEN Failure("uncertified")
                            ELSE IF y.start # t THEN Failure("nosample")
                            ELSE AnswerFrom(y)
<1>0. PICK s, n, r, z, at : /\ s = table[p] /\ n = ready[p] /\ r = read[p]
                            /\ z = Found(p, t) /\ at = plan.instants[i]
  OBVIOUS
<1>1. World /\ Readings(p) /\ Answering(i)
  BY DEF Inv
<1>2. Tidy(s) /\ n \in Nat /\ n <= Len(s) /\ Len(s) \in Nat
  BY <1>0, <1>1, IndexOf
<1>3. m \in Nat /\ m <= n /\ m <= Len(s) /\ m \in Int
  BY <1>0, <1>2, SecondRead
<1>4. at \in Nat
  BY <1>0, <1>1, Asked
<1>5. /\ t \in 1..MaxTime /\ t \in Nat /\ answers[i][p].err = "none"
      /\ answers[i][p].at \in Nat /\ t < answers[i][p].at
  <2>1. t = Oldest(i) /\ answers[i][p].at # t
    BY <1>1 DEF Readings, TargetOf
  <2>2. \A o \in Routes : Dated(i, answers[i][o])
    BY <1>1 DEF Answering, Early
  <2>3. /\ t \in 1..MaxTime /\ t \in Nat /\ answers[i][p].err = "none"
        /\ answers[i][p].at \in Nat /\ t <= answers[i][p].at
    BY <1>1, <2>1, <2>2, OldestOf
  <2> QED
    BY <2>1, <2>3
<1>6. PICK x : x = SampleAt(SubSeq(s, 1, m), at)
  OBVIOUS
<1>7. x # NoSample /\ t < x.start
  <2>1. answers[i][p] = IF x = NoSample THEN Failure("nosample") ELSE AnswerFrom(x)
    BY <1>0, <1>6 DEF RawAt
  <2>2. x # NoSample /\ answers[i][p].at = x.start
    BY <1>5, <2>1 DEF Failure, AnswerFrom
  <2> QED
    BY <1>5, <2>2
<1>8. ASSUME NEW k \in 1..Len(s), Covers(s[k], t) PROVE y = s[k]
  BY <1>0, <1>2, <1>3, <1>4, <1>5, <1>6, <1>7, <1>8, EarlierSample
<1>9. (\A k \in 1..m : ~Covers(s[k], t)) => y = NoSample
  <2>1. Tidy(s) /\ m \in Nat /\ m <= Len(s) /\ t \in Nat /\ y = SampleAt(SubSeq(s, 1, m), t)
    BY <1>0, <1>2, <1>3, <1>5
  <2> QED
    BY ONLY <2>1, FoundCompleted
<1>10. Resolved(i, p) = IF z # NoSample /\ ~z.good THEN Failure("uncertified")
                        ELSE IF z.start # t THEN Failure("nosample")
                        ELSE [at |-> z.start, err |-> "none"]
  BY <1>0 DEF Resolved
<1>11. NoSample.start # t
  BY <1>5 DEF NoSample
<1>12. CASE plan.pinned
  <2>1. Missing(p) = {t}
    <3>1. plan.instants \in Seq(1..MaxTime) /\ Len(plan.instants) = 1
      BY <1>1, <1>12, SampleAssumption DEF World
    <3>2. Instants = {1}
      BY <3>1 DEF Instants
    <3>3. \A j \in Instants : j = i
      BY <3>2
    <3> QED
      BY <1>12, <3>3 DEF Missing
  <2>2. Min(Missing(p)) = t
    <3>1. {t} \in SUBSET (1..MaxTime)
      BY <1>5
    <3>2. Min({t}) \in {t}
      BY <3>1, Span
    <3> QED
      BY <2>1, <3>2
  <2>3. Pointed(s, n, r, t) /\ r.pc = "over"
    BY <1>0, <1>12, <2>1, <2>2, SecondRead DEF ReadsFor
  <2>4. z = SampleAt(r.samples, t)
    BY <1>0, <1>12 DEF Found
  <2>5. r.err = "none"
    BY <1>0, <1>2, <1>5, <2>3, <2>4, PointedFound
  <2>6. PICK k \in 1..Len(s) :
            /\ Covers(s[k], t) /\ s[k].good
            /\ s[k].start = t => z # NoSample /\ z.good /\ z.start = t
            /\ s[k].start # t => z = NoSample
    <3>1. Tidy(s) /\ n \in Nat /\ n <= Len(s) /\ t \in Nat
      BY <1>2, <1>5
    <3> QED
      BY ONLY <2>3, <2>4, <2>5, <3>1, PointedFound DEF PointedAt
  <2>7. y = s[k] /\ y.good
    BY <1>8, <2>6
  <2>8. CASE s[k].start = t
    <3>1. Resolved(i, p) = [at |-> t, err |-> "none"]
      BY <1>10, <2>6, <2>8
    <3>2. AnswerFrom(y) = [at |-> t, err |-> "none"]
      BY <2>7, <2>8 DEF AnswerFrom
    <3> QED
      BY <2>7, <2>8, <3>1, <3>2
  <2>9. CASE s[k].start # t
    <3>1. Resolved(i, p) = Failure("nosample")
      BY <1>10, <1>11, <2>6, <2>9
    <3> QED
      BY <2>7, <2>9, <3>1
  <2> QED
    BY <2>8, <2>9
<1>13. CASE ~plan.pinned
  <2>1. PICK f, lo1, hi1 : /\ f = first[p]
                           /\ lo1 = Min(ToSet(plan.instants)) /\ hi1 = Max(ToSet(plan.instants))
    OBVIOUS
  <2>2. Ranged(s, n, f, lo1, hi1) /\ lo1 \in Nat /\ hi1 \in Nat
    <3>1. PICK asked : asked = ToSet(plan.instants)
      OBVIOUS
    <3>2. asked \in SUBSET (1..MaxTime) /\ asked # {}
      BY <1>1, <3>1, Asked
    <3>3. ReadsFor(p, f, asked)
      BY <1>1, <2>1, <3>1 DEF Readings, Early
    <3>4. Min(asked) \in Nat /\ Max(asked) \in Nat
      BY <3>2, Span
    <3> QED
      BY <1>0, <1>13, <2>1, <3>1, <3>3, <3>4 DEF ReadsFor
  <2>3. f.samples \in Seq(Samples) /\ ToSet(f.samples) \subseteq {s[k] : k \in 1..Len(s)}
    BY <1>2, <2>2, RangedSamples
  <2>4. ASSUME Missing(p) # {}, NEW lo, NEW hi, lo = Min(Missing(p)), hi = Max(Missing(p))
        PROVE  Ranged(s, n, r, lo, hi) /\ r.pc = "over" /\ lo \in Nat /\ hi \in Nat
    <3>1. Missing(p) \in SUBSET (1..MaxTime) /\ ReadsFor(p, r, Missing(p)) /\ r.pc = "over"
      BY <1>0, <2>4, SecondRead
    <3>2. Min(Missing(p)) \in Nat /\ Max(Missing(p)) \in Nat
      BY <2>4, <3>1, Span
    <3> QED
      BY <1>0, <1>13, <2>4, <3>1, <3>2 DEF ReadsFor
  <2>5. r.samples \in Seq(Samples) /\ ToSet(r.samples) \subseteq {s[k] : k \in 1..Len(s)}
    <3>1. CASE Missing(p) = {}
      <4>1. r.samples = << >>
        BY <1>0, <3>1, SecondRead DEF NoRead
      <4> QED
        BY <4>1 DEF ToSet
    <3>2. CASE Missing(p) # {}
      BY <1>2, <2>4, <3>2, RangedSamples
    <3> QED
      BY <3>1, <3>2
  <2>6. z = SampleAt(r.samples \o f.samples, t)
    BY <1>0, <1>13, <2>1 DEF Found
  <2>7. /\ z # NoSample => \E k \in 1..Len(s) : z = s[k] /\ Covers(s[k], t)
        /\ z = NoSample => SampleAt(r.samples, t) = NoSample /\ SampleAt(f.samples, t) = NoSample
    BY <1>2, <1>5, <2>3, <2>5, <2>6, JointlyFound
  <2>8. CASE z # NoSample
    <3>1. y = z
      BY <1>8, <2>7, <2>8
    <3> QED
      BY <1>10, <2>8, <3>1 DEF AnswerFrom
  <2>9. CASE z = NoSample
    <3>1. r.err = "none" /\ SampleAt(r.samples, t) = NoSample /\ SampleAt(f.samples, t) = NoSample
      BY <1>0, <2>7, <2>9
    <3>2. t \in Missing(p)
      BY <2>1, <3>1 DEF Missing
    <3>3. PICK lo, hi : lo = Min(Missing(p)) /\ hi = Max(Missing(p))
      OBVIOUS
    <3>4. Ranged(s, n, r, lo, hi) /\ r.pc = "over" /\ lo \in Nat /\ hi \in Nat
      BY <2>4, <3>2, <3>3
    <3>5. lo <= t /\ t <= hi
      BY <3>2, <3>3, SecondRead, Span
    <3>6. ~FellShort(r, t)
      BY <3>1 DEF FellShort
    <3>7. \A k \in 1..r.had : ~Covers(s[k], t)
      BY <1>2, <1>5, <3>1, <3>4, <3>5, <3>6, Reached
    <3>8. m <= r.had /\ r.had \in Nat
      BY <1>0, <3>4, SecondRead
    <3>9. \A k \in 1..m : k \in 1..r.had
      BY <1>3, <3>8
    <3>10. y = NoSample
      BY <1>9, <3>7, <3>9
    <3> QED
      BY <1>10, <1>11, <2>9, <3>10
  <2> QED
    BY <2>8, <2>9
<1> QED
  BY <1>12, <1>13

\* What a resolved answer can be.
LEMMA ResolvedDated ==
    ASSUME Inv, phase = "resolve", ReadsOver, NEW i \in Instants, NEW p \in Routes
    PROVE  Dated(i, Resolved(i, p))
<1>1. World /\ Readings(p) /\ \A o \in Routes : Dated(i, answers[i][o])
  BY DEF Inv, Answering, Early
<1>2. PICK t, z : t = target[i][p] /\ z = Found(p, t)
  OBVIOUS
<1>3. CASE t = 0
  <2>1. Resolved(i, p) = answers[i][p]
    BY <1>2, <1>3 DEF Resolved
  <2> QED
    BY <1>1, <2>1
<1>4. CASE t # 0
  <2>1. t = Oldest(i)
    BY <1>1, <1>2, <1>4 DEF Readings, TargetOf
  <2>2. t \in 1..plan.instants[i]
    <3>1. /\ t \in 1..MaxTime /\ t \in Nat /\ answers[i][p].at \in Nat
          /\ t <= answers[i][p].at /\ answers[i][p].at <= plan.instants[i]
      BY <1>1, <1>4, <2>1, OldestOf
    <3>2. plan.instants[i] \in Nat
      BY <1>1, Asked
    <3>3. t >= 1
      BY <3>1, SampleAssumption
    <3> QED
      BY <3>1, <3>2, <3>3
  <2>3. read[p].err \in {"none", "failed", "uncertified", "nosample"}
    BY SecondRead
  <2>4. \/ \E e \in {"failed", "uncertified", "nosample"} : Resolved(i, p) = Failure(e)
        \/ Resolved(i, p) = [at |-> t, err |-> "none"]
    BY <1>2, <1>4, <2>3 DEF Resolved
  <2> QED
    BY <2>2, <2>4 DEF Dated
<1> QED
  BY <1>3, <1>4

\* An instant resolved without a failure is answered as if it were alone.
LEMMA ResolvedAsAlone ==
    ASSUME Inv, phase = "resolve", ReadsOver, NEW i \in Instants, ~retries[i],
           \A p \in Routes : target[i][p] # 0 =>
               Found(p, target[i][p]) # NoSample \/ read[p].err = "none"
    PROVE  \E n \in [Routes -> 0..MaxTime] :
             \A p \in Routes : /\ n[p] \in first[p].had..ready[p]
                               /\ Resolved(i, p) = Alone(n, i, p)
<1>1. World /\ Answering(i) /\ plan.wallet
  BY DEF Inv
<1>2. \A p \in Routes : Dated(i, answers[i][p]) /\ target[i][p] = TargetOf(i, p)
  BY <1>1 DEF Inv, Readings, Answering, Early
<1>3. PICK had, upto, answer :
          /\ had = [p \in Routes |-> first[p].had] /\ answer = answers[i]
          /\ upto = [p \in Routes |-> IF read[p].pc = "unused" THEN ready[p] ELSE read[p].had]
  OBVIOUS
<1>4. ASSUME NEW p \in Routes
      PROVE  /\ upto[p] \in Nat /\ upto[p] <= ready[p] /\ had[p] \in Nat
             /\ read[p].pc # "unused" => upto[p] = read[p].had
             /\ \E m \in had[p]..upto[p] : answer[p] = RawAt(m, i, p)
  <2>1. ready[p] \in Nat
    BY <1>1, IndexOf
  <2>2. /\ had[p] = first[p].had
        /\ upto[p] = IF read[p].pc = "unused" THEN ready[p] ELSE read[p].had
        /\ answer[p] = answers[i][p]
    BY <1>3
  <2>3. /\ first[p].had \in Nat
        /\ read[p].pc # "unused" => read[p].had \in Nat /\ read[p].had <= ready[p]
    BY SecondRead
  <2>4. PICK m \in first[p].had..ready[p] :
            /\ answers[i][p] = RawAt(m, i, p)
            /\ read[p].pc # "unused" => m <= read[p].had
    BY <1>1 DEF Answering
  <2>5. m \in had[p]..upto[p]
    BY <2>1, <2>2, <2>3, <2>4
  <2> QED
    BY <2>1, <2>2, <2>3, <2>4, <2>5
<1>5. PICK n \in [Routes -> 0..MaxTime] : Choice(n, i, had, upto, answer)
  <2>1. /\ \A p \in Routes : upto[p] \in Nat /\ upto[p] <= ready[p] /\ had[p] \in Nat
        /\ \A p \in Routes : \E m \in had[p]..upto[p] : answer[p] = RawAt(m, i, p)
    BY <1>4
  <2> QED
    BY <1>1, <2>1, AloneIsRaw
<1>6. ASSUME NEW p \in Routes
      PROVE  /\ n[p] \in first[p].had..ready[p] /\ answers[i][p] = RawAt(n[p], i, p)
             /\ answers[i][p] = Raw(n, i, p)
             /\ read[p].pc # "unused" => n[p] <= read[p].had
  <2>1. had[p] = first[p].had /\ answer[p] = answers[i][p]
    BY <1>3
  <2>2. /\ n[p] \in had[p]..upto[p] /\ n[p] \in had[p]..ready[p]
        /\ answer[p] = RawAt(n[p], i, p) /\ answer[p] = Raw(n, i, p)
    BY <1>5 DEF Choice
  <2>3. upto[p] \in Nat /\ had[p] \in Nat /\ (read[p].pc # "unused" => upto[p] = read[p].had)
    BY <1>4
  <2> QED
    BY <2>1, <2>2, <2>3
<1>7. {Raw(n, i, o).at : o \in Routes} = {answers[i][o].at : o \in Routes}
  BY <1>6
<1>8. PICK oldest : oldest = Min({answers[i][o].at : o \in Routes})
  OBVIOUS
<1>9. ASSUME NEW p \in Routes
      PROVE  Alone(n, i, p) =
               IF oldest \in {0, answers[i][p].at} THEN answers[i][p]
               ELSE IF AloneAt(n, p, oldest) # NoSample /\ ~AloneAt(n, p, oldest).good
                    THEN Failure("uncertified")
               ELSE IF AloneAt(n, p, oldest).start # oldest THEN Failure("nosample")
               ELSE AnswerFrom(AloneAt(n, p, oldest))
  <2>1. oldest = Min({Raw(n, i, o).at : o \in Routes})
    BY <1>7, <1>8
  <2>2. answers[i][p] = Raw(n, i, p)
    BY <1>6
  <2> QED
    BY <1>1, <2>1, <2>2 DEF Alone
<1>10. ASSUME NEW p \in Routes PROVE Resolved(i, p) = Alone(n, i, p)
  <2>1. CASE Oldest(i) = 0
    <3>1. target[i][p] = 0
      BY <1>2, <2>1 DEF TargetOf
    <3>2. Resolved(i, p) = answers[i][p]
      BY <3>1 DEF Resolved
    <3>3. oldest = 0
      <4>1. CASE \A o \in Routes : answers[i][o].err = "none"
        BY <1>8, <2>1, <4>1 DEF Oldest
      <4>2. ASSUME NEW o \in Routes, answers[i][o].err # "none" PROVE oldest = 0
        <5> DEFINE ats == {answers[i][q].at : q \in Routes}
        <5>1. \A q \in Routes : answers[i][q].at \in Nat
          BY <1>1, <1>2, DatedAt
        <5>2. answers[i][o].at = 0
          BY <1>1, <1>2, <4>2, DatedAt
        <5>3. ats \in SUBSET Nat /\ 0 \in ats
          BY <5>1, <5>2
        <5>4. oldest = Min(ats)
          BY <1>8
        <5> HIDE DEF ats
        <5>5. oldest \in ats /\ oldest <= 0
          BY <5>3, <5>4, LeastOf
        <5> QED
          BY <5>3, <5>5
      <4> QED
        BY <4>1, <4>2
    <3> QED
      BY <1>9, <3>2, <3>3
  <2>2. CASE Oldest(i) # 0
    <3>1. oldest = Oldest(i)
      BY <1>1, <1>2, <1>8, <2>2, OldestOf
    <3>2. CASE answers[i][p].at = oldest
      <4>1. target[i][p] = 0
        BY <1>2, <3>1, <3>2 DEF TargetOf
      <4>2. Resolved(i, p) = answers[i][p]
        BY <4>1 DEF Resolved
      <4> QED
        BY <1>9, <3>2, <4>2
    <3>3. CASE answers[i][p].at # oldest
      <4>1. target[i][p] = oldest /\ oldest # 0
        BY <1>2, <2>2, <3>1, <3>3 DEF TargetOf
      <4>2. PICK m, y : m = n[p] /\ y = AloneAt(n, p, oldest)
        OBVIOUS
      <4>3. y = SampleAt(SubSeq(table[p], 1, m), oldest)
        BY <4>2 DEF AloneAt
      <4>4. /\ m \in first[p].had..ready[p] /\ answers[i][p] = RawAt(m, i, p)
            /\ read[p].pc # "unused" => m <= read[p].had
        BY <1>6, <4>2
      <4>5. Found(p, oldest) # NoSample \/ read[p].err = "none"
        BY <4>1
      <4>6. Resolved(i, p) = IF y # NoSample /\ ~y.good THEN Failure("uncertified")
                             ELSE IF y.start # oldest THEN Failure("nosample")
                             ELSE AnswerFrom(y)
        BY <4>1, <4>3, <4>4, <4>5, ResolvedAlone
      <4> QED
        BY <1>9, <3>3, <4>1, <4>2, <4>6
    <3> QED
      BY <3>2, <3>3
  <2> QED
    BY <2>1, <2>2
<1> QED
  BY <1>6, <1>10

\* Without gaps in the indexes, a target that failed was not reached or is before the
\* first sample.
LEMMA FailedTarget ==
    ASSUME Inv, phase = "resolve", ReadsOver, ~plan.pinned, NEW i \in Instants, NEW p \in Routes,
           Tiles(p), target[i][p] # 0, Found(p, target[i][p]) = NoSample, read[p].err # "none"
    PROVE  FellShort(read[p], target[i][p]) \/ target[i][p] < table[p][1].start
<1> SUFFICES ASSUME ~FellShort(read[p], target[i][p])
             PROVE  target[i][p] < table[p][1].start
  OBVIOUS
<1>0. PICK s, n, r, t, f, lo1, hi1 :
          /\ s = table[p] /\ n = ready[p] /\ r = read[p] /\ t = target[i][p] /\ f = first[p]
          /\ lo1 = Min(ToSet(plan.instants)) /\ hi1 = Max(ToSet(plan.instants))
  OBVIOUS
<1>1. World /\ Readings(p)
  BY DEF Inv
<1>2. Tidy(s) /\ n \in Nat /\ n <= Len(s)
  BY <1>0, <1>1, IndexOf
<1>3. Missing(p) # {} /\ Missing(p) \in SUBSET (1..MaxTime)
  BY SecondRead DEF NoRead
<1>4. PICK lo, hi : lo = Min(Missing(p)) /\ hi = Max(Missing(p))
  OBVIOUS
<1>5. Ranged(s, n, r, lo, hi) /\ lo \in Nat /\ hi \in Nat
  <2>1. ReadsFor(p, r, Missing(p))
    BY <1>0, <1>3, SecondRead
  <2>2. Min(Missing(p)) \in Nat /\ Max(Missing(p)) \in Nat
    BY <1>3, Span
  <2> QED
    BY <1>0, <1>4, <2>1, <2>2 DEF ReadsFor
<1>6. Ranged(s, n, f, lo1, hi1) /\ lo1 \in Nat /\ hi1 \in Nat
  <2>1. PICK asked : asked = ToSet(plan.instants)
    OBVIOUS
  <2>2. asked \in SUBSET (1..MaxTime) /\ asked # {}
    BY <1>1, <2>1, Asked
  <2>3. ReadsFor(p, f, asked)
    BY <1>0, <1>1, <2>1 DEF Readings, Early
  <2>4. Min(asked) \in Nat /\ Max(asked) \in Nat
    BY <2>2, Span
  <2> QED
    BY <1>0, <2>1, <2>3, <2>4 DEF ReadsFor
<1>7. /\ f.samples \in Seq(Samples) /\ ToSet(f.samples) \subseteq {s[k] : k \in 1..Len(s)}
      /\ r.samples \in Seq(Samples) /\ ToSet(r.samples) \subseteq {s[k] : k \in 1..Len(s)}
  BY <1>2, <1>5, <1>6, RangedSamples
<1>8. t \in Nat
  <2>1. \A o \in Routes : Dated(i, answers[i][o])
    BY DEF Inv, Answering, Early
  <2>2. t = Oldest(i)
    BY <1>0, <1>1 DEF Readings, TargetOf
  <2> QED
    BY <1>0, <1>1, <2>1, <2>2, OldestOf
<1>9. SampleAt(r.samples, t) = NoSample /\ SampleAt(f.samples, t) = NoSample
  <2>1. SampleAt(r.samples \o f.samples, t) = NoSample
    BY <1>0 DEF Found
  <2> QED
    BY <1>2, <1>7, <1>8, <2>1, JointlyFound
<1>10. t \in Missing(p)
  BY <1>0, <1>9 DEF Missing
<1>11. lo <= t
  BY <1>3, <1>4, <1>10, Span
<1>12. \A k \in 2..Len(s) : s[k].start = s[k - 1].until
  BY <1>0 DEF Tiles
<1>13. t < s[1].start
  BY <1>0, <1>2, <1>5, <1>8, <1>9, <1>11, <1>12, OnlyBeforeFirst
<1> QED
  BY <1>0, <1>13

\* Alignment ends.
LEMMA ResolveKeeps == Inv /\ Resolve => Inv'
<1> SUFFICES ASSUME Inv, Resolve PROVE Inv'
  OBVIOUS
<1>1. /\ phase = "resolve" /\ phase' = "wallet" /\ ReadsOver
      /\ first' = first /\ read' = read /\ table' = table /\ ready' = ready /\ plan' = plan
      /\ target' = target /\ wallet' = wallet
  BY DEF Resolve
<1>2. /\ answers' = [i \in Instants |-> [p \in Routes |-> Resolved(i, p)]]
      /\ retries' = [i \in Instants |->
                       retries[i] \/ \E p \in Routes :
                          /\ target[i][p] # 0
                          /\ Found(p, target[i][p]) = NoSample
                          /\ read[p].err # "none"]
  BY DEF Resolve
<1>3. World
  BY DEF Inv
<1>4. Instants' = Instants
  BY <1>1, Unmoved
<1>5. ASSUME NEW i \in Instants
      PROVE  /\ retries'[i] <=> \/ retries[i]
                                \/ \E p \in Routes :
                                    /\ target[i][p] # 0
                                    /\ Found(p, target[i][p]) = NoSample
                                    /\ read[p].err # "none"
             /\ \A p \in Routes : answers'[i][p] = Resolved(i, p)
             /\ DOMAIN answers'[i] = Routes
  <2>1. retries[i] \in BOOLEAN
    BY <1>3 DEF World
  <2> QED
    BY <1>2, <2>1
<1>6. World'
  <2>1. retries' \in [Instants -> BOOLEAN] /\ DOMAIN answers' = Instants
    <3>1. \A i \in Instants : retries'[i] \in BOOLEAN
      BY <1>2, <1>3 DEF World
    <3> QED
      BY <1>2, <3>1
  <2> QED
    BY <1>1, <1>3, <1>4, <2>1 DEF World, Early
<1>7. ASSUME NEW p \in Routes PROVE Readings(p)'
  <2>1. (first[p].pc = "over" /\ ReadsFor(p, first[p], ToSet(plan.instants)))'
    BY <1>1 DEF Inv, Readings, Early, ReadsFor
  <2>2. read'[p].pc \in {"unused", "over"}
    BY <1>1 DEF ReadsOver
  <2> QED
    BY <1>1, <2>1, <2>2 DEF Readings, Early
<1>8. ASSUME NEW i \in Instants' PROVE (Answering(i) /\ DOMAIN answers[i] = Routes)'
  <2>0. i \in Instants
    BY <1>4
  <2>1. DOMAIN answers'[i] = Routes /\ wallet'[i] = 0
    BY <1>1, <1>5, <2>0 DEF Inv, Answering, Early
  <2>2. \A p \in Routes : Dated(i, answers[i][p])'
    <3>1. \A p \in Routes : Dated(i, answers'[i][p])
      BY <1>1, <1>5, <2>0, ResolvedDated
    <3> QED
      BY <1>1, <3>1 DEF Dated
  <2>3. ASSUME ~retries'[i] PROVE AsAlone(i)'
    <3>1. /\ ~retries[i]
          /\ \A p \in Routes : target[i][p] # 0 =>
               Found(p, target[i][p]) # NoSample \/ read[p].err = "none"
      BY <1>5, <2>0, <2>3
    <3>2. PICK n \in [Routes -> 0..MaxTime] :
             \A p \in Routes : /\ n[p] \in first[p].had..ready[p]
                               /\ Resolved(i, p) = Alone(n, i, p)
      BY <1>1, <2>0, <3>1, ResolvedAsAlone
    <3>3. \A p \in Routes : Alone(n, i, p)' = Alone(n, i, p)
      BY <1>1, Unmoved
    <3>4. \A p \in Routes : /\ n[p] \in first'[p].had..ready'[p]
                            /\ answers'[i][p] = Alone(n, i, p)'
      BY <1>1, <1>5, <2>0, <3>2, <3>3
    <3> QED
      BY <3>4 DEF AsAlone
  <2> QED
    BY <1>1, <2>1, <2>2, <2>3 DEF Answering
<1>9. OneState'
  <2>1. \A i \in Instants : wallet[i] = 0
    BY <1>1 DEF Inv, Answering
  <2> QED
    BY <1>1, <1>4, <2>1 DEF OneState
<1>10. RetryOnlyUnanswered'
  <2>1. ASSUME ~plan.pinned, \A p \in Routes : Tiles(p), NEW i \in Instants, retries'[i]
        PROVE  \E p \in Routes :
                  \/ FellShort(first[p], plan.instants[i])
                  \/ /\ target[i][p] # 0 /\ read[p].err # "none"
                     /\ \/ FellShort(read[p], target[i][p])
                        \/ target[i][p] < table[p][1].start
    <3>1. CASE retries[i]
      BY <1>1, <2>1, <3>1 DEF Inv, Answering
    <3>2. CASE ~retries[i]
      <4>1. PICK p \in Routes : /\ target[i][p] # 0
                                /\ Found(p, target[i][p]) = NoSample
                                /\ read[p].err # "none"
        BY <1>5, <2>1, <3>2
      <4>2. FellShort(read[p], target[i][p]) \/ target[i][p] < table[p][1].start
        BY <1>1, <2>1, <4>1, FailedTarget
      <4> QED
        BY <4>1, <4>2
    <3> QED
      BY <3>1, <3>2
  <2>2. \A p : Tiles(p)' <=> Tiles(p)
    BY <1>1, Unmoved
  <2> QED
    BY <1>1, <1>4, <2>1, <2>2 DEF RetryOnlyUnanswered
<1> QED
  BY <1>1, <1>6, <1>7, <1>8, <1>9, <1>10 DEF Inv

\* The steps after alignment change what is retried and the wallet alone.
LEMMA LaterKeeps ==
    ASSUME Inv, phase \in {"wallet", "price"}, phase' \in {"price", "done"},
           table' = table, ready' = ready, plan' = plan, read' = read, first' = first,
           target' = target, answers' = answers,
           retries' \in [Instants -> BOOLEAN], \A i \in Instants : retries[i] => retries'[i],
           DOMAIN wallet' = Instants,
           \A i \in Instants : wallet'[i] # 0 =>
              /\ wallet'[i] <= plan.instants[i]
              /\ \A p \in Routes : answers[i][p] = [at |-> wallet'[i], err |-> "none"]
    PROVE  Inv'
<1>1. World /\ Instants' = Instants
  BY Unmoved DEF Inv
<1>2. World'
  BY <1>1 DEF World, Early
<1>3. ASSUME NEW p \in Routes PROVE Readings(p)'
  <2>1. /\ first[p].pc = "over" /\ ReadsFor(p, first[p], ToSet(plan.instants))
        /\ read[p].pc \in {"unused", "over"}
    BY DEF Inv, Readings, Early
  <2>2. ReadsFor(p, first[p], ToSet(plan.instants))'
    BY <2>1 DEF ReadsFor
  <2> QED
    BY <2>1, <2>2 DEF Readings, Early
<1>4. ASSUME NEW i \in Instants' PROVE (Answering(i) /\ DOMAIN answers[i] = Routes)'
  <2>1. i \in Instants /\ Answering(i) /\ DOMAIN answers[i] = Routes
    BY <1>1 DEF Inv
  <2>2. \A p \in Routes : Dated(i, answers[i][p])'
    BY <2>1 DEF Answering, Dated, Early
  <2>3. ASSUME ~retries'[i] PROVE AsAlone(i)'
    <3>1. ~retries[i]
      BY <2>1, <2>3
    <3>2. PICK n \in [Routes -> 0..MaxTime] :
              /\ \A p \in Routes : n[p] \in first[p].had..ready[p]
              /\ \A p \in Routes : answers[i][p] = Alone(n, i, p)
      BY <2>1, <3>1 DEF Answering, AsAlone
    <3>3. \A p \in Routes : Alone(n, i, p)' = Alone(n, i, p)
      BY Unmoved
    <3>4. \A p \in Routes : /\ n[p] \in first'[p].had..ready'[p]
                            /\ answers'[i][p] = Alone(n, i, p)'
      BY <3>2, <3>3
    <3> QED
      BY <3>4 DEF AsAlone
  <2> QED
    BY <2>1, <2>2, <2>3 DEF Answering, Early
<1>5. OneState'
  BY <1>1 DEF OneState
<1>6. RetryOnlyUnanswered'
  BY DEF RetryOnlyUnanswered
<1> QED
  BY <1>2, <1>3, <1>4, <1>5, <1>6 DEF Inv

\* The wallet is read where every protocol answers.
LEMMA ReadWalletKeeps == Inv /\ ReadWallet => Inv'
<1> SUFFICES ASSUME Inv, ReadWallet PROVE Inv'
  OBVIOUS
<1>1. /\ phase = "wallet" /\ phase' = "price"
      /\ table' = table /\ ready' = ready /\ plan' = plan /\ read' = read /\ first' = first
      /\ target' = target /\ answers' = answers
  BY DEF ReadWallet
<1>2. PICK outcome \in {"ok", "notCovered", "failed"} :
        /\ wallet' = [i \in Instants |-> IF outcome = "ok" THEN WalletPin(i) ELSE 0]
        /\ retries' = [i \in Instants |->
                         retries[i] \/ (outcome = "failed" /\ WalletPin(i) # 0)]
  BY DEF ReadWallet
<1>3. World
  BY DEF Inv
<1>4. /\ retries' \in [Instants -> BOOLEAN] /\ \A i \in Instants : retries[i] => retries'[i]
      /\ DOMAIN wallet' = Instants
  <2>1. \A i \in Instants : retries[i] \in BOOLEAN
    BY <1>3 DEF World
  <2> QED
    BY <1>2, <2>1
<1>5. ASSUME NEW i \in Instants, wallet'[i] # 0
      PROVE  /\ wallet'[i] <= plan.instants[i]
             /\ \A p \in Routes : answers[i][p] = [at |-> wallet'[i], err |-> "none"]
  <2> DEFINE at == {answers[i][p].at : p \in Routes}
  <2>1. wallet'[i] = WalletPin(i)
    BY <1>2, <1>5
  <2>2. Cardinality(at) = 1 /\ wallet'[i] = Max(at)
    BY <1>5, <2>1 DEF WalletPin
  <2>3. \A p \in Routes : Dated(i, answers[i][p])
    BY <1>1 DEF Inv, Answering, Early
  <2>4. \A p \in Routes : answers[i][p].at \in 0..MaxTime
    BY <1>3, <2>3, DatedAt
  <2>5. MaxTime \in Nat /\ at \in SUBSET (0..MaxTime) /\ IsFiniteSet(0..MaxTime)
    BY <2>4, SampleAssumption, FS_Interval
  <2>6. \A p \in Routes : answers[i][p].at \in at
    OBVIOUS
  <2> HIDE DEF at
  <2>7. IsFiniteSet(at)
    BY <2>5, FS_Subset
  <2>8. PICK w : at = {w}
    BY <2>2, <2>7, FS_Singleton
  <2>9. Max(at) = w
    <3>1. Max(at) \in at
      BY <2>5, <2>8, GreatestOf
    <3> QED
      BY <2>8, <3>1
  <2>10. \A p \in Routes : answers[i][p].at = w /\ w # 0 /\ wallet'[i] = w
    BY <1>5, <2>2, <2>6, <2>8, <2>9
  <2>11. \A p \in Routes : /\ answers[i][p].at <= plan.instants[i]
                           /\ answers[i][p].at # 0 =>
                                answers[i][p] = [at |-> answers[i][p].at, err |-> "none"]
    BY <1>3, <2>3, DatedAt
  <2>12. \E p : p \in Routes
    BY SampleAssumption
  <2> QED
    BY <2>10, <2>11, <2>12
<1> QED
  BY <1>1, <1>4, <1>5, LaterKeeps

\* The samples are priced.
LEMMA PriceKeeps == Inv /\ Price => Inv'
<1> SUFFICES ASSUME Inv, Price PROVE Inv'
  OBVIOUS
<1>1. /\ phase = "price" /\ phase' = "done"
      /\ table' = table /\ ready' = ready /\ plan' = plan /\ read' = read /\ first' = first
      /\ target' = target /\ answers' = answers /\ wallet' = wallet
  BY DEF Price
<1>2. PICK without \in SUBSET Wanted, walletWithout \in SUBSET Wanted :
        retries' = [i \in Instants |->
                      \/ retries[i]
                      \/ \E p \in Routes : answers[i][p].at \in without \ {0}
                      \/ wallet[i] \in walletWithout \ {0}]
  BY DEF Price
<1>3. World /\ OneState
  BY DEF Inv
<1>4. /\ retries' \in [Instants -> BOOLEAN] /\ \A i \in Instants : retries[i] => retries'[i]
      /\ DOMAIN wallet' = Instants
  <2>1. \A i \in Instants : retries[i] \in BOOLEAN
    BY <1>3 DEF World
  <2>2. DOMAIN wallet' = Instants
    BY <1>1, <1>3 DEF World
  <2> QED
    BY <1>2, <2>1, <2>2
<1>5. \A i \in Instants : wallet'[i] # 0 =>
          /\ wallet'[i] <= plan.instants[i]
          /\ \A p \in Routes : answers[i][p] = [at |-> wallet'[i], err |-> "none"]
  BY <1>1, <1>3 DEF OneState
<1> QED
  BY <1>1, <1>4, <1>5, LaterKeeps

-----------------------------------------------------------------------------
(* The theorems.                                                           *)

\* The invariant holds at first.
LEMMA InitHolds == Init => Inv
<1> SUFFICES ASSUME Init PROVE Inv
  OBVIOUS
<1>1. /\ table \in Tables /\ plan \in Plans /\ ready \in [Routes -> 0..MaxTime] /\ phase = "start"
      /\ read = [p \in Routes |-> NoRead]
      /\ target = [i \in Instants |-> [p \in Routes |-> 0]]
      /\ answers = [i \in Instants |-> [p \in Routes |-> Failure("none")]]
      /\ retries = [i \in Instants |-> FALSE] /\ wallet = [i \in Instants |-> 0]
  BY DEF Init
<1>2. \A p \in Routes : ready[p] \in Nat /\ ready[p] <= Len(table[p])
  <2>1. ASSUME NEW p \in Routes PROVE ready[p] \in Nat /\ ready[p] <= Len(table[p])
    <3>1. table[p] \in Seq(Samples) /\ Growth \in Nat /\ MaxTime \in Nat
      BY <1>1, SampleAssumption
    <3>2. Len(table[p]) \in Nat /\ ready[p] \in (Len(table[p]) - Growth)..Len(table[p])
      BY <3>1 DEF Init
    <3>3. ready[p] \in 0..MaxTime
      BY <1>1
    <3> QED
      BY <3>1, <3>2, <3>3
  <2> QED
    BY <2>1
<1>3. World
  BY <1>1, <1>2 DEF World, Early
<1>4. \A p \in Routes : Readings(p)
  BY <1>1 DEF Readings, Early, NoRead
<1>5. \A i \in Instants : Answering(i) /\ DOMAIN answers[i] = Routes
  BY <1>1 DEF Answering, Early
<1>6. OneState /\ RetryOnlyUnanswered
  BY <1>1 DEF OneState, RetryOnlyUnanswered
<1> QED
  BY <1>1, <1>3, <1>4, <1>5, <1>6 DEF Inv

\* Every step keeps the invariant.
LEMMA StepKeeps == Inv /\ [Next]_vars => Inv'
<1> SUFFICES ASSUME Inv, [Next]_vars PROVE Inv'
  OBVIOUS
<1>1. World /\ \A p \in Routes : ready[p] \in Nat /\ ready[p] <= Len(table[p])
  BY IndexOf DEF Inv
<1>2. /\ ready \in [Routes -> Nat] /\ DOMAIN read = Routes
      /\ \A p \in Routes : DOMAIN read[p] = DOMAIN NoRead
  BY <1>1 DEF World
<1>3. CASE UNCHANGED vars \/ StopReads \/ Finished
  <2>1. /\ table' = table /\ plan' = plan /\ scanVars' = scanVars
        /\ ready' = ready /\ read' = read
    BY <1>3 DEF vars, StopReads, Finished
  <2> QED
    BY <1>1, <1>2, <2>1, Around
<1>4. ASSUME NEW p \in Routes, Complete(p) PROVE Inv'
  <2>1. /\ ready[p] < Len(table[p]) /\ ready' = [ready EXCEPT ![p] = @ + 1]
        /\ table' = table /\ plan' = plan /\ scanVars' = scanVars /\ read' = read
    BY <1>4 DEF Complete
  <2>2. ready' \in [Routes -> Nat]
    BY <1>2, <2>1
  <2>3. \A q \in Routes : ready[q] <= ready'[q] /\ ready'[q] <= Len(table[q])
    <3>1. ready'[p] = ready[p] + 1 /\ \A q \in Routes \ {p} : ready'[q] = ready[q]
      BY <1>2, <2>1
    <3>2. Len(table[p]) \in Nat /\ ready[p] \in Nat
      BY <1>1, IndexOf
    <3>3. ready[p] + 1 <= Len(table[p]) /\ ready[p] <= ready[p] + 1
      BY <2>1, <3>2
    <3>4. \A q \in Routes \ {p} : ready[q] <= ready'[q] /\ ready'[q] <= Len(table[q])
      BY <1>1, <3>1
    <3> QED
      BY <3>1, <3>3, <3>4
  <2> QED
    BY <1>2, <2>1, <2>2, <2>3, Around
<1>5. ASSUME NEW p \in Routes, ReadStep(p) PROVE Inv'
  <2>1. /\ table' = table /\ plan' = plan /\ scanVars' = scanVars /\ ready' = ready
        /\ read[p].pc \in {"range", "checkpoint"} /\ read'[p].had = read[p].had
        /\ DOMAIN read' = Routes /\ DOMAIN read'[p] = DOMAIN NoRead
        /\ \A q \in Routes \ {p} : read'[q] = read[q]
    BY <1>1, <1>5, ReadStepFrame
  <2>2. \A q \in Routes : DOMAIN read'[q] = DOMAIN NoRead
    BY <1>2, <2>1
  <2>3. \A asked \in SUBSET (1..MaxTime) :
            asked # {} /\ ReadsFor(p, read[p], asked) => ReadsFor(p, read'[p], asked)
    BY <1>1, <1>5, ReadGoesOn
  <2>4. \A q \in Routes : ready[q] <= ready'[q] /\ ready'[q] <= Len(table[q])
    BY <1>1, <2>1
  <2>5. \A q \in Routes :
            \/ read'[q] = read[q]
            \/ /\ read[q].pc \in {"range", "checkpoint"}
               /\ read'[q].had = read[q].had
               /\ \A asked \in SUBSET (1..MaxTime) :
                    asked # {} /\ ReadsFor(q, read[q], asked) => ReadsFor(q, read'[q], asked)
    BY <2>1, <2>3
  <2> QED
    BY <1>2, <2>1, <2>2, <2>4, <2>5, Around
<1>6. CASE Scan
  BY <1>6, BeginReadsKeeps, AnswerInstantsKeeps, AlignKeeps, ResolveKeeps, ReadWalletKeeps,
     PriceKeeps DEF Scan
<1> QED
  BY <1>3, <1>4, <1>5, <1>6 DEF Next

\* The invariant holds in every state of a scan.
THEOREM Invariant == Spec => []Inv
<1> QED
  BY InitHolds, StepKeeps, PTL DEF Spec

\* A range read returns no sample twice and skips none, however its statements shrink,
\* grow and fail, for any index, range and statement sizes (ReadRange).
THEOREM RangesWhole == Spec => []RangeWhole
<1>1. Inv => RangeWhole
  <2> SUFFICES ASSUME Inv, phase = "read", ~plan.pinned, NEW p \in Routes
               PROVE  /\ IsPrefix(read[p].samples, InSpan(p, ready[p]))
                      /\ read[p].pc = "over" /\ read[p].err = "none" =>
                           IsPrefix(InSpan(p, read[p].had), read[p].samples)
    BY DEF RangeWhole
  <2>1. World
    BY DEF Inv
  <2>2. PICK s, n, r, asked, lo, hi :
            /\ s = table[p] /\ n = ready[p] /\ r = read[p] /\ asked = ToSet(plan.instants)
            /\ lo = Min(asked) /\ hi = Max(asked)
    OBVIOUS
  <2>3. Tidy(s) /\ n \in Nat /\ n <= Len(s)
    BY <2>1, <2>2, IndexOf
  <2>4. asked \in SUBSET (1..MaxTime) /\ asked # {}
    BY <2>1, <2>2, Asked
  <2>5. lo \in Nat /\ hi \in Nat
    BY <2>2, <2>4, Span
  <2>6. Ranged(s, n, r, lo, hi)
    BY <2>2 DEF Inv, Readings, ReadsFor
  <2>7. /\ IsPrefix(r.samples, Meeting(s, n, lo, hi))
        /\ r.pc = "over" /\ r.err = "none" => IsPrefix(Meeting(s, r.had, lo, hi), r.samples)
    BY <2>3, <2>5, <2>6, ReadWhole
  <2>8. \A m : InSpan(p, m) = Meeting(s, m, lo, hi)
    BY <2>2 DEF InSpan
  <2> QED
    BY <2>2, <2>7, <2>8
<1> QED
  BY <1>1, Invariant, PTL

\* An instant that need not be asked again is answered as a scan of it alone would
\* answer it, whatever was read with it (ScanRange, alignSamples).
THEOREM InstantsAsAlone == Spec => []AnsweredAsAlone
<1>1. Inv => AnsweredAsAlone
  BY DEF Inv, Answering, AnsweredAsAlone, AsAlone
<1> QED
  BY <1>1, Invariant, PTL

\* The wallet is shown only beside every protocol, all at one checkpoint no later than
\* the instant (suiWalletPin).
THEOREM WalletAtOneState == Spec => []OneState
<1>1. Inv => OneState
  BY DEF Inv
<1> QED
  BY <1>1, Invariant, PTL

\* An index that answered is no reason to ask an instant again (SuiRangeScan.Retry).
THEOREM RetriesExplained == Spec => []RetryOnlyUnanswered
<1>1. Inv => RetryOnlyUnanswered
  BY DEF Inv
<1> QED
  BY <1>1, Invariant, PTL

-----------------------------------------------------------------------------
(* Types.                                                                  *)

Answers == [at : 0..MaxTime, err : {"none", "failed", "uncertified", "nosample"}]

\* What the steps assign: the rest of TypeOK is in the invariant.
Assigned ==
    /\ inTime \in BOOLEAN
    /\ read \in [Routes -> Reads] /\ first \in [Routes -> Reads]
    /\ target \in [Instants -> [Routes -> 0..MaxTime]]
    /\ answers \in [Instants -> [Routes -> Answers]]
    /\ wallet \in [Instants -> 0..MaxTime]

\* A read of these times has samples of its index and starts within the bounds.
LEMMA ReadsWithin ==
    ASSUME World, NEW p \in Routes, NEW asked \in SUBSET (1..MaxTime), asked # {},
           NEW r, ReadsFor(p, r, asked)
    PROVE  r.samples \in Seq(Samples) /\ r.from \in 0..(MaxTime + 1) /\ r.had \in Nat
<1>0. PICK s, n, lo, hi : /\ s = table[p] /\ n = ready[p]
                          /\ lo = Min(asked) /\ hi = Max(asked)
  OBVIOUS
<1>1. Tidy(s) /\ n \in Nat /\ n <= Len(s) /\ Len(s) \in Nat
  BY <1>0, IndexOf
<1>2. lo \in 1..MaxTime /\ MaxTime \in Nat
  BY <1>0, Span, SampleAssumption
<1>3. \A t \in 1..MaxTime : t \in 0..(MaxTime + 1)
  BY <1>2
<1>4. << >> \in Seq(Samples)
  OBVIOUS
<1>5. \A k \in 1..n : k \in 1..Len(s)
  BY <1>1
<1>6. CASE plan.pinned
  <2>1. Pointed(s, n, r, lo)
    BY <1>0, <1>6 DEF ReadsFor
  <2>2. r.from = lo /\ r.had \in 0..n
    BY <2>1 DEF Pointed
  <2>3. ASSUME NEW k \in 1..n
        PROVE  <<[s[k] EXCEPT !.until = s[k].start + 1]>> \in Seq(Samples)
    <3>1. /\ s[k] \in Samples /\ s[k].start \in 1..MaxTime /\ s[k].until \in 1..MaxTime
          /\ s[k].start < s[k].until
      BY <1>1, <1>5, SampleOf
    <3>2. s[k].start + 1 \in 1..MaxTime
      BY <1>2, <3>1
    <3>3. [s[k] EXCEPT !.until = s[k].start + 1] \in Samples
      BY <3>1, <3>2 DEF Samples
    <3> QED
      BY <3>3
  <2>4. r.samples \in Seq(Samples)
    BY <1>4, <2>1, <2>3 DEF Pointed
  <2> QED
    BY <1>1, <1>2, <1>3, <2>2, <2>4
<1>7. CASE ~plan.pinned
  <2>1. Ranged(s, n, r, lo, hi)
    BY <1>0, <1>7 DEF ReadsFor
  <2>2. r.had \in 0..n
    BY <2>1 DEF Ranged
  <2>3. ASSUME NEW a \in 1..n, NEW b \in 1..n
        PROVE  SubSeq(s, a, b) \in Seq(Samples) /\ s[b].until \in 1..MaxTime
    <3>1. a \in Nat \ {0} /\ b \in Nat /\ b <= Len(s)
      BY <1>1
    <3> QED
      BY <1>1, <1>5, <3>1, Runs, SampleOf
  <2>4. r.samples \in Seq(Samples) /\ r.from \in 1..MaxTime
    BY <1>2, <1>4, <2>1, <2>3 DEF Ranged
  <2> QED
    BY <1>1, <1>3, <2>2, <2>4
<1> QED
  BY <1>6, <1>7

\* A read that begins, or does not, is a read.
LEMMA ReadBegun ==
    ASSUME World, NEW p \in Routes
    PROVE  /\ NoRead \in Reads
           /\ \A asked \in SUBSET (1..MaxTime) :
                 asked # {} => BeginRead(p, Min(asked), Max(asked)) \in Reads
<1>1. /\ MaxTime \in Nat /\ MaxSamples \in Nat /\ ProbeSamples \in 1..MaxSamples
      /\ ready[p] \in Nat
  BY SampleAssumption DEF World
<1>2. MaxSamples \in 1..MaxSamples /\ 0 \in 0..(MaxTime + 1) /\ 0 \in 0..MaxTime
  BY <1>1
<1>3. << >> \in Seq(Samples)
  OBVIOUS
<1>4. NoRead \in Reads
  BY <1>1, <1>2, <1>3 DEF NoRead, Reads
<1>5. ASSUME NEW asked \in SUBSET (1..MaxTime), asked # {}
      PROVE  BeginRead(p, Min(asked), Max(asked)) \in Reads
  <2>1. PICK lo, hi : lo = Min(asked) /\ hi = Max(asked)
    OBVIOUS
  <2>2. lo \in 1..MaxTime /\ hi \in 1..MaxTime
    BY <1>5, <2>1, Span
  <2>3. lo \in 0..(MaxTime + 1) /\ hi \in 0..MaxTime
    BY <1>1, <2>2
  <2>4. PICK begun \in {"checkpoint", "range"} :
            begun = IF plan.pinned THEN "checkpoint" ELSE "range"
    OBVIOUS
  <2>5. BeginRead(p, lo, hi) = [NoRead EXCEPT !.pc = begun, !.from = lo, !.to = hi,
                                              !.had = ready[p]]
    BY <2>4 DEF BeginRead
  <2>6. BeginRead(p, lo, hi) \in Reads
    BY <1>1, <1>4, <2>3, <2>4, <2>5 DEF Reads
  <2> QED
    BY <2>1, <2>6
<1> QED
  BY <1>4, <1>5

\* A dated answer is an answer.
LEMMA DatedTyped ==
    ASSUME World, NEW i \in Instants, NEW x, Dated(i, x)
    PROVE  x \in Answers
<1>1. plan.instants[i] \in 1..MaxTime /\ MaxTime \in Nat
  BY Asked, SampleAssumption
<1>2. \A t \in 1..plan.instants[i] : t \in 0..MaxTime
  BY <1>1
<1>3. 0 \in 0..MaxTime
  BY <1>1
<1> QED
  BY <1>2, <1>3 DEF Dated, Failure, Answers

\* A statement asks for at least one sample and at most the largest number.
LEMMA ReadStepTyped ==
    ASSUME Inv, Assigned, NEW p \in Routes, ReadStep(p)
    PROVE  read' \in [Routes -> Reads]
<1>1. World /\ MaxSamples \in Nat /\ MaxTime \in Nat
  BY SampleAssumption DEF Inv
<1>2. PICK r, q : r = read[p] /\ q = read'[p]
  OBVIOUS
<1>3. r \in Reads /\ DOMAIN read = Routes /\ \A o \in Routes : read[o] \in Reads
  BY <1>2 DEF Assigned
<1>4. r.pc \in {"range", "checkpoint"}
  BY <1>1, <1>2, ReadStepFrame
<1>5. \E asked \in SUBSET (1..MaxTime) : asked # {} /\ ReadsFor(p, read[p], asked)
  <2>1. Readings(p) /\ phase \in {"read", "resolve"}
    BY <1>2, <1>4 DEF Inv, Readings
  <2>2. CASE phase = "read"
    <3>1. PICK asked : asked = ToSet(plan.instants)
      OBVIOUS
    <3>2. asked \in SUBSET (1..MaxTime) /\ asked # {}
      BY <1>1, <3>1, Asked
    <3> QED
      BY <2>1, <2>2, <3>1, <3>2 DEF Readings
  <2>3. CASE phase = "resolve"
    <3>1. NoRead.pc = "unused"
      BY DEF NoRead
    <3>2. Missing(p) # {} /\ ReadsFor(p, read[p], Missing(p))
      BY <1>2, <1>4, <2>1, <2>3, <3>1 DEF Readings
    <3>3. \A i \in Instants : target[i][p] \in 0..MaxTime
      BY DEF Assigned
    <3>4. \A t \in 0..MaxTime : t # 0 => t \in 1..MaxTime
      BY <1>1
    <3>5. Missing(p) \in SUBSET (1..MaxTime)
      BY <3>3, <3>4 DEF Missing
    <3> QED
      BY <3>2, <3>5
  <2> QED
    BY <2>1, <2>2, <2>3
<1>6. PICK asked \in SUBSET (1..MaxTime) : asked # {} /\ ReadsFor(p, read'[p], asked)
  BY <1>1, <1>5, ReadGoesOn
<1>7. q.samples \in Seq(Samples) /\ q.from \in 0..(MaxTime + 1) /\ q.had \in Nat
  BY <1>1, <1>2, <1>6, ReadsWithin
<1>8. /\ r.pc \in {"unused", "range", "checkpoint", "over"} /\ r.from \in 0..(MaxTime + 1)
      /\ r.to \in 0..MaxTime /\ r.limit \in 1..MaxSamples /\ r.ceiling \in 1..MaxSamples
      /\ r.samples \in Seq(Samples) /\ r.had \in Nat
      /\ r.err \in {"none", "failed", "uncertified", "nosample"}
      /\ DOMAIN r = {"pc", "from", "to", "limit", "ceiling", "samples", "err", "had"}
  BY <1>3 DEF Reads
<1>9. ASSUME NEW err \in {"none", "failed", "uncertified", "nosample"}, Over(p, err)
      PROVE  read' \in [Routes -> Reads]
  <2>1. [r EXCEPT !.pc = "over", !.err = err] \in Reads
    BY <1>3 DEF Reads
  <2>2. read' = [read EXCEPT ![p] = [r EXCEPT !.pc = "over", !.err = err]]
    BY <1>2, <1>3, <1>9 DEF Over
  <2> QED
    BY <1>3, <2>1, <2>2
<1>10. CASE StatementAnswers(p)
  <2>1. PICK sized \in 1..MaxSamples :
            read' = [read EXCEPT
                       ![p].samples = @ \o Selected(p),
                       ![p].from = NextFrom(Selected(p)),
                       ![p].limit = Min({sized, read[p].ceiling})]
    BY <1>10 DEF StatementAnswers
  <2>2. PICK more, next, most :
            /\ more = r.samples \o Selected(p) /\ next = NextFrom(Selected(p))
            /\ most = Min({sized, r.ceiling})
    OBVIOUS
  <2>3. read' = [read EXCEPT ![p] = [r EXCEPT !.samples = more, !.from = next, !.limit = most]]
    BY <1>2, <1>3, <2>1, <2>2
  <2>4. q = [r EXCEPT !.samples = more, !.from = next, !.limit = most]
    BY <1>2, <1>3, <2>3
  <2>5. more \in Seq(Samples) /\ next \in 0..(MaxTime + 1)
    BY <1>7, <1>8, <2>4
  <2>6. most \in 1..MaxSamples
    <3>1. sized \in Nat /\ r.ceiling \in Nat
      BY <1>8
    <3>2. most \in {sized, r.ceiling}
      BY <2>2, <3>1, LesserOf
    <3> QED
      BY <1>8, <3>2
  <2>7. q \in Reads
    BY <1>3, <2>4, <2>5, <2>6 DEF Reads
  <2> QED
    BY <1>3, <2>3, <2>4, <2>7
<1>11. CASE StatementTooCostly(p)
  <2>1. r.limit > 1
    BY <1>2, <1>11 DEF StatementTooCostly
  <2>2. PICK half : half = r.limit \div 2
    OBVIOUS
  <2>3. half \in 1..MaxSamples
    <3>1. \A x \in Nat, m \in Nat : x > 1 /\ x <= m => x \div 2 >= 1 /\ x \div 2 <= m /\ x \div 2 \in Nat
      OBVIOUS
    <3>2. r.limit \in Nat /\ r.limit <= MaxSamples
      BY <1>1, <1>8
    <3> QED
      BY <1>1, <2>1, <2>2, <3>1, <3>2
  <2>4. read' = [read EXCEPT ![p] = [r EXCEPT !.limit = half, !.ceiling = half]]
    BY <1>2, <1>3, <1>11, <2>2 DEF StatementTooCostly
  <2>5. [r EXCEPT !.limit = half, !.ceiling = half] \in Reads
    BY <1>3, <2>3 DEF Reads
  <2> QED
    BY <1>3, <2>4, <2>5
<1>12. CASE RangeEnds(p) \/ StatementFails(p) \/ CheckpointFails(p)
  BY <1>9, <1>12 DEF RangeEnds, StatementFails, CheckpointFails
<1>13. CASE CheckpointAnswers(p)
  <2>1. PICK s : \/ Over(p, "nosample") \/ Over(p, "uncertified")
                 \/ read' = [read EXCEPT ![p].pc = "over",
                                         ![p].samples = <<[s EXCEPT !.until = s.start + 1]>>]
    BY <1>13 DEF CheckpointAnswers
  <2>2. PICK one : one = <<[s EXCEPT !.until = s.start + 1]>>
    OBVIOUS
  <2>3. ASSUME read' = [read EXCEPT ![p].pc = "over", ![p].samples = one]
        PROVE  read' \in [Routes -> Reads]
    <3>1. read' = [read EXCEPT ![p] = [r EXCEPT !.pc = "over", !.samples = one]]
      BY <1>2, <1>3, <2>3
    <3>2. q = [r EXCEPT !.pc = "over", !.samples = one]
      BY <1>2, <1>3, <3>1
    <3>3. one \in Seq(Samples)
      BY <1>7, <1>8, <3>2
    <3>4. q \in Reads
      BY <1>3, <3>2, <3>3 DEF Reads
    <3> QED
      BY <1>3, <3>1, <3>2, <3>4
  <2> QED
    BY <1>9, <2>1, <2>2, <2>3
<1> QED
  BY <1>10, <1>11, <1>12, <1>13 DEF ReadStep

\* The scan's own steps read, answer and align within the bounds.
LEMMA ScanTyped ==
    ASSUME Inv, Inv', Assigned, Scan
    PROVE  Assigned'
<1>1. World /\ World' /\ MaxTime \in Nat
  BY SampleAssumption DEF Inv
<1>2. table' = table /\ plan' = plan /\ inTime' = inTime /\ ready' = ready
  BY DEF Scan, BeginReads, AnswerInstants, Align, Resolve, ReadWallet, Price
<1>3. Instants' = Instants
  BY <1>2, Unmoved
<1>4. \A i \in Instants : \A x : Dated(i, x)' => x \in Answers
  BY <1>1, <1>2, Unmoved, DatedTyped
<1>5. phase' \notin Early => \A i \in Instants, p \in Routes : answers'[i][p] \in Answers
  <2> SUFFICES ASSUME phase' \notin Early, NEW i \in Instants, NEW p \in Routes
               PROVE  answers'[i][p] \in Answers
    OBVIOUS
  <2>1. Answering(i)'
    BY <1>3 DEF Inv
  <2>2. Dated(i, answers[i][p])'
    BY <2>1 DEF Answering
  <2>3. PICK x : x = answers'[i][p]
    OBVIOUS
  <2>4. Dated(i, x)'
    BY <2>2, <2>3 DEF Dated
  <2> QED
    BY <1>4, <2>3, <2>4
<1>6. CASE BeginReads
  <2>1. /\ read' = [p \in Routes |-> BeginRead(p, Min(ToSet(plan.instants)),
                                                  Max(ToSet(plan.instants)))]
        /\ first' = first /\ target' = target /\ answers' = answers /\ wallet' = wallet
    BY <1>6 DEF BeginReads
  <2>2. PICK asked : asked = ToSet(plan.instants)
    OBVIOUS
  <2>3. asked \in SUBSET (1..MaxTime) /\ asked # {}
    BY <1>1, <2>2, Asked
  <2>4. \A p \in Routes : BeginRead(p, Min(asked), Max(asked)) \in Reads
    BY <1>1, <2>3, ReadBegun
  <2>5. read' \in [Routes -> Reads]
    BY <2>1, <2>2, <2>4
  <2> QED
    BY <1>2, <1>3, <2>1, <2>5 DEF Assigned
<1>7. CASE AnswerInstants
  <2>1. /\ phase' \notin Early
        /\ first' = read /\ read' = read /\ target' = target /\ wallet' = wallet
        /\ answers' = [i \in Instants |-> [p \in Routes |->
                         IF plan.pinned THEN CheckpointAnswer(read[p])
                         ELSE RangeAnswer(read[p], plan.instants[i])]]
    BY <1>7 DEF AnswerInstants, Early
  <2>2. answers' \in [Instants -> [Routes -> Answers]]
    BY <1>5, <2>1
  <2> QED
    BY <1>2, <1>3, <2>1, <2>2 DEF Assigned
<1>8. CASE Align
  <2>1. /\ phase = "align"
        /\ first' = first /\ answers' = answers /\ wallet' = wallet
        /\ target' = [i \in Instants |-> [p \in Routes |-> TargetOf(i, p)]]
        /\ read' = [p \in Routes |->
                      LET wanted == {TargetOf(i, p) : i \in Instants} \ {0}
                          missing == IF plan.pinned THEN wanted
                                     ELSE {t \in wanted :
                                             SampleAt(first[p].samples, t) = NoSample}
                      IN  IF missing = {} THEN NoRead
                          ELSE BeginRead(p, Min(missing), Max(missing))]
    BY <1>8 DEF Align
  <2>2. ASSUME NEW i \in Instants, NEW p \in Routes
        PROVE  TargetOf(i, p) \in 0..MaxTime /\ (TargetOf(i, p) # 0 => TargetOf(i, p) \in 1..MaxTime)
    <3>1. \A o \in Routes : Dated(i, answers[i][o])
      BY <2>1 DEF Inv, Answering, Early
    <3>2. Oldest(i) # 0 => Oldest(i) \in 1..MaxTime
      BY <1>1, <3>1, OldestOf
    <3>3. TargetOf(i, p) \in {0, Oldest(i)}
      BY DEF TargetOf
    <3>4. 0 \in 0..MaxTime /\ \A t \in 1..MaxTime : t \in 0..MaxTime
      BY <1>1
    <3> QED
      BY <3>2, <3>3, <3>4
  <2>3. target' \in [Instants -> [Routes -> 0..MaxTime]]
    BY <2>1, <2>2
  <2>4. ASSUME NEW p \in Routes PROVE read'[p] \in Reads
    <3>1. PICK wanted : wanted = {TargetOf(i, p) : i \in Instants} \ {0}
      OBVIOUS
    <3>2. PICK missing : missing = IF plan.pinned THEN wanted
                                   ELSE {t \in wanted :
                                           SampleAt(first[p].samples, t) = NoSample}
      OBVIOUS
    <3>3. missing \in SUBSET (1..MaxTime)
      BY <2>2, <3>1, <3>2
    <3>4. read'[p] = IF missing = {} THEN NoRead ELSE BeginRead(p, Min(missing), Max(missing))
      BY <2>1, <3>1, <3>2
    <3> QED
      BY <1>1, <3>3, <3>4, ReadBegun
  <2>5. read' \in [Routes -> Reads]
    BY <2>1, <2>4
  <2> QED
    BY <1>2, <1>3, <2>1, <2>3, <2>5 DEF Assigned
<1>9. CASE Resolve
  <2>1. /\ phase' \notin Early
        /\ read' = read /\ first' = first /\ target' = target /\ wallet' = wallet
        /\ answers' = [i \in Instants |-> [p \in Routes |-> Resolved(i, p)]]
    BY <1>9 DEF Resolve, Early
  <2>2. answers' \in [Instants -> [Routes -> Answers]]
    BY <1>5, <2>1
  <2> QED
    BY <1>2, <1>3, <2>1, <2>2 DEF Assigned
<1>10. CASE ReadWallet
  <2>1. /\ read' = read /\ first' = first /\ target' = target /\ answers' = answers
    BY <1>10 DEF ReadWallet
  <2>2. PICK f : wallet' = [i \in Instants |-> f[i]]
    <3>1. PICK outcome : wallet' = [i \in Instants |->
                                       IF outcome = "ok" THEN WalletPin(i) ELSE 0]
      BY <1>10 DEF ReadWallet
    <3>2. wallet' = [i \in Instants |-> wallet'[i]]
      BY <3>1
    <3> QED
      BY <3>2
  <2>3. ASSUME NEW i \in Instants PROVE wallet'[i] \in 0..MaxTime
    <3>1. OneState' /\ i \in Instants'
      BY <1>3 DEF Inv
    <3>2. wallet'[i] # 0 =>
              \A p \in Routes : answers'[i][p] = [at |-> wallet'[i], err |-> "none"]
      BY <3>1 DEF OneState
    <3>3. \A p \in Routes : answers'[i][p].at \in 0..MaxTime
      BY <2>1 DEF Assigned, Answers
    <3>4. Routes # {} /\ 0 \in 0..MaxTime
      BY <1>1, SampleAssumption
    <3>5. wallet'[i] # 0 => \A p \in Routes : answers'[i][p].at = wallet'[i]
      BY <3>2
    <3> QED
      BY <3>3, <3>4, <3>5
  <2>4. wallet' \in [Instants -> 0..MaxTime]
    BY <2>2, <2>3
  <2> QED
    BY <1>2, <1>3, <2>1, <2>4 DEF Assigned
<1>11. CASE Price
  BY <1>2, <1>3, <1>11 DEF Price, Assigned
<1> QED
  BY <1>6, <1>7, <1>8, <1>9, <1>10, <1>11 DEF Scan

\* The types, with the size of a statement: one sample at least and the largest
\* number at most, however often a costly statement is halved and sized again
\* (ReadRange).
THEOREM TypeCorrect == Spec => []TypeOK
<1>1. Init => Assigned
  <2> SUFFICES ASSUME Init PROVE Assigned
    OBVIOUS
  <2>1. World /\ MaxTime \in Nat
    BY InitHolds, SampleAssumption DEF Inv
  <2>2. /\ inTime = TRUE /\ read = [p \in Routes |-> NoRead] /\ first = read
        /\ target = [i \in Instants |-> [p \in Routes |-> 0]]
        /\ answers = [i \in Instants |-> [p \in Routes |-> Failure("none")]]
        /\ wallet = [i \in Instants |-> 0]
    BY DEF Init
  <2>3. 0 \in 0..MaxTime /\ Failure("none") \in Answers
    BY <2>1 DEF Failure, Answers
  <2>4. \A p \in Routes : NoRead \in Reads
    BY <2>1, ReadBegun
  <2> QED
    BY <2>2, <2>3, <2>4 DEF Assigned
<1>2. Inv /\ Inv' /\ Assigned /\ [Next]_vars => Assigned'
  <2> SUFFICES ASSUME Inv, Inv', Assigned, [Next]_vars PROVE Assigned'
    OBVIOUS
  <2>1. CASE UNCHANGED vars \/ Finished
    BY <2>1 DEF vars, scanVars, Finished, Assigned, Instants
  <2>2. CASE StopReads
    BY <2>2 DEF StopReads, scanVars, Assigned, Instants
  <2>3. ASSUME NEW p \in Routes, Complete(p) PROVE Assigned'
    BY <2>3 DEF Complete, scanVars, Assigned, Instants
  <2>4. ASSUME NEW p \in Routes, ReadStep(p) PROVE Assigned'
    <3>1. read' \in [Routes -> Reads]
      BY <2>4, ReadStepTyped
    <3>2. UNCHANGED <<table, ready, plan, inTime, scanVars>>
      BY <2>4, ReadStepFrame DEF Inv
    <3> QED
      BY <3>1, <3>2 DEF scanVars, Assigned, Instants
  <2>5. CASE Scan
    BY <2>5, ScanTyped
  <2> QED
    BY <2>1, <2>2, <2>3, <2>4, <2>5 DEF Next
<1>3. Inv /\ Assigned => TypeOK
  <2> SUFFICES ASSUME Inv, Assigned PROVE TypeOK
    OBVIOUS
  <2>1. World
    BY DEF Inv
  <2>2. \A p \in Routes : ready[p] \in 0..Len(table[p])
    <3>1. ASSUME NEW p \in Routes PROVE ready[p] \in 0..Len(table[p])
      BY <2>1, IndexOf
    <3> QED
      BY <3>1
  <2>3. phase \in {"start", "read", "align", "resolve", "wallet", "price", "done"}
        /\ retries \in [Instants -> BOOLEAN]
    BY <2>1 DEF World, Early
  <2> QED
    BY <2>2, <2>3 DEF TypeOK, Assigned, Answers
<1> QED
  BY <1>1, <1>2, <1>3, Invariant, PTL DEF Spec
=============================================================================
