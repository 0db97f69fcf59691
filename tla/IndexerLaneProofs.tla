-------------------------- MODULE IndexerLaneProofs --------------------------
(***************************************************************************)
(* IndexerLane proved for any finite set of requests and any capacity: the *)
(* slots and the waiters are counted exactly, and a statement given up on  *)
(* is cancelled before its slot is handed on.                              *)
(***************************************************************************)
EXTENDS IndexerLane, FiniteSetTheorems, SequenceTheorems, TLAPS

-----------------------------------------------------------------------------
(* The inductive invariant.                                                *)

Waiters == {u \in Users : pc[u] \in {"counted", "queued"}}

\* A request under way has an attempt left.
AttemptsLeft == \A u \in Users : pc[u] # "idle" => attempt[u] < Attempts

\* Until its submission is accepted a request knows of no execution, and a
\* request that runs no statement never does.
KnownOnceSubmitted ==
    \A u \in Users :
        pc[u] \notin {"idle", "pause", "poll", "cancel"} => ~run[u].known

Inv ==
    /\ TypeOK
    /\ SlotsAccountedFor
    /\ AttemptsLeft
    /\ KnownOnceSubmitted
    /\ GivenUpIsCancelled

-----------------------------------------------------------------------------
(* The queue of blocked senders.                                           *)

\* Enqueue: one more sender, once.
LEMMA JoinQueue ==
    ASSUME NEW q \in Seq(Users), IsInjective(q), NEW u \in Users, u \notin ToSet(q)
    PROVE  /\ Append(q, u) \in Seq(Users)
           /\ IsInjective(Append(q, u))
           /\ ToSet(Append(q, u)) = ToSet(q) \cup {u}
<1> DEFINE a == Append(q, u)
<1>1. /\ a \in Seq(Users)
      /\ Len(a) = Len(q) + 1
      /\ \A i \in 1..Len(q) : a[i] = q[i]
      /\ a[Len(q) + 1] = u
  BY AppendProperties
<1>2. /\ DOMAIN q = 1..Len(q) /\ Len(q) \in Nat
      /\ DOMAIN a = 1..(Len(q) + 1)
  BY <1>1, LenProperties
<1> HIDE DEF a
<1>3. IsInjective(a)
  BY <1>1, <1>2 DEF IsInjective, ToSet
<1>4. ToSet(a) = ToSet(q) \cup {u}
  BY <1>1, <1>2 DEF ToSet
<1> QED
  BY <1>1, <1>3, <1>4 DEF a

\* Release: the sender that has waited longest leaves the queue.
LEMMA LeaveHead ==
    ASSUME NEW q \in Seq(Users), IsInjective(q), q # << >>
    PROVE  /\ Tail(q) \in Seq(Users)
           /\ IsInjective(Tail(q))
           /\ Head(q) \in ToSet(q)
           /\ ToSet(Tail(q)) = ToSet(q) \ {Head(q)}
<1> DEFINE t == Tail(q)
<1>1. /\ t \in Seq(Users)
      /\ Len(t) = Len(q) - 1
      /\ \A i \in 1..Len(t) : t[i] = q[i + 1]
  BY HeadTailProperties
<1>2. /\ DOMAIN q = 1..Len(q) /\ Len(q) \in Nat /\ Len(q) > 0
      /\ DOMAIN t = 1..(Len(q) - 1)
      /\ Head(q) = q[1]
  BY <1>1, LenProperties, EmptySeq
<1> HIDE DEF t
<1>3. IsInjective(t)
  <2>1. SUFFICES ASSUME NEW a \in 1..(Len(q) - 1), NEW b \in 1..(Len(q) - 1),
                        t[a] = t[b]
                 PROVE  a = b
    BY <1>2 DEF IsInjective
  <2>2. /\ a + 1 \in 1..Len(q) /\ b + 1 \in 1..Len(q)
        /\ q[a + 1] = q[b + 1]
    BY <1>1, <1>2, <2>1
  <2>3. a + 1 = b + 1
    BY <1>2, <2>2 DEF IsInjective
  <2> QED
    BY <2>3
<1>4. ToSet(t) = ToSet(q) \ {q[1]}
  <2>1. ASSUME NEW x \in ToSet(t) PROVE x \in ToSet(q) \ {q[1]}
    BY <1>1, <1>2, <2>1 DEF ToSet, IsInjective
  <2>2. ASSUME NEW x \in ToSet(q), x # q[1] PROVE x \in ToSet(t)
    <3>1. PICK i \in 1..Len(q) : q[i] = x
      BY <1>2 DEF ToSet
    <3>2. i - 1 \in DOMAIN t /\ t[i - 1] = x
      BY <1>1, <1>2, <2>2, <3>1
    <3> QED
      BY <3>2 DEF ToSet
  <2> QED
    BY <2>1, <2>2
<1>5. q[1] \in ToSet(q)
  BY <1>2 DEF ToSet
<1> QED
  BY <1>1, <1>2, <1>3, <1>4, <1>5 DEF t

\* GiveUpWaiting: one sender leaves, wherever it waits, and the others keep
\* their order.
LEMMA LeaveQueue ==
    ASSUME NEW q \in Seq(Users), IsInjective(q), NEW u \in Users
    PROVE  /\ RemoveFirst(q, u) \in Seq(Users)
           /\ IsInjective(RemoveFirst(q, u))
           /\ ToSet(RemoveFirst(q, u)) = ToSet(q) \ {u}
<1>1. DOMAIN q = 1..Len(q) /\ Len(q) \in Nat
  BY LenProperties
<1>2. CASE u \notin ToSet(q)
  BY <1>1, <1>2 DEF RemoveFirst, ToSet
<1>3. CASE u \in ToSet(q)
  <2>1. PICK k \in 1..Len(q) : q[k] = u
    BY <1>1, <1>3 DEF ToSet
  <2>0. k \in Nat /\ 1 <= k /\ k <= Len(q)
    BY <1>1, <2>1
  <2>2. {i \in 1..Len(q) : q[i] = u} = {k}
    BY <1>1, <2>1 DEF IsInjective
  <2>3. Min({k}) = k
    BY DEF Min
  <2>4. RemoveFirst(q, u) = RemoveAt(q, k)
    BY <2>1, <2>2, <2>3 DEF RemoveFirst, SelectInSeq
  <2> DEFINE l == SubSeq(q, 1, k - 1)
             r == SubSeq(q, k + 1, Len(q))
             s == l \o r
  <2>5. \A i \in 1..Len(q) : q[i] \in Users
    BY ElementOfSeq
  <2>6. /\ l \in Seq(Users) /\ Len(l) = k - 1
        /\ \A i \in 1..(k - 1) : l[i] = q[i]
    BY <1>1, <2>1, <2>5, SubSeqProperties
  <2>7. /\ r \in Seq(Users) /\ Len(r) = Len(q) - k
        /\ \A i \in 1..(Len(q) - k) : r[i] = q[k + i]
    <3>1. \A i \in (k + 1)..Len(q) : q[i] \in Users
      BY <1>1, <2>1, <2>5
    <3>2. /\ r \in Seq(Users)
          /\ Len(r) = IF k + 1 <= Len(q) THEN Len(q) - (k + 1) + 1 ELSE 0
          /\ \A i \in 1..(Len(q) - (k + 1) + 1) : r[i] = q[(k + 1) + i - 1]
      BY <1>1, <2>1, <3>1, SubSeqProperties
    <3> HIDE DEF r
    <3>3. ASSUME NEW i \in 1..(Len(q) - k) PROVE r[i] = q[k + i]
      <4>1. i \in 1..(Len(q) - (k + 1) + 1) /\ (k + 1) + i - 1 = k + i
        BY <1>1
      <4> QED
        BY <3>2, <4>1
    <3>4. Len(r) = Len(q) - k
      <4>1. Len(r) = IF k + 1 <= Len(q) THEN Len(q) - (k + 1) + 1 ELSE 0
        BY <3>2
      <4>2. PICK m : m = Len(q)
        OBVIOUS
      <4>3. m \in Nat /\ k \in Nat /\ k <= m
        BY <1>1, <2>0, <4>2
      <4>4. (IF k + 1 <= m THEN m - (k + 1) + 1 ELSE 0) = m - k
        BY ONLY <4>3
      <4> QED
        BY ONLY <4>1, <4>2, <4>4
    <3> QED
      BY <3>2, <3>3, <3>4
  <2> HIDE DEF l, r
  <2>8. /\ s \in Seq(Users) /\ Len(s) = Len(q) - 1
        /\ \A i \in 1..(Len(q) - 1) : s[i] = IF i < k THEN q[i] ELSE q[i + 1]
    <3>1. /\ s \in Seq(Users) /\ Len(s) = Len(l) + Len(r)
          /\ \A i \in 1..(Len(l) + Len(r)) :
                s[i] = IF i <= Len(l) THEN l[i] ELSE r[i - Len(l)]
      BY <2>6, <2>7, ConcatProperties
    <3> HIDE DEF s
    <3>2. ASSUME NEW i \in 1..(Len(q) - 1), i < k PROVE s[i] = q[i]
      <4>1. i <= Len(l) /\ i \in 1..(Len(l) + Len(r)) /\ i \in 1..(k - 1)
        BY <1>1, <2>0, <2>6, <2>7, <3>2
      <4> QED
        BY <2>6, <3>1, <4>1
    <3>3. ASSUME NEW i \in 1..(Len(q) - 1), i >= k PROVE s[i] = q[i + 1]
      <4>1. i - (k - 1) \in 1..(Len(q) - k) /\ k + (i - (k - 1)) = i + 1
        BY <1>1, <3>3
      <4>2. s[i] = r[i - (k - 1)]
        <5>1. ~(i <= Len(l)) /\ i \in 1..(Len(l) + Len(r))
          BY <1>1, <2>0, <2>6, <2>7, <3>3
        <5> QED
          BY <2>6, <3>1, <5>1
      <4> QED
        BY <2>7, <4>1, <4>2
    <3> QED
      BY <1>1, <2>6, <2>7, <3>1, <3>2, <3>3
  <2>9. DOMAIN s = 1..(Len(q) - 1)
    BY <2>8, LenProperties
  <2> HIDE DEF s
  <2>11. IsInjective(s)
    <3>1. SUFFICES ASSUME NEW a \in 1..(Len(q) - 1), NEW b \in 1..(Len(q) - 1),
                          s[a] = s[b]
                   PROVE  a = b
      BY <2>9 DEF IsInjective
    <3> DEFINE At(i) == IF i < k THEN i ELSE i + 1
    <3>2. /\ At(a) \in 1..Len(q) /\ At(b) \in 1..Len(q)
          /\ q[At(a)] = q[At(b)]
      BY <1>1, <2>1, <2>8, <3>1
    <3>3. At(a) = At(b)
      BY <1>1, <3>2 DEF IsInjective
    <3> QED
      BY <1>1, <2>1, <3>3
  <2>12. ToSet(s) = ToSet(q) \ {u}
    <3>1. ASSUME NEW x \in ToSet(s) PROVE x \in ToSet(q) \ {u}
      <4>1. PICK i \in 1..(Len(q) - 1) : s[i] = x
        BY <2>9, <3>1 DEF ToSet
      <4>2. PICK j : j = IF i < k THEN i ELSE i + 1
        OBVIOUS
      <4>3. j \in 1..Len(q) /\ j # k
        BY <1>1, <4>2
      <4>4. q[j] = x
        BY <2>8, <4>1, <4>2
      <4> QED
        BY <1>1, <2>1, <4>3, <4>4 DEF ToSet, IsInjective
    <3>2. ASSUME NEW x \in ToSet(q), x # u PROVE x \in ToSet(s)
      <4>1. PICK i \in 1..Len(q) : q[i] = x
        BY <1>1 DEF ToSet
      <4>2. CASE i < k
        <5>1. i \in 1..(Len(q) - 1)
          BY <1>1, <4>2
        <5>2. i \in DOMAIN s /\ s[i] = x
          BY <2>8, <2>9, <4>1, <4>2, <5>1
        <5> QED
          BY <5>2 DEF ToSet
      <4>3. CASE i > k
        <5>1. i - 1 \in DOMAIN s /\ s[i - 1] = x
          BY <1>1, <2>1, <2>8, <2>9, <4>1, <4>3
        <5> QED
          BY <5>1 DEF ToSet
      <4> QED
        BY <2>1, <3>2, <4>1, <4>2, <4>3
    <3> QED
      BY <3>1, <3>2
  <2> QED
    BY <2>4, <2>8, <2>11, <2>12 DEF RemoveAt, s, l, r
<1> QED
  BY <1>2, <1>3

-----------------------------------------------------------------------------
(* The lane.                                                               *)

\* The part of the invariant that acquire and release keep: it speaks of pc,
\* inUse, queue and waiting alone.
Lane ==
    /\ pc \in [Users -> {"idle", "enter", "counted", "queued", "backoff"}
                        \cup Holding]
    /\ inUse \in 0..Capacity
    /\ queue \in Seq(Users) /\ IsInjective(queue)
    /\ ToSet(queue) = {u \in Users : pc[u] = "queued"}
    /\ waiting \in 0..Cardinality(Users)
    /\ SlotsAccountedFor

\* A set of requests is finite and no larger than all of them.
LEMMA SomeUsers ==
    ASSUME NEW S \in SUBSET Users
    PROVE  /\ IsFiniteSet(S) /\ Cardinality(S) \in Nat
           /\ Cardinality(S) <= Cardinality(Users) /\ Cardinality(Users) \in Nat
  BY FS_Subset, FS_CardinalityType, LaneAssumption

\* One more request in a set is one more to count.
LEMMA OneMore ==
    ASSUME NEW S \in SUBSET Users, NEW u \in Users, u \notin S
    PROVE  Cardinality(S \cup {u}) = Cardinality(S) + 1
  BY SomeUsers, FS_AddElement

\* One request fewer in a set is one fewer to count.
LEMMA OneFewer ==
    ASSUME NEW S \in SUBSET Users, NEW u \in S
    PROVE  Cardinality(S \ {u}) = Cardinality(S) - 1 /\ Cardinality(S) >= 1
<1>1. S \ {u} \in SUBSET Users /\ u \in Users
  OBVIOUS
<1>2. Cardinality(S \ {u}) = Cardinality(S) - 1
  BY SomeUsers, FS_RemoveElement
<1>3. Cardinality(S \ {u}) \in Nat /\ Cardinality(S) \in Nat
  BY <1>1, SomeUsers
<1> QED
  BY <1>2, <1>3

\* Where a request goes once it is admitted.
LEMMA AdmittedHolds ==
    ASSUME NEW u
    PROVE  Admitted(u) \in {"submit", "trip"}
  BY DEF Admitted

\* A step of a request that neither takes nor gives back a slot nor begins or
\* stops to wait leaves the lane as it was.
LEMMA LaneStays ==
    ASSUME Lane, NEW u \in Users, NEW next,
           next \in {"idle", "enter", "backoff"} \cup Holding,
           pc[u] \notin {"counted", "queued"},
           next \in Holding <=> pc[u] \in Holding,
           pc' = [pc EXCEPT ![u] = next], UNCHANGED <<inUse, queue, waiting>>
    PROVE  Lane'
<1>1. Holders' = Holders /\ Waiters' = Waiters
  BY DEF Lane, Holders, Holding, Waiters
<1>2. {v \in Users : pc'[v] = "queued"} = {v \in Users : pc[v] = "queued"}
  BY DEF Lane, Holding
<1>3. pc' \in [Users -> {"idle", "enter", "counted", "queued", "backoff"}
                        \cup Holding]
  BY DEF Lane
<1> QED
  BY <1>1, <1>2, <1>3 DEF Lane, SlotsAccountedFor, Waiters

\* release gives the slot to the sender that has waited longest, or frees it
\* when none waits: either way the counts stay exact.
LEMMA ReleaseKeeps ==
    ASSUME Lane, NEW u \in Users, pc[u] \in Holding,
           NEW next \in {"idle", "backoff"}, Release(u, next)
    PROVE  Lane'
<1>1. Holders \in SUBSET Users /\ Waiters \in SUBSET Users /\ u \in Holders
  BY DEF Holders, Waiters
<1>2. next \notin Holding /\ "counted" \notin Holding /\ "queued" \notin Holding
  BY DEF Holding
<1>3. CASE queue = << >>
  <2>1. inUse' = inUse - 1 /\ pc' = [pc EXCEPT ![u] = next]
        /\ UNCHANGED <<queue, waiting>>
    BY <1>3 DEF Release
  <2>2. Holders' = Holders \ {u} /\ Waiters' = Waiters
    BY <1>1, <1>2, <2>1 DEF Lane, Holders, Waiters, Holding
  <2>3. {v \in Users : pc'[v] = "queued"} = {v \in Users : pc[v] = "queued"}
    BY <1>2, <2>1 DEF Lane, Holding
  <2>4. pc' \in [Users -> {"idle", "enter", "counted", "queued", "backoff"}
                        \cup Holding]
    BY <2>1 DEF Lane
  <2>5. Cardinality(Holders') = Cardinality(Holders) - 1 /\ Cardinality(Holders) >= 1
    BY <1>1, <2>2, OneFewer
  <2>6. inUse' \in 0..Capacity /\ inUse' = Cardinality(Holders')
    BY <2>1, <2>5, LaneAssumption DEF Lane, SlotsAccountedFor
  <2> QED
    BY <1>3, <2>1, <2>2, <2>3, <2>4, <2>6 DEF Lane, SlotsAccountedFor, Waiters
<1>4. CASE queue # << >>
  <2> DEFINE h == Head(queue)
  <2>1. /\ pc' = [pc EXCEPT ![u] = next, ![h] = Admitted(h)]
        /\ queue' = Tail(queue) /\ waiting' = waiting - 1 /\ UNCHANGED inUse
    BY <1>4 DEF Release
  <2>2. /\ queue' \in Seq(Users) /\ IsInjective(queue')
        /\ h \in ToSet(queue) /\ ToSet(queue') = ToSet(queue) \ {h}
    BY <1>4, <2>1, LeaveHead DEF Lane
  <2>3. h \in Users /\ pc[h] = "queued" /\ h # u
    BY <1>2, <2>2 DEF Lane
  <2>4. Admitted(h) \in Holding
    BY AdmittedHolds DEF Holding
  <2>5. Admitted(h) \notin {"counted", "queued"}
    BY AdmittedHolds
  <2> HIDE DEF h
  <2>6. /\ pc'[h] = Admitted(h) /\ pc'[u] = next
        /\ \A v \in Users \ {h, u} : pc'[v] = pc[v]
        /\ pc' \in [Users -> {"idle", "enter", "counted", "queued", "backoff"}
                             \cup Holding]
    BY <2>1, <2>3, <2>4 DEF Lane
  <2>7. Holders' = (Holders \ {u}) \cup {h}
    BY <1>1, <1>2, <2>3, <2>4, <2>6 DEF Holders
  <2>8. Waiters' = Waiters \ {h}
    BY <1>1, <1>2, <2>3, <2>5, <2>6 DEF Waiters
  <2>9. {v \in Users : pc'[v] = "queued"} = {v \in Users : pc[v] = "queued"} \ {h}
    BY <1>2, <2>3, <2>5, <2>6
  <2>10. h \in Waiters /\ h \notin Holders \ {u} /\ Holders \ {u} \in SUBSET Users
    BY <1>1, <1>2, <2>3 DEF Waiters, Holders
  <2>11. Cardinality(Holders') = Cardinality(Holders)
    <3>1. Cardinality(Holders \ {u}) = Cardinality(Holders) - 1
      BY <1>1, OneFewer
    <3>2. Cardinality((Holders \ {u}) \cup {h}) = Cardinality(Holders \ {u}) + 1
      BY <2>3, <2>10, OneMore
    <3> QED
      BY <1>1, <2>7, <3>1, <3>2, SomeUsers
  <2>12. waiting' = Cardinality(Waiters') /\ waiting' \in 0..Cardinality(Users)
    <3>1. Cardinality(Waiters \ {h}) = Cardinality(Waiters) - 1
          /\ Cardinality(Waiters) >= 1
      BY <1>1, <2>10, OneFewer
    <3>2. waiting = Cardinality(Waiters)
      BY DEF Lane, SlotsAccountedFor, Waiters
    <3>3. Cardinality(Waiters) \in Nat /\ Cardinality(Users) \in Nat
          /\ Cardinality(Waiters) <= Cardinality(Users)
      BY <1>1, SomeUsers
    <3> QED
      BY <2>1, <2>8, <3>1, <3>2, <3>3
  <2> QED
    BY <1>4, <2>1, <2>2, <2>6, <2>9, <2>11, <2>12
    DEF Lane, SlotsAccountedFor, Waiters
<1> QED
  BY <1>3, <1>4

\* acquire's two ways in, its queue and its way out keep the counts exact.
LEMMA AcquireKeeps ==
    ASSUME Lane, NEW u \in Users, Acquire(u)
    PROVE  Lane'
<1> DEFINE Pcs == {"idle", "enter", "counted", "queued", "backoff"} \cup Holding
<1>1. Holders \in SUBSET Users /\ Waiters \in SUBSET Users
  BY DEF Holders, Waiters
<1>2. /\ "counted" \notin Holding /\ "queued" \notin Holding
      /\ "enter" \notin Holding /\ "idle" \notin Holding
  BY DEF Holding
<1>3. Admitted(u) \in Holding /\ Admitted(u) \notin {"counted", "queued"}
  BY AdmittedHolds DEF Holding
<1>4. /\ inUse = Cardinality(Holders) /\ waiting = Cardinality(Waiters)
      /\ inUse \in 0..Capacity /\ Capacity \in Nat
      /\ waiting \in 0..Cardinality(Users) /\ Cardinality(Users) \in Nat
  BY <1>1, SomeUsers, LaneAssumption DEF Lane, SlotsAccountedFor, Waiters
<1>5. Waiters' \in SUBSET Users /\ Holders' \in SUBSET Users
  BY DEF Waiters, Holders
<1>6. /\ Cardinality(Waiters') <= Cardinality(Users) /\ Cardinality(Waiters') \in Nat
  BY <1>5, SomeUsers
<1>7. CASE FastAcquire(u)
  <2>1. Holders' = Holders \cup {u} /\ Waiters' = Waiters /\ u \notin Holders
    BY <1>2, <1>3, <1>7 DEF FastAcquire, Lane, Holders, Waiters
  <2>2. {v \in Users : pc'[v] = "queued"} = {v \in Users : pc[v] = "queued"}
    BY <1>3, <1>7 DEF FastAcquire, Lane
  <2>3. inUse' = Cardinality(Holders') /\ inUse' \in 0..Capacity
    BY <1>1, <1>4, <1>7, <2>1, OneMore DEF FastAcquire
  <2>4. pc' \in [Users -> Pcs]
    BY <1>3, <1>7 DEF FastAcquire, Lane
  <2>5. queue = << >>
    BY <1>4, <1>7 DEF FastAcquire, Lane, SlotsAccountedFor
  <2> QED
    BY <1>7, <2>1, <2>2, <2>3, <2>4, <2>5
    DEF FastAcquire, Lane, SlotsAccountedFor, Waiters
<1>8. CASE CountWaiting(u)
  <2>1. Holders' = Holders /\ Waiters' = Waiters \cup {u} /\ u \notin Waiters
    BY <1>2, <1>8 DEF CountWaiting, Lane, Holders, Waiters
  <2>2. {v \in Users : pc'[v] = "queued"} = {v \in Users : pc[v] = "queued"}
    BY <1>8 DEF CountWaiting, Lane
  <2>3. waiting' = Cardinality(Waiters')
    BY <1>1, <1>4, <1>8, <2>1, OneMore DEF CountWaiting
  <2>4. waiting' \in 0..Cardinality(Users)
    BY <1>4, <1>6, <2>3
  <2>5. pc' \in [Users -> Pcs]
    BY <1>8 DEF CountWaiting, Lane
  <2> QED
    BY <1>8, <2>1, <2>2, <2>3, <2>4, <2>5
    DEF CountWaiting, Lane, SlotsAccountedFor, Waiters
<1>9. CASE SelectSlot(u)
  <2>1. /\ Holders' = Holders \cup {u} /\ u \notin Holders
        /\ Waiters' = Waiters \ {u} /\ u \in Waiters
    BY <1>2, <1>3, <1>9 DEF SelectSlot, Lane, Holders, Waiters
  <2>2. {v \in Users : pc'[v] = "queued"} = {v \in Users : pc[v] = "queued"}
    BY <1>3, <1>9 DEF SelectSlot, Lane
  <2>3. inUse' = Cardinality(Holders') /\ inUse' \in 0..Capacity
    BY <1>1, <1>4, <1>9, <2>1, OneMore DEF SelectSlot
  <2>4. waiting' = Cardinality(Waiters')
    BY <1>1, <1>4, <1>9, <2>1, OneFewer DEF SelectSlot
  <2>5. waiting' \in 0..Cardinality(Users)
    BY <1>4, <1>6, <2>4
  <2>6. pc' \in [Users -> Pcs]
    BY <1>3, <1>9 DEF SelectSlot, Lane
  <2>7. queue = << >>
    BY <1>4, <1>9 DEF SelectSlot, Lane, SlotsAccountedFor
  <2> QED
    BY <1>9, <2>2, <2>3, <2>4, <2>5, <2>6, <2>7
    DEF SelectSlot, Lane, SlotsAccountedFor, Waiters
<1>10. CASE Enqueue(u)
  <2>1. Holders' = Holders /\ Waiters' = Waiters
    BY <1>2, <1>10 DEF Enqueue, Lane, Holders, Waiters
  <2>2. /\ {v \in Users : pc'[v] = "queued"} = {v \in Users : pc[v] = "queued"} \cup {u}
        /\ u \notin ToSet(queue)
    BY <1>10 DEF Enqueue, Lane
  <2>3. /\ queue' \in Seq(Users) /\ IsInjective(queue')
        /\ ToSet(queue') = ToSet(queue) \cup {u}
    BY <1>10, <2>2, JoinQueue DEF Enqueue, Lane
  <2>4. pc' \in [Users -> Pcs]
    BY <1>10 DEF Enqueue, Lane
  <2> QED
    BY <1>10, <2>1, <2>2, <2>3, <2>4
    DEF Enqueue, Lane, SlotsAccountedFor, Waiters
<1>11. CASE GiveUpWaiting(u)
  <2>1. Holders' = Holders /\ Waiters' = Waiters \ {u} /\ u \in Waiters
    BY <1>2, <1>11 DEF GiveUpWaiting, Lane, Holders, Waiters
  <2>2. {v \in Users : pc'[v] = "queued"} = {v \in Users : pc[v] = "queued"} \ {u}
    BY <1>11 DEF GiveUpWaiting, Lane
  <2>3. /\ queue' \in Seq(Users) /\ IsInjective(queue')
        /\ ToSet(queue') = ToSet(queue) \ {u}
    BY <1>11, LeaveQueue DEF GiveUpWaiting, Lane
  <2>4. waiting' = Cardinality(Waiters')
    BY <1>1, <1>4, <1>11, <2>1, OneFewer DEF GiveUpWaiting
  <2>5. waiting' \in 0..Cardinality(Users)
    BY <1>4, <1>6, <2>4
  <2>6. pc' \in [Users -> Pcs]
    BY <1>11 DEF GiveUpWaiting, Lane
  <2>7. queue' # << >> => inUse' = Capacity
    <3>1. queue = << >> => ToSet(queue) = {}
      BY DEF ToSet
    <3>2. queue' # << >> => ToSet(queue') # {}
      BY <2>3, LenProperties, EmptySeq DEF ToSet
    <3> QED
      BY <1>11, <2>3, <3>1, <3>2 DEF GiveUpWaiting, Lane, SlotsAccountedFor
  <2> QED
    BY <1>11, <2>1, <2>2, <2>3, <2>4, <2>5, <2>6, <2>7
    DEF GiveUpWaiting, Lane, SlotsAccountedFor, Waiters
<1> QED
  BY <1>7, <1>8, <1>9, <1>10, <1>11 DEF Acquire

\* Every step keeps the lane's part.
LEMMA NextLane == Lane /\ [Next]_vars => Lane'
<1> SUFFICES ASSUME Lane, [Next]_vars PROVE Lane'
  OBVIOUS
<1>1. CASE UNCHANGED vars
  BY <1>1 DEF vars, Lane, SlotsAccountedFor, Holders
<1>2. ASSUME NEW u \in Users, Start(u) \/ BackoffElapses(u) \/ BackoffCut(u)
      PROVE  Lane'
  BY <1>2, LaneStays DEF Start, BackoffElapses, BackoffCut, Holding
<1>3. ASSUME NEW u \in Users, SubmitAccepted(u) \/ PollTimer(u) \/ Abandon(u)
                              \/ PollAgain(u)
      PROVE  Lane'
  BY <1>3, LaneStays DEF SubmitAccepted, PollTimer, Abandon, PollAgain, Holding
<1>4. ASSUME NEW u \in Users, EndContext(u) \/ TimeOut(u) \/ RunEnds(u)
      PROVE  Lane'
  BY <1>4 DEF EndContext, TimeOut, RunEnds, Lane, SlotsAccountedFor, Holders
<1>5. ASSUME NEW u \in Users, TripEnds(u) \/ TripFails(u)
      PROVE  Lane'
  BY <1>5, ReleaseKeeps DEF TripEnds, TripFails, Finish, Holding
<1>6. ASSUME NEW u \in Users, SubmitFails(u) \/ CancelSent(u) \/ PollRefused(u)
                              \/ PollOver(u)
      PROVE  Lane'
  BY <1>6, ReleaseKeeps DEF SubmitFails, CancelSent, PollRefused, PollOver,
                            Finish, Holding
<1>7. ASSUME NEW u \in Users, Acquire(u) PROVE Lane'
  BY <1>7, AcquireKeeps
<1> QED
  BY <1>1, <1>2, <1>3, <1>4, <1>5, <1>6, <1>7 DEF Next, Request, GraphQL, SQL

-----------------------------------------------------------------------------
(* The requests.                                                           *)

Requests ==
    /\ live \in [Users -> BOOLEAN]
    /\ inTime \in [Users -> BOOLEAN]
    /\ attempt \in [Users -> 0..Attempts]
    /\ run \in [Users -> [state : {"none", "running", "over"},
                          known : BOOLEAN, cancelled : BOOLEAN]]
    /\ result \in [Users -> {"none", "ok", "failed", "tooCostly", "ended"}]
    /\ AttemptsLeft
    /\ KnownOnceSubmitted
    /\ GivenUpIsCancelled

\* release moves u on, and whoever it admits from waiting to its request.
LEMMA ReleaseMoves ==
    ASSUME Lane, NEW u \in Users, pc[u] \in Holding,
           NEW next \in {"idle", "backoff"}, Release(u, next)
    PROVE  /\ pc'[u] = next
           /\ \A v \in Users \ {u} :
                \/ pc'[v] = pc[v]
                \/ pc[v] = "queued" /\ pc'[v] \in {"submit", "trip"}
<1>1. CASE queue = << >>
  BY <1>1 DEF Release, Lane
<1>2. CASE queue # << >>
  <2> DEFINE h == Head(queue)
  <2>1. h \in ToSet(queue)
    BY <1>2, LeaveHead DEF Lane
  <2>2. h \in Users /\ pc[h] = "queued" /\ h # u
    BY <2>1 DEF Lane, Holding
  <2>3. pc' = [pc EXCEPT ![u] = next, ![h] = Admitted(h)]
    BY <1>2 DEF Release
  <2> HIDE DEF h
  <2> QED
    BY <2>2, <2>3, AdmittedHolds DEF Lane
<1> QED
  BY <1>1, <1>2

\* A request that returns, and has been cancelled, has failed or is over if an
\* execution of it is known, keeps what is known of the requests.
LEMMA FinishKeeps ==
    ASSUME Lane, Requests, NEW u \in Users, pc[u] \in Holding,
           NEW outcome \in {"ok", "failed", "tooCostly", "ended"},
           Finish(u, outcome),
           NEW r \in [state : {"none", "running", "over"},
                      known : BOOLEAN, cancelled : BOOLEAN],
           run' = [run EXCEPT ![u] = r],
           r.known /\ r.state = "running" => r.cancelled \/ outcome = "failed",
           NEW n \in 0..Attempts, attempt' = [attempt EXCEPT ![u] = n],
           UNCHANGED <<live, inTime>>
    PROVE  Requests'
<1>1. /\ pc'[u] = "idle"
      /\ \A v \in Users \ {u} :
            \/ pc'[v] = pc[v]
            \/ pc[v] = "queued" /\ pc'[v] \in {"submit", "trip"}
  BY ReleaseMoves DEF Finish
<1>2. result' = [result EXCEPT ![u] = outcome]
  BY DEF Finish
<1>3. /\ attempt' \in [Users -> 0..Attempts]
      /\ run' \in [Users -> [state : {"none", "running", "over"},
                             known : BOOLEAN, cancelled : BOOLEAN]]
      /\ result' \in [Users -> {"none", "ok", "failed", "tooCostly", "ended"}]
  BY <1>2 DEF Requests
<1>4. AttemptsLeft'
  BY <1>1 DEF Requests, AttemptsLeft
<1>5. KnownOnceSubmitted'
  BY <1>1 DEF Requests, KnownOnceSubmitted
<1>6. GivenUpIsCancelled'
  BY <1>1, <1>2 DEF Requests, GivenUpIsCancelled
<1> QED
  BY <1>3, <1>4, <1>5, <1>6 DEF Requests

\* A step that leaves the executions alone leaves u's alone.
LEMMA SameRun ==
    ASSUME Requests, NEW u \in Users, UNCHANGED run
    PROVE  /\ run' = [run EXCEPT ![u] = run[u]]
           /\ run[u] \in [state : {"none", "running", "over"},
                          known : BOOLEAN, cancelled : BOOLEAN]
  BY DEF Requests

\* A step that leaves the attempts alone leaves u's alone.
LEMMA SameAttempt ==
    ASSUME Requests, NEW u \in Users, UNCHANGED attempt
    PROVE  attempt' = [attempt EXCEPT ![u] = attempt[u]] /\ attempt[u] \in 0..Attempts
  BY DEF Requests

\* Every step keeps the requests' part.
LEMMA NextRequests == Lane /\ Requests /\ [Next]_vars => Requests'
<1> SUFFICES ASSUME Lane, Requests, [Next]_vars PROVE Requests'
  OBVIOUS
<1>1. CASE UNCHANGED vars
  BY <1>1 DEF vars, Requests, AttemptsLeft, KnownOnceSubmitted, GivenUpIsCancelled
<1>2. ASSUME NEW u \in Users, Start(u) PROVE Requests'
  <2>1. \A v \in Users \ {u} : pc'[v] = pc[v]
    BY <1>2 DEF Start, Lane
  <2>2. AttemptsLeft'
    BY <1>2, <2>1, LaneAssumption DEF Start, Lane, Requests, AttemptsLeft
  <2>3. KnownOnceSubmitted'
    BY <1>2, <2>1 DEF Start, Lane, Requests, KnownOnceSubmitted, NoRun
  <2>4. GivenUpIsCancelled'
    BY <1>2, <2>1 DEF Start, Lane, Requests, GivenUpIsCancelled, KnownOnceSubmitted, NoRun
  <2>5. NoRun \in [state : {"none", "running", "over"},
                   known : BOOLEAN, cancelled : BOOLEAN]
    BY DEF NoRun
  <2> QED
    BY <1>2, <2>2, <2>3, <2>4, <2>5, LaneAssumption DEF Start, Requests
<1>3. ASSUME NEW u \in Users, EndContext(u) PROVE Requests'
  <2>1. \A v \in Users \ {u} : pc'[v] = pc[v]
    BY <1>3 DEF EndContext, Lane
  <2>2. AttemptsLeft'
    BY <1>3, <2>1, LaneAssumption DEF EndContext, Lane, Requests, AttemptsLeft
  <2>3. KnownOnceSubmitted'
    BY <1>3, <2>1 DEF EndContext, Lane, Requests, KnownOnceSubmitted, NoRun
  <2>4. GivenUpIsCancelled'
    BY <1>3, <2>1 DEF EndContext, Lane, Requests, GivenUpIsCancelled, KnownOnceSubmitted, NoRun
  <2> QED
    BY <1>3, <2>2, <2>3, <2>4 DEF EndContext, Requests, NoRun
<1>4. ASSUME NEW u \in Users, TimeOut(u) PROVE Requests'
  <2>1. \A v \in Users \ {u} : pc'[v] = pc[v]
    BY <1>4 DEF TimeOut, Lane
  <2>2. AttemptsLeft'
    BY <1>4, <2>1, LaneAssumption DEF TimeOut, Lane, Requests, AttemptsLeft
  <2>3. KnownOnceSubmitted'
    BY <1>4, <2>1 DEF TimeOut, Lane, Requests, KnownOnceSubmitted, NoRun
  <2>4. GivenUpIsCancelled'
    BY <1>4, <2>1 DEF TimeOut, Lane, Requests, GivenUpIsCancelled, KnownOnceSubmitted, NoRun
  <2> QED
    BY <1>4, <2>2, <2>3, <2>4 DEF TimeOut, Requests, NoRun
<1>5. ASSUME NEW u \in Users, RunEnds(u) PROVE Requests'
  <2>1. \A v \in Users \ {u} : pc'[v] = pc[v]
    BY <1>5 DEF RunEnds, Lane
  <2>2. AttemptsLeft'
    BY <1>5, <2>1, LaneAssumption DEF RunEnds, Lane, Requests, AttemptsLeft
  <2>3. KnownOnceSubmitted'
    BY <1>5, <2>1 DEF RunEnds, Lane, Requests, KnownOnceSubmitted, NoRun
  <2>4. GivenUpIsCancelled'
    BY <1>5, <2>1 DEF RunEnds, Lane, Requests, GivenUpIsCancelled, KnownOnceSubmitted, NoRun
  <2> QED
    BY <1>5, <2>2, <2>3, <2>4 DEF RunEnds, Requests, NoRun
<1>6. ASSUME NEW u \in Users, FastAcquire(u) PROVE Requests'
  <2>1. \A v \in Users \ {u} : pc'[v] = pc[v]
    BY <1>6 DEF FastAcquire, Lane
  <2>2. AttemptsLeft'
    BY <1>6, <2>1, LaneAssumption DEF FastAcquire, Lane, Requests, AttemptsLeft, Admitted
  <2>3. KnownOnceSubmitted'
    BY <1>6, <2>1 DEF FastAcquire, Lane, Requests, KnownOnceSubmitted, NoRun, Admitted
  <2>4. GivenUpIsCancelled'
    BY <1>6, <2>1 DEF FastAcquire, Lane, Requests, GivenUpIsCancelled, KnownOnceSubmitted, NoRun, Admitted
  <2> QED
    BY <1>6, <2>2, <2>3, <2>4 DEF FastAcquire, Requests, NoRun
<1>7. ASSUME NEW u \in Users, CountWaiting(u) PROVE Requests'
  <2>1. \A v \in Users \ {u} : pc'[v] = pc[v]
    BY <1>7 DEF CountWaiting, Lane
  <2>2. AttemptsLeft'
    BY <1>7, <2>1, LaneAssumption DEF CountWaiting, Lane, Requests, AttemptsLeft
  <2>3. KnownOnceSubmitted'
    BY <1>7, <2>1 DEF CountWaiting, Lane, Requests, KnownOnceSubmitted, NoRun
  <2>4. GivenUpIsCancelled'
    BY <1>7, <2>1 DEF CountWaiting, Lane, Requests, GivenUpIsCancelled, KnownOnceSubmitted, NoRun
  <2> QED
    BY <1>7, <2>2, <2>3, <2>4 DEF CountWaiting, Requests, NoRun
<1>8. ASSUME NEW u \in Users, SelectSlot(u) PROVE Requests'
  <2>1. \A v \in Users \ {u} : pc'[v] = pc[v]
    BY <1>8 DEF SelectSlot, Lane
  <2>2. AttemptsLeft'
    BY <1>8, <2>1, LaneAssumption DEF SelectSlot, Lane, Requests, AttemptsLeft, Admitted
  <2>3. KnownOnceSubmitted'
    BY <1>8, <2>1 DEF SelectSlot, Lane, Requests, KnownOnceSubmitted, NoRun, Admitted
  <2>4. GivenUpIsCancelled'
    BY <1>8, <2>1 DEF SelectSlot, Lane, Requests, GivenUpIsCancelled, KnownOnceSubmitted, NoRun, Admitted
  <2> QED
    BY <1>8, <2>2, <2>3, <2>4 DEF SelectSlot, Requests, NoRun
<1>9. ASSUME NEW u \in Users, Enqueue(u) PROVE Requests'
  <2>1. \A v \in Users \ {u} : pc'[v] = pc[v]
    BY <1>9 DEF Enqueue, Lane
  <2>2. AttemptsLeft'
    BY <1>9, <2>1, LaneAssumption DEF Enqueue, Lane, Requests, AttemptsLeft
  <2>3. KnownOnceSubmitted'
    BY <1>9, <2>1 DEF Enqueue, Lane, Requests, KnownOnceSubmitted, NoRun
  <2>4. GivenUpIsCancelled'
    BY <1>9, <2>1 DEF Enqueue, Lane, Requests, GivenUpIsCancelled, KnownOnceSubmitted, NoRun
  <2> QED
    BY <1>9, <2>2, <2>3, <2>4 DEF Enqueue, Requests, NoRun
<1>10. ASSUME NEW u \in Users, GiveUpWaiting(u) PROVE Requests'
  <2>1. \A v \in Users \ {u} : pc'[v] = pc[v]
    BY <1>10 DEF GiveUpWaiting, Lane
  <2>2. AttemptsLeft'
    BY <1>10, <2>1, LaneAssumption DEF GiveUpWaiting, Lane, Requests, AttemptsLeft
  <2>3. KnownOnceSubmitted'
    BY <1>10, <2>1 DEF GiveUpWaiting, Lane, Requests, KnownOnceSubmitted, NoRun
  <2>4. GivenUpIsCancelled'
    BY <1>10, <2>1 DEF GiveUpWaiting, Lane, Requests, GivenUpIsCancelled, KnownOnceSubmitted, NoRun
  <2> QED
    BY <1>10, <2>2, <2>3, <2>4 DEF GiveUpWaiting, Requests, NoRun
<1>11. ASSUME NEW u \in Users, BackoffElapses(u) PROVE Requests'
  <2>1. \A v \in Users \ {u} : pc'[v] = pc[v]
    BY <1>11 DEF BackoffElapses, Lane
  <2>2. AttemptsLeft'
    BY <1>11, <2>1, LaneAssumption DEF BackoffElapses, Lane, Requests, AttemptsLeft
  <2>3. KnownOnceSubmitted'
    BY <1>11, <2>1 DEF BackoffElapses, Lane, Requests, KnownOnceSubmitted, NoRun
  <2>4. GivenUpIsCancelled'
    BY <1>11, <2>1 DEF BackoffElapses, Lane, Requests, GivenUpIsCancelled, KnownOnceSubmitted, NoRun
  <2> QED
    BY <1>11, <2>2, <2>3, <2>4 DEF BackoffElapses, Requests, NoRun
<1>12. ASSUME NEW u \in Users, BackoffCut(u) PROVE Requests'
  <2>1. \A v \in Users \ {u} : pc'[v] = pc[v]
    BY <1>12 DEF BackoffCut, Lane
  <2>2. AttemptsLeft'
    BY <1>12, <2>1, LaneAssumption DEF BackoffCut, Lane, Requests, AttemptsLeft
  <2>3. KnownOnceSubmitted'
    BY <1>12, <2>1 DEF BackoffCut, Lane, Requests, KnownOnceSubmitted, NoRun
  <2>4. GivenUpIsCancelled'
    BY <1>12, <2>1 DEF BackoffCut, Lane, Requests, GivenUpIsCancelled, KnownOnceSubmitted, NoRun
  <2> QED
    BY <1>12, <2>2, <2>3, <2>4 DEF BackoffCut, Requests, NoRun
<1>13. ASSUME NEW u \in Users, SubmitAccepted(u) PROVE Requests'
  <2>1. \A v \in Users \ {u} : pc'[v] = pc[v]
    BY <1>13 DEF SubmitAccepted, Lane
  <2>2. AttemptsLeft'
    BY <1>13, <2>1, LaneAssumption DEF SubmitAccepted, Lane, Requests, AttemptsLeft
  <2>3. KnownOnceSubmitted'
    BY <1>13, <2>1 DEF SubmitAccepted, Lane, Requests, KnownOnceSubmitted, NoRun
  <2>4. GivenUpIsCancelled'
    BY <1>13, <2>1 DEF SubmitAccepted, Lane, Requests, GivenUpIsCancelled, KnownOnceSubmitted, NoRun
  <2> QED
    BY <1>13, <2>2, <2>3, <2>4 DEF SubmitAccepted, Requests, NoRun
<1>14. ASSUME NEW u \in Users, PollTimer(u) PROVE Requests'
  <2>1. \A v \in Users \ {u} : pc'[v] = pc[v]
    BY <1>14 DEF PollTimer, Lane
  <2>2. AttemptsLeft'
    BY <1>14, <2>1, LaneAssumption DEF PollTimer, Lane, Requests, AttemptsLeft
  <2>3. KnownOnceSubmitted'
    BY <1>14, <2>1 DEF PollTimer, Lane, Requests, KnownOnceSubmitted, NoRun
  <2>4. GivenUpIsCancelled'
    BY <1>14, <2>1 DEF PollTimer, Lane, Requests, GivenUpIsCancelled, KnownOnceSubmitted, NoRun
  <2> QED
    BY <1>14, <2>2, <2>3, <2>4 DEF PollTimer, Requests, NoRun
<1>15. ASSUME NEW u \in Users, Abandon(u) PROVE Requests'
  <2>1. \A v \in Users \ {u} : pc'[v] = pc[v]
    BY <1>15 DEF Abandon, Lane
  <2>2. AttemptsLeft'
    BY <1>15, <2>1, LaneAssumption DEF Abandon, Lane, Requests, AttemptsLeft
  <2>3. KnownOnceSubmitted'
    BY <1>15, <2>1 DEF Abandon, Lane, Requests, KnownOnceSubmitted, NoRun
  <2>4. GivenUpIsCancelled'
    BY <1>15, <2>1 DEF Abandon, Lane, Requests, GivenUpIsCancelled, KnownOnceSubmitted, NoRun
  <2> QED
    BY <1>15, <2>2, <2>3, <2>4 DEF Abandon, Requests, NoRun
<1>16. ASSUME NEW u \in Users, PollAgain(u) PROVE Requests'
  <2>1. \A v \in Users \ {u} : pc'[v] = pc[v]
    BY <1>16 DEF PollAgain, Lane
  <2>2. AttemptsLeft'
    BY <1>16, <2>1, LaneAssumption DEF PollAgain, Lane, Requests, AttemptsLeft
  <2>3. KnownOnceSubmitted'
    BY <1>16, <2>1 DEF PollAgain, Lane, Requests, KnownOnceSubmitted, NoRun
  <2>4. GivenUpIsCancelled'
    BY <1>16, <2>1 DEF PollAgain, Lane, Requests, GivenUpIsCancelled, KnownOnceSubmitted, NoRun
  <2> QED
    BY <1>16, <2>2, <2>3, <2>4 DEF PollAgain, Requests, NoRun
<1>17. ASSUME NEW u \in Users, TripEnds(u) PROVE Requests'
  <2>1. PICK outcome \in {"ok", "failed"} : Finish(u, outcome)
    BY <1>17 DEF TripEnds
  <2>2. ~run[u].known /\ pc[u] \in Holding
    BY <1>17 DEF TripEnds, Requests, KnownOnceSubmitted, Holding
  <2> QED
    BY <1>17, <2>1, <2>2, FinishKeeps, SameRun, SameAttempt DEF TripEnds
<1>18. ASSUME NEW u \in Users, TripFails(u) PROVE Requests'
  <2>1. attempt[u] + 1 \in 0..Attempts /\ ~run[u].known /\ pc[u] \in Holding
    BY <1>18, LaneAssumption
    DEF TripFails, Requests, AttemptsLeft, KnownOnceSubmitted, Holding
  <2>2. CASE Finish(u, "failed")
    BY <1>18, <2>1, <2>2, FinishKeeps, SameRun DEF TripFails
  <2>3. CASE attempt[u] + 1 < Attempts /\ Release(u, "backoff") /\ UNCHANGED result
    <3>1. /\ pc'[u] = "backoff"
          /\ \A v \in Users \ {u} :
                \/ pc'[v] = pc[v]
                \/ pc[v] = "queued" /\ pc'[v] \in {"submit", "trip"}
      BY <2>1, <2>3, ReleaseMoves
    <3>2. AttemptsLeft'
      BY <1>18, <2>3, <3>1 DEF TripFails, Requests, AttemptsLeft
    <3>3. KnownOnceSubmitted' /\ GivenUpIsCancelled'
      BY <1>18, <2>1, <2>3, <3>1
      DEF TripFails, Requests, KnownOnceSubmitted, GivenUpIsCancelled
    <3> QED
      BY <1>18, <2>1, <2>3, <3>2, <3>3 DEF TripFails, Requests
  <2> QED
    BY <1>18, <2>2, <2>3 DEF TripFails
<1>19. ASSUME NEW u \in Users, SubmitFails(u) PROVE Requests'
  <2>1. PICK taken \in {NoRun, [NoRun EXCEPT !.state = "running"]} :
            run' = [run EXCEPT ![u] = taken]
    BY <1>19 DEF SubmitFails
  <2>2. taken \in [state : {"none", "running", "over"},
                   known : BOOLEAN, cancelled : BOOLEAN] /\ ~taken.known
    <3>1. CASE taken = NoRun
      BY <3>1 DEF NoRun
    <3>2. CASE taken = [NoRun EXCEPT !.state = "running"]
      <4>1. taken = [state |-> "running", known |-> FALSE, cancelled |-> FALSE]
        BY <3>2 DEF NoRun
      <4> QED
        BY <4>1
    <3> QED
      BY <3>1, <3>2
  <2>3. pc[u] \in Holding
    BY <1>19 DEF SubmitFails, Holding
  <2> QED
    BY <1>19, <2>1, <2>2, <2>3, FinishKeeps, SameAttempt DEF SubmitFails
<1>20. ASSUME NEW u \in Users, CancelSent(u) PROVE Requests'
  <2>1. PICK reached \in BOOLEAN :
            run' = [run EXCEPT ![u].cancelled = TRUE,
                               ![u].state = IF reached THEN "over" ELSE @]
    BY <1>20 DEF CancelSent
  <2> DEFINE r == [run[u] EXCEPT !.cancelled = TRUE,
                                 !.state = IF reached THEN "over" ELSE @]
  <2>2. /\ r \in [state : {"none", "running", "over"},
                  known : BOOLEAN, cancelled : BOOLEAN]
        /\ r.cancelled
    BY DEF Requests
  <2>3. run' = [run EXCEPT ![u] = r]
    BY <2>1 DEF Requests
  <2>4. pc[u] \in Holding
    BY <1>20 DEF CancelSent, Holding
  <2> HIDE DEF r
  <2> QED
    BY <1>20, <2>2, <2>3, <2>4, FinishKeeps, SameAttempt DEF CancelSent
<1>21. ASSUME NEW u \in Users, PollRefused(u) PROVE Requests'
  BY <1>21, FinishKeeps, SameRun, SameAttempt DEF PollRefused, Holding
<1>22. ASSUME NEW u \in Users, PollOver(u) PROVE Requests'
  <2>1. PICK outcome \in {"ok", "failed", "tooCostly"} : Finish(u, outcome)
    BY <1>22 DEF PollOver
  <2>2. run[u].state # "running" /\ pc[u] \in Holding
    BY <1>22 DEF PollOver, Holding
  <2> QED
    BY <1>22, <2>1, <2>2, FinishKeeps, SameRun, SameAttempt DEF PollOver
<1> QED
  BY <1>1, <1>2, <1>3, <1>4, <1>5, <1>6, <1>7, <1>8, <1>9, <1>10, <1>11, <1>12, <1>13, <1>14, <1>15, <1>16, <1>17, <1>18, <1>19, <1>20, <1>21, <1>22
  DEF Next, Request, Acquire, GraphQL, SQL

-----------------------------------------------------------------------------
(* The theorems.                                                           *)

\* The two parts are the invariant.
LEMMA InvParts == Inv <=> Lane /\ Requests
  BY DEF Inv, Lane, Requests, TypeOK

\* The initial state satisfies the invariant.
LEMMA InitInv == Init => Inv
<1> SUFFICES ASSUME Init PROVE Inv
  OBVIOUS
<1>1. Holders = {} /\ Waiters = {}
  BY DEF Init, Holders, Holding, Waiters
<1>2. Cardinality({}) = 0 /\ Cardinality(Users) \in Nat
  BY FS_EmptySet, FS_CardinalityType, LaneAssumption
<1>3. ToSet(queue) = {} /\ IsInjective(queue) /\ queue \in Seq(Users)
  BY DEF Init, ToSet, IsInjective
<1>4. SlotsAccountedFor
  BY <1>1, <1>2 DEF Init, SlotsAccountedFor, Waiters
<1>5. TypeOK
  BY <1>2, <1>3, LaneAssumption DEF Init, TypeOK, NoRun
<1>6. AttemptsLeft /\ KnownOnceSubmitted /\ GivenUpIsCancelled
  BY DEF Init, AttemptsLeft, KnownOnceSubmitted, GivenUpIsCancelled, NoRun
<1> QED
  BY <1>4, <1>5, <1>6 DEF Inv

\* Every step keeps the invariant.
LEMMA NextInv == Inv /\ [Next]_vars => Inv'
<1> SUFFICES ASSUME Inv, [Next]_vars PROVE Inv'
  OBVIOUS
<1>1. Lane /\ Requests
  BY InvParts
<1>2. Lane' /\ Requests'
  BY <1>1, NextLane, NextRequests
<1> QED
  BY <1>2 DEF Inv, Lane, Requests, TypeOK

\* Every reachable state satisfies the invariant.
THEOREM Invariant == Spec => []Inv
  BY InitInv, NextInv, PTL DEF Spec

\* indexerLane and its requests keep their types: the lane is never over its
\* capacity, and a sender is queued exactly while it waits in the select.
THEOREM TypeCorrect == Spec => []TypeOK
<1>1. Inv => TypeOK
  BY DEF Inv
<1> QED
  BY <1>1, Invariant, PTL

\* For any number of requests and any capacity, a slot is in use for each
\* request inside a round trip or a statement and for no other, waiting counts
\* the callers blocked in acquire, and nobody queues while a slot is free.
THEOREM SlotsExact == Spec => []SlotsAccountedFor
<1>1. Inv => SlotsAccountedFor
  BY DEF Inv
<1> QED
  BY <1>1, Invariant, PTL

\* For any number of requests, executeSQL gives its slot back only once the
\* execution it knows of and gives up on has been sent a cancellation.
THEOREM CancelledFirst == Spec => []GivenUpIsCancelled
<1>1. Inv => GivenUpIsCancelled
  BY DEF Inv
<1> QED
  BY <1>1, Invariant, PTL
=============================================================================
