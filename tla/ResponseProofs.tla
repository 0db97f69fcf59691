----------------------------- MODULE ResponseProofs -----------------------------
(***************************************************************************)
(* What a response says an account owns: the holdings it lists             *)
(* (WalletHoldings) and what they are worth (Pricing).  The wallet is      *)
(* proved for any scans, accounts, tokens, answers of a provider that      *)
(* keeps its contract and adapters that declare what they consumed: no     *)
(* amount comes from elsewhere, a historical wallet without an error or a  *)
(* note is exact, nothing is dropped in silence, and nothing is counted    *)
(* twice.  Its valuation is proved for any snapshots, quotes and answers   *)
(* of the price provider: each holding has its value or is explained, and  *)
(* the totals are the sums of their parts, by induction over finite sets.  *)
(***************************************************************************)
EXTENDS WalletHoldings, Pricing, FiniteSetTheorems, SequenceTheorems, TLAPS

-----------------------------------------------------------------------------
(* Sequences.                                                              *)

\* The members of a finite set of numbers have ranks from 1 to their number, each
\* its own.
Rank(S, i) == Cardinality({j \in S : j <= i})
Ranks(S) ==
    /\ Cardinality(S) \in Nat
    /\ \A i \in S : Rank(S, i) \in 1..Cardinality(S)
    /\ \A i, j \in S : Rank(S, i) = Rank(S, j) => i = j
    /\ \A k \in 1..Cardinality(S) : \E i \in S : Rank(S, i) = k

LEMMA Ranking ==
    ASSUME NEW S \in SUBSET Nat, IsFiniteSet(S)
    PROVE  Ranks(S)
<1> DEFINE n == Cardinality(S)
           upTo(i) == {j \in S : j <= i}
<1>1. n \in Nat
  BY FS_CardinalityType
<1>2. \A i : Rank(S, i) = Cardinality(upTo(i))
  BY DEF Rank
<1>3. ASSUME NEW i \in S PROVE Rank(S, i) \in 1..n /\ IsFiniteSet(upTo(i))
  <2>1. IsFiniteSet(upTo(i)) /\ Cardinality(upTo(i)) <= n
    BY FS_Subset
  <2>2. Cardinality(upTo(i)) \in Nat
    BY <2>1, FS_CardinalityType
  <2>3. i \in upTo(i)
    OBVIOUS
  <2>4. Cardinality(upTo(i)) # 0
    BY <2>1, <2>3, FS_EmptySet
  <2> QED
    BY <1>1, <1>2, <2>1, <2>2, <2>4
<1>4. ASSUME NEW i \in S, NEW j \in S, i < j PROVE Rank(S, i) # Rank(S, j)
  <2>1. \A k \in S : k \in Nat
    OBVIOUS
  <2>2. upTo(i) \in SUBSET upTo(j) /\ j \in upTo(j) /\ j \notin upTo(i)
    <3>1. ASSUME NEW k \in S, k <= i PROVE k <= j
      BY <1>4, <2>1, <3>1
    <3>2. j <= j /\ ~(j <= i)
      BY <1>4, <2>1
    <3>3. upTo(i) \in SUBSET upTo(j)
      BY <3>1
    <3> QED
      BY <3>2, <3>3
  <2>3. Cardinality(upTo(i)) = Cardinality(upTo(j)) => upTo(i) = upTo(j)
    BY <1>3, <2>2, FS_Subset
  <2> QED
    BY <1>2, <2>2, <2>3
<1>5. \A i, j \in S : Rank(S, i) = Rank(S, j) => i = j
  <2> SUFFICES ASSUME NEW i \in S, NEW j \in S, Rank(S, i) = Rank(S, j), i # j PROVE FALSE
    OBVIOUS
  <2>1. i < j \/ j < i
    OBVIOUS
  <2> QED
    BY <1>4, <2>1
<1>6. \A k \in 1..n : \E i \in S : Rank(S, i) = k
  <2> DEFINE f == [i \in S |-> Rank(S, i)]
  <2>1. f \in Injection(S, 1..n)
    BY <1>3, <1>5 DEF Injection, IsInjective
  <2>2. IsFiniteSet(1..n) /\ Cardinality(1..n) = n
    BY <1>1, FS_Interval
  <2>3. f \in Surjection(S, 1..n)
    BY <2>1, <2>2, FS_Injection
  <2> QED
    BY <2>3 DEF Surjection
<1> QED
  BY <1>1, <1>3, <1>5, <1>6 DEF Ranks

\* The members chosen from a sequence are those at the positions, none more.
LEMMA ChosenMembers ==
    ASSUME NEW S, NEW q \in Seq(S), NEW at \in SUBSET (1..Len(q))
    PROVE  /\ Chosen(q, at) \in Seq(S)
           /\ \A i \in at : q[i] \in ToSet(Chosen(q, at))
           /\ \A x \in ToSet(Chosen(q, at)) : \E i \in at : x = q[i]
<1> DEFINE n == Cardinality(at)
           place(k) == CHOOSE i \in at : Rank(at, i) = k
           c == [k \in 1..n |-> q[place(k)]]
<1>1. Len(q) \in Nat /\ \A i \in 1..Len(q) : q[i] \in S
  BY ElementOfSeq
<1>2. Ranks(at)
  <2>1. IsFiniteSet(1..Len(q))
    BY <1>1, FS_Interval
  <2>2. IsFiniteSet(at)
    BY <2>1, FS_Subset
  <2>3. \A i \in at : i \in Nat
    BY <1>1
  <2> QED
    BY <2>2, <2>3, Ranking
<1>3. \A k \in 1..n : place(k) \in at /\ Rank(at, place(k)) = k
  BY <1>2 DEF Ranks
<1>4. \A i \in at : Rank(at, i) \in 1..n /\ place(Rank(at, i)) = i
  BY <1>2, <1>3 DEF Ranks
<1>5. n \in Nat
  BY <1>2 DEF Ranks
<1>6. Chosen(q, at) = c
  BY DEF Chosen, Rank
<1> HIDE DEF place, n
<1>7. c \in Seq(S)
  <2>1. \A k \in 1..n : q[place(k)] \in S
    BY <1>1, <1>3
  <2> QED
    BY <1>5, <2>1, IsASeq
<1>8. ASSUME NEW i \in at PROVE q[i] \in ToSet(c)
  <2>1. Rank(at, i) \in DOMAIN c /\ c[Rank(at, i)] = q[i]
    BY <1>4
  <2> QED
    BY <2>1 DEF ToSet
<1>9. ASSUME NEW x \in ToSet(c) PROVE \E i \in at : x = q[i]
  BY <1>3 DEF ToSet
<1> QED
  BY <1>6, <1>7, <1>8, <1>9

\* The members of a sequence are its head and those of its tail.
LEMMA HeadAndTail ==
    ASSUME NEW S, NEW q \in Seq(S), q # <<>>
    PROVE  /\ Head(q) \in S /\ Head(q) \in ToSet(q)
           /\ Tail(q) \in Seq(S)
           /\ \A x \in ToSet(q) : x = Head(q) \/ x \in ToSet(Tail(q))
           /\ \A x \in ToSet(Tail(q)) : x \in ToSet(q)
           /\ Tail(q) = <<>> <=> Len(q) = 1
<1>1. /\ Len(q) \in Nat \ {0} /\ DOMAIN q = 1..Len(q)
      /\ Head(q) \in S /\ Head(q) = q[1] /\ Tail(q) \in Seq(S)
      /\ Len(Tail(q)) = Len(q) - 1 /\ \A i \in 1..Len(Tail(q)) : Tail(q)[i] = q[i + 1]
  BY EmptySeq, LenProperties, HeadTailProperties
<1>2. DOMAIN Tail(q) = 1..(Len(q) - 1)
  BY <1>1
<1>3. ASSUME NEW i \in 1..Len(q), i # 1 PROVE q[i] \in ToSet(Tail(q))
  <2>1. i - 1 \in DOMAIN Tail(q) /\ Tail(q)[i - 1] = q[i]
    BY <1>1, <1>2, <1>3
  <2> QED
    BY <2>1 DEF ToSet
<1>4. ASSUME NEW i \in DOMAIN Tail(q) PROVE Tail(q)[i] \in ToSet(q)
  <2>1. i + 1 \in DOMAIN q /\ Tail(q)[i] = q[i + 1]
    BY <1>1, <1>2
  <2> QED
    BY <2>1 DEF ToSet
<1>5. Tail(q) = <<>> <=> Len(q) = 1
  <2>1. Tail(q) = <<>> <=> Len(Tail(q)) = 0
    BY <1>1, EmptySeq
  <2> QED
    BY <1>1, <2>1
<1>6. ToSet(q) = {q[i] : i \in 1..Len(q)}
  BY <1>1 DEF ToSet
<1>7. Head(q) \in ToSet(q)
  BY <1>1, <1>6
<1>8. ASSUME NEW x \in ToSet(q) PROVE x = Head(q) \/ x \in ToSet(Tail(q))
  BY <1>1, <1>3, <1>6
<1>9. ASSUME NEW x \in ToSet(Tail(q)) PROVE x \in ToSet(q)
  BY <1>4 DEF ToSet
<1> QED
  BY <1>1, <1>5, <1>7, <1>8, <1>9
-----------------------------------------------------------------------------
(* The inductive invariant.                                                *)

Asking == {"none", "asks"}
Within == {"native", "code", "balances", "row", "metadata"}
Reading == {"account", "read", "over"} \cup Within

Says == {"amount", "discovered", "reverted", "empty", "error"}
\* A row of an answer.
Typed(r) == r.amount \in Int /\ r.complete \in BOOLEAN /\ r.token \in Assets \cup {ZeroAddress}

Rows == [token : Assets, complete : BOOLEAN, says : Says, amount : Int]

Domains ==
    /\ DOMAIN pc = Scans /\ DOMAIN answer = Scans /\ DOMAIN found = Scans
    /\ DOMAIN errors = Scans /\ DOMAIN coverage = Scans /\ DOMAIN left = Scans
    /\ DOMAIN rows = Scans /\ DOMAIN groups = Scans /\ DOMAIN failed = Scans
    /\ DOMAIN skipped = Scans /\ DOMAIN running = Scans /\ DOMAIN counted = Scans
    /\ DOMAIN shown = Scans

\* A scan that has read nothing.
Blank(s) ==
    pc[s] \in Asking => /\ found[s] = <<>> /\ left[s] = Accounts /\ rows[s] = <<>>
                        /\ groups[s] = {} /\ skipped[s] = {}

\* The accounts to read, the one being read first, and its rows.
Positioned(s) ==
    /\ pc[s] \in Asking \cup Reading
    /\ pc[s] = "asks" => answer[s] # NoScan
    /\ answer[s] \in {x[s].answer : x \in Encounters}
    /\ left[s] \in Seq(AccountSet)
    /\ pc[s] \in Within \cup {"account"} => left[s] # <<>>
    /\ rows[s] \in Seq(Rows)
    /\ pc[s] = "account" => rows[s] = <<>>
    /\ pc[s] \in Within \ {"native"} => rows[s] # <<>>

\* Amounts that account a is read with come from an honest entry of the answer.
Vouched(s, a) ==
    \E c \in ToSet(answer[s].chains) : \E e \in ToSet(c.accounts) :
        /\ e.account = a /\ e.rows = found[s][a].rows /\ ~e.discoveryOnly
        /\ c.block.chain = Chain /\ BlockOf(c, e).chain = Chain
        /\ AmountsUsable(BlockOf(c, e), Pin[s])
        /\ Honest(s, c, e)

\* What was made of the answer: what is missing from it is said.
Discovered(s) ==
    /\ DOMAIN found[s] \subseteq AccountSet
    /\ \A a \in DOMAIN found[s] :
          /\ found[s][a].rows \in Seq(ToSet(found[s][a].rows))
          /\ \A r \in ToSet(found[s][a].rows) : Typed(r)
          /\ found[s][a].direct => Vouched(s, a)
    /\ pc[s] \in Reading =>
          /\ \A a \in AccountSet \ DOMAIN found[s] : errors[s] \/ coverage[s]
          /\ Pin[s].fixed /\ ~coverage[s] => \A a \in DOMAIN found[s] : found[s][a].direct

\* n is the balance of t that account a may be shown with.
Right(s, a, t, n) ==
    \/ n = Held[Pin[s].hash][a][t]
    \/ /\ a \in DOMAIN found[s] /\ found[s][a].direct
       /\ \E r \in ToSet(found[s][a].rows) : r.chain = Chain /\ r.token = t /\ r.amount = n

\* A holding of an account of the scan, with a balance of it.
Owned(s, g) ==
    /\ g.amount \in Nat \ {0}
    /\ \E a \in AccountSet, t \in Assets :
          /\ g = [stamp |-> Stamp(a), token |-> t, amount |-> g.amount]
          /\ Right(s, a, t, g.amount)

GroupsOwned(s) == \A g \in groups[s] : Owned(s, g)

\* A row of account a being read, before its balances are and after.
Fits(s, a, where, r) ==
    /\ where \in {"native", "code", "balances"} => r.says = "discovered" /\ r.token # Native
    /\ where \in {"row", "metadata"} =>
          /\ r.says # "discovered"
          /\ r.says = "reverted" => r.token \in Reverting[Pin[s].hash]
          /\ r.says = "amount" =>
                r.amount \in Nat /\ (r.amount > 0 => Right(s, a, r.token, r.amount))

Rowed(s) ==
    /\ pc[s] \in {"native", "code", "balances"} =>
          ~(Current(s) \in DOMAIN found[s] /\ found[s][Current(s)].direct)
    /\ pc[s] \in Within => \A r \in ToSet(rows[s]) : Fits(s, Current(s), pc[s], r)
    /\ pc[s] = "metadata" => Head(rows[s]).says = "amount" /\ Head(rows[s]).amount > 0

\* Token t of account a is reported, or its absence is.
Settled(s, a, t) == Worth(s, a, t) => Has(s, a, t) \/ a \in failed[s] \/ t \in skipped[s]

\* A row that will be settled by name.
Promising(r) == r.says \in {"discovered", "error", "reverted"} \/ (r.says = "amount" /\ r.amount > 0)

\* Token t of the account being read is still to be settled.
Pending(s, t) ==
    \/ pc[s] = "native" /\ t = Native
    \/ \E r \in ToSet(rows[s]) : r.token = t /\ Promising(r)

Progress(s) ==
    /\ pc[s] \in {"read", "over"} => \A a \in AccountSet, t \in Assets : Settled(s, a, t)
    /\ pc[s] = "account" =>
          \A a \in AccountSet \ ToSet(left[s]), t \in Assets : Settled(s, a, t)
    /\ pc[s] \in Within =>
          /\ \A a \in AccountSet \ ToSet(left[s]), t \in Assets : Settled(s, a, t)
          /\ \A t \in Assets : Settled(s, Current(s), t) \/ Pending(s, t)
                                \/ Current(s) \in ToSet(Tail(left[s]))

\* The protocols beside the wallet, and what the response shows of both.
Beside(s) ==
    /\ running[s] \cup counted[s] \subseteq UNION {x[s].components : x \in Encounters}
    /\ pc[s] = "over" => running[s] = {} /\ shown[s] = {g \in groups[s] : ~Duplicate(s, g)}

Local(s) ==
    /\ Blank(s) /\ Positioned(s) /\ Discovered(s) /\ GroupsOwned(s) /\ Rowed(s)
    /\ Progress(s) /\ Beside(s)

Inv == Domains /\ OnlyRevertedSkipped /\ \A s \in Scans : Local(s)

-----------------------------------------------------------------------------
(* Rows: the operators that pick them, for any sequence of a provider.     *)

\* The blocklist takes away rows of its tokens and no others.
LEMMA UnblockedRows ==
    ASSUME NEW S, NEW rs \in Seq(S), NEW gone
    PROVE  /\ Unblocked(rs, gone) \in Seq(S)
           /\ \A r \in ToSet(Unblocked(rs, gone)) : r \in ToSet(rs)
           /\ \A r \in ToSet(rs) : r \in ToSet(Unblocked(rs, gone))
                                     \/ (r.chain = Chain /\ r.token \in gone)
<1> DEFINE at == {i \in DOMAIN rs : rs[i].chain = Chain => rs[i].token \notin gone}
<1>1. DOMAIN rs = 1..Len(rs) /\ Unblocked(rs, gone) = Chosen(rs, at)
  BY DEF Unblocked
<1>2. at \in SUBSET (1..Len(rs))
  BY <1>1
<1>3. ToSet(rs) = {rs[i] : i \in DOMAIN rs}
  BY DEF ToSet
<1>4. /\ Chosen(rs, at) \in Seq(S)
      /\ \A i \in at : rs[i] \in ToSet(Chosen(rs, at))
      /\ \A x \in ToSet(Chosen(rs, at)) : \E i \in at : x = rs[i]
  BY <1>2, ChosenMembers
<1> QED
  BY <1>1, <1>3, <1>4

\* The rows of amounts: each stands for a row of the entry, and a row is left out
\* only with a fault.
LEMMA DirectRowsOf ==
    ASSUME NEW S, NEW rs \in Seq(S), \A r \in S : Typed(r)
    PROVE  /\ DirectRows(rs) \in Seq(Rows)
           /\ \A k \in ToSet(DirectRows(rs)) :
                 /\ k.says = "amount" /\ k.amount > 0 /\ k.token \in Assets
                 /\ \E r \in ToSet(rs) :
                       r.chain = Chain /\ r.token = k.token /\ r.amount = k.amount
           /\ ~DirectFault(rs) =>
                 \A r \in ToSet(rs) : r.amount > 0 =>
                    \E k \in ToSet(DirectRows(rs)) : k.token = r.token /\ k.amount = r.amount
<1> DEFINE at == Usable(rs)
           kept == Chosen(rs, at)
           out == [i \in DOMAIN kept |-> Row(kept[i], "amount", kept[i].amount)]
<1>1. DOMAIN rs = 1..Len(rs) /\ DirectRows(rs) = out
  BY DEF DirectRows
<1>2. /\ at \in SUBSET (1..Len(rs))
      /\ \A i \in at : rs[i].amount > 0 /\ rs[i].chain = Chain /\ rs[i].token # ZeroAddress
  BY <1>1 DEF Usable, FirstOf, Positive
<1>3. /\ kept \in Seq(S)
      /\ \A i \in at : rs[i] \in ToSet(kept)
      /\ \A x \in ToSet(kept) : \E i \in at : x = rs[i]
  BY <1>2, ChosenMembers
<1>4. ToSet(rs) = {rs[i] : i \in 1..Len(rs)} /\ \A i \in 1..Len(rs) : Typed(rs[i])
  BY <1>1, ElementOfSeq DEF ToSet
<1> HIDE DEF at, kept
<1>5. /\ DOMAIN kept = 1..Len(kept) /\ Len(kept) \in Nat
      /\ ToSet(kept) = {kept[i] : i \in 1..Len(kept)}
  BY <1>3 DEF ToSet
<1>6. /\ DOMAIN out = 1..Len(kept)
      /\ ToSet(out) = {Row(kept[i], "amount", kept[i].amount) : i \in 1..Len(kept)}
  BY <1>5 DEF ToSet
<1>7. ASSUME NEW i \in 1..Len(kept)
      PROVE  /\ kept[i].amount > 0 /\ kept[i].token \in Assets /\ Typed(kept[i])
             /\ \E r \in ToSet(rs) :
                   r.chain = Chain /\ r.token = kept[i].token /\ r.amount = kept[i].amount
  <2>1. PICK j \in at : kept[i] = rs[j]
    BY <1>3, <1>5
  <2> QED
    BY <1>2, <1>4, <2>1 DEF Typed
<1>8. ASSUME NEW i \in 1..Len(kept)
      PROVE  LET k == Row(kept[i], "amount", kept[i].amount)
             IN  /\ k \in Rows /\ k.says = "amount" /\ k.token = kept[i].token
                 /\ k.amount = kept[i].amount
  BY <1>7 DEF Row, Rows, Says, Typed
<1>9. out \in Seq(Rows)
  <2>1. \A i \in 1..Len(kept) : Row(kept[i], "amount", kept[i].amount) \in Rows
    BY <1>8
  <2> HIDE DEF Rows
  <2> QED
    BY <1>5, <2>1, IsASeq
<1>10. ASSUME NEW k \in ToSet(out)
       PROVE  /\ k.says = "amount" /\ k.amount > 0 /\ k.token \in Assets
              /\ \E r \in ToSet(rs) :
                    r.chain = Chain /\ r.token = k.token /\ r.amount = k.amount
  <2>1. PICK i \in 1..Len(kept) : k = Row(kept[i], "amount", kept[i].amount)
    BY <1>6
  <2> QED
    BY <1>7, <1>8, <2>1
<1>11. ASSUME ~DirectFault(rs), NEW r \in ToSet(rs), r.amount > 0
       PROVE  \E k \in ToSet(out) : k.token = r.token /\ k.amount = r.amount
  <2>1. PICK j \in 1..Len(rs) : r = rs[j]
    BY <1>4
  <2>2. j \in at
    BY <1>1, <1>11, <2>1 DEF DirectFault, Positive, at
  <2>3. PICK i \in 1..Len(kept) : kept[i] = r
    BY <1>3, <1>5, <2>1, <2>2
  <2>4. Row(kept[i], "amount", kept[i].amount) \in ToSet(out)
    BY <1>6
  <2> QED
    BY <1>8, <2>3, <2>4
<1> QED
  BY <1>1, <1>9, <1>10, <1>11

\* The rows of candidates, likewise: only the native coin's are left out.
LEMMA CandidateRowsOf ==
    ASSUME NEW S, NEW rs \in Seq(S), \A r \in S : Typed(r)
    PROVE  /\ CandidateRows(rs) \in Seq(Rows)
           /\ \A k \in ToSet(CandidateRows(rs)) :
                 k.says = "discovered" /\ k.token \in Assets /\ k.token # Native
           /\ ~DiscoveredFault(rs) =>
                 \A r \in ToSet(rs) : r.token # Native =>
                    \E k \in ToSet(CandidateRows(rs)) : k.token = r.token
<1> DEFINE at == Candidates(rs)
           kept == Chosen(rs, at)
           out == [i \in DOMAIN kept |-> Row(kept[i], "discovered", 0)]
<1>1. DOMAIN rs = 1..Len(rs) /\ CandidateRows(rs) = out
  BY DEF CandidateRows
<1>2. /\ at \in SUBSET (1..Len(rs))
      /\ \A i \in at : rs[i].token # Native /\ rs[i].token # ZeroAddress
  BY <1>1 DEF Candidates, FirstOf, NotNative
<1>3. /\ kept \in Seq(S)
      /\ \A i \in at : rs[i] \in ToSet(kept)
      /\ \A x \in ToSet(kept) : \E i \in at : x = rs[i]
  BY <1>2, ChosenMembers
<1>4. ToSet(rs) = {rs[i] : i \in 1..Len(rs)} /\ \A i \in 1..Len(rs) : Typed(rs[i])
  BY <1>1, ElementOfSeq DEF ToSet
<1> HIDE DEF at, kept
<1>5. /\ DOMAIN kept = 1..Len(kept) /\ Len(kept) \in Nat
      /\ ToSet(kept) = {kept[i] : i \in 1..Len(kept)}
  BY <1>3 DEF ToSet
<1>6. ToSet(out) = {Row(kept[i], "discovered", 0) : i \in 1..Len(kept)}
  BY <1>5 DEF ToSet
<1>7. ASSUME NEW i \in 1..Len(kept)
      PROVE  kept[i].token \in Assets /\ kept[i].token # Native /\ Typed(kept[i])
  <2>1. PICK j \in at : kept[i] = rs[j]
    BY <1>3, <1>5
  <2> QED
    BY <1>2, <1>4, <2>1 DEF Typed
<1>8. ASSUME NEW i \in 1..Len(kept)
      PROVE  LET k == Row(kept[i], "discovered", 0)
             IN  k \in Rows /\ k.says = "discovered" /\ k.token = kept[i].token
  BY <1>7 DEF Row, Rows, Says, Typed
<1>9. out \in Seq(Rows)
  <2>1. \A i \in 1..Len(kept) : Row(kept[i], "discovered", 0) \in Rows
    BY <1>8
  <2> HIDE DEF Rows
  <2> QED
    BY <1>5, <2>1, IsASeq
<1>10. ASSUME NEW k \in ToSet(out)
       PROVE  k.says = "discovered" /\ k.token \in Assets /\ k.token # Native
  <2>1. PICK i \in 1..Len(kept) : k = Row(kept[i], "discovered", 0)
    BY <1>6
  <2> QED
    BY <1>7, <1>8, <2>1
<1>11. ASSUME ~DiscoveredFault(rs), NEW r \in ToSet(rs), r.token # Native
       PROVE  \E k \in ToSet(out) : k.token = r.token
  <2>1. PICK j \in 1..Len(rs) : r = rs[j]
    BY <1>4
  <2>2. j \in at
    BY <1>1, <1>11, <2>1 DEF DiscoveredFault, NotNative, at
  <2>3. PICK i \in 1..Len(kept) : kept[i] = r
    BY <1>3, <1>5, <2>1, <2>2
  <2>4. Row(kept[i], "discovered", 0) \in ToSet(out)
    BY <1>6
  <2> QED
    BY <1>8, <2>3, <2>4
<1> QED
  BY <1>1, <1>9, <1>10, <1>11

-----------------------------------------------------------------------------
(* What a step leaves alone.                                               *)

Mine(s) ==
    <<pc[s], answer[s], found[s], errors[s], coverage[s], left[s], rows[s], groups[s],
      failed[s], skipped[s], running[s], counted[s], shown[s]>>

\* What the wallet has read stays good while the protocols beside it end, and
\* when the response is made.
LEMMA WalletStays ==
    ASSUME NEW s \in Scans, Local(s), Beside(s)',
           pc'[s] = pc[s] \/ (pc[s] = "read" /\ pc'[s] = "over"),
           answer'[s] = answer[s], found'[s] = found[s], errors'[s] = errors[s],
           coverage'[s] = coverage[s], left'[s] = left[s], rows'[s] = rows[s],
           groups'[s] = groups[s], failed'[s] = failed[s], skipped'[s] = skipped[s]
    PROVE  Local(s)'
<1>1. Blank(s)'
  BY DEF Local, Blank, Asking
<1>2. Positioned(s)'
  BY DEF Local, Positioned, Asking, Reading, Within
<1>3. Discovered(s)'
  <2>1. ASSUME NEW a PROVE Vouched(s, a) => Vouched(s, a)'
    BY DEF Vouched
  <2> QED
    BY <2>1 DEF Local, Discovered, Reading
<1>4. ASSUME NEW a, NEW t, NEW n PROVE Right(s, a, t, n)' = Right(s, a, t, n)
  BY DEF Right
<1>5. GroupsOwned(s)'
  BY <1>4 DEF Local, GroupsOwned, Owned
<1>6. Rowed(s)'
  BY <1>4 DEF Local, Rowed, Fits, Current, Within
<1>7. Progress(s)'
  <2>1. ASSUME NEW a, NEW t PROVE Settled(s, a, t) => Settled(s, a, t)'
    BY DEF Settled, Worth, Has
  <2>2. ASSUME NEW t PROVE pc'[s] = pc[s] /\ Pending(s, t) => Pending(s, t)'
    BY DEF Pending
  <2> QED
    BY <2>1, <2>2 DEF Local, Progress, Current, Within
<1> QED
  BY <1>1, <1>2, <1>3, <1>5, <1>6, <1>7 DEF Local

\* A scan keeps its invariant in a step that changes nothing of it.
LEMMA Unchanged ==
    ASSUME NEW s \in Scans, Local(s), UNCHANGED Mine(s)
    PROVE  Local(s)'
<1>1. /\ pc'[s] = pc[s] /\ answer'[s] = answer[s] /\ found'[s] = found[s]
      /\ errors'[s] = errors[s] /\ coverage'[s] = coverage[s] /\ left'[s] = left[s]
      /\ rows'[s] = rows[s] /\ groups'[s] = groups[s] /\ failed'[s] = failed[s]
      /\ skipped'[s] = skipped[s] /\ running'[s] = running[s]
      /\ counted'[s] = counted[s] /\ shown'[s] = shown[s]
  BY DEF Mine
<1>2. Beside(s)'
  BY <1>1 DEF Local, Beside, Duplicate, HeldOf
<1> QED
  BY <1>1, <1>2, WalletStays

\* A step of one scan changes nothing of another.
LEMMA OneScan ==
    ASSUME NEW s \in Scans, Domains, ScanStep(s)
    PROVE  Domains' /\ \A u \in Scans \ {s} : UNCHANGED Mine(u)
<1> USE DEF Domains, Mine, foundVars, protocolVars, shared
<1>1. CASE Discover(s)
  BY <1>1 DEF Discover
<1>2. CASE StartDirect(s)
  BY <1>2 DEF StartDirect, MarkFailed, AccountFails, GoOn, NextAccount
<1>3. CASE StartDiscovered(s)
  BY <1>3 DEF StartDiscovered, MarkFailed, AccountFails
<1>4. CASE StartBare(s)
  BY <1>4 DEF StartBare
<1>5. CASE ReadNative(s)
  BY <1>5 DEF ReadNative, AddGroup, AfterNative, GoOn, NextAccount
<1>6. CASE NativeFails(s)
  BY <1>6 DEF NativeFails, AccountFails, AfterNative, GoOn, NextAccount
<1>7. CASE ReadCode(s)
  BY <1>7 DEF ReadCode, GoOn, NextAccount
<1>8. CASE ReadBalances(s)
  BY <1>8 DEF ReadBalances
<1>9. CASE BatchFails(s)
  BY <1>9 DEF BatchFails, AccountFails, NextAccount
<1>10. CASE RowEmpty(s)
  BY <1>10 DEF RowEmpty, RowDone, GoOn, NextAccount
<1>11. CASE RowFails(s)
  BY <1>11 DEF RowFails, AccountFails, RowDone, GoOn, NextAccount
<1>12. CASE RowReverts(s)
  BY <1>12 DEF RowReverts, BlockReverted, RowDone, GoOn, NextAccount
<1>13. CASE RowKnown(s)
  BY <1>13 DEF RowKnown, AddGroup, RowDone, GoOn, NextAccount
<1>14. CASE RowUnknown(s)
  BY <1>14 DEF RowUnknown
<1>15. CASE ReadToken(s)
  BY <1>15 DEF ReadToken, AddGroup, RowDone, GoOn, NextAccount
<1>16. CASE ReadTokenReverts(s)
  BY <1>16 DEF ReadTokenReverts, BlockReverted, RowDone, GoOn, NextAccount
<1>17. CASE ReadTokenFails(s)
  BY <1>17 DEF ReadTokenFails, AccountFails, RowDone, GoOn, NextAccount
<1>18. CASE AdapterEnds(s)
  BY <1>18 DEF AdapterEnds
<1>19. CASE Suppress(s)
  BY <1>19 DEF Suppress
<1> QED
  BY <1>1, <1>2, <1>3, <1>4, <1>5, <1>6, <1>7, <1>8, <1>9, <1>10, <1>11, <1>12, <1>13,
     <1>14, <1>15, <1>16, <1>17, <1>18, <1>19 DEF ScanStep, ReadStep, RowStep

\* The row being handled, and those after it.
LEMMA FirstRow ==
    ASSUME NEW s \in Scans, Local(s), pc[s] \in {"row", "metadata"}
    PROVE  /\ Head(rows[s]) \in Rows /\ Head(rows[s]) \in ToSet(rows[s])
           /\ Tail(rows[s]) \in Seq(Rows)
           /\ \A r \in ToSet(rows[s]) : r = Head(rows[s]) \/ r \in ToSet(Tail(rows[s]))
           /\ \A r \in ToSet(Tail(rows[s])) : r \in ToSet(rows[s])
<1>1. rows[s] \in Seq(Rows) /\ rows[s] # <<>>
  BY DEF Local, Positioned, Within
<1> HIDE DEF Rows
<1> QED
  BY <1>1, HeadAndTail

\* A scan lists a token, or leaves it out, only on a revert.
LEMMA SkipsReverted ==
    ASSUME NEW s \in Scans, Domains, OnlyRevertedSkipped, Local(s), ScanStep(s)
    PROVE  OnlyRevertedSkipped'
<1>1. \A u \in Scans \ {s} : skipped'[u] = skipped[u]
  BY OneScan DEF Mine
<1> SUFFICES (\A t \in listed' : Reverts(t)) /\ (\A t \in skipped'[s] : Reverts(t))
  BY <1>1 DEF OnlyRevertedSkipped, Reverts
<1>2. (\A t \in listed : Reverts(t)) /\ (\A t \in skipped[s] : Reverts(t))
  BY DEF OnlyRevertedSkipped
<1>3. CASE skipped' = skipped /\ listed' = listed
  BY <1>2, <1>3
<1>4. ASSUME NEW t, Reverts(t), BlockReverted(s, t)
      PROVE  (\A x \in listed' : Reverts(x)) /\ (\A x \in skipped'[s] : Reverts(x))
  <2>1. skipped'[s] = skipped[s] \cup {t}
    BY <1>4 DEF BlockReverted, Domains
  <2>2. listed' = listed \/ listed' = listed \cup {t}
    BY <1>4 DEF BlockReverted
  <2> QED
    BY <1>2, <1>4, <2>1, <2>2
<1>5. ASSUME NEW gone, gone = {} \/ gone = Blocked(found[s][Current(s)].rows),
             skipped' = [skipped EXCEPT ![s] = @ \cup gone], listed' = listed
      PROVE  (\A x \in listed' : Reverts(x)) /\ (\A x \in skipped'[s] : Reverts(x))
  <2>1. gone \subseteq listed
    BY <1>5 DEF Blocked
  <2>2. skipped'[s] = skipped[s] \cup gone
    BY <1>5 DEF Domains
  <2> QED
    BY <1>2, <1>5, <2>1, <2>2
<1>6. CASE StartDirect(s)
  <2>1. \E gone : (gone = {} \/ gone = Blocked(found[s][Current(s)].rows))
                  /\ skipped' = [skipped EXCEPT ![s] = @ \cup gone] /\ listed' = listed
    BY <1>6 DEF StartDirect, shared
  <2> QED
    BY <1>5, <2>1
<1>7. CASE StartDiscovered(s)
  <2>1. \E gone : (gone = {} \/ gone = Blocked(found[s][Current(s)].rows))
                  /\ skipped' = [skipped EXCEPT ![s] = @ \cup gone] /\ listed' = listed
    BY <1>7 DEF StartDiscovered, shared
  <2> QED
    BY <1>5, <2>1
<1>8. CASE RowReverts(s)
  <2>1. Reverts(TokenOf(s))
    BY <1>8, FirstRow DEF RowReverts, RowSays, Local, Rowed, Fits, Within, Reverts, TokenOf
  <2> QED
    BY <1>4, <1>8, <2>1 DEF RowReverts
<1>9. CASE ReadTokenReverts(s)
  BY <1>4, <1>9 DEF ReadTokenReverts, Reverts
<1>10. CASE Discover(s) \/ StartBare(s) \/ ReadNative(s) \/ NativeFails(s) \/ ReadCode(s)
            \/ ReadBalances(s) \/ BatchFails(s)
  BY <1>3, <1>10 DEF Discover, StartBare, ReadNative, NativeFails, ReadCode, ReadBalances,
     BatchFails, shared
<1>11. CASE RowEmpty(s) \/ RowFails(s) \/ RowKnown(s) \/ RowUnknown(s) \/ ReadToken(s)
            \/ ReadTokenFails(s) \/ AdapterEnds(s) \/ Suppress(s)
  BY <1>3, <1>11 DEF RowEmpty, RowFails, RowKnown, RowUnknown, ReadToken, ReadTokenFails,
     AdapterEnds, Suppress, shared
<1> QED
  BY <1>6, <1>7, <1>8, <1>9, <1>10, <1>11 DEF ScanStep, ReadStep, RowStep

-----------------------------------------------------------------------------
(* Reading the accounts.                                                   *)

\* A step of the wallet's reading only adds to what it has read.
Reads(s) ==
    /\ pc[s] \in Within \cup {"account"} /\ pc'[s] \in Within \cup {"account", "read"}
    /\ answer'[s] = answer[s] /\ found'[s] = found[s] /\ errors'[s] = errors[s]
    /\ coverage'[s] = coverage[s] /\ running'[s] = running[s]
    /\ counted'[s] = counted[s] /\ shown'[s] = shown[s]
    /\ groups[s] \subseteq groups'[s] /\ failed[s] \subseteq failed'[s]
    /\ skipped[s] \subseteq skipped'[s]

\* What such a step keeps.
LEMMA ReadsKeep ==
    ASSUME NEW s \in Scans, Local(s), Reads(s)
    PROVE  /\ Blank(s)' /\ Discovered(s)' /\ Beside(s)'
           /\ \A a, t : Settled(s, a, t) => Settled(s, a, t)'
           /\ \A a, t, n : Right(s, a, t, n)' = Right(s, a, t, n)
           /\ (\A g \in groups'[s] : g \in groups[s] \/ Owned(s, g)) => GroupsOwned(s)'
<1>1. /\ pc[s] \in Reading /\ pc'[s] \in Reading \ {"over"} /\ pc'[s] \notin Asking
      /\ answer'[s] = answer[s] /\ found'[s] = found[s] /\ errors'[s] = errors[s]
      /\ coverage'[s] = coverage[s] /\ running'[s] = running[s]
      /\ counted'[s] = counted[s]
  BY DEF Reads, Reading, Within, Asking
<1>2. Blank(s)'
  BY <1>1 DEF Blank
<1>3. Discovered(s)'
  <2>1. ASSUME NEW a PROVE Vouched(s, a) => Vouched(s, a)'
    BY <1>1 DEF Vouched
  <2> QED
    BY <1>1, <2>1 DEF Local, Discovered
<1>4. Beside(s)'
  BY <1>1 DEF Local, Beside
<1>5. ASSUME NEW a, NEW t PROVE Settled(s, a, t) => Settled(s, a, t)'
  <2>1. Worth(s, a, t)' => Worth(s, a, t)
    BY <1>1 DEF Worth
  <2>2. Has(s, a, t) => Has(s, a, t)'
    BY DEF Reads, Has
  <2> QED
    BY <2>1, <2>2 DEF Settled, Reads
<1>6. ASSUME NEW a, NEW t, NEW n PROVE Right(s, a, t, n)' = Right(s, a, t, n)
  BY <1>1 DEF Right
<1>7. ASSUME \A g \in groups'[s] : g \in groups[s] \/ Owned(s, g) PROVE GroupsOwned(s)'
  <2>1. \A g : Owned(s, g) => Owned(s, g)'
    BY <1>6 DEF Owned
  <2> QED
    BY <1>7, <2>1 DEF Local, GroupsOwned
<1> QED
  BY <1>2, <1>3, <1>4, <1>5, <1>6, <1>7

\* GoOn, and NextAccount, of one scan.
Moved(s, rest, where) ==
    \/ /\ rest = <<>> /\ left'[s] = Tail(left[s]) /\ rows'[s] = <<>>
       /\ pc'[s] = IF Tail(left[s]) = <<>> THEN "read" ELSE "account"
    \/ /\ rest # <<>> /\ left'[s] = left[s] /\ rows'[s] = rest /\ pc'[s] = where

\* The accounts still to read.
LEMMA Accounting ==
    ASSUME NEW s \in Scans, Local(s), pc[s] \in Within \cup {"account"}
    PROVE  /\ Current(s) \in AccountSet /\ Tail(left[s]) \in Seq(AccountSet)
           /\ \A a \in ToSet(left[s]) : a = Current(s) \/ a \in ToSet(Tail(left[s]))
           /\ Tail(left[s]) = <<>> <=> Len(left[s]) = 1
<1>1. left[s] \in Seq(AccountSet) /\ left[s] # <<>>
  BY DEF Local, Positioned
<1> QED
  BY <1>1, HeadAndTail DEF Current

\* NextAccount moves past the current account.
LEMMA NextMoves ==
    ASSUME NEW s \in Scans, Domains, Local(s), pc[s] \in Within \cup {"account"},
           NextAccount(s)
    PROVE  Moved(s, <<>>, "row")
<1>1. Tail(left[s]) = <<>> <=> Len(left[s]) = 1
  BY Accounting
<1> QED
  BY <1>1 DEF Moved, NextAccount, Domains

\* GoOn moves on to the rest of the rows, or past the account.
LEMMA GoOnMoves ==
    ASSUME NEW s \in Scans, Domains, Local(s), pc[s] \in Within \cup {"account"},
           NEW rest, NEW where, GoOn(s, rest, where)
    PROVE  Moved(s, rest, where)
<1>1. CASE rest = <<>>
  BY <1>1, NextMoves DEF GoOn, Moved
<1>2. CASE rest # <<>>
  BY <1>2 DEF GoOn, Moved, Domains
<1> QED
  BY <1>1, <1>2

\* A step that stays with account a keeps the invariant of the scan, when the
\* rows fit and whatever they do not settle is settled.
LEMMA StaysOn ==
    ASSUME NEW s \in Scans, Local(s), Reads(s), NEW a, a = Current(s),
           NEW rest \in Seq(Rows), NEW where \in Within,
           left'[s] = left[s], rows'[s] = rest, pc'[s] = where,
           where # "native" => rest # <<>>,
           where = "metadata" => Head(rest).says = "amount" /\ Head(rest).amount > 0,
           where \in {"native", "code", "balances"} =>
              ~(a \in DOMAIN found[s] /\ found[s][a].direct),
           \A r \in ToSet(rest) : Fits(s, a, where, r),
           \A g \in groups'[s] : g \in groups[s] \/ Owned(s, g),
           \A t \in Assets : \/ Settled(s, a, t)' \/ a \in ToSet(Tail(left[s]))
                             \/ where = "native" /\ t = Native
                             \/ \E r \in ToSet(rest) : r.token = t /\ Promising(r)
    PROVE  Local(s)'
<1>1. /\ pc[s] \in Within \cup {"account"} /\ answer'[s] = answer[s]
      /\ found'[s] = found[s] /\ Current(s)' = a
  BY DEF Reads, Current
<1>2. /\ Blank(s)' /\ Discovered(s)' /\ Beside(s)' /\ GroupsOwned(s)'
      /\ \A b, t : Settled(s, b, t) => Settled(s, b, t)'
      /\ \A b, t, n : Right(s, b, t, n)' = Right(s, b, t, n)
  BY ReadsKeep
<1>3. /\ left[s] \in Seq(AccountSet) /\ left[s] # <<>>
      /\ answer[s] \in {x[s].answer : x \in Encounters}
  BY <1>1 DEF Local, Positioned
<1>4. Positioned(s)'
  BY <1>1, <1>3 DEF Positioned, Reading, Within, Asking
<1>5. Rowed(s)'
  <2>1. \A r \in ToSet(rest) : Fits(s, a, where, r)'
    BY <1>2 DEF Fits
  <2> QED
    BY <1>1, <2>1 DEF Rowed
<1>6. Progress(s)'
  <2>1. \A b \in AccountSet \ ToSet(left[s]), t \in Assets : Settled(s, b, t)'
    BY <1>1, <1>2 DEF Local, Progress
  <2>2. \A t \in Assets : Settled(s, a, t)' \/ Pending(s, t)' \/ a \in ToSet(Tail(left[s]))
    BY DEF Pending
  <2> QED
    BY <1>1, <2>1, <2>2 DEF Progress, Within
<1> QED
  BY <1>2, <1>4, <1>5, <1>6 DEF Local

\* Moving on keeps it, on the same conditions.
LEMMA MovesOn ==
    ASSUME NEW s \in Scans, Local(s), Reads(s), NEW a, a = Current(s),
           NEW rest \in Seq(Rows), NEW where \in {"code", "balances", "row"},
           Moved(s, rest, where),
           where # "row" => ~(a \in DOMAIN found[s] /\ found[s][a].direct),
           \A r \in ToSet(rest) : Fits(s, a, where, r),
           \A g \in groups'[s] : g \in groups[s] \/ Owned(s, g),
           \A t \in Assets : \/ Settled(s, a, t)' \/ a \in ToSet(Tail(left[s]))
                             \/ \E r \in ToSet(rest) : r.token = t /\ Promising(r)
    PROVE  Local(s)'
<1>1. CASE rest = <<>>
  <2>1. /\ left'[s] = Tail(left[s]) /\ rows'[s] = <<>> /\ ToSet(rest) = {}
        /\ pc'[s] = IF Tail(left[s]) = <<>> THEN "read" ELSE "account"
    BY <1>1 DEF Moved, ToSet
  <2>2. pc[s] \in Within \cup {"account"} /\ answer'[s] = answer[s]
    BY DEF Reads
  <2>3. /\ Blank(s)' /\ Discovered(s)' /\ Beside(s)' /\ GroupsOwned(s)'
        /\ \A b, t : Settled(s, b, t) => Settled(s, b, t)'
    BY ReadsKeep
  <2>4. /\ Tail(left[s]) \in Seq(AccountSet) /\ <<>> \in Seq(Rows)
        /\ \A b \in ToSet(left[s]) : b = a \/ b \in ToSet(Tail(left[s]))
        /\ answer[s] \in {x[s].answer : x \in Encounters}
    BY <2>2, Accounting, EmptySeq DEF Local, Positioned
  <2>5. \A b \in AccountSet \ ToSet(left[s]), t \in Assets : Settled(s, b, t)'
    BY <2>2, <2>3 DEF Local, Progress
  <2>6. \A b \in AccountSet \ ToSet(Tail(left[s])), t \in Assets : Settled(s, b, t)'
    BY <2>1, <2>4, <2>5
  <2>7. Positioned(s)'
    BY <2>1, <2>2, <2>4 DEF Positioned, Reading, Within, Asking
  <2>8. Rowed(s)'
    BY <2>1 DEF Rowed, Within
  <2>9. Progress(s)'
    <3>1. Tail(left[s]) = <<>> => ToSet(Tail(left[s])) = {}
      BY DEF ToSet
    <3> QED
      BY <2>1, <2>6, <3>1 DEF Progress, Within
  <2> QED
    BY <2>3, <2>7, <2>8, <2>9 DEF Local
<1>2. CASE rest # <<>>
  <2>1. left'[s] = left[s] /\ rows'[s] = rest /\ pc'[s] = where
    BY <1>2 DEF Moved
  <2>2. where \in Within /\ where # "metadata" /\ where # "native"
    BY DEF Within
  <2> QED
    BY <1>2, <2>1, <2>2, StaysOn
<1> QED
  BY <1>1, <1>2

-----------------------------------------------------------------------------
(* The rows of an account.                                                 *)

\* Once a row that promised something is settled, the wallet may go on to the next.
LEMMA RowSettled ==
    ASSUME NEW s \in Scans, Domains, Local(s), Reads(s), pc[s] \in {"row", "metadata"},
           RowDone(s), NEW a, a = Current(s), NEW h, h = Head(rows[s]),
           \A g \in groups'[s] : g \in groups[s] \/ Owned(s, g),
           Promising(h) => Settled(s, a, h.token)'
    PROVE  Local(s)'
<1>0. PICK rest : rest = Tail(rows[s])
  OBVIOUS
<1>1. pc[s] \in Within
  BY DEF Within
<1>2. /\ rest \in Seq(Rows)
      /\ \A r \in ToSet(rows[s]) : r = h \/ r \in ToSet(rest)
      /\ \A r \in ToSet(rest) : r \in ToSet(rows[s])
  BY <1>0, FirstRow
<1>3. Moved(s, rest, "row")
  BY <1>0, <1>1, GoOnMoves DEF RowDone
<1>4. \A r \in ToSet(rest) : Fits(s, a, "row", r)
  BY <1>1, <1>2 DEF Local, Rowed, Fits
<1>5. ASSUME NEW t \in Assets
      PROVE  \/ Settled(s, a, t)' \/ a \in ToSet(Tail(left[s]))
             \/ \E r \in ToSet(rest) : r.token = t /\ Promising(r)
  <2>1. Settled(s, a, t) \/ Pending(s, t) \/ a \in ToSet(Tail(left[s]))
    BY <1>1 DEF Local, Progress
  <2>2. Settled(s, a, t) => Settled(s, a, t)'
    BY ReadsKeep
  <2>3. ASSUME Pending(s, t)
        PROVE  \/ Settled(s, a, t)'
               \/ \E r \in ToSet(rest) : r.token = t /\ Promising(r)
    <3>1. PICK r \in ToSet(rows[s]) : r.token = t /\ Promising(r)
      BY <2>3 DEF Pending
    <3> QED
      BY <1>2, <3>1
  <2> QED
    BY <2>1, <2>2, <2>3
<1> HIDE DEF Rows
<1> QED
  BY <1>2, <1>3, <1>4, <1>5, MovesOn

\* A holding of the current account with its balance.
LEMMA HoldingOwned ==
    ASSUME NEW s \in Scans, Local(s), pc[s] \in Within \cup {"account"}, NEW t \in Assets,
           NEW n \in Nat \ {0}, Right(s, Current(s), t, n)
    PROVE  /\ Owned(s, Holding(s, t, n))
           /\ Holding(s, t, n).token = t /\ GroupAccount(Holding(s, t, n)) = Current(s)
<1>1. Current(s) \in AccountSet
  BY Accounting
<1>2. ZeroAddress \notin AccountSet
  BY WalletAssumption
<1>3. /\ Holding(s, t, n) = [stamp |-> Stamp(Current(s)), token |-> t, amount |-> n]
      /\ Holding(s, t, n).stamp = Stamp(Current(s)) /\ Holding(s, t, n).token = t
      /\ Holding(s, t, n).amount = n
  BY DEF Holding
<1>4. GroupAccount(Holding(s, t, n)) = Current(s)
  BY <1>1, <1>2, <1>3 DEF GroupAccount, Stamp
<1> QED
  BY <1>1, <1>3, <1>4 DEF Owned

\* A row whose balance is told is reported under its account.
LEMMA RowReported ==
    ASSUME NEW s \in Scans, Domains, Local(s), pc[s] \in {"row", "metadata"},
           Head(rows[s]).says = "amount", Head(rows[s]).amount > 0,
           AddGroup(s, TokenOf(s), Head(rows[s]).amount),
           NEW a, a = Current(s), NEW h, h = Head(rows[s])
    PROVE  /\ \A g \in groups'[s] : g \in groups[s] \/ Owned(s, g)
           /\ Has(s, a, h.token)' /\ groups[s] \subseteq groups'[s]
<1>1. pc[s] \in Within
  BY DEF Within
<1>2. h \in Rows /\ h \in ToSet(rows[s])
  BY FirstRow
<1>3. h.token \in Assets /\ h.amount \in Nat \ {0} /\ Right(s, a, h.token, h.amount)
  <2>1. h.token \in Assets
    BY <1>2 DEF Rows
  <2>2. Fits(s, a, pc[s], h)
    BY <1>1, <1>2 DEF Local, Rowed
  <2> QED
    BY <2>1, <2>2 DEF Fits
<1>4. groups'[s] = groups[s] \cup {Holding(s, h.token, h.amount)}
  BY DEF AddGroup, Domains, TokenOf
<1>5. /\ Owned(s, Holding(s, h.token, h.amount))
      /\ Holding(s, h.token, h.amount).token = h.token
      /\ GroupAccount(Holding(s, h.token, h.amount)) = a
  BY <1>1, <1>3, HoldingOwned
<1>6. \A g \in groups'[s] : g \in groups[s] \/ Owned(s, g)
  BY <1>4, <1>5
<1>7. Has(s, a, h.token)'
  BY <1>4, <1>5 DEF Has
<1> QED
  BY <1>4, <1>6, <1>7

\* Handling a row keeps the invariant of the scan.
LEMMA RowStepKeeps ==
    ASSUME NEW s \in Scans, Domains, Local(s), RowStep(s)
    PROVE  Local(s)'
<1> SUFFICES ASSUME NEW a, a = Current(s), NEW h, h = Head(rows[s])
             PROVE  Local(s)'
  OBVIOUS
<1> USE DEF Domains, foundVars, protocolVars, shared
<1>1. CASE RowEmpty(s)
  <2>1. Reads(s)
    BY <1>1 DEF RowEmpty, RowSays, RowDone, GoOn, NextAccount, Reads, Within
  <2>2. ~Promising(h) /\ pc[s] = "row" /\ groups'[s] = groups[s]
    BY <1>1 DEF RowEmpty, RowSays, Promising
  <2> QED
    BY <1>1, <2>1, <2>2, RowSettled DEF RowEmpty
<1>2. CASE RowFails(s)
  <2>1. Reads(s)
    BY <1>2 DEF RowFails, AccountFails, RowSays, RowDone, GoOn, NextAccount, Reads, Within
  <2>2. a \in failed'[s] /\ pc[s] = "row" /\ groups'[s] = groups[s]
    BY <1>2 DEF RowFails, AccountFails, RowSays
  <2>3. Settled(s, a, h.token)'
    BY <2>2 DEF Settled
  <2> QED
    BY <1>2, <2>1, <2>2, <2>3, RowSettled DEF RowFails
<1>3. CASE RowReverts(s)
  <2>1. Reads(s)
    BY <1>3 DEF RowReverts, BlockReverted, RowSays, RowDone, GoOn, NextAccount, Reads, Within
  <2>2. h.token \in skipped'[s] /\ pc[s] = "row" /\ groups'[s] = groups[s]
    BY <1>3 DEF RowReverts, BlockReverted, RowSays, TokenOf
  <2>3. Settled(s, a, h.token)'
    BY <2>2 DEF Settled
  <2> QED
    BY <1>3, <2>1, <2>2, <2>3, RowSettled DEF RowReverts
<1>4. CASE RowKnown(s)
  <2>1. /\ \A g \in groups'[s] : g \in groups[s] \/ Owned(s, g)
        /\ Has(s, a, h.token)' /\ groups[s] \subseteq groups'[s]
    BY <1>4, RowReported DEF RowKnown, RowSays
  <2>2. Reads(s)
    BY <1>4, <2>1 DEF RowKnown, RowSays, RowDone, GoOn, NextAccount, Reads, Within
  <2>3. Settled(s, a, h.token)'
    BY <2>1 DEF Settled
  <2> QED
    BY <1>4, <2>1, <2>2, <2>3, RowSettled DEF RowKnown, RowSays
<1>5. CASE RowUnknown(s)
  <2>1. Reads(s)
    BY <1>5 DEF RowUnknown, RowSays, Reads, Within
  <2>2. /\ pc[s] = "row" /\ pc'[s] = "metadata" /\ left'[s] = left[s]
        /\ rows'[s] = rows[s] /\ groups'[s] = groups[s]
        /\ h.says = "amount" /\ h.amount > 0
    BY <1>5 DEF RowUnknown, RowSays
  <2>3. rows[s] \in Seq(Rows) /\ rows[s] # <<>>
    BY <2>2 DEF Local, Positioned, Within
  <2>4. \A r \in ToSet(rows[s]) : Fits(s, a, "metadata", r)
    BY <2>2 DEF Local, Rowed, Fits, Within
  <2>5. \A t \in Assets : \/ Settled(s, a, t)' \/ a \in ToSet(Tail(left[s]))
                          \/ \E r \in ToSet(rows[s]) : r.token = t /\ Promising(r)
    BY <2>1, <2>2, ReadsKeep DEF Local, Progress, Pending, Within
  <2>6. "metadata" \in Within
    BY DEF Within
  <2> HIDE DEF Rows
  <2> QED
    BY <2>1, <2>2, <2>3, <2>4, <2>5, <2>6, StaysOn
<1>6. CASE ReadToken(s)
  <2>1. pc[s] = "metadata" /\ h.says = "amount" /\ h.amount > 0
    BY <1>6 DEF ReadToken, Local, Rowed
  <2>2. /\ \A g \in groups'[s] : g \in groups[s] \/ Owned(s, g)
        /\ Has(s, a, h.token)' /\ groups[s] \subseteq groups'[s]
    BY <1>6, <2>1, RowReported DEF ReadToken
  <2>3. Reads(s)
    BY <1>6, <2>2 DEF ReadToken, RowDone, GoOn, NextAccount, Reads, Within
  <2>4. Settled(s, a, h.token)'
    BY <2>2 DEF Settled
  <2> QED
    BY <1>6, <2>1, <2>2, <2>3, <2>4, RowSettled DEF ReadToken
<1>7. CASE ReadTokenReverts(s)
  <2>1. Reads(s)
    BY <1>7 DEF ReadTokenReverts, BlockReverted, RowDone, GoOn, NextAccount, Reads, Within
  <2>2. h.token \in skipped'[s] /\ pc[s] = "metadata" /\ groups'[s] = groups[s]
    BY <1>7 DEF ReadTokenReverts, BlockReverted, TokenOf
  <2>3. Settled(s, a, h.token)'
    BY <2>2 DEF Settled
  <2> QED
    BY <1>7, <2>1, <2>2, <2>3, RowSettled DEF ReadTokenReverts
<1>8. CASE ReadTokenFails(s)
  <2>1. Reads(s)
    BY <1>8 DEF ReadTokenFails, AccountFails, RowDone, GoOn, NextAccount, Reads, Within
  <2>2. a \in failed'[s] /\ pc[s] = "metadata" /\ groups'[s] = groups[s]
    BY <1>8 DEF ReadTokenFails, AccountFails
  <2>3. Settled(s, a, h.token)'
    BY <2>2 DEF Settled
  <2> QED
    BY <1>8, <2>1, <2>2, <2>3, RowSettled DEF ReadTokenFails
<1> QED
  BY <1>1, <1>2, <1>3, <1>4, <1>5, <1>6, <1>7, <1>8 DEF RowStep

-----------------------------------------------------------------------------
(* Starting an account, and its native balance.                            *)

\* What an account should report does not change while it is read.
LEMMA SettledBy ==
    ASSUME NEW s \in Scans, Reads(s), NEW a, NEW t,
           Worth(s, a, t) => Has(s, a, t)' \/ a \in failed'[s] \/ t \in skipped'[s]
    PROVE  Settled(s, a, t)'
<1>1. Worth(s, a, t)' => Worth(s, a, t)
  BY DEF Reads, Worth
<1> QED
  BY <1>1 DEF Settled

\* The amounts of an account's rows: all but the native coin's are still to do.
LEMMA StartDirectKeeps ==
    ASSUME NEW s \in Scans, Domains, Local(s), StartDirect(s)
    PROVE  Local(s)'
<1> USE DEF Domains, foundVars, protocolVars, shared
<1>0. PICK a : a = Current(s)
  OBVIOUS
<1>1. PICK given : given = found[s][a].rows
  OBVIOUS
<1>2. /\ pc[s] = "account" /\ pc[s] \in Within \cup {"account"} /\ a \in DOMAIN found[s]
      /\ found[s][a].direct /\ a \in AccountSet
  BY <1>0, Accounting DEF StartDirect
<1>3. given \in Seq(ToSet(given)) /\ \A r \in ToSet(given) : Typed(r)
  BY <1>1, <1>2 DEF Local, Discovered
<1>4. PICK gone, rs, kept, rest :
        /\ rs = Unblocked(given, gone) /\ kept = DirectRows(rs)
        /\ rest = Chosen(kept, {i \in DOMAIN kept : kept[i].token # Native})
        /\ skipped' = [skipped EXCEPT ![s] = @ \cup gone]
        /\ MarkFailed(s, DirectFault(rs))
        /\ groups' = [groups EXCEPT ![s] =
              @ \cup {Holding(s, Native, r.amount) : r \in {x \in ToSet(kept) : x.token = Native}}]
        /\ GoOn(s, rest, "row")
  BY <1>0, <1>1 DEF StartDirect
<1>5. /\ rs \in Seq(ToSet(given))
      /\ \A r \in ToSet(rs) : r \in ToSet(given)
      /\ \A r \in ToSet(given) : r \in ToSet(rs) \/ (r.chain = Chain /\ r.token \in gone)
  BY <1>3, <1>4, UnblockedRows
<1>6. /\ kept \in Seq(Rows)
      /\ \A k \in ToSet(kept) :
            /\ k.says = "amount" /\ k.amount > 0 /\ k.token \in Assets
            /\ \E r \in ToSet(rs) :
                  r.chain = Chain /\ r.token = k.token /\ r.amount = k.amount
      /\ ~DirectFault(rs) =>
            \A r \in ToSet(rs) : r.amount > 0 =>
               \E k \in ToSet(kept) : k.token = r.token /\ k.amount = r.amount
  BY <1>3, <1>4, <1>5, DirectRowsOf
<1>7. ASSUME NEW k \in ToSet(kept)
      PROVE  /\ k.says = "amount" /\ k.amount > 0 /\ k.amount \in Nat \ {0}
             /\ k.token \in Assets /\ Right(s, a, k.token, k.amount)
  <2>1. PICK r \in ToSet(rs) : r.chain = Chain /\ r.token = k.token /\ r.amount = k.amount
    BY <1>6
  <2>2. r \in ToSet(given) /\ Typed(r)
    BY <1>3, <1>5
  <2>3. k.amount \in Nat \ {0}
    BY <1>6, <2>1, <2>2 DEF Typed
  <2>4. Right(s, a, k.token, k.amount)
    BY <1>1, <1>2, <2>1, <2>2 DEF Right
  <2> QED
    BY <1>6, <2>3, <2>4
<1>8. /\ rest \in Seq(Rows) /\ \A r \in ToSet(rest) : r \in ToSet(kept)
      /\ \A k \in ToSet(kept) : k.token # Native => k \in ToSet(rest)
  <2> DEFINE at == {i \in DOMAIN kept : kept[i].token # Native}
  <2>1. DOMAIN kept = 1..Len(kept) /\ at \in SUBSET (1..Len(kept)) /\ rest = Chosen(kept, at)
    BY <1>4, <1>6
  <2>2. ToSet(kept) = {kept[i] : i \in DOMAIN kept}
    BY DEF ToSet
  <2>3. /\ Chosen(kept, at) \in Seq(Rows)
        /\ \A i \in at : kept[i] \in ToSet(Chosen(kept, at))
        /\ \A x \in ToSet(Chosen(kept, at)) : \E i \in at : x = kept[i]
    BY <1>6, <2>1, ChosenMembers
  <2> QED
    BY <2>1, <2>2, <2>3
<1>9. groups'[s] = groups[s] \cup
         {Holding(s, Native, r.amount) : r \in {x \in ToSet(kept) : x.token = Native}}
  BY <1>4
<1>10. ASSUME NEW k \in ToSet(kept), k.token = Native
       PROVE  /\ Owned(s, Holding(s, Native, k.amount))
              /\ Holding(s, Native, k.amount).token = Native
              /\ GroupAccount(Holding(s, Native, k.amount)) = a
  <2>1. k.amount \in Nat \ {0} /\ Native \in Assets /\ Right(s, a, Native, k.amount)
    BY <1>7, <1>10
  <2> QED
    BY <1>0, <1>2, <2>1, HoldingOwned
<1>11. Reads(s)
  BY <1>2, <1>4 DEF StartDirect, MarkFailed, AccountFails, GoOn, NextAccount, Reads, Within
<1>12. Moved(s, rest, "row")
  BY <1>2, <1>4, GoOnMoves
<1>13. \A g \in groups'[s] : g \in groups[s] \/ Owned(s, g)
  BY <1>9, <1>10
<1>14. \A k \in ToSet(rest) : Fits(s, a, "row", k)
  BY <1>7, <1>8 DEF Fits
<1>15. ASSUME NEW t \in Assets
       PROVE  Settled(s, a, t)' \/ \E k \in ToSet(rest) : k.token = t /\ Promising(k)
  <2>1. CASE Worth(s, a, t)
    <3>1. PICK r \in ToSet(given) : r.token = t /\ r.chain = Chain /\ r.amount > 0
      BY <1>1, <1>2, <2>1 DEF Worth
    <3>2. CASE r \notin ToSet(rs)
      <4>1. t \in skipped'[s]
        BY <1>4, <1>5, <3>1, <3>2
      <4> QED
        BY <4>1 DEF Settled
    <3>3. CASE DirectFault(rs)
      <4>1. a \in failed'[s]
        BY <1>0, <1>4, <3>3 DEF MarkFailed, AccountFails
      <4> QED
        BY <4>1 DEF Settled
    <3>4. CASE r \in ToSet(rs) /\ ~DirectFault(rs)
      <4>1. PICK k \in ToSet(kept) : k.token = t
        BY <1>6, <3>1, <3>4
      <4>2. CASE t = Native
        <5>1. Has(s, a, t)'
          BY <1>9, <1>10, <4>1, <4>2 DEF Has
        <5> QED
          BY <5>1 DEF Settled
      <4>3. CASE t # Native
        BY <1>7, <1>8, <4>1, <4>3 DEF Promising
      <4> QED
        BY <4>2, <4>3
    <3> QED
      BY <3>2, <3>3, <3>4
  <2>2. CASE ~Worth(s, a, t)
    BY <1>11, <2>2, SettledBy
  <2> QED
    BY <2>1, <2>2
<1> HIDE DEF Domains, foundVars, protocolVars, shared
<1> QED
  BY <1>0, <1>8, <1>11, <1>12, <1>13, <1>14, <1>15, MovesOn

\* Candidates, of an account whose amounts are not used, come after its native coin.
LEMMA StartDiscoveredKeeps ==
    ASSUME NEW s \in Scans, Domains, Local(s), StartDiscovered(s)
    PROVE  Local(s)'
<1> USE DEF Domains, foundVars, protocolVars, shared
<1>0. PICK a : a = Current(s)
  OBVIOUS
<1>1. PICK given : given = found[s][a].rows
  OBVIOUS
<1>2. /\ pc[s] = "account" /\ a \in DOMAIN found[s] /\ ~found[s][a].direct
      /\ groups' = groups /\ left' = left /\ pc'[s] = "native"
  BY <1>0 DEF StartDiscovered
<1>3. given \in Seq(ToSet(given)) /\ \A r \in ToSet(given) : Typed(r)
  BY <1>1, <1>2 DEF Local, Discovered
<1>4. PICK gone, rs, rest :
        /\ rs = Unblocked(given, gone) /\ rest = CandidateRows(rs)
        /\ skipped' = [skipped EXCEPT ![s] = @ \cup gone]
        /\ MarkFailed(s, DiscoveredFault(rs))
        /\ rows' = [rows EXCEPT ![s] = rest]
  BY <1>0, <1>1 DEF StartDiscovered
<1>5. /\ rs \in Seq(ToSet(given))
      /\ \A r \in ToSet(given) : r \in ToSet(rs) \/ (r.chain = Chain /\ r.token \in gone)
  BY <1>3, <1>4, UnblockedRows
<1>6. /\ rest \in Seq(Rows)
      /\ \A k \in ToSet(rest) :
            k.says = "discovered" /\ k.token \in Assets /\ k.token # Native
      /\ ~DiscoveredFault(rs) =>
            \A r \in ToSet(rs) : r.token # Native =>
               \E k \in ToSet(rest) : k.token = r.token
  BY <1>3, <1>4, <1>5, CandidateRowsOf
<1>7. Reads(s)
  BY <1>2, <1>4 DEF StartDiscovered, MarkFailed, AccountFails, Reads, Within
<1>8. \A k \in ToSet(rest) : Fits(s, a, "native", k)
  BY <1>6 DEF Fits
<1>9. ASSUME NEW t \in Assets
      PROVE  Settled(s, a, t)' \/ t = Native \/ \E k \in ToSet(rest) : k.token = t /\ Promising(k)
  <2>1. CASE Worth(s, a, t) /\ t # Native
    <3>1. PICK r \in ToSet(given) : r.token = t /\ r.chain = Chain
      BY <1>1, <1>2, <2>1 DEF Worth
    <3>2. CASE r \notin ToSet(rs)
      <4>1. t \in skipped'[s]
        BY <1>4, <1>5, <3>1, <3>2
      <4> QED
        BY <4>1 DEF Settled
    <3>3. CASE DiscoveredFault(rs)
      <4>1. a \in failed'[s]
        BY <1>0, <1>4, <3>3 DEF MarkFailed, AccountFails
      <4> QED
        BY <4>1 DEF Settled
    <3>4. CASE r \in ToSet(rs) /\ ~DiscoveredFault(rs)
      BY <1>6, <2>1, <3>1, <3>4 DEF Promising
    <3> QED
      BY <3>2, <3>3, <3>4
  <2>2. CASE ~Worth(s, a, t)
    BY <1>7, <2>2, SettledBy
  <2> QED
    BY <2>1, <2>2
<1>10. rows'[s] = rest /\ left'[s] = left[s] /\ "native" \in Within
  BY <1>2, <1>4 DEF Within
<1> HIDE DEF Domains, foundVars, protocolVars, shared
<1> QED
  BY <1>0, <1>2, <1>6, <1>7, <1>8, <1>9, <1>10, StaysOn

\* An account nothing was found of is worth its native coin.
LEMMA StartBareKeeps ==
    ASSUME NEW s \in Scans, Domains, Local(s), StartBare(s)
    PROVE  Local(s)'
<1> USE DEF Domains, foundVars, protocolVars, shared
<1>0. PICK a : a = Current(s)
  OBVIOUS
<1>1. /\ pc[s] = "account" /\ a \notin DOMAIN found[s] /\ groups' = groups
      /\ left'[s] = left[s] /\ pc'[s] = "native" /\ rows' = rows
  BY <1>0 DEF StartBare
<1>2. PICK rest : rest = <<>>
  OBVIOUS
<1>3. rows'[s] = rest /\ rest \in Seq(Rows) /\ ToSet(rest) = {} /\ "native" \in Within
  BY <1>1, <1>2 DEF Local, Positioned, ToSet, Within
<1>4. Reads(s)
  BY <1>1 DEF StartBare, Reads, Within
<1>5. \A t \in Assets : Settled(s, a, t)' \/ t = Native
  BY <1>1, <1>4, SettledBy DEF Worth
<1> HIDE DEF Domains, foundVars, protocolVars, shared
<1> QED
  BY <1>0, <1>1, <1>3, <1>4, <1>5, StaysOn

\* The native balance is read or fails, and the candidates follow.
LEMMA NativeKeeps ==
    ASSUME NEW s \in Scans, Domains, Local(s), ReadNative(s) \/ NativeFails(s)
    PROVE  Local(s)'
<1> USE DEF Domains, foundVars, protocolVars, shared
<1>0. PICK a : a = Current(s)
  OBVIOUS
<1>1. PICK rest, where : /\ rest = rows[s]
                         /\ where = IF Pin[s].fixed THEN "code" ELSE "balances"
  OBVIOUS
<1>2. /\ pc[s] = "native" /\ pc[s] \in Within /\ GoOn(s, rest, where)
      /\ where \in {"code", "balances", "row"}
  BY <1>1 DEF ReadNative, NativeFails, AfterNative, Within
<1>3. /\ rest \in Seq(Rows) /\ ~(a \in DOMAIN found[s] /\ found[s][a].direct)
      /\ \A r \in ToSet(rest) : Fits(s, a, where, r)
  BY <1>0, <1>1, <1>2 DEF Local, Positioned, Rowed, Fits
<1>4. \A t \in Assets : \/ Settled(s, a, t) \/ a \in ToSet(Tail(left[s])) \/ t = Native
                        \/ \E r \in ToSet(rest) : r.token = t /\ Promising(r)
  BY <1>0, <1>1, <1>2 DEF Local, Progress, Pending
<1>5. Moved(s, rest, where)
  BY <1>2, GoOnMoves
<1>6. a \in AccountSet /\ Native \in Assets
  BY <1>0, <1>2, Accounting DEF Assets
<1>7. /\ Reads(s) /\ Settled(s, a, Native)'
      /\ \A g \in groups'[s] : g \in groups[s] \/ Owned(s, g)
  <2>1. CASE NativeFails(s)
    <3>1. Reads(s)
      BY <1>2, <2>1 DEF NativeFails, AccountFails, GoOn, NextAccount, Reads, Within
    <3>2. a \in failed'[s] /\ groups'[s] = groups[s]
      BY <1>0, <2>1 DEF NativeFails, AccountFails
    <3> QED
      BY <3>1, <3>2 DEF Settled
  <2>2. CASE ReadNative(s)
    <3>1. PICK n : n = Held[Pin[s].hash][a][Native]
      OBVIOUS
    <3>2. n \in Nat
      BY <1>6, <3>1, WalletAssumption
    <3>3. CASE n = 0
      <4>1. groups' = groups
        BY <1>0, <2>2, <3>1, <3>3 DEF ReadNative, HeldAtPin
      <4>2. Reads(s)
        BY <1>2, <2>2, <4>1 DEF ReadNative, GoOn, NextAccount, Reads, Within
      <4>3. ~Worth(s, a, Native)
        BY <1>3, <3>1, <3>3 DEF Worth
      <4> QED
        BY <4>1, <4>2, <4>3, SettledBy
    <3>4. CASE n # 0
      <4>1. groups'[s] = groups[s] \cup {Holding(s, Native, n)}
        BY <1>0, <2>2, <3>1, <3>4 DEF ReadNative, HeldAtPin, AddGroup
      <4>2. Reads(s)
        BY <1>2, <2>2, <4>1 DEF ReadNative, GoOn, NextAccount, Reads, Within
      <4>3. n \in Nat \ {0} /\ Right(s, a, Native, n)
        BY <3>1, <3>2, <3>4 DEF Right
      <4>4. /\ Owned(s, Holding(s, Native, n)) /\ Holding(s, Native, n).token = Native
            /\ GroupAccount(Holding(s, Native, n)) = a
        BY <1>0, <1>2, <1>6, <4>3, HoldingOwned
      <4>5. Has(s, a, Native)'
        BY <4>1, <4>4 DEF Has
      <4> QED
        BY <4>1, <4>2, <4>4, <4>5 DEF Settled
    <3> QED
      BY <3>3, <3>4
  <2> QED
    BY <2>1, <2>2
<1>8. \A t \in Assets : \/ Settled(s, a, t)' \/ a \in ToSet(Tail(left[s]))
                        \/ \E r \in ToSet(rest) : r.token = t /\ Promising(r)
  BY <1>4, <1>7, ReadsKeep
<1> HIDE DEF Domains, foundVars, protocolVars, shared
<1> QED
  BY <1>0, <1>2, <1>3, <1>5, <1>7, <1>8, MovesOn

-----------------------------------------------------------------------------
(* The candidates' code and balances.                                      *)

\* What a candidate left out by its code or its balance would be worth.
LEMMA NothingHeld ==
    ASSUME NEW s \in Scans, NEW a \in AccountSet, NEW t \in Assets, t # Native,
           ~(a \in DOMAIN found[s] /\ found[s][a].direct),
           t \notin Deployed[Pin[s].hash] \/ t \in NotTokens
              \/ Held[Pin[s].hash][a][t] = 0
    PROVE  ~Worth(s, a, t)
<1>1. ~(Held[Pin[s].hash][a][t] > 0)
  BY WalletAssumption
<1> QED
  BY <1>1 DEF Worth

\* A candidate that did not exist at a fixed pin had no holder.
LEMMA ReadCodeKeeps ==
    ASSUME NEW s \in Scans, Domains, Local(s), ReadCode(s)
    PROVE  Local(s)'
<1> USE DEF Domains, foundVars, protocolVars, shared
<1>0. PICK a : a = Current(s)
  OBVIOUS
<1>1. PICK given, rest :
        /\ given = rows[s]
        /\ rest = Chosen(given, {i \in DOMAIN given : given[i].token \in Deployed[Pin[s].hash]})
  OBVIOUS
<1>2. pc[s] = "code" /\ pc[s] \in Within /\ GoOn(s, rest, "balances") /\ groups' = groups
  BY <1>1 DEF ReadCode, Within
<1>3. /\ given \in Seq(Rows) /\ ~(a \in DOMAIN found[s] /\ found[s][a].direct)
      /\ \A r \in ToSet(given) : Fits(s, a, "balances", r)
  BY <1>0, <1>1, <1>2 DEF Local, Positioned, Rowed, Fits
<1>4. \A t \in Assets : \/ Settled(s, a, t) \/ a \in ToSet(Tail(left[s]))
                        \/ \E r \in ToSet(given) : r.token = t /\ Promising(r)
  BY <1>0, <1>1, <1>2 DEF Local, Progress, Pending
<1>5. /\ rest \in Seq(Rows) /\ \A r \in ToSet(rest) : r \in ToSet(given)
      /\ \A r \in ToSet(given) : r.token \in Deployed[Pin[s].hash] => r \in ToSet(rest)
  <2> DEFINE at == {i \in DOMAIN given : given[i].token \in Deployed[Pin[s].hash]}
  <2>1. DOMAIN given = 1..Len(given) /\ at \in SUBSET (1..Len(given)) /\ rest = Chosen(given, at)
    BY <1>1, <1>3
  <2>2. ToSet(given) = {given[i] : i \in DOMAIN given}
    BY DEF ToSet
  <2>3. /\ Chosen(given, at) \in Seq(Rows)
        /\ \A i \in at : given[i] \in ToSet(Chosen(given, at))
        /\ \A x \in ToSet(Chosen(given, at)) : \E i \in at : x = given[i]
    BY <1>3, <2>1, ChosenMembers
  <2> QED
    BY <2>1, <2>2, <2>3
<1>6. Moved(s, rest, "balances") /\ a \in AccountSet
  BY <1>0, <1>2, GoOnMoves, Accounting
<1>7. Reads(s)
  BY <1>2 DEF ReadCode, GoOn, NextAccount, Reads, Within
<1>8. ASSUME NEW t \in Assets
      PROVE  \/ Settled(s, a, t)' \/ a \in ToSet(Tail(left[s]))
             \/ \E r \in ToSet(rest) : r.token = t /\ Promising(r)
  <2>1. CASE Settled(s, a, t) \/ a \in ToSet(Tail(left[s]))
    BY <1>7, <2>1, ReadsKeep
  <2>2. CASE \E r \in ToSet(given) : r.token = t /\ Promising(r)
    <3>1. PICK r \in ToSet(given) : r.token = t /\ Promising(r)
      BY <2>2
    <3>2. CASE t \in Deployed[Pin[s].hash]
      BY <1>5, <3>1, <3>2
    <3>3. CASE t \notin Deployed[Pin[s].hash]
      <4>1. t # Native
        BY <1>3, <3>1 DEF Fits
      <4>2. ~Worth(s, a, t)
        BY <1>3, <1>6, <3>3, <4>1, NothingHeld
      <4> QED
        BY <1>7, <4>2, SettledBy
    <3> QED
      BY <3>2, <3>3
  <2> QED
    BY <1>4, <2>1, <2>2
<1>9. \A r \in ToSet(rest) : Fits(s, a, "balances", r)
  BY <1>3, <1>5
<1> HIDE DEF Domains, foundVars, protocolVars, shared
<1> QED
  BY <1>0, <1>2, <1>3, <1>5, <1>6, <1>7, <1>8, <1>9, MovesOn

\* What balanceOf answers of a candidate fits its account; if it promises nothing
\* the candidate is worth nothing.
LEMMA AnswerFits ==
    ASSUME NEW s \in Scans, NEW a \in AccountSet, a = Current(s), NEW row \in Rows,
           row.token # Native, NEW broken,
           ~(a \in DOMAIN found[s] /\ found[s][a].direct)
    PROVE  /\ Answered(s, row, broken) \in Rows
           /\ Answered(s, row, broken).token = row.token
           /\ Fits(s, a, "row", Answered(s, row, broken))
           /\ Promising(Answered(s, row, broken)) \/ ~Worth(s, a, row.token)
<1>1. PICK n : n = Held[Pin[s].hash][a][row.token]
  OBVIOUS
<1>2. row.token \in Assets /\ row.complete \in BOOLEAN
  BY DEF Rows
<1>3. n \in Nat
  BY <1>1, <1>2, WalletAssumption
<1>4. CASE row.token \in broken
  <2>1. Answered(s, row, broken) = Row(row, "error", 0)
    BY <1>4 DEF Answered
  <2> QED
    BY <1>2, <2>1 DEF Row, Rows, Says, Fits, Promising
<1>5. CASE row.token \notin broken /\ row.token \in Reverting[Pin[s].hash]
  <2>1. Answered(s, row, broken) = Row(row, "reverted", 0)
    BY <1>5 DEF Answered
  <2> QED
    BY <1>2, <1>5, <2>1 DEF Row, Rows, Says, Fits, Promising
<1>6. CASE /\ row.token \notin broken /\ row.token \notin Reverting[Pin[s].hash]
           /\ row.token \in NotTokens \/ row.token \notin Deployed[Pin[s].hash]
  <2>1. Answered(s, row, broken) = Row(row, "empty", 0)
    BY <1>6 DEF Answered
  <2>2. ~Worth(s, a, row.token)
    BY <1>2, <1>6, NothingHeld
  <2> QED
    BY <1>2, <2>1, <2>2 DEF Row, Rows, Says, Fits
<1>7. CASE /\ row.token \notin broken /\ row.token \notin Reverting[Pin[s].hash]
           /\ row.token \notin NotTokens /\ row.token \in Deployed[Pin[s].hash]
  <2>1. Answered(s, row, broken) = Row(row, "amount", n)
    BY <1>1, <1>7 DEF Answered, HeldAtPin
  <2>2. /\ Row(row, "amount", n) \in Rows /\ Row(row, "amount", n).token = row.token
        /\ Row(row, "amount", n).says = "amount" /\ Row(row, "amount", n).amount = n
    BY <1>2, <1>3 DEF Row, Rows, Says
  <2>3. Fits(s, a, "row", Row(row, "amount", n))
    BY <1>1, <1>3, <2>2 DEF Fits, Right
  <2>4. Promising(Row(row, "amount", n)) \/ ~Worth(s, a, row.token)
    <3>1. CASE n = 0
      BY <1>1, <1>2, <3>1, NothingHeld
    <3>2. CASE n # 0
      BY <1>3, <2>2, <3>2 DEF Promising
    <3> QED
      BY <3>1, <3>2
  <2> QED
    BY <2>1, <2>2, <2>3, <2>4
<1> QED
  BY <1>4, <1>5, <1>6, <1>7

\* Each candidate becomes a row with its answer.
LEMMA ReadBalancesKeeps ==
    ASSUME NEW s \in Scans, Domains, Local(s), ReadBalances(s)
    PROVE  Local(s)'
<1> USE DEF Domains, foundVars, protocolVars, shared
<1>0. PICK a : a = Current(s)
  OBVIOUS
<1>1. PICK given : given = rows[s]
  OBVIOUS
<1>2. /\ pc[s] = "balances" /\ pc[s] \in Within /\ groups' = groups /\ left'[s] = left[s]
      /\ pc'[s] = "row" /\ "row" \in Within
  BY DEF ReadBalances, Within
<1>3. /\ given \in Seq(Rows) /\ given # <<>>
      /\ ~(a \in DOMAIN found[s] /\ found[s][a].direct)
      /\ \A r \in ToSet(given) : Fits(s, a, "balances", r)
  BY <1>0, <1>1, <1>2 DEF Local, Positioned, Rowed, Fits, Within
<1>4. \A t \in Assets : \/ Settled(s, a, t) \/ a \in ToSet(Tail(left[s]))
                        \/ \E r \in ToSet(given) : r.token = t /\ Promising(r)
  BY <1>0, <1>1, <1>2 DEF Local, Progress, Pending
<1>5. PICK broken, rest :
        /\ rest = [i \in DOMAIN given |-> Answered(s, given[i], broken)]
        /\ rows'[s] = rest
  <2>1. PICK broken : rows' = [rows EXCEPT ![s] =
                                  [i \in DOMAIN @ |-> Answered(s, @[i], broken)]]
    BY DEF ReadBalances
  <2>2. rows'[s] = [i \in DOMAIN given |-> Answered(s, given[i], broken)]
    BY <1>1, <2>1
  <2> QED
    BY <2>2
<1>6. /\ DOMAIN given = 1..Len(given) /\ Len(given) \in Nat \ {0}
      /\ ToSet(given) = {given[i] : i \in 1..Len(given)}
      /\ \A i \in 1..Len(given) : given[i] \in Rows
  <2> HIDE DEF Rows
  <2> QED
    BY <1>3, EmptySeq, ElementOfSeq, LenProperties DEF ToSet
<1>7. a \in AccountSet
  BY <1>0, <1>2, Accounting
<1>8. ASSUME NEW i \in 1..Len(given)
      PROVE  /\ rest[i] \in Rows /\ rest[i].token = given[i].token /\ rest[i] \in ToSet(rest)
             /\ Fits(s, a, "row", rest[i])
             /\ Promising(rest[i]) \/ ~Worth(s, a, given[i].token)
  <2>1. given[i] \in Rows /\ given[i].token # Native
    BY <1>3, <1>6 DEF Fits
  <2>2. rest[i] = Answered(s, given[i], broken) /\ rest[i] \in ToSet(rest)
    BY <1>5, <1>6 DEF ToSet
  <2> QED
    BY <1>0, <1>3, <1>7, <2>1, <2>2, AnswerFits
<1>9. rest \in Seq(Rows) /\ rest # <<>>
  <2>1. rest = [i \in 1..Len(given) |-> Answered(s, given[i], broken)]
    BY <1>5, <1>6
  <2>2. \A i \in 1..Len(given) : Answered(s, given[i], broken) \in Rows
    BY <1>8, <2>1
  <2> HIDE DEF Rows
  <2>3. rest \in Seq(Rows)
    BY <1>6, <2>1, <2>2, IsASeq
  <2>4. DOMAIN rest # {}
    BY <1>6, <2>1
  <2> QED
    BY <2>3, <2>4
<1>10. \A r \in ToSet(rest) : Fits(s, a, "row", r)
  BY <1>5, <1>6, <1>8 DEF ToSet
<1>11. Reads(s)
  BY <1>2 DEF ReadBalances, Reads
<1>12. ASSUME NEW t \in Assets
       PROVE  \/ Settled(s, a, t)' \/ a \in ToSet(Tail(left[s]))
              \/ \E r \in ToSet(rest) : r.token = t /\ Promising(r)
  <2>1. CASE Settled(s, a, t) \/ a \in ToSet(Tail(left[s]))
    BY <1>11, <2>1, ReadsKeep
  <2>2. CASE \E r \in ToSet(given) : r.token = t /\ Promising(r)
    <3>1. PICK i \in 1..Len(given) : given[i].token = t
      BY <1>6, <2>2
    <3>2. CASE ~Worth(s, a, t)
      BY <1>11, <3>2, SettledBy
    <3>3. CASE Worth(s, a, t)
      BY <1>8, <3>1, <3>3
    <3> QED
      BY <3>2, <3>3
  <2> QED
    BY <1>4, <2>1, <2>2
<1>13. rows'[s] = rest
  BY <1>5
<1> HIDE DEF Domains, foundVars, protocolVars, shared
<1> QED
  BY <1>0, <1>2, <1>9, <1>10, <1>11, <1>12, <1>13, StaysOn

\* A failed batch is reported of its account.
LEMMA BatchFailsKeeps ==
    ASSUME NEW s \in Scans, Domains, Local(s), BatchFails(s)
    PROVE  Local(s)'
<1> USE DEF Domains, foundVars, protocolVars, shared
<1>0. PICK a, rest : a = Current(s) /\ rest = <<>>
  OBVIOUS
<1>1. /\ pc[s] \in {"code", "balances"} /\ pc[s] \in Within /\ a \in failed'[s]
      /\ groups' = groups
  BY <1>0 DEF BatchFails, AccountFails, Within
<1>2. Moved(s, rest, "row")
  BY <1>0, <1>1, NextMoves DEF BatchFails
<1>3. Reads(s)
  BY <1>1 DEF BatchFails, AccountFails, NextAccount, Reads, Within
<1>4. rest \in Seq(Rows) /\ ToSet(rest) = {}
  BY <1>0, EmptySeq DEF ToSet
<1>5. \A t \in Assets : Settled(s, a, t)'
  BY <1>1 DEF Settled
<1> HIDE DEF Domains, foundVars, protocolVars, shared
<1> QED
  BY <1>0, <1>1, <1>2, <1>3, <1>4, <1>5, MovesOn

-----------------------------------------------------------------------------
(* What is made of an answer.                                              *)

\* An answer the provider may give (ProviderAssumption).
Proper(s, r) ==
    /\ r.chains \in Seq(ToSet(r.chains))
    /\ \A c \in ToSet(r.chains) :
          /\ c.accounts \in Seq(ToSet(c.accounts))
          /\ \A e \in ToSet(c.accounts) :
                /\ e.rows \in Seq(ToSet(e.rows))
                /\ \A x \in ToSet(e.rows) : Typed(x)
                /\ Honest(s, c, e)

\* An account with a sample has it from the answer's result for the chain.
LEMMA SampledFrom ==
    ASSUME NEW s \in Scans, NEW r, Proper(s, r), NEW a \in Sampled(r)
    PROVE  \E c \in ToSet(r.chains) :
              /\ EntryOf(r, a) \in ToSet(c.accounts) /\ EntryOf(r, a).account = a
              /\ c.block.chain = Chain /\ SampleOf(r, a) = BlockOf(c, EntryOf(r, a))
              /\ SampleOf(r, a).chain = Chain
<1>1. PICK entries, results : entries = Entries(r) /\ results = Results(r)
  OBVIOUS
<1>2. Cardinality({i \in DOMAIN entries : entries[i].account = a}) = 1
      /\ SampleOf(r, a).chain = Chain
  BY <1>1 DEF Sampled, Single, Times
<1>3. PICK i \in DOMAIN entries : entries[i].account = a
  <2>1. {i \in DOMAIN entries : entries[i].account = a} # {}
    BY <1>2, FS_EmptySet
  <2> QED
    BY <2>1
<1>4. EntryOf(r, a) \in ToSet(entries) /\ EntryOf(r, a).account = a
  <2>1. entries[i] \in ToSet(entries)
    BY DEF ToSet
  <2> QED
    BY <1>1, <1>3, <2>1 DEF EntryOf
<1>5. Len(results) = 1 /\ entries = results[1].accounts
  <2>1. entries # <<>>
    BY <1>3
  <2> QED
    BY <1>1, <2>1 DEF Entries
<1>6. results[1] \in ToSet(r.chains) /\ results[1].block.chain = Chain
  <2> DEFINE at == {j \in DOMAIN r.chains : r.chains[j].block.chain = Chain}
             S == ToSet(r.chains)
  <2>1. r.chains \in Seq(S) /\ results = Chosen(r.chains, at)
    BY <1>1 DEF Proper, Results
  <2>2. DOMAIN r.chains = 1..Len(r.chains) /\ at \in SUBSET (1..Len(r.chains))
    BY <2>1
  <2>3. /\ results \in Seq(S)
        /\ \A x \in ToSet(results) : \E j \in at : x = r.chains[j]
    BY <2>1, <2>2, ChosenMembers
  <2>4. results[1] \in ToSet(results)
    BY <1>5, <2>3 DEF ToSet
  <2> QED
    BY <2>2, <2>3, <2>4 DEF ToSet
<1>7. SampleOf(r, a) = BlockOf(results[1], EntryOf(r, a))
  BY <1>1 DEF SampleOf
<1> QED
  BY <1>2, <1>4, <1>5, <1>6, <1>7

\* Nothing is kept of an answer but rows of its own, and what is missing is said.
LEMMA FoundSaid ==
    ASSUME NEW s \in Scans, NEW r, Proper(s, r)
    PROVE  /\ DOMAIN Found(s, r) = Sampled(r) /\ Sampled(r) \subseteq AccountSet
           /\ \A a \in Sampled(r) :
                 /\ Found(s, r)[a].rows \in Seq(ToSet(Found(s, r)[a].rows))
                 /\ \A x \in ToSet(Found(s, r)[a].rows) : Typed(x)
                 /\ Found(s, r)[a].direct =>
                       \E c \in ToSet(r.chains) : \E e \in ToSet(c.accounts) :
                          /\ e.account = a /\ e.rows = Found(s, r)[a].rows
                          /\ ~e.discoveryOnly /\ c.block.chain = Chain
                          /\ BlockOf(c, e).chain = Chain
                          /\ AmountsUsable(BlockOf(c, e), Pin[s]) /\ Honest(s, c, e)
           /\ \A a \in AccountSet \ Sampled(r) : ProviderErrors(s, r) \/ CoverageNotes(s, r)
           /\ Pin[s].fixed /\ ~CoverageNotes(s, r) =>
                 \A a \in Sampled(r) : Found(s, r)[a].direct
<1>1. DOMAIN Found(s, r) = Sampled(r) /\ Sampled(r) \subseteq AccountSet
  BY DEF Found, Sampled, Single, Wanted
<1>2. ASSUME NEW a \in Sampled(r)
      PROVE  /\ Found(s, r)[a].rows = EntryOf(r, a).rows
             /\ Found(s, r)[a].direct = Direct(s, r, a)
  BY DEF Found
<1>3. ASSUME NEW a \in Sampled(r)
      PROVE  /\ Found(s, r)[a].rows \in Seq(ToSet(Found(s, r)[a].rows))
             /\ \A x \in ToSet(Found(s, r)[a].rows) : Typed(x)
             /\ Found(s, r)[a].direct =>
                   \E c \in ToSet(r.chains) : \E e \in ToSet(c.accounts) :
                      /\ e.account = a /\ e.rows = Found(s, r)[a].rows
                      /\ ~e.discoveryOnly /\ c.block.chain = Chain
                      /\ BlockOf(c, e).chain = Chain
                      /\ AmountsUsable(BlockOf(c, e), Pin[s]) /\ Honest(s, c, e)
  <2>1. PICK e : e = EntryOf(r, a)
    OBVIOUS
  <2>2. PICK c \in ToSet(r.chains) :
          /\ e \in ToSet(c.accounts) /\ e.account = a /\ c.block.chain = Chain
          /\ SampleOf(r, a) = BlockOf(c, e) /\ BlockOf(c, e).chain = Chain
    BY <2>1, SampledFrom
  <2>3. /\ e.rows \in Seq(ToSet(e.rows)) /\ \A x \in ToSet(e.rows) : Typed(x)
        /\ Honest(s, c, e)
    BY <2>2 DEF Proper
  <2>4. Found(s, r)[a].rows = e.rows
    BY <1>2, <2>1
  <2>5. Found(s, r)[a].direct => AmountsUsable(BlockOf(c, e), Pin[s]) /\ ~e.discoveryOnly
    BY <1>2, <2>1, <2>2 DEF Direct
  <2> QED
    BY <2>2, <2>3, <2>4, <2>5
<1>4. ASSUME NEW a \in AccountSet, a \notin Sampled(r)
      PROVE  ProviderErrors(s, r) \/ CoverageNotes(s, r)
  <2>1. ASSUME NEW f \in OnChain(r) PROVE ProviderErrors(s, r) \/ CoverageNotes(s, r)
    BY DEF ProviderErrors, CoverageNotes
  <2>2. CASE FailedChain(r)
    BY <2>1, <2>2 DEF FailedChain
  <2>3. CASE a \in FailedAccounts(r)
    BY <2>1, <2>3 DEF FailedAccounts
  <2>4. CASE ~FailedChain(r) /\ a \notin FailedAccounts(r)
    <3>1. a \in Repeated(r) \/ a \in Unanswered(r)
      BY <1>4, <2>4 DEF Unanswered, Wanted
    <3> QED
      BY <2>4, <3>1 DEF ProviderErrors
  <2> QED
    BY <2>2, <2>3, <2>4
<1>5. ASSUME Pin[s].fixed, ~CoverageNotes(s, r), NEW a \in Sampled(r)
      PROVE  Found(s, r)[a].direct
  BY <1>2, <1>5 DEF CoverageNotes
<1> QED
  BY <1>1, <1>3, <1>4, <1>5

\* The answer comes in before anything is read.
LEMMA DiscoverKeeps ==
    ASSUME NEW s \in Scans, Domains, Local(s), Discover(s)
    PROVE  Local(s)'
<1> USE DEF Domains, foundVars, protocolVars, shared
<1>1. /\ pc[s] = "asks" /\ pc'[s] = "account" /\ answer'[s] = answer[s]
      /\ left'[s] = left[s] /\ rows'[s] = rows[s] /\ groups'[s] = groups[s]
      /\ running'[s] = running[s] /\ counted'[s] = counted[s]
  BY DEF Discover
<1>2. /\ found[s] = <<>> /\ left[s] = Accounts /\ rows[s] = <<>> /\ groups[s] = {}
      /\ answer[s] # NoScan /\ answer[s] \in {x[s].answer : x \in Encounters}
      /\ rows[s] \in Seq(Rows)
  BY <1>1 DEF Local, Blank, Positioned, Asking
<1>3. Blank(s)' /\ Rowed(s)' /\ GroupsOwned(s)'
  BY <1>1, <1>2 DEF Blank, Rowed, GroupsOwned, Asking, Within
<1>4. Positioned(s)'
  BY <1>1, <1>2, WalletAssumption DEF Positioned, Reading, Within, Asking
<1>5. Progress(s)'
  BY <1>1, <1>2 DEF Progress, AccountSet, Within
<1>6. Beside(s)'
  BY <1>1 DEF Local, Beside
<1>7. Discovered(s)'
  <2>1. CASE answer[s] = NoAnswer
    <3>1. found'[s] = <<>> /\ errors'[s] = TRUE
      BY <1>2, <2>1 DEF Discover
    <3>2. DOMAIN found'[s] = {}
      BY <3>1
    <3> QED
      BY <3>1, <3>2 DEF Discovered
  <2>2. CASE answer[s] # NoAnswer
    <3>1. PICK r : r = answer[s]
      OBVIOUS
    <3>2. /\ found'[s] = Found(s, r) /\ errors'[s] = ProviderErrors(s, r)
          /\ coverage'[s] = CoverageNotes(s, r) /\ answer'[s] = r
      BY <1>1, <2>2, <3>1 DEF Discover
    <3>3. Proper(s, r)
      <4>1. PICK x \in Encounters : x[s].answer = r
        BY <1>2, <3>1
      <4> QED
        BY <1>2, <2>2, <3>1, <4>1, ProviderAssumption DEF Proper, Typed
    <3>4. /\ DOMAIN found'[s] = Sampled(r) /\ Sampled(r) \subseteq AccountSet
          /\ \A a \in Sampled(r) :
                /\ found'[s][a].rows \in Seq(ToSet(found'[s][a].rows))
                /\ \A x \in ToSet(found'[s][a].rows) : Typed(x)
                /\ found'[s][a].direct =>
                      \E c \in ToSet(r.chains) : \E e \in ToSet(c.accounts) :
                         /\ e.account = a /\ e.rows = found'[s][a].rows
                         /\ ~e.discoveryOnly /\ c.block.chain = Chain
                         /\ BlockOf(c, e).chain = Chain
                         /\ AmountsUsable(BlockOf(c, e), Pin[s]) /\ Honest(s, c, e)
          /\ \A a \in AccountSet \ Sampled(r) : errors'[s] \/ coverage'[s]
          /\ Pin[s].fixed /\ ~coverage'[s] => \A a \in Sampled(r) : found'[s][a].direct
      BY <3>2, <3>3, FoundSaid
    <3>5. \A a \in Sampled(r) : found'[s][a].direct => Vouched(s, a)'
      BY <3>2, <3>4 DEF Vouched
    <3> QED
      BY <3>4, <3>5 DEF Discovered
  <2> QED
    BY <2>1, <2>2
<1> QED
  BY <1>3, <1>4, <1>5, <1>6, <1>7 DEF Local

-----------------------------------------------------------------------------
(* The invariant.                                                          *)

\* The protocols' adapters, and the response.
LEMMA BesideKeeps ==
    ASSUME NEW s \in Scans, Domains, Local(s), AdapterEnds(s) \/ Suppress(s)
    PROVE  Local(s)'
<1> USE DEF Domains, foundVars, protocolVars, shared
<1>1. CASE AdapterEnds(s)
  <2>1. PICK p \in running[s] : /\ running' = [running EXCEPT ![s] = @ \ {p}]
                                /\ counted' \in {counted, [counted EXCEPT ![s] = @ \cup {p}]}
    BY <1>1 DEF AdapterEnds
  <2>2. /\ pc' = pc /\ running'[s] = running[s] \ {p}
        /\ counted'[s] \subseteq counted[s] \cup {p}
    BY <1>1, <2>1 DEF AdapterEnds
  <2>3. pc[s] # "over" /\ running[s] \cup counted[s] \subseteq UNION {x[s].components : x \in Encounters}
    BY <2>1 DEF Local, Beside
  <2>4. Beside(s)'
    BY <2>1, <2>2, <2>3 DEF Beside
  <2> QED
    BY <1>1, <2>2, <2>4, WalletStays DEF AdapterEnds
<1>2. CASE Suppress(s)
  <2>1. /\ pc[s] = "read" /\ pc'[s] = "over" /\ running[s] = {}
        /\ running' = running /\ counted' = counted /\ groups' = groups
        /\ shown'[s] = {g \in groups[s] : ~Duplicate(s, g)}
    BY <1>2 DEF Suppress
  <2>2. Beside(s)'
    BY <2>1 DEF Local, Beside, Duplicate, HeldOf
  <2> QED
    BY <1>2, <2>1, <2>2, WalletStays DEF Suppress
<1> QED
  BY <1>1, <1>2

\* The invariant holds at first.
LEMMA InitInv == Init => Inv
<1> SUFFICES ASSUME Init PROVE Inv
  OBVIOUS
<1>1. Domains
  BY DEF Init, Domains
<1>2. OnlyRevertedSkipped
  BY DEF Init, OnlyRevertedSkipped
<1>3. ASSUME NEW s \in Scans PROVE Local(s)
  <2>1. /\ pc[s] \in Asking /\ found[s] = <<>> /\ left[s] = Accounts /\ rows[s] = <<>>
        /\ groups[s] = {} /\ skipped[s] = {} /\ counted[s] = {}
        /\ pc[s] = "asks" => answer[s] # NoScan
    BY DEF Init, Asking
  <2>2. PICK x \in Encounters : answer[s] = x[s].answer /\ running[s] = x[s].components
    BY DEF Init
  <2>3. Blank(s) /\ GroupsOwned(s) /\ Rowed(s)
    BY <2>1 DEF Blank, GroupsOwned, Rowed, Asking, Within
  <2>4. Positioned(s)
    <3>1. <<>> \in Seq(Rows)
      BY EmptySeq
    <3> QED
      BY <2>1, <2>2, <3>1, WalletAssumption DEF Positioned, Asking, Within
  <2>5. Discovered(s)
    <3>1. DOMAIN found[s] = {}
      BY <2>1
    <3> QED
      BY <2>1, <3>1 DEF Discovered, Asking, Reading, Within
  <2>6. Progress(s)
    BY <2>1 DEF Progress, Asking, Within
  <2>7. Beside(s)
    BY <2>1, <2>2 DEF Beside, Asking
  <2> QED
    BY <2>3, <2>4, <2>5, <2>6, <2>7 DEF Local
<1> QED
  BY <1>1, <1>2, <1>3 DEF Inv

\* A step of a scan keeps its own invariant.
LEMMA StepKeeps ==
    ASSUME NEW s \in Scans, Domains, Local(s), ScanStep(s)
    PROVE  Local(s)'
  BY DiscoverKeeps, StartDirectKeeps, StartDiscoveredKeeps, StartBareKeeps, NativeKeeps,
     ReadCodeKeeps, ReadBalancesKeeps, BatchFailsKeeps, RowStepKeeps, BesideKeeps
     DEF ScanStep, ReadStep

\* Every step keeps the invariant.
LEMMA NextInv == Inv /\ [Next]_vars => Inv'
<1> SUFFICES ASSUME Inv, [Next]_vars PROVE Inv'
  OBVIOUS
<1>1. Domains /\ OnlyRevertedSkipped /\ \A s \in Scans : Local(s)
  BY DEF Inv
<1>2. ASSUME NEW s \in Scans, ScanStep(s) PROVE Inv'
  <2>1. Domains' /\ \A u \in Scans \ {s} : UNCHANGED Mine(u)
    BY <1>1, <1>2, OneScan
  <2>2. OnlyRevertedSkipped'
    BY <1>1, <1>2, SkipsReverted
  <2>3. Local(s)'
    BY <1>1, <1>2, StepKeeps
  <2>4. ASSUME NEW u \in Scans \ {s} PROVE Local(u)'
    BY <1>1, <2>1, Unchanged
  <2> QED
    BY <2>1, <2>2, <2>3, <2>4 DEF Inv
<1>3. ASSUME UNCHANGED <<foundVars, pc, left, rows, groups, failed, skipped, protocolVars>>,
             listed' \subseteq listed
      PROVE  Inv'
  <2>1. Domains'
    BY <1>1, <1>3 DEF Domains, foundVars, protocolVars
  <2>2. OnlyRevertedSkipped'
    BY <1>1, <1>3 DEF OnlyRevertedSkipped, Reverts
  <2>3. ASSUME NEW u \in Scans PROVE Local(u)'
    <3>1. UNCHANGED Mine(u)
      BY <1>3 DEF Mine, foundVars, protocolVars
    <3> QED
      BY <1>1, <3>1, Unchanged
  <2> QED
    BY <2>1, <2>2, <2>3 DEF Inv
<1>4. CASE Expire
  BY <1>3, <1>4 DEF Expire
<1>5. CASE Done \/ UNCHANGED vars
  BY <1>3, <1>5 DEF Done, vars, shared
<1> QED
  BY <1>2, <1>4, <1>5 DEF Next

\* The invariant of the wallet holds in every state.
THEOREM Invariant == Spec => []Inv
  BY InitInv, NextInv, PTL DEF Spec

-----------------------------------------------------------------------------
(* Types.                                                                  *)

\* What TypeOK says of scan s; a row whose balance was read is of a token.
Kept(s) ==
    /\ IsSuffix(left[s], Accounts)
    /\ errors[s] \in BOOLEAN /\ coverage[s] \in BOOLEAN
    /\ failed[s] \subseteq AccountSet /\ skipped[s] \subseteq Tokens
    /\ counted[s] \cap running[s] = {}
    /\ shown[s] \subseteq groups[s]
    /\ pc[s] \in {"row", "metadata"} => \A r \in ToSet(rows[s]) : r.token \in Tokens

\* And of what the scans share.
Common ==
    /\ pc \in [Scans -> Asking \cup Reading]
    /\ cache \subseteq Tokens /\ listed \subseteq Tokens
    /\ IsFiniteSet(cache) /\ Cardinality(cache) <= CacheEntries

\* What a step of scan s may do to the wallet it reads.
AtRow(s) == pc[s] \in {"row", "metadata"}
Touches(s) ==
    /\ pc' = [pc EXCEPT ![s] = pc'[s]]
    /\ \/ left'[s] = left[s]
       \/ pc[s] \in Within \cup {"account"} /\ left'[s] = Tail(left[s])
    /\ \/ failed'[s] = failed[s]
       \/ pc[s] \in Within \cup {"account"} /\ failed'[s] = failed[s] \cup {Current(s)}
    /\ \/ skipped'[s] = skipped[s] /\ listed' = listed
       \/ \E gone \in SUBSET listed : skipped'[s] = skipped[s] \cup gone /\ listed' = listed
       \/ AtRow(s) /\ skipped'[s] = skipped[s] \cup {TokenOf(s)}
             /\ listed' \in {listed, listed \cup {TokenOf(s)}}
    /\ cache' = cache \/ (AtRow(s) /\ cache' = Stored(TokenOf(s)))

\* Each step but those of the protocols does no more than that.
LEMMA OnlyTouches ==
    ASSUME NEW s \in Scans, Domains, DOMAIN pc = Scans, pc \in [Scans -> Asking \cup Reading],
           ScanStep(s)
    PROVE  Touches(s)
<1> USE DEF Domains, foundVars, protocolVars, shared, Touches, Within, AtRow
<1>1. CASE Discover(s)
  BY <1>1 DEF Discover
<1>2. CASE StartDirect(s) \/ StartDiscovered(s)
  <2>1. PICK gone \in {{}, Blocked(found[s][Current(s)].rows)} :
            skipped' = [skipped EXCEPT ![s] = @ \cup gone]
    BY <1>2 DEF StartDirect, StartDiscovered
  <2>2. gone \in SUBSET listed
    BY <2>1 DEF Blocked
  <2>3. skipped'[s] = skipped[s] \cup gone
    BY <2>1
  <2>4. /\ pc[s] = "account" /\ listed' = listed /\ cache' = cache
        /\ failed'[s] = failed[s] \/ failed'[s] = failed[s] \cup {Current(s)}
    BY <1>2 DEF StartDirect, StartDiscovered, MarkFailed, AccountFails
  <2>5. pc' = [pc EXCEPT ![s] = pc'[s]]
    BY <1>2 DEF StartDirect, StartDiscovered, GoOn, NextAccount
  <2>6. left'[s] = left[s] \/ left'[s] = Tail(left[s])
    BY <1>2 DEF StartDirect, StartDiscovered, GoOn, NextAccount
  <2> QED
    BY <2>2, <2>3, <2>4, <2>5, <2>6
<1>3. CASE StartBare(s)
  BY <1>3 DEF StartBare
<1>4. CASE ReadNative(s)
  BY <1>4 DEF ReadNative, AfterNative, GoOn, NextAccount
<1>5. CASE NativeFails(s)
  BY <1>5 DEF NativeFails, AccountFails, AfterNative, GoOn, NextAccount
<1>6. CASE ReadCode(s)
  BY <1>6 DEF ReadCode, GoOn, NextAccount
<1>7. CASE ReadBalances(s)
  BY <1>7 DEF ReadBalances
<1>8. CASE BatchFails(s)
  BY <1>8 DEF BatchFails, AccountFails, NextAccount
<1>9. CASE RowEmpty(s)
  BY <1>9 DEF RowEmpty, RowSays, RowDone, GoOn, NextAccount
<1>10. CASE RowFails(s)
  BY <1>10 DEF RowFails, RowSays, AccountFails, RowDone, GoOn, NextAccount
<1>11. CASE RowReverts(s)
  BY <1>11 DEF RowReverts, RowSays, BlockReverted, RowDone, GoOn, NextAccount
<1>12. CASE RowKnown(s)
  BY <1>12 DEF RowKnown, RowSays, RowDone, GoOn, NextAccount
<1>13. CASE RowUnknown(s)
  BY <1>13 DEF RowUnknown
<1>14. CASE ReadToken(s)
  BY <1>14 DEF ReadToken, RowDone, GoOn, NextAccount
<1>15. CASE ReadTokenReverts(s)
  BY <1>15 DEF ReadTokenReverts, BlockReverted, RowDone, GoOn, NextAccount
<1>16. CASE ReadTokenFails(s)
  BY <1>16 DEF ReadTokenFails, AccountFails, RowDone, GoOn, NextAccount
<1>17. CASE AdapterEnds(s)
  BY <1>17 DEF AdapterEnds
<1>18. CASE Suppress(s)
  BY <1>18 DEF Suppress
<1> QED
  BY <1>1, <1>2, <1>3, <1>4, <1>5, <1>6, <1>7, <1>8, <1>9, <1>10, <1>11, <1>12, <1>13,
     <1>14, <1>15, <1>16, <1>17, <1>18 DEF ScanStep, ReadStep, RowStep

\* A sequence that begins as another does is its first members.
LEMMA FirstAlike ==
    ASSUME NEW S, NEW q \in Seq(S), NEW w \in Seq(S), NEW n \in Nat, Len(q) = n, n <= Len(w)
    PROVE  q = SubSeq(w, 1, n) <=> \A i \in 1..n : q[i] = w[i]
<1>1. \A i \in 1..n : w[i] \in S
  <2>1. \A i \in 1..Len(w) : w[i] \in S
    BY ElementOfSeq
  <2>2. Len(w) \in Nat
    OBVIOUS
  <2> QED
    BY <2>1, <2>2
<1>2. 1 \in Int /\ n \in Int
  OBVIOUS
<1>3. PICK run : run = SubSeq(w, 1, n)
  OBVIOUS
<1>4. /\ run \in Seq(S) /\ Len(run) = IF 1 <= n THEN n - 1 + 1 ELSE 0
      /\ \A i \in 1..(n - 1 + 1) : run[i] = w[1 + i - 1]
  BY <1>1, <1>2, <1>3, SubSeqProperties
<1>5. Len(run) = n /\ \A i \in 1..n : run[i] = w[i]
  BY <1>4
<1>6. (\A i \in 1..n : q[i] = w[i]) => q = run
  <2>1. ASSUME \A i \in 1..n : q[i] = w[i] PROVE q = run
    <3>1. Len(q) = Len(run) /\ \A i \in 1..Len(q) : q[i] = run[i]
      BY <1>5, <2>1
    <3> QED
      BY <1>4, <3>1, SeqEqual
  <2> QED
    BY <2>1
<1> QED
  BY <1>3, <1>5, <1>6

\* A sequence that ends as another does is its suffix.
LEMMA EndsAlike ==
    ASSUME NEW S, NEW q \in Seq(S), NEW w \in Seq(S)
    PROVE  IsSuffix(q, w) <=> /\ Len(q) <= Len(w)
                              /\ \A k \in 1..Len(q) : q[k] = w[Len(w) - Len(q) + k]
<1> DEFINE n == Len(q)
           m == Len(w)
           rq == [i \in 1..n |-> q[(n - i) + 1]]
           rw == [i \in 1..m |-> w[(m - i) + 1]]
<1>1. /\ n \in Nat /\ m \in Nat
      /\ \A i \in 1..n : q[i] \in S
      /\ \A i \in 1..m : w[i] \in S
  BY ElementOfSeq
<1>2. Reverse(q) = rq /\ Reverse(w) = rw
  BY DEF Reverse
<1> HIDE DEF n, m
<1>3. \A i \in 1..n : n - i + 1 \in 1..n
  BY <1>1
<1>4. \A i \in 1..m : m - i + 1 \in 1..m
  BY <1>1
<1>5. rq \in Seq(S) /\ Len(rq) = n
  <2>1. \A i \in 1..n : q[(n - i) + 1] \in S
    BY <1>1, <1>3
  <2> QED
    BY <1>1, <2>1, IsASeq
<1>6. rw \in Seq(S) /\ Len(rw) = m
  <2>1. \A i \in 1..m : w[(m - i) + 1] \in S
    BY <1>1, <1>4
  <2> QED
    BY <1>1, <2>1, IsASeq
<1>7. SubSeq(rq, 1, n) = rq
  BY <1>1, <1>5, SubSeqFull
<1>8. ASSUME n <= m
      PROVE  SubSeq(rq, 1, n) = SubSeq(rw, 1, n) <=> \A i \in 1..n : rq[i] = rw[i]
  <2>1. PICK x, y : x = rq /\ y = rw
    OBVIOUS
  <2>2. x \in Seq(S) /\ y \in Seq(S) /\ Len(x) = n /\ n <= Len(y)
    BY <1>5, <1>6, <1>8, <2>1
  <2>3. x = SubSeq(y, 1, n) <=> \A i \in 1..n : x[i] = y[i]
    BY <1>1, <2>2, FirstAlike
  <2> QED
    BY <1>7, <2>1, <2>3
<1>9. ASSUME n <= m
      PROVE  (\A i \in 1..n : rq[i] = rw[i]) <=> \A k \in 1..n : q[k] = w[m - n + k]
  <2>1. ASSUME NEW i \in 1..n PROVE rq[i] = q[n - i + 1] /\ rw[i] = w[m - i + 1]
    <3>1. i \in 1..m
      BY <1>1, <1>9
    <3> QED
      BY <3>1
  <2>2. ASSUME \A i \in 1..n : rq[i] = rw[i], NEW k \in 1..n PROVE q[k] = w[m - n + k]
    <3>1. /\ n - k + 1 \in 1..n /\ n - (n - k + 1) + 1 = k
          /\ m - (n - k + 1) + 1 = m - n + k
      BY <1>1
    <3> QED
      BY <2>1, <2>2, <3>1
  <2>3. ASSUME \A k \in 1..n : q[k] = w[m - n + k], NEW i \in 1..n PROVE rq[i] = rw[i]
    <3>1. n - i + 1 \in 1..n /\ m - n + (n - i + 1) = m - i + 1
      BY <1>1
    <3>2. q[n - i + 1] = w[m - n + (n - i + 1)]
      BY <2>3, <3>1
    <3> QED
      BY <2>1, <3>1, <3>2
  <2> QED
    BY <2>2, <2>3
<1>10. IsSuffix(q, w) <=> n <= m /\ SubSeq(rq, 1, n) = SubSeq(rw, 1, n)
  BY <1>2, <1>5, <1>6 DEF IsSuffix, IsPrefix
<1> QED
  BY <1>8, <1>9, <1>10 DEF n, m

\* The accounts left after one more.
LEMMA FewerLeft ==
    ASSUME NEW S, NEW q \in Seq(S), NEW w \in Seq(S), q # <<>>, IsSuffix(q, w)
    PROVE  IsSuffix(Tail(q), w)
<1>1. /\ Len(q) \in Nat \ {0} /\ Len(w) \in Nat /\ Tail(q) \in Seq(S)
      /\ Len(Tail(q)) = Len(q) - 1 /\ \A i \in 1..Len(Tail(q)) : Tail(q)[i] = q[i + 1]
  BY EmptySeq, LenProperties, HeadTailProperties
<1>2. Len(Tail(q)) \in Nat
  BY <1>1
<1>3. PICK n \in Nat : n = Len(Tail(q))
  BY <1>2
<1>4. PICK m \in Nat : m = Len(w)
  BY <1>1
<1>5. Len(q) = n + 1
  BY <1>1, <1>3
<1>6. Len(q) <= Len(w) /\ \A k \in 1..Len(q) : q[k] = w[Len(w) - Len(q) + k]
  BY EndsAlike
<1>7. n + 1 <= m /\ \A k \in 1..(n + 1) : q[k] = w[m - (n + 1) + k]
  BY <1>4, <1>5, <1>6
<1>8. ASSUME NEW k \in 1..n PROVE Tail(q)[k] = w[m - n + k]
  <2>1. k + 1 \in 1..(n + 1) /\ m - (n + 1) + (k + 1) = m - n + k
    BY <1>2
  <2>2. q[k + 1] = w[m - (n + 1) + (k + 1)]
    BY <1>7, <2>1
  <2> QED
    BY <1>1, <1>3, <2>1, <2>2
<1>9. n <= m
  BY <1>7
<1>10. Len(Tail(q)) <= Len(w)
       /\ \A k \in 1..Len(Tail(q)) : Tail(q)[k] = w[Len(w) - Len(Tail(q)) + k]
  BY <1>3, <1>8, <1>9, <1>4
<1> QED
  BY <1>1, <1>10, EndsAlike

\* The rows an account with amounts of its own starts with are of tokens.
LEMMA DirectRowsOfTokens ==
    ASSUME NEW s \in Scans, Domains, Local(s), StartDirect(s)
    PROVE  \A r \in ToSet(rows'[s]) : r.token \in Tokens
<1>1. PICK a, given : /\ a = Current(s) /\ a \in DOMAIN found[s]
                      /\ given = found[s][Current(s)].rows
  BY DEF StartDirect
<1>2. given \in Seq(ToSet(given)) /\ \A r \in ToSet(given) : Typed(r)
  BY <1>1 DEF Local, Discovered
<1>3. PICK gone \in {{}, Blocked(found[s][Current(s)].rows)} :
          LET rs == Unblocked(found[s][Current(s)].rows, gone)
              kept == DirectRows(rs)
          IN  GoOn(s, Chosen(kept, {i \in DOMAIN kept : kept[i].token # Native}), "row")
  BY DEF StartDirect
<1>4. PICK rs : rs = Unblocked(given, gone)
  OBVIOUS
<1>5. PICK kept : kept = DirectRows(rs)
  OBVIOUS
<1>6. PICK rest : rest = Chosen(kept, {i \in DOMAIN kept : kept[i].token # Native})
  OBVIOUS
<1>7. rs \in Seq(ToSet(given))
  BY <1>2, <1>4, UnblockedRows
<1>8. kept \in Seq(Rows)
  BY <1>2, <1>5, <1>7, DirectRowsOf
<1>9. GoOn(s, rest, "row")
  BY <1>1, <1>3, <1>4, <1>5, <1>6
<1>10. rows'[s] = <<>> \/ rows'[s] = rest
  BY <1>9 DEF GoOn, NextAccount, Domains
<1>11. ASSUME NEW r \in ToSet(rest) PROVE r.token \in Tokens
  <2>1. {i \in DOMAIN kept : kept[i].token # Native} \in SUBSET (1..Len(kept))
    BY <1>8
  <2>2. PICK i \in DOMAIN kept : r = kept[i] /\ kept[i].token # Native
    BY <1>6, <1>8, <1>11, <2>1, ChosenMembers
  <2>3. kept[i] \in Rows
    BY <1>8
  <2> QED
    BY <2>2, <2>3 DEF Rows, Assets
<1>12. ToSet(<<>>) = {}
  BY DEF ToSet
<1> QED
  BY <1>10, <1>11, <1>12

\* The rows of an account whose balances were read are of tokens, the native coin's
\* was handled before.
LEMMA RowsOfTokens ==
    ASSUME NEW s \in Scans, Domains, Local(s), Kept(s), ScanStep(s), AtRow(s)'
    PROVE  \A r \in ToSet(rows'[s]) : r.token \in Tokens
<1> USE DEF Domains, AtRow
<1>1. AtRow(s) => /\ \A r \in ToSet(rows[s]) : r.token \in Tokens
                  /\ \A r \in ToSet(Tail(rows[s])) : r.token \in Tokens
  BY FirstRow DEF Kept
<1>2. ToSet(<<>>) = {}
  BY DEF ToSet
<1>3. CASE RowStep(s) \/ AdapterEnds(s)
  <2>1. AtRow(s)
    BY <1>3 DEF RowStep, RowEmpty, RowFails, RowReverts, RowKnown, RowUnknown, ReadToken,
                ReadTokenReverts, ReadTokenFails, RowSays, AdapterEnds
  <2>2. rows'[s] \in {<<>>, Tail(rows[s]), rows[s]}
    BY <1>3 DEF RowStep, RowEmpty, RowFails, RowReverts, RowKnown, RowUnknown, ReadToken,
                ReadTokenReverts, ReadTokenFails, RowDone, GoOn, NextAccount, AdapterEnds
  <2> QED
    BY <1>1, <1>2, <2>1, <2>2
<1>4. CASE StartDirect(s)
  BY <1>4, DirectRowsOfTokens
<1>5. CASE ReadBalances(s)
  <2>1. pc[s] = "balances"
    BY <1>5 DEF ReadBalances
  <2>2. PICK broken : rows' = [rows EXCEPT ![s] = [i \in DOMAIN @ |-> Answered(s, @[i], broken)]]
    BY <1>5 DEF ReadBalances
  <2>3. rows[s] \in Seq(Rows) /\ \A r \in ToSet(rows[s]) : r.token # Native
    BY <2>1 DEF Local, Positioned, Rowed, Fits, Within
  <2>4. rows'[s] = [i \in DOMAIN rows[s] |-> Answered(s, rows[s][i], broken)]
    BY <2>2
  <2>5. ASSUME NEW i \in DOMAIN rows[s] PROVE Answered(s, rows[s][i], broken).token \in Tokens
    <3>1. rows[s][i] \in Rows /\ rows[s][i] \in ToSet(rows[s])
      BY <2>3 DEF ToSet
    <3>2. rows[s][i].token \in Tokens
      BY <2>3, <3>1 DEF Rows, Assets
    <3> QED
      BY <3>2 DEF Answered, Row
  <2> QED
    BY <2>4, <2>5 DEF ToSet
<1>6. CASE Discover(s) \/ StartDiscovered(s) \/ StartBare(s) \/ Suppress(s)
  BY <1>6 DEF Discover, StartDiscovered, StartBare, Suppress
<1>7. CASE ReadNative(s) \/ NativeFails(s)
  BY <1>7 DEF ReadNative, NativeFails, AfterNative, GoOn, NextAccount
<1>8. CASE ReadCode(s) \/ BatchFails(s)
  BY <1>8 DEF ReadCode, BatchFails, GoOn, NextAccount
<1> QED
  BY <1>3, <1>4, <1>5, <1>6, <1>7, <1>8 DEF ScanStep, ReadStep

\* A step keeps the types of its scan and of what scans share.
LEMMA TypesKept ==
    ASSUME NEW s \in Scans, Domains, Local(s), Local(s)', Kept(s), Common, ScanStep(s)
    PROVE  Kept(s)' /\ Common'
<1>1. Touches(s)
  BY OnlyTouches DEF Common, Domains
<1>2. Domains'
  BY OneScan
<1>3. pc[s] \in Within \cup {"account"} => Current(s) \in AccountSet /\ left[s] # <<>>
  BY Accounting DEF Local, Positioned
<1>4. AtRow(s) => TokenOf(s) \in Tokens
  BY FirstRow DEF AtRow, TokenOf, Kept
<1>5. IsSuffix(left[s], Accounts)'
  <2>1. left[s] \in Seq(AccountSet) /\ Accounts \in Seq(AccountSet)
    BY WalletAssumption DEF Local, Positioned
  <2>2. left[s] # <<>> => IsSuffix(Tail(left[s]), Accounts)
    BY <2>1, FewerLeft DEF Kept
  <2> QED
    BY <1>1, <1>3, <2>2 DEF Touches, Kept
<1>6. failed'[s] \subseteq AccountSet
  BY <1>1, <1>3 DEF Touches, Kept
<1>7. skipped'[s] \subseteq Tokens /\ listed' \subseteq Tokens
  BY <1>1, <1>4 DEF Touches, Kept, Common
<1>8. cache' \subseteq Tokens /\ IsFiniteSet(cache)' /\ (Cardinality(cache) <= CacheEntries)'
  <2>1. CASE cache' = cache
    BY <2>1 DEF Common
  <2>2. CASE AtRow(s) /\ cache' = Stored(TokenOf(s))
    <3>1. PICK t, kept : t = TokenOf(s) /\ kept = cache'
      OBVIOUS
    <3>2. t \in Tokens /\ kept = Stored(t)
      BY <1>4, <2>2, <3>1
    <3>3. IsFiniteSet(cache) /\ Cardinality(cache) \in Nat /\ CacheEntries \in Nat
      BY FS_CardinalityType, WalletAssumption DEF Common
    <3>4. /\ IsFiniteSet(cache \cup {t})
          /\ Cardinality(cache \cup {t}) \in {Cardinality(cache), Cardinality(cache) + 1}
      BY <3>3, FS_AddElement
    <3>5. kept \subseteq Tokens /\ IsFiniteSet(kept) /\ Cardinality(kept) <= CacheEntries
      <4>1. CASE Cardinality(cache) < CacheEntries
        <5>1. kept = cache \cup {t}
          BY <3>2, <4>1 DEF Stored
        <5>2. Cardinality(cache \cup {t}) <= CacheEntries
          BY <3>3, <3>4, <4>1
        <5> QED
          BY <3>2, <3>4, <5>1, <5>2 DEF Common
      <4>2. CASE ~(Cardinality(cache) < CacheEntries)
        <5>1. kept = cache
          BY <3>2, <4>2 DEF Stored
        <5> QED
          BY <5>1 DEF Common
      <4> QED
        BY <4>1, <4>2
    <3> QED
      BY <3>1, <3>5
  <2> QED
    BY <1>1, <2>1, <2>2 DEF Touches
<1>9. pc' \in [Scans -> Asking \cup Reading]
  <2>1. pc'[s] \in Asking \cup Reading
    BY DEF Local, Positioned
  <2> QED
    BY <1>1, <2>1 DEF Touches, Common
<1>10. errors'[s] \in BOOLEAN /\ coverage'[s] \in BOOLEAN
  <2>1. CASE errors' = errors /\ coverage' = coverage
    BY <2>1 DEF Kept
  <2>2. CASE Discover(s)
    <3>1. \A r : ProviderErrors(s, r) \in BOOLEAN
      BY DEF ProviderErrors
    <3>2. \A r : CoverageNotes(s, r) \in BOOLEAN
      BY DEF CoverageNotes
    <3>3. PICK e, c \in BOOLEAN :
              e = ProviderErrors(s, answer[s]) /\ c = CoverageNotes(s, answer[s])
      BY <3>1, <3>2
    <3>4. /\ errors'[s] = TRUE \/ errors'[s] = e
          /\ coverage'[s] = coverage[s] \/ coverage'[s] = c
      BY <2>2, <3>3 DEF Discover, Domains
    <3> QED
      BY <3>3, <3>4 DEF Kept
  <2>3. CASE ReadStep(s)
    BY <2>1, <2>3 DEF ReadStep, StartDirect, StartDiscovered, StartBare, ReadNative,
       NativeFails, ReadCode, ReadBalances, BatchFails, foundVars
  <2>4. CASE RowStep(s)
    BY <2>1, <2>4 DEF RowStep, RowEmpty, RowFails, RowReverts, RowKnown, RowUnknown, ReadToken,
       ReadTokenReverts, ReadTokenFails, foundVars
  <2>5. CASE AdapterEnds(s) \/ Suppress(s)
    BY <2>1, <2>5 DEF AdapterEnds, Suppress, foundVars
  <2> QED
    BY <2>2, <2>3, <2>4, <2>5 DEF ScanStep
<1>11. (counted[s] \cap running[s] = {})' /\ (shown[s] \subseteq groups[s])'
  <2>1. ASSUME UNCHANGED protocolVars, groups[s] \subseteq groups'[s]
        PROVE  (counted[s] \cap running[s] = {})' /\ (shown[s] \subseteq groups[s])'
    BY <2>1 DEF Kept, protocolVars
  <2>2. CASE Discover(s)
    BY <2>1, <2>2 DEF Discover
  <2>3. CASE ReadStep(s)
    <3>1. UNCHANGED protocolVars
      BY <2>3 DEF ReadStep, StartDirect, StartDiscovered, StartBare, ReadNative, NativeFails,
         ReadCode, ReadBalances, BatchFails
    <3>2. groups[s] \subseteq groups'[s]
      BY <2>3 DEF ReadStep, StartDirect, StartDiscovered, StartBare, ReadNative, NativeFails,
         ReadCode, ReadBalances, BatchFails, AddGroup, Domains
    <3> QED
      BY <2>1, <3>1, <3>2
  <2>4. CASE RowStep(s)
    <3>1. UNCHANGED protocolVars
      BY <2>4 DEF RowStep, RowEmpty, RowFails, RowReverts, RowKnown, RowUnknown, ReadToken,
         ReadTokenReverts, ReadTokenFails
    <3>2. groups[s] \subseteq groups'[s]
      BY <2>4 DEF RowStep, RowEmpty, RowFails, RowReverts, RowKnown, RowUnknown, ReadToken,
         ReadTokenReverts, ReadTokenFails, AddGroup, Domains
    <3> QED
      BY <2>1, <3>1, <3>2
  <2>5. CASE AdapterEnds(s)
    <3>1. PICK p \in running[s] :
              /\ running' = [running EXCEPT ![s] = @ \ {p}]
              /\ counted' \in {counted, [counted EXCEPT ![s] = @ \cup {p}]}
      BY <2>5 DEF AdapterEnds
    <3>2. /\ running'[s] = running[s] \ {p}
          /\ counted'[s] \subseteq counted[s] \cup {p}
          /\ shown' = shown /\ groups' = groups
      BY <2>5, <3>1 DEF AdapterEnds, Domains
    <3> QED
      BY <3>2 DEF Kept
  <2>6. CASE Suppress(s)
    BY <2>6 DEF Suppress, Kept, Domains
  <2> QED
    BY <2>2, <2>3, <2>4, <2>5, <2>6 DEF ScanStep
<1>12. AtRow(s)' => (\A r \in ToSet(rows[s]) : r.token \in Tokens)'
  BY RowsOfTokens
<1> QED
  BY <1>5, <1>6, <1>7, <1>8, <1>9, <1>10, <1>11, <1>12 DEF Kept, Common, AtRow

\* The types, with the bound of the token cache and what may be in it and on the
\* blocklist: tokens, never the native coin (walletTokenCache, blockReverted).
THEOREM TypeCorrect == Spec => []TypeOK
<1> DEFINE Types == Common /\ \A s \in Scans : Kept(s)
<1>1. Init => Types
  <2> SUFFICES ASSUME Init PROVE Types
    OBVIOUS
  <2>1. pc \in [Scans -> Asking \cup Reading]
    BY DEF Init, Asking
  <2>2. IsFiniteSet(cache) /\ Cardinality(cache) = 0
    BY FS_EmptySet DEF Init
  <2>3. CacheEntries \in Nat /\ Accounts \in Seq(AccountSet)
    BY WalletAssumption
  <2>4. Common
    BY <2>1, <2>2, <2>3 DEF Init, Common
  <2>5. IsSuffix(Accounts, Accounts)
    <3>1. /\ Len(Accounts) <= Len(Accounts)
          /\ \A k \in 1..Len(Accounts) :
                Accounts[k] = Accounts[Len(Accounts) - Len(Accounts) + k]
      BY <2>3
    <3> QED
      BY <2>3, <3>1, EndsAlike
  <2>6. ASSUME NEW s \in Scans PROVE Kept(s)
    BY <2>5 DEF Init, Kept
  <2> QED
    BY <2>4, <2>6
<1>2. Inv /\ Inv' /\ Types /\ [Next]_vars => Types'
  <2> SUFFICES ASSUME Inv, Inv', Types, [Next]_vars PROVE Types'
    OBVIOUS
  <2>1. ASSUME NEW s \in Scans, ScanStep(s) PROVE Types'
    <3>1. Kept(s)' /\ Common'
      BY <2>1, TypesKept DEF Inv
    <3>2. ASSUME NEW u \in Scans \ {s} PROVE Kept(u)'
      <4>1. UNCHANGED Mine(u)
        BY <2>1, OneScan DEF Inv
      <4> QED
        BY <4>1 DEF Mine, Kept
    <3> QED
      BY <3>1, <3>2
  <2>2. ASSUME UNCHANGED <<foundVars, pc, left, rows, groups, failed, skipped, protocolVars,
                           cache>>,
               listed' \subseteq listed
        PROVE  Types'
    <3>1. Common'
      BY <2>2 DEF Common
    <3>2. ASSUME NEW s \in Scans PROVE Kept(s)'
      BY <2>2 DEF Kept, foundVars, protocolVars
    <3> QED
      BY <3>1, <3>2
  <2>3. CASE Expire
    BY <2>2, <2>3 DEF Expire
  <2>4. CASE Done \/ UNCHANGED vars
    BY <2>2, <2>4 DEF Done, vars, shared
  <2> QED
    BY <2>1, <2>3, <2>4 DEF Next
<1>3. Inv /\ Types => TypeOK
  <2> SUFFICES ASSUME Inv, Types PROVE TypeOK
    OBVIOUS
  <2>1. pc \in [Scans -> {"none", "asks", "account", "native", "code", "balances", "row",
                          "metadata", "read", "over"}]
    BY DEF Common, Asking, Reading, Within
  <2>2. ASSUME NEW s \in Scans
        PROVE  /\ DOMAIN found[s] \subseteq AccountSet
               /\ pc[s] \in {"row", "metadata"} => rows[s] # <<>>
    BY DEF Inv, Local, Discovered, Positioned, Within
  <2> QED
    BY <2>1, <2>2 DEF TypeOK, Common, Kept
<1> QED
  BY <1>1, <1>2, <1>3, Invariant, PTL DEF Spec

-----------------------------------------------------------------------------
(* What the invariant says of the response.                                *)

\* A stamp tells the account it was made of.
LEMMA Stamped ==
    ASSUME NEW a \in AccountSet, NEW g, g.stamp = Stamp(a)
    PROVE  GroupAccount(g) = a
<1>1. ZeroAddress \notin AccountSet
  BY WalletAssumption
<1> QED
  BY <1>1 DEF GroupAccount, Stamp

\* The account and the token of a holding.
LEMMA OwnedBy ==
    ASSUME NEW s \in Scans, NEW g, Owned(s, g)
    PROVE  /\ GroupAccount(g) \in AccountSet /\ g.token \in Assets /\ g.amount \in Nat \ {0}
           /\ g.stamp = Stamp(GroupAccount(g))
           /\ Right(s, GroupAccount(g), g.token, g.amount)
<1>1. PICK a \in AccountSet, t \in Assets :
        /\ g = [stamp |-> Stamp(a), token |-> t, amount |-> g.amount]
        /\ Right(s, a, t, g.amount) /\ g.amount \in Nat \ {0}
  BY DEF Owned
<1>2. g.stamp = Stamp(a) /\ g.token = t
  BY <1>1
<1>3. GroupAccount(g) = a
  BY <1>2, Stamped
<1> QED
  BY <1>1, <1>2, <1>3

\* A product that a Duration can hold is not changed by becoming one.
LEMMA DurationHolds ==
    ASSUME NEW n \in Nat, n < Width \div 2
    PROVE  Duration(n) = n
<1>1. Width \in Nat /\ Width # 0 /\ n < Width /\ n % Width = n
  <2>1. Width \in Nat /\ n < Width \div 2
    BY WalletAssumption
  <2> QED
    BY <2>1
<1> QED
  BY <1>1 DEF Duration

\* A sample whose amounts are usable is of the pin's very state, or a live scan's
\* within the window unless its time is too far to measure.
LEMMA UsableSample ==
    ASSUME NEW s \in Scans, NEW b, b.time \in Nat, AmountsUsable(b, Pin[s])
    PROVE  \/ b.hash = Pin[s].hash
           \/ /\ ~Pin[s].fixed /\ b.number # Pin[s].number
              /\ Representable(b, Pin[s]) => Gap(b.time, Pin[s].time) <= Window
<1>1. PICK gap, w, sec : gap = Gap(b.time, Pin[s].time) /\ w = Window /\ sec = Second
  OBVIOUS
<1>2. gap \in Nat /\ w \in Nat /\ sec \in Nat \ {0}
  BY <1>1, WalletAssumption DEF Gap
<1>3. CASE b.number = Pin[s].number
  BY <1>3 DEF AmountsUsable, Mislabelled
<1>4. CASE b.number # Pin[s].number
  <2>1. ~Pin[s].fixed /\ Duration(gap * sec) <= w * sec
    BY <1>1, <1>4 DEF AmountsUsable, LiveSample
  <2>2. ASSUME Representable(b, Pin[s]) PROVE gap <= w
    <3>1. gap * sec \in Nat /\ gap * sec < Width \div 2
      BY <1>1, <1>2, <2>2 DEF Representable
    <3>2. gap * sec <= w * sec
      BY <2>1, <3>1, DurationHolds
    <3> QED
      BY <1>2, <3>2
  <2> QED
    BY <1>1, <1>4, <2>1, <2>2
<1> QED
  BY <1>3, <1>4

\* A direct account's rows are an honest entry's.
LEMMA DirectVouched ==
    ASSUME NEW s \in Scans, Local(s), NEW a \in DOMAIN found[s], found[s][a].direct
    PROVE  \E c \in ToSet(answer[s].chains) : \E e \in ToSet(c.accounts) :
              /\ e.account = a /\ e.rows = found[s][a].rows /\ ~e.discoveryOnly
              /\ BlockOf(c, e).time \in Nat /\ AmountsUsable(BlockOf(c, e), Pin[s])
              /\ \A r \in ToSet(e.rows) :
                    r.chain = Chain /\ r.token # ZeroAddress /\ r.amount > 0
                    => r.amount = Held[BlockOf(c, e).hash][a][r.token]
              /\ \A t \in Assets : Held[BlockOf(c, e).hash][a][t] > 0
                    => \E r \in ToSet(e.rows) : r.chain = Chain /\ r.token = t /\ r.amount > 0
<1>1. a \in AccountSet /\ Vouched(s, a)
  BY DEF Local, Discovered
<1>2. PICK c \in ToSet(answer[s].chains) : \E e \in ToSet(c.accounts) :
        /\ e.account = a /\ e.rows = found[s][a].rows /\ ~e.discoveryOnly
        /\ c.block.chain = Chain /\ BlockOf(c, e).chain = Chain
        /\ AmountsUsable(BlockOf(c, e), Pin[s])
        /\ Honest(s, c, e)
  BY <1>1 DEF Vouched
<1>3. PICK e \in ToSet(c.accounts) :
        /\ e.account = a /\ e.rows = found[s][a].rows /\ ~e.discoveryOnly
        /\ c.block.chain = Chain /\ BlockOf(c, e).chain = Chain
        /\ AmountsUsable(BlockOf(c, e), Pin[s])
        /\ Honest(s, c, e)
  BY <1>2
<1>4. /\ BlockOf(c, e).time \in Nat
      /\ \A r \in ToSet(e.rows) :
            r.chain = Chain /\ r.token # ZeroAddress /\ r.amount > 0
            => r.amount = Held[BlockOf(c, e).hash][a][r.token]
      /\ \A t \in Assets : Held[BlockOf(c, e).hash][a][t] > 0
            => \E r \in ToSet(e.rows) : r.chain = Chain /\ r.token = t /\ r.amount > 0
  BY <1>1, <1>3 DEF Honest
<1> QED
  BY <1>3, <1>4

\* Every amount is the account's, at the pin or in a sample a live scan may take.
LEMMA InvAmounts == Inv => AmountsCurrent
<1> SUFFICES ASSUME Inv, NEW s \in Scans, NEW g \in groups[s],
                    g.amount # Amount(g, Pin[s].hash)
             PROVE  /\ ~Pin[s].fixed
                    /\ \E c \in ToSet(answer[s].chains) : \E e \in ToSet(c.accounts) :
                          LET b == BlockOf(c, e)
                          IN  /\ e.account = GroupAccount(g) /\ ~e.discoveryOnly
                              /\ b.number # Pin[s].number
                              /\ Representable(b, Pin[s]) => Gap(b.time, Pin[s].time) <= Window
                              /\ g.amount = Amount(g, b.hash)
  BY DEF AmountsCurrent
<1>1. Local(s) /\ Owned(s, g)
  BY DEF Inv, Local, GroupsOwned
<1>2. PICK a, t : a = GroupAccount(g) /\ t = g.token
  OBVIOUS
<1>3. t \in Assets /\ t # ZeroAddress /\ g.amount \in Nat \ {0} /\ Right(s, a, t, g.amount)
  BY <1>1, <1>2, OwnedBy, WalletAssumption
<1>4. PICK r \in ToSet(found[s][a].rows) : r.chain = Chain /\ r.token = t /\ r.amount = g.amount
  BY <1>2, <1>3 DEF Right, Amount
<1>5. a \in DOMAIN found[s] /\ found[s][a].direct
  BY <1>2, <1>3 DEF Right, Amount
<1>6. PICK c \in ToSet(answer[s].chains) : \E e \in ToSet(c.accounts) :
        /\ e.account = a /\ e.rows = found[s][a].rows /\ ~e.discoveryOnly
        /\ BlockOf(c, e).time \in Nat /\ AmountsUsable(BlockOf(c, e), Pin[s])
        /\ \A x \in ToSet(e.rows) :
              x.chain = Chain /\ x.token # ZeroAddress /\ x.amount > 0
              => x.amount = Held[BlockOf(c, e).hash][a][x.token]
  BY <1>1, <1>5, DirectVouched
<1>7. PICK e \in ToSet(c.accounts) :
        /\ e.account = a /\ e.rows = found[s][a].rows /\ ~e.discoveryOnly
        /\ BlockOf(c, e).time \in Nat /\ AmountsUsable(BlockOf(c, e), Pin[s])
        /\ \A x \in ToSet(e.rows) :
              x.chain = Chain /\ x.token # ZeroAddress /\ x.amount > 0
              => x.amount = Held[BlockOf(c, e).hash][a][x.token]
  BY <1>6
<1>8. g.amount = Held[BlockOf(c, e).hash][a][t]
  BY <1>3, <1>4, <1>7
<1>9. g.amount = Amount(g, BlockOf(c, e).hash) /\ BlockOf(c, e).hash # Pin[s].hash
  BY <1>2, <1>8 DEF Amount
<1>10. /\ ~Pin[s].fixed /\ BlockOf(c, e).number # Pin[s].number
       /\ Representable(BlockOf(c, e), Pin[s]) =>
              Gap(BlockOf(c, e).time, Pin[s].time) <= Window
  BY <1>7, <1>9, UsableSample
<1> QED
  BY <1>2, <1>7, <1>9, <1>10

\* A historical wallet without an error or a note is exact.
LEMMA InvFixed == Inv => FixedExact
<1> SUFFICES ASSUME Inv, NEW s \in Scans, IsRead(s), Pin[s].fixed, ~errors[s],
                    ~coverage[s], failed[s] = {}, skipped[s] = {},
                    NEW a \in AccountSet, NEW t \in Assets
             PROVE  Has(s, a, t) <=> Held[Pin[s].hash][a][t] > 0
  BY DEF FixedExact
<1>1. Local(s) /\ pc[s] \in Reading
  BY DEF Inv, IsRead, Reading
<1>2. a \in DOMAIN found[s] /\ found[s][a].direct
  BY <1>1 DEF Local, Discovered
<1>3. ASSUME Has(s, a, t) PROVE Held[Pin[s].hash][a][t] > 0
  <2>1. PICK g \in groups[s] : GroupAccount(g) = a /\ g.token = t
    BY <1>3 DEF Has
  <2>2. g.amount \in Nat \ {0}
    BY <1>1, OwnedBy DEF Local, GroupsOwned
  <2>3. g.amount = Held[Pin[s].hash][a][t]
    BY <2>1, InvAmounts DEF AmountsCurrent, Amount
  <2> QED
    BY <2>2, <2>3
<1>4. ASSUME Held[Pin[s].hash][a][t] > 0 PROVE Has(s, a, t)
  <2>1. PICK c \in ToSet(answer[s].chains) : \E e \in ToSet(c.accounts) :
          /\ e.rows = found[s][a].rows
          /\ BlockOf(c, e).time \in Nat /\ AmountsUsable(BlockOf(c, e), Pin[s])
          /\ \A x \in Assets : Held[BlockOf(c, e).hash][a][x] > 0
                => \E r \in ToSet(e.rows) : r.chain = Chain /\ r.token = x /\ r.amount > 0
    BY <1>1, <1>2, DirectVouched
  <2>2. PICK e \in ToSet(c.accounts) :
          /\ e.rows = found[s][a].rows
          /\ BlockOf(c, e).time \in Nat /\ AmountsUsable(BlockOf(c, e), Pin[s])
          /\ \A x \in Assets : Held[BlockOf(c, e).hash][a][x] > 0
                => \E r \in ToSet(e.rows) : r.chain = Chain /\ r.token = x /\ r.amount > 0
    BY <2>1
  <2>3. BlockOf(c, e).hash = Pin[s].hash
    BY <2>2, UsableSample
  <2>4. \E r \in ToSet(found[s][a].rows) : r.chain = Chain /\ r.token = t /\ r.amount > 0
    BY <1>4, <2>2, <2>3
  <2>5. Worth(s, a, t)
    BY <1>2, <2>4 DEF Worth
  <2>6. Settled(s, a, t)
    BY <1>1 DEF Local, Progress, IsRead
  <2> QED
    BY <2>5, <2>6 DEF Settled
<1> QED
  BY <1>3, <1>4

\* What the wallet knew of is reported or its absence is.
LEMMA InvNothing == Inv => NothingDropped
<1> SUFFICES ASSUME Inv, NEW s \in Scans, IsRead(s), NEW a \in AccountSet
             PROVE  /\ a \notin DOMAIN found[s] => errors[s] \/ coverage[s]
                    /\ \A t \in Assets :
                          Worth(s, a, t) => Has(s, a, t) \/ a \in failed[s] \/ t \in skipped[s]
  BY DEF NothingDropped, Inv
<1>1. Local(s) /\ pc[s] \in Reading
  BY DEF Inv, IsRead, Reading
<1>2. \A t \in Assets : Settled(s, a, t)
  BY <1>1 DEF Local, Progress, IsRead
<1> QED
  BY <1>1, <1>2 DEF Local, Discovered, Settled

\* The response leaves out just the holdings a component consumed.
LEMMA InvCounted == Inv => CountedOnce
<1> SUFFICES ASSUME Inv, NEW s \in Scans, pc[s] = "over", NEW g \in groups[s]
             PROVE  g \in shown[s] <=> ~\E p \in counted[s] :
                       p.chain = Chain /\ p.stamp = g.stamp /\ g.token \in p.consumed
  BY DEF CountedOnce
<1>1. /\ g \in shown[s] <=> ~Duplicate(s, g)
      /\ counted[s] \subseteq UNION {x[s].components : x \in Encounters}
  BY DEF Inv, Local, Beside
<1>2. PICK a, t : a = GroupAccount(g) /\ t = g.token
  OBVIOUS
<1>3. a \in AccountSet /\ t \in Assets /\ g.stamp = Stamp(a)
  BY <1>2, OwnedBy DEF Inv, Local, GroupsOwned
<1>4. ASSUME NEW p \in counted[s]
      PROVE  /\ Native \notin p.consumed
             /\ GroupAccount(p) = a <=> p.stamp = g.stamp
             /\ p.chain = Chain /\ t # Native => (t \in p.consumed <=> t \in HeldContracts(p))
  <2>1. PICK x \in Encounters : p \in x[s].components
    BY <1>1
  <2>2. /\ p.stamp \in {Stamp(b) : b \in AccountSet} /\ Native \notin p.consumed
        /\ p.chain = Chain => p.consumed \cap Tokens = HeldContracts(p) \cap Tokens
    BY <2>1, AdapterAssumption
  <2>3. PICK b \in AccountSet : p.stamp = Stamp(b)
    BY <2>2
  <2>4. GroupAccount(p) = b /\ (p.stamp = g.stamp => GroupAccount(p) = a)
    BY <1>3, <2>3, Stamped
  <2>5. t # Native => t \in Tokens
    BY <1>3 DEF Assets
  <2> QED
    BY <1>3, <2>2, <2>3, <2>4, <2>5
<1>5. Duplicate(s, g) <=>
         /\ t # Native
         /\ \E p \in counted[s] : p.chain = Chain /\ GroupAccount(p) = a /\ t \in HeldContracts(p)
  BY <1>2 DEF Duplicate, AddressOf, HeldOf
<1> QED
  BY <1>1, <1>2, <1>4, <1>5

\* Every reported amount is the account's at the pin, or a live scan's from a sample
\* of the provider within the window or too far off to be measured: no other amount
\* gets in (configureWalletBalances, walletProviderAmountsUsable).
THEOREM AmountsAreCurrent == Spec => []AmountsCurrent
  BY Invariant, InvAmounts, PTL

\* A historical wallet that reports no error and no coverage note holds exactly what
\* the accounts held at the pin (configureWalletBalances, providerWalletGroups).
THEOREM FixedIsExact == Spec => []FixedExact
  BY Invariant, InvFixed, PTL

\* What the wallet knew of is in the response or its absence is reported, and only a
\* revert hides a token (engine.go's loop over the accounts, providerWalletGroups,
\* blockReverted).
THEOREM NothingIsDropped == Spec => []NothingDropped
  BY Invariant, InvNothing, PTL

\* A holding is left out of the response just when a protocol's component there
\* consumed that very balance (suppressDuplicateHoldings).
THEOREM EachCountedOnce == Spec => []CountedOnce
  BY Invariant, InvCounted, PTL

-----------------------------------------------------------------------------
(* Pricing: what the components of a response are worth.                   *)

\* The instant a token is quoted at: a chain has one pin.
InstantOf(t) == PinTime[t[1]]

Tok(p) == priceToken(Component(p))
ChainOf(p) == snapshots[p[1]].chain

\* The tokens a scan must quote.
Queries == {[at |-> at, tokens |-> WantedAt(at)] : at \in Instants}

\* A component without a quote has an error that names its chain or none.
Said(p) == \E c \in {NoChain, ChainOf(p)} : <<"pricing", c>> \in priceErrors

\* Component p comes before the cursor.
Passed(p) ==
    \/ p[1] < cursor[1]
    \/ p[1] = cursor[1] /\ (p[2] < cursor[2] \/ (p[2] = cursor[2] /\ p[3] < cursor[3]))

Fetching == {"collect", "fetch"}
Valuing == {"value", "done", "failed"}

\* What is asked, and what came of it: a token that is wanted is quoted, or an error
\* says it is not, or it is still to be asked for.
Quoting ==
    /\ phase \in Fetching \cup Valuing /\ snapshots \in Portfolios
    /\ queries \in Seq(Queries) /\ (phase # "fetch" => queries = <<>>)
    /\ \A t \in DOMAIN prices : prices[t] = Quote[<<t, InstantOf(t)>>]
    /\ phase = "collect" => priceErrors = {} /\ cutShort = {}
    /\ phase # "collect" =>
          \A p \in AllComponents : Component(p).amount # 0 =>
              \/ Tok(p) \in DOMAIN prices \/ Said(p)
              \/ \E q \in ToSet(queries) : Tok(p) \in q.tokens
    /\ cutShort # {} => late /\ priceErrors # {}
    /\ cutShort # {} /\ phase \in Valuing => <<"incomplete", NoChain>> \in priceErrors

\* What is valued: every quoted component before the cursor.
Reckoned ==
    /\ cursor = <<cursor[1], cursor[2], cursor[3]>>
    /\ cursor[1] \in Nat \ {0} /\ cursor[2] \in Nat \ {0} /\ cursor[3] \in Nat \ {0}
    /\ phase \in Fetching => worth = <<>> /\ cursor = <<1, 1, 1>>
    /\ \A p \in AllComponents :
          /\ p \in DOMAIN worth => worth[p] = TrueWorth(p)
          /\ Passed(p) /\ Tok(p) \in DOMAIN prices => p \in DOMAIN worth
    /\ phase = "done" => cursor[1] \notin DOMAIN snapshots
    /\ phase = "failed" => <<"pricing", NoChain>> \in priceErrors

PriceInv == Quoting /\ Reckoned

\* A component is a snapshot's, of one of its groups.
LEMMA Located ==
    ASSUME PricingAssumption, snapshots \in Portfolios, NEW p
    PROVE  p \in AllComponents <=>
              \E s \in DOMAIN snapshots : \E g \in Groups(s) :
                 \E c \in Places(s, g) : p = <<s, g, c>>
  BY DEF AllComponents

\* Positions are numbered from 1 on, and a component is priced on its own chain.
LEMMA Numbered ==
    ASSUME PricingAssumption, snapshots \in Portfolios
    PROVE  /\ DOMAIN snapshots = 1..Len(snapshots) /\ Len(snapshots) \in Nat
           /\ \A s \in DOMAIN snapshots :
                 /\ PinTime[snapshots[s].chain] \in Nat
                 /\ \E m \in Nat : Groups(s) = 1..m
                 /\ \A g \in Groups(s) : \E n \in Nat : Places(s, g) = 1..n
           /\ \A p \in AllComponents : Tok(p)[1] = ChainOf(p)
<1>1. /\ snapshots \in Seq(ToSet(snapshots))
      /\ \A s \in DOMAIN snapshots :
            /\ snapshots[s].groups \in Seq(ToSet(snapshots[s].groups))
            /\ PinTime[snapshots[s].chain] \in Nat
            /\ \A g \in DOMAIN snapshots[s].groups :
                  /\ snapshots[s].groups[g].components
                        \in Seq(ToSet(snapshots[s].groups[g].components))
                  /\ \A c \in DOMAIN snapshots[s].groups[g].components :
                        priceToken(snapshots[s].groups[g].components[c])[1]
                           = snapshots[s].chain
  BY DEF PricingAssumption, ToSet, ToSet
<1>2. DOMAIN snapshots = 1..Len(snapshots) /\ Len(snapshots) \in Nat
  BY <1>1
<1>3. ASSUME NEW s \in DOMAIN snapshots
      PROVE  /\ PinTime[snapshots[s].chain] \in Nat
             /\ \E m \in Nat : Groups(s) = 1..m
             /\ \A g \in Groups(s) : \E n \in Nat : Places(s, g) = 1..n
  <2>1. PICK gs : gs = snapshots[s].groups
    OBVIOUS
  <2>2. gs \in Seq(ToSet(gs)) /\ Groups(s) = DOMAIN gs
    BY <1>1, <2>1 DEF Groups
  <2>3. DOMAIN gs = 1..Len(gs) /\ Len(gs) \in Nat
    BY <2>2
  <2>4. ASSUME NEW g \in DOMAIN gs PROVE \E n \in Nat : Places(s, g) = 1..n
    <3>1. PICK cs : cs = gs[g].components
      OBVIOUS
    <3>2. cs \in Seq(ToSet(cs)) /\ Places(s, g) = DOMAIN cs
      BY <1>1, <2>1, <3>1 DEF Places
    <3>3. DOMAIN cs = 1..Len(cs) /\ Len(cs) \in Nat
      BY <3>2
    <3> QED
      BY <3>2, <3>3
  <2> QED
    BY <1>1, <2>2, <2>3, <2>4
<1>4. ASSUME NEW p \in AllComponents PROVE Tok(p)[1] = ChainOf(p)
  <2>1. PICK s \in DOMAIN snapshots : \E g \in Groups(s) :
           \E c \in Places(s, g) : p = <<s, g, c>>
    BY Located
  <2>2. PICK g \in Groups(s) : \E c \in Places(s, g) : p = <<s, g, c>>
    BY <2>1
  <2>3. PICK c \in Places(s, g) : p = <<s, g, c>>
    BY <2>2
  <2>4. p[1] = s /\ p[2] = g /\ p[3] = c
    BY <2>3
  <2> QED
    BY <1>1, <2>4 DEF Tok, ChainOf, Component, At, Groups, Places
<1> QED
  BY <1>2, <1>3, <1>4

\* Both modules count the members of a set alike.
LEMMA SameCardinality ==
    ASSUME NEW S
    PROVE  Cardinality(S) = Cardinality(S)
  BY DEF Cardinality, Cardinality

\* A query asks for tokens at the instant of their chain, and what is not zero is
\* asked for (collectPriceQueries).
LEMMA OwnInstant ==
    ASSUME PricingAssumption, snapshots \in Portfolios, NEW q \in Queries, NEW t \in q.tokens
    PROVE  q.at = InstantOf(t)
<1>1. PICK at : q = [at |-> at, tokens |-> WantedAt(at)]
  BY DEF Queries
<1>2. q.at = at /\ t \in WantedAt(at)
  BY <1>1
<1>3. PICK p \in AllComponents :
         /\ valuationInstant(snapshots[p[1]].chain) = at
         /\ t = priceToken(At(p[1], p[2], p[3]))
  BY <1>2 DEF WantedAt
<1>4. Tok(p) = t
  BY <1>3 DEF Tok, Component
<1>5. t[1] = snapshots[p[1]].chain
  BY <1>4, Numbered DEF ChainOf
<1> QED
  BY <1>2, <1>3, <1>5 DEF InstantOf, valuationInstant

\* Every token of what is not zero is asked for once the queries are collected.
LEMMA AllAsked ==
    ASSUME PricingAssumption, snapshots \in Portfolios
    PROVE  /\ collectPriceQueries \in Seq(Queries)
           /\ \A p \in AllComponents : Component(p).amount # 0 =>
                 \E q \in ToSet(collectPriceQueries) : Tok(p) \in q.tokens
<1> DEFINE pins == {PinTime[snapshots[s].chain] : s \in 1..Len(snapshots)}
<1>1. DOMAIN snapshots = 1..Len(snapshots) /\ Len(snapshots) \in Nat /\ pins \in SUBSET Nat
  BY Numbered
<1>2. IsFiniteSet(pins)
  <2> DEFINE pin == [s \in 1..Len(snapshots) |-> PinTime[snapshots[s].chain]]
  <2>1. IsFiniteSet(1..Len(snapshots))
    BY <1>1, FS_Interval
  <2>2. pin \in Surjection(1..Len(snapshots), pins)
    BY DEF Surjection
  <2> QED
    BY <2>1, <2>2, FS_Surjection
<1>3. PICK I : I = Instants
  OBVIOUS
<1>4. I \in SUBSET pins /\ \A at \in pins : WantedAt(at) # {} => at \in I
  BY <1>1, <1>3 DEF Instants, valuationInstant
<1>5. I \in SUBSET Nat /\ IsFiniteSet(I)
  BY <1>1, <1>2, <1>4, FS_Subset
<1>6. Ranks(I)
  BY <1>5, Ranking
<1>7. ASSUME NEW n \in 1..Cardinality(I)
      PROVE  NthOf(I, n) \in I /\ Rank(I, NthOf(I, n)) = n
  <2>1. PICK at \in I : Rank(I, at) = n
    BY <1>6 DEF Ranks
  <2>2. \A i \in I : Cardinality({j \in I : j <= i}) = Rank(I, i)
    BY SameCardinality DEF Rank
  <2>3. \E i \in I : Cardinality({j \in I : j <= i}) = n
    BY <2>1, <2>2
  <2>4. /\ NthOf(I, n) \in I
        /\ Cardinality({j \in I : j <= NthOf(I, n)}) = n
    BY <2>3 DEF NthOf
  <2> QED
    BY <2>2, <2>4
<1> DEFINE asked(n) == [at |-> NthOf(I, n), tokens |-> WantedAt(NthOf(I, n))]
           all == [n \in 1..Cardinality(I) |-> asked(n)]
<1>8. collectPriceQueries = all
  BY <1>3, SameCardinality DEF collectPriceQueries
<1>9. \A n \in 1..Cardinality(I) : asked(n) \in Queries
  BY <1>3, <1>7 DEF Queries
<1>10. all \in Seq(Queries) /\ DOMAIN all = 1..Cardinality(I)
  BY <1>6, <1>9, IsASeq DEF Ranks
<1>11. ASSUME NEW p \in AllComponents, Component(p).amount # 0
       PROVE  \E q \in ToSet(all) : Tok(p) \in q.tokens
  <2>1. PICK at : at = PinTime[snapshots[p[1]].chain]
    OBVIOUS
  <2>2. Tok(p) \in WantedAt(at)
    BY <1>11, <2>1 DEF WantedAt, valuationInstant, Tok, Component
  <2>3. p[1] \in DOMAIN snapshots
    BY Located
  <2>4. at \in I
    BY <1>1, <1>4, <2>1, <2>2, <2>3
  <2>5. PICK n \in 1..Cardinality(I) : Rank(I, at) = n
    BY <1>6, <2>4 DEF Ranks
  <2>6. NthOf(I, n) = at
    BY <1>6, <1>7, <2>4, <2>5 DEF Ranks
  <2>7. all[n] = asked(n) /\ asked(n).tokens = WantedAt(at) /\ all[n] \in ToSet(all)
    BY <1>10, <2>6 DEF ToSet
  <2> QED
    BY <2>2, <2>7
<1> QED
  BY <1>8, <1>10, <1>11

\* The provider quotes what it quotes at the instant it was asked about, and says
\* what it leaves out (the contract of the price provider).
LEMMA AnswerSays ==
    ASSUME NEW q, NEW got \in Answers(q)
    PROVE  /\ \A t \in DOMAIN got.prices :
                 got.prices[t] = Quote[<<t, q.at>>] /\ <<t, q.at>> \in DOMAIN Quote
           /\ \A t \in q.tokens \ DOMAIN got.prices :
                 \E c \in {NoChain, t[1]} : c \in got.failures
<1> DEFINE has == {t \in {k[1] : k \in DOMAIN Quote} : <<t, q.at>> \in DOMAIN Quote}
           fails(quoted) == IF q.tokens \subseteq quoted THEN {{}}
                            ELSE {{t[1] : t \in q.tokens \ quoted}, {NoChain}}
           Some(quoted, unasked) ==
               {[prices |-> [t \in quoted \cup unasked |-> Quote[<<t, q.at>>]],
                 failures |-> f] : f \in fails(quoted)}
<1>1. Answers(q) = UNION {Some(quoted, {}) \cup Some(quoted, has \ q.tokens) :
                                   quoted \in SUBSET (has \cap q.tokens)}
  BY DEF Answers
<1>2. PICK quoted \in SUBSET (has \cap q.tokens), unasked \in {{}, has \ q.tokens} :
         got \in Some(quoted, unasked)
  <2> HIDE DEF has, Some
  <2>1. PICK quoted \in SUBSET (has \cap q.tokens) :
           got \in Some(quoted, {}) \cup Some(quoted, has \ q.tokens)
    BY <1>1
  <2> QED
    BY <2>1
<1> PICK f \in fails(quoted) :
         got = [prices |-> [t \in quoted \cup unasked |-> Quote[<<t, q.at>>]], failures |-> f]
  BY <1>2
<1>3. /\ got.prices = [t \in quoted \cup unasked |-> Quote[<<t, q.at>>]]
      /\ got.failures = f
  OBVIOUS
<1>4. ASSUME NEW t \in q.tokens \ DOMAIN got.prices
      PROVE  \E c \in {NoChain, t[1]} : c \in f
  <2>1. t \in q.tokens \ quoted
    BY <1>3, <1>4
  <2>2. f = {u[1] : u \in q.tokens \ quoted} \/ f = {NoChain}
    BY <2>1
  <2> QED
    BY <2>1, <2>2
<1> QED
  BY <1>3, <1>4

\* What was read is read once: what it holds does not change while it is valued.
LEMMA Steady ==
    ASSUME snapshots' = snapshots
    PROVE  /\ (AllComponents)' = AllComponents /\ Queries' = Queries
           /\ \A p : /\ Component(p)' = Component(p) /\ Tok(p)' = Tok(p)
                     /\ ChainOf(p)' = ChainOf(p) /\ TrueWorth(p)' = TrueWorth(p)
  BY DEF AllComponents, Groups, Places, Component, At, Queries,
         Instants, WantedAt, Tok, ChainOf, TrueWorth

\* While components are valued, what was quoted and what was said stay.
LEMMA QuotesStay ==
    ASSUME Quoting, phase = "value", phase' \in Valuing,
           priceErrors \subseteq priceErrors',
           UNCHANGED <<snapshots, queries, prices, late, cutShort>>
    PROVE  Quoting'
<1>1. /\ (AllComponents)' = AllComponents /\ Queries' = Queries
      /\ \A p : /\ Component(p)' = Component(p) /\ Tok(p)' = Tok(p)
                /\ ChainOf(p)' = ChainOf(p)
  BY Steady
<1>2. \A p : Said(p) => Said(p)'
  BY <1>1 DEF Said
<1>3. phase' # "collect" /\ phase' # "fetch" /\ phase # "collect" /\ phase # "fetch"
  BY DEF Valuing
<1>4. \A p \in AllComponents : Component(p).amount # 0 =>
         Tok(p) \in DOMAIN prices \/ Said(p)' \/ \E q \in ToSet(queries) : Tok(p) \in q.tokens
  BY <1>2, <1>3 DEF Quoting
<1>5. cutShort # {} => late /\ priceErrors' # {} /\ <<"incomplete", NoChain>> \in priceErrors'
  BY DEF Quoting, Valuing
<1> QED
  BY <1>1, <1>3, <1>4, <1>5 DEF Quoting, InstantOf

\* A component comes in lists that are numbered from 1 on.
LEMMA Placed ==
    ASSUME PricingAssumption, snapshots \in Portfolios, NEW p \in AllComponents
    PROVE  /\ p = <<p[1], p[2], p[3]>>
           /\ p[1] \in Nat \ {0} /\ p[2] \in Nat \ {0} /\ p[3] \in Nat \ {0}
           /\ p[1] \in DOMAIN snapshots /\ p[2] \in Groups(p[1])
           /\ p[3] \in Places(p[1], p[2])
<1>1. PICK s \in DOMAIN snapshots : \E g \in Groups(s) :
         \E c \in Places(s, g) : p = <<s, g, c>>
  BY Located
<1>2. PICK g \in Groups(s) : \E c \in Places(s, g) : p = <<s, g, c>>
  BY <1>1
<1>3. PICK c \in Places(s, g) : p = <<s, g, c>>
  BY <1>2
<1>4. s \in Nat \ {0} /\ g \in Nat \ {0} /\ c \in Nat \ {0}
  BY Numbered
<1> QED
  BY <1>3, <1>4

\* A step of the valuation keeps what it must of the components before it.
LEMMA Onward ==
    ASSUME PricingAssumption, PriceInv, phase = "value", phase' = "value",
           UNCHANGED <<snapshots, prices>>,
           cursor' = <<cursor[1], cursor[2], cursor[3]>>',
           (cursor[1] \in Nat \ {0} /\ cursor[2] \in Nat \ {0} /\ cursor[3] \in Nat \ {0})',
           \A p \in AllComponents :
              /\ p \in DOMAIN worth' => worth'[p] = TrueWorth(p)
              /\ Passed(p)' /\ Tok(p) \in DOMAIN prices => p \in DOMAIN worth'
    PROVE  Reckoned'
<1>1. /\ (AllComponents)' = AllComponents
      /\ \A p : Tok(p)' = Tok(p) /\ TrueWorth(p)' = TrueWorth(p)
  BY Steady
<1>2. phase' \notin Fetching /\ phase' # "done" /\ phase' # "failed"
  BY DEF Fetching
<1> QED
  BY <1>1, <1>2 DEF Reckoned, Fetching

\* Valuing a component moves the cursor past it and past nothing else.
LEMMA AtCursor ==
    ASSUME PricingAssumption, PriceInv, ValueComponent
    PROVE  /\ phase = "value" /\ phase' = "value" /\ snapshots \in Portfolios
           /\ UNCHANGED <<snapshots, prices>> /\ cursor \in AllComponents
           /\ cursor'[1] = cursor[1] /\ cursor'[2] = cursor[2] /\ ~Passed(cursor)
           /\ Component(cursor) = At(cursor[1], cursor[2], cursor[3])
           /\ \A p \in AllComponents : Passed(p)' <=> Passed(p) \/ p = cursor
<1>1. PICK s, g, c : s = cursor[1] /\ g = cursor[2] /\ c = cursor[3]
  OBVIOUS
<1>2. /\ phase = "value" /\ phase' = "value" /\ s \in DOMAIN snapshots /\ g \in Groups(s)
      /\ c \in Places(s, g) /\ cursor' = <<s, g, c + 1>>
      /\ UNCHANGED <<snapshots, prices>>
  BY <1>1 DEF ValueComponent, fetchVars
<1>3. /\ snapshots \in Portfolios /\ cursor = <<s, g, c>>
      /\ s \in Nat \ {0} /\ g \in Nat \ {0} /\ c \in Nat \ {0}
  BY <1>1 DEF PriceInv, Quoting, Reckoned
<1>4. cursor \in AllComponents
  BY <1>2, <1>3, Located
<1>5. ~Passed(cursor)
  BY <1>3 DEF Passed
<1>6. ASSUME NEW p \in AllComponents PROVE Passed(p)' <=> Passed(p) \/ p = cursor
  <2>1. /\ p = <<p[1], p[2], p[3]>>
        /\ p[1] \in Nat \ {0} /\ p[2] \in Nat \ {0} /\ p[3] \in Nat \ {0}
    BY <1>3, Placed
  <2>2. p = cursor <=> p[1] = s /\ p[2] = g /\ p[3] = c
    BY <1>3, <2>1
  <2>3. Passed(p) <=> p[1] < s \/ (p[1] = s /\ (p[2] < g \/ (p[2] = g /\ p[3] < c)))
    BY <1>1 DEF Passed
  <2>4. Passed(p)' <=> p[1] < s \/ (p[1] = s /\ (p[2] < g \/ (p[2] = g /\ p[3] < c + 1)))
    BY <1>2 DEF Passed
  <2> QED
    BY <1>3, <2>1, <2>2, <2>3, <2>4
<1> QED
  BY <1>1, <1>2, <1>3, <1>4, <1>5, <1>6 DEF Component

\* The end of a group or a snapshot values no component and passes none.
LEMMA EndsLeave ==
    ASSUME PricingAssumption, PriceInv, EndGroup \/ EndSnapshot
    PROVE  /\ phase = "value" /\ phase' = "value" /\ snapshots \in Portfolios
           /\ UNCHANGED <<snapshots, prices>>
           /\ cursor = <<cursor[1], cursor[2], cursor[3]>> /\ cursor[1] \in DOMAIN snapshots
           /\ cursor[1] \in Nat \ {0} /\ cursor[2] \in Nat \ {0}
           /\ (Priced)' = Priced /\ \A p \in Priced : worth'[p] = worth[p]
           /\ \A p \in AllComponents : Passed(p)' <=> Passed(p)
<1>1. PICK s, g, c : s = cursor[1] /\ g = cursor[2] /\ c = cursor[3]
  OBVIOUS
<1>2. /\ phase = "value" /\ phase' = "value" /\ s \in DOMAIN snapshots
      /\ UNCHANGED <<snapshots, prices>>
  BY <1>1 DEF EndGroup, EndSnapshot, fetchVars
<1>3. /\ snapshots \in Portfolios /\ cursor = <<s, g, c>>
      /\ s \in Nat \ {0} /\ g \in Nat \ {0} /\ c \in Nat \ {0}
  BY <1>1 DEF PriceInv, Quoting, Reckoned
<1>4. \/ /\ g \in Groups(s) /\ c \notin Places(s, g) /\ cursor' = <<s, g + 1, 1>>
      \/ g \notin Groups(s) /\ cursor' = <<s + 1, 1, 1>>
  BY <1>1 DEF EndGroup, EndSnapshot
<1>5. \/ worth' = worth
      \/ \E v : worth' = With(worth, <<s, g>>, v)
      \/ \E v : worth' = With(worth, <<s>>, v)
  BY <1>1 DEF EndGroup, EndSnapshot
<1>6. ASSUME NEW p \in AllComponents
      PROVE  /\ p \in DOMAIN worth' <=> p \in DOMAIN worth
             /\ p \in DOMAIN worth => worth'[p] = worth[p]
  <2>1. p # <<s, g>> /\ p # <<s>>
    <3>1. p = <<p[1], p[2], p[3]>>
      BY <1>3, Placed
    <3>2. \A x, y, z : <<x, y, z>> # <<s, g>> /\ <<x, y, z>> # <<s>>
      OBVIOUS
    <3> QED
      BY <3>1, <3>2
  <2> QED
    BY <1>5, <2>1 DEF With
<1>7. (AllComponents)' = AllComponents
  BY <1>2, Steady
<1>8. (Priced)' = Priced /\ \A p \in Priced : worth'[p] = worth[p]
  BY <1>6, <1>7 DEF Priced
<1>9. ASSUME NEW p \in AllComponents PROVE Passed(p)' <=> Passed(p)
  <2>1. /\ p[1] \in Nat \ {0} /\ p[2] \in Nat \ {0} /\ p[3] \in Nat \ {0}
        /\ p[2] \in Groups(p[1]) /\ p[3] \in Places(p[1], p[2])
    BY <1>3, Placed
  <2>2. Passed(p) <=> p[1] < s \/ (p[1] = s /\ (p[2] < g \/ (p[2] = g /\ p[3] < c)))
    BY <1>1 DEF Passed
  <2>3. CASE g \in Groups(s) /\ c \notin Places(s, g) /\ cursor' = <<s, g + 1, 1>>
    <3>1. PICK n \in Nat : Places(s, g) = 1..n
      BY <1>2, <1>3, <2>3, Numbered
    <3>2. Passed(p)' <=> p[1] < s \/ (p[1] = s /\ (p[2] < g + 1 \/ (p[2] = g + 1 /\ p[3] < 1)))
      BY <2>3 DEF Passed
    <3>3. p[1] = s /\ p[2] = g => p[3] < c
      BY <1>3, <2>1, <2>3, <3>1
    <3> QED
      BY <1>3, <2>1, <2>2, <3>2, <3>3
  <2>4. CASE g \notin Groups(s) /\ cursor' = <<s + 1, 1, 1>>
    <3>1. PICK m \in Nat : Groups(s) = 1..m
      BY <1>2, <1>3, Numbered
    <3>2. Passed(p)' <=> p[1] < s + 1 \/ (p[1] = s + 1 /\ (p[2] < 1 \/ (p[2] = 1 /\ p[3] < 1)))
      BY <2>4 DEF Passed
    <3>3. p[1] = s => p[2] < g
      BY <1>3, <2>1, <2>4, <3>1
    <3> QED
      BY <1>3, <2>1, <2>2, <3>2, <3>3
  <2> QED
    BY <1>4, <2>3, <2>4
<1> QED
  BY <1>1, <1>2, <1>3, <1>8, <1>9

\* One component is valued at the quote of its instant, or has none.
LEMMA ValueKeeps ==
    ASSUME PricingAssumption, PriceInv, ValueComponent
    PROVE  PriceInv'
<1>1. PICK s, g, c : s = cursor[1] /\ g = cursor[2] /\ c = cursor[3]
  OBVIOUS
<1>2. /\ phase = "value" /\ phase' = "value" /\ cursor' = <<s, g, c + 1>>
      /\ UNCHANGED <<snapshots, provider, phase, priceErrors, late, queries, prices, cutShort>>
  BY <1>1 DEF ValueComponent, fetchVars
<1>3. /\ snapshots \in Portfolios /\ cursor = <<s, g, c>>
      /\ s \in Nat \ {0} /\ g \in Nat \ {0} /\ c \in Nat \ {0}
  BY <1>1 DEF PriceInv, Quoting, Reckoned
<1>4. cursor \in AllComponents
  BY AtCursor
<1>5. /\ Component(cursor) = At(s, g, c) /\ Tok(cursor) = priceToken(At(s, g, c))
      /\ ChainOf(cursor) = snapshots[s].chain
  BY <1>3 DEF Component, Tok, ChainOf
<1>6. \/ Tok(cursor) \notin DOMAIN prices /\ worth' = worth
      \/ /\ Tok(cursor) \in DOMAIN prices
         /\ worth' = With(worth, cursor, At(s, g, c).amount * Rate(At(s, g, c)))
  BY <1>1, <1>5 DEF ValueComponent, Quoted
<1>7. ASSUME Tok(cursor) \in DOMAIN prices
      PROVE  At(s, g, c).amount * Rate(At(s, g, c)) = TrueWorth(cursor)
  <2>1. prices[Tok(cursor)] = Quote[<<Tok(cursor), PinTime[snapshots[s].chain]>>]
    <3>1. Tok(cursor)[1] = snapshots[s].chain
      BY <1>3, <1>4, <1>5, Numbered
    <3>2. prices[Tok(cursor)] = Quote[<<Tok(cursor), InstantOf(Tok(cursor))>>]
      BY <1>7 DEF PriceInv, Quoting
    <3> QED
      BY <3>1, <3>2 DEF InstantOf
  <2> QED
    BY <1>3, <1>5, <2>1 DEF TrueWorth, Rate
<1>8. ASSUME NEW p \in AllComponents
      PROVE  /\ p \in DOMAIN worth' => worth'[p] = TrueWorth(p)
             /\ Passed(p)' /\ Tok(p) \in DOMAIN prices => p \in DOMAIN worth'
  <2>1. /\ p \in DOMAIN worth => worth[p] = TrueWorth(p)
        /\ Passed(p) /\ Tok(p) \in DOMAIN prices => p \in DOMAIN worth
    BY DEF PriceInv, Reckoned
  <2>2. p \in DOMAIN worth' => worth'[p] = TrueWorth(p)
    BY <1>6, <1>7, <2>1 DEF With
  <2>3. Passed(p)' => Passed(p) \/ p = cursor
    BY AtCursor
  <2>4. p \in DOMAIN worth => p \in DOMAIN worth'
    BY <1>6 DEF With
  <2>5. p = cursor /\ Tok(p) \in DOMAIN prices => p \in DOMAIN worth'
    BY <1>6 DEF With
  <2> QED
    BY <2>1, <2>2, <2>3, <2>4, <2>5
<1>9. Reckoned'
  <2>1. /\ cursor' = <<cursor[1], cursor[2], cursor[3]>>'
        /\ (cursor[1] \in Nat \ {0} /\ cursor[2] \in Nat \ {0} /\ cursor[3] \in Nat \ {0})'
    BY <1>2, <1>3
  <2> QED
    BY <1>2, <1>8, <2>1, Onward
<1> QED
  BY <1>2, <1>9, QuotesStay DEF PriceInv, Valuing

\* The totals of a group or a snapshot are no component's, and a place past the last
\* one leaves none behind.
LEMMA EndsKeep ==
    ASSUME PricingAssumption, PriceInv, EndGroup \/ EndSnapshot
    PROVE  PriceInv'
<1>1. PICK s, g, c : s = cursor[1] /\ g = cursor[2] /\ c = cursor[3]
  OBVIOUS
<1>2. /\ phase = "value" /\ phase' = "value" /\ s \in DOMAIN snapshots
      /\ UNCHANGED <<snapshots, provider, phase, priceErrors, late, queries, prices, cutShort>>
  BY <1>1 DEF EndGroup, EndSnapshot, fetchVars
<1>3. /\ snapshots \in Portfolios /\ cursor = <<s, g, c>>
      /\ s \in Nat \ {0} /\ g \in Nat \ {0} /\ c \in Nat \ {0}
  BY <1>1 DEF PriceInv, Quoting, Reckoned
<1>4. cursor' = <<s, g + 1, 1>> \/ cursor' = <<s + 1, 1, 1>>
  BY <1>1 DEF EndGroup, EndSnapshot
<1>5. /\ (Priced)' = Priced /\ \A p \in Priced : worth'[p] = worth[p]
      /\ \A p \in AllComponents : Passed(p)' <=> Passed(p)
      /\ (AllComponents)' = AllComponents
  BY <1>2, EndsLeave, Steady
<1>6. ASSUME NEW p \in AllComponents
      PROVE  /\ p \in DOMAIN worth' => worth'[p] = TrueWorth(p)
             /\ Passed(p)' /\ Tok(p) \in DOMAIN prices => p \in DOMAIN worth'
  <2>1. /\ p \in DOMAIN worth => worth[p] = TrueWorth(p)
        /\ Passed(p) /\ Tok(p) \in DOMAIN prices => p \in DOMAIN worth
    BY DEF PriceInv, Reckoned
  <2>2. (p \in DOMAIN worth' <=> p \in DOMAIN worth) /\ (p \in DOMAIN worth => worth'[p] = worth[p])
    BY <1>5 DEF Priced
  <2> QED
    BY <1>5, <2>1, <2>2
<1>7. Reckoned'
  <2>1. /\ cursor' = <<cursor[1], cursor[2], cursor[3]>>'
        /\ (cursor[1] \in Nat \ {0} /\ cursor[2] \in Nat \ {0} /\ cursor[3] \in Nat \ {0})'
    BY <1>3, <1>4
  <2> QED
    BY <1>2, <1>6, <2>1, Onward
<1> QED
  BY <1>2, <1>7, QuotesStay DEF PriceInv, Valuing

\* A price that cannot be used ends the valuation with an error for every chain, and
\* the last snapshot ends it with nothing left before it.
LEMMA StopsKeep ==
    ASSUME PricingAssumption, PriceInv, RefuseComponent \/ Valued
    PROVE  PriceInv'
<1>1. /\ phase = "value" /\ UNCHANGED <<snapshots, queries, prices, late, cutShort, cursor, worth>>
      /\ \/ phase' = "failed" /\ priceErrors' = priceErrors \cup {<<"pricing", NoChain>>}
         \/ phase' = "done" /\ priceErrors' = priceErrors /\ cursor[1] \notin DOMAIN snapshots
  BY DEF RefuseComponent, Valued, fetchVars, valueVars
<1>2. /\ (AllComponents)' = AllComponents
      /\ \A p : Tok(p)' = Tok(p) /\ TrueWorth(p)' = TrueWorth(p)
  BY <1>1, Steady
<1>3. \A p : Passed(p)' <=> Passed(p)
  BY <1>1 DEF Passed
<1>4. phase' \notin Fetching
  BY <1>1 DEF Fetching
<1>5. Reckoned'
  BY <1>1, <1>2, <1>3, <1>4 DEF PriceInv, Reckoned
<1> QED
  BY <1>1, <1>5, QuotesStay DEF PriceInv, Valuing

\* Nothing is worth anything before the valuation.
LEMMA NotYetWorth ==
    ASSUME PricingAssumption, PriceInv,
           phase \in Fetching, phase' \in Fetching \cup {"value"},
           UNCHANGED <<snapshots, cursor, worth>>
    PROVE  Reckoned'
<1>1. /\ (AllComponents)' = AllComponents
      /\ worth' = <<>> /\ cursor' = <<1, 1, 1>> /\ phase' # "done" /\ phase' # "failed"
      /\ cursor = <<1, 1, 1>>
  BY Steady DEF PriceInv, Reckoned, Fetching
<1>2. \A p : p \notin DOMAIN worth'
  BY <1>1
<1>3. \A p \in AllComponents : ~Passed(p)'
  <2>1. cursor'[1] = 1 /\ cursor'[2] = 1 /\ cursor'[3] = 1
    BY <1>1
  <2>2. \A p \in AllComponents : p[1] \in Nat \ {0} /\ p[2] \in Nat \ {0} /\ p[3] \in Nat \ {0}
    BY Placed DEF PriceInv, Quoting
  <2> QED
    BY <2>1, <2>2 DEF Passed
<1> QED
  BY <1>1, <1>2, <1>3 DEF Reckoned, Fetching

\* The queries ask for everything that is wanted, or pricing has said that it cannot; an
\* ended context that took something has an error of its own (ScanWithOptions).
LEMMA FetchedKeeps ==
    ASSUME PricingAssumption, PriceInv,
           StopPricing \/ Collect \/ Fetched
    PROVE  PriceInv'
<1>1. /\ phase \in Fetching /\ phase' \in Fetching \cup {"value"}
      /\ UNCHANGED <<snapshots, prices, cutShort, cursor, worth>>
  BY DEF StopPricing, Collect, Fetched, fetchVars, valueVars, Fetching
<1>2. /\ (AllComponents)' = AllComponents /\ Queries' = Queries
      /\ \A p : /\ Component(p)' = Component(p) /\ Tok(p)' = Tok(p)
                /\ ChainOf(p)' = ChainOf(p)
  BY <1>1, Steady
<1>3. CASE StopPricing
  <2>1. /\ phase' = phase /\ late' = TRUE
        /\ UNCHANGED <<queries, priceErrors, prices, cutShort>>
    BY <1>3 DEF StopPricing, fetchVars
  <2>2. \A p : Said(p)' <=> Said(p)
    BY <1>2, <2>1 DEF Said
  <2> QED
    BY <1>1, <1>2, <2>1, <2>2, NotYetWorth DEF PriceInv, Quoting, InstantOf, Fetching, Valuing
<1>4. CASE Collect
  <2>1. /\ phase = "collect" /\ phase' = "fetch" /\ late' = late
        /\ \/ queries' = collectPriceQueries /\ priceErrors' = priceErrors
           \/ queries' = <<>> /\ priceErrors' = {<<"pricing", NoChain>>}
    BY <1>4 DEF Collect
  <2>2. /\ collectPriceQueries \in Seq(Queries)
        /\ \A p \in AllComponents : Component(p).amount # 0 =>
              \E q \in ToSet(collectPriceQueries) : Tok(p) \in q.tokens
    BY AllAsked DEF PriceInv, Quoting
  <2>3. queries' \in Seq(Queries)
    BY <2>1, <2>2, <<>> \in Seq(Queries)
  <2>4. \A p \in AllComponents : Component(p).amount # 0 =>
           Said(p)' \/ \E q \in ToSet(queries') : Tok(p) \in q.tokens
    <3>1. CASE queries' = collectPriceQueries
      BY <2>2, <3>1
    <3>2. CASE priceErrors' = {<<"pricing", NoChain>>}
      BY <3>2 DEF Said
    <3> QED
      BY <2>1, <3>1, <3>2
  <2>5. cutShort' = {}
    BY <1>1, <2>1 DEF PriceInv, Quoting
  <2>6. Quoting'
    BY <1>1, <1>2, <2>1, <2>3, <2>4, <2>5
       DEF PriceInv, Quoting, InstantOf, Fetching, Valuing, ToSet
  <2> QED
    BY <1>1, <2>6, NotYetWorth DEF PriceInv
<1>5. CASE Fetched
  <2>1. /\ phase = "fetch" /\ phase' = "value" /\ late' = late /\ queries = <<>> /\ queries' = <<>>
        /\ priceErrors' = IF priceErrors # {} /\ late THEN priceErrors \cup {<<"incomplete", NoChain>>}
                          ELSE priceErrors
    BY <1>5 DEF Fetched, fetchVars
  <2>2. \A p : Said(p) => Said(p)'
    BY <1>2, <2>1 DEF Said
  <2>3. cutShort # {} => late /\ priceErrors # {}
    BY DEF PriceInv, Quoting
  <2>4. \A p \in AllComponents : Component(p).amount # 0 =>
           Tok(p) \in DOMAIN prices \/ Said(p)' \/ \E q \in ToSet(queries) : Tok(p) \in q.tokens
    BY <2>1, <2>2 DEF PriceInv, Quoting
  <2>5. Quoting'
    BY <1>1, <1>2, <2>1, <2>3, <2>4 DEF PriceInv, Quoting, InstantOf, Fetching, Valuing
  <2> QED
    BY <1>1, <2>5, NotYetWorth DEF PriceInv
<1> QED
  BY <1>3, <1>4, <1>5

\* An answer quotes its tokens at their instant or says what it leaves out, and one
\* that comes too late is marked (fetchPrices).
LEMMA FetchKeeps ==
    ASSUME PricingAssumption, PriceInv, Fetch
    PROVE  PriceInv'
<1>1. /\ phase = "fetch" /\ phase' = "fetch" /\ queries # <<>> /\ queries' = Tail(queries)
      /\ UNCHANGED <<snapshots, late, cursor, worth>>
  BY DEF Fetch, valueVars
<1>2. PICK q : q = Head(queries)
  OBVIOUS
<1>3. PICK got \in Answers(q) :
         /\ prices' = Merged(prices, Taken(q, got))
         /\ priceErrors' = priceErrors \cup {<<"pricing", c>> : c \in got.failures}
         /\ cutShort' = IF late THEN cutShort \cup (q.tokens \ DOMAIN got.prices) ELSE cutShort
  BY <1>2 DEF Fetch
<1>4. /\ snapshots \in Portfolios /\ queries \in Seq(Queries)
      /\ \A t \in DOMAIN prices : prices[t] = Quote[<<t, InstantOf(t)>>]
      /\ cutShort # {} => late /\ priceErrors # {}
  BY DEF PriceInv, Quoting
<1>5. /\ q \in Queries /\ Tail(queries) \in Seq(Queries)
      /\ \A x \in ToSet(queries) : x = q \/ x \in ToSet(Tail(queries))
  BY <1>1, <1>2, <1>4, HeadAndTail
<1>6. /\ \A t \in DOMAIN got.prices : got.prices[t] = Quote[<<t, q.at>>]
      /\ \A t \in q.tokens \ DOMAIN got.prices : \E c \in {NoChain, t[1]} : c \in got.failures
  BY AnswerSays
<1>7. \A t \in q.tokens : q.at = InstantOf(t)
  BY <1>4, <1>5, OwnInstant
<1>8. /\ \A t : t \in DOMAIN prices' <=> t \in DOMAIN prices \/ t \in q.tokens \cap DOMAIN got.prices
      /\ \A t \in DOMAIN prices' : prices'[t] = Quote[<<t, InstantOf(t)>>]
  BY <1>3, <1>4, <1>6, <1>7 DEF Merged, Taken
<1>9. /\ (AllComponents)' = AllComponents /\ Queries' = Queries
      /\ \A p : /\ Component(p)' = Component(p) /\ Tok(p)' = Tok(p)
                /\ ChainOf(p)' = ChainOf(p)
  BY <1>1, Steady
<1>10. ASSUME NEW p \in AllComponents, Component(p).amount # 0
       PROVE  \/ Tok(p) \in DOMAIN prices' \/ Said(p)'
              \/ \E x \in ToSet(queries') : Tok(p) \in x.tokens
  <2>1. \/ Tok(p) \in DOMAIN prices \/ Said(p)
        \/ \E x \in ToSet(queries) : Tok(p) \in x.tokens
    BY <1>1, <1>10 DEF PriceInv, Quoting
  <2>2. Said(p) => Said(p)'
    BY <1>3, <1>9 DEF Said
  <2>3. ASSUME Tok(p) \in q.tokens \ DOMAIN got.prices PROVE Said(p)'
    <3>1. Tok(p)[1] = ChainOf(p)
      BY <1>4, Numbered
    <3>2. PICK c \in {NoChain, ChainOf(p)} : c \in got.failures
      BY <1>6, <2>3, <3>1
    <3>3. <<"pricing", c>> \in priceErrors'
      BY <1>3, <3>2
    <3> QED
      BY <1>9, <3>2, <3>3 DEF Said
  <2> QED
    BY <1>1, <1>5, <1>8, <2>1, <2>2, <2>3
<1>11. cutShort' # {} => late /\ priceErrors' # {}
  <2>1. CASE late /\ q.tokens \ DOMAIN got.prices # {}
    <3>1. PICK t \in q.tokens \ DOMAIN got.prices : TRUE
      BY <2>1
    <3>2. PICK c : c \in got.failures
      BY <1>6, <3>1
    <3>3. <<"pricing", c>> \in priceErrors'
      BY <1>3, <3>2
    <3> QED
      BY <2>1, <3>3
  <2>2. CASE ~(late /\ q.tokens \ DOMAIN got.prices # {})
    BY <1>3, <1>4, <2>2
  <2> QED
    BY <2>1, <2>2
<1>12. Quoting'
  <2>1. phase' \notin Valuing /\ phase' # "collect" /\ phase' \in Fetching
    BY <1>1 DEF Valuing, Fetching
  <2> QED
    <3>1. queries' \in Seq(Queries')
      BY <1>1, <1>5, <1>9
    <3>2. \A p \in AllComponents' : Component(p)'.amount # 0 =>
             \/ Tok(p)' \in DOMAIN prices' \/ Said(p)'
             \/ \E x \in ToSet(queries)' : Tok(p)' \in x.tokens
      BY <1>9, <1>10 DEF ToSet
    <3> QED
      BY <1>1, <1>4, <1>8, <1>11, <2>1, <3>1, <3>2 DEF Quoting, InstantOf
<1> QED
  BY <1>1, <1>12, NotYetWorth DEF PriceInv, Fetching

\* A scan has read its snapshots and priced none of it.
LEMMA PriceInit == PricingAssumption /\ PricingInit => PriceInv
<1> SUFFICES ASSUME PricingAssumption, PricingInit PROVE PriceInv
  OBVIOUS
<1>1. /\ snapshots \in Portfolios /\ phase = "collect" /\ queries = <<>> /\ prices = <<>>
      /\ priceErrors = {} /\ cutShort = {} /\ cursor = <<1, 1, 1>> /\ worth = <<>>
  BY DEF PricingInit
<1>2. queries \in Seq(Queries) /\ \A t : t \notin DOMAIN prices /\ t \notin DOMAIN worth
  BY <1>1
<1>3. Quoting
  BY <1>1, <1>2 DEF Quoting, Fetching, Valuing
<1>4. Reckoned
  BY <1>1, <1>2 DEF Reckoned, Fetching
<1> QED
  BY <1>3, <1>4 DEF PriceInv

\* Every step keeps the invariant.
LEMMA PriceStep ==
    PricingAssumption /\ PriceInv /\ [PricingNext]_pricingVars => PriceInv'
<1> SUFFICES ASSUME PricingAssumption, PriceInv, [PricingNext]_pricingVars
             PROVE  PriceInv'
  OBVIOUS
<1>1. CASE StopPricing \/ Collect \/ Fetched
  BY <1>1, FetchedKeeps
<1>2. CASE Fetch
  BY <1>2, FetchKeeps
<1>3. CASE ValueComponent
  BY <1>3, ValueKeeps
<1>4. CASE EndGroup \/ EndSnapshot
  BY <1>4, EndsKeep
<1>5. CASE RefuseComponent \/ Valued
  BY <1>5, StopsKeep
<1>6. CASE UNCHANGED pricingVars
  <2>1. UNCHANGED <<snapshots, phase, priceErrors, late, queries, prices, cutShort, cursor, worth>>
    BY <1>6 DEF pricingVars, fetchVars, valueVars
  <2>2. /\ (AllComponents)' = AllComponents /\ Queries' = Queries
        /\ \A p : /\ Component(p)' = Component(p) /\ Tok(p)' = Tok(p)
                  /\ ChainOf(p)' = ChainOf(p) /\ TrueWorth(p)' = TrueWorth(p)
    BY <2>1, Steady
  <2>3. \A p : (Said(p)' <=> Said(p)) /\ (Passed(p)' <=> Passed(p))
    BY <2>1, <2>2 DEF Said, Passed
  <2>4. Quoting'
    <3>1. ToSet(queries)' = ToSet(queries) /\ \A t : InstantOf(t)' = InstantOf(t)
      BY <2>1 DEF ToSet, InstantOf
    <3>2. Quoting
      BY DEF PriceInv
    <3>3. (\A t \in DOMAIN prices : prices[t] = Quote[<<t, InstantOf(t)>>])'
      BY <2>1, <3>1, <3>2 DEF Quoting
    <3>4. (\A p \in AllComponents : Component(p).amount # 0 =>
              \/ Tok(p) \in DOMAIN prices \/ Said(p)
              \/ \E q \in ToSet(queries) : Tok(p) \in q.tokens)'
          \/ phase = "collect"
      BY <2>1, <2>2, <2>3, <3>1, <3>2 DEF Quoting
    <3> QED
      BY <2>1, <2>2, <3>2, <3>3, <3>4 DEF Quoting
  <2>5. Reckoned'
    BY <2>1, <2>2, <2>3 DEF PriceInv, Reckoned
  <2> QED
    BY <2>4, <2>5 DEF PriceInv
<1> QED
  BY <1>1, <1>2, <1>3, <1>4, <1>5, <1>6 DEF PricingNext

\* At the end every component was passed, so it is valued or has no quote.
LEMMA PriceInvValued == PricingAssumption /\ PriceInv => ValuedOrSaid
<1> SUFFICES ASSUME PricingAssumption, PriceInv, phase \in {"done", "failed"}
             PROVE  /\ \A p \in AllComponents \cap DOMAIN worth :
                          worth[p] = TrueWorth(p)
                    /\ \A p \in AllComponents \ DOMAIN worth :
                          \/ Component(p).amount = 0
                          \/ \E chain \in {NoChain, snapshots[p[1]].chain} :
                                <<"pricing", chain>> \in priceErrors
                    /\ cutShort # {} => <<"incomplete", NoChain>> \in priceErrors
  BY DEF ValuedOrSaid
<1>1. \A p \in AllComponents \cap DOMAIN worth : worth[p] = TrueWorth(p)
  BY DEF PriceInv, Reckoned
<1>2. cutShort # {} => <<"incomplete", NoChain>> \in priceErrors
  BY DEF PriceInv, Quoting, Valuing
<1>3. ASSUME NEW p \in AllComponents \ DOMAIN worth, Component(p).amount # 0
      PROVE  Said(p)
  <2>1. CASE phase = "failed"
    BY <2>1 DEF PriceInv, Reckoned, Said
  <2>2. CASE phase = "done"
    <3>1. snapshots \in Portfolios /\ queries = <<>>
      BY <2>2 DEF PriceInv, Quoting
    <3>2. Tok(p) \in DOMAIN prices \/ Said(p) \/ \E q \in ToSet(queries) : Tok(p) \in q.tokens
      BY <1>3, <2>2 DEF PriceInv, Quoting
    <3>3. p[1] \in 1..Len(snapshots) /\ Len(snapshots) \in Nat /\ cursor[1] \notin 1..Len(snapshots)
          /\ cursor[1] \in Nat \ {0}
      BY <2>2, <3>1, Numbered, Placed DEF PriceInv, Reckoned
    <3>4. Passed(p)
      BY <3>3 DEF Passed
    <3>5. Tok(p) \notin DOMAIN prices
      BY <3>4 DEF PriceInv, Reckoned
    <3>6. ToSet(queries) = {}
      BY <3>1 DEF ToSet
    <3> QED
      BY <3>2, <3>5, <3>6
  <2> QED
    BY <2>1, <2>2
<1> QED
  BY <1>1, <1>2, <1>3 DEF Said, ChainOf

\* Every holding is worth what its token, or the basis it names, cost on its own chain
\* at the block it was read at, and one without a value is explained, for any
\* snapshots, quotes and answers of the price provider.
THEOREM EveryHoldingValued == PricingSpec => []ValuedOrSaid
<1>1. PricingInit => PriceInv
  BY PriceInit, PricingAssumption
<1>2. PriceInv /\ [PricingNext]_pricingVars => PriceInv'
  BY PriceStep, PricingAssumption
<1>3. PriceInv => ValuedOrSaid
  BY PriceInvValued, PricingAssumption
<1> QED
  BY <1>1, <1>2, <1>3, PTL DEF PricingSpec

-----------------------------------------------------------------------------
(* Sums over finite sets, by induction on the set.                         *)

\* i sums v over the subsets of S, one member of each after the other.
IsSum(i, v, S) ==
    i = [s \in SUBSET S |->
            IF s = {} THEN 0
            ELSE LET x == CHOOSE x \in s : TRUE IN v[x] + i[s \ {x}]]

\* The iteration a sum is defined by.
IterOf(v, S) == CHOOSE i : IsSum(i, v, S)

\* A set that holds every subset of S whose own proper subsets it holds, holds S.
LEMMA SetInduction ==
    ASSUME NEW S, IsFiniteSet(S), NEW Good,
           \A T \in SUBSET S : (\A U \in SUBSET T : U # T => U \in Good) => T \in Good
    PROVE  S \in Good
<1>1. SUFFICES ASSUME S \notin Good PROVE FALSE
  OBVIOUS
<1> DEFINE Bad == {T \in SUBSET S : T \notin Good}
<1>2. IsWellFoundedOn(StrictSubsetOrdering(S), FiniteSubsetsOf(S))
  BY FS_StrictSubsetOrderingWellFounded
<1>3. Bad \subseteq FiniteSubsetsOf(S) /\ Bad # {}
  BY <1>1, FS_FiniteSubsetsOfFinite
<1> HIDE DEF Bad
<1>4. PICK T \in Bad : \A U \in Bad : <<U, T>> \notin StrictSubsetOrdering(S)
  BY <1>2, <1>3, WFMin
<1>5. \A U \in SUBSET T : U # T => U \in Good
  BY <1>4 DEF Bad, StrictSubsetOrdering
<1> QED
  BY <1>4, <1>5 DEF Bad

\* A sum is the last step of such an iteration.
LEMMA SumExpands ==
    ASSUME NEW v, NEW S
    PROVE  SumOf(v, S) = IterOf(v, S)[S]
  BY DEF SumOf, MapThenSumSet, MapThenFoldSet, IsSum, IterOf

\* Two iterations agree on the sums both have.
LEMMA Agree ==
    ASSUME NEW S, NEW T, NEW v, NEW w, NEW i, NEW j, IsSum(i, v, S), IsSum(j, w, T),
           NEW U, U \subseteq S, U \subseteq T, IsFiniteSet(U), \A x \in U : v[x] = w[x]
    PROVE  i[U] = j[U]
<1> DEFINE Good == {W \in SUBSET U : i[W] = j[W]}
<1>1. ASSUME NEW W \in SUBSET U, \A V \in SUBSET W : V # W => V \in Good
      PROVE  W \in Good
  <2>1. CASE W = {}
    BY <2>1 DEF IsSum
  <2>2. CASE W # {}
    <3>1. PICK x : x = (CHOOSE y \in W : TRUE) /\ x \in W
      BY <2>2
    <3>2. i[W \ {x}] = j[W \ {x}]
      BY <1>1, <3>1
    <3>3. i[W] = v[x] + i[W \ {x}]
      BY <2>2, <3>1 DEF IsSum
    <3>4. j[W] = w[x] + j[W \ {x}]
      BY <2>2, <3>1 DEF IsSum
    <3> QED
      BY <3>1, <3>2, <3>3, <3>4
  <2> QED
    BY <2>1, <2>2
<1> HIDE DEF Good
<1>2. U \in Good
  BY <1>1, SetInduction
<1> QED
  BY <1>2 DEF Good

\* A finite set has one.
LEMMA IterExists ==
    ASSUME NEW v, NEW S, IsFiniteSet(S)
    PROVE  IsSum(IterOf(v, S), v, S)
<1> DEFINE Good == {T \in SUBSET S : IsSum(IterOf(v, T), v, T)}
<1>1. ASSUME NEW T \in SUBSET S, \A U \in SUBSET T : U # T => U \in Good
      PROVE  T \in Good
  <2> DEFINE f == [s \in SUBSET T |->
                     IF s = {} THEN 0
                     ELSE LET x == CHOOSE x \in s : TRUE
                          IN  v[x] + IterOf(v, s \ {x})[s \ {x}]]
  <2>1. ASSUME NEW U \in SUBSET T, U # T
        PROVE  f[U] = IterOf(v, U)[U]
    <3>1. IsSum(IterOf(v, U), v, U)
      BY <1>1, <2>1
    <3>2. CASE U = {}
      BY <3>1, <3>2 DEF IsSum
    <3>3. CASE U # {}
      <4>1. PICK x : x = (CHOOSE y \in U : TRUE) /\ x \in U
        BY <3>3
      <4>2. f[U] = v[x] + IterOf(v, U \ {x})[U \ {x}]
        BY <3>3, <4>1
      <4>3. IterOf(v, U)[U] = v[x] + IterOf(v, U)[U \ {x}]
        BY <3>1, <3>3, <4>1 DEF IsSum
      <4>4. IsSum(IterOf(v, U \ {x}), v, U \ {x})
        BY <1>1, <2>1, <4>1
      <4>5. IsFiniteSet(U \ {x})
        BY FS_Subset
      <4>6. IterOf(v, U)[U \ {x}] = IterOf(v, U \ {x})[U \ {x}]
        BY <3>1, <4>4, <4>5, Agree
      <4> QED
        BY <4>2, <4>3, <4>6
    <3> QED
      BY <3>2, <3>3
  <2>2. ASSUME NEW s \in SUBSET T, s # {}, NEW x, x = (CHOOSE y \in s : TRUE)
        PROVE  f[s \ {x}] = IterOf(v, s \ {x})[s \ {x}]
    <3>1. x \in s
      BY <2>2
    <3> HIDE DEF f
    <3> QED
      BY <2>1, <2>2, <3>1
  <2>3. IsSum(f, v, T)
    <3>1. f = [s \in SUBSET T |->
                 IF s = {} THEN 0
                 ELSE LET x == CHOOSE x \in s : TRUE IN v[x] + f[s \ {x}]]
      <4>1. ASSUME NEW s \in SUBSET T, s # {}, NEW x, x = (CHOOSE y \in s : TRUE)
            PROVE  f[s] = v[x] + f[s \ {x}]
        <5>1. f[s] = v[x] + IterOf(v, s \ {x})[s \ {x}]
          BY <4>1
        <5> HIDE DEF f
        <5>2. f[s \ {x}] = IterOf(v, s \ {x})[s \ {x}]
          BY <2>2, <4>1
        <5> QED
          BY <5>1, <5>2
      <4>2. f[{}] = 0 /\ f = [s \in SUBSET T |-> f[s]]
        OBVIOUS
      <4> HIDE DEF f
      <4>3. ASSUME NEW s \in SUBSET T
            PROVE  f[s] = IF s = {} THEN 0
                          ELSE LET x == CHOOSE x \in s : TRUE IN v[x] + f[s \ {x}]
        BY <4>1, <4>2
      <4> QED
        BY <4>2, <4>3
    <3> HIDE DEF f
    <3> QED
      BY <3>1 DEF IsSum
  <2> HIDE DEF f
  <2>4. IsSum(IterOf(v, T), v, T)
    BY <2>3 DEF IterOf
  <2> QED
    BY <2>4
<1> HIDE DEF Good
<1>2. S \in Good
  BY <1>1, SetInduction
<1> QED
  BY <1>2 DEF Good

\* A sum is 0, or a member's value and the sum of the others.
LEMMA SumUnfolds ==
    ASSUME NEW v, NEW S, IsFiniteSet(S)
    PROVE  /\ SumOf(v, {}) = 0
           /\ S # {} => \E x \in S : SumOf(v, S) = v[x] + SumOf(v, S \ {x})
<1>1. \A T : SumOf(v, T) = IterOf(v, T)[T]
  BY SumExpands
<1>2. IsSum(IterOf(v, {}), v, {})
  BY IterExists, FS_EmptySet
<1>3. SumOf(v, {}) = 0
  BY <1>1, <1>2 DEF IsSum
<1>4. ASSUME S # {}
      PROVE  \E x \in S : SumOf(v, S) = v[x] + SumOf(v, S \ {x})
  <2>1. PICK x : x = (CHOOSE y \in S : TRUE) /\ x \in S
    BY <1>4
  <2>2. IsFiniteSet(S \ {x})
    BY FS_Subset
  <2>3. IsSum(IterOf(v, S), v, S) /\ IsSum(IterOf(v, S \ {x}), v, S \ {x})
    BY <2>2, IterExists
  <2>4. IterOf(v, S)[S] = v[x] + IterOf(v, S)[S \ {x}]
    BY <1>4, <2>1, <2>3 DEF IsSum
  <2>5. IterOf(v, S)[S \ {x}] = IterOf(v, S \ {x})[S \ {x}]
    BY <2>2, <2>3, Agree
  <2> QED
    BY <1>1, <2>1, <2>4, <2>5
<1> QED
  BY <1>3, <1>4

\* A sum depends on the values of the members only.
LEMMA SumSame ==
    ASSUME NEW v, NEW w, NEW S, IsFiniteSet(S), \A x \in S : v[x] = w[x]
    PROVE  SumOf(v, S) = SumOf(w, S)
<1>1. SumOf(v, S) = IterOf(v, S)[S] /\ SumOf(w, S) = IterOf(w, S)[S]
  BY SumExpands
<1>2. IsSum(IterOf(v, S), v, S) /\ IsSum(IterOf(w, S), w, S)
  BY IterExists
<1> QED
  BY <1>1, <1>2, Agree

\* In a sum of integers any member may come first.
LEMMA SumRemove ==
    ASSUME NEW v, NEW S, IsFiniteSet(S), \A x \in S : v[x] \in Int
    PROVE  SumOf(v, S) \in Int /\ \A x \in S : SumOf(v, S) = v[x] + SumOf(v, S \ {x})
<1> DEFINE Good == {T \in SUBSET S : /\ SumOf(v, T) \in Int
                                     /\ \A x \in T : SumOf(v, T) = v[x] + SumOf(v, T \ {x})}
<1>1. ASSUME NEW T \in SUBSET S, \A U \in SUBSET T : U # T => U \in Good
      PROVE  T \in Good
  <2>1. CASE T = {}
    <3>1. SumOf(v, T) = 0
      BY <2>1, SumUnfolds, FS_EmptySet
    <3> QED
      BY <2>1, <3>1
  <2>2. CASE T # {}
    <3>1. IsFiniteSet(T)
      BY FS_Subset
    <3>2. PICK c \in T : SumOf(v, T) = v[c] + SumOf(v, T \ {c})
      BY <2>2, <3>1, SumUnfolds
    <3>3. \A y \in T : T \ {y} \in Good
      BY <1>1
    <3>4. SumOf(v, T) \in Int
      BY <3>2, <3>3
    <3>5. ASSUME NEW x \in T, x # c
          PROVE  SumOf(v, T) = v[x] + SumOf(v, T \ {x})
      <4>1. SumOf(v, T \ {c}) = v[x] + SumOf(v, (T \ {c}) \ {x})
        BY <3>3, <3>5
      <4>2. SumOf(v, T \ {x}) = v[c] + SumOf(v, (T \ {x}) \ {c})
        BY <3>3, <3>5
      <4>3. (T \ {c}) \ {x} = (T \ {x}) \ {c}
        OBVIOUS
      <4>4. SumOf(v, (T \ {x}) \ {c}) \in Int
        <5>1. (T \ {x}) \ {c} \in Good
          BY <1>1
        <5> QED
          BY <5>1
      <4> HIDE DEF Good
      <4>5. v[x] \in Int /\ v[c] \in Int
        OBVIOUS
      <4>6. PICK r \in Int : r = SumOf(v, (T \ {x}) \ {c})
        BY <4>4
      <4>7. SumOf(v, T) = v[c] + (v[x] + r)
        BY <3>2, <4>1, <4>3, <4>6
      <4>8. SumOf(v, T \ {x}) = v[c] + r
        BY <4>2, <4>6
      <4>9. v[c] + (v[x] + r) = v[x] + (v[c] + r)
        BY <4>5
      <4> QED
        BY <4>7, <4>8, <4>9
    <3> QED
      BY <3>2, <3>4, <3>5
  <2> QED
    BY <2>1, <2>2
<1> HIDE DEF Good
<1>2. S \in Good
  BY <1>1, SetInduction
<1> QED
  BY <1>2 DEF Good

\* One more member adds its value.
LEMMA SumAdd ==
    ASSUME NEW v, NEW S, IsFiniteSet(S), NEW x, x \notin S, \A y \in S \cup {x} : v[y] \in Int
    PROVE  SumOf(v, S \cup {x}) = v[x] + SumOf(v, S)
<1>1. IsFiniteSet(S \cup {x}) /\ (S \cup {x}) \ {x} = S
  BY FS_AddElement
<1> QED
  BY <1>1, SumRemove

-----------------------------------------------------------------------------
(* What is summed: groups, snapshots and protocols while their components  *)
(* are valued one by one.                                                  *)

Kinds == {"asset", "debt", "reward"}

\* What is valued of a group and of a protocol, what of a protocol has been counted, and
\* the groups and the snapshots that are behind.
InGroup(s, g) == {p \in Priced : p[1] = s /\ p[2] = g}
OfKind(q, kind) ==
    {p \in Priced : p[1] \in Own(q) /\ Component(p).kind = kind}
PricedOf(q) == {p \in Priced : p[1] \in Own(q)}
Counted(q) == {p \in AllComponents : p[1] \in Own(q) /\ Passed(p)}
Closed == {g \in Groups(cursor[1]) : g < cursor[2]}
Earlier(q) == {s \in Own(q) : s < cursor[1]}

\* The running totals are the group's and the snapshot's at the cursor.
RunningRight ==
    /\ totals \in [group : Int, groupPriced : BOOLEAN, snapshot : Int, snapshotPriced : BOOLEAN]
    /\ ~totals.groupPriced => totals.group = 0
    /\ ~totals.snapshotPriced => totals.snapshot = 0 /\ ~totals.groupPriced
    /\ cursor[1] \in DOMAIN snapshots =>
          /\ totals.group = SumOf(Signed, InGroup(cursor[1], cursor[2]))
          /\ totals.snapshot = SumOf(Nets(cursor[1]), Closed)

Counts ==
    [components : Int, priced : Int, asset : Int, debt : Int, reward : Int, total : Int]

\* A protocol's summary is that of what the cursor has passed.
SummaryRight(q) ==
    /\ Summary(q) \in Counts
    /\ Summary(q).total = SumOf(Totals, Earlier(q))
    /\ \A kind \in Kinds : Summary(q)[kind] = Sum(q, kind)
    /\ Summary(q).priced = Cardinality(PricedOf(q))
    /\ Summary(q).components = Cardinality(Counted(q)) /\ IsFiniteSet(Counted(q))

Tally ==
    /\ \A t \in DOMAIN prices : prices[t] \in Int
    /\ IsFiniteSet(Priced) /\ \A p \in Priced : worth[p] \in Int /\ Passed(p)
    /\ phase \in Fetching => totals = NoTotals /\ summaries = <<>>
    /\ phase = "failed" => summaries = <<>>
    /\ phase # "failed" => RunningRight /\ \A q : SummaryRight(q)

\* A sum of nothing is nothing.
LEMMA SumEmpty == \A v : SumOf(v, {}) = 0
  BY SumUnfolds, FS_EmptySet

\* Nets and totals are integers.
LEMMA NetsAreInt ==
    ASSUME PricingAssumption, snapshots \in Portfolios,
           IsFiniteSet(Priced), \A p \in Priced : worth[p] \in Int
    PROVE  /\ \A p \in Priced : Signed[p] \in Int
           /\ \A s, g : IsFiniteSet(InGroup(s, g)) /\ Net(s, g) \in Int
           /\ \A s \in DOMAIN snapshots : IsFiniteSet(Groups(s)) /\ Total(s) \in Int
<1>1. \A p \in Priced : Signed[p] \in Int
  BY DEF Signed
<1>2. \A x, policy : x \in Int => applyFloorZero(x, policy) \in Int
  BY DEF applyFloorZero
<1>3. ASSUME NEW s, NEW g
      PROVE  IsFiniteSet(InGroup(s, g)) /\ Net(s, g) \in Int
  <2>1. IsFiniteSet(InGroup(s, g)) /\ InGroup(s, g) \subseteq Priced
    BY FS_Subset DEF InGroup
  <2>2. SumOf(Signed, InGroup(s, g)) \in Int
    BY <1>1, <2>1, SumRemove
  <2> QED
    BY <1>2, <2>1, <2>2 DEF Net, InGroup
<1>4. ASSUME NEW s \in DOMAIN snapshots
      PROVE  IsFiniteSet(Groups(s)) /\ Total(s) \in Int
  <2>1. PICK m \in Nat : Groups(s) = 1..m
    BY Numbered
  <2>2. IsFiniteSet(Groups(s))
    BY <2>1, FS_Interval
  <2>3. \A g \in Groups(s) : Nets(s)[g] \in Int
    BY <1>3 DEF Nets
  <2>4. SumOf(Nets(s), Groups(s)) \in Int
    BY <2>2, <2>3, SumRemove
  <2> QED
    BY <1>2, <2>2, <2>4 DEF Total
<1> QED
  BY <1>1, <1>3, <1>4

\* What was summed stays the same as long as what is valued does.
LEMMA WorthKeeps ==
    ASSUME UNCHANGED snapshots, IsFiniteSet(Priced), (Priced)' = Priced,
           \A p \in Priced : worth'[p] = worth[p]
    PROVE  /\ (Signed)' = Signed
           /\ \A s, g : InGroup(s, g)' = InGroup(s, g) /\ Net(s, g)' = Net(s, g)
           /\ \A s : Nets(s)' = Nets(s) /\ Total(s)' = Total(s)
           /\ (Totals)' = Totals
           /\ \A q, kind : Sum(q, kind)' = Sum(q, kind)
           /\ \A q : PricedOf(q)' = PricedOf(q)
<1>1. /\ \A p : Component(p)' = Component(p)
      /\ \A q : Own(q)' = Own(q)
      /\ \A s : Groups(s)' = Groups(s)
  BY DEF Component, At, Own, Groups
<1>2. (Signed)' = Signed
  BY <1>1 DEF Signed
<1>3. \A s, g : InGroup(s, g)' = InGroup(s, g)
  BY DEF InGroup
<1>4. ASSUME NEW s, NEW g PROVE Net(s, g)' = Net(s, g)
  <2>1. PICK f, S : f = Signed /\ S = {p \in Priced : p[1] = s /\ p[2] = g}
    OBVIOUS
  <2>2. /\ Net(s, g) = applyFloorZero(SumOf(f, S), snapshots[s].groups[g].policy)
        /\ Net(s, g)'
              = applyFloorZero(SumOf(f, S), snapshots[s].groups[g].policy)'
    BY <1>2, <2>1 DEF Net
  <2> QED
    BY <2>2
<1>5. ASSUME NEW s PROVE Nets(s)' = Nets(s) /\ Total(s)' = Total(s)
  <2>1. Nets(s)' = Nets(s)
    BY <1>1, <1>4 DEF Nets
  <2> QED
    BY <1>1, <2>1 DEF Total
<1>6. (Totals)' = Totals
  BY <1>5 DEF Totals
<1>7. ASSUME NEW q, NEW kind PROVE Sum(q, kind)' = Sum(q, kind)
  <2>1. PICK v, w, S : v = worth /\ w = worth' /\ S = OfKind(q, kind)
    OBVIOUS
  <2>2. IsFiniteSet(S) /\ S \subseteq Priced
    BY <2>1, FS_Subset DEF OfKind
  <2>3. SumOf(w, S) = SumOf(v, S)
    BY <2>1, <2>2, SumSame
  <2>4. S = {p \in Priced : p[1] \in Own(q) /\ Component(p).kind = kind}
    BY <2>1 DEF OfKind
  <2>5. Sum(q, kind) = SumOf(v, S)
    BY <2>1, <2>4 DEF Sum
  <2>6. Sum(q, kind)' = SumOf(w, S)
    BY <1>1, <2>1, <2>4 DEF Sum
  <2> QED
    BY <2>3, <2>5, <2>6
<1>8. \A q : PricedOf(q)' = PricedOf(q)
  BY <1>1 DEF PricedOf
<1> QED
  BY <1>2, <1>3, <1>4, <1>5, <1>6, <1>7, <1>8

\* What a component is to the net of its group.
Part(p, value) == IF Component(p).kind = "debt" THEN -value ELSE value

\* One more valued component adds its value to its own group and kind, and to no others.
LEMMA WorthGrows ==
    ASSUME UNCHANGED snapshots, IsFiniteSet(Priced), \A p \in Priced : worth[p] \in Int,
           NEW k \in AllComponents \ Priced, NEW val \in Int,
           worth' = With(worth, k, val)
    PROVE  /\ (Priced)' = Priced \cup {k}
           /\ worth'[k] = val /\ \A p \in Priced : worth'[p] = worth[p]
           /\ \A s, g : s # k[1] \/ g # k[2] =>
                 InGroup(s, g)' = InGroup(s, g) /\ Net(s, g)' = Net(s, g)
           /\ SumOf(Signed, InGroup(k[1], k[2]))'
                 = Part(k, val) + SumOf(Signed, InGroup(k[1], k[2]))
           /\ \A s : s # k[1] => Total(s)' = Total(s)
           /\ \A q, kind : Sum(q, kind)' =
                 IF k[1] \in Own(q) /\ Component(k).kind = kind
                 THEN val + Sum(q, kind) ELSE Sum(q, kind)
           /\ \A q : PricedOf(q)' = PricedOf(q) \cup (IF k[1] \in Own(q) THEN {k} ELSE {})
<1>1. /\ (AllComponents)' = AllComponents
      /\ \A p : Component(p)' = Component(p)
      /\ \A q : Own(q)' = Own(q)
      /\ \A s : Groups(s)' = Groups(s)
  BY Steady DEF Own, Groups
<1>2. /\ DOMAIN worth' = DOMAIN worth \cup {k} /\ worth'[k] = val
      /\ \A p \in DOMAIN worth : p # k => worth'[p] = worth[p]
  BY DEF With
<1>3. (Priced)' = Priced \cup {k}
  BY <1>1, <1>2 DEF Priced
<1>4. \A p \in Priced : worth'[p] = worth[p] /\ p # k
  BY <1>2 DEF Priced
<1>5. PICK P, f, f2, part :
         /\ P = Priced /\ f = Signed /\ f2 = (Signed)' /\ part = Part(k, val)
  OBVIOUS
<1>6. /\ f2[k] = part /\ part \in Int /\ \A p \in P : f2[p] = f[p] /\ f[p] \in Int
  <2>1. f2 = [p \in P \cup {k} |->
                IF Component(p).kind = "debt" THEN -worth'[p] ELSE worth'[p]]
    BY <1>1, <1>3, <1>5 DEF Signed
  <2>2. f = [p \in P |-> IF Component(p).kind = "debt" THEN -worth[p] ELSE worth[p]]
    BY <1>5 DEF Signed
  <2>3. f2[k] = part /\ part \in Int
    BY <1>2, <1>5, <2>1 DEF Part
  <2>4. \A p \in P : f2[p] = f[p] /\ f[p] \in Int
    BY <1>4, <1>5, <2>1, <2>2
  <2> QED
    BY <2>3, <2>4
<1>7. \A T \in SUBSET P : IsFiniteSet(T) /\ k \notin T
  BY <1>5, FS_Subset
<1>8. ASSUME NEW s, NEW g, s # k[1] \/ g # k[2]
      PROVE  InGroup(s, g)' = InGroup(s, g) /\ Net(s, g)' = Net(s, g)
  <2>1. PICK S : S = InGroup(s, g)
    OBVIOUS
  <2>2. InGroup(s, g)' = S /\ S \subseteq P
    BY <1>3, <1>5, <1>8, <2>1 DEF InGroup
  <2>3. SumOf(f2, S) = SumOf(f, S)
    BY <1>6, <1>7, <2>2, SumSame
  <2>4. Net(s, g) = applyFloorZero(SumOf(f, S), snapshots[s].groups[g].policy)
    BY <1>5, <2>1 DEF Net, InGroup
  <2>5. Net(s, g)' = applyFloorZero(SumOf(f2, S), snapshots[s].groups[g].policy)
    <3>1. {p \in Priced : p[1] = s /\ p[2] = g}' = S
      BY <2>2 DEF InGroup
    <3> QED
      BY <1>5, <3>1 DEF Net
  <2> QED
    BY <2>1, <2>2, <2>3, <2>4, <2>5
<1>9. SumOf(Signed, InGroup(k[1], k[2]))'
         = Part(k, val) + SumOf(Signed, InGroup(k[1], k[2]))
  <2>1. PICK S : S = InGroup(k[1], k[2])
    OBVIOUS
  <2>2. InGroup(k[1], k[2])' = S \cup {k} /\ S \subseteq P
    BY <1>3, <1>5, <2>1 DEF InGroup
  <2>3. \A y \in S \cup {k} : f2[y] \in Int
    BY <1>6, <2>2
  <2>4. IsFiniteSet(S) /\ k \notin S
    BY <1>7, <2>2
  <2>5. SumOf(f2, S \cup {k}) = f2[k] + SumOf(f2, S)
    BY <2>3, <2>4, SumAdd
  <2>6. SumOf(f2, S) = SumOf(f, S)
    BY <1>6, <2>2, <2>4, SumSame
  <2> QED
    BY <1>5, <1>6, <2>1, <2>2, <2>5, <2>6
<1>10. ASSUME NEW s, s # k[1] PROVE Total(s)' = Total(s)
  <2>1. Nets(s)' = Nets(s)
    BY <1>1, <1>8, <1>10 DEF Nets
  <2> QED
    BY <1>1, <2>1 DEF Total
<1>11. ASSUME NEW q, NEW kind
       PROVE  Sum(q, kind)' =
                 IF k[1] \in Own(q) /\ Component(k).kind = kind
                 THEN val + Sum(q, kind) ELSE Sum(q, kind)
  <2>1. PICK v, w, S : v = worth /\ w = worth' /\ S = OfKind(q, kind)
    OBVIOUS
  <2>2. S \subseteq P /\ IsFiniteSet(S) /\ k \notin S
    BY <1>5, <1>7, <2>1 DEF OfKind
  <2>3. OfKind(q, kind)' =
           S \cup (IF k[1] \in Own(q) /\ Component(k).kind = kind THEN {k} ELSE {})
    BY <1>1, <1>3, <2>1 DEF OfKind
  <2>4. Sum(q, kind) = SumOf(v, S)
    BY <2>1 DEF Sum, OfKind
  <2>5. Sum(q, kind)' = SumOf(w, OfKind(q, kind)')
    BY <2>1 DEF Sum, OfKind
  <2>6. SumOf(w, S) = SumOf(v, S)
    BY <1>4, <1>5, <2>1, <2>2, SumSame
  <2>7. \A y \in S \cup {k} : w[y] \in Int
    BY <1>2, <1>4, <1>5, <2>1, <2>2
  <2>8. SumOf(w, S \cup {k}) = w[k] + SumOf(w, S)
    BY <2>2, <2>7, SumAdd
  <2>9. CASE k[1] \in Own(q) /\ Component(k).kind = kind
    BY <1>2, <2>1, <2>3, <2>4, <2>5, <2>6, <2>8, <2>9
  <2>10. CASE ~(k[1] \in Own(q) /\ Component(k).kind = kind)
    <3>1. OfKind(q, kind)' = S
      BY <2>3, <2>10
    <3> QED
      BY <2>4, <2>5, <2>6, <2>10, <3>1
  <2> QED
    BY <2>9, <2>10
<1>12. \A q : PricedOf(q)' = PricedOf(q) \cup (IF k[1] \in Own(q) THEN {k} ELSE {})
  BY <1>1, <1>3 DEF PricedOf
<1> QED
  BY <1>2, <1>3, <1>4, <1>8, <1>9, <1>10, <1>11, <1>12

\* What a component is worth is an integer.
LEMMA Amounts ==
    ASSUME PricingAssumption, snapshots \in Portfolios, NEW p \in AllComponents
    PROVE  /\ Component(p).amount \in Int /\ Component(p).ratio \in Int
           /\ Component(p).kind \in Kinds
           /\ Tok(p) \in DOMAIN prices /\ prices[Tok(p)] \in Int =>
                 Component(p).amount * Rate(Component(p)) \in Int
<1>1. \A s \in DOMAIN snapshots : \A g \in DOMAIN snapshots[s].groups :
         \A c \in DOMAIN snapshots[s].groups[g].components :
            /\ snapshots[s].groups[g].components[c].amount \in Int
            /\ snapshots[s].groups[g].components[c].ratio \in Int
            /\ snapshots[s].groups[g].components[c].kind \in Kinds
  BY DEF PricingAssumption, Kinds
<1>2. p[1] \in DOMAIN snapshots /\ p[2] \in Groups(p[1]) /\ p[3] \in Places(p[1], p[2])
  BY Placed
<1>3. /\ Component(p).amount \in Int /\ Component(p).ratio \in Int
      /\ Component(p).kind \in Kinds
  BY <1>1, <1>2 DEF Component, At, Groups, Places
<1>4. RatioOne \in Int
  BY DEF PricingAssumption
<1>5. prices[Tok(p)] \in Int => Rate(Component(p)) \in Int
  BY <1>3, <1>4 DEF Rate, Tok
<1> QED
  BY <1>3, <1>5

\* Quotes are integers, whoever is asked for them.
LEMMA QuotesAreInt ==
    ASSUME PricingAssumption, PriceInv, Fetch, \A t \in DOMAIN prices : prices[t] \in Int
    PROVE  \A t \in DOMAIN prices' : prices'[t] \in Int
<1>1. PICK q : q = Head(queries)
  OBVIOUS
<1>2. PICK got \in Answers(q) : prices' = Merged(prices, Taken(q, got))
  BY <1>1 DEF Fetch
<1>3. \A t \in DOMAIN got.prices :
         got.prices[t] = Quote[<<t, q.at>>] /\ <<t, q.at>> \in DOMAIN Quote
  BY AnswerSays
<1>4. \A k \in DOMAIN Quote : Quote[k] \in Int
  BY DEF PricingAssumption
<1> QED
  BY <1>2, <1>3, <1>4 DEF Merged, Taken

\* Nothing is counted before the valuation.
LEMMA TallyStart == PricingAssumption /\ PricingInit => Tally
<1> SUFFICES ASSUME PricingAssumption, PricingInit PROVE Tally
  OBVIOUS
<1>1. /\ snapshots \in Portfolios /\ phase = "collect" /\ prices = <<>>
      /\ cursor = <<1, 1, 1>> /\ totals = NoTotals /\ worth = <<>> /\ summaries = <<>>
  BY DEF PricingInit
<1>2. \A x : x \notin DOMAIN prices /\ x \notin DOMAIN worth /\ x \notin DOMAIN summaries
  BY <1>1
<1>3. Priced = {} /\ IsFiniteSet(Priced) /\ IsFiniteSet({})
  BY <1>2, FS_EmptySet DEF Priced
<1>4. RunningRight
  <2>1. InGroup(1, 1) = {}
    BY <1>3 DEF InGroup
  <2>2. Closed = {} \/ 1 \notin DOMAIN snapshots
    BY <1>1, Numbered DEF Closed
  <2>3. SumOf(Signed, {}) = 0 /\ SumOf(Nets(1), {}) = 0
    BY SumEmpty
  <2>4. cursor[1] = 1 /\ cursor[2] = 1
    BY <1>1
  <2>5. /\ totals \in [group : Int, groupPriced : BOOLEAN, snapshot : Int, snapshotPriced : BOOLEAN]
        /\ totals.group = 0 /\ totals.snapshot = 0 /\ ~totals.groupPriced
    BY <1>1 DEF NoTotals
  <2>6. SumOf(Signed, InGroup(cursor[1], cursor[2])) = 0
    BY <2>1, <2>3, <2>4
  <2>7. cursor[1] \in DOMAIN snapshots => SumOf(Nets(cursor[1]), Closed) = 0
    BY <2>2, <2>3, <2>4
  <2> QED
    BY <2>5, <2>6, <2>7 DEF RunningRight
<1>5. ASSUME NEW q PROVE SummaryRight(q)
  <2>1. Summary(q) = NoSummary
    BY <1>2 DEF Summary
  <2>2. Earlier(q) = {}
    BY <1>1, Numbered DEF Earlier, Own
  <2>3. Counted(q) = {}
    <3>1. cursor[1] = 1 /\ cursor[2] = 1 /\ cursor[3] = 1
      BY <1>1
    <3>2. \A p \in AllComponents :
             p[1] \in Nat \ {0} /\ p[2] \in Nat \ {0} /\ p[3] \in Nat \ {0}
      BY <1>1, Placed
    <3> QED
      BY <3>1, <3>2 DEF Counted, Passed
  <2>4. PricedOf(q) = {} /\ \A kind : OfKind(q, kind) = {}
    BY <1>3 DEF PricedOf, OfKind
  <2>5. \A kind : Sum(q, kind) = 0
    BY <2>4, SumEmpty DEF Sum, OfKind
  <2>6. Cardinality({}) = 0
    BY FS_EmptySet
  <2>7. \A kind \in Kinds : NoSummary[kind] = 0
    BY DEF NoSummary, Kinds
  <2>8. SumOf(Totals, {}) = 0
    BY SumEmpty
  <2>9. /\ NoSummary \in Counts
        /\ NoSummary.total = 0 /\ NoSummary.priced = 0 /\ NoSummary.components = 0
    BY DEF NoSummary, Counts
  <2> QED
    BY <1>3, <2>1, <2>2, <2>3, <2>4, <2>5, <2>6, <2>7, <2>8, <2>9 DEF SummaryRight
<1> QED
  BY <1>1, <1>2, <1>3, <1>4, <1>5 DEF Tally

\* What was counted stays the same while the cursor and what is valued do.
LEMMA TallyStays ==
    ASSUME PricingAssumption, PriceInv, Tally,
           UNCHANGED <<snapshots, cursor, totals, worth, summaries>>,
           phase' \in Fetching => phase \in Fetching, phase' = "failed" <=> phase = "failed",
           \A t \in DOMAIN prices' : prices'[t] \in Int
    PROVE  Tally'
<1>1. /\ (AllComponents)' = AllComponents
      /\ \A q : Own(q)' = Own(q)
      /\ \A s : Groups(s)' = Groups(s)
      /\ \A p : Passed(p)' <=> Passed(p)
      /\ \A q : Summary(q)' = Summary(q)
  BY Steady DEF Own, Groups, Passed, Summary
<1>2. (Priced)' = Priced /\ IsFiniteSet(Priced)
  BY <1>1 DEF Priced, Tally
<1>3. /\ (Signed)' = Signed
      /\ \A s, g : InGroup(s, g)' = InGroup(s, g)
      /\ \A s : Nets(s)' = Nets(s)
      /\ (Totals)' = Totals
      /\ \A q, kind : Sum(q, kind)' = Sum(q, kind)
      /\ \A q : PricedOf(q)' = PricedOf(q)
  BY <1>2, WorthKeeps
<1>4. ASSUME phase # "failed" PROVE RunningRight'
  <2>1. PICK s, g, f, S : s = cursor[1] /\ g = cursor[2] /\ f = Signed /\ S = InGroup(s, g)
    OBVIOUS
  <2>2. PICK n, C : n = Nets(s) /\ C = Closed
    OBVIOUS
  <2>3. /\ (Signed)' = f /\ InGroup(s, g)' = S /\ Nets(s)' = n
        /\ Closed' = C /\ cursor'[1] = s /\ cursor'[2] = g
    BY <1>1, <1>3, <2>1, <2>2 DEF Closed
  <2>4. RunningRight
    BY <1>4 DEF Tally
  <2> QED
    BY <2>1, <2>2, <2>3, <2>4 DEF RunningRight
<1>5. ASSUME phase # "failed", NEW q PROVE SummaryRight(q)'
  <2>1. PICK f, S : f = Totals /\ S = Earlier(q)
    OBVIOUS
  <2>2. (Totals)' = f /\ Earlier(q)' = S /\ Counted(q)' = Counted(q)
    BY <1>1, <1>3, <2>1 DEF Earlier, Counted
  <2>3. SummaryRight(q)
    BY <1>5 DEF Tally
  <2> QED
    BY <1>1, <1>3, <2>1, <2>2, <2>3 DEF SummaryRight
<1>6. (\A p \in Priced : worth[p] \in Int /\ Passed(p))'
  BY <1>1, <1>2 DEF Tally
<1>7. phase' # "failed" => RunningRight' /\ \A q : SummaryRight(q)'
  BY <1>4, <1>5
<1>8. /\ phase' \in Fetching => totals' = NoTotals /\ summaries' = <<>>
      /\ phase' = "failed" => summaries' = <<>>
  BY DEF Tally
<1>9. (NoTotals)' = NoTotals
  BY DEF NoTotals
<1> QED
  BY <1>2, <1>6, <1>7, <1>8, <1>9 DEF Tally

\* The places of a list are finitely many.
LEMMA FirstNumbers == \A m \in Nat : IsFiniteSet(1..m)
  BY FS_Interval

\* What lies behind the cursor is not touched: the closed groups of its snapshot and the
\* snapshots before it.
LEMMA BehindStays ==
    ASSUME PricingAssumption, snapshots \in Portfolios, UNCHANGED snapshots,
           cursor'[1] = cursor[1], cursor'[2] = cursor[2], cursor[1] \in Nat, cursor[2] \in Nat,
           \A g : g # cursor[2] => Net(cursor[1], g)' = Net(cursor[1], g),
           \A s : s # cursor[1] => Total(s)' = Total(s),
           cursor[1] \in DOMAIN snapshots
    PROVE  /\ SumOf(Nets(cursor[1]), Closed)' = SumOf(Nets(cursor[1]), Closed)
           /\ \A q : SumOf(Totals, Earlier(q))' = SumOf(Totals, Earlier(q))
<1>1. PICK s, g : s = cursor[1] /\ g = cursor[2]
  OBVIOUS
<1>2. /\ \A x : Groups(x)' = Groups(x) /\ Own(x)' = Own(x)
      /\ Closed' = Closed /\ \A q : Earlier(q)' = Earlier(q)
  BY DEF Groups, Own, Closed, Earlier
<1>3. SumOf(Nets(cursor[1]), Closed)' = SumOf(Nets(cursor[1]), Closed)
  <2>1. PICK f, f2, S : f = Nets(cursor[1]) /\ f2 = Nets(cursor[1])' /\ S = Closed
    OBVIOUS
  <2>2. PICK m \in Nat : Groups(s) = 1..m
    BY <1>1, Numbered
  <2>3. S \subseteq 1..m /\ \A x \in S : x # g
    BY <1>1, <2>1, <2>2 DEF Closed
  <2>4. IsFiniteSet(S)
    BY <2>2, <2>3, FirstNumbers, FS_Subset
  <2>5. f = [x \in 1..m |-> Net(s, x)] /\ f2 = [x \in 1..m |-> Net(s, x)']
    BY <1>1, <1>2, <2>1, <2>2 DEF Nets
  <2>6. \A x \in S : f2[x] = f[x]
    BY <1>1, <2>3, <2>5
  <2>7. SumOf(f2, S) = SumOf(f, S)
    BY <2>4, <2>6, SumSame
  <2> QED
    BY <1>2, <2>1, <2>7
<1>4. ASSUME NEW q
      PROVE  SumOf(Totals, Earlier(q))' = SumOf(Totals, Earlier(q))
  <2>1. PICK f, f2, S : f = Totals /\ f2 = (Totals)' /\ S = Earlier(q)
    OBVIOUS
  <2>2. /\ DOMAIN snapshots = 1..Len(snapshots) /\ IsFiniteSet(1..Len(snapshots))
        /\ Len(snapshots) \in Nat
    BY Numbered, FS_Interval
  <2>3. S \subseteq 1..Len(snapshots) /\ \A x \in S : x # s
    BY <1>1, <2>1, <2>2 DEF Earlier, Own
  <2>4. IsFiniteSet(S)
    BY <2>2, <2>3, FS_Subset
  <2>5. \A x \in S : f2[x] = f[x]
    BY <1>1, <2>1, <2>2, <2>3 DEF Totals
  <2>6. SumOf(f2, S) = SumOf(f, S)
    BY <2>4, <2>5, SumSame
  <2> QED
    BY <1>2, <2>1, <2>6
<1> QED
  BY <1>3, <1>4

\* A component that is passed is counted for its own protocol, and for no other.
LEMMA OneMoreCounted ==
    ASSUME PricingAssumption, PriceInv, Tally, ValueComponent, NEW q
    PROVE  /\ IsFiniteSet(Counted(q)') 
           /\ Cardinality(Counted(q)') =
                 Cardinality(Counted(q)) + (IF cursor[1] \in Own(q) THEN 1 ELSE 0)
<1>1. /\ cursor \in AllComponents /\ ~Passed(cursor) /\ snapshots' = snapshots
      /\ \A p \in AllComponents : Passed(p)' <=> Passed(p) \/ p = cursor
      /\ phase # "failed"
  BY AtCursor
<1>2. (AllComponents)' = AllComponents /\ Own(q)' = Own(q)
  BY <1>1, Steady DEF Own
<1>3. IsFiniteSet(Counted(q)) /\ cursor \notin Counted(q)
  BY <1>1 DEF Tally, SummaryRight, Counted
<1>4. Counted(q)' = Counted(q) \cup (IF cursor[1] \in Own(q) THEN {cursor} ELSE {})
  BY <1>1, <1>2 DEF Counted
<1>5. Cardinality(Counted(q)) \in Nat
  BY <1>3, FS_CardinalityType
<1>6. CASE cursor[1] \in Own(q)
  BY <1>3, <1>4, <1>5, <1>6, FS_AddElement
<1>7. CASE cursor[1] \notin Own(q)
  BY <1>3, <1>4, <1>5, <1>7
<1> QED
  BY <1>6, <1>7

\* A summary that counts a component without a quote changes in the count alone.
LEMMA OneMoreSeen ==
    ASSUME NEW r \in Counts, NEW r1, r1 = [r EXCEPT !.components = @ + 1]
    PROVE  /\ r1 \in Counts /\ r1.total = r.total /\ r1.priced = r.priced
           /\ r1.components = r.components + 1 /\ \A x \in Kinds : r1[x] = r[x]
  BY DEF Counts, Kinds

\* A summary with one more valued component.
Adds(summary, kind, value) == [summary EXCEPT !.priced = @ + 1, ![kind] = @ + value]

\* One that counts a component with a quote is a summary, and changes in that component's
\* kind and in no other.
LEMMA OneMorePriced ==
    ASSUME NEW r1 \in Counts, NEW val \in Int, NEW kind \in Kinds, NEW r2, r2 = Adds(r1, kind, val)
    PROVE  /\ r2 \in Counts /\ r2.total = r1.total /\ r2.priced = r1.priced + 1
           /\ r2.components = r1.components
           /\ \A x \in Kinds : r2[x] = IF x = kind THEN val + r1[x] ELSE r1[x]
<1>1. PICK rp : rp = [r1 EXCEPT !.priced = @ + 1]
  OBVIOUS
<1>2. rp \in Counts
  BY <1>1 DEF Counts, Kinds
<1>3. [rp EXCEPT ![kind] = @ + val] \in Counts
  BY <1>2 DEF Counts, Kinds
<1>4. r2 = [rp EXCEPT ![kind] = @ + val]
  BY <1>1 DEF Counts, Kinds, Adds
<1>5. r2.total = r1.total /\ r2.priced = r1.priced + 1 /\ r2.components = r1.components
  BY DEF Counts, Kinds, Adds
<1>6. ASSUME NEW x \in Kinds PROVE r2[x] = IF x = kind THEN val + r1[x] ELSE r1[x]
  BY DEF Counts, Kinds, Adds
<1> QED
  BY <1>3, <1>4, <1>5, <1>6

\* A component that is passed is summed under its protocol and kind and, as an asset or
\* a debt, in its group (applyValuations).
LEMMA ValueTallies ==
    ASSUME PricingAssumption, PriceInv, Tally, ValueComponent
    PROVE  Tally'
<1>1. /\ phase = "value" /\ phase' = "value" /\ snapshots \in Portfolios
      /\ UNCHANGED <<snapshots, prices>> /\ cursor \in AllComponents
      /\ cursor'[1] = cursor[1] /\ cursor'[2] = cursor[2] /\ ~Passed(cursor)
      /\ Component(cursor) = At(cursor[1], cursor[2], cursor[3])
      /\ \A p \in AllComponents : Passed(p)' <=> Passed(p) \/ p = cursor
  BY AtCursor
<1>2. PICK k, at, q0 : k = cursor /\ at = Component(k) /\ q0 = snapshots[k[1]].protocol
  OBVIOUS
<1>3. /\ k[1] \in DOMAIN snapshots /\ k[1] \in Nat /\ k[2] \in Nat
      /\ \A q : k[1] \in Own(q) <=> q = q0
  BY <1>1, <1>2, Placed DEF Own
<1>4. /\ at.kind \in Kinds /\ Tok(k) = priceToken(at)
      /\ Tok(k) \in DOMAIN prices => at.amount * Rate(at) \in Int
  BY <1>1, <1>2, Amounts DEF Tally, Tok
<1>5. PICK val, r, r1 : /\ val = at.amount * Rate(at) /\ r = Summary(q0)
                        /\ r1 = [r EXCEPT !.components = @ + 1]
  OBVIOUS
<1>6. PICK r2 : r2 = Adds(r1, at.kind, val)
  OBVIOUS
<1>7. IF Tok(k) \notin DOMAIN prices
      THEN summaries' = With(summaries, q0, r1) /\ worth' = worth /\ totals' = totals
      ELSE /\ summaries' = With(summaries, q0, r2) /\ worth' = With(worth, k, val)
           /\ totals' = [totals EXCEPT
                 !.group = IF at.kind = "debt" THEN @ - val ELSE @ + val,
                 !.groupPriced = TRUE, !.snapshotPriced = TRUE]
  BY <1>1, <1>2, <1>4, <1>5, <1>6 DEF ValueComponent, Quoted, Keep, Adds
<1>8. /\ IsFiniteSet(Priced) /\ \A p \in Priced : worth[p] \in Int /\ Passed(p)
      /\ RunningRight /\ \A q : SummaryRight(q)
      /\ \A t \in DOMAIN prices : prices[t] \in Int
  BY <1>1 DEF Tally
<1>9. k \notin Priced /\ (AllComponents)' = AllComponents
  BY <1>1, <1>2, <1>8, Steady
<1>10. ASSUME NEW q
       PROVE  /\ IsFiniteSet(Counted(q)') /\ Cardinality(Counted(q)) \in Int
              /\ Cardinality(Counted(q)')
                   = Cardinality(Counted(q)) + (IF q = q0 THEN 1 ELSE 0)
  BY <1>2, <1>3, <1>8, OneMoreCounted, FS_CardinalityType DEF SummaryRight
<1>11. r \in Counts
  BY <1>5, <1>8 DEF SummaryRight
<1>12. CASE Tok(k) \notin DOMAIN prices
  <2>1. summaries' = With(summaries, q0, r1) /\ worth' = worth /\ totals' = totals
    BY <1>7, <1>12
  <2>2. (Priced)' = Priced
    BY <1>9, <2>1 DEF Priced
  <2>3. /\ (Signed)' = Signed
        /\ \A s, g : InGroup(s, g)' = InGroup(s, g) /\ Net(s, g)' = Net(s, g)
        /\ \A s : Total(s)' = Total(s)
        /\ \A q, kind : Sum(q, kind)' = Sum(q, kind)
        /\ \A q : PricedOf(q)' = PricedOf(q)
    BY <1>1, <1>8, <2>1, <2>2, WorthKeeps
  <2>4. /\ SumOf(Nets(cursor[1]), Closed)' = SumOf(Nets(cursor[1]), Closed)
        /\ \A q : SumOf(Totals, Earlier(q))' = SumOf(Totals, Earlier(q))
    BY <1>1, <1>2, <1>3, <2>3, BehindStays
  <2>5. RunningRight'
    <3>1. PICK f, S : f = Signed /\ S = InGroup(k[1], k[2])
      OBVIOUS
    <3>2. (Signed)' = f /\ InGroup(k[1], k[2])' = S
      BY <2>3, <3>1
    <3>3. cursor'[1] = k[1] /\ cursor'[2] = k[2] /\ cursor[1] = k[1] /\ cursor[2] = k[2]
      BY <1>1, <1>2
    <3> QED
      BY <1>1, <1>8, <2>1, <2>4, <3>1, <3>2, <3>3 DEF RunningRight
  <2>6. ASSUME NEW q PROVE SummaryRight(q)'
    <3>1. Summary(q)' = IF q = q0 THEN r1 ELSE Summary(q)
      BY <2>1 DEF Summary, With
    <3>2. /\ r1 \in Counts /\ r1.total = r.total /\ r1.priced = r.priced
          /\ r1.components = r.components + 1 /\ \A x \in Kinds : r1[x] = r[x]
      BY <1>5, <1>11, OneMoreSeen
    <3>3. SummaryRight(q)
      BY <1>8
    <3>4. Summary(q)' \in Counts
      BY <3>1, <3>2, <3>3 DEF SummaryRight
    <3>5. Summary(q)'.total = SumOf(Totals, Earlier(q))'
      BY <1>5, <2>4, <3>1, <3>2, <3>3 DEF SummaryRight
    <3>6. \A kind \in Kinds : Summary(q)'[kind] = Sum(q, kind)'
      BY <1>5, <2>3, <3>1, <3>2, <3>3 DEF SummaryRight
    <3>7. Summary(q)'.priced = Cardinality(PricedOf(q)')
      BY <1>5, <2>3, <3>1, <3>2, <3>3 DEF SummaryRight
    <3>8. Summary(q)'.components = Cardinality(Counted(q)') /\ IsFiniteSet(Counted(q)')
      BY <1>5, <1>10, <3>1, <3>2, <3>3 DEF SummaryRight
    <3> QED
      BY <3>4, <3>5, <3>6, <3>7, <3>8 DEF SummaryRight
  <2>7. (\A p \in Priced : worth[p] \in Int /\ Passed(p))'
    BY <1>1, <1>8, <2>1, <2>2 DEF Priced
  <2>8. IsFiniteSet((Priced)') /\ phase' \notin Fetching /\ phase' # "failed"
    BY <1>1, <1>8, <2>2 DEF Fetching
  <2> QED
    BY <1>1, <1>8, <2>5, <2>6, <2>7, <2>8 DEF Tally
<1>13. CASE Tok(k) \in DOMAIN prices
  <2>1. /\ summaries' = With(summaries, q0, r2) /\ worth' = With(worth, k, val)
        /\ totals' = [totals EXCEPT
              !.group = IF at.kind = "debt" THEN @ - val ELSE @ + val,
              !.groupPriced = TRUE, !.snapshotPriced = TRUE]
    BY <1>7, <1>13
  <2>2. val \in Int
    BY <1>4, <1>5, <1>13
  <2>3. PICK part \in Int : part = Part(k, val)
    BY <2>2 DEF Part
  <2>4. /\ k \in AllComponents \ Priced /\ UNCHANGED snapshots
        /\ IsFiniteSet(Priced) /\ \A p \in Priced : worth[p] \in Int
        /\ worth' = With(worth, k, val)
    BY <1>1, <1>2, <1>8, <1>9, <2>1
  <2>5. /\ (Priced)' = Priced \cup {k}
        /\ worth'[k] = val /\ \A p \in Priced : worth'[p] = worth[p]
        /\ \A s, g : s # k[1] \/ g # k[2] => Net(s, g)' = Net(s, g)
        /\ SumOf(Signed, InGroup(k[1], k[2]))'
              = part + SumOf(Signed, InGroup(k[1], k[2]))
        /\ \A s : s # k[1] => Total(s)' = Total(s)
        /\ \A q, kind : Sum(q, kind)' =
              IF k[1] \in Own(q) /\ Component(k).kind = kind
              THEN val + Sum(q, kind) ELSE Sum(q, kind)
        /\ \A q : PricedOf(q)' = PricedOf(q) \cup (IF k[1] \in Own(q) THEN {k} ELSE {})
    BY <2>2, <2>3, <2>4, WorthGrows
  <2>6. /\ SumOf(Nets(cursor[1]), Closed)' = SumOf(Nets(cursor[1]), Closed)
        /\ \A q : SumOf(Totals, Earlier(q))' = SumOf(Totals, Earlier(q))
    <3>1. /\ snapshots \in Portfolios /\ UNCHANGED snapshots /\ cursor[1] \in DOMAIN snapshots
          /\ cursor'[1] = cursor[1] /\ cursor'[2] = cursor[2] /\ cursor[1] \in Nat /\ cursor[2] \in Nat
      BY <1>1, <1>2, <1>3
    <3>2. /\ \A g : g # cursor[2] => Net(cursor[1], g)' = Net(cursor[1], g)
          /\ \A s : s # cursor[1] => Total(s)' = Total(s)
      BY <1>2, <2>5, <3>1
    <3> QED
      BY <3>1, <3>2, BehindStays
  <2>7. RunningRight'
    <3>1. totals \in [group : Int, groupPriced : BOOLEAN, snapshot : Int, snapshotPriced : BOOLEAN]
      BY <1>8 DEF RunningRight
    <3>2. /\ totals'.group = part + totals.group /\ totals'.groupPriced /\ totals'.snapshotPriced
          /\ totals'.snapshot = totals.snapshot
          /\ totals' \in [group : Int, groupPriced : BOOLEAN, snapshot : Int, snapshotPriced : BOOLEAN]
      <4>1. PICK t \in Int : t = IF at.kind = "debt" THEN totals.group - val ELSE totals.group + val
        BY <2>2, <3>1
      <4>2. t = part + totals.group
        BY <1>2, <2>2, <2>3, <3>1, <4>1 DEF Part
      <4>3. totals' = [totals EXCEPT !.group = t, !.groupPriced = TRUE, !.snapshotPriced = TRUE]
        BY <2>1, <4>1
      <4>4. totals' = [group |-> t, groupPriced |-> TRUE, snapshot |-> totals.snapshot,
                       snapshotPriced |-> TRUE]
        BY <3>1, <4>3
      <4> QED
        BY <3>1, <4>2, <4>4
    <3>3. cursor'[1] = k[1] /\ cursor'[2] = k[2] /\ cursor[1] = k[1] /\ cursor[2] = k[2]
      BY <1>1, <1>2
    <3>4. SumOf(Signed, InGroup(cursor[1], cursor[2]))' = totals'.group
      <4>1. totals.group = SumOf(Signed, InGroup(k[1], k[2]))
        BY <1>3, <1>8, <3>3 DEF RunningRight
      <4>2. InGroup(cursor[1], cursor[2])' = InGroup(k[1], k[2])'
        BY <3>3 DEF InGroup
      <4> QED
        BY <2>5, <3>2, <4>1, <4>2
    <3>5. totals'.snapshot = SumOf(Nets(cursor[1]), Closed)'
      BY <1>3, <1>8, <2>6, <3>2, <3>3 DEF RunningRight
    <3> QED
      BY <3>2, <3>4, <3>5 DEF RunningRight
  <2>8. ASSUME NEW q PROVE SummaryRight(q)'
    <3>1. Summary(q)' = IF q = q0 THEN r2 ELSE Summary(q)
      BY <2>1 DEF Summary, With
    <3>2. /\ r2 \in Counts /\ r2.total = r.total /\ r2.priced = r.priced + 1
          /\ r2.components = r.components + 1
          /\ \A x \in Kinds : r2[x] = IF x = at.kind THEN val + r[x] ELSE r[x]
      <4>1. /\ r1 \in Counts /\ r1.total = r.total /\ r1.priced = r.priced
            /\ r1.components = r.components + 1 /\ \A x \in Kinds : r1[x] = r[x]
        BY <1>5, <1>11, OneMoreSeen
      <4>2. /\ r2 \in Counts /\ r2.total = r1.total /\ r2.priced = r1.priced + 1
            /\ r2.components = r1.components
            /\ \A x \in Kinds : r2[x] = IF x = at.kind THEN val + r1[x] ELSE r1[x]
        BY <1>4, <1>6, <2>2, <4>1, OneMorePriced
      <4> QED
        BY <4>1, <4>2
    <3>3. SummaryRight(q)
      BY <1>8
    <3>4. Summary(q)' \in Counts
      BY <3>1, <3>2, <3>3 DEF SummaryRight
    <3>5. Summary(q)'.total = SumOf(Totals, Earlier(q))'
      BY <1>5, <2>6, <3>1, <3>2, <3>3 DEF SummaryRight
    <3>6. \A kind \in Kinds : Summary(q)'[kind] = Sum(q, kind)'
      <4>1. ASSUME NEW kind \in Kinds PROVE Summary(q)'[kind] = Sum(q, kind)'
        <5>1. Summary(q)[kind] = Sum(q, kind)
          BY <3>3 DEF SummaryRight
        <5>2. Sum(q, kind)' = IF q = q0 /\ at.kind = kind
                                    THEN val + Sum(q, kind) ELSE Sum(q, kind)
          BY <1>2, <1>3, <2>5
        <5> QED
          BY <1>5, <3>1, <3>2, <5>1, <5>2
      <4> QED
        BY <4>1
    <3>7. Summary(q)'.priced = Cardinality(PricedOf(q)')
      <4>1. IsFiniteSet(PricedOf(q)) /\ k \notin PricedOf(q)
        BY <1>8, <1>9, FS_Subset DEF PricedOf
      <4>2. Cardinality(PricedOf(q)) \in Int /\ Cardinality(PricedOf(q) \cup {k}) = Cardinality(PricedOf(q)) + 1
        BY <4>1, FS_CardinalityType, FS_AddElement
      <4>3. PricedOf(q)' = PricedOf(q) \cup (IF q = q0 THEN {k} ELSE {})
        BY <1>3, <2>5
      <4>4. Summary(q).priced = Cardinality(PricedOf(q))
        BY <3>3 DEF SummaryRight
      <4> QED
        <5>1. CASE q = q0
          BY <1>5, <3>1, <3>2, <4>2, <4>3, <4>4, <5>1
        <5>2. CASE q # q0
          BY <3>1, <4>3, <4>4, <5>2
        <5> QED
          BY <5>1, <5>2
    <3>8. Summary(q)'.components = Cardinality(Counted(q)') /\ IsFiniteSet(Counted(q)')
      BY <1>5, <1>10, <3>1, <3>2, <3>3 DEF SummaryRight
    <3> QED
      BY <3>4, <3>5, <3>6, <3>7, <3>8 DEF SummaryRight
  <2>9. (\A p \in Priced : worth[p] \in Int /\ Passed(p))'
    <3>1. k \in AllComponents /\ Priced \subseteq AllComponents
      BY <2>4 DEF Priced
    <3>2. Passed(k)' /\ \A p \in Priced : Passed(p)'
      BY <1>1, <1>2, <1>8, <3>1
    <3> QED
      BY <1>8, <2>2, <2>5, <3>2
  <2>10. IsFiniteSet((Priced)') /\ phase' \notin Fetching /\ phase' # "failed"
    BY <1>1, <1>8, <2>5, FS_AddElement DEF Fetching
  <2> QED
    BY <1>1, <1>8, <2>7, <2>8, <2>9, <2>10 DEF Tally
<1> QED
  BY <1>12, <1>13

\* Nothing is valued of a group the cursor has not reached.
LEMMA NoneAhead ==
    ASSUME PricingAssumption, snapshots \in Portfolios,
           \A p \in Priced : Passed(p), cursor[1] \in Nat, cursor[2] \in Nat,
           NEW s \in Nat, NEW g \in Nat,
           s > cursor[1] \/ (s = cursor[1] /\ g > cursor[2])
    PROVE  InGroup(s, g) = {}
<1>1. SUFFICES ASSUME NEW p \in Priced, p[1] = s, p[2] = g PROVE FALSE
  BY DEF InGroup
<1>2. p[1] \in Nat /\ p[2] \in Nat
  BY Placed DEF Priced
<1>3. Passed(p)
  OBVIOUS
<1> QED
  BY <1>1, <1>2, <1>3 DEF Passed

\* A group that ends adds its net, after its policy, to its snapshot, and the next one
\* starts from nothing.
LEMMA EndGroupTallies ==
    ASSUME PricingAssumption, PriceInv, Tally, EndGroup
    PROVE  Tally'
<1>1. PICK s, g : s = cursor[1] /\ g = cursor[2]
  OBVIOUS
<1>2. /\ phase = "value" /\ phase' = "value" /\ snapshots \in Portfolios
      /\ UNCHANGED <<snapshots, prices>>
      /\ s \in DOMAIN snapshots /\ s \in Nat \ {0} /\ g \in Nat \ {0}
      /\ (Priced)' = Priced /\ \A p \in Priced : worth'[p] = worth[p]
      /\ \A p \in AllComponents : Passed(p)' <=> Passed(p)
  BY <1>1, EndsLeave
<1>3. PICK value : value = applyFloorZero(totals.group, snapshots[s].groups[g].policy)
  OBVIOUS
<1>4. /\ g \in Groups(s) /\ cursor'[1] = s /\ cursor'[2] = g + 1 /\ summaries' = summaries
      /\ totals' = IF totals.groupPriced THEN GroupClosed(value) ELSE totals
  BY <1>1, <1>3 DEF EndGroup
<1>5. /\ IsFiniteSet(Priced) /\ \A p \in Priced : worth[p] \in Int /\ Passed(p)
      /\ RunningRight /\ \A q : SummaryRight(q)
      /\ \A t \in DOMAIN prices : prices[t] \in Int
  BY <1>2 DEF Tally
<1>6. /\ (Signed)' = Signed
      /\ \A x, y : InGroup(x, y)' = InGroup(x, y)
      /\ \A x : Nets(x)' = Nets(x)
      /\ (Totals)' = Totals
      /\ \A q, kind : Sum(q, kind)' = Sum(q, kind)
      /\ \A q : PricedOf(q)' = PricedOf(q)
  BY <1>2, <1>5, WorthKeeps
<1>7. /\ (AllComponents)' = AllComponents
      /\ \A q : Own(q)' = Own(q) /\ Summary(q)' = Summary(q)
      /\ \A x : Groups(x)' = Groups(x)
  BY <1>2, <1>4, Steady DEF Own, Groups, Summary
<1>8. PICK n, C : n = Nets(s) /\ C = Closed
  OBVIOUS
<1>9. SumOf(n, C \cup {g}) = value + SumOf(n, C)
  <2>1. PICK m \in Nat : Groups(s) = 1..m
    BY <1>2, Numbered
  <2>2. IsFiniteSet(1..m)
    BY FS_Interval
  <2>3. C = {x \in 1..m : x < g}
    BY <1>1, <1>8, <2>1 DEF Closed
  <2>4. IsFiniteSet(C) /\ g \notin C /\ C \cup {g} \subseteq Groups(s)
    BY <1>2, <1>4, <2>1, <2>2, <2>3, FS_Subset
  <2>5. n = [x \in Groups(s) |-> Net(s, x)] /\ \A x : Net(s, x) \in Int
    BY <1>2, <1>5, <1>8, NetsAreInt DEF Nets
  <2>6. n[g] = value
    <3>1. totals.group = SumOf(Signed, InGroup(s, g))
      BY <1>1, <1>2, <1>5 DEF RunningRight
    <3>2. Net(s, g) = value
      BY <1>3, <3>1 DEF Net, InGroup
    <3> QED
      BY <1>4, <2>5, <3>2
  <2>7. \A y \in C \cup {g} : n[y] \in Int
    BY <2>4, <2>5
  <2> QED
    BY <2>4, <2>6, <2>7, SumAdd
<1>10. Closed' = C \cup {g}
  <2>1. Closed' = {x \in Groups(s) : x < g + 1}
    BY <1>4, <1>7 DEF Closed
  <2>2. C = {x \in Groups(s) : x < g}
    BY <1>1, <1>8 DEF Closed
  <2>3. PICK m \in Nat : Groups(s) = 1..m
    BY <1>2, Numbered
  <2>4. \A x \in Groups(s) : x < g + 1 <=> x < g \/ x = g
    BY <1>2, <2>3
  <2> QED
    BY <1>4, <2>1, <2>2, <2>4
<1>11. RunningRight'
  <2>1. /\ totals \in [group : Int, groupPriced : BOOLEAN, snapshot : Int, snapshotPriced : BOOLEAN]
        /\ ~totals.groupPriced => totals.group = 0
        /\ ~totals.snapshotPriced => totals.snapshot = 0 /\ ~totals.groupPriced
        /\ totals.snapshot = SumOf(n, C)
    BY <1>1, <1>2, <1>5, <1>8 DEF RunningRight
  <2>2. value \in Int /\ (totals.group = 0 => value = 0)
    BY <1>3, <2>1 DEF applyFloorZero
  <2>3. /\ totals' \in [group : Int, groupPriced : BOOLEAN, snapshot : Int, snapshotPriced : BOOLEAN]
        /\ totals'.group = 0 /\ totals'.groupPriced = FALSE
        /\ totals'.snapshotPriced = totals.snapshotPriced
        /\ totals'.snapshot = value + totals.snapshot
    <3>1. CASE totals.groupPriced
      <4>1. totals' = [group |-> 0, groupPriced |-> FALSE, snapshot |-> totals.snapshot + value,
                       snapshotPriced |-> totals.snapshotPriced]
        BY <1>4, <2>1, <3>1 DEF GroupClosed
      <4> QED
        BY <2>1, <2>2, <4>1
    <3>2. CASE ~totals.groupPriced
      BY <1>4, <2>1, <2>2, <3>2
    <3> QED
      BY <3>1, <3>2
  <2>4. ~totals.snapshotPriced => value = 0
    BY <2>1, <2>2
  <2>5. SumOf(Signed, InGroup(cursor[1], cursor[2]))' = 0
    <3>1. InGroup(s, g + 1) = {}
      <4>1. g + 1 \in Nat /\ g + 1 > g
        BY <1>2
      <4> QED
        BY <1>1, <1>2, <1>5, <4>1, NoneAhead
    <3>2. (InGroup(cursor[1], cursor[2]))' = {}
      BY <1>4, <1>6, <3>1
    <3> QED
      BY <3>2, SumEmpty
  <2>6. SumOf(Nets(cursor[1]), Closed)' = SumOf(n, C \cup {g})
    BY <1>4, <1>6, <1>8, <1>10
  <2> QED
    BY <1>9, <2>1, <2>2, <2>3, <2>4, <2>5, <2>6 DEF RunningRight
<1>12. ASSUME NEW q PROVE SummaryRight(q)'
  <2>1. PICK f, S : f = Totals /\ S = Earlier(q)
    OBVIOUS
  <2>2. (Totals)' = f /\ Earlier(q)' = S /\ Counted(q)' = Counted(q)
    BY <1>1, <1>2, <1>4, <1>6, <1>7, <2>1 DEF Earlier, Counted
  <2>3. SummaryRight(q)
    BY <1>5
  <2> QED
    BY <1>6, <1>7, <2>1, <2>2, <2>3 DEF SummaryRight
<1>13. (\A p \in Priced : worth[p] \in Int /\ Passed(p))'
  BY <1>2, <1>5 DEF Priced
<1>14. IsFiniteSet((Priced)') /\ phase' \notin Fetching /\ phase' # "failed"
  BY <1>2, <1>5 DEF Fetching
<1> QED
  BY <1>2, <1>5, <1>11, <1>12, <1>13, <1>14 DEF Tally

\* A snapshot that ends adds what its groups come to, after its policy, to its protocol.
LEMMA EndSnapshotTallies ==
    ASSUME PricingAssumption, PriceInv, Tally, EndSnapshot
    PROVE  Tally'
<1>1. PICK s, g, q0 : s = cursor[1] /\ g = cursor[2] /\ q0 = snapshots[s].protocol
  OBVIOUS
<1>2. /\ phase = "value" /\ phase' = "value" /\ snapshots \in Portfolios
      /\ UNCHANGED <<snapshots, prices>>
      /\ s \in DOMAIN snapshots /\ s \in Nat \ {0} /\ g \in Nat \ {0}
      /\ (Priced)' = Priced /\ \A p \in Priced : worth'[p] = worth[p]
      /\ \A p \in AllComponents : Passed(p)' <=> Passed(p)
  BY <1>1, EndsLeave
<1>3. PICK value, r : /\ value = applyFloorZero(totals.snapshot, snapshots[s].policy)
                      /\ r = Summary(q0)
  OBVIOUS
<1>4. /\ g \notin Groups(s) /\ cursor' = <<s + 1, 1, 1>> /\ totals' = NoTotals
      /\ summaries' = IF totals.snapshotPriced
                      THEN With(summaries, q0, [r EXCEPT !.total = @ + value])
                      ELSE summaries
  BY <1>1, <1>3 DEF EndSnapshot, Keep
<1>5. /\ IsFiniteSet(Priced) /\ \A p \in Priced : worth[p] \in Int /\ Passed(p)
      /\ RunningRight /\ \A q : SummaryRight(q)
      /\ \A t \in DOMAIN prices : prices[t] \in Int
  BY <1>2 DEF Tally
<1>6. /\ (Signed)' = Signed
      /\ \A x, y : InGroup(x, y)' = InGroup(x, y)
      /\ (Totals)' = Totals
      /\ \A q, kind : Sum(q, kind)' = Sum(q, kind)
      /\ \A q : PricedOf(q)' = PricedOf(q)
  BY <1>2, <1>5, WorthKeeps
<1>7. /\ (AllComponents)' = AllComponents
      /\ \A q : Own(q)' = Own(q)
      /\ \A x : Groups(x)' = Groups(x)
  BY <1>2, Steady DEF Own, Groups
<1>8. /\ totals \in [group : Int, groupPriced : BOOLEAN, snapshot : Int, snapshotPriced : BOOLEAN]
      /\ ~totals.snapshotPriced => totals.snapshot = 0
      /\ totals.snapshot = SumOf(Nets(cursor[1]), Closed)
  BY <1>1, <1>2, <1>5 DEF RunningRight
<1>9. value \in Int /\ (~totals.snapshotPriced => value = 0)
  BY <1>3, <1>8 DEF applyFloorZero
<1>10. Total(s) = value
  <2>1. PICK m \in Nat : Groups(s) = 1..m
    BY <1>2, Numbered
  <2>2. Closed = Groups(s)
    BY <1>1, <1>2, <1>4, <2>1 DEF Closed
  <2> QED
    BY <1>1, <1>3, <1>8, <2>2 DEF Total
<1>11. RunningRight'
  <2>1. cursor'[1] = s + 1 /\ cursor'[2] = 1
    BY <1>4
  <2>2. s + 1 \in Nat /\ s + 1 > s
    BY <1>2
  <2>3. InGroup(s + 1, 1) = {}
    BY <1>1, <1>2, <1>5, <2>2, NoneAhead
  <2>4. SumOf(Signed, InGroup(cursor[1], cursor[2]))' = 0
    <3>1. (InGroup(cursor[1], cursor[2]))' = {}
      BY <1>6, <2>1, <2>3
    <3> QED
      BY <3>1, SumEmpty
  <2>5. cursor'[1] \in DOMAIN snapshots' => SumOf(Nets(cursor[1]), Closed)' = 0
    <3>1. ASSUME s + 1 \in DOMAIN snapshots PROVE Closed' = {}
      <4>1. PICK m \in Nat : Groups(s + 1) = 1..m
        BY <1>2, <3>1, Numbered
      <4> QED
        BY <1>7, <2>1, <4>1 DEF Closed
    <3> QED
      BY <1>2, <2>1, <3>1, SumEmpty
  <2>6. /\ totals' \in [group : Int, groupPriced : BOOLEAN, snapshot : Int, snapshotPriced : BOOLEAN]
        /\ totals'.group = 0 /\ totals'.snapshot = 0 /\ ~totals'.groupPriced
    BY <1>4 DEF NoTotals
  <2> QED
    BY <2>4, <2>5, <2>6 DEF RunningRight
<1>12. ASSUME NEW q PROVE SummaryRight(q)'
  <2>1. SummaryRight(q) /\ r \in Counts
    BY <1>3, <1>5 DEF SummaryRight
  <2>2. /\ Summary(q)' \in Counts
        /\ Summary(q)'.total = Summary(q).total + (IF q = q0 THEN value ELSE 0)
        /\ Summary(q)'.priced = Summary(q).priced
        /\ Summary(q)'.components = Summary(q).components
        /\ \A x \in Kinds : Summary(q)'[x] = Summary(q)[x]
    <3>1. Summary(q) \in Counts /\ Summary(q).total \in Int
      BY <2>1 DEF SummaryRight, Counts
    <3>2. CASE totals.snapshotPriced /\ q = q0
      <4>1. Summary(q)' = [r EXCEPT !.total = @ + value] /\ Summary(q) = r
        BY <1>3, <1>4, <3>2 DEF Summary, With
      <4>2. PICK r2 : r2 = [r EXCEPT !.total = @ + value]
        OBVIOUS
      <4>3. /\ r2 \in Counts /\ r2.total = r.total + value /\ r2.priced = r.priced
            /\ r2.components = r.components /\ \A x \in Kinds : r2[x] = r[x]
        BY <1>9, <2>1, <4>2 DEF Counts, Kinds
      <4> QED
        BY <3>2, <4>1, <4>2, <4>3
    <3>3. CASE ~(totals.snapshotPriced /\ q = q0)
      <4>1. Summary(q)' = Summary(q)
        BY <1>4, <3>3 DEF Summary, With
      <4>2. (IF q = q0 THEN value ELSE 0) = 0
        BY <1>9, <3>3
      <4> QED
        BY <3>1, <4>1, <4>2
    <3> QED
      BY <3>2, <3>3
  <2>3. SumOf(Totals, Earlier(q))'
           = SumOf(Totals, Earlier(q)) + (IF q = q0 THEN value ELSE 0)
    <3>1. PICK f, S : f = Totals /\ S = Earlier(q)
      OBVIOUS
    <3>2. /\ DOMAIN snapshots = 1..Len(snapshots) /\ IsFiniteSet(1..Len(snapshots))
          /\ Len(snapshots) \in Nat
      BY <1>2, Numbered, FS_Interval
    <3>3. S = {x \in Own(q) : x < s}
      BY <1>1, <3>1 DEF Earlier
    <3>4. Earlier(q)' = {x \in Own(q) : x < s + 1}
      BY <1>4, <1>7 DEF Earlier
    <3>5. Own(q) \subseteq 1..Len(snapshots) /\ (s \in Own(q) <=> q = q0)
      BY <1>1, <1>2, <3>2 DEF Own
    <3>6. Earlier(q)' = S \cup (IF q = q0 THEN {s} ELSE {})
      <4>1. \A x \in Own(q) : x < s + 1 <=> x < s \/ x = s
        BY <1>2, <3>5
      <4> QED
        BY <3>3, <3>4, <3>5, <4>1
    <3>7. S \subseteq 1..Len(snapshots) /\ s \notin S /\ IsFiniteSet(S)
      BY <1>2, <3>2, <3>3, <3>5, FS_Subset
    <3>8. f = [x \in 1..Len(snapshots) |-> Total(x)] /\ s \in 1..Len(snapshots)
      BY <1>2, <3>1, <3>2 DEF Totals
    <3>9. \A x \in 1..Len(snapshots) : Total(x) \in Int
      BY <1>2, <1>5, <3>2, NetsAreInt
    <3>10. f[s] = value /\ \A y \in S \cup {s} : f[y] \in Int
      BY <1>10, <3>7, <3>8, <3>9
    <3>11. /\ SumOf(f, S \cup {s}) = value + SumOf(f, S)
           /\ SumOf(f, S) \in Int
      BY <3>7, <3>10, SumAdd, SumRemove
    <3>12. SumOf(Totals, Earlier(q))' = SumOf(f, Earlier(q)')
      BY <1>6, <3>1
    <3>13. CASE q = q0
      BY <1>9, <3>1, <3>6, <3>11, <3>12, <3>13
    <3>14. CASE q # q0
      <4>1. Earlier(q)' = S
        BY <3>6, <3>14
      <4> QED
        BY <3>1, <3>11, <3>12, <3>14, <4>1
    <3> QED
      BY <3>13, <3>14
  <2>4. Counted(q)' = Counted(q)
    BY <1>2, <1>7 DEF Counted
  <2> QED
    BY <1>6, <2>1, <2>2, <2>3, <2>4 DEF SummaryRight
<1>13. (\A p \in Priced : worth[p] \in Int /\ Passed(p))'
  BY <1>2, <1>5 DEF Priced
<1>14. IsFiniteSet((Priced)') /\ phase' \notin Fetching /\ phase' # "failed"
  BY <1>2, <1>5 DEF Fetching
<1> QED
  BY <1>2, <1>5, <1>11, <1>12, <1>13, <1>14 DEF Tally

\* Every step keeps the count.
LEMMA TallyStep ==
    PricingAssumption /\ PriceInv /\ Tally /\ [PricingNext]_pricingVars => Tally'
<1> SUFFICES ASSUME PricingAssumption, PriceInv, Tally, [PricingNext]_pricingVars
             PROVE  Tally'
  OBVIOUS
<1>1. \A t \in DOMAIN prices : prices[t] \in Int
  BY DEF Tally
<1>2. CASE StopPricing \/ Collect \/ Fetched \/ Valued \/ UNCHANGED pricingVars
  <2>1. /\ UNCHANGED <<snapshots, cursor, totals, worth, summaries, prices>>
        /\ phase' \in Fetching => phase \in Fetching
        /\ phase' = "failed" <=> phase = "failed"
    BY <1>2 DEF StopPricing, Collect, Fetched, Valued, pricingVars,
                fetchVars, valueVars, Fetching
  <2> QED
    BY <1>1, <2>1, TallyStays
<1>3. CASE Fetch
  <2>1. /\ UNCHANGED <<snapshots, cursor, totals, worth, summaries, phase>>
        /\ \A t \in DOMAIN prices' : prices'[t] \in Int
    BY <1>1, <1>3, QuotesAreInt DEF Fetch, valueVars
  <2> QED
    BY <2>1, TallyStays
<1>4. CASE ValueComponent
  BY <1>4, ValueTallies
<1>5. CASE EndGroup
  BY <1>5, EndGroupTallies
<1>6. CASE EndSnapshot
  BY <1>6, EndSnapshotTallies
<1>7. CASE RefuseComponent
  <2>1. /\ phase' = "failed" /\ summaries' = <<>>
        /\ UNCHANGED <<snapshots, cursor, totals, worth, prices>>
    BY <1>7 DEF RefuseComponent, fetchVars
  <2>2. /\ (AllComponents)' = AllComponents
        /\ \A p : Passed(p)' <=> Passed(p)
    BY <2>1, Steady DEF Passed
  <2>3. (Priced)' = Priced
    BY <2>1, <2>2 DEF Priced
  <2>4. (IsFiniteSet(Priced) /\ \A p \in Priced : worth[p] \in Int /\ Passed(p))'
    BY <2>1, <2>2, <2>3 DEF Tally
  <2> QED
    BY <1>1, <2>1, <2>4 DEF Tally, Fetching
<1> QED
  BY <1>2, <1>3, <1>4, <1>5, <1>6, <1>7 DEF PricingNext

\* At the end the cursor has passed every component and every snapshot.
LEMMA TallyNet == PricingAssumption /\ PriceInv /\ Tally => TotalsNet
<1> SUFFICES ASSUME PricingAssumption, PriceInv, Tally PROVE TotalsNet
  OBVIOUS
<1>1. phase = "failed" => summaries = <<>>
  BY DEF Tally
<1>2. ASSUME phase = "done", NEW q
      PROVE  /\ Summary(q).total = SumOf(Totals, Own(q))
             /\ \A kind \in Kinds : Summary(q)[kind] = Sum(q, kind)
             /\ Summary(q).priced
                   = Cardinality({p \in Priced : p[1] \in Own(q)})
             /\ Summary(q).components
                   = Cardinality({p \in AllComponents : p[1] \in Own(q)})
  <2>1. /\ snapshots \in Portfolios /\ cursor[1] \notin DOMAIN snapshots /\ cursor[1] \in Nat \ {0}
    BY <1>2 DEF PriceInv, Quoting, Reckoned
  <2>2. DOMAIN snapshots = 1..Len(snapshots) /\ Len(snapshots) \in Nat
    BY <2>1, Numbered
  <2>3. \A s \in DOMAIN snapshots : s < cursor[1]
    BY <2>1, <2>2
  <2>4. Earlier(q) = Own(q)
    BY <2>3 DEF Earlier, Own
  <2>5. Counted(q) = {p \in AllComponents : p[1] \in Own(q)}
    BY <2>1, <2>3, Placed DEF Counted, Passed
  <2>6. SummaryRight(q)
    BY <1>2 DEF Tally
  <2>7. \A S : Cardinality(S) = Cardinality(S)
    BY SameCardinality
  <2> QED
    BY <2>4, <2>5, <2>6, <2>7 DEF SummaryRight, PricedOf
<1> QED
  BY <1>1, <1>2 DEF TotalsNet, Kinds

\* A protocol's totals are those of its own snapshots and of no others: what is valued is
\* summed by kind, a debt offsets its own group's assets alone where the group's policy says
\* so, each snapshot adds what its groups come to, and a valuation that failed leaves no
\* summary, for any snapshots, policies, quotes and answers (applyValuations).
THEOREM TotalsAreNet == PricingSpec => []TotalsNet
<1>1. PricingInit => PriceInv /\ Tally
  BY PriceInit, TallyStart, PricingAssumption
<1>2. (PriceInv /\ Tally) /\ [PricingNext]_pricingVars => (PriceInv /\ Tally)'
  BY PriceStep, TallyStep, PricingAssumption
<1>3. PriceInv /\ Tally => TotalsNet
  BY TallyNet, PricingAssumption
<1> QED
  BY <1>1, <1>2, <1>3, PTL DEF PricingSpec

=============================================================================
