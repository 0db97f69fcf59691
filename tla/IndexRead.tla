------------------------------ MODULE IndexRead ------------------------------
(***************************************************************************)
(* How one protocol's index is read in a scan: sentioIndex.read, pages and *)
(* certify (sentio_index.go), indexQueryBlock and checkIndexCheckpoint     *)
(* (sentio_checkpoint.go), and the presence probe that all chain jobs of   *)
(* the scan share through the scan memo (sentio_presence.go,               *)
(* scan_scope.go), while the processor goes on indexing and may rewrite    *)
(* what it indexed.                                                        *)
(*                                                                         *)
(* Each chain has one job, reading one account.  A row is a stream and an  *)
(* id; a block stands for its own timestamp, so a checkpoint at or below   *)
(* the pin never has a later timestamp than the pin.  The status cache is  *)
(* reduced to what StatusRefresh shows of it: an answer the processor once *)
(* gave, and for a forced read one no older than the read.                 *)
(***************************************************************************)
EXTENDS Integers, FiniteSets, FiniteSetsExt

CONSTANTS
    Chains,         \* the chains the scan pinned, all of them the index's
    Pin,            \* Pin[c]: the pinned block
    Fixed,          \* chains pinned at a block the caller named
    Start,          \* Start[c]: where the index starts, 0 for no stand-in
    Caught,         \* Caught[c]: the block from which it follows the chain
    Begun,          \* Begun[c]: its processed block when the scan begins
    Streams,        \* the streams of the read, each paged under a cursor
    Lookups,        \* the streams looked up once the read has answered
    Histories,      \* what the processor may index on the chains and rewrite
                    \* it to: functions from chains to pairs
    PageSize,       \* indexPageSize
    MaxRows,        \* every stream's maxRows
    MaxLag,         \* indexMaxLag
    BackfillLag,    \* indexBackfillMaxLag
    MinChains,      \* presenceMinChains
    Capacity,       \* the slots of the indexer lane
    MaxHead,        \* how far a processor advances
    Prefetcher,     \* the goroutine prefetchPresence starts
    Nobody,         \* no one has claimed the probe
    Settled         \* the probe's verdict is in the memo

ASSUME IndexAssumption ==
    /\ Fixed \subseteq Chains
    /\ {Prefetcher, Nobody, Settled} \cap Chains = {}
    /\ MaxHead \in Nat /\ Pin \in [Chains -> 1..MaxHead]
    /\ {Start, Caught, Begun} \subseteq [Chains -> 0..MaxHead]
    /\ Streams \cap Lookups = {} /\ Streams # {}
    /\ {PageSize, MaxRows, MinChains, Capacity} \subseteq Nat \ {0}
    /\ MaxLag \in Nat /\ BackfillLag \in Nat

VARIABLES
    indexed,    \* indexed[c]: what the processor wrote, and may rewrite it to
    version,    \* version[c]: which of the two a request sees
    head,       \* head[c]: its processed block
    status,     \* the status the client has cached, as heads
    stopped,    \* the scan's context has ended
    lane,       \* who holds a slot of the indexer lane
    owner,      \* who computes the memo entry of the probe
    target,     \* target[c]: the block the probe asks chain c at, 0 if not
    proof,      \* proof[c]: what the probe established, no block if nothing
    prefetch,   \* where the prefetching goroutine is
    pc,         \* pc[c]: where the job of chain c is
    known,      \* known[c]: the statuses the job of chain c was given
    query,      \* query[c]: at.QueryBlock
    want,       \* want[c]: the checkpoint every page must carry, {} for nil
    todo,       \* todo[c]: the streams not read to their end
    got,        \* got[c]: the rows admitted
    lag         \* lag[c]: the read comes with a lag note

worldVars == <<indexed, version, head>>
probeVars == <<owner, target, proof, prefetch>>
pageVars == <<want, todo, got, lag>>
askVars == <<known, query>>
vars == <<worldVars, status, stopped, lane, probeVars, pc, askVars, pageVars>>

Zero == [c \in Chains |-> 0]
Over(c) == pc[c] \in {"done", "looked", "failed"}
Least(a, b) == IF a < b THEN a ELSE b

-----------------------------------------------------------------------------
(* What the index answers at a block: the rows opened by it, and the last  *)
(* checkpoint written by it, if any.                                       *)

RowsAt(h, q) == {r \in DOMAIN h.opened : h.opened[r] <= q}

CheckpointAt(h, q) ==
    LET by == {b \in h.checkpoints : b <= q}
    IN  [written |-> by # {}, block |-> IF by = {} THEN 0 ELSE Max(by)]

ASSUME HistoryAssumption ==
    \A f \in Histories, c \in Chains, v \in 1..2 :
        /\ f[c][v].checkpoints \subseteq Nat
        /\ IsFiniteSet(DOMAIN f[c][v].opened)
        /\ \A r \in DOMAIN f[c][v].opened :
               r \in (Streams \cup Lookups) \X Nat /\ f[c][v].opened[r] \in Nat

\* A rewrite that changes the rows a read may ask for changes the checkpoint
\* they come with: that is all the comparison of pages can see.
ASSUME RewriteAssumption ==
    \A f \in Histories, c \in Chains : \A q \in Least(Pin[c], Caught[c])..Pin[c] :
        CheckpointAt(f[c][1], q) = CheckpointAt(f[c][2], q)
            => RowsAt(f[c][1], q) = RowsAt(f[c][2], q)

Seen(c) == indexed[c][version[c]]

\* status.State = PROCESSING_LATEST
ProcessingLatest(c, processed) == processed >= Caught[c]

Init ==
    /\ indexed \in Histories
    /\ version = [c \in Chains |-> 1]
    /\ head = Begun
    /\ status = Begun
    /\ stopped = FALSE
    /\ lane = {}
    /\ owner = Nobody
    /\ target = Zero
    /\ proof = [c \in Chains |-> {}]
    /\ prefetch = "idle"
    /\ pc = [c \in Chains |-> "idle"]
    /\ known = [c \in Chains |-> Zero]
    /\ query = Zero
    /\ want = [c \in Chains |-> {}]
    /\ todo = [c \in Chains |-> Streams]
    /\ got = [c \in Chains |-> {}]
    /\ lag = [c \in Chains |-> FALSE]

-----------------------------------------------------------------------------
(* The processor, the cache and the scan around the reads.                 *)

Advance(c) ==
    /\ head[c] < MaxHead
    /\ head' = [head EXCEPT ![c] = @ + 1]
    /\ UNCHANGED <<indexed, version, status, stopped, lane, probeVars, pc, askVars, pageVars>>

Rewrite(c) ==
    /\ version[c] = 1 /\ indexed[c][1] # indexed[c][2]
    /\ version' = [version EXCEPT ![c] = 2]
    /\ UNCHANGED <<indexed, head, status, stopped, lane, probeVars, pc, askVars, pageVars>>

\* Another reader's refresh replaces the cached status.
StatusRefreshed ==
    /\ status # head
    /\ status' = head
    /\ UNCHANGED <<worldVars, stopped, lane, probeVars, pc, askVars, pageVars>>

StopScan ==
    /\ ~stopped
    /\ stopped' = TRUE
    /\ UNCHANGED <<worldVars, status, lane, probeVars, pc, askVars, pageVars>>

-----------------------------------------------------------------------------
(* queryBlock and indexQueryBlock.                                         *)

\* The read returns an error, and with it nothing it had read.
Fail(c) ==
    /\ pc' = [pc EXCEPT ![c] = "failed"]
    /\ lane' = lane \ {c}
    /\ known' = [known EXCEPT ![c] = Zero]
    /\ query' = [query EXCEPT ![c] = 0]
    /\ want' = [want EXCEPT ![c] = {}]
    /\ todo' = [todo EXCEPT ![c] = {}]
    /\ got' = [got EXCEPT ![c] = {}]
    /\ lag' = [lag EXCEPT ![c] = FALSE]
    /\ UNCHANGED <<worldVars, stopped, probeVars>>

\* A status the read accepts, and the block it then asks at.
Accepts(c, processed) ==
    /\ ProcessingLatest(c, processed)
    /\ c \in Fixed => processed >= Pin[c]

QueryBlock(c, processed) == Least(Pin[c], processed)

DecidesHoldingSlot(c, statuses) ==                                 \* mutant
    \/ ~Accepts(c, statuses[c]) /\ Fail(c)
    \/ /\ Accepts(c, statuses[c])
       /\ known' = [known EXCEPT ![c] = statuses]
       /\ query' = [query EXCEPT ![c] = QueryBlock(c, statuses[c])]
       /\ pc' = [pc EXCEPT ![c] = "presence"]
       /\ Cardinality(lane) < Capacity /\ lane' = lane \cup {c}
       /\ UNCHANGED <<worldVars, stopped, probeVars, pageVars>>

Decide(c, statuses) ==
    \/ ~Accepts(c, statuses[c]) /\ Fail(c)
    \/ /\ Accepts(c, statuses[c])
       /\ known' = [known EXCEPT ![c] = statuses]
       /\ query' = [query EXCEPT ![c] = QueryBlock(c, statuses[c])]
       /\ pc' = [pc EXCEPT ![c] = "presence"]
       /\ UNCHANGED <<worldVars, stopped, lane, probeVars, pageVars>>

\* The cached status; at a fixed pin one that trails the pin is read again.
ReadStatus(c) ==
    /\ pc[c] = "idle"
    /\ \/ /\ c \in Fixed /\ status[c] < Pin[c]
          /\ pc' = [pc EXCEPT ![c] = "again"]
          /\ UNCHANGED <<worldVars, stopped, lane, probeVars, askVars, pageVars>>
       \/ ~(c \in Fixed /\ status[c] < Pin[c]) /\ Decide(c, status)
    /\ UNCHANGED status

ReadStatusAgain(c) ==
    /\ pc[c] = "again"
    /\ status' = head
    /\ Decide(c, head)

StatusFails(c) ==
    /\ pc[c] \in {"idle", "again"}
    /\ Fail(c)
    /\ UNCHANGED status

-----------------------------------------------------------------------------
(* The presence probe: one request for every chain the statuses accept,    *)
(* sent by whoever claims the memo entry first.                            *)

\* presenceTargets
Targets(processed) ==
    [c \in Chains |-> IF Accepts(c, processed[c])
                      THEN QueryBlock(c, processed[c]) ELSE 0]

Probes(targets) == Cardinality({c \in Chains : targets[c] # 0}) >= MinChains

\* checkIndexCheckpoint: "error", or whether a lag note comes with the read.
CheckCheckpoint(c, checkpoint) ==
    CASE checkpoint > Pin[c] -> "error"
      [] c \in Fixed /\ Pin[c] - checkpoint > BackfillLag -> "error"
      [] c \notin Fixed /\ Pin[c] - checkpoint > MaxLag -> "note"
      [] OTHER -> "good"

EmptyIfNoRow(c) ==                                                 \* mutant
    IF RowsAt(Seen(c), target[c]) = {} /\ target[c] # 0
    THEN {[query |-> target[c], checkpoint |-> CheckpointAt(Seen(c), target[c])]}
    ELSE {}

\* presenceChainEmpty: a written checkpoint that needs no note, and no row of
\* the account in any stream of the read.
ChainEmpty(c) ==
    LET at == CheckpointAt(Seen(c), target[c])
    IN  IF /\ target[c] # 0
           /\ at.written /\ at.block <= target[c]
           /\ CheckCheckpoint(c, at.block) = "good"
           /\ ~\E r \in RowsAt(Seen(c), target[c]) : r[1] \in Streams
        THEN {[query |-> target[c], checkpoint |-> at]}
        ELSE {}

\* chainProvenEmpty, the job that claims the entry: presence sends the probe
\* only when enough chains are worth asking about.
ClaimProbe(c) ==
    /\ pc[c] = "presence" /\ owner = Nobody
    /\ IF Probes(Targets(known[c]))
       THEN /\ owner' = c /\ target' = Targets(known[c])
            /\ pc' = [pc EXCEPT ![c] = "probe"]
       ELSE owner' = Settled /\ UNCHANGED <<target, pc>>
    /\ UNCHANGED <<worldVars, status, stopped, lane, proof, prefetch, askVars, pageVars>>

\* prefetchPresence: the goroutine claims the entry, then waits for a slot
\* of its own and for the status.
PrefetchStart ==
    /\ prefetch = "idle" /\ Cardinality(Chains) >= MinChains
    /\ IF owner = Nobody
       THEN owner' = Prefetcher /\ prefetch' = "status"
       ELSE owner' = owner /\ prefetch' = "over"
    /\ UNCHANGED <<worldVars, status, stopped, lane, target, proof, pc, askVars, pageVars>>

PrefetchStatus ==
    /\ prefetch = "status"
    /\ IF Probes(Targets(status))
       THEN /\ target' = Targets(status) /\ prefetch' = "probe"
            /\ UNCHANGED owner
       ELSE owner' = Settled /\ prefetch' = "over" /\ UNCHANGED target
    /\ UNCHANGED <<worldVars, status, stopped, lane, proof, pc, askVars, pageVars>>

\* The probe of owner w waits for its lane slot, or is on its round trip.
Probing(w) == w = owner /\ (w = Prefetcher => prefetch = "probe")

AskProbe(w) ==
    /\ Probing(w) /\ w \notin lane /\ Cardinality(lane) < Capacity
    /\ lane' = lane \cup {w}
    /\ UNCHANGED <<worldVars, status, stopped, probeVars, pc, askVars, pageVars>>

\* The verdict enters the memo and wakes whoever waits on it.
Settle(w) ==
    /\ owner' = Settled
    /\ target' = Zero
    /\ lane' = lane \ {w}
    /\ IF w = Prefetcher
       THEN prefetch' = "over" /\ UNCHANGED pc
       ELSE pc' = [pc EXCEPT ![w] = "presence"] /\ UNCHANGED prefetch
    /\ UNCHANGED <<worldVars, status, stopped, askVars, pageVars>>

ProbeAnswers(w) ==
    /\ Probing(w) /\ w \in lane
    /\ proof' = [c \in Chains |-> ChainEmpty(c)]
    /\ Settle(w)

\* The context w's probe runs under has ended: the scan's, or for the prefetch
\* also the protocol's, once none of its deployments is left to read.
ProbeContextEnded(w) ==
    \/ stopped
    \/ w = Prefetcher /\ \A c \in Chains : Over(c)

\* The status read or the request failed, or the context ended at any point
\* of the probe: an empty verdict.
ProbeFails(w) ==
    /\ owner = w
    /\ \/ w \in lane
       \/ w = Prefetcher /\ prefetch = "status"
       \/ ProbeContextEnded(w)
    /\ Settle(w)
    /\ UNCHANGED proof

\* The proof a job may take for its own: at or before its pin, and at a
\* fixed pin exactly there.
UsableProof(c) ==
    {p \in proof[c] : p.query <= Pin[c] /\ (c \in Fixed => p.query = Pin[c])}

\* The memo's value, once it is there.
TakeVerdict(c) ==
    /\ pc[c] = "presence" /\ owner = Settled
    /\ known' = [known EXCEPT ![c] = Zero]
    /\ IF UsableProof(c) = {}
       THEN pc' = [pc EXCEPT ![c] = "pages"] /\ UNCHANGED <<query, pageVars>>
       ELSE \E p \in UsableProof(c) :
            /\ query' = [query EXCEPT ![c] = p.query]
            /\ want' = [want EXCEPT ![c] = {p.checkpoint}]
            /\ todo' = [todo EXCEPT ![c] = {}]
            /\ pc' = [pc EXCEPT ![c] = "answered"]
            /\ UNCHANGED <<got, lag>>
    /\ UNCHANGED <<worldVars, status, stopped, lane, probeVars>>

\* The wait for it ends with the context.
LeaveVerdict(c) ==
    /\ pc[c] = "presence" /\ owner # Nobody /\ stopped
    /\ pc' = [pc EXCEPT ![c] = "pages"]
    /\ known' = [known EXCEPT ![c] = Zero]
    /\ UNCHANGED <<worldVars, status, stopped, lane, probeVars, query, pageVars>>

-----------------------------------------------------------------------------
(* pages: a page of every open stream at a time, all at the query block,   *)
(* until each stream has been read to its end.                             *)

AskPage(c) ==
    /\ pc[c] \in {"pages", "lookups"} /\ Cardinality(lane) < Capacity
    /\ lane' = lane \cup {c}
    /\ pc' = [pc EXCEPT ![c] = IF @ = "pages" THEN "paging" ELSE "looking"]
    /\ UNCHANGED <<worldVars, status, stopped, probeVars, askVars, pageVars>>

\* certify: the first page's checkpoint, or the index's start in its place.
Certify(c, checkpoint) ==
    LET block == IF checkpoint.written THEN checkpoint.block ELSE Start[c]
    IN  IF (~checkpoint.written /\ Start[c] = 0) \/ block > query[c]
        THEN "error" ELSE CheckCheckpoint(c, block)

OnlyCertifies(c, checkpoint) == Certify(c, checkpoint)             \* mutant

\* The verdict on a page's checkpoint: validated on the first page, compared
\* with the first page's on every other.
PageVerdict(c, checkpoint) ==
    CASE want[c] = {} -> Certify(c, checkpoint)
      [] want[c] = {checkpoint} -> "good"
      [] OTHER -> "error"

Taken(c, s) == {r \in got[c] : r[1] = s}

\* first: a page, or one row past what the stream may hold.
First(c, s) == Least(PageSize, MaxRows + 1 - Cardinality(Taken(c, s)))

\* The rows of stream s a page carries: the first ones after the cursor.
Page(c, s) ==
    LET left == {r \in RowsAt(Seen(c), query[c]) \ got[c] :
                    r[1] = s /\ \A t \in Taken(c, s) : t[2] < r[2]}
    IN  {r \in left : Cardinality({t \in left : t[2] < r[2]}) < First(c, s)}

\* A stream is done when its page is short of what it asked for.
PageAnswers(c) ==
    LET checkpoint == CheckpointAt(Seen(c), query[c])
        verdict == PageVerdict(c, checkpoint)
        rows == UNION {Page(c, s) : s \in todo[c]}
        open == {s \in todo[c] : Cardinality(Page(c, s)) = First(c, s)}
        tooMany == \E s \in todo[c] :
                      Cardinality(Taken(c, s) \cup Page(c, s)) > MaxRows
    IN  /\ pc[c] \in {"paging", "looking"}
        /\ \/ (verdict = "error" \/ tooMany) /\ Fail(c)
           \/ /\ verdict # "error" /\ ~tooMany
              /\ got' = [got EXCEPT ![c] = @ \cup rows]
              /\ todo' = [todo EXCEPT ![c] = open]
              /\ want' = [want EXCEPT ![c] = {checkpoint}]
              /\ lag' = [lag EXCEPT ![c] = @ \/ verdict = "note"]
              /\ pc' = [pc EXCEPT ![c] =
                           CASE @ = "paging" -> IF open # {} THEN "pages" ELSE "answered"
                             [] @ = "looking" -> IF open # {} THEN "lookups" ELSE "looked"]
              /\ lane' = lane \ {c}
              /\ UNCHANGED <<worldVars, stopped, probeVars, askVars>>
        /\ UNCHANGED status

\* A request that fails for good, the wait for its slot when the context
\* ends, or certify's read of the start block.
PageFails(c) ==
    /\ \/ pc[c] \in {"paging", "looking"}
       \/ pc[c] \in {"pages", "lookups"} /\ stopped
    /\ Fail(c)
    /\ UNCHANGED status

\* indexAt.read: a lookup that depends on what the read found, at the read's
\* block and held to the read's checkpoint.
LookUp(c) ==
    /\ pc[c] = "answered" /\ Lookups # {}
    /\ todo' = [todo EXCEPT ![c] = Lookups]
    /\ pc' = [pc EXCEPT ![c] = "lookups"]
    /\ UNCHANGED <<worldVars, status, stopped, lane, probeVars, askVars, want, got, lag>>

Finish(c) ==
    /\ pc[c] = "answered"
    /\ pc' = [pc EXCEPT ![c] = "done"]
    /\ UNCHANGED <<worldVars, status, stopped, lane, probeVars, askVars, pageVars>>

-----------------------------------------------------------------------------

Job(c) ==
    \/ ReadStatus(c) \/ ReadStatusAgain(c) \/ StatusFails(c)
    \/ ClaimProbe(c) \/ TakeVerdict(c) \/ LeaveVerdict(c)
    \/ AskPage(c) \/ PageAnswers(c) \/ PageFails(c)
    \/ LookUp(c) \/ Finish(c)

Probe(w) == AskProbe(w) \/ ProbeAnswers(w) \/ ProbeFails(w)

Goroutines ==
    \/ PrefetchStatus
    \/ \E c \in Chains : Job(c)
    \/ \E w \in Chains \cup {Prefetcher} : Probe(w)

Next ==
    \/ StatusRefreshed
    \/ StopScan
    \/ PrefetchStart
    \/ Goroutines
    \/ \E c \in Chains : Advance(c) \/ Rewrite(c)

\* As long as some goroutine of the scan can go on, one does.  Every step of
\* theirs is a step forward, so nothing stronger is needed; nothing makes the
\* scan prefetch or stop, nor the processor advance.
Fairness == WF_vars(Goroutines)

Spec == Init /\ [][Next]_vars /\ Fairness

-----------------------------------------------------------------------------
(* Correctness.                                                            *)

\* Types.  The lane admits no more requests than it has slots, whether pages
\* or probes.
TypeOK ==
    /\ version \in [Chains -> 1..2]
    /\ head \in [Chains -> 0..MaxHead] /\ status \in [Chains -> 0..MaxHead]
    /\ stopped \in BOOLEAN
    /\ lane \subseteq Chains \cup {Prefetcher} /\ Cardinality(lane) <= Capacity
    /\ owner \in Chains \cup {Prefetcher, Nobody, Settled}
    /\ target \in [Chains -> 0..MaxHead]
    /\ prefetch \in {"idle", "status", "probe", "over"}
    /\ pc \in [Chains -> {"idle", "again", "failed", "presence", "probe", "pages",
                          "paging", "answered", "lookups", "looking", "looked", "done"}]
    /\ known \in [Chains -> [Chains -> 0..MaxHead]]
    /\ query \in [Chains -> 0..MaxHead]
    /\ todo \in [Chains -> SUBSET (Streams \cup Lookups)]
    /\ lag \in [Chains -> BOOLEAN]

\* The rows a read that has answered must hold if it saw version h at q.
Expected(c, h, q) ==
    {r \in RowsAt(h, q) : r[1] \in Streams \/ pc[c] = "looked"}

Versions(c) == {indexed[c][v] : v \in 1..version[c]}

Answered(c) == pc[c] \in {"answered", "looked", "done"}

\* A read at a fixed pin is exact: every row opened by the pin and none
\* opened after it, all of one version of the index, whether it came from
\* pages or from a probe another chain's job or the prefetch sent
\* (indexQueryBlock, chainProvenEmpty, pages).
FixedReadExact ==
    \A c \in Fixed : Answered(c) =>
        \E h \in Versions(c) : got[c] = Expected(c, h, Pin[c])

\* A live read misses only what it says it may miss: rows opened after its
\* query block, and none opened more than MaxLag before the pin unless it
\* came with a lag note (checkIndexCheckpoint, presenceChainEmpty).
LiveReadExplained ==
    \A c \in Chains \ Fixed : Answered(c) =>
        \E h \in Versions(c) :
            /\ got[c] = Expected(c, h, query[c])
            /\ ~lag[c] => Expected(c, h, Pin[c] - MaxLag) \subseteq got[c]

\* Every job ends, on a lane of one slot too: no job waits for a verdict
\* that will not come, nor holds a slot while it waits (chainProvenEmpty).
EveryJobEnds == \A c \in Chains : <>Over(c)
=============================================================================
