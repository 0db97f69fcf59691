------------------------------ MODULE SuiLatest ------------------------------
(***************************************************************************)
(* Latest scans of the Sui engine (sui_engine.go): every selected protocol *)
(* is read at once, from its index or from a node that is dialled on first *)
(* use and shared by all reads of all scans; then what was read is priced  *)
(* together, with the time the reads were not allowed to use.              *)
(***************************************************************************)
EXTENDS NaviMarkets, FiniteSetsExt

CONSTANTS Scans, ScanOf,   \* the scans, and the scan each read belongs to
          RouteOf,         \* "navi" (read from the node) or "index"
          Engines,         \* the sets of reads whose source an engine may have
          MaxAge           \* oldest sample that answers for the latest state

ASSUME SuiAssumption ==
    /\ IsFiniteSet(Reads) /\ Nobody \notin Reads
    /\ ScanOf \in [Reads -> Scans] /\ RouteOf \in [Reads -> {"navi", "index"}]
    /\ \A sources \in Engines : sources \subseteq Reads
    /\ MaxAge \in Nat

Dials     == 1..Cardinality({r \in Reads : RouteOf[r] = "navi"})
NoDial    == 0
ReadsOf(s) == {r \in Reads : ScanOf[r] = s}

VARIABLES configured,   \* the reads whose source the engine has
          dialer,       \* the shared reader, and the dial in flight
          dials,        \* Dials -> how far that dial is
          read,         \* Reads -> the state of the read
          cut,          \* scans whose reads are out of time
          response      \* Scans -> what was answered for each read

suiVars == <<configured, dialer, dials, read, cut, response>>

NotAsked == [pc |-> "start", dial |-> NoDial, joined |-> "none", why |-> "none",
             partial |-> FALSE, holds |-> FALSE, at |-> "head"]

Init ==
    /\ NaviInit
    /\ configured \in Engines
    /\ dialer = [reader |-> FALSE, attempt |-> NoDial]
    /\ dials = [a \in Dials |-> "none"]
    /\ read = [r \in Reads |-> NotAsked]
    /\ cut = {}
    /\ response = [s \in Scans |-> <<>>]

Failed(r, why) == read' = [read EXCEPT ![r].pc = "failed", ![r].why = why]

-----------------------------------------------------------------------------
\* The time of the reads of a scan is up, before its own.  It matters to a read that
\* waits for a dial or for the gate; a request may fail at any time.
ReadsOutOfTime(s) ==
    /\ s \notin cut
    /\ \E r \in ReadsOf(s) : read[r].pc = "dialling" \/ disc[r].pc = "gate"
    /\ cut' = cut \cup {s}
    /\ UNCHANGED <<naviVars, configured, dialer, dials, read, response>>

-----------------------------------------------------------------------------
\* An indexed sample stands for the latest state unless it is of the future or too
\* old.
checkIndexedLatest(age) == age >= 0 /\ age =< MaxAge

\* readLatest of an indexed route.  It shares nothing with the other reads of its
\* scan, so its one step is taken after theirs.
ReadIndex(r) ==
    /\ read[r].pc = "start" /\ RouteOf[r] = "index"
    /\ \A q \in ReadsOf(ScanOf[r]) : RouteOf[q] = "navi" => read[q].pc \in {"ok", "failed"}
    /\ IF r \notin configured THEN Failed(r, "unconfigured")
       ELSE \/ \E age \in -1..(MaxAge + 1), holds \in BOOLEAN :
                  IF checkIndexedLatest(age)
                  THEN read' = [read EXCEPT ![r].pc = "ok", ![r].holds = holds, ![r].at = "sample"]
                  ELSE Failed(r, "index")
            \/ Failed(r, "index")
    /\ UNCHANGED <<naviVars, configured, dialer, dials, cut, response>>

-----------------------------------------------------------------------------
\* readLatest of a node route goes on with the reader: ReadLatest reads the head,
\* then NAVI's inventory.
WithReader(r) ==
    /\ read' = [read EXCEPT ![r].pc = "loading", ![r].dial = NoDial, ![r].joined = "none"]
    /\ disc' = [disc EXCEPT ![r] = [pc |-> "inventory"]]

\* suiNodeDialer.get, its locked part: use the reader, join the dial in flight, or
\* start one.
Get(r) ==
    /\ read[r].pc = "start" /\ RouteOf[r] = "navi"
    /\ LET free == {a \in Dials : dials[a] = "none"}
           a    == IF dialer.attempt = NoDial THEN Min(free) ELSE dialer.attempt
       IN  IF r \notin configured
           THEN Failed(r, "unconfigured") /\ UNCHANGED <<dialer, dials, disc>>
           ELSE IF dialer.reader
           THEN WithReader(r) /\ UNCHANGED <<dialer, dials>>
           ELSE /\ dials' = IF dialer.attempt = NoDial THEN [dials EXCEPT ![a] = "running"] ELSE dials
                /\ dialer' = [dialer EXCEPT !.attempt = a]
                /\ read' = [read EXCEPT ![r].pc = "dialling", ![r].dial = a,
                                        ![r].joined = dials'[a]]
                /\ disc' = disc
    /\ UNCHANGED <<world, cache, gate, configured, cut, response>>

\* A mutant: a failed dial stays the dial in flight.
KeepsFailedDial(a, ok) ==
    dialer' = IF ok THEN [reader |-> TRUE, attempt |-> NoDial] ELSE dialer

\* Under the mutex the outcome of the dial is kept: a reader when it succeeded, and
\* no dial in flight either way.
Record(a, ok) == dialer' = [reader |-> ok, attempt |-> NoDial]

\* run: the dial ends by itself or by its own time-out, never with a read; only
\* then, outside the mutex, are the reads that wait for it told.
DialEnds(a) ==
    /\ dials[a] = "running"
    /\ \E ok \in BOOLEAN :
         /\ Record(a, ok)
         /\ dials' = [dials EXCEPT ![a] = IF ok THEN "dialled" ELSE "refused"]
    /\ UNCHANGED <<naviVars, configured, read, cut, response>>

DialTold(a) ==
    /\ dials[a] \in {"dialled", "refused"}
    /\ dials' = [dials EXCEPT ![a] = IF @ = "dialled" THEN "ok" ELSE "failed"]
    /\ UNCHANGED <<naviVars, configured, dialer, read, cut, response>>

\* A waiting read is told of its dial, or leaves when its own time is up.
Await(r) ==
    /\ read[r].pc = "dialling"
    /\ \/ dials[read[r].dial] = "ok" /\ WithReader(r)
       \/ dials[read[r].dial] = "failed" /\ Failed(r, "dial") /\ disc' = disc
       \/ ScanOf[r] \in cut /\ Failed(r, "cut") /\ disc' = disc
    /\ UNCHANGED <<world, cache, gate, configured, dialer, dials, cut, response>>

-----------------------------------------------------------------------------
\* A read waits for the gate until it is free or its own time is up.
Load(r) ==
    /\ read[r].pc = "loading"
    /\ loadNavi(r)
    /\ disc[r].pc = "gate" /\ disc'[r].pc = "failed" => ScanOf[r] \in cut
    /\ UNCHANGED suiVars

\* suiNodeProtocols.ReadLatest: the head, NAVI's lending, its vaults, the head
\* again.  A half that fails is an error beside the other half; a head that
\* cannot be read, before or after, fails the read.
ReadHeads(r) ==
    /\ read[r].pc = "loading"
    /\ \/ /\ disc[r].pc \in {"loaded", "failed"}
          /\ \E vaults, held \in BOOLEAN :
               LET lending == disc[r].pc = "loaded"
               IN  read' = [read EXCEPT
                      ![r].pc = "ok",
                      ![r].partial = ~lending \/ ~vaults,
                      ![r].holds = held /\ (lending \/ vaults)]
       \/ disc[r].pc \in {"inventory", "loaded", "failed"} /\ Failed(r, "head")
    /\ disc' = [disc EXCEPT ![r] = [pc |-> "over"]]
    /\ UNCHANGED <<world, cache, gate, configured, dialer, dials, cut, response>>

-----------------------------------------------------------------------------
\* A mutant: quotes are asked for in the time of the reads.
QuotesLikeARead(s, late, answered) == IF s \in cut THEN {} ELSE answered

\* quote: one question per instant, with the scan's own context; none is answered
\* once that has ended.
quote(s, late, answered) == IF late THEN {} ELSE answered

\* at and gaps: a read that holds something its instant's quotes do not price is
\* told so.
Unpriced(r, quoted) == read[r].holds /\ read[r].at \notin quoted

\* valueRead and add: what the response says of one read, given the instants that
\* were quoted and the reads whose amounts are refused (suiValuedSnapshot).
Valued(r, quoted, refused) ==
    LET ok     == read[r].pc = "ok"
        valued == ok /\ r \notin refused
    IN  [read     |-> ok,
         snapshot |-> valued /\ (read[r].holds \/ RouteOf[r] = "index"),
         priced   |-> valued /\ read[r].holds /\ ~Unpriced(r, quoted),
         errors   |-> (IF valued /\ ~read[r].partial THEN {} ELSE {"protocol"})
                      \cup (IF ok /\ Unpriced(r, quoted) THEN {"pricing"} ELSE {})]

\* scanLatest, once every read has ended; the scan itself may be late by then.
Return(s) ==
    /\ response[s] = <<>>
    /\ \A r \in ReadsOf(s) : read[r].pc \in {"ok", "failed"}
    /\ \E answered \in SUBSET {read[r].at : r \in {q \in ReadsOf(s) : read[q].holds}},
          late \in BOOLEAN,
          refused \in SUBSET {r \in ReadsOf(s) : read[r].pc = "ok" /\ read[r].holds} :
         /\ response' = [response EXCEPT ![s] =
              [quotable |-> IF late THEN {} ELSE answered,
               refused |-> refused,
               of |-> [r \in ReadsOf(s) |-> Valued(r, quote(s, late, answered), refused)]]]
    /\ UNCHANGED <<naviVars, configured, dialer, dials, read, cut>>

ReadStep(r) == ReadIndex(r) \/ Get(r) \/ Await(r) \/ Load(r) \/ ReadHeads(r)

\* The chain moves on; only what it does while a read may see it matters.
Chain == /\ \E r \in Reads : Discovering(r)
         /\ Transact /\ UNCHANGED suiVars

Next == \/ Chain
        \/ \E s \in Scans : ReadsOutOfTime(s) \/ Return(s)
        \/ \E a \in Dials : DialEnds(a) \/ DialTold(a)
        \/ \E r \in Reads : ReadStep(r)

vars == <<naviVars, suiVars>>

\* Every request and every dial has a time-out, and every goroutine is scheduled.
Fairness == /\ \A r \in Reads : WF_vars(ReadStep(r))
            /\ \A a \in Dials : WF_vars(DialEnds(a)) /\ WF_vars(DialTold(a))
            /\ \A s \in Scans : WF_vars(Return(s))

Spec == Init /\ [][Next]_vars /\ Fairness
-----------------------------------------------------------------------------
\* Reads share a dial without sharing their fates: at most one dial runs and at
\* most one connection is ever kept; a read that is told the node is down joined
\* that dial while it was under way, so no failure of the past is inherited; and
\* a read leaves a dial only for its own lack of time (suiNodeDialer).
DialNotInherited ==
    /\ Cardinality({a \in Dials : dials[a] = "running"}) =< 1
    /\ Cardinality({a \in Dials : dials[a] \in {"dialled", "ok"}}) =< 1
    /\ \A r \in Reads :
         /\ read[r].dial # NoDial => read[r].joined = "running"
         /\ read[r].why = "dial" => dials[read[r].dial] = "failed"
         /\ read[r].why = "cut" => ScanOf[r] \in cut
    /\ dialer.reader <=> \E a \in Dials : dials[a] \in {"dialled", "ok"}

\* Every selected protocol is read or has an error that says why not, half a read is
\* reported as such, so is one whose amounts cannot be valued, and any other indexed
\* read has its snapshot; and a read that ran out of time, or cannot be valued, does
\* not cost the others their prices: what they hold is priced whenever the price
\* source would answer and the scan's own time is not over (scanLatest, valueRead,
\* withSuiPriceReserve).
LatestAccountedFor ==
    \A s \in Scans : response[s] # <<>> =>
        \A r \in ReadsOf(s) :
            LET a      == response[s].of[r]
                valued == a.read /\ r \notin response[s].refused
            IN  /\ ~valued => "protocol" \in a.errors /\ ~a.snapshot
                /\ a.read /\ read[r].partial => "protocol" \in a.errors
                /\ valued /\ RouteOf[r] = "index" => a.snapshot
                /\ valued /\ read[r].holds /\ ~a.priced => "pricing" \in a.errors
                /\ valued /\ read[r].holds /\ read[r].at \in response[s].quotable => a.priced

\* Every latest scan returns, whatever the node, the index and the other scans do:
\* nobody waits for ever for a dial or for the gate of the market cache.
LatestReturns == <>(\A s \in Scans : response[s] # <<>>)
=============================================================================
