---------------------------- MODULE SuiRangeScan ----------------------------
(***************************************************************************)
(* A pinned Sui scan: SuiEngine.scanSamples (sui_engine_history.go) over   *)
(* the instants of a range or over one checkpoint, with the range reads    *)
(* of the protocol indexes (ReadRange, sui_sql_range.go), the alignment of *)
(* every instant to one checkpoint, and the wallet read there, while the   *)
(* indexes complete further samples.                                       *)
(*                                                                         *)
(* A checkpoint stands for its own timestamp and is a positive number.  A  *)
(* sample is its interval, whose start is its checkpoint, and whether its  *)
(* certificate and calculation hold; its positions are left out.  A read   *)
(* that ran out of time is not told apart from one that failed.            *)
(***************************************************************************)
EXTENDS Integers, FiniteSetsExt, SequencesExt

CONSTANTS
    Routes,         \* the protocols read from an index
    Tables,         \* what the indexes may hold: functions from Routes to
                    \* sequences of samples
    Plans,          \* what may be asked
    MaxTime,        \* no time is later
    Growth,         \* the samples an index may complete during a scan
    MaxSamples,     \* suiSQLRangeSamples
    ProbeSamples    \* suiSQLRangeProbeSamples

Samples == [start : 1..MaxTime, until : 1..MaxTime, good : BOOLEAN]

\* An index completes its samples in order, and their intervals do not meet.
ASSUME SampleAssumption ==
    /\ Routes # {} /\ Growth \in Nat /\ MaxTime \in Nat
    /\ ProbeSamples \in 1..MaxSamples /\ MaxSamples \in Nat
    /\ \A t \in Tables, p \in Routes :
        /\ t[p] \in Seq(Samples)
        /\ \A i \in DOMAIN t[p] : t[p][i].start < t[p][i].until
        /\ \A i, j \in DOMAIN t[p] : i < j => t[p][i].until <= t[p][j].start
    /\ \A asked \in Plans :
        /\ asked.instants # << >> /\ asked.instants \in Seq(1..MaxTime)
        /\ asked.pinned => Len(asked.instants) = 1

VARIABLES
    table,      \* table[p]: the samples the index of p has or will have
    ready,      \* ready[p]: how many of them it has completed
    plan,       \* suiSamplePlan, and whether the wallet is read
    inTime,     \* readCtx has not ended
    phase,      \* how far scanSamples is
    read,       \* read[p]: the read of p's index, under way or over
    first,      \* first[p]: the read of p's index before alignment
    target,     \* target[i][p]: the checkpoint p must answer i at, or 0
    answers,    \* answers[i][p]
    retries,    \* retries[i]: SuiRangeScan.Retry is set
    wallet      \* wallet[i]: the checkpoint the wallet was read at, or 0

scanVars == <<phase, first, target, answers, retries, wallet>>
vars == <<table, ready, plan, inTime, read, scanVars>>

Instants == DOMAIN plan.instants
Completed(p) == SubSeq(table[p], 1, ready[p])

-----------------------------------------------------------------------------
(* Samples and answers.                                                    *)

NoSample == [start |-> 0, until |-> 0, good |-> FALSE]

Covers(s, t) == s.start <= t /\ t < s.until

\* suiSampleAt: the newest of samples covering t.
SampleAt(samples, t) ==
    LET covering == {s \in ToSet(samples) : Covers(s, t)}
    IN  IF covering = {} THEN NoSample
        ELSE CHOOSE s \in covering : \A r \in covering : r.start <= s.start

Failure(err) == [at |-> 0, err |-> err]

\* suiHistorySample.At, at a time the sample covers.
AnswerFrom(s) ==
    IF s.good THEN [at |-> s.start, err |-> "none"] ELSE Failure("uncertified")

NoRead == [pc |-> "unused", from |-> 0, to |-> 0, limit |-> ProbeSamples,
           ceiling |-> MaxSamples, samples |-> << >>, err |-> "none", had |-> 0]

-----------------------------------------------------------------------------
(* The world around the scan.  What happens while no read is under way is   *)
(* as good as what happens when the next one begins.                       *)

EveryoneReads == \A p \in Routes : read[p].pc = "over"              \* mutant

\* group.Wait and reads.Wait return: every read that was started is over.
ReadsOver == \A p \in Routes : read[p].pc \in {"unused", "over"}

\* The index of p completes its next sample.
Complete(p) ==
    /\ ~ReadsOver
    /\ ready[p] < Len(table[p])
    /\ ready' = [ready EXCEPT ![p] = @ + 1]
    /\ UNCHANGED <<table, plan, inTime, read, scanVars>>

\* readCtx ends, before ctx or with it.
StopReads ==
    /\ ~ReadsOver
    /\ inTime
    /\ inTime' = FALSE
    /\ UNCHANGED <<table, ready, plan, read, scanVars>>

-----------------------------------------------------------------------------
(* ReadRange, statement by statement, and ReadAtCheckpoint.                *)

\* A read of [lo, hi] begins; had is history: what was completed by then.
BeginRead(p, lo, hi) ==
    [NoRead EXCEPT !.pc = IF plan.pinned THEN "checkpoint" ELSE "range",
                   !.from = lo, !.to = hi, !.had = ready[p]]

Meets(s, from, to) == s.start <= to /\ s.until > from

\* The members of s at the places in at, in order.
Chosen(s, at) ==
    [n \in 1..Cardinality(at) |-> s[CHOOSE i \in at : Cardinality({j \in at : j <= i}) = n]]

\* Of the first n of samples those whose intervals meet [from, to].
Meeting(samples, n, from, to) ==
    Chosen(samples, {k \in 1..n : Meets(samples[k], from, to)})

\* rangeSQL: the first limit of the completed samples that meet [from, to].
Selected(p) ==
    LET meeting == Meeting(table[p], ready[p], read[p].from, read[p].to)
    IN  SubSeq(meeting, 1, Min({read[p].limit, Len(meeting)}))

SkipsAhead(samples) == Last(samples).until + 1                     \* mutant

\* Where the next statement starts.
NextFrom(samples) == Last(samples).until

Over(p, err) == read' = [read EXCEPT ![p].pc = "over", ![p].err = err]

ReadVarsOnly == UNCHANGED <<table, ready, plan, inTime, scanVars>>

InRange(p) == read[p].pc = "range"
Asking(p) == InRange(p) /\ read[p].from <= read[p].to

\* The statement answers; the next one is sized from its bytes per sample.
StatementAnswers(p) ==
    /\ Asking(p)
    /\ Selected(p) # << >>
    /\ \E sized \in 1..MaxSamples :
        read' = [read EXCEPT
                   ![p].samples = @ \o Selected(p),
                   ![p].from = NextFrom(Selected(p)),
                   ![p].limit = Min({sized, read[p].ceiling})]
    /\ ReadVarsOnly

\* No sample is left, or the last one reached past the range.
RangeEnds(p) ==
    /\ InRange(p)
    /\ Asking(p) => Selected(p) = << >>
    /\ Over(p, "none")
    /\ ReadVarsOnly

\* suiSQLRangeTooCostly: the statement is asked again for half the samples.
StatementTooCostly(p) ==
    /\ Asking(p)
    /\ read[p].limit > 1 /\ inTime
    /\ read' = [read EXCEPT ![p].limit = read[p].limit \div 2,
                            ![p].ceiling = read[p].limit \div 2]
    /\ ReadVarsOnly

\* Any other failure ends the range with what was read before it.
StatementFails(p) ==
    /\ Asking(p)
    /\ Over(p, "failed")
    /\ ReadVarsOnly

\* ReadAtCheckpoint answers the newest sample at or before the checkpoint,
\* if its interval reaches past it; alignSamples places it at its own start.
CheckpointAnswers(p) ==
    /\ read[p].pc = "checkpoint"
    /\ LET s == SampleAt(Completed(p), read[p].from)
       IN  IF s = NoSample THEN Over(p, "nosample")
           ELSE IF ~s.good THEN Over(p, "uncertified")
           ELSE read' = [read EXCEPT
                           ![p].pc = "over",
                           ![p].samples = <<[s EXCEPT !.until = s.start + 1]>>]
    /\ ReadVarsOnly

CheckpointFails(p) ==
    /\ read[p].pc = "checkpoint"
    /\ Over(p, "failed")
    /\ ReadVarsOnly

ReadStep(p) ==
    \/ StatementAnswers(p) \/ RangeEnds(p) \/ StatementTooCostly(p)
    \/ StatementFails(p) \/ CheckpointAnswers(p) \/ CheckpointFails(p)

-----------------------------------------------------------------------------
(* scanSamples.                                                            *)

Init ==
    /\ table \in Tables
    /\ ready \in [Routes -> 0..MaxTime]
    /\ \A p \in Routes : ready[p] \in (Len(table[p]) - Growth)..Len(table[p])
    /\ plan \in Plans
    /\ inTime = TRUE
    /\ phase = "start"
    /\ read = [p \in Routes |-> NoRead]
    /\ first = read
    /\ target = [i \in Instants |-> [p \in Routes |-> 0]]
    /\ answers = [i \in Instants |-> [p \in Routes |-> Failure("none")]]
    /\ retries = [i \in Instants |-> FALSE]
    /\ wallet = [i \in Instants |-> 0]

\* readRanges over the span of the instants, or readCheckpoint.
BeginReads ==
    /\ phase = "start"
    /\ phase' = "read"
    /\ read' = [p \in Routes |-> BeginRead(p, Min(ToSet(plan.instants)),
                                              Max(ToSet(plan.instants)))]
    /\ UNCHANGED <<table, ready, plan, inTime, first, target, answers, retries,
                   wallet>>

\* The failure that ended r came before t was reached.
FellShort(r, t) ==
    r.err # "none" /\ (r.samples = << >> \/ t >= Last(r.samples).until)

NeverFellShort(r, t) ==                                            \* mutant
    LET s == SampleAt(r.samples, t)
    IN  IF s # NoSample THEN AnswerFrom(s) ELSE Failure("nosample")

\* suiProtocolRange.answer and At.
RangeAnswer(r, t) ==
    LET s == SampleAt(r.samples, t)
    IN  IF s # NoSample THEN AnswerFrom(s)
        ELSE IF FellShort(r, t) THEN Failure(r.err)
        ELSE Failure("nosample")

CheckpointAnswer(r) ==
    IF r.err = "none" THEN AnswerFrom(r.samples[1]) ELSE Failure(r.err)

AsksForMissing(answer) == answer.err # "none"                      \* mutant

\* A range's instant is asked again only for a read that did not reach it, a
\* checkpoint for any failure.
AskAgain(answer) ==
    IF plan.pinned THEN answer.err # "none" ELSE answer.err = "failed"

\* What readRanges or readCheckpoint returned answers the instants.
AnswerInstants ==
    /\ phase = "read"
    /\ ReadsOver
    /\ phase' = IF plan.wallet THEN "align" ELSE "price"
    /\ first' = read
    /\ answers' = [i \in Instants |-> [p \in Routes |->
                     IF plan.pinned THEN CheckpointAnswer(read[p])
                     ELSE RangeAnswer(read[p], plan.instants[i])]]
    /\ retries' = [i \in Instants |-> \E p \in Routes : AskAgain(answers'[i][p])]
    /\ UNCHANGED <<table, ready, plan, inTime, read, target, wallet>>

\* The oldest checkpoint of i's samples, if every protocol has one.
Oldest(i) ==
    IF \E p \in Routes : answers[i][p].err # "none" THEN 0
    ELSE Min({answers[i][p].at : p \in Routes})

TargetOf(i, p) == IF answers[i][p].at = Oldest(i) THEN 0 ELSE Oldest(i)

\* alignSamples, first half: what each protocol must answer instead, and the
\* reads of what the first reads did not reach.
Align ==
    /\ phase = "align"
    /\ phase' = "resolve"
    /\ target' = [i \in Instants |-> [p \in Routes |-> TargetOf(i, p)]]
    /\ read' = [p \in Routes |->
                  LET wanted == {TargetOf(i, p) : i \in Instants} \ {0}
                      missing == IF plan.pinned THEN wanted
                                 ELSE {t \in wanted :
                                         SampleAt(first[p].samples, t) = NoSample}
                  IN  IF missing = {} THEN NoRead
                      ELSE BeginRead(p, Min(missing), Max(missing))]
    /\ UNCHANGED <<table, ready, plan, inTime, first, answers, retries, wallet>>

\* The samples p's targets are looked up in.
Found(p, t) ==
    SampleAt(IF plan.pinned THEN read[p].samples
             ELSE read[p].samples \o first[p].samples, t)

Resolved(i, p) ==
    LET t == target[i][p]
        s == Found(p, t)
    IN  IF t = 0 THEN answers[i][p]
        ELSE IF s = NoSample /\ read[p].err # "none" THEN Failure(read[p].err)
        ELSE IF s # NoSample /\ ~s.good THEN Failure("uncertified")
        ELSE IF s.start # t THEN Failure("nosample")
        ELSE [at |-> s.start, err |-> "none"]

\* alignSamples, second half: reads.Wait returns.
Resolve ==
    /\ phase = "resolve"
    /\ ReadsOver
    /\ phase' = "wallet"
    /\ answers' = [i \in Instants |-> [p \in Routes |-> Resolved(i, p)]]
    /\ retries' = [i \in Instants |->
                     retries[i] \/ \E p \in Routes :
                        /\ target[i][p] # 0
                        /\ Found(p, target[i][p]) = NoSample
                        /\ read[p].err # "none"]
    /\ UNCHANGED <<table, ready, plan, inTime, read, first, target, wallet>>

PinsWithoutAll(i) ==                                               \* mutant
    LET at == {answers[i][p].at : p \in Routes} \ {0}
    IN  IF Cardinality(at) = 1 THEN Max(at) ELSE 0

\* suiWalletPin: the one checkpoint every protocol answers at, or none.
WalletPin(i) ==
    LET at == {answers[i][p].at : p \in Routes}
    IN  IF Cardinality(at) = 1 THEN Max(at) ELSE 0

\* readWalletHistory: one read for all pinned instants.  It answers, or
\* answers that the account is beyond it, or does not answer.
ReadWallet ==
    /\ phase = "wallet"
    /\ phase' = "price"
    /\ \E outcome \in {"ok", "notCovered", "failed"} :
        /\ wallet' = [i \in Instants |-> IF outcome = "ok" THEN WalletPin(i) ELSE 0]
        /\ retries' = [i \in Instants |->
                         retries[i] \/ (outcome = "failed" /\ WalletPin(i) # 0)]
    /\ UNCHANGED <<table, ready, plan, inTime, read, first, target, answers>>

\* The times of the samples that answer.
Wanted == {answers[i][p].at : i \in Instants, p \in Routes}

\* The two quote calls and the responses.  The price service may be
\* unavailable for some sample times.
Price ==
    /\ phase = "price"
    /\ phase' = "done"
    /\ \E without, walletWithout \in SUBSET Wanted :
        retries' = [i \in Instants |->
                      \/ retries[i]
                      \/ \E p \in Routes : answers[i][p].at \in without \ {0}
                      \/ wallet[i] \in walletWithout \ {0}]
    /\ UNCHANGED <<table, ready, plan, inTime, read, first, target, answers, wallet>>

Finished == phase = "done" /\ UNCHANGED vars

Scan == BeginReads \/ AnswerInstants \/ Align \/ Resolve \/ ReadWallet \/ Price

Next ==
    \/ StopReads
    \/ \E p \in Routes : Complete(p) \/ ReadStep(p)
    \/ Scan
    \/ Finished

\* The scan and its readers go on when they can: a statement is bounded by
\* its timeout.  No sample needs to be completed and no deadline to pass.
Fairness == WF_vars(Scan) /\ \A p \in Routes : WF_vars(ReadStep(p))

Spec == Init /\ [][Next]_vars /\ Fairness

-----------------------------------------------------------------------------
(* Correctness.                                                            *)

Reads == [pc : {"unused", "range", "checkpoint", "over"},
          from : 0..(MaxTime + 1), to : 0..MaxTime, limit : 1..MaxSamples,
          ceiling : 1..MaxSamples, samples : Seq(Samples),
          err : {"none", "failed", "uncertified", "nosample"}, had : Nat]

\* Types.  No statement asks for no sample, or for more than the largest.
TypeOK ==
    /\ \A p \in Routes : ready[p] \in 0..Len(table[p])
    /\ inTime \in BOOLEAN
    /\ phase \in {"start", "read", "align", "resolve", "wallet", "price", "done"}
    /\ \A p \in Routes : {read[p], first[p]} \subseteq Reads
    /\ target \in [Instants -> [Routes -> 0..MaxTime]]
    /\ answers \in [Instants -> [Routes -> [at : 0..MaxTime,
            err : {"none", "failed", "uncertified", "nosample"}]]]
    /\ retries \in [Instants -> BOOLEAN]
    /\ wallet \in [Instants -> 0..MaxTime]

\* The samples of p that meet the instants' span, when n are completed.
InSpan(p, n) ==
    Meeting(table[p], n, Min(ToSet(plan.instants)), Max(ToSet(plan.instants)))

\* However statements shrink and grow, a range read returns no sample twice
\* and skips none: what it has so far is a prefix of the samples in order,
\* and a read that ends without error misses none that was complete when it
\* began (ReadRange).
RangeWhole ==
    phase = "read" /\ ~plan.pinned =>
        \A p \in Routes :
            /\ IsPrefix(read[p].samples, InSpan(p, ready[p]))
            /\ read[p].pc = "over" /\ read[p].err = "none" =>
                 IsPrefix(InSpan(p, read[p].had), read[p].samples)

\* What a scan of instant i alone reports, had every source answered, with n
\* samples of each index completed: the samples covering i or, beside the
\* wallet, those at the oldest of their checkpoints.
AloneAt(n, p, t) == SampleAt(SubSeq(table[p], 1, n[p]), t)

Raw(n, i, p) ==
    LET s == AloneAt(n, p, plan.instants[i])
    IN  IF s = NoSample THEN Failure("nosample") ELSE AnswerFrom(s)

Alone(n, i, p) ==
    LET oldest == Min({Raw(n, i, q).at : q \in Routes})
        s == AloneAt(n, p, oldest)
    IN  IF ~plan.wallet \/ oldest \in {0, Raw(n, i, p).at} THEN Raw(n, i, p)
        ELSE IF s # NoSample /\ ~s.good THEN Failure("uncertified")
        ELSE IF s.start # oldest THEN Failure("nosample")
        ELSE AnswerFrom(s)

\* An instant that need not be asked again is answered as a scan of it alone
\* would answer it, whatever other instants it was read with, wherever the
\* shared reads were cut and failed, and however many samples were completed
\* meanwhile (ScanRange, alignSamples).
AnsweredAsAlone ==
    phase = "done" =>
        \A i \in Instants : ~retries[i] =>
            \E n \in [Routes -> 0..MaxTime] :
                /\ \A p \in Routes : n[p] \in first[p].had..ready[p]
                /\ \A p \in Routes : answers[i][p] = Alone(n, i, p)

\* The wallet is shown at an instant only beside every protocol, all at one
\* checkpoint and none after the instant: an asset that moved between them is
\* counted once (suiWalletPin, alignSamples).
OneState ==
    \A i \in Instants : wallet[i] # 0 =>
        /\ wallet[i] <= plan.instants[i]
        /\ \A p \in Routes : answers[i][p] = [at |-> wallet[i], err |-> "none"]

Tiles(p) ==
    \A k \in 2..Len(table[p]) : table[p][k].start = table[p][k - 1].until

\* An index that answered, even with no sample or one it cannot certify, is no
\* reason to ask again: as long as an index's samples leave no gaps, its
\* reads make an instant be asked again only when one failed before it
\* reached the instant or the checkpoint it is aligned to, or failed to ask for
\* a checkpoint from before its first sample (SuiRangeScan.Retry).
RetryOnlyUnanswered ==
    phase = "wallet" /\ ~plan.pinned /\ (\A p \in Routes : Tiles(p)) =>
        \A i \in Instants : retries[i] =>
            \E p \in Routes :
                \/ FellShort(first[p], plan.instants[i])
                \/ /\ target[i][p] # 0 /\ read[p].err # "none"
                   /\ \/ FellShort(read[p], target[i][p])
                      \/ target[i][p] < table[p][1].start

\* Every scan returns.
ScanReturns == <>(phase = "done")
=============================================================================
