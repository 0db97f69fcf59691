----------------------------- MODULE IndexerLane -----------------------------
(***************************************************************************)
(* The admission control in front of every Sentio indexer query: indexer-  *)
(* Lane (sentio_lane.go), the two kinds of request that go through it, a   *)
(* GraphQL query (graphql, doJSONAttempts in sentio.go) and a SQL          *)
(* statement (executeSQL in sentio_sql.go under suiHistoryIndex.execute),  *)
(* and the executions those statements leave on the server.                *)
(*                                                                         *)
(* The lane is a buffered channel.  A receive from a full one hands the    *)
(* freed slot to the sender that has waited longest, so the blocked        *)
(* senders are a queue.                                                    *)
(***************************************************************************)
EXTENDS Integers, FiniteSets, SequencesExt

CONSTANTS
    Users,      \* goroutines that send requests, one at a time each
    SQLUsers,   \* those whose requests are SQL statements: the Sui readers
    Capacity,   \* cap(slots)
    Attempts    \* how often doJSONAttempts sends a request (3 in graphql)

ASSUME LaneAssumption ==
    /\ IsFiniteSet(Users) /\ SQLUsers \subseteq Users
    /\ Capacity \in Nat \ {0}
    /\ Attempts \in Nat \ {0}

VARIABLES
    pc,         \* pc[u]: where u's request is
    live,       \* live[u]: the context of the request has not ended
    inTime,     \* inTime[u]: the statement has not outlived its timeout
    attempt,    \* attempt[u]: round trips of the request that failed
    inUse,      \* len(slots)
    queue,      \* the senders blocked on slots, longest wait first
    waiting,    \* lane.waiting
    run,        \* run[u]: the execution the statement left on the server
    result      \* result[u]: how the last request ended

vars == <<pc, live, inTime, attempt, inUse, queue, waiting, run, result>>

Holding == {"trip", "submit", "pause", "poll", "cancel"}
Holders == {u \in Users : pc[u] \in Holding}

NoRun == [state |-> "none", known |-> FALSE, cancelled |-> FALSE]

Init ==
    /\ pc = [u \in Users |-> "idle"]
    /\ live = [u \in Users |-> TRUE]
    /\ inTime = [u \in Users |-> TRUE]
    /\ attempt = [u \in Users |-> 0]
    /\ inUse = 0
    /\ queue = << >>
    /\ waiting = 0
    /\ run = [u \in Users |-> NoRun]
    /\ result = [u \in Users |-> "none"]

\* Types.  A queued user is queued once, and is at the select of acquire.
TypeOK ==
    /\ pc \in [Users -> {"idle", "enter", "counted", "queued", "backoff"}
                        \cup Holding]
    /\ live \in [Users -> BOOLEAN]
    /\ inTime \in [Users -> BOOLEAN]
    /\ attempt \in [Users -> 0..Attempts]
    /\ inUse \in 0..Capacity
    /\ queue \in Seq(Users) /\ IsInjective(queue)
    /\ ToSet(queue) = {u \in Users : pc[u] = "queued"}
    /\ waiting \in 0..Cardinality(Users)
    /\ run \in [Users -> [state : {"none", "running", "over"},
                          known : BOOLEAN, cancelled : BOOLEAN]]
    /\ result \in [Users -> {"none", "ok", "failed", "tooCostly", "ended"}]

-----------------------------------------------------------------------------
(* A request begins, and its context or its statement's timeout may end.   *)

Start(u) ==
    /\ pc[u] = "idle"
    /\ pc' = [pc EXCEPT ![u] = "enter"]
    /\ live' = [live EXCEPT ![u] = TRUE]
    /\ inTime' = [inTime EXCEPT ![u] = TRUE]
    /\ attempt' = [attempt EXCEPT ![u] = 0]
    /\ run' = [run EXCEPT ![u] = NoRun]
    /\ result' = [result EXCEPT ![u] = "none"]
    /\ UNCHANGED <<inUse, queue, waiting>>

EndContext(u) ==
    /\ pc[u] # "idle" /\ live[u]
    /\ live' = [live EXCEPT ![u] = FALSE]
    /\ UNCHANGED <<pc, inTime, attempt, inUse, queue, waiting, run, result>>

\* sentioSQLStatementTimeout passes; it runs from submission.
TimeOut(u) ==
    /\ pc[u] \in {"submit", "pause", "poll"} /\ inTime[u]
    /\ inTime' = [inTime EXCEPT ![u] = FALSE]
    /\ UNCHANGED <<pc, live, attempt, inUse, queue, waiting, run, result>>

\* statementCtx has ended.
StatementEnded(u) == ~live[u] \/ ~inTime[u]

-----------------------------------------------------------------------------
(* acquire and release.                                                    *)

\* What a request does once it holds a slot.
Admitted(u) == IF u \in SQLUsers THEN "submit" ELSE "trip"

\* A live context takes a free slot at once.
FastAcquire(u) ==
    /\ pc[u] = "enter"
    /\ live[u]
    /\ inUse < Capacity
    /\ inUse' = inUse + 1
    /\ pc' = [pc EXCEPT ![u] = Admitted(u)]
    /\ UNCHANGED <<live, inTime, attempt, queue, waiting, run, result>>

\* Otherwise the caller counts itself as waiting...
CountWaiting(u) ==
    /\ pc[u] = "enter"
    /\ ~live[u] \/ inUse = Capacity
    /\ waiting' = waiting + 1
    /\ pc' = [pc EXCEPT ![u] = "counted"]
    /\ UNCHANGED <<live, inTime, attempt, inUse, queue, run, result>>

\* ... and selects.  A slot freed in between is taken, by an ended context
\* too: select chooses among the ready cases.
SelectSlot(u) ==
    /\ pc[u] = "counted"
    /\ inUse < Capacity
    /\ inUse' = inUse + 1
    /\ waiting' = waiting - 1
    /\ pc' = [pc EXCEPT ![u] = Admitted(u)]
    /\ UNCHANGED <<live, inTime, attempt, queue, run, result>>

Enqueue(u) ==
    /\ pc[u] = "counted"
    /\ inUse = Capacity
    /\ live[u]
    /\ queue' = Append(queue, u)
    /\ pc' = [pc EXCEPT ![u] = "queued"]
    /\ UNCHANGED <<live, inTime, attempt, inUse, waiting, run, result>>

\* ctx.Done wins the select: the caller leaves without a slot.
GiveUpWaiting(u) ==
    /\ pc[u] \in {"counted", "queued"}
    /\ ~live[u]
    /\ waiting' = waiting - 1
    /\ queue' = RemoveFirst(queue, u)
    /\ pc' = [pc EXCEPT ![u] = "idle"]
    /\ result' = [result EXCEPT ![u] = "ended"]
    /\ UNCHANGED <<live, inTime, attempt, inUse, run>>

ReleaseToNobody(u, next) ==                                        \* mutant
    /\ inUse' = inUse - 1
    /\ pc' = [pc EXCEPT ![u] = next]
    /\ UNCHANGED <<queue, waiting>>

\* release, with u going on to next: the longest waiting sender takes the
\* freed slot, which stays in use.
Release(u, next) ==
    IF queue = << >>
    THEN /\ inUse' = inUse - 1
         /\ pc' = [pc EXCEPT ![u] = next]
         /\ UNCHANGED <<queue, waiting>>
    ELSE /\ pc' = [pc EXCEPT ![u] = next,
                             ![Head(queue)] = Admitted(Head(queue))]
         /\ queue' = Tail(queue)
         /\ waiting' = waiting - 1
         /\ UNCHANGED inUse

\* The request returns and its deferred or explicit release has run.
Finish(u, outcome) ==
    /\ Release(u, "idle")
    /\ result' = [result EXCEPT ![u] = outcome]

-----------------------------------------------------------------------------
(* doJSONAttempts under graphql.                                           *)

\* The round trip answers, with data or with GraphQL errors, or fails in a
\* way another attempt would not change.
TripEnds(u) ==
    /\ pc[u] = "trip"
    /\ \E outcome \in {"ok", "failed"} : Finish(u, outcome)
    /\ UNCHANGED <<live, inTime, attempt, run>>

BacksOffHolding(u) ==                                              \* mutant
    /\ pc[u] = "trip"
    /\ attempt' = [attempt EXCEPT ![u] = @ + 1]
    /\ \/ /\ attempt[u] + 1 < Attempts
          /\ pc' = [pc EXCEPT ![u] = "backoff"]
          /\ UNCHANGED <<inUse, queue, waiting, result>>
       \/ attempt[u] + 1 >= Attempts /\ Finish(u, "failed")
    /\ UNCHANGED <<live, inTime, run>>

\* The round trip fails in a way that may pass: a transport, read or decode
\* failure, a 429 or a 5xx.  The slot goes back before the retry waits.
TripFails(u) ==
    /\ pc[u] = "trip"
    /\ attempt' = [attempt EXCEPT ![u] = @ + 1]
    /\ \/ /\ attempt[u] + 1 < Attempts
          /\ Release(u, "backoff")
          /\ UNCHANGED result
       \/ attempt[u] + 1 >= Attempts /\ Finish(u, "failed")
    /\ UNCHANGED <<live, inTime, run>>

BackoffElapses(u) ==
    /\ pc[u] = "backoff"
    /\ pc' = [pc EXCEPT ![u] = "enter"]
    /\ UNCHANGED <<live, inTime, attempt, inUse, queue, waiting, run, result>>

BackoffCut(u) ==
    /\ pc[u] = "backoff"
    /\ ~live[u]
    /\ pc' = [pc EXCEPT ![u] = "idle"]
    /\ result' = [result EXCEPT ![u] = "ended"]
    /\ UNCHANGED <<live, inTime, attempt, inUse, queue, waiting, run>>

-----------------------------------------------------------------------------
(* executeSQL and abandonSQL, inside one slot.                             *)

SubmitAccepted(u) ==
    /\ pc[u] = "submit"
    /\ run' = [run EXCEPT ![u] = [NoRun EXCEPT !.state = "running", !.known = TRUE]]
    /\ pc' = [pc EXCEPT ![u] = "pause"]
    /\ UNCHANGED <<live, inTime, attempt, inUse, queue, waiting, result>>

\* The submission fails and is not repeated: refused, answered without an
\* execution ID, or cut off, by ctx or the transport, whether or not the
\* server had taken the statement by then.
SubmitFails(u) ==
    /\ pc[u] = "submit"
    /\ \E taken \in {NoRun, [NoRun EXCEPT !.state = "running"]} :
        run' = [run EXCEPT ![u] = taken]
    /\ Finish(u, IF live[u] THEN "failed" ELSE "ended")
    /\ UNCHANGED <<live, inTime, attempt>>

\* The server finishes or kills the execution.
RunEnds(u) ==
    /\ run[u].state = "running"
    /\ run' = [run EXCEPT ![u].state = "over"]
    /\ UNCHANGED <<pc, live, inTime, attempt, inUse, queue, waiting, result>>

PollTimer(u) ==
    /\ pc[u] = "pause"
    /\ pc' = [pc EXCEPT ![u] = "poll"]
    /\ UNCHANGED <<live, inTime, attempt, inUse, queue, waiting, run, result>>

AbandonsAtOnce(u) ==                                               \* mutant
    /\ pc[u] \in {"pause", "poll"}
    /\ StatementEnded(u)
    /\ Finish(u, IF live[u] THEN "tooCostly" ELSE "ended")
    /\ UNCHANGED <<live, inTime, attempt, run>>

\* statementCtx ends the pause, or the poll under way: the execution is
\* cancelled first.
Abandon(u) ==
    /\ pc[u] \in {"pause", "poll"}
    /\ StatementEnded(u)
    /\ pc' = [pc EXCEPT ![u] = "cancel"]
    /\ UNCHANGED <<live, inTime, attempt, inUse, queue, waiting, run, result>>

\* abandonSQL's best-effort request, on a context ctx does not end, and the
\* reason it reports.
CancelSent(u) ==
    /\ pc[u] = "cancel"
    /\ \E reached \in BOOLEAN :
        run' = [run EXCEPT ![u].cancelled = TRUE,
                           ![u].state = IF reached THEN "over" ELSE @]
    /\ Finish(u, IF live[u] THEN "tooCostly" ELSE "ended")
    /\ UNCHANGED <<live, inTime, attempt>>

\* A poll that fails transiently, or finds the execution pending or running.
PollAgain(u) ==
    /\ pc[u] = "poll"
    /\ ~StatementEnded(u)
    /\ pc' = [pc EXCEPT ![u] = "pause"]
    /\ UNCHANGED <<live, inTime, attempt, inUse, queue, waiting, run, result>>

\* A poll refused for good leaves the execution alone.
PollRefused(u) ==
    /\ pc[u] = "poll"
    /\ ~StatementEnded(u)
    /\ Finish(u, "failed")
    /\ UNCHANGED <<live, inTime, attempt, run>>

\* FINISHED with a result, an error or an execution limit, or KILLED.
PollOver(u) ==
    /\ pc[u] = "poll"
    /\ run[u].state = "over"
    /\ \E outcome \in {"ok", "failed", "tooCostly"} : Finish(u, outcome)
    /\ UNCHANGED <<live, inTime, attempt, run>>

-----------------------------------------------------------------------------

Acquire(u) == FastAcquire(u) \/ CountWaiting(u) \/ SelectSlot(u)
              \/ Enqueue(u) \/ GiveUpWaiting(u)
GraphQL(u) == TripEnds(u) \/ TripFails(u) \/ BackoffElapses(u) \/ BackoffCut(u)
SQL(u) == SubmitAccepted(u) \/ SubmitFails(u) \/ PollTimer(u) \/ Abandon(u)
          \/ CancelSent(u) \/ PollAgain(u) \/ PollRefused(u) \/ PollOver(u)
Request(u) == Acquire(u) \/ GraphQL(u) \/ SQL(u)

Next ==
    \E u \in Users :
        \/ Start(u)
        \/ EndContext(u)
        \/ TimeOut(u)
        \/ RunEnds(u)
        \/ Request(u)

\* A request that can go on does: every round trip is bounded by the HTTP
\* client's timeout.  A statement's timeout passes if the statement is still
\* unfinished, which is what ends a poll loop; the context need not end.
Fairness ==
    \A u \in Users : WF_vars(Request(u)) /\ WF_vars(TimeOut(u))

Spec == Init /\ [][Next]_vars /\ Fairness

-----------------------------------------------------------------------------
(* Correctness.                                                            *)

\* The lane's counters are the truth: a slot is in use for each request in a
\* round trip or a statement, none for one that backs off or waits;
\* IndexerLaneStats.Waiting is the number of callers blocked in acquire; and
\* nobody queues while a slot is free.
SlotsAccountedFor ==
    /\ inUse = Cardinality(Holders)
    /\ waiting = Cardinality({u \in Users : pc[u] \in {"counted", "queued"}})
    /\ queue # << >> => inUse = Capacity

\* A statement whose execution is known and that is given up on, for its
\* timeout or its context, is cancelled before its slot is handed on.
GivenUpIsCancelled ==
    \A u \in Users :
        (pc[u] = "idle" /\ run[u].known /\ run[u].state = "running")
            => run[u].cancelled \/ result[u] = "failed"

\* What the comment on executeSQL says: a statement given up on because ctx
\* ended is cancelled before returning.
EndedIsCancelled ==
    \A u \in Users :
        (pc[u] = "idle" /\ result[u] = "ended" /\ run[u].state = "running")
            => run[u].cancelled

\* Every request ends, whatever the others hold: a waiting one gets a slot
\* or learns that its context ended.
EveryRequestEnds == \A u \in Users : pc[u] # "idle" ~> pc[u] = "idle"
=============================================================================
