------------------------------ MODULE RpcClient ------------------------------
(***************************************************************************)
(* The RPC client of rpc.go over a pool of backends that are not at the    *)
(* same block: the settled pin of LatestSettledBlock, then one call of     *)
(* ParallelCalls (mode "strict"), ParallelCallsAllowFailure ("tolerant")   *)
(* or DeployedAt ("code") over N contracts at the pin, sent in chunks,     *)
(* each chunk in at most RpcAttempts round trips with a back-off between.  *)
(*                                                                         *)
(* What a contract answers at the pin is fixed (truth); the backends lag,  *)
(* the transport fails, elements of a batch are throttled or go missing.   *)
(***************************************************************************)
EXTENDS Integers, FiniteSets, FiniteSetsExt, Functions

CONSTANTS Backends,      \* the nodes behind the endpoint
          Lag,           \* blocks the pin stays behind the advertised head
          MaxHead,       \* bound on the chain's height
          N,             \* number of contract calls
          BatchSize,     \* calls per batch (16 in the code)
          RpcAttempts    \* round trips per call (3 in the code)

ASSUME RpcAssumption ==
    /\ Backends # {} /\ IsFiniteSet(Backends)
    /\ {Lag, MaxHead, N, BatchSize, RpcAttempts} \subseteq Nat
    /\ Lag >= 1 /\ MaxHead > Lag /\ BatchSize >= 1 /\ RpcAttempts >= 1

VARIABLES heads,      \* Backends -> the latest block the backend has
          truth,      \* call -> what its contract answers at the pin
          mode,       \* "strict", "tolerant" or "code"
          phase,      \* what the caller is doing
          target,     \* the block number being asked for, then the pin
          start,      \* first call of the chunk in flight
          attempt,    \* round trips already made for it
          reply,      \* what the last round trip that asked for a call brought it
          elems,      \* the error of each batch element, as the library left it
          results,    \* call -> what the client has recorded for it
          cause,      \* why the operation failed
          cancelled   \* the caller's context is done

vars == <<heads, truth, mode, phase, target, start, attempt, reply,
          elems, results, cause, cancelled>>

Calls    == 1..N
Phases   == {"head", "settled", "calls"}
Running  == phase \in Phases \cup {"waiting head", "waiting settled", "waiting calls"}
WaitingFor(p) == CASE p = "head"    -> "waiting head"
                   [] p = "settled" -> "waiting settled"
                   [] p = "calls"   -> "waiting calls"

\* Errors by class.  httpBusy: 429, 502, 503, 504; httpDenied: any other HTTP
\* status; limited: -32005, -32009; behind: -32000 naming an unknown block;
\* revert: the contract's own; refused: any other JSON-RPC error, which a node
\* may give whatever the contract would answer (-32603, a missing trie node);
\* broken: time-outs, resets, a response that lacks an element.
None   == "none"
Errors == {"httpBusy", "httpDenied", "limited", "behind", "revert", "refused", "broken"}
TransportErrors == {"httpBusy", "httpDenied", "broken"}

retryableRPCError(e) == e \in {"httpBusy", "limited", "behind", "broken"}

NoErrors == [i \in Calls |-> None]

Chunk(s) == s .. Min({s + BatchSize - 1, N})

-----------------------------------------------------------------------------
\* A pool never spreads wider than Lag blocks: what the settled pin relies on.
Skew(h) == \A a, b \in Backends : h[a] - h[b] =< Lag

Init ==
    /\ heads \in [Backends -> Lag..MaxHead] /\ Skew(heads)
    /\ truth \in [Calls -> {"value", "revert", "empty"}]
    /\ mode \in {"strict", "tolerant", "code"}
    /\ mode = "code" => "revert" \notin Range(truth)
    /\ phase = "head" /\ target = 0 /\ start = 1 /\ attempt = 0
    /\ reply = NoErrors /\ elems = NoErrors
    /\ results = NoErrors
    /\ cause = None /\ cancelled = FALSE

Advance(b) ==
    /\ Running /\ heads[b] < MaxHead
    /\ heads' = [heads EXCEPT ![b] = @ + 1]
    /\ Skew(heads')
    /\ UNCHANGED <<truth, mode, phase, target, start, attempt, reply, elems,
                   results, cause, cancelled>>

Cancel ==
    /\ Running /\ ~cancelled
    /\ cancelled' = TRUE
    /\ UNCHANGED <<heads, truth, mode, phase, target, start, attempt, reply, elems,
                   results, cause>>

Fail(why) == phase' = "failed" /\ cause' = why

-----------------------------------------------------------------------------
\* A mutant: the attempts are not counted.
RetriedForEver(e) ==
    /\ IF ~retryableRPCError(e) THEN Fail(e)
       ELSE phase' = WaitingFor(phase) /\ cause' = cause
    /\ UNCHANGED <<heads, truth, mode, target, start, attempt, results, cancelled>>

\* The end of a round trip that ended in the error e: give up at once, give up
\* after the last attempt, or wait and try again.
RoundTripFailed(e) ==
    /\ IF ~retryableRPCError(e)
       THEN Fail(e) /\ attempt' = attempt
       ELSE IF attempt + 1 < RpcAttempts
       THEN phase' = WaitingFor(phase) /\ attempt' = attempt + 1 /\ cause' = cause
       ELSE Fail("exhausted") /\ attempt' = attempt
    /\ UNCHANGED <<heads, truth, mode, target, start, results, cancelled>>

\* The back-off: the timer fires, or the caller's context ends first.
BackOff ==
    /\ phase \notin Phases /\ Running
    /\ \/ \E p \in Phases : phase = WaitingFor(p) /\ phase' = p /\ cause' = cause
       \/ cancelled /\ Fail("cancelled")
    /\ UNCHANGED <<heads, truth, mode, target, start, attempt, reply, elems, results,
                   cancelled>>

\* A mutant: pinning the advertised head.
UnsettledBlockByTag(b) ==
    /\ phase \in {"head", "settled"} /\ ~cancelled
    /\ phase' = "calls" /\ target' = heads[b] /\ attempt' = 0
    /\ UNCHANGED <<heads, truth, mode, start, reply, elems, results, cause, cancelled>>

\* One eth_getBlockByNumber: "latest" in phase "head", the target otherwise.
\* A backend that does not have the block answers null, which decodes to a
\* block without a hash: an error that is not retried.
blockByTag(b) ==
    /\ phase \in {"head", "settled"} /\ ~cancelled
    /\ IF phase = "head"
       THEN IF heads[b] =< Lag
            THEN phase' = "calls" /\ target' = heads[b] /\ cause' = cause
            ELSE phase' = "settled" /\ target' = heads[b] - Lag /\ cause' = cause
       ELSE IF heads[b] >= target
            THEN phase' = "calls" /\ target' = target /\ cause' = cause
            ELSE Fail("no hash") /\ target' = target
    /\ attempt' = 0
    /\ UNCHANGED <<heads, truth, mode, start, reply, elems, results, cancelled>>

\* LatestSettledBlock reads the head, then the block Lag below it, each through
\* callRaw: a round trip that fails is retried like any other, a refusal is not.
LatestSettledBlock ==
    \/ \E b \in Backends : blockByTag(b)
    \/ /\ phase \in {"head", "settled"}
       /\ \E e \in TransportErrors \cup {"limited", "refused"} :
             (cancelled => e = "broken") /\ RoundTripFailed(e)
       /\ UNCHANGED <<reply, elems>>

-----------------------------------------------------------------------------
\* What backend b may send back for element i of the batch: it may throttle or
\* refuse any of them.
Replies(b, i) ==
    {"limited", "refused", "broken"} \cup
    (IF heads[b] < target THEN {"behind"}
     ELSE {IF truth[i] = "revert" THEN "revert" ELSE "answer"})

\* The error the library leaves in an element whose error was old: the client
\* assumes only that the error of an element that failed is set.
LibraryError(r, old) == IF r = "answer" THEN old ELSE r

\* A mutant: the errors of the attempt before are kept.
KeptErrors == elems

\* Before every attempt the errors of the attempt before are cleared.
ErrorsBefore == NoErrors

\* A decoded answer: empty return data satisfies no ABI.
Decoded(i) == IF truth[i] = "value" THEN "value" ELSE "empty"

\* DeployedAt: an address without code is not deployed, and that is no error.
DeployedAt(i) == IF truth[i] = "empty" THEN "empty" ELSE "value"

\* The chunk is accepted: its results are recorded and the next one begins.
Accept(errs) ==
    LET ch == Chunk(start)
        decode == [i \in ch |-> IF errs[i] # None THEN errs[i]
                                ELSE IF mode = "code" THEN DeployedAt(i) ELSE Decoded(i)]
        bad == mode = "strict" /\ \E i \in ch : decode[i] # "value"
    IN  /\ results' = [i \in Calls |-> IF i \in ch /\ ~bad THEN decode[i] ELSE results[i]]
        /\ attempt' = 0 /\ elems' = NoErrors
        /\ IF bad THEN Fail("decode") /\ start' = start
           ELSE /\ cause' = cause
                /\ start' = start + BatchSize
                /\ phase' = IF start + BatchSize > N THEN "done" ELSE "calls"
        /\ UNCHANGED <<heads, truth, mode, target, cancelled>>

\* A mutant: a tolerant batch leaves every element error to its element.
TolerantOfAll(errs) ==
    LET bad == {i \in Chunk(start) : errs[i] # None /\ mode # "tolerant"}
    IN  IF bad = {} THEN None ELSE errs[Min(bad)]

\* The error of a batch whose transport succeeded: a tolerant batch fails with
\* the first element whose error is retryable, any other with the first failed.
BatchError(errs) ==
    LET ch  == Chunk(start)
        bad == {i \in ch : errs[i] # None /\ (mode # "tolerant" \/ retryableRPCError(errs[i]))}
    IN  IF bad = {} THEN None ELSE errs[Min(bad)]

\* The calls of the chunk got these replies.
Replied(r) == reply' = [i \in Calls |-> IF i \in Chunk(start) THEN r[i] ELSE reply[i]]

\* One round trip of batchCallRaw or batchCallTransportRaw.
BatchCall ==
    /\ phase = "calls"
    /\ \/ \E e \in TransportErrors :
            /\ cancelled => e = "broken"
            /\ Replied(NoErrors) /\ elems' = ErrorsBefore
            /\ RoundTripFailed(e)
       \/ \E b \in Backends :
          \E r \in [Chunk(start) -> Errors \cup {"answer"}] :
            LET errs == [i \in Calls |-> IF i \in Chunk(start)
                            THEN LibraryError(r[i], ErrorsBefore[i]) ELSE None]
            IN  /\ ~cancelled
                /\ \A i \in Chunk(start) : r[i] \in Replies(b, i)
                /\ Replied(r)
                /\ IF BatchError(errs) = None THEN Accept(errs)
                   ELSE elems' = errs /\ RoundTripFailed(BatchError(errs))

Next == \/ \E b \in Backends : Advance(b)
        \/ Cancel \/ BackOff \/ LatestSettledBlock \/ BatchCall

\* Every round trip has a time-out and every back-off a timer, so the caller
\* always gets on.
Fairness == WF_vars(BackOff) /\ WF_vars(LatestSettledBlock) /\ WF_vars(BatchCall)

Spec == Init /\ [][Next]_vars /\ Fairness
-----------------------------------------------------------------------------
\* What the calls say: the contract's answer at the pin, or the node's refusal.
Told(i) == IF reply[i] = "refused" THEN "refused" ELSE truth[i]

\* What a caller is told of a call is what its contract answered at the pin, or
\* the error of a node that refused that very call in the last round trip that
\* asked for it: a throttled, missing, unserved or refused element is never
\* passed on as a revert or as an empty answer, and a revert or a refusal never
\* spoils the calls beside it (ParallelCallsAllowFailure).  Without tolerance the
\* results are the contracts' alone (ParallelCalls), and an address is said to
\* have no code only if it has none (DeployedAt).
AnswersAreContracts ==
    /\ \A i \in Calls : results[i] \in {None, Told(i)}
    /\ phase = "done" => \A i \in Calls : results[i] # None
    /\ phase = "done" /\ mode # "tolerant" => \A i \in Calls : results[i] = truth[i]
    /\ phase = "done" /\ mode = "strict" => \A i \in Calls : truth[i] = "value"

\* A batch is judged by its last round trip alone: an element that was answered
\* carries no error of an earlier attempt, so a retry can succeed, and a revert
\* or a failed decode is reported only of a contract that does it
\* (batchCallRaw clears the element errors before every attempt).
JudgedByLastRoundTrip ==
    /\ \A i \in Calls : reply[i] = "answer" => elems[i] = None
    /\ cause = "revert" => \E i \in Chunk(start) : truth[i] = "revert"
    /\ cause = "decode" => \E i \in Chunk(start) : truth[i] = "empty"

\* A pool that spreads no wider than the lag serves the pinned block from every
\* backend, so no read of the scan is refused for being ahead of the node that
\* serves it (the comment of LatestSettledBlock).
PinServedEverywhere ==
    /\ phase \in {"settled", "calls", "waiting calls", "done"} =>
           \A b \in Backends : heads[b] >= target
    /\ cause # "no hash"
    /\ \A i \in Calls : elems[i] # "behind"

\* Whatever the endpoint does, a call ends: attempts are bounded, each has a
\* time-out, and a cancelled caller is not kept waiting (callRaw, batchCallRaw,
\* batchCallTransportRaw).
CallEnds == []<>(~Running)
=============================================================================
