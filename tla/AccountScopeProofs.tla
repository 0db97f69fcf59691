------------------------- MODULE AccountScopeProofs -------------------------
(***************************************************************************)
(* RpcClient and AccountScope proved for any pool, any number of calls,    *)
(* any batch size and any registry: the pin is served by every backend, a  *)
(* batch is judged by its last round trip, results are what the contracts  *)
(* answer, and the scope is exactly the owner's accounts.                  *)
(***************************************************************************)
EXTENDS AccountScope, WellFoundedInduction, SequenceTheorems, TLAPS

-----------------------------------------------------------------------------
(* Least elements.                                                         *)

\* A set of naturals that is not empty has a least element, which is Min of it.
LEMMA MinIsLeast ==
    ASSUME NEW S \in SUBSET Nat, S # {}
    PROVE  Min(S) \in S /\ \A y \in S : Min(S) <= y
<1>1. PICK x \in S : \A y \in S : ~(<<y, x>> \in OpToRel(<, Nat))
  BY WFMin, NatLessThanWellFounded
<1>2. ASSUME NEW y \in S PROVE x <= y
  <2>1. y \in Nat /\ x \in Nat
    OBVIOUS
  <2>2. ~(y < x)
    BY <1>1, <2>1 DEF OpToRel
  <2> QED
    BY <2>1, <2>2
<1> QED
  BY <1>2 DEF Min

\* The bounds are naturals.
LEMMA Bounds ==
    /\ Lag \in Nat /\ MaxHead \in Nat /\ N \in Nat /\ BatchSize \in Nat
    /\ RpcAttempts \in Nat /\ BatchSize >= 1 /\ RpcAttempts >= 1 /\ Lag >= 1
  BY RpcAssumption

\* The calls of a chunk.
LEMMA ChunkBounds ==
    ASSUME NEW s \in Nat \ {0}
    PROVE  /\ Chunk(s) \subseteq Calls
           /\ \A i \in Calls : i \in Chunk(s) <=> s <= i /\ i < s + BatchSize
<1>1. N \in Nat /\ BatchSize \in Nat /\ BatchSize >= 1
  BY RpcAssumption
<1> DEFINE m == Min({s + BatchSize - 1, N})
<1>2. /\ m \in Nat /\ m <= N /\ m <= s + BatchSize - 1
      /\ m = N \/ m = s + BatchSize - 1
  <2>1. {s + BatchSize - 1, N} \in SUBSET Nat
    BY <1>1
  <2>2. m \in {s + BatchSize - 1, N} /\ \A y \in {s + BatchSize - 1, N} : m <= y
    BY <2>1, MinIsLeast
  <2> QED
    BY <2>1, <2>2
<1> HIDE DEF m
<1>3. Chunk(s) = s..m
  BY DEF Chunk, m
<1> QED
  BY <1>1, <1>2, <1>3 DEF Calls

-----------------------------------------------------------------------------
(* The inductive invariant of the client.                                  *)

Outcomes == {None, "value", "empty"} \cup Errors

ClientType ==
    /\ heads \in [Backends -> Lag..MaxHead] /\ Skew(heads)
    /\ truth \in [Calls -> {"value", "revert", "empty"}]
    /\ mode \in {"strict", "tolerant", "code"}
    /\ phase \in Phases \cup {"waiting head", "waiting settled", "waiting calls",
                              "idle", "done", "failed"}
    /\ target \in Nat
    /\ start \in Nat \ {0}
    /\ attempt \in 0..(RpcAttempts - 1)
    /\ reply \in [Calls -> Outcomes \cup {"answer"}]
    /\ elems \in [Calls -> {None} \cup Errors]
    /\ results \in [Calls -> Outcomes]
    /\ cause \in Errors \cup {None, "exhausted", "cancelled", "decode", "no hash"}
    /\ cancelled \in BOOLEAN

\* Only a failed operation has a cause.
CauseOfFailure == phase # "failed" => cause = None

\* The target is served while it waits for its retry too.
TargetServed ==
    phase \notin {"head", "waiting head", "failed"} =>
        \A b \in Backends : heads[b] >= target

\* The chunks before the one in flight are recorded.
Recorded ==
    \A i \in Calls :
        /\ i < start => results[i] = Told(i)
        /\ i >= start => results[i] = None
        /\ mode # "tolerant" /\ i < start => reply[i] # "refused"
        /\ mode = "strict" /\ i < start => truth[i] = "value"

ChunksLeft == phase = "done" => start > N

ClientInv ==
    /\ ClientType
    /\ CauseOfFailure
    /\ TargetServed
    /\ Recorded
    /\ ChunksLeft
    /\ JudgedByLastRoundTrip
    /\ PinServedEverywhere

\* The numbers of the invariant.
LEMMA ClientNumbers ==
    ASSUME ClientInv
    PROVE  /\ heads \in [Backends -> Lag..MaxHead]
           /\ \A b \in Backends : heads[b] \in Nat /\ Lag <= heads[b] /\ heads[b] <= MaxHead
           /\ \A a, b \in Backends : heads[a] - heads[b] <= Lag
           /\ attempt \in Nat /\ attempt <= RpcAttempts - 1
           /\ target \in Nat /\ start \in Nat \ {0}
<1>1. /\ heads \in [Backends -> Lag..MaxHead] /\ Skew(heads)
      /\ attempt \in 0..(RpcAttempts - 1) /\ target \in Nat /\ start \in Nat \ {0}
  BY DEF ClientInv, ClientType
<1>2. \A b \in Backends : heads[b] \in Lag..MaxHead
  BY <1>1
<1> QED
  BY <1>1, <1>2, Bounds DEF Skew

\* The invariant contains what is claimed of the answers.
LEMMA RecordedAnswers == ClientInv => AnswersAreContracts
<1> SUFFICES ASSUME ClientInv PROVE AnswersAreContracts
  OBVIOUS
<1>1. Recorded /\ ChunksLeft /\ start \in Nat /\ N \in Nat
  BY RpcAssumption DEF ClientInv, ClientType
<1>2. \A i \in Calls : i \in Nat /\ i <= N
  BY <1>1 DEF Calls
<1>3. phase = "done" => \A i \in Calls : i < start
  BY <1>1, <1>2 DEF ChunksLeft
<1>4. \A i \in Calls : results[i] \in {None, Told(i)}
  BY <1>1, <1>2 DEF Recorded
<1>5. \A i \in Calls : Told(i) # None
  BY DEF ClientInv, ClientType, Told, None
<1>6. \A i \in Calls : i < start /\ mode # "tolerant" => results[i] = truth[i]
  BY <1>1 DEF Recorded, Told
<1> QED
  BY <1>1, <1>3, <1>4, <1>5, <1>6 DEF AnswersAreContracts, Recorded

-----------------------------------------------------------------------------
(* The client's steps.                                                     *)

\* A round trip that failed leaves what is recorded alone, and the operation
\* fails with the error of that round trip or not at all.
LEMMA FailedRoundTrip ==
    ASSUME ClientInv, phase \in Phases, NEW e \in Errors, RoundTripFailed(e),
           e = "revert" => \E i \in Chunk(start) : truth[i] = "revert",
           reply' \in [Calls -> Outcomes \cup {"answer"}],
           \A i \in Calls : i < start => reply'[i] = reply[i],
           elems' \in [Calls -> {None} \cup Errors],
           \A i \in Calls : elems'[i] # "behind"
                            /\ (reply'[i] = "answer" => elems'[i] = None)
    PROVE  ClientInv'
<1>1. UNCHANGED <<heads, truth, mode, target, start, results, cancelled>>
  BY DEF RoundTripFailed
<1>2. \/ phase' = "failed" /\ cause' \in {e, "exhausted"} /\ attempt' = attempt
      \/ /\ phase' = WaitingFor(phase) /\ cause' = cause /\ attempt' = attempt + 1
         /\ attempt + 1 < RpcAttempts
  BY DEF RoundTripFailed, Fail
<1>3. /\ WaitingFor(phase) \in {"waiting head", "waiting settled", "waiting calls"}
      /\ WaitingFor(phase) = "waiting head" <=> phase = "head"
      /\ phase # "failed"
  BY DEF Phases, WaitingFor
<1>4. cause = None
  BY <1>3 DEF ClientInv, CauseOfFailure
<1>5. ClientType'
  <2>1. attempt' \in 0..(RpcAttempts - 1)
    BY <1>2, Bounds, ClientNumbers
  <2>2. /\ phase' \in {"failed", "waiting head", "waiting settled", "waiting calls"}
        /\ cause' \in Errors \cup {None, "exhausted"}
    BY <1>2, <1>3, <1>4
  <2> QED
    BY <1>1, <2>1, <2>2 DEF ClientInv, ClientType, Skew
<1>6. CauseOfFailure'
  BY <1>2, <1>4 DEF CauseOfFailure
<1>7. TargetServed'
  <2>1. phase # "waiting head"
    BY DEF Phases
  <2> QED
    BY <1>1, <1>2, <1>3, <2>1 DEF ClientInv, TargetServed
<1>8. Recorded'
  BY <1>1 DEF ClientInv, Recorded, Told
<1>9. ChunksLeft'
  BY <1>2, <1>3 DEF ChunksLeft
<1>10. JudgedByLastRoundTrip'
  BY <1>1, <1>2, <1>4 DEF JudgedByLastRoundTrip, Errors, None, Chunk
<1>11. PinServedEverywhere'
  <2>1. cause' # "no hash"
    BY <1>2, <1>4 DEF Errors, None
  <2>2. phase' \in {"settled", "calls", "waiting calls", "done"} =>
            \A b \in Backends : heads'[b] >= target'
    BY <1>7 DEF TargetServed
  <2> QED
    BY <2>1, <2>2 DEF PinServedEverywhere
<1> QED
  BY <1>5, <1>6, <1>7, <1>8, <1>9, <1>10, <1>11 DEF ClientInv

\* The chain grows and the pin is served by every backend still.
LEMMA AdvanceKeeps ==
    ASSUME ClientInv, NEW b \in Backends, Advance(b)
    PROVE  ClientInv'
<1>1. /\ UNCHANGED <<truth, mode, phase, target, start, attempt, reply, elems,
                     results, cause, cancelled>>
      /\ heads' = [heads EXCEPT ![b] = @ + 1] /\ heads[b] < MaxHead
  BY DEF Advance
<1>2. heads' \in [Backends -> Lag..MaxHead] /\ Skew(heads')
  <2>1. heads[b] \in Lag..MaxHead /\ Lag \in Nat /\ MaxHead \in Nat
    BY RpcAssumption DEF ClientInv, ClientType
  <2>2. heads[b] + 1 \in Lag..MaxHead
    BY <1>1, <2>1
  <2> QED
    BY <1>1, <2>2 DEF ClientInv, ClientType, Advance
<1>3. ASSUME NEW a \in Backends
      PROVE  heads'[a] >= heads[a] /\ heads[a] \in Nat /\ heads'[a] \in Nat
  <2>1. heads[a] \in Nat /\ heads \in [Backends -> Lag..MaxHead] /\ heads[b] \in Nat
    BY ClientNumbers
  <2>2. heads'[a] = IF a = b THEN heads[b] + 1 ELSE heads[a]
    BY <1>1, <2>1
  <2> QED
    BY <2>1, <2>2
<1>4. ClientType' /\ CauseOfFailure' /\ Recorded' /\ ChunksLeft'
  BY <1>1, <1>2 DEF ClientInv, ClientType, CauseOfFailure, Recorded, Told, ChunksLeft
<1>5. JudgedByLastRoundTrip'
  BY <1>1 DEF ClientInv, JudgedByLastRoundTrip, Chunk
<1>6. TargetServed'
  <2>1. target \in Nat /\ TargetServed
    BY ClientNumbers DEF ClientInv
  <2>2. SUFFICES ASSUME phase' \notin {"head", "waiting head", "failed"},
                        NEW a \in Backends
                 PROVE  heads'[a] >= target'
    BY DEF TargetServed
  <2>3. heads[a] >= target /\ target' = target
    BY <1>1, <2>1, <2>2 DEF TargetServed
  <2>4. heads'[a] >= heads[a] /\ heads[a] \in Nat /\ heads'[a] \in Nat
    BY <1>3
  <2> QED
    BY <2>1, <2>3, <2>4
<1>7. PinServedEverywhere'
  BY <1>1, <1>6 DEF ClientInv, PinServedEverywhere, TargetServed
<1> QED
  BY <1>4, <1>5, <1>6, <1>7 DEF ClientInv

\* The caller's context ends.
LEMMA CancelKeeps == ASSUME ClientInv, Cancel PROVE ClientInv'
<1>1. /\ UNCHANGED <<heads, truth, mode, phase, target, start, attempt, reply, elems,
                     results, cause>>
      /\ cancelled' = TRUE
  BY DEF Cancel
<1>2. ClientType'
  BY <1>1 DEF ClientInv, ClientType, Skew
<1>3. CauseOfFailure' /\ TargetServed' /\ Recorded' /\ ChunksLeft'
  BY <1>1 DEF ClientInv, CauseOfFailure, TargetServed, Recorded, Told, ChunksLeft
<1>4. JudgedByLastRoundTrip' /\ PinServedEverywhere'
  BY <1>1 DEF ClientInv, JudgedByLastRoundTrip, PinServedEverywhere, Chunk
<1> QED
  BY <1>2, <1>3, <1>4 DEF ClientInv

\* The back-off returns to what it waited for, or ends the operation.
LEMMA BackOffKeeps == ASSUME ClientInv, BackOff PROVE ClientInv'
<1>1. UNCHANGED <<heads, truth, mode, target, start, attempt, reply, elems, results,
                  cancelled>>
  BY DEF BackOff
<1>2. \/ \E p \in Phases : phase = WaitingFor(p) /\ phase' = p /\ cause' = cause
      \/ phase' = "failed" /\ cause' = "cancelled"
  BY DEF BackOff, Fail
<1>3. \/ phase = "waiting head" /\ phase' = "head" /\ cause' = cause
      \/ phase = "waiting settled" /\ phase' = "settled" /\ cause' = cause
      \/ phase = "waiting calls" /\ phase' = "calls" /\ cause' = cause
      \/ phase' = "failed" /\ cause' = "cancelled"
  BY <1>2 DEF Phases, WaitingFor
<1>4. ClientType'
  BY <1>1, <1>3 DEF ClientInv, ClientType, Skew, Phases
<1>5. CauseOfFailure' /\ TargetServed' /\ Recorded' /\ ChunksLeft'
  BY <1>1, <1>3 DEF ClientInv, CauseOfFailure, TargetServed, Recorded, Told, ChunksLeft
<1>6. JudgedByLastRoundTrip'
  BY <1>1, <1>3 DEF ClientInv, JudgedByLastRoundTrip, Chunk
<1>7. PinServedEverywhere'
  BY <1>1, <1>3, <1>5 DEF ClientInv, PinServedEverywhere, TargetServed
<1> QED
  BY <1>4, <1>5, <1>6, <1>7 DEF ClientInv

\* LatestSettledBlock pins a block that every backend has: what is Lag below
\* any head is below every head.
LEMMA BlockByTagKeeps ==
    ASSUME ClientInv, NEW b \in Backends, blockByTag(b)
    PROVE  ClientInv'
<1>1. /\ phase \in {"head", "settled"}
      /\ UNCHANGED <<heads, truth, mode, start, reply, elems, results, cancelled>>
      /\ attempt' = 0
  BY DEF blockByTag
<1>2. /\ \A a \in Backends : heads[a] \in Nat /\ heads[a] >= Lag
      /\ \A a \in Backends : heads[b] - heads[a] <= Lag
      /\ Lag \in Nat /\ target \in Nat
  BY Bounds, ClientNumbers
<1>3. /\ target' \in Nat /\ \A a \in Backends : heads[a] >= target'
      /\ phase' \in {"settled", "calls"} /\ cause' = cause
  <2>1. CASE phase = "head" /\ heads[b] =< Lag
    BY <1>2, <2>1 DEF blockByTag
  <2>2. CASE phase = "head" /\ ~(heads[b] =< Lag)
    <3>1. /\ phase' = "settled" /\ target' = heads[b] - Lag /\ cause' = cause
          /\ heads[b] > Lag
      BY <1>2, <2>2 DEF blockByTag
    <3> QED
      BY <1>2, <3>1
  <2>3. CASE phase = "settled"
    BY <1>2, <2>3 DEF blockByTag, ClientInv, TargetServed
  <2> QED
    BY <1>1, <2>1, <2>2, <2>3
<1>4. cause = None
  BY <1>1 DEF ClientInv, CauseOfFailure
<1>5. ClientType'
  <2>1. attempt' \in 0..(RpcAttempts - 1)
    BY <1>1, Bounds
  <2> QED
    BY <1>1, <1>3, <2>1 DEF ClientInv, ClientType, Skew, Phases
<1>6. CauseOfFailure' /\ TargetServed' /\ Recorded' /\ ChunksLeft'
  BY <1>1, <1>3, <1>4
  DEF ClientInv, CauseOfFailure, TargetServed, Recorded, Told, ChunksLeft
<1>7. JudgedByLastRoundTrip'
  BY <1>1, <1>3 DEF ClientInv, JudgedByLastRoundTrip, Chunk
<1>8. PinServedEverywhere'
  BY <1>1, <1>3, <1>6 DEF ClientInv, PinServedEverywhere, TargetServed
<1> QED
  BY <1>5, <1>6, <1>7, <1>8 DEF ClientInv

\* What a backend that has the pin sends back for an element says how its
\* contract answers, or is an error that is retried.
LEMMA ElementReply ==
    ASSUME NEW b \in Backends, NEW i \in Calls, heads[b] \in Nat, target \in Nat,
           heads[b] >= target, truth[i] \in {"value", "revert", "empty"},
           NEW r, r \in Replies(b, i)
    PROVE  /\ r \in {"limited", "refused", "broken", "revert", "answer"}
           /\ r = "revert" => truth[i] = "revert"
           /\ r = "answer" => truth[i] \in {"value", "empty"}
  BY DEF Replies

\* The error of a batch is that of one of its elements; a batch without one has
\* no failed element, or is tolerant and has reverts alone.
LEMMA ErrorOfBatch ==
    ASSUME start \in Nat \ {0}, NEW errs \in [Calls -> {None} \cup Errors]
    PROVE  /\ BatchError(errs) # None =>
                 \E i \in Chunk(start) : BatchError(errs) = errs[i]
           /\ BatchError(errs) = None =>
                 \A i \in Chunk(start) :
                    errs[i] = None \/ (mode = "tolerant" /\ ~retryableRPCError(errs[i]))
<1> DEFINE bad == {i \in Chunk(start) :
                     errs[i] # None /\ (mode # "tolerant" \/ retryableRPCError(errs[i]))}
<1>1. BatchError(errs) = IF bad = {} THEN None ELSE errs[Min(bad)]
  BY DEF BatchError
<1>2. bad \in SUBSET Nat /\ bad \subseteq Chunk(start)
  BY ChunkBounds, Bounds DEF Calls
<1>3. bad # {} => Min(bad) \in bad
  BY <1>2, MinIsLeast
<1>4. bad # {} => errs[Min(bad)] # None
  BY <1>3
<1> QED
  BY <1>1, <1>2, <1>3, <1>4

\* A chunk that is accepted records what its contracts answered, or that a node
\* refused them.
LEMMA AcceptKeeps ==
    ASSUME ClientInv, phase = "calls", NEW errs \in [Calls -> {None} \cup Errors],
           BatchError(errs) = None, Accept(errs),
           reply' \in [Calls -> Outcomes \cup {"answer"}],
           \A i \in Calls : i \notin Chunk(start) => reply'[i] = reply[i],
           \A i \in Chunk(start) :
              /\ errs[i] # None => \/ retryableRPCError(errs[i])
                                   \/ /\ errs[i] = "revert" /\ truth[i] = "revert"
                                      /\ reply'[i] # "refused"
                                   \/ errs[i] = "refused" /\ reply'[i] = "refused"
              /\ errs[i] = None => truth[i] \in {"value", "empty"} /\ reply'[i] # "refused"
    PROVE  ClientInv'
<1> DEFINE ch == Chunk(start)
           decode == [i \in ch |-> IF errs[i] # None THEN errs[i]
                                   ELSE IF mode = "code" THEN DeployedAt(i) ELSE Decoded(i)]
           bad == mode = "strict" /\ \E i \in ch : decode[i] # "value"
<1>1. /\ results' = [i \in Calls |-> IF i \in ch /\ ~bad THEN decode[i] ELSE results[i]]
      /\ attempt' = 0 /\ elems' = NoErrors
      /\ UNCHANGED <<heads, truth, mode, target, cancelled>>
      /\ \/ bad /\ phase' = "failed" /\ cause' = "decode" /\ start' = start
         \/ /\ ~bad /\ cause' = cause /\ start' = start + BatchSize
            /\ phase' = IF start + BatchSize > N THEN "done" ELSE "calls"
  BY DEF Accept, Fail
<1>2. /\ start \in Nat \ {0} /\ N \in Nat /\ BatchSize \in Nat /\ BatchSize >= 1
      /\ truth \in [Calls -> {"value", "revert", "empty"}]
      /\ results \in [Calls -> Outcomes] /\ cause = None
  BY ClientNumbers, Bounds DEF ClientInv, ClientType, CauseOfFailure
<1>3. /\ ch \subseteq Calls
      /\ \A i \in Calls : i \in ch <=> start <= i /\ i < start + BatchSize
  BY <1>2, ChunkBounds
<1>4. \A i \in ch : /\ errs[i] = None \/ (mode = "tolerant" /\ ~retryableRPCError(errs[i]))
                    /\ mode = "strict" => errs[i] = None
  BY <1>2, ErrorOfBatch
<1>5. \A i \in ch : /\ decode[i] = IF reply'[i] = "refused" THEN "refused" ELSE truth[i]
                    /\ mode # "tolerant" => reply'[i] # "refused"
  BY <1>3, <1>4 DEF DeployedAt, Decoded
<1>6. bad => \E i \in ch : truth[i] = "empty"
  BY <1>4, <1>5
<1>7. ~bad /\ mode = "strict" => \A i \in ch : truth[i] = "value"
  BY <1>5
<1> HIDE DEF ch, decode, bad
<1>8. ClientType'
  <2>1. attempt' \in 0..(RpcAttempts - 1) /\ start' \in Nat \ {0}
    BY <1>1, <1>2, Bounds
  <2>2. results' \in [Calls -> Outcomes]
    BY <1>1, <1>2, <1>3, <1>5 DEF Outcomes, Errors
  <2>3. elems' \in [Calls -> {None} \cup Errors]
    BY <1>1 DEF NoErrors
  <2>4. /\ phase' \in {"failed", "done", "calls"}
        /\ cause' \in {None, "decode"}
    BY <1>1, <1>2
  <2> QED
    BY <1>1, <2>1, <2>2, <2>3, <2>4 DEF ClientInv, ClientType, Skew, Phases
<1>9. CauseOfFailure'
  BY <1>1, <1>2 DEF CauseOfFailure
<1>10. TargetServed'
  BY <1>1 DEF ClientInv, TargetServed
<1>11. Recorded'
  <2>1. SUFFICES ASSUME NEW i \in Calls
                 PROVE  /\ i < start' =>
                              results'[i] = IF reply'[i] = "refused" THEN "refused" ELSE truth[i]
                        /\ i >= start' => results'[i] = None
                        /\ mode # "tolerant" /\ i < start' => reply'[i] # "refused"
                        /\ mode = "strict" /\ i < start' => truth[i] = "value"
    BY <1>1 DEF Recorded, Told
  <2>2. /\ i < start => results[i] = IF reply'[i] = "refused" THEN "refused" ELSE truth[i]
        /\ i >= start => results[i] = None
        /\ mode # "tolerant" /\ i < start => reply'[i] # "refused"
        /\ mode = "strict" /\ i < start => truth[i] = "value"
        /\ i \in Nat
    <3>1. i \in Nat /\ (i < start => reply'[i] = reply[i])
      BY <1>2, <1>3 DEF Calls, ch
    <3> QED
      BY <3>1 DEF ClientInv, Recorded, Told
  <2>3. CASE bad
    BY <1>1, <2>2, <2>3
  <2>4. CASE ~bad
    <3>1. /\ results'[i] = IF i \in ch THEN IF reply'[i] = "refused" THEN "refused" ELSE truth[i]
                           ELSE results[i]
          /\ mode # "tolerant" /\ i \in ch => reply'[i] # "refused"
      BY <1>1, <1>5, <2>4
    <3>2. start' = start + BatchSize
      BY <1>1, <2>4
    <3>3. i \in ch <=> start <= i /\ i < start + BatchSize
      BY <1>3
    <3>4. mode = "strict" /\ i \in ch => truth[i] = "value"
      BY <1>7, <2>4
    <3> QED
      BY <1>2, <2>2, <3>1, <3>2, <3>3, <3>4
  <2> QED
    BY <2>3, <2>4
<1>12. ChunksLeft'
  BY <1>1, <1>2 DEF ChunksLeft
<1>13. JudgedByLastRoundTrip'
  <2>1. \A i \in Calls : elems'[i] = None
    BY <1>1 DEF NoErrors
  <2>2. cause' = "decode" => \E i \in Chunk(start') : truth[i] = "empty"
    BY <1>1, <1>2, <1>6 DEF ch, None
  <2>3. cause' # "revert"
    BY <1>1, <1>2 DEF None
  <2> QED
    BY <1>1, <2>1, <2>2, <2>3 DEF JudgedByLastRoundTrip, None
<1>14. PinServedEverywhere'
  <2>1. cause' # "no hash" /\ \A i \in Calls : elems'[i] # "behind"
    BY <1>1, <1>2 DEF None, NoErrors
  <2> QED
    BY <1>1, <1>10, <2>1 DEF PinServedEverywhere, TargetServed
<1> QED
  BY <1>8, <1>9, <1>10, <1>11, <1>12, <1>13, <1>14 DEF ClientInv

\* One round trip of a batch: it fails in transport, is accepted, or fails with
\* the error of one of its elements.
LEMMA BatchCallKeeps == ASSUME ClientInv, BatchCall PROVE ClientInv'
<1>1. phase = "calls" /\ phase \in Phases
  BY DEF BatchCall, Phases
<1>0. /\ reply \in [Calls -> Outcomes \cup {"answer"}]
      /\ \A i \in Calls : i < start => i \notin Chunk(start)
  <2>1. start \in Nat \ {0} /\ reply \in [Calls -> Outcomes \cup {"answer"}]
    BY DEF ClientInv, ClientType
  <2>2. \A i \in Calls : i \in Chunk(start) => start <= i
    BY <2>1, ChunkBounds
  <2>3. \A i \in Calls : i \in Nat
    BY Bounds DEF Calls
  <2> QED
    BY <2>1, <2>2, <2>3
<1>2. ASSUME NEW e \in TransportErrors, Replied(NoErrors), elems' = ErrorsBefore,
             RoundTripFailed(e)
      PROVE  ClientInv'
  <2>1. e \in Errors /\ e # "revert"
    BY DEF TransportErrors, Errors
  <2>2. /\ reply' \in [Calls -> Outcomes \cup {"answer"}]
        /\ \A i \in Calls : i < start => reply'[i] = reply[i]
        /\ elems' \in [Calls -> {None} \cup Errors]
        /\ \A i \in Calls : elems'[i] = None
    BY <1>0, <1>2 DEF NoErrors, ErrorsBefore, Outcomes, Replied
  <2> QED
    BY <1>1, <1>2, <2>1, <2>2, FailedRoundTrip DEF None
<1>3. ASSUME NEW b \in Backends, NEW r \in [Chunk(start) -> Errors \cup {"answer"}],
             NEW errs,
             errs = [i \in Calls |-> IF i \in Chunk(start)
                        THEN LibraryError(r[i], ErrorsBefore[i]) ELSE None],
             \A i \in Chunk(start) : r[i] \in Replies(b, i),
             Replied(r),
             IF BatchError(errs) = None THEN Accept(errs)
             ELSE elems' = errs /\ RoundTripFailed(BatchError(errs))
      PROVE  ClientInv'
  <2>1. start \in Nat \ {0} /\ target \in Nat /\ heads[b] \in Nat
    BY ClientNumbers
  <2>2. Chunk(start) \subseteq Calls
    BY <2>1, ChunkBounds
  <2>3. heads[b] >= target
    BY <1>1 DEF ClientInv, TargetServed
  <2>4. \A i \in Chunk(start) :
            /\ r[i] \in {"limited", "refused", "broken", "revert", "answer"}
            /\ r[i] = "revert" => truth[i] = "revert"
            /\ r[i] = "answer" => truth[i] \in {"value", "empty"}
    <3>1. \A i \in Calls : truth[i] \in {"value", "revert", "empty"}
      BY DEF ClientInv, ClientType
    <3> QED
      BY <1>3, <2>1, <2>2, <2>3, <3>1, ElementReply
  <2>5. \A i \in Calls :
            errs[i] = IF i \in Chunk(start) /\ r[i] # "answer" THEN r[i] ELSE None
    BY <1>3, <2>2 DEF LibraryError, ErrorsBefore, NoErrors
  <2>6. errs \in [Calls -> {None} \cup Errors]
    <3>1. errs = [i \in Calls |-> errs[i]]
      BY <1>3
    <3>2. \A i \in Calls : errs[i] \in {None} \cup Errors
      BY <2>4, <2>5 DEF Errors
    <3> QED
      BY <3>1, <3>2
  <2>9. /\ reply' \in [Calls -> Outcomes \cup {"answer"}]
        /\ \A i \in Calls : reply'[i] = IF i \in Chunk(start) THEN r[i] ELSE reply[i]
    BY <1>0, <1>3, <2>4 DEF Replied, Outcomes, Errors
  <2>7. CASE BatchError(errs) = None
    <3>1. \A i \in Chunk(start) :
              /\ errs[i] # None => \/ retryableRPCError(errs[i])
                                   \/ /\ errs[i] = "revert" /\ truth[i] = "revert"
                                      /\ reply'[i] # "refused"
                                   \/ errs[i] = "refused" /\ reply'[i] = "refused"
              /\ errs[i] = None => truth[i] \in {"value", "empty"} /\ reply'[i] # "refused"
      BY <2>2, <2>4, <2>5, <2>9 DEF retryableRPCError, None
    <3> QED
      BY <1>1, <1>3, <2>6, <2>7, <2>9, <3>1, AcceptKeeps
  <2>8. CASE BatchError(errs) # None
    <3>1. PICK i \in Chunk(start) : BatchError(errs) = errs[i]
      BY <2>1, <2>6, <2>8, ErrorOfBatch
    <3>2. BatchError(errs) \in {"limited", "refused", "broken", "revert"}
          /\ (BatchError(errs) = "revert" => truth[i] = "revert")
      BY <2>2, <2>4, <2>5, <2>8, <3>1
    <3>3. \A k \in Calls : k < start => reply'[k] = reply[k]
      BY <1>0, <2>9
    <3>4. \A k \in Calls : elems'[k] # "behind"
                           /\ (reply'[k] = "answer" => elems'[k] = None)
      BY <1>3, <2>4, <2>5, <2>8, <2>9 DEF None
    <3>5. BatchError(errs) \in Errors
      BY <3>2 DEF Errors
    <3> HIDE DEF BatchError
    <3> QED
      BY <1>1, <1>3, <2>6, <2>8, <2>9, <3>2, <3>3, <3>4, <3>5, FailedRoundTrip
  <2> QED
    BY <2>7, <2>8
<1> QED
  BY <1>2, <1>3 DEF BatchCall

\* One round trip of LatestSettledBlock.
LEMMA LatestSettledBlockKeeps == ASSUME ClientInv, LatestSettledBlock PROVE ClientInv'
<1>1. ASSUME NEW e \in TransportErrors \cup {"limited", "refused"}, phase \in {"head", "settled"},
             RoundTripFailed(e), UNCHANGED <<reply, elems>>
      PROVE  ClientInv'
  <2>1. e \in Errors /\ e # "revert" /\ phase \in Phases
    BY <1>1 DEF TransportErrors, Errors, Phases
  <2>2. /\ reply' \in [Calls -> Outcomes \cup {"answer"}]
        /\ \A i \in Calls : i < start => reply'[i] = reply[i]
        /\ elems' \in [Calls -> {None} \cup Errors]
        /\ \A i \in Calls : elems'[i] # "behind"
                            /\ (reply'[i] = "answer" => elems'[i] = None)
    BY <1>1 DEF ClientInv, ClientType, JudgedByLastRoundTrip, PinServedEverywhere
  <2> QED
    BY <1>1, <2>1, <2>2, FailedRoundTrip
<1> QED
  BY <1>1, BlockByTagKeeps DEF LatestSettledBlock

\* Every step of the client keeps the invariant.
LEMMA NextClient == ASSUME ClientInv, Next PROVE ClientInv'
  BY AdvanceKeeps, CancelKeeps, BackOffKeeps, LatestSettledBlockKeeps, BatchCallKeeps
  DEF Next

\* A step that leaves the client alone keeps it.
LEMMA SameClient == ASSUME ClientInv, UNCHANGED vars PROVE ClientInv'
<1>1. ClientType'
  BY DEF vars, ClientInv, ClientType, Skew
<1>2. CauseOfFailure' /\ TargetServed' /\ Recorded' /\ ChunksLeft'
  BY DEF vars, ClientInv, CauseOfFailure, TargetServed, Recorded, Told, ChunksLeft
<1>3. JudgedByLastRoundTrip' /\ PinServedEverywhere'
  BY DEF vars, ClientInv, JudgedByLastRoundTrip, PinServedEverywhere, Chunk
<1> QED
  BY <1>1, <1>2, <1>3 DEF ClientInv

\* Both initial states of the client satisfy it.
LEMMA InitClient == ScopeInit => ClientInv
<1> SUFFICES ASSUME ScopeInit PROVE ClientInv
  OBVIOUS
<1>1. /\ heads \in [Backends -> Lag..MaxHead] /\ Skew(heads) /\ target \in Nat
      /\ phase \in {"head", "idle"}
      /\ phase = "idle" => \A b \in Backends : heads[b] >= target
  <2>1. CASE Init
    BY <2>1 DEF Init
  <2>2. CASE ~Init
    <3>1. heads = [b \in Backends |-> MaxHead] /\ target = MaxHead - Lag /\ phase = "idle"
      BY <2>2 DEF ScopeInit
    <3>2. MaxHead \in Lag..MaxHead /\ MaxHead - Lag \in Nat /\ MaxHead >= MaxHead - Lag
      BY RpcAssumption, Bounds
    <3>3. MaxHead - MaxHead <= Lag
      BY Bounds
    <3> QED
      BY <3>1, <3>2, <3>3 DEF Skew
  <2> QED
    BY <2>1, <2>2
<1>2. /\ truth \in [Calls -> {"value", "revert", "empty"}]
      /\ mode \in {"strict", "tolerant", "code"}
      /\ start = 1 /\ attempt = 0 /\ reply = NoErrors /\ elems = NoErrors
      /\ results = NoErrors /\ cause = None /\ cancelled = FALSE
  BY DEF ScopeInit, Init
<1>3. NoErrors \in [Calls -> {None}] /\ \A i \in Calls : NoErrors[i] = None
  BY DEF NoErrors
<1>4. ClientType
  <2>1. attempt \in 0..(RpcAttempts - 1) /\ start \in Nat \ {0}
    BY <1>2, Bounds
  <2> QED
    BY <1>1, <1>2, <1>3, <2>1 DEF ClientType, Phases, Outcomes
<1>5. CauseOfFailure /\ TargetServed /\ ChunksLeft
  BY <1>1, <1>2 DEF CauseOfFailure, TargetServed, ChunksLeft
<1>6. Recorded
  BY <1>2, <1>3, Bounds DEF Recorded, Calls
<1>7. JudgedByLastRoundTrip /\ PinServedEverywhere
  BY <1>1, <1>2, <1>3 DEF JudgedByLastRoundTrip, PinServedEverywhere, None
<1> QED
  BY <1>4, <1>5, <1>6, <1>7 DEF ClientInv

-----------------------------------------------------------------------------
(* The walk of resolveAccountScope.                                        *)

\* No consistent list of the owner is within the bound.
NoLinkedPath == ~ \E path \in SeqOf(Ids, MaxAccounts) : Linked(path)

\* The scope is the owner followed by the accounts of a consistent list.
ScopeOfList ==
    \E path \in SeqOf(Ids, MaxAccounts) :
        Linked(path) /\ walk.result = <<Owner>> \o [i \in 1..Len(path) |-> list.addr[path[i]]]

\* p is what has been walked: so far as it goes it is the owner's list, and the
\* only one that can be.
Walked(p) ==
    /\ walk.offset <= list.count
    /\ walk.seen = {p[i] : i \in 1..walk.offset}
    /\ Len(walk.result) = walk.offset + 1
    /\ walk.result[1] = Owner
    /\ \A i \in 1..walk.offset :
          /\ walk.result[i + 1] = list.addr[p[i]]
          /\ list.addr[p[i]] \in Accounts
          /\ list.prev[p[i]] = IF i = 1 THEN 0 ELSE p[i - 1]
          /\ i < walk.offset => list.next[p[i]] = p[i + 1]
    /\ \A i, j \in 1..walk.offset : list.addr[p[i]] = list.addr[p[j]] => i = j
    /\ IF walk.offset = 0
       THEN walk.previous = 0 /\ walk.current = list.first
       ELSE /\ p[1] = list.first
            /\ walk.previous = p[walk.offset]
            /\ walk.current = list.next[p[walk.offset]]
    /\ \A path \in SeqOf(Ids, MaxAccounts) :
          Linked(path) => \A i \in 1..walk.offset : path[i] = p[i]

Walks ==
    [at : {"walking", "accepted", "refused", "failed"}, offset : Nat,
     current : {0} \cup Ids, previous : {0} \cup Ids, seen : SUBSET Ids,
     result : Seq(Accounts \cup {Owner})]

UnderWay ==
    /\ list \in Registry
    /\ list.count <= MaxAccounts
    /\ walk \in Walks
    /\ walk.at = "walking" =>
          /\ list.count > 0 /\ list.first # 0 /\ list.last # 0
          /\ \E p \in [1..walk.offset -> Ids] : Walked(p)
    /\ walk.at = "accepted" => ScopeOfList
    /\ walk.at = "refused" => NoLinkedPath

WalkInv ==
    \/ walk = NoWalk
    \/ walk = [at |-> "header"] /\ list \in Registry
    \/ walk = [at |-> "failed"]
    \/ walk = [at |-> "refused"] /\ NoLinkedPath
    \/ UnderWay

\* The invariant contains what is claimed of the scope.
LEMMA WalkExact == WalkInv => ScopeExact
<1>1. ScopeExact <=> /\ walk.at = "accepted" => ScopeOfList
                     /\ walk.at = "refused" => NoLinkedPath
  BY DEF ScopeExact, ScopeOfList, NoLinkedPath
<1>2. CASE walk = NoWalk
  BY <1>1, <1>2 DEF NoWalk
<1>3. CASE UnderWay
  BY <1>1, <1>3 DEF UnderWay
<1> QED
  BY <1>1, <1>2, <1>3 DEF WalkInv

\* A consistent list, entry by entry.
LEMMA LinkedEntries ==
    ASSUME NEW path \in SeqOf(Ids, MaxAccounts), Linked(path)
    PROVE  /\ Len(path) = list.count /\ Len(path) \in Nat /\ Len(path) <= MaxAccounts
           /\ path \in [1..Len(path) -> Ids]
           /\ list.count = 0 => list.first = 0 /\ list.last = 0
           /\ list.count > 0 => path[1] = list.first /\ path[list.count] = list.last
           /\ \A i \in 1..list.count :
                 /\ path[i] \in Ids
                 /\ list.prev[path[i]] = IF i = 1 THEN 0 ELSE path[i - 1]
                 /\ list.next[path[i]] = IF i = list.count THEN 0 ELSE path[i + 1]
                 /\ list.addr[path[i]] \in Accounts
           /\ \A i, j \in 1..list.count : list.addr[path[i]] = list.addr[path[j]] => i = j
<1>1. PICK m \in 0..MaxAccounts : path \in [1..m -> Ids]
  BY DEF SeqOf
<1>2. m \in Nat /\ m <= MaxAccounts
  BY ScopeAssumption
<1>3. Len(path) = m
  BY <1>1, <1>2, LenProperties, IsASeq
<1>4. Len(path) = list.count
  BY DEF Linked
<1>5. IF m = 0 THEN list.first = 0 /\ list.last = 0
      ELSE path[1] = list.first /\ path[m] = list.last
  BY <1>3 DEF Linked
<1>6. \A i \in 1..m : /\ path[i] \in Ids
                      /\ list.prev[path[i]] = IF i = 1 THEN 0 ELSE path[i - 1]
                      /\ list.next[path[i]] = IF i = m THEN 0 ELSE path[i + 1]
                      /\ list.addr[path[i]] \in Accounts
  BY <1>1, <1>3 DEF Linked
<1>7. \A i, j \in 1..m : list.addr[path[i]] = list.addr[path[j]] => i = j
  BY <1>3 DEF Linked
<1> QED
  BY <1>1, <1>2, <1>3, <1>4, <1>5, <1>6, <1>7

\* userLink: a header that is refused is that of no consistent list within the
\* bound.
LEMMA HeaderKeeps ==
    ASSUME walk = [at |-> "header"], list \in Registry, ReadHeader, UNCHANGED list
    PROVE  WalkInv'
<1>1. /\ list.count \in Nat /\ list.first \in {0} \cup Ids /\ list.last \in {0} \cup Ids
      /\ MaxAccounts \in Nat /\ 0 \notin Ids
  BY ScopeAssumption DEF Registry
<1> DEFINE refuse == \/ list.count > MaxAccounts
                     \/ list.count = 0 /\ (list.first # 0 \/ list.last # 0)
                     \/ list.count > 0 /\ (list.first = 0 \/ list.last = 0)
<1>2. CASE refuse
  <2>1. walk' = [at |-> "refused"]
    BY <1>2 DEF ReadHeader, End
  <2>2. ASSUME NEW path \in SeqOf(Ids, MaxAccounts), Linked(path) PROVE FALSE
    <3>1. /\ Len(path) = list.count /\ Len(path) <= MaxAccounts
          /\ list.count = 0 => list.first = 0 /\ list.last = 0
          /\ list.count > 0 => path[1] = list.first /\ path[list.count] = list.last
          /\ \A i \in 1..list.count : path[i] \in Ids
      BY <2>2, LinkedEntries
    <3>2. list.count > 0 => 1 \in 1..list.count /\ list.count \in 1..list.count
      BY <1>1
    <3> QED
      BY <1>1, <1>2, <3>1, <3>2
  <2>3. NoLinkedPath
    BY <2>2 DEF NoLinkedPath
  <2>4. NoLinkedPath'
    BY <2>3 DEF NoLinkedPath, Linked
  <2> QED
    BY <2>1, <2>4 DEF WalkInv
<1>3. CASE ~refuse
  <2>1. walk' = [at |-> IF list.count = 0 THEN "accepted" ELSE "walking",
                 offset |-> 0, current |-> list.first, previous |-> 0,
                 seen |-> {}, result |-> <<Owner>>]
    BY <1>3 DEF ReadHeader
  <2>2. <<Owner>> \in Seq(Accounts \cup {Owner})
    OBVIOUS
  <2>3. walk' \in Walks
    BY <1>1, <2>1, <2>2 DEF Walks
  <2>4. CASE list.count = 0
    <3>1. << >> \in SeqOf(Ids, MaxAccounts) /\ Len(<< >>) = 0
      <4>1. << >> \in [1..0 -> Ids] /\ 0 \in 0..MaxAccounts
        BY <1>1
      <4> QED
        BY <4>1 DEF SeqOf
    <3>2. list.first = 0 /\ list.last = 0
      BY <1>3, <2>4
    <3>3. Linked(<< >>)'
      BY <2>4, <3>1, <3>2 DEF Linked
    <3>4. walk'.result = <<Owner>> \o [k \in 1..Len(<< >>) |-> list'.addr[<< >>[k]]]
      <4>1. [k \in 1..Len(<< >>) |-> list'.addr[<< >>[k]]] = << >>
        BY <3>1
      <4>2. <<Owner>> \o << >> = <<Owner>>
        BY <2>2, ConcatEmptySeq
      <4> QED
        BY <2>1, <4>1, <4>2
    <3>5. ScopeOfList'
      BY <3>1, <3>3, <3>4 DEF ScopeOfList
    <3>6. UnderWay'
      BY <1>3, <2>1, <2>3, <2>4, <3>5, <1>1 DEF UnderWay
    <3> QED
      BY <3>6 DEF WalkInv
  <2>5. CASE list.count # 0
    <3> DEFINE p == [k \in 1..0 |-> 0]
    <3>1. p \in [1..walk'.offset -> Ids]
      BY <2>1
    <3>2. Len(<<Owner>>) = 1 /\ <<Owner>>[1] = Owner
      OBVIOUS
    <3> HIDE DEF p
    <3>3. Walked(p)'
      BY <1>1, <2>1, <3>2 DEF Walked
    <3>4. list.count > 0 /\ list.first # 0 /\ list.last # 0 /\ list.count <= MaxAccounts
      BY <1>1, <1>3, <2>5
    <3>5. walk'.at = "walking"
      BY <2>1, <2>5
    <3>6. UnderWay'
      BY <2>3, <3>1, <3>3, <3>4, <3>5 DEF UnderWay
    <3> QED
      BY <3>6 DEF WalkInv
  <2> QED
    BY <2>4, <2>5
<1> QED
  BY <1>2, <1>3

\* The walk ends, with whatever its end asks for.
LEMMA EndKeeps ==
    ASSUME UnderWay, NEW at \in {"accepted", "refused", "failed"}, End(at),
           UNCHANGED list,
           at = "accepted" => ScopeOfList,
           at = "refused" => NoLinkedPath
    PROVE  UnderWay'
<1>1. walk' = [walk EXCEPT !.at = at] /\ walk \in Walks
  BY DEF End, UnderWay
<1>2. walk' \in Walks /\ walk'.at = at /\ walk'.result = walk.result
  BY <1>1 DEF Walks
<1>3. ScopeOfList => ScopeOfList'
  <2>1. \A path : Linked(path)' <=> Linked(path)
    BY DEF Linked
  <2>2. list' = list
    OBVIOUS
  <2> QED
    BY <1>2, <2>1, <2>2 DEF ScopeOfList
<1>4. NoLinkedPath => NoLinkedPath'
  BY DEF NoLinkedPath, Linked
<1> QED
  BY <1>2, <1>3, <1>4 DEF UnderWay

\* While the walk has entries to go, the next entry of a consistent list is the
\* one it is at.
LEMMA NextEntry ==
    ASSUME list \in Registry, walk \in Walks, NEW p \in [1..walk.offset -> Ids], Walked(p),
           walk.offset < list.count,
           NEW path \in SeqOf(Ids, MaxAccounts), Linked(path)
    PROVE  path[walk.offset + 1] = walk.current
<1> DEFINE n == walk.offset
<1>1. n \in Nat /\ list.count \in Nat
  BY DEF Walks, Registry
<1>2. /\ list.count > 0 => path[1] = list.first
      /\ \A i \in 1..list.count :
            list.next[path[i]] = IF i = list.count THEN 0 ELSE path[i + 1]
  BY LinkedEntries
<1>3. \A i \in 1..n : path[i] = p[i]
  BY DEF Walked
<1>4. CASE n = 0
  BY <1>1, <1>2, <1>4 DEF Walked
<1>5. CASE n # 0
  <2>1. n \in 1..n /\ n \in 1..list.count /\ n # list.count
    BY <1>1, <1>5
  <2>2. list.next[path[n]] = path[n + 1]
    BY <1>2, <2>1
  <2>3. path[n] = p[n] /\ walk.current = list.next[p[n]]
    BY <1>3, <1>5, <2>1 DEF Walked
  <2> QED
    BY <2>2, <2>3
<1> QED
  BY <1>4, <1>5

\* After count entries the walk is accepted exactly if it ends the list.
LEMMA LastKeeps ==
    ASSUME UnderWay, walk.at = "walking", walk.offset = list.count,
           End(IF walk.previous # list.last \/ walk.current # 0
               THEN "refused" ELSE "accepted"),
           UNCHANGED list
    PROVE  UnderWay'
<1> DEFINE n == walk.offset
<1>1. /\ list \in Registry /\ walk \in Walks /\ n = list.count
      /\ n \in Nat /\ n > 0 /\ n <= MaxAccounts /\ MaxAccounts \in Nat
  BY ScopeAssumption DEF UnderWay, Walks
<1>2. PICK p \in [1..n -> Ids] : Walked(p)
  BY DEF UnderWay
<1>3. n \in 1..n /\ 1 \in 1..n
  BY <1>1
<1>4. p[1] = list.first /\ walk.previous = p[n] /\ walk.current = list.next[p[n]]
  BY <1>1, <1>2 DEF Walked
<1>5. CASE walk.previous # list.last \/ walk.current # 0
  <2>1. ASSUME NEW path \in SeqOf(Ids, MaxAccounts), Linked(path) PROVE FALSE
    <3>1. path[n] = list.last /\ list.next[path[n]] = 0
      BY <1>1, <1>3, <2>1, LinkedEntries
    <3>2. path[n] = p[n]
      BY <1>2, <1>3, <2>1 DEF Walked
    <3> QED
      BY <1>4, <1>5, <3>1, <3>2
  <2>2. NoLinkedPath
    BY <2>1 DEF NoLinkedPath
  <2> QED
    BY <1>5, <2>2, EndKeeps
<1>6. CASE ~(walk.previous # list.last \/ walk.current # 0)
  <2>1. p \in SeqOf(Ids, MaxAccounts)
    BY <1>1 DEF SeqOf
  <2>2. p \in Seq(Ids) /\ Len(p) = n
    BY <1>1, LenProperties, IsASeq
  <2>3. \A i \in 1..n : /\ list.prev[p[i]] = IF i = 1 THEN 0 ELSE p[i - 1]
                        /\ list.next[p[i]] = IF i = n THEN 0 ELSE p[i + 1]
                        /\ list.addr[p[i]] \in Accounts
    <3>1. ASSUME NEW i \in 1..n
          PROVE  /\ list.prev[p[i]] = IF i = 1 THEN 0 ELSE p[i - 1]
                 /\ i < n => list.next[p[i]] = p[i + 1]
                 /\ list.addr[p[i]] \in Accounts
      BY <1>2, <3>1 DEF Walked
    <3>2. \A i \in 1..n : i = n \/ i < n
      BY <1>1
    <3>3. list.next[p[n]] = 0
      BY <1>4, <1>6
    <3> QED
      BY <1>1, <3>1, <3>2, <3>3
  <2>4. \A i, j \in 1..n : list.addr[p[i]] = list.addr[p[j]] => i = j
    BY <1>2 DEF Walked
  <2>5. Linked(p)
    BY <1>1, <1>4, <1>6, <2>2, <2>3, <2>4 DEF Linked
  <2>6. walk.result = <<Owner>> \o [i \in 1..Len(p) |-> list.addr[p[i]]]
    <3> DEFINE t == [i \in 1..n |-> list.addr[p[i]]]
               S == Accounts \cup {Owner}
               r == <<Owner>> \o t
    <3>1. /\ walk.result \in Seq(S) /\ Len(walk.result) = n + 1
          /\ walk.result[1] = Owner
          /\ \A i \in 1..n : walk.result[i + 1] = list.addr[p[i]]
      BY <1>1, <1>2 DEF Walks, Walked
    <3>2. t \in Seq(S) /\ Len(t) = n /\ \A i \in 1..n : t[i] = list.addr[p[i]]
      <4>1. t \in [1..n -> S]
        BY <2>3
      <4> QED
        BY <1>1, <4>1, LenProperties, IsASeq
    <3> HIDE DEF t, S
    <3>3. <<Owner>> \in Seq(S) /\ Len(<<Owner>>) = 1 /\ <<Owner>>[1] = Owner
      BY DEF S
    <3>4. /\ r \in Seq(S) /\ Len(r) = 1 + n
          /\ \A i \in 1..(1 + n) : r[i] = IF i <= 1 THEN <<Owner>>[i] ELSE t[i - 1]
      BY <3>2, <3>3, ConcatProperties
    <3> HIDE DEF r
    <3>5. ASSUME NEW i \in 1..(n + 1) PROVE walk.result[i] = r[i]
      <4>1. CASE i = 1
        BY <1>1, <3>1, <3>3, <3>4, <4>1
      <4>2. CASE i # 1
        <5>1. i - 1 \in 1..n /\ (i - 1) + 1 = i /\ i \in 1..(1 + n) /\ ~(i <= 1)
          BY <1>1, <4>2
        <5>2. r[i] = list.addr[p[i - 1]] /\ walk.result[i] = list.addr[p[i - 1]]
          BY <3>1, <3>2, <3>4, <5>1
        <5> QED
          BY <5>2
      <4> QED
        BY <4>1, <4>2
    <3>6. walk.result = r
      <4>1. Len(walk.result) = Len(r) /\ Len(walk.result) = n + 1
        BY <1>1, <3>1, <3>4
      <4> QED
        BY <3>1, <3>4, <3>5, <4>1, SeqEqual
    <3> QED
      BY <2>2, <3>6 DEF r, t
  <2>7. ScopeOfList
    BY <2>1, <2>5, <2>6 DEF ScopeOfList
  <2> QED
    BY <1>6, <2>7, EndKeeps
<1> QED
  BY <1>5, <1>6

\* accountAddr and userList of one more entry: an entry that is refused is on
\* no consistent list, one that is not makes the walked part one longer.
LEMMA EntryKeeps ==
    ASSUME UnderWay, walk.at = "walking", walk.offset # list.count,
           walk.current # 0, walk.current \notin walk.seen,
           ReadEntry(walk.current), UNCHANGED list
    PROVE  UnderWay'
<1> DEFINE n == walk.offset
           id == walk.current
           address == list.addr[id]
<1>1. PICK p \in [1..n -> Ids] : Walked(p)
  BY DEF UnderWay
<1>2. /\ list \in Registry /\ walk \in Walks
      /\ n \in Nat /\ n < list.count /\ list.count \in Nat /\ list.count <= MaxAccounts
      /\ id \in Ids
  <2>1. list.count \in Nat /\ n \in Nat /\ id \in {0} \cup Ids
    BY ScopeAssumption DEF UnderWay, Walks, Registry
  <2>2. n <= list.count /\ list \in Registry /\ walk \in Walks /\ list.count <= MaxAccounts
    BY <1>1 DEF UnderWay, Walked
  <2> QED
    BY <2>1, <2>2
<1>3. ASSUME NEW path \in SeqOf(Ids, MaxAccounts), Linked(path)
      PROVE  /\ path[n + 1] = id /\ n + 1 \in 1..list.count
             /\ \A i \in 1..n : path[i] = p[i] /\ i \in 1..list.count /\ i # n + 1
             /\ list.prev[id] = IF n = 0 THEN 0 ELSE p[n]
             /\ address \in Accounts
             /\ \A i \in 1..n : list.addr[p[i]] # address
  <2>1. path[n + 1] = id
    BY <1>1, <1>2, <1>3, NextEntry
  <2>2. n + 1 \in 1..list.count /\ \A i \in 1..n : i \in 1..list.count /\ i # n + 1
    BY <1>2
  <2>3. \A i \in 1..n : path[i] = p[i]
    BY <1>1, <1>3 DEF Walked
  <2>4. /\ \A i \in 1..list.count :
              /\ list.prev[path[i]] = IF i = 1 THEN 0 ELSE path[i - 1]
              /\ list.addr[path[i]] \in Accounts
        /\ \A i, j \in 1..list.count : list.addr[path[i]] = list.addr[path[j]] => i = j
    BY <1>3, LinkedEntries
  <2>5. list.prev[id] = IF n = 0 THEN 0 ELSE p[n]
    <3>1. list.prev[id] = IF n + 1 = 1 THEN 0 ELSE path[(n + 1) - 1]
      BY <2>1, <2>2, <2>4
    <3>2. n # 0 => n \in 1..n /\ (n + 1) - 1 = n /\ n + 1 # 1
      BY <1>2
    <3>3. n = 0 => n + 1 = 1
      BY <1>2
    <3> QED
      BY <2>3, <3>1, <3>2, <3>3
  <2> QED
    BY <2>1, <2>2, <2>3, <2>4, <2>5
<1>4. walk.previous = IF n = 0 THEN 0 ELSE p[n]
  BY <1>1 DEF Walked
<1>5. Range(walk.result) = {Owner} \cup {list.addr[p[i]] : i \in 1..n}
  <2>1. DOMAIN walk.result = 1..(n + 1)
    BY <1>1, <1>2, LenProperties DEF Walks, Walked
  <2>2. walk.result[1] = Owner /\ \A i \in 1..n : walk.result[i + 1] = list.addr[p[i]]
    BY <1>1 DEF Walked
  <2>3. ASSUME NEW x \in Range(walk.result)
        PROVE  x \in {Owner} \cup {list.addr[p[i]] : i \in 1..n}
    <3>1. PICK k \in 1..(n + 1) : x = walk.result[k]
      BY <2>1 DEF Range
    <3>2. k = 1 \/ (k - 1 \in 1..n /\ (k - 1) + 1 = k)
      BY <1>2
    <3>3. CASE k - 1 \in 1..n /\ (k - 1) + 1 = k
      <4>1. walk.result[k] = list.addr[p[k - 1]]
        BY <2>2, <3>3
      <4> QED
        BY <3>1, <3>3, <4>1
    <3> QED
      BY <2>2, <3>1, <3>2, <3>3
  <2>4. ASSUME NEW i \in 1..n PROVE list.addr[p[i]] \in Range(walk.result)
    <3>1. i + 1 \in 1..(n + 1)
      BY <1>2
    <3> QED
      BY <2>1, <2>2, <3>1 DEF Range
  <2>5. Owner \in Range(walk.result)
    <3>1. 1 \in 1..(n + 1)
      BY <1>2
    <3> QED
      BY <2>1, <2>2, <3>1 DEF Range
  <2> QED
    BY <2>3, <2>4, <2>5
<1> DEFINE refuse == list.prev[id] # walk.previous \/ address = Zero
                     \/ address \in Range(walk.result)
<1>6. CASE refuse
  <2>1. ASSUME NEW path \in SeqOf(Ids, MaxAccounts), Linked(path) PROVE FALSE
    <3>1. /\ list.prev[id] = IF n = 0 THEN 0 ELSE p[n]
          /\ address \in Accounts
          /\ \A i \in 1..n : list.addr[p[i]] # address
      BY <1>3, <2>1
    <3>2. address # Owner /\ address # Zero
      BY <3>1, ScopeAssumption
    <3> QED
      BY <1>4, <1>5, <1>6, <3>1, <3>2
  <2>2. NoLinkedPath
    BY <2>1 DEF NoLinkedPath
  <2>3. End("refused")
    BY <1>6 DEF ReadEntry
  <2> QED
    BY <2>2, <2>3, EndKeeps
<1>7. CASE ~refuse
  <2>1. walk' = [walk EXCEPT !.offset = @ + 1, !.seen = @ \cup {id},
                             !.result = Append(@, address),
                             !.previous = id, !.current = list.next[id]]
    BY <1>7 DEF ReadEntry
  <2>2. /\ address \in Accounts /\ \A i \in 1..n : list.addr[p[i]] # address
        /\ list.prev[id] = IF n = 0 THEN 0 ELSE p[n]
    <3>1. address \in Accounts \cup {Owner, Zero}
      BY <1>2 DEF Registry
    <3> QED
      BY <1>4, <1>5, <1>7, <3>1
  <2>3. /\ walk'.offset = n + 1 /\ walk'.seen = walk.seen \cup {id}
        /\ walk'.result = Append(walk.result, address)
        /\ walk'.previous = id /\ walk'.current = list.next[id] /\ walk'.at = "walking"
    BY <1>2, <2>1 DEF Walks
  <2>4. walk' \in Walks
    <3>1. list.next[id] \in {0} \cup Ids
      BY <1>2 DEF Registry
    <3>2. Append(walk.result, address) \in Seq(Accounts \cup {Owner})
      BY <1>2, <2>2, AppendProperties DEF Walks
    <3>3. walk' = [at |-> "walking", offset |-> n + 1, current |-> list.next[id],
                   previous |-> id, seen |-> walk.seen \cup {id},
                   result |-> Append(walk.result, address)]
      BY <1>2, <2>1 DEF Walks
    <3>4. walk.seen \cup {id} \in SUBSET Ids /\ n + 1 \in Nat
      BY <1>2 DEF Walks
    <3> QED
      BY <1>2, <3>1, <3>2, <3>3, <3>4 DEF Walks
  <2>5. PICK q \in [1..(n + 1) -> Ids] :
            q = [i \in 1..(n + 1) |-> IF i = n + 1 THEN id ELSE p[i]]
    <3>1. [i \in 1..(n + 1) |-> IF i = n + 1 THEN id ELSE p[i]] \in [1..(n + 1) -> Ids]
      BY <1>2
    <3> QED
      BY <3>1
  <2>6. /\ q[n + 1] = id
        /\ \A i \in 1..n : q[i] = p[i] /\ i \in 1..(n + 1) /\ i < n + 1
        /\ n + 1 \in 1..(n + 1)
        /\ \A i \in 1..(n + 1) : i = n + 1 \/ i \in 1..n
    BY <1>2, <2>5
  <2>7. Walked(q)'
    <3>1. walk'.offset <= list'.count
      BY <1>2, <2>3
    <3>2. walk'.seen = {q[i] : i \in 1..walk'.offset}
      <4>1. walk.seen = {p[i] : i \in 1..n}
        BY <1>1 DEF Walked
      <4>2. {q[i] : i \in 1..(n + 1)} = {p[i] : i \in 1..n} \cup {id}
        BY <2>6
      <4> QED
        BY <2>3, <4>1, <4>2
    <3>3. /\ Len(walk'.result) = walk'.offset + 1
          /\ walk'.result[1] = Owner
          /\ \A i \in 1..(n + 1) : walk'.result[i + 1] = list.addr[q[i]]
      <4>1. /\ walk.result \in Seq(Accounts \cup {Owner})
            /\ Len(walk.result) = n + 1 /\ walk.result[1] = Owner
            /\ \A i \in 1..n : walk.result[i + 1] = list.addr[p[i]]
        BY <1>1, <1>2 DEF Walks, Walked
      <4>2. address \in Accounts \cup {Owner}
        BY <2>2
      <4>3. /\ Len(walk'.result) = (n + 1) + 1
            /\ \A k \in 1..(n + 1) : walk'.result[k] = walk.result[k]
            /\ walk'.result[(n + 1) + 1] = address
        BY <2>3, <4>1, <4>2, AppendProperties
      <4>4. 1 \in 1..(n + 1) /\ \A i \in 1..n : i + 1 \in 1..(n + 1)
        BY <1>2
      <4> QED
        BY <2>3, <2>6, <4>1, <4>3, <4>4
    <3>4. \A i \in 1..(n + 1) :
              /\ list.addr[q[i]] \in Accounts
              /\ list.prev[q[i]] = IF i = 1 THEN 0 ELSE q[i - 1]
              /\ i < n + 1 => list.next[q[i]] = q[i + 1]
      <4>1. ASSUME NEW i \in 1..n
            PROVE  /\ list.addr[q[i]] \in Accounts
                   /\ list.prev[q[i]] = IF i = 1 THEN 0 ELSE q[i - 1]
                   /\ list.next[q[i]] = q[i + 1]
        <5>1. /\ list.addr[p[i]] \in Accounts
              /\ list.prev[p[i]] = IF i = 1 THEN 0 ELSE p[i - 1]
              /\ i < n => list.next[p[i]] = p[i + 1]
          BY <1>1 DEF Walked
        <5>2. /\ i # 1 => i - 1 \in 1..n
              /\ i < n => i + 1 \in 1..n
              /\ i = n \/ i < n
              /\ n # 0
          BY <1>2
        <5>3. list.next[p[n]] = id
          BY <1>1, <5>2 DEF Walked
        <5> QED
          BY <2>6, <5>1, <5>2, <5>3
      <4>2. list.prev[q[n + 1]] = IF n + 1 = 1 THEN 0 ELSE q[(n + 1) - 1]
        <5>1. n # 0 => n \in 1..n /\ (n + 1) - 1 = n /\ n + 1 # 1
          BY <1>2
        <5>2. n = 0 => n + 1 = 1
          BY <1>2
        <5> QED
          BY <2>2, <2>6, <5>1, <5>2
      <4>3. ~(n + 1 < n + 1)
        BY <1>2
      <4> QED
        BY <2>2, <2>6, <4>1, <4>2, <4>3
    <3>5. \A i, j \in 1..(n + 1) : list.addr[q[i]] = list.addr[q[j]] => i = j
      <4>1. \A i, j \in 1..n : list.addr[p[i]] = list.addr[p[j]] => i = j
        BY <1>1 DEF Walked
      <4> QED
        BY <2>2, <2>6, <4>1
    <3>6. /\ n + 1 # 0 /\ q[1] = list.first
          /\ walk'.previous = q[n + 1] /\ walk'.current = list.next[q[n + 1]]
      <4>1. n # 0 => p[1] = list.first /\ 1 \in 1..n
        BY <1>1, <1>2 DEF Walked
      <4>2. n = 0 => id = list.first /\ n + 1 = 1
        BY <1>1, <1>2 DEF Walked
      <4>3. n + 1 # 0
        BY <1>2
      <4> QED
        BY <2>3, <2>6, <4>1, <4>2, <4>3
    <3>7. \A path \in SeqOf(Ids, MaxAccounts) :
              Linked(path)' => \A i \in 1..(n + 1) : path[i] = q[i]
      <4>1. \A path : Linked(path)' <=> Linked(path)
        BY DEF Linked
      <4> QED
        BY <1>3, <2>6, <4>1
    <3> DEFINE m == n + 1
    <3>8. list' = list /\ walk'.offset = m
      BY <2>3
    <3> HIDE DEF m
    <3>9. \A i \in 1..m :
              /\ walk'.result[i + 1] = list.addr[q[i]]
              /\ list.addr[q[i]] \in Accounts
              /\ list.prev[q[i]] = IF i = 1 THEN 0 ELSE q[i - 1]
              /\ i < m => list.next[q[i]] = q[i + 1]
      BY <3>3, <3>4 DEF m
    <3>10. \A i, j \in 1..m : list.addr[q[i]] = list.addr[q[j]] => i = j
      BY <3>5 DEF m
    <3>11. /\ m # 0 /\ q[1] = list.first
           /\ walk'.previous = q[m] /\ walk'.current = list.next[q[m]]
      BY <3>6 DEF m
    <3>12. \A path \in SeqOf(Ids, MaxAccounts) :
               Linked(path)' => \A i \in 1..m : path[i] = q[i]
      BY <3>7 DEF m
    <3> QED
      BY <3>1, <3>2, <3>3, <3>8, <3>9, <3>10, <3>11, <3>12 DEF Walked
  <2>8. q \in [1..walk'.offset -> Ids]
    BY <2>3, <2>5
  <2>9. list.count > 0 /\ list.first # 0 /\ list.last # 0 /\ list.count <= MaxAccounts
    BY DEF UnderWay
  <2> QED
    BY <1>2, <2>3, <2>4, <2>7, <2>8, <2>9 DEF UnderWay
<1> QED
  BY <1>6, <1>7

\* Every step of the walk keeps its invariant: an iteration, its end, or a read
\* that the client gives up on.
LEMMA WalkKeeps == ASSUME WalkInv, Walk PROVE WalkInv'
<1>1. UNCHANGED list
  BY DEF Walk
<1>2. CASE ReadHeader
  <2>1. walk = [at |-> "header"] /\ list \in Registry
    BY <1>2 DEF ReadHeader, WalkInv, NoWalk, UnderWay, Walks
  <2> QED
    BY <1>1, <1>2, <2>1, HeaderKeeps
<1>3. CASE Step
  <2>1. walk.at = "walking" /\ UnderWay
    BY <1>3 DEF Step, WalkInv, NoWalk
  <2>2. CASE walk.offset = list.count
    BY <1>1, <1>3, <2>1, <2>2, LastKeeps DEF Step, WalkInv
  <2>3. CASE walk.offset # list.count /\ (walk.current = 0 \/ walk.current \in walk.seen)
    <3>1. End("refused")
      BY <1>3, <2>3 DEF Step
    <3>2. PICK p \in [1..walk.offset -> Ids] : Walked(p)
      BY <2>1 DEF UnderWay
    <3>3. /\ list \in Registry /\ walk \in Walks /\ 0 \notin Ids
          /\ walk.offset < list.count /\ walk.offset \in Nat /\ list.count \in Nat
      <4>1. list \in Registry /\ walk \in Walks /\ walk.offset <= list.count
        BY <2>1, <3>2 DEF UnderWay, Walked
      <4>2. walk.offset \in Nat /\ list.count \in Nat /\ 0 \notin Ids
        BY <4>1, ScopeAssumption DEF Walks, Registry
      <4> QED
        BY <2>3, <4>1, <4>2
    <3>4. ASSUME NEW path \in SeqOf(Ids, MaxAccounts), Linked(path) PROVE FALSE
      <4>1. path[walk.offset + 1] = walk.current
        BY <3>2, <3>3, <3>4, NextEntry
      <4>2. walk.offset + 1 \in 1..list.count
        BY <3>3
      <4>3. /\ walk.current \in Ids
            /\ \A i, j \in 1..list.count :
                  list.addr[path[i]] = list.addr[path[j]] => i = j
        BY <3>4, <4>1, <4>2, LinkedEntries
      <4>4. walk.current \in walk.seen
        BY <2>3, <3>3, <4>3
      <4>5. PICK i \in 1..walk.offset : path[i] = walk.current
        BY <3>2, <3>4, <4>4 DEF Walked
      <4>6. i \in 1..list.count /\ i # walk.offset + 1
        BY <3>3
      <4> QED
        BY <4>1, <4>2, <4>3, <4>5, <4>6
    <3>5. NoLinkedPath
      BY <3>4 DEF NoLinkedPath
    <3> QED
      BY <1>1, <2>1, <3>1, <3>5, EndKeeps DEF WalkInv
  <2>4. CASE /\ walk.offset # list.count
             /\ walk.current # 0 /\ walk.current \notin walk.seen
    BY <1>1, <1>3, <2>1, <2>4, EntryKeeps DEF Step, WalkInv
  <2> QED
    BY <2>2, <2>3, <2>4
<1>4. CASE ReadFailed
  <2>1. CASE walk = [at |-> "header"]
    BY <1>4, <2>1 DEF ReadFailed, End, WalkInv
  <2>2. CASE UnderWay
    BY <1>1, <1>4, <2>2, EndKeeps DEF ReadFailed, WalkInv
  <2> QED
    BY <1>4, <2>1, <2>2 DEF ReadFailed, WalkInv, NoWalk
<1> QED
  BY <1>2, <1>3, <1>4 DEF Walk

\* A step that leaves the walk alone keeps its invariant.
LEMMA SameWalk == ASSUME WalkInv, UNCHANGED scopeVars PROVE WalkInv'
<1>1. \A path : Linked(path)' <=> Linked(path)
  BY DEF scopeVars, Linked
<1>2. (NoLinkedPath' <=> NoLinkedPath) /\ (ScopeOfList' <=> ScopeOfList)
  BY <1>1 DEF scopeVars, NoLinkedPath, ScopeOfList
<1>3. \A p : Walked(p)' <=> Walked(p)
  BY <1>1 DEF scopeVars, Walked
<1>4. UnderWay' <=> UnderWay
  BY <1>2, <1>3 DEF scopeVars, UnderWay
<1> QED
  BY <1>2, <1>4 DEF scopeVars, WalkInv

-----------------------------------------------------------------------------
(* The theorems.                                                           *)

ScopeInv == ClientInv /\ WalkInv

\* The initial states satisfy the invariant.
LEMMA InitInv == ScopeInit => ScopeInv
  BY InitClient DEF ScopeInit, ScopeInv, WalkInv

\* Every step keeps the invariant.
LEMMA NextInv == ScopeInv /\ [ScopeNext]_<<vars, scopeVars>> => ScopeInv'
<1> SUFFICES ASSUME ScopeInv, [ScopeNext]_<<vars, scopeVars>> PROVE ScopeInv'
  OBVIOUS
<1>1. CASE Next /\ UNCHANGED scopeVars
  BY <1>1, NextClient, SameWalk DEF ScopeInv
<1>2. CASE Walk
  BY <1>2, WalkKeeps, SameClient DEF ScopeInv, Walk
<1>3. CASE UNCHANGED <<vars, scopeVars>>
  BY <1>3, SameClient, SameWalk DEF ScopeInv
<1> QED
  BY <1>1, <1>2, <1>3 DEF ScopeNext

\* Every reachable state satisfies the invariant.
THEOREM Invariant == ScopeSpec => []ScopeInv
  BY InitInv, NextInv, PTL DEF ScopeSpec

\* LatestSettledBlock's pin is served by every backend of a pool that spreads no
\* wider than the lag, whatever the size of the pool and the height of the chain.
THEOREM PinServed == ScopeSpec => []PinServedEverywhere
<1>1. ScopeInv => PinServedEverywhere
  BY DEF ScopeInv, ClientInv
<1> QED
  BY <1>1, Invariant, PTL

\* batchCallRaw judges a batch of any size by its last round trip.
THEOREM LastRoundTripJudges == ScopeSpec => []JudgedByLastRoundTrip
<1>1. ScopeInv => JudgedByLastRoundTrip
  BY DEF ScopeInv, ClientInv
<1> QED
  BY <1>1, Invariant, PTL

\* ParallelCalls and DeployedAt report what the contracts answer and nothing
\* else, ParallelCallsAllowFailure that or the error of a node that refused the
\* very call, for any number of calls in chunks of any size.
THEOREM AnswersExact == ScopeSpec => []AnswersAreContracts
<1>1. ScopeInv => AnswersAreContracts
  BY RecordedAnswers DEF ScopeInv
<1> QED
  BY <1>1, Invariant, PTL

\* resolveAccountScope accepts exactly the consistent lists of any registry, of
\* any number of entries, and returns the owner followed by its accounts.
THEOREM ScopeIsExact == ScopeSpec => []ScopeExact
<1>1. ScopeInv => ScopeExact
  BY WalkExact DEF ScopeInv
<1> QED
  BY <1>1, Invariant, PTL
=============================================================================
