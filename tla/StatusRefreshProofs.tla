------------------------- MODULE StatusRefreshProofs -------------------------
(***************************************************************************)
(* StatusRefresh proved for any set of callers and any number of blocks:   *)
(* its type invariant, that an answer is recent enough, that the entry     *)
(* never goes back, and that the callers see the oracle of StatusOracle.   *)
(***************************************************************************)
EXTENDS StatusRefresh, TLAPS

-----------------------------------------------------------------------------
(* The inductive invariant.                                                *)

\* The read in flight has an answer, not yet stored.
Answered == read.state = "answered" /\ read.got.kind = "ok"

\* Nothing the client holds is ahead of the processor, and the entry is ahead
\* of every answer given and behind the one about to be stored.
Order ==
    /\ entry.block <= block
    /\ newest <= entry.block
    /\ Answered => entry.block <= read.got.block /\ read.got.block <= block

\* The outcomes a finished read can have.
Finished(outcome) ==
    \/ outcome.kind = "ok"
    \/ outcome.kind = "failed" /\ outcome.block = 0

Outcome ==
    /\ read.state = "answered" => Finished(read.got)
    /\ \A c \in Callers : pc[c] = "woken" => Finished(seen[c])

\* A call asks for nothing that does not exist yet: a forced one for what the
\* processor has, an unforced one for what the entry has.  Between calls no
\* read is too early.
Asked(c) ==
    IF pc[c] = "idle"
    THEN tooEarly[c] = "nil"
    ELSE low[c] <= block /\ (~force[c] => low[c] <= entry.block)

\* The read in flight began after c's call, so its answer will do for c: c has
\* outlived an earlier read, or waits on one it did not find there.
BegunSince(c) ==
    \/ pc[c] = "woken"
    \/ pc[c] # "idle" /\ tooEarly[c] = "past"
    \/ pc[c] = "wait" /\ tooEarly[c] # "awaited"

Served(c) ==
    /\ BegunSince(c) /\ Answered => low[c] <= read.got.block
    /\ seen[c].kind = "ok" => seen[c].block <= entry.block
    /\ pc[c] = "woken" /\ tooEarly[c] # "awaited" /\ seen[c].kind = "ok"
            => low[c] <= seen[c].block
    /\ result[c].kind = "ok" => low[c] <= result[c].block

Inv ==
    /\ TypeOK
    /\ Order
    /\ Outcome
    /\ \A c \in Callers : Asked(c) /\ Served(c)

-----------------------------------------------------------------------------
(* Type correctness.                                                       *)

\* A call that returns keeps the types, whatever outcome of the right kind it
\* returns with.
LEMMA ReturnType ==
    ASSUME TypeOK, NEW c \in Callers, NEW outcome \in Outcomes, Return(c, outcome)
    PROVE  TypeOK'
  BY StatusAssumption DEF TypeOK, Return, Outcomes, ReadOutcomes, Pending

\* Every step keeps the types.
LEMMA NextType == TypeOK /\ [Next]_vars => TypeOK'
<1> SUFFICES ASSUME TypeOK, [Next]_vars PROVE TypeOK'
  OBVIOUS
<1> USE StatusAssumption
<1>1. CASE Advance
  BY <1>1 DEF TypeOK, Advance, callVars
<1>2. CASE Expire
  BY <1>2 DEF TypeOK, Expire, callVars
<1>3. CASE ReadAnswers
  <2>1. /\ [kind |-> "ok", block |-> block] \in ReadOutcomes
        /\ FailedOutcome \in ReadOutcomes
    BY DEF TypeOK, ReadOutcomes, FailedOutcome
  <2> QED
    BY <1>3, <2>1 DEF TypeOK, ReadAnswers, callVars
<1>4. CASE StoreRefresh
  <2>1. /\ pc' \in [Callers -> {"idle", "check", "lock", "wait", "woken"}]
        /\ seen' \in [Callers -> ReadOutcomes]
    BY <1>4 DEF TypeOK, StoreRefresh, Publish
  <2>2. /\ entry' \in [state : {"none", "fresh", "expired"}, block : 0..MaxBlock]
        /\ read' \in [state : {"none", "reading", "answered"}, got : ReadOutcomes]
    BY <1>4 DEF TypeOK, StoreRefresh, ReadOutcomes, Pending
  <2> QED
    BY <1>4, <2>1, <2>2 DEF TypeOK, StoreRefresh, Publish
<1>5. ASSUME NEW c \in Callers, Call(c) PROVE TypeOK'
  BY <1>5 DEF TypeOK, Call, Outcomes, Pending
<1>6. ASSUME NEW c \in Callers, EndContext(c) PROVE TypeOK'
  BY <1>6 DEF TypeOK, EndContext
<1>7. ASSUME NEW c \in Callers, Caller(c) PROVE TypeOK'
  <2>1. CASE CheckContext(c)
    BY <2>1 DEF TypeOK, CheckContext
  <2>2. CASE LeaveAtCheck(c)
    BY <2>2, ReturnType DEF LeaveAtCheck, Ended, Outcomes
  <2>3. CASE AnsweredFromEntry(c)
    <3>1. [kind |-> "ok", block |-> entry.block] \in Outcomes
      BY DEF TypeOK, Outcomes
    <3> QED
      BY <2>3, <3>1, ReturnType DEF AnsweredFromEntry
  <2>4. CASE StartRefresh(c)
    BY <2>4 DEF TypeOK, StartRefresh, ReadOutcomes, Pending
  <2>5. CASE JoinRefresh(c)
    BY <2>5 DEF TypeOK, JoinRefresh, TooEarlyAfter
  <2>6. CASE LookAgain(c)
    BY <2>6 DEF TypeOK, LookAgain, ReadOutcomes, Pending
  <2>7. CASE AnsweredByRefresh(c)
    <3>1. seen[c] \in Outcomes
      BY DEF TypeOK, Outcomes, ReadOutcomes
    <3> QED
      BY <2>7, <3>1, ReturnType DEF AnsweredByRefresh
  <2>8. CASE LeaveWait(c)
    BY <2>8, ReturnType DEF LeaveWait, Ended, Outcomes
  <2> QED
    BY <1>7, <2>1, <2>2, <2>3, <2>4, <2>5, <2>6, <2>7, <2>8 DEF Caller
<1>8. CASE UNCHANGED vars
  BY <1>8 DEF TypeOK, vars, callVars
<1> QED
  BY <1>1, <1>2, <1>3, <1>4, <1>5, <1>6, <1>7, <1>8 DEF Next

\* The initial state has the types.
LEMMA InitType == Init => TypeOK
  BY StatusAssumption DEF Init, TypeOK, Pending, Outcomes, ReadOutcomes

\* chainStatuses and its refreshes keep their types: in particular a read,
\* which has no context, never ends with a caller's.
THEOREM TypeCorrect == Spec => []TypeOK
  BY InitType, NextType, PTL DEF Spec
-----------------------------------------------------------------------------
(* The invariant is inductive.                                             *)

\* The initial state satisfies the invariant.
LEMMA InitInv == Init => Inv
<1> SUFFICES ASSUME Init PROVE Inv
  OBVIOUS
<1>1. TypeOK
  BY InitType
<1>2. Order /\ Outcome
  BY StatusAssumption DEF Init, Order, Outcome, Answered, Pending
<1>3. ASSUME NEW c \in Callers PROVE Asked(c) /\ Served(c)
  BY DEF Init, Asked, Served, Answered, Pending
<1> QED
  BY <1>1, <1>2, <1>3 DEF Inv

\* A call that returns keeps the invariant when an answer it returns with is
\* recent enough for it and no newer than the entry.
LEMMA ReturnInv ==
    ASSUME Inv, TypeOK', NEW c \in Callers, NEW outcome \in Outcomes,
           outcome.kind = "ok" => low[c] <= outcome.block /\ outcome.block <= entry.block,
           Return(c, outcome)
    PROVE  Inv'
<1>1. Order'
  BY StatusAssumption DEF Inv, TypeOK, Order, Answered, Return, Outcomes
<1>2. Outcome'
  BY DEF Inv, TypeOK, Outcome, Finished, Return
<1>3. ASSUME NEW d \in Callers PROVE (Asked(d) /\ Served(d))'
  <2>1. Asked(d) /\ Served(d)
    BY DEF Inv
  <2>2. Asked(d)'
    BY <2>1 DEF Inv, TypeOK, Asked, Return
  <2>3. CASE d = c
    BY <2>2, <2>3 DEF Inv, TypeOK, Served, BegunSince, Return, Pending, Outcomes
  <2>4. CASE d # c
    BY <2>1, <2>2, <2>4 DEF Inv, TypeOK, Served, BegunSince, Answered, Return
  <2> QED
    BY <2>2, <2>3, <2>4
<1> QED
  BY <1>1, <1>2, <1>3 DEF Inv

\* Every step keeps the invariant.
LEMMA NextInv == Inv /\ [Next]_vars => Inv'
<1> SUFFICES ASSUME Inv, [Next]_vars PROVE Inv'
  OBVIOUS
<1> USE StatusAssumption
<1>0. TypeOK /\ TypeOK'
  BY NextType DEF Inv
<1>1. CASE Advance
  <2>1. Order' /\ Outcome'
    BY <1>0, <1>1
    DEF Inv, TypeOK, ReadOutcomes, Order, Outcome, Finished, Answered, Advance, callVars
  <2>2. ASSUME NEW c \in Callers PROVE (Asked(c) /\ Served(c))'
    <3>1. Asked(c) /\ Served(c)
      BY DEF Inv
    <3> QED
      BY <1>0, <1>1, <3>1
      DEF TypeOK, Asked, Served, BegunSince, Answered, Advance, callVars
  <2> QED
    BY <1>0, <2>1, <2>2 DEF Inv
<1>2. CASE Expire
  <2>1. entry'.block = entry.block
    BY <1>0, <1>2 DEF TypeOK, Expire
  <2>2. Order' /\ Outcome'
    BY <1>2, <2>1 DEF Inv, Order, Outcome, Finished, Answered, Expire, callVars
  <2>3. ASSUME NEW c \in Callers PROVE (Asked(c) /\ Served(c))'
    BY <1>2, <2>1, <2>3 DEF Inv, Asked, Served, BegunSince, Answered, Expire, callVars
  <2> QED
    BY <1>0, <2>2, <2>3 DEF Inv
<1>3. CASE ReadAnswers
  <2>1. PICK outcome \in {[kind |-> "ok", block |-> block], FailedOutcome} :
            read' = [state |-> "answered", got |-> outcome]
    BY <1>3 DEF ReadAnswers
  <2>2. Answered' => read'.got.block = block
    BY <2>1 DEF Answered, FailedOutcome
  <2>3. UNCHANGED <<block, entry, callVars>>
    BY <1>3 DEF ReadAnswers
  <2>4. Order'
    BY <1>0, <2>2, <2>3 DEF Inv, TypeOK, Order, callVars
  <2>5. Outcome'
    BY <2>1, <2>3 DEF Inv, Outcome, Finished, FailedOutcome, callVars
  <2>6. ASSUME NEW c \in Callers PROVE (Asked(c) /\ Served(c))'
    <3>1. Asked(c) /\ Served(c)
      BY DEF Inv
    <3>2. Asked(c)'
      BY <2>3, <3>1 DEF Asked, callVars
    <3>3. Served(c)'
      BY <1>0, <2>2, <2>3, <3>1 DEF TypeOK, Asked, Served, BegunSince, callVars
    <3> QED
      BY <3>2, <3>3
  <2> QED
    BY <1>0, <2>4, <2>5, <2>6 DEF Inv
<1>4. CASE StoreRefresh
  <2>1. /\ read.state = "answered"
        /\ read'.state = "none"
        /\ UNCHANGED <<block, live, force, tooEarly, low, newest, result>>
    BY <1>4 DEF StoreRefresh, Publish
  <2>2. /\ entry.block <= entry'.block
        /\ read.got.kind = "ok" => entry'.block = read.got.block
        /\ entry'.block <= block
    BY <1>0, <1>4, <2>1 DEF Inv, TypeOK, ReadOutcomes, Order, Answered, StoreRefresh
  <2>3. Order'
    BY <1>0, <2>1, <2>2 DEF Inv, TypeOK, Order, Answered
  <2>4. ASSUME NEW c \in Callers
        PROVE  \/ pc[c] = "wait" /\ pc'[c] = "woken" /\ seen'[c] = read.got
               \/ pc[c] # "wait" /\ pc'[c] = pc[c] /\ seen'[c] = seen[c]
    BY <1>4 DEF StoreRefresh, Publish
  <2>5. Outcome'
    BY <2>1, <2>4 DEF Inv, Outcome, Finished
  <2>6. ASSUME NEW c \in Callers PROVE (Asked(c) /\ Served(c))'
    <3>1. Asked(c) /\ Served(c)
      BY DEF Inv
    <3>2. Asked(c)'
      BY <1>0, <2>1, <2>2, <2>4, <3>1 DEF TypeOK, Asked
    <3>3. Served(c)'
      BY <1>0, <2>1, <2>2, <2>4, <3>1
      DEF TypeOK, ReadOutcomes, Served, BegunSince, Answered
    <3> QED
      BY <3>2, <3>3
  <2> QED
    BY <1>0, <2>3, <2>5, <2>6 DEF Inv
<1>5. ASSUME NEW c \in Callers, Call(c) PROVE Inv'
  <2>1. Order' /\ Outcome'
    BY <1>0, <1>5 DEF Inv, TypeOK, Order, Outcome, Finished, Answered, Call
  <2>2. ASSUME NEW d \in Callers PROVE (Asked(d) /\ Served(d))'
    <3>1. Asked(d) /\ Served(d) /\ Order
      BY DEF Inv
    <3>2. CASE d = c
      <4>1. tooEarly[c] # "past"
        BY <1>5, <3>1, <3>2 DEF Asked, Call
      <4> QED
        BY <1>0, <1>5, <3>1, <3>2, <4>1
        DEF TypeOK, Order, Asked, Served, BegunSince, Answered, Call, Pending
    <3>3. CASE d # c
      BY <1>0, <1>5, <3>1, <3>3 DEF TypeOK, Asked, Served, BegunSince, Answered, Call
    <3> QED
      BY <3>2, <3>3
  <2> QED
    BY <1>0, <2>1, <2>2 DEF Inv
<1>6. ASSUME NEW c \in Callers, EndContext(c) PROVE Inv'
  BY <1>0, <1>6
  DEF Inv, Order, Outcome, Finished, Asked, Served, BegunSince, Answered, EndContext
<1>7. ASSUME NEW c \in Callers, Caller(c) PROVE Inv'
  <2>0. Asked(c) /\ Served(c)
    BY DEF Inv
  <2>1. CASE CheckContext(c)
    <3>1. Order' /\ Outcome'
      BY <1>0, <2>1 DEF Inv, TypeOK, Order, Outcome, Finished, Answered, CheckContext
    <3>2. ASSUME NEW d \in Callers PROVE (Asked(d) /\ Served(d))'
      BY <1>0, <2>1, <3>2
      DEF Inv, TypeOK, Asked, Served, BegunSince, Answered, CheckContext
    <3> QED
      BY <1>0, <3>1, <3>2 DEF Inv
  <2>2. CASE LeaveAtCheck(c)
    BY <1>0, <2>2, ReturnInv DEF LeaveAtCheck, Ended, Outcomes
  <2>3. CASE AnsweredFromEntry(c)
    <3>1. [kind |-> "ok", block |-> entry.block] \in Outcomes
      BY <1>0 DEF TypeOK, Outcomes
    <3>2. low[c] <= entry.block
      BY <2>0, <2>3 DEF AnsweredFromEntry, UsesEntry, Asked
    <3> QED
      BY <1>0, <2>3, <3>1, <3>2, ReturnInv DEF TypeOK, AnsweredFromEntry
  <2>4. CASE StartRefresh(c)
    <3>1. Order' /\ Outcome' /\ ~Answered'
      BY <1>0, <2>4 DEF Inv, TypeOK, Order, Outcome, Finished, Answered, StartRefresh
    <3>2. ASSUME NEW d \in Callers PROVE (Asked(d) /\ Served(d))'
      BY <1>0, <2>4, <3>1, <3>2 DEF Inv, TypeOK, Asked, Served, StartRefresh
    <3> QED
      BY <1>0, <3>1, <3>2 DEF Inv
  <2>5. CASE JoinRefresh(c)
    <3>1. Order' /\ Outcome'
      BY <1>0, <2>5 DEF Inv, TypeOK, Order, Outcome, Finished, Answered, JoinRefresh
    <3>2. ASSUME NEW d \in Callers PROVE (Asked(d) /\ Served(d))'
      <4>1. Asked(d) /\ Served(d) /\ Order
        BY DEF Inv
      <4>2. CASE d = c
        BY <1>0, <2>5, <4>1, <4>2
        DEF TypeOK, ReadOutcomes, Order, Asked, Served, BegunSince, Answered,
            JoinRefresh, TooEarlyAfter
      <4>3. CASE d # c
        BY <1>0, <2>5, <4>1, <4>3
        DEF TypeOK, Asked, Served, BegunSince, Answered, JoinRefresh
      <4> QED
        BY <4>2, <4>3
    <3> QED
      BY <1>0, <3>1, <3>2 DEF Inv
  <2>6. CASE LookAgain(c)
    <3>1. Order' /\ Outcome'
      BY <1>0, <2>6 DEF Inv, TypeOK, Order, Outcome, Finished, Answered, LookAgain
    <3>2. ASSUME NEW d \in Callers PROVE (Asked(d) /\ Served(d))'
      BY <1>0, <2>6, <3>2
      DEF Inv, TypeOK, Asked, Served, BegunSince, Answered, LookAgain, Pending
    <3> QED
      BY <1>0, <3>1, <3>2 DEF Inv
  <2>7. CASE AnsweredByRefresh(c)
    <3>1. seen[c] \in Outcomes
      BY <1>0 DEF TypeOK, Outcomes, ReadOutcomes
    <3>2. seen[c].kind = "ok" => low[c] <= seen[c].block /\ seen[c].block <= entry.block
      BY <2>0, <2>7 DEF AnsweredByRefresh, Served
    <3> QED
      BY <1>0, <2>7, <3>1, <3>2, ReturnInv DEF AnsweredByRefresh
  <2>8. CASE LeaveWait(c)
    BY <1>0, <2>8, ReturnInv DEF LeaveWait, Ended, Outcomes
  <2> QED
    BY <1>7, <2>1, <2>2, <2>3, <2>4, <2>5, <2>6, <2>7, <2>8 DEF Caller
<1>8. CASE UNCHANGED vars
  BY <1>0, <1>8
  DEF Inv, Order, Outcome, Finished, Asked, Served, BegunSince, Answered, vars, callVars
<1> QED
  BY <1>1, <1>2, <1>3, <1>4, <1>5, <1>6, <1>7, <1>8 DEF Next
\* The invariant holds in every state.
LEMMA Invariant == Spec => []Inv
  BY InitInv, NextInv, PTL DEF Spec

-----------------------------------------------------------------------------
(* What follows from it.                                                   *)

\* A forced call of chainStatuses is answered as of its own time or later,
\* an unforced one no older than any answer given before it.
THEOREM RecentEnough == Spec => []AnswerRecentEnough
<1>1. Inv => AnswerRecentEnough
  BY StatusAssumption
  DEF Inv, TypeOK, Outcomes, Served, AnswerRecentEnough
<1> QED
  BY <1>1, Invariant, PTL

\* startStatusRefresh never stores an older status over a newer one.
THEOREM NeverGoesBack == Spec => EntryNeverGoesBack
<1>1. Inv /\ [Next]_vars => [entry'.block >= entry.block]_vars
  <2> SUFFICES ASSUME Inv, Next PROVE entry'.block >= entry.block
    OBVIOUS
  <2> USE StatusAssumption
  <2>0. entry.block \in Int
    BY DEF Inv, TypeOK
  <2>1. CASE Expire
    BY <2>0, <2>1 DEF Inv, TypeOK, Expire
  <2>2. CASE StoreRefresh
    BY <2>0, <2>2 DEF Inv, TypeOK, ReadOutcomes, Order, Answered, StoreRefresh
  <2>3. CASE ~Expire /\ ~StoreRefresh
    <3>1. entry' = entry
      BY <2>3
      DEF Next, Advance, ReadAnswers, Call, EndContext, Caller, CheckContext,
          LeaveAtCheck, AnsweredFromEntry, StartRefresh, JoinRefresh, LookAgain,
          AnsweredByRefresh, LeaveWait, Return
    <3> QED
      BY <2>0, <3>1
  <2> QED
    BY <2>1, <2>2, <2>3
<1> QED
  BY <1>1, Invariant, PTL DEF Spec, EntryNeverGoesBack

-----------------------------------------------------------------------------
(* The oracle.                                                             *)

IsOpen == [c \in Callers |-> pc[c] # "idle"]

\* The calls that are open after caller c's pc became p.
LEMMA OpenAfter ==
    ASSUME TypeOK, NEW c \in Callers, NEW p, pc' = [pc EXCEPT ![c] = p]
    PROVE  IsOpen' = [IsOpen EXCEPT ![c] = (p # "idle")]
  BY DEF IsOpen, TypeOK

\* A return is a reply of the oracle: an answer between what the call asked
\* for and now, a failure, or a call whose own context has ended.
LEMMA ReturnIsReply ==
    ASSUME Inv, NEW c \in Callers, NEW outcome \in Outcomes, pc[c] # "idle",
           Return(c, outcome),
           \/ /\ outcome.kind = "ok"
              /\ low[c] <= outcome.block /\ outcome.block <= block
           \/ outcome.kind = "failed" /\ outcome.block = 0
           \/ outcome.kind = "ended" /\ outcome.block = 0 /\ ~live[c]
    PROVE  Oracle!Next
<1> USE StatusAssumption
<1>1. outcome = [kind |-> outcome.kind, block |-> outcome.block]
  BY DEF Outcomes
<1>2. Oracle!Reply(c, outcome.kind, outcome.block)
  <2>1. IsOpen[c] /\ IsOpen' = [IsOpen EXCEPT ![c] = FALSE]
    BY OpenAfter DEF Inv, Return, IsOpen
  <2> QED
    BY <1>1, <2>1 DEF Oracle!Reply, Return, IsOpen
<1>3. CASE outcome.kind = "ok" /\ low[c] <= outcome.block /\ outcome.block <= block
  <2>1. outcome.block \in low[c]..block
    BY <1>3 DEF Inv, TypeOK, Outcomes
  <2>2. newest' = IF outcome.block > newest THEN outcome.block ELSE newest
    BY <1>3 DEF Return
  <2>3. Oracle!Answer(c)
    BY <1>2, <1>3, <2>1, <2>2 DEF Oracle!Answer
  <2> QED
    BY <2>3 DEF Oracle!Next
<1>4. CASE outcome.kind = "failed" /\ outcome.block = 0
  BY <1>2, <1>4 DEF Oracle!Next, Oracle!Fail, Return
<1>5. CASE outcome.kind = "ended" /\ outcome.block = 0 /\ ~live[c]
  BY <1>2, <1>5 DEF Oracle!Next, Oracle!Leave, Return
<1> QED
  BY <1>3, <1>4, <1>5

\* A step that leaves what the oracle shows alone is a stutter of it.
LEMMA Stutter ==
    ASSUME TypeOK, NEW c \in Callers, pc[c] # "idle",
           NEW p, p # "idle", pc' = [pc EXCEPT ![c] = p],
           UNCHANGED <<block, newest, live, low, result>>
    PROVE  UNCHANGED Oracle!vars
<1>1. IsOpen' = IsOpen
  BY OpenAfter DEF IsOpen
<1> QED
  BY <1>1 DEF Oracle!vars, IsOpen

\* Every step of the cache is a step of the oracle or changes nothing a
\* caller can see.
LEMMA StepRefines == Inv /\ [Next]_vars => [Oracle!Next]_Oracle!vars
<1> SUFFICES ASSUME Inv, [Next]_vars PROVE [Oracle!Next]_Oracle!vars
  OBVIOUS
<1> USE StatusAssumption
<1>0. TypeOK
  BY DEF Inv
<1>1. CASE Advance
  <2>1. IsOpen' = IsOpen
    BY <1>1 DEF Advance, IsOpen, callVars
  <2> QED
    BY <1>1, <2>1 DEF Advance, callVars, Oracle!Next, Oracle!Advance, IsOpen
<1>2. CASE Expire \/ ReadAnswers \/ UNCHANGED vars
  BY <1>2 DEF Expire, ReadAnswers, vars, callVars, Oracle!vars
<1>3. CASE StoreRefresh
  <2>1. IsOpen' = IsOpen
    BY <1>0, <1>3 DEF TypeOK, StoreRefresh, Publish, IsOpen
  <2> QED
    BY <1>3, <2>1 DEF StoreRefresh, Publish, Oracle!vars, IsOpen
<1>4. ASSUME NEW c \in Callers, Call(c) PROVE Oracle!Next
  <2>1. ~IsOpen[c] /\ IsOpen' = [IsOpen EXCEPT ![c] = TRUE]
    <3>1. IsOpen' = [IsOpen EXCEPT ![c] = ("check" # "idle")]
      BY <1>0, <1>4, OpenAfter DEF Call
    <3> QED
      BY <1>4, <3>1 DEF Call, IsOpen
  <2>2. \E f \in BOOLEAN : Oracle!Ask(c, f)
    BY <1>4, <2>1 DEF Call, Oracle!Ask, IsOpen, Pending, Oracle!Pending
  <2> QED
    BY <2>2 DEF Oracle!Next
<1>5. ASSUME NEW c \in Callers, EndContext(c) PROVE Oracle!Next
  <2>1. Oracle!EndContext(c)
    BY <1>5 DEF EndContext, Oracle!EndContext
  <2> QED
    BY <2>1 DEF Oracle!Next
<1>6. ASSUME NEW c \in Callers, Caller(c) PROVE [Oracle!Next]_Oracle!vars
  <2>0. Asked(c) /\ Served(c) /\ Order /\ Outcome
    BY DEF Inv
  <2>1. CASE CheckContext(c) \/ StartRefresh(c) \/ JoinRefresh(c) \/ LookAgain(c)
    <3>1. /\ pc[c] # "idle"
          /\ UNCHANGED <<block, newest, live, low, result>>
          /\ \E p \in {"lock", "wait", "check"} : pc' = [pc EXCEPT ![c] = p]
      BY <2>1 DEF CheckContext, StartRefresh, JoinRefresh, LookAgain
    <3> QED
      BY <1>0, <3>1, Stutter
  <2>2. CASE LeaveAtCheck(c) \/ LeaveWait(c)
    <3>1. pc[c] # "idle" /\ ~live[c] /\ Return(c, Ended)
      BY <2>2 DEF LeaveAtCheck, LeaveWait
    <3>2. Ended \in Outcomes /\ Ended.kind = "ended" /\ Ended.block = 0
      BY DEF Ended, Outcomes
    <3> QED
      BY <3>1, <3>2, ReturnIsReply
  <2>3. CASE AnsweredFromEntry(c)
    <3>1. [kind |-> "ok", block |-> entry.block] \in Outcomes
      BY <1>0 DEF TypeOK, Outcomes
    <3>2. low[c] <= entry.block /\ entry.block <= block
      BY <2>0, <2>3 DEF AnsweredFromEntry, UsesEntry, Asked, Order
    <3> QED
      BY <2>3, <3>1, <3>2, ReturnIsReply DEF AnsweredFromEntry
  <2>4. CASE AnsweredByRefresh(c)
    <3>1. seen[c] \in Outcomes /\ seen[c].block \in Int
      BY <1>0 DEF TypeOK, Outcomes, ReadOutcomes
    <3>2. seen[c].kind = "ok" => low[c] <= seen[c].block /\ seen[c].block <= block
      BY <1>0, <2>0, <2>4, <3>1 DEF AnsweredByRefresh, Served, Order, TypeOK
    <3>3. Finished(seen[c])
      BY <2>0, <2>4 DEF AnsweredByRefresh, Outcome
    <3> QED
      BY <2>4, <3>1, <3>2, <3>3, ReturnIsReply DEF AnsweredByRefresh, Finished
  <2> QED
    BY <1>6, <2>1, <2>2, <2>3, <2>4 DEF Caller
<1> QED
  BY <1>1, <1>2, <1>3, <1>4, <1>5, <1>6 DEF Next

\* The initial state of the cache is the oracle's.
LEMMA InitRefines == Init => Oracle!Init
  BY DEF Init, Oracle!Init, Pending, Oracle!Pending

\* chainStatuses, with its cache, its single shared read and callers that
\* come and go, implements the oracle: every call is answered as of one
\* instant that suits it, and only its own context ends it.
THEOREM Refinement == Spec => KeepsPromise
  BY InitRefines, StepRefines, Invariant, PTL DEF Spec, KeepsPromise, Oracle!Promise
=============================================================================
