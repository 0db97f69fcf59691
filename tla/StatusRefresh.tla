---------------------------- MODULE StatusRefresh ----------------------------
(***************************************************************************)
(* sentioAPIClient.chainStatuses and startStatusRefresh (sentio.go): the   *)
(* status cache of one StatusURL@version, the single read in flight that   *)
(* refreshes it, and the callers that share that read.                     *)
(*                                                                         *)
(* Entries of different keys never meet, so one key is modelled.  Of a     *)
(* status only the processed block is kept: validateSentioChainStatuses,   *)
(* applied to what is returned, changes nothing here.                      *)
(*                                                                         *)
(* There is no object per statusRefresh.  While a read is the one in       *)
(* c.refreshes it is variable read; once it has been stored and taken out  *)
(* of the map only the callers already waiting on it can see it, and each  *)
(* of them carries its outcome in seen.  A caller still between the store  *)
(* and the close of done is a caller that has not been scheduled since.    *)
(***************************************************************************)
EXTENDS Integers

CONSTANTS
    Callers,    \* goroutines that call chainStatuses, again and again
    MaxBlock    \* how far the processor advances

ASSUME StatusAssumption == MaxBlock \in Nat

VARIABLES
    block,      \* the processor's processed block, now
    entry,      \* c.statuses[key]
    read,       \* c.refreshes[key] and its goroutine
    pc,         \* pc[c]: where caller c is in chainStatuses
    live,       \* live[c]: the context of c's call has not ended
    force,      \* force[c]: forceRefresh
    tooEarly,   \* tooEarly[c]: nil, the refresh c waits on, or a past one
    seen,       \* seen[c]: the outcome of the refresh c waited on
    low,        \* history: the oldest block that may answer c's call
    newest,     \* history: the newest block any caller was answered with
    result      \* result[c]: what c's last call returned

callVars == <<pc, live, force, tooEarly, seen, low, newest, result>>
vars == <<block, entry, read, callVars>>

Pending == [kind |-> "none", block |-> 0]
ReadOutcomes == [kind : {"none", "ok", "failed"}, block : 0..MaxBlock]
Outcomes == [kind : {"none", "ok", "failed", "ended"}, block : 0..MaxBlock]

Init ==
    /\ block = 0
    /\ entry = [state |-> "none", block |-> 0]
    /\ read = [state |-> "none", got |-> Pending]
    /\ pc = [c \in Callers |-> "idle"]
    /\ live = [c \in Callers |-> TRUE]
    /\ force = [c \in Callers |-> FALSE]
    /\ tooEarly = [c \in Callers |-> "nil"]
    /\ seen = [c \in Callers |-> Pending]
    /\ low = [c \in Callers |-> 0]
    /\ newest = 0
    /\ result = [c \in Callers |-> Pending]

\* Types.  A read has no context to end with: its outcome is an answer or a
\* failure (startStatusRefresh, context.WithoutCancel).
TypeOK ==
    /\ block \in 0..MaxBlock
    /\ entry \in [state : {"none", "fresh", "expired"}, block : 0..MaxBlock]
    /\ read \in [state : {"none", "reading", "answered"}, got : ReadOutcomes]
    /\ pc \in [Callers -> {"idle", "check", "lock", "wait", "woken"}]
    /\ live \in [Callers -> BOOLEAN]
    /\ force \in [Callers -> BOOLEAN]
    /\ tooEarly \in [Callers -> {"nil", "awaited", "past"}]
    /\ seen \in [Callers -> ReadOutcomes]
    /\ low \in [Callers -> 0..MaxBlock]
    /\ newest \in 0..MaxBlock
    /\ result \in [Callers -> Outcomes]

-----------------------------------------------------------------------------
(* The world around the client.                                            *)

\* The processor indexes another block.
Advance ==
    /\ block < MaxBlock
    /\ block' = block + 1
    /\ UNCHANGED <<entry, read, callVars>>

\* sentioStatusCacheTTL passes since the entry was stored.
Expire ==
    /\ entry.state = "fresh"
    /\ entry' = [entry EXCEPT !.state = "expired"]
    /\ UNCHANGED <<block, read, callVars>>

\* The context of a call ends: a cancelled scan, a passed deadline.
EndContext(c) ==
    /\ pc[c] # "idle" /\ live[c]
    /\ live' = [live EXCEPT ![c] = FALSE]
    /\ UNCHANGED <<block, entry, read,
                   pc, force, tooEarly, seen, low, newest, result>>

-----------------------------------------------------------------------------
(* chainStatuses, as one caller runs it.                                   *)

Call(c) ==
    /\ pc[c] = "idle"
    /\ \E f \in BOOLEAN :
        /\ force' = [force EXCEPT ![c] = f]
        /\ low' = [low EXCEPT ![c] = IF f THEN block ELSE newest]
    /\ pc' = [pc EXCEPT ![c] = "check"]
    /\ live' = [live EXCEPT ![c] = TRUE]
    /\ result' = [result EXCEPT ![c] = Pending]
    /\ UNCHANGED <<block, entry, read, tooEarly, seen, newest>>

Return(c, outcome) ==
    /\ pc' = [pc EXCEPT ![c] = "idle"]
    /\ result' = [result EXCEPT ![c] = outcome]
    /\ newest' = IF outcome.kind = "ok" /\ outcome.block > newest
                 THEN outcome.block ELSE newest
    /\ force' = [force EXCEPT ![c] = FALSE]
    /\ tooEarly' = [tooEarly EXCEPT ![c] = "nil"]
    /\ seen' = [seen EXCEPT ![c] = Pending]
    /\ UNCHANGED <<block, entry, read, live, low>>

Ended == [kind |-> "ended", block |-> 0]

\* The head of the loop: a caller already gone starts no read.
CheckContext(c) ==
    /\ pc[c] = "check"
    /\ live[c]
    /\ pc' = [pc EXCEPT ![c] = "lock"]
    /\ UNCHANGED <<block, entry, read,
                   live, force, tooEarly, seen, low, newest, result>>

LeaveAtCheck(c) ==
    /\ pc[c] = "check"
    /\ ~live[c]
    /\ Return(c, Ended)

UsesEntry(c) == ~force[c] /\ entry.state = "fresh"

NeverTooEarly(c) == "nil"                                          \* mutant
AlwaysTooEarly(c) == IF force[c] THEN "awaited" ELSE "nil"         \* mutant

\* What tooEarly becomes when c finds a read in flight: the first one it
\* finds was there before c asked for a newer status.
TooEarlyAfter(c) ==
    IF force[c] /\ tooEarly[c] = "nil" THEN "awaited" ELSE tooEarly[c]

\* The locked section of the loop, in its three ways out.
AnsweredFromEntry(c) ==
    /\ pc[c] = "lock"
    /\ UsesEntry(c)
    /\ Return(c, [kind |-> "ok", block |-> entry.block])

\* startStatusRefresh: registers a read and starts its goroutine, on a
\* context that keeps nothing of c's cancellation.
StartRefresh(c) ==
    /\ pc[c] = "lock"
    /\ ~UsesEntry(c)
    /\ read.state = "none"
    /\ read' = [state |-> "reading", got |-> Pending]
    /\ pc' = [pc EXCEPT ![c] = "wait"]
    /\ UNCHANGED <<block, entry,
                   live, force, tooEarly, seen, low, newest, result>>

JoinRefresh(c) ==
    /\ pc[c] = "lock"
    /\ ~UsesEntry(c)
    /\ read.state # "none"
    /\ tooEarly' = [tooEarly EXCEPT ![c] = TooEarlyAfter(c)]
    /\ pc' = [pc EXCEPT ![c] = "wait"]
    /\ UNCHANGED <<block, entry, read,
                   live, force, seen, low, newest, result>>

\* The select on refresh.done and ctx.Done, and what follows it.  The read c
\* waited on had begun before c asked: look again.
LookAgain(c) ==
    /\ pc[c] = "woken"
    /\ tooEarly[c] = "awaited"
    /\ pc' = [pc EXCEPT ![c] = "check"]
    /\ tooEarly' = [tooEarly EXCEPT ![c] = "past"]
    /\ seen' = [seen EXCEPT ![c] = Pending]
    /\ UNCHANGED <<block, entry, read, live, force, low, newest, result>>

AnsweredByRefresh(c) ==
    /\ pc[c] = "woken"
    /\ tooEarly[c] # "awaited"
    /\ Return(c, seen[c])

LeaveWait(c) ==
    /\ pc[c] \in {"wait", "woken"}
    /\ ~live[c]
    /\ Return(c, Ended)

-----------------------------------------------------------------------------
(* The goroutine of a refresh.                                             *)

\* The outcome of a read that got no usable answer: its attempts failed, its
\* answer named no single runnable processor, or statusTimeout passed.
FailedOutcome == [kind |-> "failed", block |-> 0]

\* The callers waiting on the read in flight see its outcome.
Publish(outcome) ==
    LET waiting == {c \in Callers : pc[c] = "wait"}
    IN  /\ pc' = [c \in Callers |-> IF c \in waiting THEN "woken" ELSE pc[c]]
        /\ seen' = [c \in Callers |-> IF c \in waiting THEN outcome ELSE seen[c]]
        /\ UNCHANGED <<live, force, tooEarly, low, newest, result>>

PublishesFirst ==                                                  \* mutant
    /\ read.state = "reading"
    /\ \E outcome \in {[kind |-> "ok", block |-> block], FailedOutcome} :
        /\ read' = [state |-> "answered", got |-> outcome]
        /\ Publish(outcome)
    /\ UNCHANGED <<block, entry>>

\* readChainStatuses returns.  What it read is the processor's state at some
\* moment while it ran.
ReadAnswers ==
    /\ read.state = "reading"
    /\ \E outcome \in {[kind |-> "ok", block |-> block], FailedOutcome} :
        read' = [state |-> "answered", got |-> outcome]
    /\ UNCHANGED <<block, entry, callVars>>

StoresBlindly ==                                                   \* mutant
    /\ read.state = "answered"
    /\ entry' = [state |-> "fresh", block |-> read.got.block]
    /\ read' = [state |-> "none", got |-> Pending]
    /\ Publish(read.got)
    /\ UNCHANGED block

\* Under statusMu a good answer replaces the entry, a failure leaves it, and
\* either way the read is no longer the one in flight; then done is closed.
StoreRefresh ==
    /\ read.state = "answered"
    /\ entry' = IF read.got.kind = "ok"
                THEN [state |-> "fresh", block |-> read.got.block]
                ELSE entry
    /\ read' = [state |-> "none", got |-> Pending]
    /\ Publish(read.got)
    /\ UNCHANGED block

-----------------------------------------------------------------------------

Caller(c) ==
    \/ CheckContext(c) \/ LeaveAtCheck(c)
    \/ AnsweredFromEntry(c) \/ StartRefresh(c) \/ JoinRefresh(c)
    \/ LookAgain(c) \/ AnsweredByRefresh(c) \/ LeaveWait(c)

Next ==
    \/ Advance
    \/ Expire
    \/ ReadAnswers
    \/ StoreRefresh
    \/ \E c \in Callers : Call(c) \/ EndContext(c) \/ Caller(c)

\* A caller that can go on does, and a read ends: statusTimeout bounds it and
\* nothing its goroutine does blocks.  Nothing makes a caller call, a context
\* end, an entry expire or the processor advance.
Fairness ==
    /\ \A c \in Callers : WF_vars(Caller(c))
    /\ WF_vars(ReadAnswers \/ StoreRefresh)

Spec == Init /\ [][Next]_vars /\ Fairness

-----------------------------------------------------------------------------
(* Correctness.                                                            *)

\* A forced refresh is never answered from before it was asked for, even
\* when a read was already in flight, and an unforced one never goes back
\* behind an answer given before it was asked (chainStatuses, tooEarly).
AnswerRecentEnough ==
    \A c \in Callers : result[c].kind = "ok" => result[c].block >= low[c]

\* Neither a read that answers late nor one that fails puts an older entry
\* in place of a newer one (startStatusRefresh).
EntryNeverGoesBack == [][entry'.block >= entry.block]_vars

\* Every call returns, a forced one too, however many other callers keep
\* starting reads.
EveryCallReturns == \A c \in Callers : pc[c] # "idle" ~> pc[c] = "idle"

\* What the callers see of the cache, the shared read and its lock is an
\* oracle that answers each call at one instant; a caller that started the
\* shared read can leave without its context ending anyone else's call
\* (chainStatuses, startStatusRefresh).
Oracle == INSTANCE StatusOracle WITH open <- [c \in Callers |-> pc[c] # "idle"]
KeepsPromise == Oracle!Promise
=============================================================================
