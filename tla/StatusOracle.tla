---------------------------- MODULE StatusOracle ----------------------------
(***************************************************************************)
(* What sentioAPIClient.chainStatuses promises its callers, with no cache, *)
(* no shared read and no lock: each call is answered at one instant        *)
(* with a processed block the processor really had, no older than every    *)
(* answer given before the call was made and, when the call forces a       *)
(* refresh, no older than the call itself.  A caller learns of an ended    *)
(* context only when the context is its own.                               *)
(***************************************************************************)
EXTENDS Integers

CONSTANTS
    Callers,    \* the goroutines that may ask for a processor's status
    MaxBlock    \* how far the processor advances

VARIABLES
    block,      \* the processor's processed block, now
    newest,     \* the newest block any caller has been answered with
    open,       \* open[c]: c's call has not returned
    live,       \* live[c]: the context of c's call has not ended
    low,        \* low[c]: the oldest block that may answer c's call
    result      \* result[c]: what c's last call returned

vars == <<block, newest, open, live, low, result>>

Pending == [kind |-> "none", block |-> 0]

Init ==
    /\ block = 0
    /\ newest = 0
    /\ open = [c \in Callers |-> FALSE]
    /\ live = [c \in Callers |-> TRUE]
    /\ low = [c \in Callers |-> 0]
    /\ result = [c \in Callers |-> Pending]

Advance ==
    /\ block < MaxBlock
    /\ block' = block + 1
    /\ UNCHANGED <<newest, open, live, low, result>>

\* A call: an unforced one may be answered as of any block since the newest
\* answer, a forced one only as of now or later.
Ask(c, force) ==
    /\ ~open[c]
    /\ open' = [open EXCEPT ![c] = TRUE]
    /\ live' = [live EXCEPT ![c] = TRUE]
    /\ low' = [low EXCEPT ![c] = IF force THEN block ELSE newest]
    /\ result' = [result EXCEPT ![c] = Pending]
    /\ UNCHANGED <<block, newest>>

EndContext(c) ==
    /\ open[c] /\ live[c]
    /\ live' = [live EXCEPT ![c] = FALSE]
    /\ UNCHANGED <<block, newest, open, low, result>>

Reply(c, kind, at) ==
    /\ open[c]
    /\ open' = [open EXCEPT ![c] = FALSE]
    /\ result' = [result EXCEPT ![c] = [kind |-> kind, block |-> at]]
    /\ UNCHANGED <<block, live, low>>

Answer(c) ==
    \E at \in low[c]..block :
        /\ Reply(c, "ok", at)
        /\ newest' = IF at > newest THEN at ELSE newest

Fail(c) == Reply(c, "failed", 0) /\ UNCHANGED newest

Leave(c) == ~live[c] /\ Reply(c, "ended", 0) /\ UNCHANGED newest

Next ==
    \/ Advance
    \/ \E c \in Callers :
        \/ \E force \in BOOLEAN : Ask(c, force)
        \/ EndContext(c)
        \/ Answer(c)
        \/ Fail(c)
        \/ Leave(c)

\* The safety half of the promise.
Promise == Init /\ [][Next]_vars

\* Every call returns.
Returns == \A c \in Callers : WF_vars(Answer(c) \/ Fail(c) \/ Leave(c))

Spec == Promise /\ Returns
=============================================================================
