----------------------------- MODULE AdapterPlan -----------------------------
(***************************************************************************)
(* The vocabulary the adapters' Positions methods are written in.  A       *)
(* method is a plan: the sequence of its steps, in the order the code      *)
(* takes them.  A step is about legs, the components a scan reports: what  *)
(* an account holds (asset), owes (debt) or may claim (reward) on one      *)
(* surface of a protocol.  A leg is open until the code leaves it, and a   *)
(* step about no open leg does nothing.  AdapterReads runs the plans.      *)
(***************************************************************************)
EXTENDS Naturals, Sequences

Asset(s)  == <<s, "asset">>
Debt(s)   == <<s, "debt">>
Reward(s) == <<s, "reward">>

\* What is read whether or not the account has anything.
Registry(s) == <<s, "registry">>

Market(s) == {Asset(s), Debt(s)}
Staked(s) == {Asset(s), Reward(s)}

\* A step, with what an error in it does.  Unless a caller says otherwise the
\* method returns no group and the error.
Step(op, on) ==
    [op       |-> op,
     on       |-> on,
     surface  |-> "",        \* window: the deployment asked about
     closes   |-> on,        \* the legs a window or a joined error leaves
     onRevert |-> "error",   \* calls: what a contract that reverts does,
     strictIf |-> {},        \*        unless one of these legs is held,
     onFault  |-> "error",   \* calls, index: what a round trip that fails does,
     over     |-> 0,         \* and how many steps an answer, or a jump, spares
     whole    |-> TRUE,      \* an error drops every group,
     lost     |-> {},        \* or else the groups of these legs only,
     stop     |-> TRUE]      \* and ends the method, or is joined to the others

Legs(plan) == UNION {plan[i].on : i \in DOMAIN plan}

-----------------------------------------------------------------------------
\* Steps.  Call and ParallelCalls: every call of the round trip must answer.
Call(L)  == <<Step("call", L)>>

\* ParallelCallsAllowFailure: the contract of these legs whose row failed is
\* passed over.
Probe(L) == <<[Step("call", L) EXCEPT !.onRevert = "drop"]>>

\* The same, unless the account has some of H: then the failed row is an error.
ProbeUnless(L, H) == <<[Step("call", L) EXCEPT !.onRevert = "drop", !.strictIf = H]>>

\* A method an older contract lacks: its row failed, and the older one is called.
Fallback(L) ==
    <<[Step("call", L) EXCEPT !.onRevert = "ignore", !.over = 1]>> \o Call(L)

\* A read whose failure of any kind passes the leg over, or changes nothing.
PassOver(L) == <<[Step("call", L) EXCEPT !.onRevert = "drop", !.onFault = "drop"]>>
Try(L)      == <<[Step("call", L) EXCEPT !.onRevert = "ignore", !.onFault = "ignore"]>>

\* A call that is made again, strictly, when the first attempt failed in any way.
Either(L) ==
    <<[Step("call", L) EXCEPT !.onRevert = "ignore", !.onFault = "ignore", !.over = 1]>> \o Call(L)

\* A tolerant read of something the rest does without.
Peek(L) == <<[Step("call", L) EXCEPT !.onRevert = "ignore"]>>

\* The pinned index lists the account's legs.
Index(L) == <<Step("index", L)>>

\* What was read must be well formed, within bounds and consistent.
Check(L) == <<Step("check", L)>>

\* Amounts of zero, and tokens of another owner, are passed over.
Drop(L)  == <<Step("drop", L)>>

\* A registry the account is in may no longer list these legs: they are passed over.
Listing(L) == <<Step("listing", L)>>

\* What the account may have here and the method does not ask for, by design.
NotAsked(L) == <<Step("unasked", L)>>

\* The group of these legs is appended.
Report(L) == <<Step("report", L)>>

\* A strict read of balances of which the zero ones are passed over.
Held(L) == Call(L) \o Drop(L)

-----------------------------------------------------------------------------
\* Control.  if window.ActiveAt(block) { plan }
Window(s, L) == <<[Step("window", L) EXCEPT !.surface = s]>>
If(s, plan)  == Window(s, Legs(plan)) \o plan

\* if anything of L was found { plan }
IfAny(L, plan) == <<[Step("need", L) EXCEPT !.over = Len(plan)]>> \o plan

\* An index that fails is done without: otherwise is run in the place of listed.
IndexElse(L, otherwise, listed) ==
    <<[Step("index", L) EXCEPT !.onFault = "ignore", !.over = Len(otherwise) + 1]>>
      \o otherwise \o <<[Step("jump", {}) EXCEPT !.over = Len(listed)]>> \o listed

\* groups, err := plan; what it returned is appended and the error returned.
Kept(plan) ==
    [i \in DOMAIN plan |->
       IF plan[i].whole THEN [plan[i] EXCEPT !.whole = FALSE, !.lost = Legs(plan)]
       ELSE plan[i]]

\* A loop that returns the groups appended so far with the error.
Partial(plan) ==
    [i \in DOMAIN plan |-> [plan[i] EXCEPT !.whole = FALSE, !.lost = {}]]

\* if err != nil { return nil, err }, whatever groups came with it.
Whole(plan) == [i \in DOMAIN plan |-> [plan[i] EXCEPT !.whole = TRUE]]

\* The error is joined to the others and the method goes on after the plan.
Joined(plan) ==
    [i \in DOMAIN plan |->
       IF plan[i].stop /\ plan[i].op \in {"call", "index", "check"}
       THEN [Kept(plan)[i] EXCEPT !.stop = FALSE, !.closes = Legs(plan)]
       ELSE plan[i]]

\* if err != nil { return groups, err }, for the errors joined before.
Raise(L) == <<Step("raise", L)>>
=============================================================================
