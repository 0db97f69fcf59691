---------------------------- MODULE AccountScope ----------------------------
(***************************************************************************)
(* resolveAccountScope of accounts.go, over the RPC client: the walk of    *)
(* the doubly linked list in which the Instadapp registry keeps the smart  *)
(* accounts of an owner.  The registry is external and may hold anything   *)
(* (list); every read of the walk is one strict call at the pin, which     *)
(* RpcClient shows to return what the contract answers or an error.        *)
(***************************************************************************)
EXTENDS RpcClient, Sequences, SequencesExt

CONSTANTS Ids,          \* account ids of the registry
          Accounts,     \* addresses of smart accounts
          MaxAccounts   \* the safety bound on the count (256 in the code)

Owner == "owner"
Zero  == "zero"

ASSUME ScopeAssumption ==
    /\ Ids \subseteq Nat \ {0} /\ MaxAccounts \in Nat
    /\ Owner \notin Accounts /\ Zero \notin Accounts

VARIABLES list,   \* the registry's answers about the owner at the pin
          walk    \* the state of the walk

scopeVars == <<list, walk>>

Registry ==
    [first : {0} \cup Ids, last : {0} \cup Ids, count : 0..(MaxAccounts + 1),
     prev : [Ids -> {0} \cup Ids], next : [Ids -> {0} \cup Ids],
     addr : [Ids -> Accounts \cup {Owner, Zero}]]

NoWalk == [at |-> "off"]

\* Either the client answers calls, or it is idle between the reads of a walk.
ScopeInit ==
    \/ Init /\ list = {} /\ walk = NoWalk
    \/ /\ heads = [b \in Backends |-> MaxHead] /\ target = MaxHead - Lag
       /\ truth = [i \in Calls |-> "value"] /\ mode = "strict" /\ phase = "idle"
       /\ start = 1 /\ attempt = 0 /\ reply = NoErrors /\ elems = NoErrors
       /\ results = NoErrors /\ cause = None /\ cancelled = FALSE
       /\ list \in Registry
       /\ walk = [at |-> "header"]

End(at) == walk' = [walk EXCEPT !.at = at]

\* userLink: the endpoints and the count, checked before anything is walked.
ReadHeader ==
    /\ walk.at = "header"
    /\ IF list.count > MaxAccounts \/ (list.count = 0 /\ (list.first # 0 \/ list.last # 0))
           \/ (list.count > 0 /\ (list.first = 0 \/ list.last = 0))
       THEN End("refused")
       ELSE walk' = [at |-> IF list.count = 0 THEN "accepted" ELSE "walking",
                     offset |-> 0, current |-> list.first, previous |-> 0,
                     seen |-> {}, result |-> <<Owner>>]

\* A mutant: the previous edge of an entry is not compared.
EdgeUnchecked(id) ==
    LET address == list.addr[id]
    IN  IF address = Zero \/ address \in Range(walk.result)
        THEN End("refused")
        ELSE walk' = [walk EXCEPT !.offset = @ + 1, !.seen = @ \cup {id},
                                  !.result = Append(@, address),
                                  !.previous = id, !.current = list.next[id]]

\* accountAddr and userList of the current entry: its back edge must lead to the
\* entry the walk came from, its address must be new.
ReadEntry(id) ==
    LET address == list.addr[id]
    IN  IF list.prev[id] # walk.previous \/ address = Zero \/ address \in Range(walk.result)
        THEN End("refused")
        ELSE walk' = [walk EXCEPT !.offset = @ + 1, !.seen = @ \cup {id},
                                  !.result = Append(@, address),
                                  !.previous = id, !.current = list.next[id]]

\* One iteration of the walk, or its end after count entries.
Step ==
    /\ walk.at = "walking"
    /\ IF walk.offset = list.count
       THEN End(IF walk.previous # list.last \/ walk.current # 0 THEN "refused" ELSE "accepted")
       ELSE IF walk.current = 0 \/ walk.current \in walk.seen
       THEN End("refused")
       ELSE ReadEntry(walk.current)

\* A read that the client gives up on fails the scope, never shortens it.
ReadFailed == walk.at \in {"header", "walking"} /\ End("failed")

Walk == (ReadHeader \/ Step \/ ReadFailed) /\ UNCHANGED <<vars, list>>

ScopeNext == (Next /\ UNCHANGED scopeVars) \/ Walk

ScopeSpec == ScopeInit /\ [][ScopeNext]_<<vars, scopeVars>> /\ Fairness
-----------------------------------------------------------------------------
\* path is the owner's list as the registry should hold it: count distinct
\* entries from first to last, every edge agreeing with its inverse, all of
\* different accounts.
Linked(path) ==
    LET n == Len(path)
    IN  /\ n = list.count
        /\ IF n = 0 THEN list.first = 0 /\ list.last = 0
           ELSE path[1] = list.first /\ path[n] = list.last
        /\ \A i \in 1..n :
              /\ list.prev[path[i]] = IF i = 1 THEN 0 ELSE path[i - 1]
              /\ list.next[path[i]] = IF i = n THEN 0 ELSE path[i + 1]
              /\ list.addr[path[i]] \in Accounts
        /\ \A i, j \in 1..n : list.addr[path[i]] = list.addr[path[j]] => i = j

\* The accounts a position is attributed to are exactly the owner's: a list is
\* accepted only if it is whole and consistent in both directions, and then the
\* scope is the owner followed by its accounts in order; a consistent list within
\* the bound is never refused (resolveAccountScope).
ScopeExact ==
    /\ walk.at = "accepted" =>
          \E path \in SeqOf(Ids, MaxAccounts) :
             Linked(path) /\ walk.result = <<Owner>> \o [i \in 1..Len(path) |-> list.addr[path[i]]]
    /\ walk.at = "refused" => ~ \E path \in SeqOf(Ids, MaxAccounts) : Linked(path)
=============================================================================
