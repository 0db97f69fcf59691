--------------------------- MODULE WalletHoldings ---------------------------
(***************************************************************************)
(* The wallet of a scan on one chain: what configureWalletBalances makes   *)
(* of the provider's answer, how each account's holdings are read from it  *)
(* (wallet_provider.go, wallet.go), and which of them the response keeps   *)
(* beside the protocols' positions (suppressDuplicateHoldings).  Scans     *)
(* of one engine share the token metadata cache and the host's blocklist.  *)
(*                                                                         *)
(* A block is a record of its chain, number, hash and time, 0 for an       *)
(* unknown time; its hash identifies the state of the chain, so Held is    *)
(* indexed by hashes.  The native coin is a token like the others where    *)
(* the code treats it alike.  A row's metadata is reduced to whether it is *)
(* complete and valid.  ScanEngine models when the wallet is read.         *)
(***************************************************************************)
EXTENDS Integers, Sequences, SequencesExt, FiniteSets

CONSTANTS
    Scans,          \* scans of one engine, run side by side
    Accounts,       \* chain.accounts, the root first
    Chain,          \* the chain they are read on
    Pin,            \* Pin[s]: the settled block of the scan and whether Fixed
    Encounters,     \* which scans there are, what the provider answers each and
                    \* the components its protocols may report
    NoScan,         \* the answer of a scan that is not made
    NoAnswer,       \* the answer is an error, or there is no provider
    ZeroAddress,    \* the zero address
    Tokens,         \* the ERC-20s of the chain
    Native,         \* its native coin
    Wrapped,        \* the ERC-20 whose address prices it
    Held,           \* Held[h][a][t]: what a holds of t in the state of hash h
    Deployed,       \* Deployed[h]: the contracts that exist at h
    Reverting,      \* Reverting[h]: those whose balanceOf reverts at h
    NotTokens,      \* contracts that answer balanceOf with nothing
    Metadata,       \* Metadata[t]: "valid", "invalid" or "reverts" on-chain
    NoHolds,        \* a Source that declares no Holds
    Window,         \* LiveWalletSampleWindow, in seconds
    Second,         \* time.Second, in the unit of a time.Duration
    Width,          \* how many values a time.Duration has (2^64 in the code)
    CacheEntries    \* walletTokenCacheEntries

Root == Head(Accounts)
AccountSet == ToSet(Accounts)
Assets == Tokens \cup {Native}

\* Nobody holds anything of a contract that does not exist yet, or that answers
\* balanceOf with nothing.
ASSUME WalletAssumption ==
    /\ Accounts \in Seq(AccountSet) /\ Accounts # <<>>
    /\ ZeroAddress \notin AccountSet \cup Assets
    /\ Native \notin Tokens /\ Wrapped \in Tokens /\ NotTokens \subseteq Tokens
    /\ Window \in Nat /\ CacheEntries \in Nat
    /\ Second \in Nat \ {0} /\ Width \in Nat /\ Window * Second < Width \div 2
    /\ \A s \in Scans : Pin[s].chain = Chain /\ Pin[s].number > 0 /\ Pin[s].time \in Nat
    /\ \A s \in Scans, a \in AccountSet, t \in Assets :
          /\ Held[Pin[s].hash][a][t] \in Nat
          /\ Held[Pin[s].hash][a][t] > 0 /\ t # Native =>
                t \in Deployed[Pin[s].hash] \ NotTokens

VARIABLES
    answer,     \* answer[s]: what the provider answers scan s
    pc,         \* pc[s]: where the wallet job of scan s is
    found,      \* found[s]: chain.walletProviderAccounts
    errors,     \* errors[s]: chain.walletProviderErrors is not empty
    coverage,   \* coverage[s]: chain.walletCoverage is not empty
    left,       \* left[s]: the accounts not read to their end
    rows,       \* rows[s]: rows of the current account not handled yet
    groups,     \* groups[s]: the holdings read
    failed,     \* failed[s]: the accounts whose read failed
    skipped,    \* skipped[s]: the tokens with a coverage note
    running,    \* running[s]: components whose adapter has not finished
    counted,    \* counted[s]: components in the response
    shown,      \* shown[s]: the holdings in the response
    cache,      \* the tokens of walletTokenCache
    listed      \* the tokens of the host's blocklist

foundVars == <<answer, found, errors, coverage>>
protocolVars == <<running, counted, shown>>
shared == <<cache, listed>>
vars == <<foundVars, pc, left, rows, groups, failed, skipped, protocolVars, shared>>

-----------------------------------------------------------------------------
(* Which provider amounts stand for the scan's.                            *)

Gap(t, u) == IF t < u THEN u - t ELSE t - u

\* n as a time.Duration: a signed integer of Width values, which wraps.
Duration(n) == IF n % Width < Width \div 2 THEN n % Width ELSE (n % Width) - Width

\* LiveWalletSample: the gap in seconds is multiplied as a Duration, so that one
\* too far for it may come out within the window, or negative.
LiveSample(block, pin) ==
    /\ ~pin.fixed /\ block.time # 0 /\ pin.time # 0
    /\ Duration(Gap(block.time, pin.time) * Second) <= Window * Second

\* The labels of walletProviderAmountsUsable that add an error.
Mislabelled(block, pin) ==
    \/ block.number = 0 \/ block.hash = ZeroAddress
    \/ /\ block.number = pin.number
       /\ block.hash # pin.hash \/ block.time \notin {0, pin.time}

\* A mutant: the pin's number is enough.
NumberOnly(block, pin) ==
    block.number = pin.number \/ (~Mislabelled(block, pin) /\ LiveSample(block, pin))

\* walletProviderAmountsUsable.
AmountsUsable(block, pin) ==
    /\ ~Mislabelled(block, pin)
    /\ block.number = pin.number \/ LiveSample(block, pin)

-----------------------------------------------------------------------------
(* What configureWalletBalances keeps of an answer r.                      *)

OnChain(r) == {f \in r.failures : f.chain = Chain}
FailedChain(r) == \E f \in OnChain(r) : f.account = ZeroAddress
FailedAccounts(r) == {f.account : f \in OnChain(r)} \ {ZeroAddress}

\* The members of q at these positions, in order.
Chosen(q, at) ==
    [n \in 1..Cardinality(at) |->
        q[CHOOSE i \in at : Cardinality({j \in at : j <= i}) = n]]

Results(r) == Chosen(r.chains, {i \in DOMAIN r.chains : r.chains[i].block.chain = Chain})

\* The results are looked at only when the chain did not fail as a whole and
\* has exactly one of them.
Entries(r) ==
    IF FailedChain(r) \/ Len(Results(r)) # 1 THEN <<>> ELSE Results(r)[1].accounts

Times(r, a) == Cardinality({i \in DOMAIN Entries(r) : Entries(r)[i].account = a})
Wanted(r) == AccountSet \ FailedAccounts(r)
Repeated(r) == {a \in Wanted(r) : Times(r, a) > 1}
Single(r) == {a \in Wanted(r) : Times(r, a) = 1}
EntryOf(r, a) == CHOOSE e \in ToSet(Entries(r)) : e.account = a

\* An account's own sample block overrides the chain's.
BlockOf(c, e) == IF e.block = {} THEN c.block ELSE CHOOSE b \in e.block : TRUE
SampleOf(r, a) == BlockOf(Results(r)[1], EntryOf(r, a))

Sampled(r) == {a \in Single(r) : SampleOf(r, a).chain = Chain}

\* Amounts an account's entry supplies directly; others only discover.
Direct(s, r, a) ==
    AmountsUsable(SampleOf(r, a), Pin[s]) /\ ~EntryOf(r, a).discoveryOnly

Found(s, r) ==
    [a \in Sampled(r) |-> [rows |-> EntryOf(r, a).rows, direct |-> Direct(s, r, a)]]

\* An account with no result and no failure of its own, reported unless its
\* duplicate results already were.
Unanswered(r) == Wanted(r) \ (Repeated(r) \cup Sampled(r))

ProviderErrors(s, r) ==
    \/ \E f \in OnChain(r) : ~f.unsupported
    \/ /\ ~FailedChain(r)
       /\ \/ Len(Results(r)) > 1
          \/ Unanswered(r) # {} \/ Repeated(r) # {}
          \/ \E e \in ToSet(Entries(r)) : e.account \notin AccountSet
          \/ \E a \in Sampled(r) : Mislabelled(SampleOf(r, a), Pin[s])

\* A mutant: a historical scan does not say that tokens may be missing.
OnlyUnsupported(s, r) == \E f \in OnChain(r) : f.unsupported

CoverageNotes(s, r) ==
    \/ \E f \in OnChain(r) : f.unsupported
    \/ Pin[s].fixed /\ \E a \in Sampled(r) : ~Direct(s, r, a)

-----------------------------------------------------------------------------
(* Which rows of an account's entry are looked at further: well formed, and *)
(* the first of their token.  Amounts are at least 0, or malformed.        *)

Malformed(row) == row.amount < 0

FirstOf(rs, good) == {i \in good : \A j \in good : j < i => rs[j].token # rs[i].token}

Row(row, says, amount) ==
    [token |-> row.token, complete |-> row.complete, says |-> says, amount |-> amount]

\* directProviderWalletGroups: a zero row is dropped before it is judged.
Positive(rs) == {i \in DOMAIN rs : rs[i].amount > 0}
Usable(rs) ==
    FirstOf(rs, {i \in Positive(rs) : rs[i].chain = Chain /\ rs[i].token # ZeroAddress})

DirectFault(rs) ==
    (\E i \in DOMAIN rs : Malformed(rs[i])) \/ Positive(rs) # Usable(rs)

DirectRows(rs) ==
    LET kept == Chosen(rs, Usable(rs))
    IN  [i \in DOMAIN kept |-> Row(kept[i], "amount", kept[i].amount)]

\* discoveredProviderWalletGroups: amounts are not used, native rows neither.
NotNative(rs) == {i \in DOMAIN rs : rs[i].token # Native}
Candidates(rs) ==
    FirstOf(rs, {i \in NotNative(rs) : rs[i].chain = Chain /\ rs[i].token # ZeroAddress})

DiscoveredFault(rs) ==
    (\E i \in DOMAIN rs : Malformed(rs[i])) \/ NotNative(rs) # Candidates(rs)

CandidateRows(rs) ==
    LET kept == Chosen(rs, Candidates(rs))
    IN  [i \in DOMAIN kept |-> Row(kept[i], "discovered", 0)]

-----------------------------------------------------------------------------
(* What the outside promises.                                              *)

\* An entry whose amounts may stand for the scan's holds what the account had in
\* the block it was taken at, and all of it (WalletBalanceProvider).
Honest(s, c, e) ==
    LET b == BlockOf(c, e)
    IN  /\ e.account \in AccountSet /\ c.block.chain = Chain /\ b.chain = Chain
        /\ AmountsUsable(b, Pin[s]) /\ ~e.discoveryOnly
        => /\ b.time \in Nat
           /\ \A r \in ToSet(e.rows) : r.chain = Chain /\ r.token # ZeroAddress /\ r.amount > 0
                  => r.amount = Held[b.hash][e.account][r.token]
           /\ \A t \in Assets : Held[b.hash][e.account][t] > 0
                  => \E r \in ToSet(e.rows) : r.chain = Chain /\ r.token = t /\ r.amount > 0

\* An answer is lists of lists; a row of the chain names one of its assets.
ASSUME ProviderAssumption ==
    \A x \in Encounters, s \in Scans : x[s].answer \notin {NoScan, NoAnswer} =>
        /\ x[s].answer.chains \in Seq(ToSet(x[s].answer.chains))
        /\ \A c \in ToSet(x[s].answer.chains) :
              /\ c.accounts \in Seq(ToSet(c.accounts))
              /\ \A e \in ToSet(c.accounts) :
                    /\ e.rows \in Seq(ToSet(e.rows))
                    /\ \A r \in ToSet(e.rows) :
                          /\ r.amount \in Int /\ r.complete \in BOOLEAN
                          /\ r.token \in Assets \cup {ZeroAddress}
                    /\ Honest(s, c, e)

-----------------------------------------------------------------------------
Init ==
    /\ \E e \in Encounters :
          /\ answer = [s \in Scans |-> e[s].answer]
          /\ running = [s \in Scans |-> e[s].components]
    /\ pc = [s \in Scans |-> IF answer[s] = NoScan THEN "none" ELSE "asks"]
    /\ found = [s \in Scans |-> << >>]
    /\ errors = [s \in Scans |-> FALSE]
    /\ coverage = [s \in Scans |-> FALSE]
    /\ left = [s \in Scans |-> Accounts]
    /\ rows = [s \in Scans |-> <<>>]
    /\ groups = [s \in Scans |-> {}]
    /\ failed = [s \in Scans |-> {}]
    /\ skipped = [s \in Scans |-> {}]
    /\ counted = [s \in Scans |-> {}]
    /\ shown = [s \in Scans |-> {}]
    /\ cache = {}
    /\ listed = {}

\* configureWalletBalances: a request-level error keeps nothing of the answer.
Discover(s) ==
    /\ pc[s] = "asks"
    /\ pc' = [pc EXCEPT ![s] = "account"]
    /\ IF answer[s] = NoAnswer
       THEN /\ errors' = [errors EXCEPT ![s] = TRUE]
            /\ UNCHANGED <<found, coverage>>
       ELSE /\ found' = [found EXCEPT ![s] = Found(s, answer[s])]
            /\ errors' = [errors EXCEPT ![s] = ProviderErrors(s, answer[s])]
            /\ coverage' = [coverage EXCEPT ![s] = CoverageNotes(s, answer[s])]
    /\ UNCHANGED <<answer, left, rows, groups, failed, skipped, protocolVars, shared>>

-----------------------------------------------------------------------------
(* Reading the accounts one after the other.                               *)

Current(s) == Head(left[s])
HeldAtPin(s, t) == Held[Pin[s].hash][Current(s)][t]

\* attributedGroups stamps the groups of any account but the root.
Stamp(a) == IF a = Root THEN ZeroAddress ELSE a

Holding(s, t, amount) == [stamp |-> Stamp(Current(s)), token |-> t, amount |-> amount]

AddGroup(s, t, amount) ==
    groups' = [groups EXCEPT ![s] = @ \cup {Holding(s, t, amount)}]

AccountFails(s) == failed' = [failed EXCEPT ![s] = @ \cup {Current(s)}]
MarkFailed(s, bad) == IF bad THEN AccountFails(s) ELSE UNCHANGED failed

\* A mutant: the wallet stops at an account that failed, as a protocol does.
StopsAtFailure(s) ==
    /\ left' = [left EXCEPT ![s] = IF failed[s] # {} THEN <<>> ELSE Tail(@)]
    /\ rows' = [rows EXCEPT ![s] = <<>>]
    /\ pc' = [pc EXCEPT ![s] = IF left'[s] = <<>> THEN "read" ELSE "account"]

\* The loop over chain.accounts goes on after an account that failed.
NextAccount(s) ==
    /\ left' = [left EXCEPT ![s] = Tail(@)]
    /\ rows' = [rows EXCEPT ![s] = <<>>]
    /\ pc' = [pc EXCEPT ![s] = IF Len(left[s]) = 1 THEN "read" ELSE "account"]

GoOn(s, rest, where) ==
    IF rest = <<>> THEN NextAccount(s)
    ELSE /\ rows' = [rows EXCEPT ![s] = rest]
         /\ pc' = [pc EXCEPT ![s] = where]
         /\ UNCHANGED left

\* withoutBlocked, where a store that cannot be reached lists nothing.
Blocked(rs) == {r.token : r \in {q \in ToSet(rs) : q.chain = Chain}} \cap listed
Unblocked(rs, gone) ==
    Chosen(rs, {i \in DOMAIN rs : rs[i].chain = Chain => rs[i].token \notin gone})

\* providerWalletGroups of an account whose amounts are used directly; its
\* native row needs nothing further.
StartDirect(s) ==
    /\ pc[s] = "account" /\ Current(s) \in DOMAIN found[s]
    /\ found[s][Current(s)].direct
    /\ \E gone \in {{}, Blocked(found[s][Current(s)].rows)} :
          LET rs == Unblocked(found[s][Current(s)].rows, gone)
              kept == DirectRows(rs)
              coin == {r \in ToSet(kept) : r.token = Native}
          IN  /\ skipped' = [skipped EXCEPT ![s] = @ \cup gone]
              /\ MarkFailed(s, DirectFault(rs))
              /\ groups' = [groups EXCEPT ![s] =
                               @ \cup {Holding(s, Native, r.amount) : r \in coin}]
              /\ GoOn(s, Chosen(kept, {i \in DOMAIN kept : kept[i].token # Native}), "row")
    /\ UNCHANGED <<foundVars, protocolVars, shared>>

\* Otherwise its rows only name candidates, read again from the chain.
StartDiscovered(s) ==
    /\ pc[s] = "account" /\ Current(s) \in DOMAIN found[s]
    /\ ~found[s][Current(s)].direct
    /\ \E gone \in {{}, Blocked(found[s][Current(s)].rows)} :
          LET rs == Unblocked(found[s][Current(s)].rows, gone)
          IN  /\ skipped' = [skipped EXCEPT ![s] = @ \cup gone]
              /\ MarkFailed(s, DiscoveredFault(rs))
              /\ rows' = [rows EXCEPT ![s] = CandidateRows(rs)]
    /\ pc' = [pc EXCEPT ![s] = "native"]
    /\ UNCHANGED <<foundVars, left, groups, protocolVars, shared>>

\* An account discovery says nothing of: WalletAdapter.Positions.
StartBare(s) ==
    /\ pc[s] = "account" /\ Current(s) \notin DOMAIN found[s]
    /\ pc' = [pc EXCEPT ![s] = "native"]
    /\ UNCHANGED <<foundVars, left, rows, groups, failed, skipped, protocolVars, shared>>

\* The native balance at the pin, read or not, and on to the candidates.
AfterNative(s) ==
    GoOn(s, rows[s], IF Pin[s].fixed THEN "code" ELSE "balances")

ReadNative(s) ==
    /\ pc[s] = "native"
    /\ IF HeldAtPin(s, Native) = 0 THEN UNCHANGED groups
       ELSE AddGroup(s, Native, HeldAtPin(s, Native))
    /\ AfterNative(s)
    /\ UNCHANGED <<foundVars, failed, skipped, protocolVars, shared>>

NativeFails(s) ==
    /\ pc[s] = "native"
    /\ AccountFails(s)
    /\ AfterNative(s)
    /\ UNCHANGED <<foundVars, groups, skipped, protocolVars, shared>>

\* DeployedAt a fixed pin.
ReadCode(s) ==
    /\ pc[s] = "code"
    /\ GoOn(s, Chosen(rows[s], {i \in DOMAIN rows[s] :
                                   rows[s][i].token \in Deployed[Pin[s].hash]}),
            "balances")
    /\ UNCHANGED <<foundVars, groups, failed, skipped, protocolVars, shared>>

\* A mutant: any failure of the call counts as the token's own answer.
FailureReverts(s, row, broken) ==
    IF row.token \in broken \cup Reverting[Pin[s].hash] THEN Row(row, "reverted", 0)
    ELSE IF row.token \in NotTokens \/ row.token \notin Deployed[Pin[s].hash]
         THEN Row(row, "empty", 0)
    ELSE Row(row, "amount", HeldAtPin(s, row.token))

\* balanceOf every candidate at the pin; any of the calls may fail.
Answered(s, row, broken) ==
    IF row.token \in broken THEN Row(row, "error", 0)
    ELSE IF row.token \in Reverting[Pin[s].hash] THEN Row(row, "reverted", 0)
    ELSE IF row.token \in NotTokens \/ row.token \notin Deployed[Pin[s].hash]
         THEN Row(row, "empty", 0)
    ELSE Row(row, "amount", HeldAtPin(s, row.token))

ReadBalances(s) ==
    /\ pc[s] = "balances"
    /\ \E broken \in SUBSET {r.token : r \in ToSet(rows[s])} :
          rows' = [rows EXCEPT ![s] =
                      [i \in DOMAIN @ |-> Answered(s, @[i], broken)]]
    /\ pc' = [pc EXCEPT ![s] = "row"]
    /\ UNCHANGED <<foundVars, left, groups, failed, skipped, protocolVars, shared>>

\* The whole batch fails, and the account keeps what it has.
BatchFails(s) ==
    /\ pc[s] \in {"code", "balances"}
    /\ AccountFails(s)
    /\ NextAccount(s)
    /\ UNCHANGED <<foundVars, groups, skipped, protocolVars, shared>>

-----------------------------------------------------------------------------
(* The rows one after the other.                                           *)

RowSays(s, says) == pc[s] = "row" /\ Head(rows[s]).says = says
RowDone(s) == GoOn(s, Tail(rows[s]), "row")
TokenOf(s) == Head(rows[s]).token

\* blockReverted; an unreachable store does not list the token.
BlockReverted(s, t) ==
    /\ skipped' = [skipped EXCEPT ![s] = @ \cup {t}]
    /\ listed' \in {listed, listed \cup {t}}

\* An empty answer disqualifies the candidate and a zero balance is no holding.
RowEmpty(s) ==
    /\ RowSays(s, "empty") \/ (RowSays(s, "amount") /\ Head(rows[s]).amount = 0)
    /\ RowDone(s)
    /\ UNCHANGED <<foundVars, groups, failed, skipped, protocolVars, shared>>

RowFails(s) ==
    /\ RowSays(s, "error")
    /\ AccountFails(s)
    /\ RowDone(s)
    /\ UNCHANGED <<foundVars, groups, skipped, protocolVars, shared>>

RowReverts(s) ==
    /\ RowSays(s, "reverted")
    /\ BlockReverted(s, TokenOf(s))
    /\ RowDone(s)
    /\ UNCHANGED <<foundVars, groups, failed, protocolVars, cache>>

\* providerWalletToken, from the row or from the cache.
Known(s) == Head(rows[s]).complete \/ TokenOf(s) \in cache

RowKnown(s) ==
    /\ RowSays(s, "amount") /\ Head(rows[s]).amount > 0 /\ Known(s)
    /\ AddGroup(s, TokenOf(s), Head(rows[s]).amount)
    /\ RowDone(s)
    /\ UNCHANGED <<foundVars, failed, skipped, protocolVars, shared>>

RowUnknown(s) ==
    /\ RowSays(s, "amount") /\ Head(rows[s]).amount > 0 /\ ~Known(s)
    /\ pc' = [pc EXCEPT ![s] = "metadata"]
    /\ UNCHANGED <<foundVars, left, rows, groups, failed, skipped, protocolVars, shared>>

\* walletTokenCache.store keeps a token while there is room.
Stored(t) == IF Cardinality(cache) < CacheEntries THEN cache \cup {t} ELSE cache

\* Valid metadata, read on-chain.
ReadToken(s) ==
    /\ pc[s] = "metadata" /\ Metadata[TokenOf(s)] = "valid"
    /\ cache' = Stored(TokenOf(s))
    /\ AddGroup(s, TokenOf(s), Head(rows[s]).amount)
    /\ RowDone(s)
    /\ UNCHANGED <<foundVars, failed, skipped, protocolVars, listed>>

ReadTokenReverts(s) ==
    /\ pc[s] = "metadata" /\ Metadata[TokenOf(s)] = "reverts"
    /\ BlockReverted(s, TokenOf(s))
    /\ RowDone(s)
    /\ UNCHANGED <<foundVars, groups, failed, protocolVars, cache>>

\* The read fails, whatever the token, or what it read is not valid.
ReadTokenFails(s) ==
    /\ pc[s] = "metadata"
    /\ AccountFails(s)
    /\ RowDone(s)
    /\ UNCHANGED <<foundVars, groups, skipped, protocolVars, shared>>

-----------------------------------------------------------------------------
(* The protocols beside the wallet, and the host.                          *)

\* A protocol's adapter finishes, with the component or without.
AdapterEnds(s) ==
    /\ \E p \in running[s] :
          /\ running' = [running EXCEPT ![s] = @ \ {p}]
          /\ counted' \in {counted, [counted EXCEPT ![s] = @ \cup {p}]}
    /\ UNCHANGED <<foundVars, pc, left, rows, groups, failed, skipped, shown, shared>>

\* A mutant: every group belongs to the account the scan was asked for.
SnapshotAccount(group) == Root

\* groupAccount.
GroupAccount(group) == IF group.stamp = ZeroAddress THEN Root ELSE group.stamp

\* heldContracts: a declaration counts, an empty one too; without one, the
\* contract whose balanceOf the component read.
HeldContracts(p) ==
    IF p.holds # NoHolds THEN p.holds
    ELSE IF p.balanceOf THEN {p.contract} \ {ZeroAddress} ELSE {}

\* A component says of its tokens what it consumed of them, and its group names
\* its account as attributedGroups stamps it.
ASSUME AdapterAssumption ==
    \A x \in Encounters, s \in Scans : \A p \in x[s].components :
        /\ p.stamp \in {Stamp(a) : a \in AccountSet}
        /\ Native \notin p.consumed
        /\ p.chain = Chain => p.consumed \cap Tokens = HeldContracts(p) \cap Tokens

\* walletHeldContracts.
HeldOf(s, a) ==
    UNION {HeldContracts(p) : p \in {q \in counted[s] :
                                        q.chain = Chain /\ GroupAccount(q) = a}}

\* The token address a holding's component carries (walletNativeCoin).
AddressOf(g) == IF g.token = Native THEN Wrapped ELSE g.token

\* Only a group marked as a token's is a duplicate, never the native coin's.
Duplicate(s, g) == g.token # Native /\ AddressOf(g) \in HeldOf(s, GroupAccount(g))

\* suppressDuplicateHoldings, once the wallet and every adapter have ended.
Suppress(s) ==
    /\ pc[s] = "read" /\ running[s] = {}
    /\ shown' = [shown EXCEPT ![s] = {g \in groups[s] : ~Duplicate(s, g)}]
    /\ pc' = [pc EXCEPT ![s] = "over"]
    /\ UNCHANGED <<foundVars, left, rows, groups, failed, skipped, running, counted,
                   shared>>

\* The host lets an entry of its blocklist expire.
Expire ==
    /\ \E t \in listed : listed' = listed \ {t}
    /\ UNCHANGED <<foundVars, pc, left, rows, groups, failed, skipped, protocolVars,
                   cache>>

ReadStep(s) ==
    \/ StartDirect(s) \/ StartDiscovered(s) \/ StartBare(s)
    \/ ReadNative(s) \/ NativeFails(s) \/ ReadCode(s) \/ ReadBalances(s)
    \/ BatchFails(s)

RowStep(s) ==
    \/ RowEmpty(s) \/ RowFails(s) \/ RowReverts(s) \/ RowKnown(s) \/ RowUnknown(s)
    \/ ReadToken(s) \/ ReadTokenReverts(s) \/ ReadTokenFails(s)

ScanStep(s) ==
    Discover(s) \/ ReadStep(s) \/ RowStep(s) \/ AdapterEnds(s) \/ Suppress(s)

Done ==
    /\ \A s \in Scans : pc[s] \in {"none", "over"}
    /\ UNCHANGED vars

Next == (\E s \in Scans : ScanStep(s)) \/ Expire \/ Done

Spec == Init /\ [][Next]_vars

-----------------------------------------------------------------------------
(* Properties.                                                             *)

\* Every variable has its type, and the metadata cache keeps to its bound.
TypeOK ==
    /\ pc \in [Scans -> {"none", "asks", "account", "native", "code", "balances", "row",
                         "metadata", "read", "over"}]
    /\ \A s \in Scans :
          /\ DOMAIN found[s] \subseteq AccountSet
          /\ errors[s] \in BOOLEAN /\ coverage[s] \in BOOLEAN
          /\ IsSuffix(left[s], Accounts)
          /\ pc[s] \in {"row", "metadata"} => rows[s] # <<>>
          /\ shown[s] \subseteq groups[s]
          /\ failed[s] \subseteq AccountSet /\ skipped[s] \subseteq Tokens
          /\ counted[s] \cap running[s] = {}
    /\ cache \subseteq Tokens /\ Cardinality(cache) <= CacheEntries
    /\ listed \subseteq Tokens

Amount(g, hash) == Held[hash][GroupAccount(g)][g.token]
IsRead(s) == pc[s] \in {"read", "over"}
Has(s, a, t) == \E g \in groups[s] : GroupAccount(g) = a /\ g.token = t

\* What the comments on coverage notes say of the wallet (read in engine.go,
\* blockReverted in wallet_provider.go): "every balance it reports is the one
\* at the pin".
AtThePin ==
    \A s \in Scans : \A g \in groups[s] : g.amount = Amount(g, Pin[s].hash)

\* The time of block b is one whose gap from the pin's a Duration can hold: 292
\* years in the code, which any time in seconds keeps within.
Representable(b, pin) == Gap(b.time, pin.time) * Second < Width \div 2

\* An amount is the account's at the pin; only a live scan may take one from
\* the provider instead, sampled within the window of the pin and not marked
\* as discovery.  No fork's, no stale and no index-derived amount gets in, but
\* for a sample whose time is too far off for LiveWalletSample to measure: its
\* product wraps (configureWalletBalances, walletProviderAmountsUsable).
AmountsCurrent ==
    \A s \in Scans : \A g \in groups[s] :
        \/ g.amount = Amount(g, Pin[s].hash)
        \/ /\ ~Pin[s].fixed
           /\ \E c \in ToSet(answer[s].chains) : \E e \in ToSet(c.accounts) :
                 LET b == BlockOf(c, e)
                 IN  /\ e.account = GroupAccount(g) /\ ~e.discoveryOnly
                     /\ b.number # Pin[s].number
                     /\ Representable(b, Pin[s]) => Gap(b.time, Pin[s].time) <= Window
                     /\ g.amount = Amount(g, b.hash)

\* A historical scan whose wallet has no error and no coverage note reports
\* exactly what every account held at the pin: whatever the provider left
\* out, repeated, mislabelled or sampled elsewhere is said to be missing.
FixedExact ==
    \A s \in Scans :
        IsRead(s) /\ Pin[s].fixed /\ ~errors[s] /\ ~coverage[s]
            /\ failed[s] = {} /\ skipped[s] = {}
        => \A a \in AccountSet, t \in Assets :
              Has(s, a, t) <=> Held[Pin[s].hash][a][t] > 0

\* What account a should report of t: its native coin when it is read on-chain,
\* and of a token in its rows the sampled amount or, if only discovered, the
\* balance at the pin.
Worth(s, a, t) ==
    IF a \notin DOMAIN found[s] THEN t = Native /\ Held[Pin[s].hash][a][t] > 0
    ELSE \/ /\ ~found[s][a].direct /\ Held[Pin[s].hash][a][t] > 0
            /\ \/ t = Native
               \/ \E r \in ToSet(found[s][a].rows) : r.token = t /\ r.chain = Chain
         \/ /\ found[s][a].direct
            /\ \E r \in ToSet(found[s][a].rows) :
                  r.token = t /\ r.chain = Chain /\ r.amount > 0

Reverts(t) == Metadata[t] = "reverts" \/ \E s \in Scans : t \in Reverting[Pin[s].hash]

\* A token is listed, or left out with a note, only because one of its own
\* calls reverted at some scan's pin: a transport failure, an empty answer or
\* bad metadata never hides it from later scans (blockReverted).
OnlyRevertedSkipped ==
    /\ \A t \in listed : Reverts(t)
    /\ \A s \in Scans : \A t \in skipped[s] : Reverts(t)

\* Nothing the wallet knew of goes missing in silence: it is reported, or its
\* own account's read failed, or the token has a coverage note; an account
\* with no usable answer left an error or a note.  One account's failure
\* takes nothing from another, and only a revert hides a token (engine.go's loop,
\* providerWalletGroups).
NothingDropped ==
    /\ OnlyRevertedSkipped
    /\ \A s \in Scans : IsRead(s) =>
           \A a \in AccountSet :
               /\ a \notin DOMAIN found[s] => errors[s] \/ coverage[s]
               /\ \A t \in Assets :
                     Worth(s, a, t) => Has(s, a, t) \/ a \in failed[s] \/ t \in skipped[s]

\* A holding is counted once: the response leaves it out just when a protocol
\* component in it consumed that very balance, on this chain and of this
\* account, in whatever order adapters and wallet finished
\* (suppressDuplicateHoldings).
CountedOnce ==
    \A s \in Scans : pc[s] = "over" =>
        \A g \in groups[s] :
            g \in shown[s] <=> ~\E p \in counted[s] :
                /\ p.chain = Chain /\ p.stamp = g.stamp
                /\ g.token \in p.consumed
=============================================================================
