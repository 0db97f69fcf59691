------------------------------ MODULE ScanEngine ------------------------------
(***************************************************************************)
(* One EVM scan: Engine.ScanWithOptions (engine.go).  A goroutine per      *)
(* chain sets the chain up; then the dispatcher hands deployments to the   *)
(* workers while the wallet goroutine discovers and reads the wallet, both *)
(* until the collection deadline passes; what was never read is reported;  *)
(* prices are fetched on a deadline of their own.                          *)
(*                                                                         *)
(* A job is a deployment, a record of a protocol and a chain.  What an     *)
(* adapter reads is reduced to whether it failed and whether it left       *)
(* groups; blocks are reduced to which jobs are active at their pin.       *)
(* Holdings, prices and valuations are not modelled here.                  *)
(***************************************************************************)
EXTENDS Integers, FiniteSets, SequencesExt

CONSTANTS
    Asked,          \* the chains options.includesChain admits
    Disabled,       \* e.disabledChains
    Named,          \* options.ChainIDs is not empty
    Unconfigured,   \* chains with no RPC URL
    Adapters,       \* the jobs of e.adapters and their chains, in order
    WalletJobs,     \* the wallet's jobs, one per chain
    Inactive,       \* jobs whose availability window excludes the pin
    Probing,        \* protocols whose adapter is a presencePrefetcher
    MinChains,      \* presenceMinChains
    AccountsOn,     \* AccountsOn[c]: how many accounts are read on chain c
    Workers,        \* e.workers()
    NoChain         \* the zero ChainID of an entry about no chain

AllJobs == ToSet(Adapters) \cup WalletJobs
Protocols == {j.protocol : j \in AllJobs}

ASSUME EngineAssumption ==
    /\ Named \in BOOLEAN
    /\ MinChains \in Nat /\ Workers \in Nat \ {0}
    /\ AccountsOn \in [Asked -> Nat \ {0}]
    /\ IsFiniteSet(AllJobs) /\ \A j \in AllJobs : j.chain \in Asked
    /\ Adapters \in Seq(AllJobs)
    /\ IsInjective(Adapters)     \* registerAdapters refuses duplicates
    /\ Asked \cap AllJobs = {} /\ NoChain \notin Asked \cup AllJobs
    /\ ToSet(Adapters) \cap WalletJobs = {}
    /\ \A j \in WalletJobs : j.protocol \notin Probing

VARIABLES
    phase,          \* how far ScanWithOptions is
    setup,          \* setup[c]: where the goroutine of chain c is
    open,           \* chains whose RPC client is open
    stopped,        \* collectCtx has ended
    late,           \* pricingCtx has ended
    job,            \* job[j]: what has become of job j
    queue,          \* the places in Adapters of the deployments not yet dispatched
    account,        \* account[j]: the accounts of j already read
    failed,         \* failed[j]: positionErr # nil
    groups,         \* groups[j]: the read left groups
    wallet,         \* where the wallet goroutine is
    provider,       \* wallet jobs with a walletProviderErrors entry
    left,           \* left[p]: presenceLifetimes.remaining, 0 if untracked
    probe,          \* probe[p]: "none", "live" or "cancelled"
    errors,         \* errors[e]: how many entries e response.Errors has
    snapshots       \* the jobs with a snapshot

setupVars == <<setup, open>>
readVars == <<job, account, failed, groups>>
probeVars == <<left, probe>>
vars == <<phase, setupVars, stopped, late, readVars, queue, wallet, provider,
          probeVars, errors, snapshots>>

\* The entries response.Errors may hold: a scope and the chain or the job.
Entries == ({"chain", "incomplete"} \X Asked)
           \cup ({"protocol", "incomplete", "coverage"} \X AllJobs)
           \cup {<<"incomplete", NoChain>>, <<"pricing", NoChain>>}

Add(entries) ==
    errors' = [e \in Entries |-> errors[e] + (IF e \in entries THEN 1 ELSE 0)]

Init ==
    /\ phase = "start"
    /\ setup = [c \in Asked |-> "none"]
    /\ open = {}
    /\ stopped \in BOOLEAN
    /\ late = FALSE
    /\ job = [j \in AllJobs |-> "none"]
    /\ queue = {}
    /\ account = [j \in AllJobs |-> 0]
    /\ failed = [j \in AllJobs |-> FALSE]
    /\ groups = [j \in AllJobs |-> FALSE]
    /\ wallet = "none"
    /\ provider = {}
    /\ left = [p \in Protocols |-> 0]
    /\ probe = [p \in Protocols |-> "none"]
    /\ errors = [e \in Entries |-> 0]
    /\ snapshots = {}

\* Types.  The response never names a deployment more than three times: its
\* own failure, a provider's, and a coverage note.
TypeOK ==
    /\ phase \in {"start", "setup", "dispatch", "send", "drain", "price", "done"}
    /\ setup \in [Asked -> {"none", "dial", "pin", "accounts", "up", "down"}]
    /\ open \subseteq Asked
    /\ stopped \in BOOLEAN /\ late \in BOOLEAN
    /\ job \in [AllJobs -> {"none", "waiting", "reading", "read", "unread"}]
    /\ queue \subseteq {i \in DOMAIN Adapters : job[Adapters[i]] \in {"waiting", "unread"}}
    /\ account \in [AllJobs -> Nat]
    /\ \A j \in AllJobs : account[j] <= AccountsOn[j.chain]
    /\ failed \in [AllJobs -> BOOLEAN] /\ groups \in [AllJobs -> BOOLEAN]
    /\ wallet \in {"none", "discovering", "found", "reading", "over"}
    /\ provider \subseteq WalletJobs
    /\ left \in [Protocols -> 0..Cardinality(AllJobs)]
    /\ probe \in [Protocols -> {"none", "live", "cancelled"}]
    /\ errors \in [Entries -> 0..2]
    /\ snapshots \subseteq AllJobs

-----------------------------------------------------------------------------
(* The contexts.                                                           *)

\* The collection deadline passes, or the caller cancels the scan.
StopCollecting ==
    /\ phase # "done" /\ ~stopped
    /\ stopped' = TRUE
    /\ UNCHANGED <<phase, setupVars, late, readVars, queue, wallet, provider,
                   probeVars, errors, snapshots>>

StopPricing ==
    /\ phase = "price" /\ ~late
    /\ late' = TRUE
    /\ UNCHANGED <<phase, setupVars, stopped, readVars, queue, wallet, provider,
                   probeVars, errors, snapshots>>

-----------------------------------------------------------------------------
(* Chain setup.                                                            *)

Served == Asked \ Disabled

\* A disabled chain is an error only of a scan that names it; every other
\* chain gets a goroutine.
Begin ==
    /\ phase = "start"
    /\ phase' = "setup"
    /\ setup' = [c \in Asked |-> IF c \in Served THEN "dial" ELSE "down"]
    /\ Add(IF Named THEN {"chain"} \X (Asked \cap Disabled) ELSE {})
    /\ UNCHANGED <<open, stopped, late, readVars, queue, wallet, provider,
                   probeVars, snapshots>>

\* chainFailed: a failure once collection has stopped is the scan's doing.
ChainEntry(c) == IF stopped THEN <<"incomplete", c>> ELSE <<"chain", c>>

LeaksClient(c) ==                                                  \* mutant
    /\ setup' = [setup EXCEPT ![c] = "down"]
    /\ Add({ChainEntry(c)})
    /\ UNCHANGED open

\* A chain whose dial, pin or account scope fails closes its client, if it
\* has one, and reports itself.
ChainFails(c) ==
    /\ setup' = [setup EXCEPT ![c] = "down"]
    /\ Add({ChainEntry(c)})
    /\ open' = open \ {c}

SetupVarsOnly == UNCHANGED <<phase, stopped, late, readVars, queue, wallet,
                             provider, probeVars, snapshots>>

NoURL(c) ==
    /\ setup[c] = "dial" /\ c \in Unconfigured
    /\ setup' = [setup EXCEPT ![c] = "down"]
    /\ Add({<<"chain", c>>})
    /\ UNCHANGED open /\ SetupVarsOnly

Dial(c) ==
    /\ setup[c] = "dial" /\ c \notin Unconfigured
    /\ setup' = [setup EXCEPT ![c] = "pin"]
    /\ open' = open \cup {c}
    /\ UNCHANGED errors /\ SetupVarsOnly

\* BlockByNumber or LatestSettledBlock, then resolveAccountScope.
Pin(c) ==
    /\ setup[c] = "pin"
    /\ setup' = [setup EXCEPT ![c] = "accounts"]
    /\ UNCHANGED <<open, errors>> /\ SetupVarsOnly

ResolveAccounts(c) ==
    /\ setup[c] = "accounts"
    /\ setup' = [setup EXCEPT ![c] = "up"]
    /\ UNCHANGED <<open, errors>> /\ SetupVarsOnly

FailSetup(c) ==
    /\ setup[c] \in {"dial", "pin", "accounts"}
    /\ c \notin Unconfigured
    /\ ChainFails(c)
    /\ SetupVarsOnly

-----------------------------------------------------------------------------
(* Deployments and the probes that serve them.                             *)

Up == {c \in Asked : setup[c] = "up"}
DeploymentsOf(p) == {j \in AllJobs : j.protocol = p /\ j.chain \in Up}

ProbeDoneEarly(p) ==                                               \* mutant
    /\ left' = [left EXCEPT ![p] = IF @ > 0 THEN @ - 1 ELSE 0]
    /\ probe' = [probe EXCEPT ![p] = IF left[p] \in 1..2 THEN "cancelled" ELSE @]

\* presenceLifetimes.done(p): the last deployment of p ends p's probes.
ProbeDone(p) ==
    /\ left' = [left EXCEPT ![p] = IF @ > 0 THEN @ - 1 ELSE 0]
    /\ probe' = [probe EXCEPT ![p] = IF left[p] = 1 THEN "cancelled" ELSE @]

\* wait.Wait returns: prefetchPresence starts the probes of every protocol
\* that can prefetch, when enough chains are pinned; newPresenceLifetimes
\* ends at once those of a protocol with no deployment; the wallet goroutine
\* and the dispatcher begin.
BuildDeployments ==
    /\ phase = "setup"
    /\ \A c \in Asked : setup[c] \in {"up", "down"}
    /\ phase' = "dispatch"
    /\ job' = [j \in AllJobs |-> IF j.chain \in Up THEN "waiting" ELSE "none"]
    /\ queue' = {i \in DOMAIN Adapters : Adapters[i].chain \in Up}
    /\ wallet' = IF \E j \in WalletJobs : j.chain \in Up
                 THEN "discovering" ELSE "over"
    /\ LET prefetched == IF Cardinality(Up) < MinChains THEN {}
                         ELSE Probing \cap Protocols
       IN  /\ left' = [p \in Protocols |->
                         IF p \in prefetched THEN Cardinality(DeploymentsOf(p)) ELSE 0]
           /\ probe' = [p \in Protocols |->
                         IF p \notin prefetched THEN "none"
                         ELSE IF DeploymentsOf(p) = {} THEN "cancelled" ELSE "live"]
    /\ UNCHANGED <<setupVars, stopped, late, account, failed, groups, provider,
                   errors, snapshots>>

\* read(j) begins: a deployment inactive at its pin is done with at once.
StartRead(j) ==
    IF j \in Inactive
    THEN /\ job' = [job EXCEPT ![j] = "read"]
         /\ ProbeDone(j.protocol)
    ELSE /\ job' = [job EXCEPT ![j] = "reading"]
         /\ UNCHANGED probeVars

Busy == {j \in AllJobs \ WalletJobs : job[j] = "reading"}

\* The head of the dispatcher's loop looks at collectCtx ...
CheckCollecting ==
    /\ phase = "dispatch" /\ queue # {} /\ ~stopped
    /\ phase' = "send"
    /\ UNCHANGED <<setupVars, stopped, late, readVars, queue, wallet, provider,
                   probeVars, errors, snapshots>>

\* ... and its select sends the job to a worker that is free, even when the
\* context has ended since.
Dispatch ==
    /\ phase = "send"
    /\ Cardinality(Busy) < Workers
    /\ phase' = "dispatch"
    /\ StartRead(Adapters[Min(queue)])
    /\ queue' = queue \ {Min(queue)}
    /\ UNCHANGED <<setupVars, stopped, late, account, failed, groups,
                   wallet, provider, errors, snapshots>>

ClosesWhenBusy ==                                                  \* mutant
    \/ phase = "dispatch" /\ (queue = {} \/ stopped)
    \/ phase = "send" /\ (stopped \/ Cardinality(Busy) = Workers)

\* Every job was sent, or collection stopped.
NothingToSend ==
    \/ phase = "dispatch" /\ (queue = {} \/ stopped)
    \/ phase = "send" /\ stopped

DropsTheQueue ==                                                   \* mutant
    /\ NothingToSend
    /\ phase' = "drain"
    /\ queue' = {}
    /\ job' = [j \in AllJobs |->
                 IF \E i \in queue : j = Adapters[i] THEN "none" ELSE job[j]]
    /\ UNCHANGED <<setupVars, stopped, late, account, failed, groups, wallet,
                   provider, probeVars, errors, snapshots>>

\* close(jobs).
CloseJobs ==
    /\ NothingToSend
    /\ phase' = "drain"
    /\ UNCHANGED <<setupVars, stopped, late, readVars, queue, wallet, provider,
                   probeVars, errors, snapshots>>

Undispatched == {i \in queue : job[Adapters[i]] = "waiting"}
NextUndispatched == Adapters[Min(Undispatched)]

\* A deployment never dispatched will not wait for its probes either.
SweepUndispatched ==
    /\ phase = "drain" /\ Undispatched # {}
    /\ job' = [job EXCEPT ![NextUndispatched] = "unread"]
    /\ ProbeDone(NextUndispatched.protocol)
    /\ UNCHANGED <<phase, setupVars, stopped, late, account, failed, groups,
                   queue, wallet, provider, errors, snapshots>>

-----------------------------------------------------------------------------
(* read(j), account by account.                                            *)

AllAccountsRead(j) == account[j] = AccountsOn[j.chain]

\* A protocol's loop breaks at its first failure; the wallet's goes on.
LoopOver(j) == AllAccountsRead(j) \/ (failed[j] /\ j \notin WalletJobs)

ReadAccount(j) ==
    /\ job[j] = "reading"
    /\ ~LoopOver(j)
    /\ account' = [account EXCEPT ![j] = @ + 1]
    /\ \E fails, some \in BOOLEAN :
        /\ failed' = [failed EXCEPT ![j] = @ \/ fails]
        /\ groups' = [groups EXCEPT ![j] = @ \/ some]
    /\ UNCHANGED <<phase, setupVars, stopped, late, job, queue, wallet, provider,
                   probeVars, errors, snapshots>>

\* The entry of a failed read: once collection has stopped, an adapter that
\* fails was stopped.
FailureEntry(j) == IF stopped THEN <<"incomplete", j>> ELSE <<"protocol", j>>

\* Whatever groups were read before a failure are kept.
HasSnapshot(j) == groups[j]

\* The rest of read: the probes, then the response under the mutex.
ReportRead(j) ==
    /\ job[j] = "reading"
    /\ LoopOver(j)
    /\ job' = [job EXCEPT ![j] = "read"]
    /\ ProbeDone(j.protocol)
    /\ \E noted \in SUBSET {<<"coverage", j>>} :
        errors' = [e \in Entries |-> errors[e]
                    + (IF failed[j] /\ e = FailureEntry(j) THEN 1 ELSE 0)
                    + (IF j \in provider /\ e = <<"protocol", j>> THEN 1 ELSE 0)
                    + (IF e \in noted THEN 1 ELSE 0)]
    /\ snapshots' = IF HasSnapshot(j) THEN snapshots \cup {j} ELSE snapshots
    /\ UNCHANGED <<phase, setupVars, stopped, late, account, failed, groups,
                   queue, wallet, provider>>

-----------------------------------------------------------------------------
(* The wallet goroutine.                                                   *)

WalletUp == {j \in WalletJobs : j.chain \in Up}

\* configureWalletBalances returns, with provider failures for some jobs.
Discover ==
    /\ wallet = "discovering"
    /\ wallet' = "found"
    /\ \E bad \in SUBSET WalletUp : provider' = bad
    /\ UNCHANGED <<phase, setupVars, stopped, late, readVars, queue, probeVars,
                   errors, snapshots>>

WalletNeverOver ==                                                 \* mutant
    /\ wallet = "found" /\ stopped
    /\ wallet' = "reading"
    /\ job' = [j \in AllJobs |-> IF j \in WalletUp THEN "unread" ELSE job[j]]
    /\ UNCHANGED <<phase, setupVars, stopped, late, account, failed, groups,
                   queue, provider, probeVars, errors, snapshots>>

\* Discovery outlived the deadline: nothing of the wallet is read.
WalletStopped ==
    /\ wallet = "found" /\ stopped
    /\ wallet' = "over"
    /\ job' = [j \in AllJobs |-> IF j \in WalletUp THEN "unread" ELSE job[j]]
    /\ UNCHANGED <<phase, setupVars, stopped, late, account, failed, groups,
                   queue, provider, probeVars, errors, snapshots>>

\* Otherwise every wallet job is read at once, apart from the workers.
WalletReads ==
    /\ wallet = "found" /\ ~stopped
    /\ wallet' = "reading"
    /\ job' = [j \in AllJobs |->
                 IF j \notin WalletUp THEN job[j]
                 ELSE IF j \in Inactive THEN "read" ELSE "reading"]
    /\ UNCHANGED <<phase, setupVars, stopped, late, account, failed, groups,
                   queue, provider, probeVars, errors, snapshots>>

WalletDone ==
    /\ wallet = "reading"
    /\ \A j \in WalletUp : job[j] = "read"
    /\ wallet' = "over"
    /\ UNCHANGED <<phase, setupVars, stopped, late, readVars, queue, provider,
                   probeVars, errors, snapshots>>

-----------------------------------------------------------------------------
(* The end of the scan.                                                    *)

Unread == {j \in AllJobs : job[j] = "unread"}

NonWalletSettled ==                                                \* mutant
    \A j \in AllJobs \ WalletJobs : job[j] \in {"none", "read", "unread"}

\* workers.Wait and wallet.Wait return, when every dispatched job is read and
\* the wallet goroutine is over.
Settled ==
    /\ wallet = "over"
    /\ \A j \in AllJobs : job[j] \in {"none", "read", "unread"}

\* Names each unread deployment that would have run at its pin.
Settle ==
    /\ phase = "drain"
    /\ Settled
    /\ phase' = "price"
    /\ Add({"incomplete"} \X (Unread \ Inactive))
    /\ UNCHANGED <<setupVars, stopped, late, readVars, queue, wallet, provider,
                   probeVars, snapshots>>

\* fetchPrices and applyValuations, whose failures share one entry here, then
\* the deferred calls: every client is closed and the scan's context, and
\* with it every probe, ends.
Price ==
    /\ phase = "price"
    /\ \E unpriced, unvalued \in BOOLEAN :
        Add((IF unpriced \/ unvalued THEN {<<"pricing", NoChain>>} ELSE {})
               \cup (IF unpriced /\ late THEN {<<"incomplete", NoChain>>} ELSE {}))
    /\ phase' = "done"
    /\ open' = open \ Up
    /\ stopped' = TRUE
    /\ probe' = [p \in Protocols |->
                   IF probe[p] = "live" THEN "cancelled" ELSE probe[p]]
    /\ UNCHANGED <<setup, late, readVars, queue, wallet, provider, left, snapshots>>

Finished == phase = "done" /\ UNCHANGED vars

SetupChain(c) == NoURL(c) \/ Dial(c) \/ Pin(c) \/ ResolveAccounts(c) \/ FailSetup(c)
Read(j) == ReadAccount(j) \/ ReportRead(j)
Dispatcher == Begin \/ BuildDeployments \/ CheckCollecting \/ Dispatch \/ CloseJobs
              \/ SweepUndispatched \/ Settle \/ Price
Wallet == Discover \/ WalletStopped \/ WalletReads \/ WalletDone

Next ==
    \/ StopCollecting \/ StopPricing
    \/ \E c \in Asked : SetupChain(c)
    \/ \E j \in AllJobs : Read(j)
    \/ Dispatcher
    \/ Wallet
    \/ Finished

\* Every goroutine that can go on does: each request it makes is bounded by
\* the timeouts of the RPC and HTTP clients.  No deadline needs to pass.
Fairness ==
    /\ \A c \in Asked : WF_vars(SetupChain(c))
    /\ \A j \in AllJobs : WF_vars(Read(j))
    /\ WF_vars(Dispatcher) /\ WF_vars(Wallet)

Spec == Init /\ [][Next]_vars /\ Fairness

-----------------------------------------------------------------------------
(* Correctness.                                                            *)

\* Every account of the chain was read for j, and none failed.
ReadInFull(j) == job[j] = "read" /\ AllAccountsRead(j) /\ ~failed[j]

\* What the response says of j beyond what the wallet provider reported.
Verdicts(j) ==
    errors[<<"protocol", j>>] + errors[<<"incomplete", j>>]
        - (IF j \in provider /\ job[j] = "read" /\ j \notin Inactive THEN 1 ELSE 0)

\* A scan whose deadline never passes leaves nothing unread and calls
\* nothing incomplete.
CompleteUnlessStopped ==
    phase = "price" /\ ~stopped =>
        /\ Unread = {}
        /\ \A j \in AllJobs : errors[<<"incomplete", j>>] = 0
        /\ \A c \in Asked : errors[<<"incomplete", c>>] = 0

\* Nothing is missing from a response in silence, and nothing is reported
\* missing twice or for nothing: a chain asked for and not set up, and a
\* deployment active at its pin and not read in full, has one error each,
\* however the deadline fell between the goroutines; a scan it never stopped calls
\* nothing incomplete (ScanWithOptions).
EverythingAccountedFor ==
    /\ CompleteUnlessStopped
    /\ phase = "done" =>
        /\ \A j \in AllJobs :
            Verdicts(j) = IF j.chain \notin Up \/ j \in Inactive \/ ReadInFull(j)
                          THEN 0 ELSE 1
        /\ \A c \in Asked :
            errors[<<"chain", c>>] + errors[<<"incomplete", c>>]
                = IF c \in Up \/ (c \in Disabled /\ ~Named) THEN 0 ELSE 1

\* A protocol's presence probes live as long as they are of use: a deployment
\* that may still wait for them never finds them cancelled by the others'
\* finishing, and none runs on once the last that could use it is done
\* (presenceLifetimes).
ProbesLiveWhileUseful ==
    /\ \A j \in AllJobs :
        job[j] \in {"waiting", "reading"} => probe[j.protocol] # "cancelled"
    /\ phase \in {"price", "done"} => \A p \in Protocols : probe[p] # "live"

\* A read uses an open client, and a scan that returned left none open.
ClientsClosedAfterUse ==
    /\ \A j \in AllJobs : job[j] = "reading" => j.chain \in open
    /\ phase = "done" => open = {}

\* Once the holdings are being reconciled no reader touches the response.
NoLateRead ==
    [][(phase \in {"price", "done"}) => (UNCHANGED <<readVars, snapshots>>)]_vars

\* Every scan returns.
ScanReturns == <>(phase = "done")
=============================================================================
