--------------------------- MODULE ScanEngineProofs ---------------------------
(***************************************************************************)
(* ScanEngine proved for any chains, adapters, accounts and workers: what  *)
(* a response lacks is said in it once, the probes of a protocol live as   *)
(* long as they are of use, every client is open while it is read and      *)
(* closed after, and no read is late.  At the end, what one of its reads   *)
(* (AdapterReads) answers, for any account, index, deployments and faults. *)
(***************************************************************************)
EXTENDS ScanEngine, AdapterReads, FiniteSetTheorems, TLAPS

-----------------------------------------------------------------------------
(* The inductive invariant.                                                *)

Early == {"start", "setup"}
Ending == {"price", "done"}

\* The chains: a client is open from its dial to the end of the scan or of its
\* chain's setup, and setup is over before anything is read.
Chains ==
    /\ phase \in Early \cup Ending \cup {"dispatch", "send", "drain"}
    /\ setup \in [Asked -> {"none", "dial", "pin", "accounts", "up", "down"}]
    /\ phase = "start" => \A c \in Asked : setup[c] = "none"
    /\ phase \notin Early => \A c \in Asked : setup[c] \in {"up", "down"}
    /\ \A c \in Asked : setup[c] \in {"none", "down"} \/ c \notin Disabled
    /\ open = IF phase = "done" THEN {}
              ELSE {c \in Asked : setup[c] \in {"pin", "accounts", "up"}}

\* The jobs: a deployment waits in the queue, and the wallet's for discovery.
Jobs ==
    /\ job \in [AllJobs -> {"none", "waiting", "reading", "read", "unread"}]
    /\ wallet \in {"none", "discovering", "found", "reading", "over"}
    /\ queue \subseteq DOMAIN Adapters
    /\ phase \in Early => wallet = "none" /\ queue = {} /\ \A j \in AllJobs : job[j] = "none"
    /\ phase \notin Early => /\ wallet # "none"
                             /\ \A j \in AllJobs : job[j] = "none" <=> j.chain \notin Up
    /\ \A i \in queue : \/ job[Adapters[i]] = "waiting"
                        \/ job[Adapters[i]] = "unread" /\ phase \notin {"dispatch", "send"}
    /\ phase = "send" => queue # {}
    /\ phase \in Ending => wallet = "over" /\ \A j \in AllJobs : job[j] \in {"none", "read", "unread"}
    /\ wallet \in {"discovering", "found"} => \A j \in WalletUp : job[j] = "waiting"

\* The reads: what is read was read to the end of its loop, and a scan that was
\* not stopped leaves nothing.
Reads ==
    /\ stopped \in BOOLEAN /\ late \in BOOLEAN
    /\ account \in [AllJobs -> Nat]
    /\ failed \in [AllJobs -> BOOLEAN] /\ groups \in [AllJobs -> BOOLEAN]
    /\ provider \subseteq WalletUp
    /\ wallet \in {"none", "discovering"} => provider = {}
    /\ \A j \in AllJobs : /\ account[j] <= AccountsOn[j.chain]
                          /\ job[j] = "reading" => j \notin Inactive
                          /\ job[j] = "read" /\ j \notin Inactive => LoopOver(j)
    /\ ~stopped => /\ \A j \in AllJobs : job[j] # "unread"
                   /\ phase \in Ending \cup {"drain"} => queue = {}

\* The deployments of p that may still use its probes.
Pending(p) == {j \in AllJobs : j.protocol = p /\ job[j] \in {"waiting", "reading"}}

\* The probes: remaining counts the deployments that may still use them.
Probes ==
    /\ left \in [Protocols -> Nat]
    /\ probe \in [Protocols -> {"none", "live", "cancelled"}]
    /\ \A p \in Protocols :
        /\ phase \in Early => probe[p] = "none"
        /\ probe[p] # "none" => p \in Probing
        /\ left[p] = IF probe[p] = "none" THEN 0 ELSE Cardinality(Pending(p))
        /\ probe[p] = "live" <=> left[p] # 0

\* What is due to be said of chain c and of job j.
DueOfChain(c) == IF setup[c] = "down" /\ (c \in Disabled => Named) THEN 1 ELSE 0

DueOfJob(j) ==
    IF j \in Inactive THEN 0
    ELSE IF job[j] = "read"
    THEN (IF failed[j] THEN 1 ELSE 0) + (IF j \in provider THEN 1 ELSE 0)
    ELSE IF job[j] = "unread" /\ phase \in Ending THEN 1 ELSE 0

\* The errors: what is due is said, and nothing is incomplete before the stop.
Said ==
    /\ errors \in [Entries -> Nat]
    /\ \A c \in Asked : errors[<<"chain", c>>] + errors[<<"incomplete", c>>] = DueOfChain(c)
    /\ \A j \in AllJobs : errors[<<"protocol", j>>] + errors[<<"incomplete", j>>] = DueOfJob(j)
    /\ ~stopped => /\ \A c \in Asked : errors[<<"incomplete", c>>] = 0
                   /\ \A j \in AllJobs : errors[<<"incomplete", j>>] = 0

Inv == Chains /\ Jobs /\ Reads /\ Probes /\ Said

-----------------------------------------------------------------------------
(* The chains.                                                             *)

\* Setting a chain up happens in its phase alone.
LEMMA SetupPhase ==
    ASSUME Chains, NEW c \in Asked, SetupChain(c)
    PROVE  /\ phase = "setup" /\ phase' = phase
           /\ c \notin Disabled /\ setup[c] \in {"dial", "pin", "accounts"}
<1>1. setup[c] \in {"dial", "pin", "accounts"}
  BY DEF SetupChain, NoURL, Dial, Pin, ResolveAccounts, FailSetup
<1>2. phase' = phase
  BY DEF SetupChain, NoURL, Dial, Pin, ResolveAccounts, FailSetup, SetupVarsOnly
<1> QED
  BY <1>1, <1>2 DEF Chains, Early

\* Every step keeps the chains' part.
LEMMA NextChains == ASSUME Chains, [Next]_vars PROVE Chains'
<1>1. CASE UNCHANGED <<phase, setup, open>>
  BY <1>1 DEF Chains
<1>2. ASSUME NEW c \in Asked, SetupChain(c) PROVE Chains'
  <2>1. /\ phase = "setup" /\ phase' = "setup" /\ c \notin Disabled
        /\ setup[c] \in {"dial", "pin", "accounts"}
    BY <1>2, SetupPhase
  <2>2. \E next \in {"pin", "accounts", "up", "down"} :
            /\ setup' = [setup EXCEPT ![c] = next]
            /\ next \in {"pin", "accounts", "up"} => open' = open \cup {c}
            /\ next = "down" => open' = open \ {c}
    <3>1. CASE NoURL(c)
      BY <3>1 DEF NoURL, Chains, Early
    <3>2. CASE Dial(c)
      BY <3>2 DEF Dial
    <3>3. CASE Pin(c)
      BY <2>1, <3>3 DEF Pin, Chains, Early
    <3>4. CASE ResolveAccounts(c)
      BY <2>1, <3>4 DEF ResolveAccounts, Chains, Early
    <3>5. CASE FailSetup(c)
      BY <3>5 DEF FailSetup, ChainFails
    <3> QED
      BY <1>2, <3>1, <3>2, <3>3, <3>4, <3>5 DEF SetupChain
  <2> QED
    BY <2>1, <2>2 DEF Chains, Early
<1>3. CASE Begin
  BY <1>3 DEF Begin, Chains, Served, Early, Ending
<1>4. CASE BuildDeployments
  BY <1>4 DEF BuildDeployments, setupVars, Chains, Early
<1>5. CASE CheckCollecting \/ Dispatch \/ CloseJobs \/ Settle
  BY <1>5 DEF CheckCollecting, Dispatch, CloseJobs, NothingToSend, Settle, setupVars,
              Chains, Early, Ending
<1>6. CASE Price
  BY <1>6 DEF Price, Up, Chains, Early, Ending
<1>7. CASE StopCollecting \/ StopPricing \/ SweepUndispatched
  BY <1>1, <1>7 DEF StopCollecting, StopPricing, SweepUndispatched, setupVars
<1>8. ASSUME NEW j \in AllJobs, Read(j) PROVE Chains'
  BY <1>1, <1>8 DEF Read, ReadAccount, ReportRead, setupVars
<1>9. CASE Wallet
  BY <1>1, <1>9 DEF Wallet, Discover, WalletStopped, WalletReads, WalletDone, setupVars
<1>10. CASE Finished \/ UNCHANGED vars
  BY <1>1, <1>10 DEF Finished, vars, setupVars
<1> QED
  BY <1>2, <1>3, <1>4, <1>5, <1>6, <1>7, <1>8, <1>9, <1>10 DEF Next, Dispatcher

\* Once setup is over the chains that are up stay so.
LEMMA UpStays ==
    ASSUME Chains, [Next]_vars, phase \notin Early
    PROVE  setup' = setup /\ Up' = Up /\ WalletUp' = WalletUp /\ phase' \notin Early
<1>1. \A c \in Asked : ~SetupChain(c)
  BY SetupPhase DEF Early
<1>2. setup' = setup /\ phase' \notin Early
  <2>1. CASE Dispatcher
    BY <2>1 DEF Dispatcher, Begin, BuildDeployments, CheckCollecting, Dispatch, CloseJobs,
                SweepUndispatched, Settle, Price, setupVars, Early
  <2>2. CASE Wallet
    BY <2>2 DEF Wallet, Discover, WalletStopped, WalletReads, WalletDone, setupVars
  <2>3. ASSUME NEW j \in AllJobs, Read(j) PROVE setup' = setup /\ phase' \notin Early
    BY <2>3 DEF Read, ReadAccount, ReportRead, setupVars
  <2>4. CASE StopCollecting \/ StopPricing \/ Finished \/ UNCHANGED vars
    BY <2>4 DEF StopCollecting, StopPricing, Finished, vars, setupVars
  <2> QED
    BY <1>1, <2>1, <2>2, <2>3, <2>4 DEF Next
<1> QED
  BY <1>2 DEF Up, WalletUp

-----------------------------------------------------------------------------
(* The jobs.                                                               *)

\* A deployment has one place in Adapters and is not the wallet's.
LEMMA Places ==
    /\ DOMAIN Adapters \subseteq Nat
    /\ \A i \in DOMAIN Adapters : Adapters[i] \in AllJobs /\ Adapters[i] \notin WalletJobs
    /\ \A i, k \in DOMAIN Adapters : Adapters[i] = Adapters[k] => i = k
<1>1. DOMAIN Adapters = 1..Len(Adapters) /\ Len(Adapters) \in Nat
  BY EngineAssumption
<1>2. \A i \in DOMAIN Adapters : Adapters[i] \in ToSet(Adapters)
  BY DEF ToSet
<1> QED
  BY <1>1, <1>2, EngineAssumption DEF AllJobs, IsInjective

\* The first place of those not yet dispatched is one of them.
LEMMA FirstPlace ==
    ASSUME NEW S \in SUBSET (DOMAIN Adapters), S # {}
    PROVE  Min(S) \in S
<1>1. S \subseteq Nat
  BY Places
<1>2. PICK x \in S : \A y \in S : ~(<<y, x>> \in OpToRel(<, Nat))
  BY <1>1, WFMin, NatLessThanWellFounded
<1>3. ASSUME NEW y \in S PROVE x <= y
  <2>1. y \in Nat /\ x \in Nat
    BY <1>1
  <2>2. ~(y < x)
    BY <1>2, <2>1 DEF OpToRel
  <2> QED
    BY <2>1, <2>2
<1> QED
  BY <1>3 DEF Min

\* Every step keeps the jobs' part.
LEMMA NextJobs == ASSUME Chains, Jobs, [Next]_vars PROVE Jobs'
<1>1. CASE UNCHANGED <<phase, setup, job, wallet, queue>>
  BY <1>1 DEF Jobs, Up, WalletUp
<1>2. CASE phase \in Early /\ phase' \in Early /\ UNCHANGED <<job, wallet, queue>>
  BY <1>2 DEF Jobs, Early, Ending
<1>3. ASSUME NEW c \in Asked, SetupChain(c) PROVE Jobs'
  <2>1. phase \in Early /\ phase' \in Early
    BY <1>3, SetupPhase DEF Early
  <2>2. UNCHANGED <<job, wallet, queue>>
    BY <1>3 DEF SetupChain, NoURL, Dial, Pin, ResolveAccounts, FailSetup, SetupVarsOnly,
                readVars
  <2> QED
    BY <1>2, <2>1, <2>2
<1>4. CASE Begin
  BY <1>2, <1>4 DEF Begin, Early, readVars
<1>5. CASE BuildDeployments
  <2>1. /\ job' = [j \in AllJobs |-> IF j.chain \in Up THEN "waiting" ELSE "none"]
        /\ queue' = {i \in DOMAIN Adapters : Adapters[i].chain \in Up}
        /\ phase' = "dispatch" /\ wallet' \in {"discovering", "over"}
        /\ setup' = setup
    BY <1>5 DEF BuildDeployments, setupVars
  <2>2. Up' = Up /\ WalletUp' = WalletUp /\ WalletUp \subseteq AllJobs
    BY <2>1 DEF Up, WalletUp, AllJobs
  <2>3. \A j \in WalletUp : j.chain \in Up
    BY DEF WalletUp
  <2> QED
    BY <2>1, <2>2, <2>3, Places DEF Jobs, Early, Ending
<1>6. CASE CheckCollecting
  BY <1>6 DEF CheckCollecting, setupVars, readVars, Jobs, Up, WalletUp, Early, Ending
<1>7. CASE Dispatch
  <2> DEFINE i == Min(queue)
             j == Adapters[i]
  <2>1. /\ phase = "send" /\ phase' = "dispatch" /\ queue' = queue \ {i}
        /\ \E next \in {"read", "reading"} : job' = [job EXCEPT ![j] = next]
        /\ UNCHANGED <<setup, wallet>>
    BY <1>7 DEF Dispatch, StartRead, setupVars
  <2>2. i \in queue
    BY <2>1, FirstPlace DEF Jobs
  <2>3. Up' = Up /\ WalletUp' = WalletUp /\ WalletUp \subseteq WalletJobs
    BY <2>1 DEF Up, WalletUp
  <2>4. /\ i \in DOMAIN Adapters /\ j \in AllJobs /\ j \notin WalletJobs
        /\ job[j] = "waiting"
        /\ \A k \in queue \ {i} : Adapters[k] # j /\ Adapters[k] \in AllJobs
    BY <2>1, <2>2, Places DEF Jobs
  <2> HIDE DEF i, j
  <2>5. /\ job' \in [AllJobs -> {"none", "waiting", "reading", "read", "unread"}]
        /\ \A k \in AllJobs \ {j} : job'[k] = job[k]
        /\ job'[j] \in {"read", "reading"}
    BY <2>1, <2>4 DEF Jobs
  <2>6. \A k \in AllJobs : job'[k] = "none" <=> k.chain \notin Up
    BY <2>1, <2>4, <2>5 DEF Jobs, Early
  <2>7. \A k \in queue' : job'[Adapters[k]] = "waiting"
    BY <2>1, <2>4, <2>5 DEF Jobs
  <2>8. wallet' \in {"discovering", "found"} => \A k \in WalletUp : job'[k] = "waiting"
    BY <2>1, <2>3, <2>4, <2>5 DEF Jobs, AllJobs
  <2> QED
    BY <2>1, <2>3, <2>5, <2>6, <2>7, <2>8 DEF Jobs, Early, Ending
<1>8. CASE CloseJobs
  BY <1>8 DEF CloseJobs, NothingToSend, setupVars, readVars, Jobs, Up, WalletUp, Early, Ending
<1>9. CASE SweepUndispatched
  <2> DEFINE i == Min(Undispatched)
             j == Adapters[i]
  <2>1. /\ phase = "drain" /\ phase' = "drain" /\ Undispatched # {}
        /\ job' = [job EXCEPT ![j] = "unread"]
        /\ UNCHANGED <<setup, wallet, queue>>
    BY <1>9 DEF SweepUndispatched, NextUndispatched, setupVars
  <2>2. i \in Undispatched
    BY <2>1, FirstPlace DEF Undispatched, Jobs
  <2>3. Up' = Up /\ WalletUp' = WalletUp /\ WalletUp \subseteq WalletJobs
    BY <2>1 DEF Up, WalletUp
  <2>4. j \in AllJobs /\ j \notin WalletJobs /\ job[j] = "waiting"
    BY <2>2, Places DEF Undispatched, Jobs
  <2> HIDE DEF i, j
  <2>5. /\ job' \in [AllJobs -> {"none", "waiting", "reading", "read", "unread"}]
        /\ \A k \in AllJobs \ {j} : job'[k] = job[k]
        /\ job'[j] = "unread"
    BY <2>1, <2>4 DEF Jobs
  <2>6. \A k \in AllJobs : job'[k] = "none" <=> k.chain \notin Up
    BY <2>1, <2>4, <2>5 DEF Jobs, Early
  <2>7. \A k \in queue' : job'[Adapters[k]] \in {"waiting", "unread"}
    BY <2>1, <2>4, <2>5, Places DEF Jobs
  <2>8. wallet' \in {"discovering", "found"} => \A k \in WalletUp : job'[k] = "waiting"
    BY <2>1, <2>3, <2>4, <2>5 DEF Jobs, AllJobs
  <2> QED
    BY <2>1, <2>3, <2>5, <2>6, <2>7, <2>8 DEF Jobs, Early, Ending
<1>10. ASSUME NEW j \in AllJobs, ReadAccount(j) PROVE Jobs'
  BY <1>1, <1>10 DEF ReadAccount, setupVars
<1>11. ASSUME NEW j \in AllJobs, ReportRead(j) PROVE Jobs'
  <2>1. /\ job[j] = "reading" /\ job' = [job EXCEPT ![j] = "read"]
        /\ UNCHANGED <<phase, setup, wallet, queue>>
    BY <1>11 DEF ReportRead, setupVars
  <2>2. Up' = Up /\ WalletUp' = WalletUp /\ WalletUp \subseteq AllJobs
    BY <2>1 DEF Up, WalletUp, AllJobs
  <2>3. /\ job' \in [AllJobs -> {"none", "waiting", "reading", "read", "unread"}]
        /\ \A k \in AllJobs \ {j} : job'[k] = job[k]
        /\ job'[j] = "read"
    BY <2>1 DEF Jobs
  <2>4. phase \notin Early /\ phase \notin Ending
    BY <2>1 DEF Jobs
  <2>5. \A k \in queue : Adapters[k] # j /\ Adapters[k] \in AllJobs
    BY <2>1, Places DEF Jobs
  <2>6. wallet \in {"discovering", "found"} => j \notin WalletUp
    BY <2>1 DEF Jobs
  <2> QED
    BY <2>1, <2>2, <2>3, <2>4, <2>5, <2>6 DEF Jobs
<1>12. CASE Settle
  BY <1>12 DEF Settle, Settled, setupVars, readVars, Jobs, Up, WalletUp, Early, Ending
<1>13. CASE Price
  BY <1>13 DEF Price, readVars, Jobs, Up, WalletUp, Early, Ending
<1>14. CASE Discover
  <2>1. /\ wallet = "discovering" /\ wallet' = "found"
        /\ UNCHANGED <<phase, setup, job, queue>>
    BY <1>14 DEF Discover, setupVars, readVars
  <2> QED
    BY <2>1 DEF Jobs, Up, WalletUp, Early, Ending
<1>15. CASE WalletStopped \/ WalletReads
  <2>1. /\ wallet = "found" /\ wallet' \in {"over", "reading"}
        /\ UNCHANGED <<phase, setup, queue>>
        /\ job' \in [AllJobs -> {"none", "waiting", "reading", "read", "unread"}]
        /\ \A k \in AllJobs : /\ k \in WalletUp => job'[k] \in {"unread", "read", "reading"}
                              /\ k \notin WalletUp => job'[k] = job[k]
    BY <1>15 DEF WalletStopped, WalletReads, setupVars, Jobs
  <2>2. Up' = Up /\ WalletUp' = WalletUp /\ WalletUp \subseteq WalletJobs
    BY <2>1 DEF Up, WalletUp
  <2>3. phase \notin Early /\ phase \notin Ending
    BY <2>1 DEF Jobs
  <2>4. \A k \in queue : Adapters[k] \notin WalletUp /\ Adapters[k] \in AllJobs
    BY <2>2, Places DEF Jobs
  <2>5. \A k \in WalletUp : k.chain \in Up
    BY DEF WalletUp
  <2> QED
    BY <2>1, <2>2, <2>3, <2>4, <2>5 DEF Jobs
<1>16. CASE WalletDone
  <2>1. /\ wallet = "reading" /\ wallet' = "over"
        /\ UNCHANGED <<phase, setup, job, queue>>
    BY <1>16 DEF WalletDone, setupVars, readVars
  <2> QED
    BY <2>1 DEF Jobs, Up, WalletUp, Early, Ending
<1>17. CASE StopCollecting \/ StopPricing \/ Finished \/ UNCHANGED vars
  BY <1>1, <1>17 DEF StopCollecting, StopPricing, Finished, vars, setupVars, readVars
<1> QED
  BY <1>3, <1>4, <1>5, <1>6, <1>7, <1>8, <1>9, <1>10, <1>11, <1>12, <1>13, <1>14,
     <1>15, <1>16, <1>17 DEF Next, Dispatcher, Wallet, Read

-----------------------------------------------------------------------------
(* The reads.                                                              *)

\* The dispatcher sends one deployment that was waiting.
LEMMA DispatchesOne ==
    ASSUME Jobs, Dispatch
    PROVE  \E j \in AllJobs : j \notin WalletJobs /\ job[j] = "waiting" /\ StartRead(j)
<1> DEFINE i == Min(queue)
<1>1. phase = "send" /\ StartRead(Adapters[i])
  BY DEF Dispatch
<1>2. i \in queue
  BY <1>1, FirstPlace DEF Jobs
<1>3. Adapters[i] \in AllJobs /\ Adapters[i] \notin WalletJobs /\ job[Adapters[i]] = "waiting"
  BY <1>1, <1>2, Places DEF Jobs
<1> HIDE DEF i
<1> QED
  BY <1>1, <1>3

\* The sweep gives up one deployment that was waiting.
LEMMA SweepsOne ==
    ASSUME Jobs, SweepUndispatched
    PROVE  \E j \in AllJobs : /\ j \notin WalletJobs /\ job[j] = "waiting"
                              /\ job' = [job EXCEPT ![j] = "unread"]
                              /\ ProbeDone(j.protocol)
<1> DEFINE i == Min(Undispatched)
<1>1. /\ Undispatched # {}
      /\ job' = [job EXCEPT ![Adapters[i]] = "unread"] /\ ProbeDone(Adapters[i].protocol)
  BY DEF SweepUndispatched, NextUndispatched
<1>2. i \in Undispatched
  BY <1>1, FirstPlace DEF Undispatched, Jobs
<1>3. Adapters[i] \in AllJobs /\ Adapters[i] \notin WalletJobs /\ job[Adapters[i]] = "waiting"
  BY <1>2, Places DEF Undispatched, Jobs
<1> HIDE DEF i
<1> QED
  BY <1>1, <1>3

\* Every step keeps the reads' part.
LEMMA NextReads == ASSUME Chains, Jobs, Reads, [Next]_vars PROVE Reads'
<1> DEFINE Unmoved == UNCHANGED <<account, failed, groups>>
<1>1. CASE /\ Unmoved /\ UNCHANGED <<stopped, provider, job, wallet>>
           /\ phase \in Early \/ setup' = setup
           /\ ~stopped /\ phase' \in Ending \cup {"drain"} => queue' = {}
           /\ late' \in BOOLEAN
  <2>1. provider \subseteq WalletUp'
    BY <1>1 DEF Jobs, Reads, Up, WalletUp
  <2>2. \A j \in AllJobs : LoopOver(j)' <=> LoopOver(j)
    BY <1>1 DEF LoopOver, AllAccountsRead
  <2> QED
    BY <1>1, <2>1, <2>2 DEF Reads
<1>2. ASSUME NEW c \in Asked, SetupChain(c) PROVE Reads'
  <2>1. phase = "setup" /\ phase' = "setup"
    BY <1>2, SetupPhase
  <2>2. Unmoved /\ UNCHANGED <<stopped, late, provider, job, wallet>>
    BY <1>2 DEF SetupChain, NoURL, Dial, Pin, ResolveAccounts, FailSetup, SetupVarsOnly, readVars
  <2> QED
    BY <1>1, <2>1, <2>2 DEF Reads, Early, Ending
<1>3. CASE Begin
  BY <1>1, <1>3 DEF Begin, readVars, Reads, Early, Ending
<1>4. CASE CheckCollecting
  BY <1>1, <1>4 DEF CheckCollecting, readVars, setupVars, Reads, Ending
<1>5. CASE CloseJobs
  BY <1>1, <1>5 DEF CloseJobs, NothingToSend, readVars, setupVars, Reads
<1>6. CASE Settle
  BY <1>1, <1>6 DEF Settle, readVars, setupVars, Reads
<1>7. CASE StopPricing \/ Finished \/ UNCHANGED vars
  BY <1>1, <1>7 DEF StopPricing, Finished, vars, readVars, setupVars, Reads
<1>8. CASE BuildDeployments
  <2>1. /\ job' = [j \in AllJobs |-> IF j.chain \in Up THEN "waiting" ELSE "none"]
        /\ phase = "setup" /\ phase' = "dispatch"
        /\ Unmoved /\ UNCHANGED <<stopped, late, provider>>
    BY <1>8 DEF BuildDeployments
  <2>2. provider' = {}
    BY <2>1 DEF Jobs, Reads, Early
  <2> QED
    BY <2>1, <2>2 DEF Reads, Ending
<1>9. CASE StopCollecting \/ Price
  <2>1. /\ stopped' = TRUE /\ Unmoved /\ UNCHANGED <<late, provider, job, wallet, setup>>
    BY <1>9 DEF StopCollecting, Price, setupVars, readVars
  <2>2. provider \subseteq WalletUp'
    BY <2>1 DEF Reads, Up, WalletUp
  <2>3. \A j \in AllJobs : LoopOver(j)' <=> LoopOver(j)
    BY <2>1 DEF LoopOver, AllAccountsRead
  <2> QED
    BY <2>1, <2>2, <2>3 DEF Reads
<1>10. CASE Dispatch
  <2>1. /\ phase' = "dispatch" /\ Unmoved
        /\ UNCHANGED <<stopped, late, provider, wallet, setup>>
    BY <1>10 DEF Dispatch, setupVars
  <2>2. PICK j \in AllJobs : job[j] = "waiting" /\ StartRead(j)
    BY <1>10, DispatchesOne
  <2>3. \E next \in {"read", "reading"} : /\ job' = [job EXCEPT ![j] = next]
                                          /\ next = "read" <=> j \in Inactive
    BY <2>2 DEF StartRead
  <2>4. /\ \A k \in AllJobs \ {j} : job'[k] = job[k]
        /\ job'[j] \in {"read", "reading"} /\ (job'[j] = "read" <=> j \in Inactive)
    BY <2>3 DEF Jobs
  <2>5. provider \subseteq WalletUp'
    BY <2>1 DEF Reads, Up, WalletUp
  <2>6. \A k \in AllJobs : LoopOver(k)' <=> LoopOver(k)
    BY <2>1 DEF LoopOver, AllAccountsRead
  <2> QED
    BY <2>1, <2>4, <2>5, <2>6 DEF Reads, Ending
<1>11. CASE SweepUndispatched
  <2>1. /\ phase = "drain" /\ Undispatched # {} /\ Unmoved
        /\ UNCHANGED <<phase, queue, stopped, late, provider, wallet, setup>>
    BY <1>11 DEF SweepUndispatched, setupVars
  <2>2. stopped
    BY <2>1 DEF Undispatched, Reads
  <2>3. PICK j \in AllJobs : job[j] = "waiting" /\ job' = [job EXCEPT ![j] = "unread"]
    BY <1>11, SweepsOne
  <2>4. /\ \A k \in AllJobs \ {j} : job'[k] = job[k]
        /\ job'[j] = "unread"
    BY <2>3 DEF Jobs
  <2>5. provider \subseteq WalletUp'
    BY <2>1 DEF Reads, Up, WalletUp
  <2>6. \A k \in AllJobs : LoopOver(k)' <=> LoopOver(k)
    BY <2>1 DEF LoopOver, AllAccountsRead
  <2> QED
    BY <2>1, <2>2, <2>4, <2>5, <2>6 DEF Reads
<1>12. ASSUME NEW j \in AllJobs, ReadAccount(j) PROVE Reads'
  <2>1. /\ job[j] = "reading" /\ ~LoopOver(j)
        /\ account' = [account EXCEPT ![j] = @ + 1]
        /\ UNCHANGED <<phase, queue, stopped, late, provider, wallet, setup, job>>
    BY <1>12 DEF ReadAccount, setupVars
  <2>2. /\ failed' \in [AllJobs -> BOOLEAN] /\ groups' \in [AllJobs -> BOOLEAN]
        /\ \A k \in AllJobs \ {j} : failed'[k] = failed[k]
    BY <1>12 DEF ReadAccount, Reads
  <2>3. j.chain \in Asked /\ AccountsOn[j.chain] \in Nat
    BY EngineAssumption
  <2>4. account[j] \in Nat /\ account[j] <= AccountsOn[j.chain] /\ account[j] # AccountsOn[j.chain]
    BY <2>1 DEF Reads, LoopOver, AllAccountsRead
  <2>5. /\ account' \in [AllJobs -> Nat]
        /\ \A k \in AllJobs \ {j} : account'[k] = account[k]
        /\ account'[j] <= AccountsOn[j.chain]
    BY <2>1, <2>3, <2>4 DEF Reads
  <2>6. provider \subseteq WalletUp'
    BY <2>1 DEF Reads, Up, WalletUp
  <2>7. \A k \in AllJobs \ {j} : LoopOver(k)' <=> LoopOver(k)
    BY <2>2, <2>5 DEF LoopOver, AllAccountsRead
  <2> QED
    BY <2>1, <2>2, <2>5, <2>6, <2>7 DEF Reads
<1>13. ASSUME NEW j \in AllJobs, ReportRead(j) PROVE Reads'
  <2>1. /\ LoopOver(j) /\ job' = [job EXCEPT ![j] = "read"] /\ Unmoved
        /\ UNCHANGED <<phase, queue, stopped, late, provider, wallet, setup>>
    BY <1>13 DEF ReportRead, setupVars
  <2>2. /\ \A k \in AllJobs \ {j} : job'[k] = job[k]
        /\ job'[j] = "read"
    BY <2>1 DEF Jobs
  <2>3. provider \subseteq WalletUp'
    BY <2>1 DEF Reads, Up, WalletUp
  <2>4. \A k \in AllJobs : LoopOver(k)' <=> LoopOver(k)
    BY <2>1 DEF LoopOver, AllAccountsRead
  <2> QED
    BY <2>1, <2>2, <2>3, <2>4 DEF Reads
<1>14. CASE Discover \/ WalletDone
  <2>1. /\ Unmoved /\ wallet' \in {"found", "over"}
        /\ UNCHANGED <<phase, queue, stopped, late, setup, job>>
    BY <1>14 DEF Discover, WalletDone, setupVars, readVars
  <2>2. provider' \subseteq WalletUp
    BY <1>14 DEF Discover, WalletDone, Reads
  <2>3. WalletUp' = WalletUp
    BY <2>1 DEF Up, WalletUp
  <2>4. \A k \in AllJobs : LoopOver(k)' <=> LoopOver(k)
    BY <2>1 DEF LoopOver, AllAccountsRead
  <2> QED
    BY <2>1, <2>2, <2>3, <2>4 DEF Reads
<1>15. CASE WalletStopped \/ WalletReads
  <2>1. /\ Unmoved /\ wallet' \in {"reading", "over"}
        /\ UNCHANGED <<phase, queue, stopped, late, setup, provider>>
        /\ \A k \in AllJobs : \/ job'[k] = job[k]
                              \/ job'[k] = "unread" /\ stopped
                              \/ job'[k] = "reading" /\ k \notin Inactive
                              \/ job'[k] = "read" /\ k \in Inactive
    BY <1>15 DEF WalletStopped, WalletReads, setupVars
  <2>2. provider \subseteq WalletUp'
    BY <2>1 DEF Reads, Up, WalletUp
  <2>3. \A k \in AllJobs : LoopOver(k)' <=> LoopOver(k)
    BY <2>1 DEF LoopOver, AllAccountsRead
  <2> QED
    BY <2>1, <2>2, <2>3 DEF Reads
<1> QED
  BY <1>2, <1>3, <1>4, <1>5, <1>6, <1>7, <1>8, <1>9, <1>10, <1>11, <1>12, <1>13, <1>14,
     <1>15 DEF Next, Dispatcher, Wallet, Read

-----------------------------------------------------------------------------
(* The probes.                                                             *)

\* The deployments are finitely many, and counted to none only when none is left.
LEMMA Counting ==
    ASSUME NEW S, S \subseteq AllJobs
    PROVE  /\ Cardinality(S) \in Nat
           /\ Cardinality(S) = 0 <=> S = {}
           /\ \A j \in S : Cardinality(S \ {j}) = Cardinality(S) - 1
<1>1. IsFiniteSet(S)
  BY FS_Subset, EngineAssumption
<1>2. Cardinality(S) \in Nat /\ (Cardinality(S) = 0 <=> S = {})
  BY <1>1, FS_CardinalityType, FS_EmptySet
<1>3. \A j \in S : Cardinality(S \ {j}) = Cardinality(S) - 1
  BY <1>1, FS_RemoveElement
<1> QED
  BY <1>2, <1>3

\* A step that changes no job of a probed protocol keeps the probes' part.
LEMMA ProbesKept ==
    ASSUME Probes, UNCHANGED probeVars,
           phase \in Early \/ phase' \notin Early,
           \A p \in Protocols \cap Probing : Pending(p)' = Pending(p)
    PROVE  Probes'
  BY DEF Probes, probeVars

\* A deployment that is done with is counted out, and the last ends the probes.
LEMMA CountedOut ==
    ASSUME Jobs, Probes, NEW j \in AllJobs, ProbeDone(j.protocol), phase' \notin Early,
           job[j] \in {"waiting", "reading"},
           NEW next \in {"read", "unread"}, job' = [job EXCEPT ![j] = next]
    PROVE  Probes'
<1>1. /\ job'[j] = next /\ \A k \in AllJobs \ {j} : job'[k] = job[k]
      /\ j.protocol \in Protocols
  BY DEF Jobs, Protocols
<1>2. /\ left' = [left EXCEPT ![j.protocol] = IF @ > 0 THEN @ - 1 ELSE 0]
      /\ probe' = [probe EXCEPT ![j.protocol] = IF left[j.protocol] = 1 THEN "cancelled" ELSE @]
  BY DEF ProbeDone
<1>3. /\ left \in [Protocols -> Nat]
      /\ probe \in [Protocols -> {"none", "live", "cancelled"}]
  BY DEF Probes
<1>4. /\ left' \in [Protocols -> Nat]
      /\ probe' \in [Protocols -> {"none", "live", "cancelled"}]
  <2>1. (IF left[j.protocol] > 0 THEN left[j.protocol] - 1 ELSE 0) \in Nat
    BY <1>1, <1>3
  <2>2. (IF left[j.protocol] = 1 THEN "cancelled" ELSE probe[j.protocol])
            \in {"none", "live", "cancelled"}
    BY <1>1, <1>3
  <2> QED
    BY <1>2, <1>3, <2>1, <2>2
<1>5. ASSUME NEW p \in Protocols, p # j.protocol
      PROVE  left'[p] = left[p] /\ probe'[p] = probe[p] /\ Pending(p)' = Pending(p)
  BY <1>1, <1>2, <1>3, <1>5 DEF Pending
<1>6. ASSUME NEW p \in Protocols, p = j.protocol
      PROVE  /\ probe'[p] # "none" => p \in Probing
             /\ left'[p] = IF probe'[p] = "none" THEN 0 ELSE Cardinality(Pending(p)')
             /\ probe'[p] = "live" <=> left'[p] # 0
  <2>1. Pending(p)' = Pending(p) \ {j} /\ j \in Pending(p) /\ Pending(p) \subseteq AllJobs
    BY <1>1, <1>6 DEF Pending
  <2>2. /\ Cardinality(Pending(p)') = Cardinality(Pending(p)) - 1
        /\ Cardinality(Pending(p)) \in Nat \ {0}
    <3>1. PICK S \in SUBSET AllJobs : S = Pending(p)
      BY <2>1
    <3>2. Cardinality(S) \in Nat \ {0} /\ Cardinality(S \ {j}) = Cardinality(S) - 1
      BY <2>1, <3>1, Counting
    <3> QED
      BY <2>1, <3>1, <3>2
  <2>3. /\ left'[p] = IF left[p] > 0 THEN left[p] - 1 ELSE 0
        /\ probe'[p] = IF left[p] = 1 THEN "cancelled" ELSE probe[p]
    BY <1>2, <1>3, <1>6
  <2>4. /\ probe[p] # "none" => p \in Probing
        /\ left[p] = IF probe[p] = "none" THEN 0 ELSE Cardinality(Pending(p))
        /\ probe[p] = "live" <=> left[p] # 0
        /\ probe[p] \in {"none", "live", "cancelled"}
    BY DEF Probes
  <2> HIDE DEF Pending
  <2> QED
    BY <2>2, <2>3, <2>4
<1> QED
  BY <1>4, <1>5, <1>6 DEF Probes

\* Every step keeps the probes' part.
LEMMA NextProbes == ASSUME Chains, Jobs, Probes, [Next]_vars PROVE Probes'
<1>1. CASE UNCHANGED <<left, probe, job>> /\ (phase \in Early \/ phase' \notin Early)
  <2>1. \A p : Pending(p)' = Pending(p)
    BY <1>1 DEF Pending
  <2> QED
    BY <1>1, <2>1, ProbesKept DEF probeVars
<1>2. ASSUME NEW c \in Asked, SetupChain(c) PROVE Probes'
  <2>1. phase \in Early
    BY <1>2, SetupPhase DEF Early
  <2>2. UNCHANGED <<left, probe, job>>
    BY <1>2 DEF SetupChain, NoURL, Dial, Pin, ResolveAccounts, FailSetup, SetupVarsOnly,
                readVars, probeVars
  <2> QED
    BY <1>1, <2>1, <2>2
<1>3. CASE Begin
  BY <1>1, <1>3 DEF Begin, readVars, probeVars, Early
<1>4. CASE BuildDeployments
  <2>1. PICK pre \in SUBSET (Probing \cap Protocols) :
          /\ left' = [p \in Protocols |->
                        IF p \in pre THEN Cardinality(DeploymentsOf(p)) ELSE 0]
          /\ probe' = [p \in Protocols |->
                        IF p \notin pre THEN "none"
                        ELSE IF DeploymentsOf(p) = {} THEN "cancelled" ELSE "live"]
    BY <1>4 DEF BuildDeployments
  <2>2. /\ job' = [j \in AllJobs |-> IF j.chain \in Up THEN "waiting" ELSE "none"]
        /\ phase' = "dispatch"
    BY <1>4 DEF BuildDeployments
  <2>3. \A p \in Protocols : Pending(p)' = DeploymentsOf(p) /\ DeploymentsOf(p) \subseteq AllJobs
    BY <2>2 DEF Pending, DeploymentsOf
  <2> HIDE DEF Pending, DeploymentsOf
  <2>4. \A p \in Protocols : /\ Cardinality(DeploymentsOf(p)) \in Nat
                             /\ Cardinality(DeploymentsOf(p)) = 0 <=> DeploymentsOf(p) = {}
    BY <2>3, Counting
  <2>5. /\ left' \in [Protocols -> Nat]
        /\ probe' \in [Protocols -> {"none", "live", "cancelled"}]
    BY <2>1, <2>4
  <2>6. ASSUME NEW p \in Protocols
        PROVE  /\ probe'[p] # "none" => p \in Probing
               /\ left'[p] = IF probe'[p] = "none" THEN 0 ELSE Cardinality(Pending(p)')
               /\ probe'[p] = "live" <=> left'[p] # 0
    <3>1. /\ left'[p] = IF p \in pre THEN Cardinality(DeploymentsOf(p)) ELSE 0
          /\ probe'[p] = IF p \notin pre THEN "none"
                         ELSE IF DeploymentsOf(p) = {} THEN "cancelled" ELSE "live"
      BY <2>1
    <3> QED
      BY <2>3, <2>4, <3>1
  <2> QED
    BY <2>2, <2>5, <2>6 DEF Probes, Early
<1>5. CASE CheckCollecting \/ CloseJobs \/ Settle
  BY <1>1, <1>5 DEF CheckCollecting, CloseJobs, Settle, readVars, probeVars, Early
<1>6. CASE Dispatch
  <2>1. phase' = "dispatch"
    BY <1>6 DEF Dispatch
  <2>2. PICK j \in AllJobs : job[j] = "waiting" /\ StartRead(j)
    BY <1>6, DispatchesOne
  <2>3. CASE j \in Inactive
    BY <2>1, <2>2, <2>3, CountedOut DEF StartRead, Early
  <2>4. CASE j \notin Inactive
    <3>1. job' = [job EXCEPT ![j] = "reading"] /\ UNCHANGED probeVars
      BY <2>2, <2>4 DEF StartRead
    <3>2. job'[j] = "reading" /\ \A k \in AllJobs \ {j} : job'[k] = job[k]
      BY <3>1 DEF Jobs
    <3>3. \A p : Pending(p)' = Pending(p)
      BY <2>2, <3>2 DEF Pending
    <3> QED
      BY <2>1, <3>1, <3>3, ProbesKept DEF Early
  <2> QED
    BY <2>3, <2>4
<1>7. CASE SweepUndispatched
  <2>1. phase' = "drain"
    BY <1>7 DEF SweepUndispatched
  <2> QED
    BY <1>7, <2>1, SweepsOne, CountedOut DEF Early
<1>8. ASSUME NEW j \in AllJobs, ReadAccount(j) PROVE Probes'
  BY <1>1, <1>8 DEF ReadAccount, probeVars
<1>9. ASSUME NEW j \in AllJobs, ReportRead(j) PROVE Probes'
  <2>1. /\ job[j] = "reading" /\ job' = [job EXCEPT ![j] = "read"]
        /\ ProbeDone(j.protocol) /\ phase' = phase
    BY <1>9 DEF ReportRead
  <2>2. phase \notin Early
    BY <2>1 DEF Jobs
  <2> QED
    BY <2>1, <2>2, CountedOut
<1>10. CASE Price
  <2>1. /\ phase = "price" /\ phase' = "done" /\ job' = job /\ left' = left
        /\ probe' = [p \in Protocols |-> IF probe[p] = "live" THEN "cancelled" ELSE probe[p]]
    BY <1>10 DEF Price, readVars
  <2>2. ASSUME NEW p \in Protocols PROVE probe[p] # "live"
    <3>1. Pending(p) = {} /\ Pending(p) \subseteq AllJobs
      BY <2>1 DEF Jobs, Pending, Ending
    <3>2. Cardinality(Pending(p)) = 0
      BY <3>1, Counting
    <3> QED
      BY <3>2 DEF Probes
  <2>3. probe' = probe
    BY <2>1, <2>2 DEF Probes
  <2> QED
    BY <1>1, <2>1, <2>3 DEF Early
<1>11. CASE Discover \/ WalletDone
  BY <1>1, <1>11 DEF Discover, WalletDone, readVars, probeVars
<1>12. CASE WalletStopped \/ WalletReads
  <2>1. /\ UNCHANGED probeVars /\ phase' = phase
        /\ \A k \in AllJobs : k \notin WalletUp => job'[k] = job[k]
    BY <1>12 DEF WalletStopped, WalletReads
  <2>2. \A k \in WalletUp : k.protocol \notin Probing
    BY EngineAssumption DEF WalletUp
  <2>3. \A p \in Protocols \cap Probing : Pending(p)' = Pending(p)
    BY <2>1, <2>2 DEF Pending
  <2> QED
    BY <2>1, <2>3, ProbesKept
<1>13. CASE StopCollecting \/ StopPricing \/ Finished \/ UNCHANGED vars
  BY <1>1, <1>13 DEF StopCollecting, StopPricing, Finished, vars, readVars, probeVars
<1> QED
  BY <1>2, <1>3, <1>4, <1>5, <1>6, <1>7, <1>8, <1>9, <1>10, <1>11, <1>12, <1>13
     DEF Next, Dispatcher, Wallet, Read

-----------------------------------------------------------------------------
(* The errors.                                                             *)

\* The entries of chains, of jobs and of neither are apart.
LEMMA EntriesApart ==
    /\ \A c \in Asked : /\ <<"chain", c>> \in Entries /\ <<"incomplete", c>> \in Entries
                        /\ c \notin AllJobs /\ c # NoChain
    /\ \A j \in AllJobs : /\ <<"protocol", j>> \in Entries /\ <<"incomplete", j>> \in Entries
                          /\ j \notin Asked /\ j # NoChain
  BY EngineAssumption DEF Entries

\* An entry that is added is counted once more, and no other changes.
LEMMA Adds ==
    ASSUME errors \in [Entries -> Nat], NEW E, Add(E)
    PROVE  /\ errors' \in [Entries -> Nat]
           /\ \A e \in Entries : /\ e \in E => errors'[e] = errors[e] + 1
                                 /\ e \notin E => errors'[e] = errors[e]
  BY DEF Add

\* A step that says nothing keeps the errors' part, when nothing falls due.
LEMMA SaidKept ==
    ASSUME Said, errors' = errors, stopped => stopped',
           \A c \in Asked : DueOfChain(c)' = DueOfChain(c),
           \A j \in AllJobs : DueOfJob(j)' = DueOfJob(j)
    PROVE  Said'
  BY DEF Said

\* What is due of a job depends on its read alone, before the end.
LEMMA DueKept ==
    ASSUME NEW j \in AllJobs, phase \in Ending <=> phase' \in Ending,
           UNCHANGED <<job, failed, provider>>
    PROVE  DueOfJob(j)' = DueOfJob(j)
  BY DEF DueOfJob

\* A chain that fails says so once.
LEMMA ChainSaid ==
    ASSUME Chains, Said, NEW c \in Asked, setup[c] \in {"dial", "pin", "accounts"},
           c \notin Disabled, setup' = [setup EXCEPT ![c] = "down"],
           NEW e \in {<<"chain", c>>, <<"incomplete", c>>}, Add({e}),
           e = <<"incomplete", c>> => stopped,
           UNCHANGED <<phase, stopped, job, failed, provider>>
    PROVE  Said'
<1>1. /\ errors' \in [Entries -> Nat]
      /\ \A f \in Entries : /\ f = e => errors'[f] = errors[f] + 1
                            /\ f # e => errors'[f] = errors[f]
  BY Adds DEF Said
<1>2. \A j \in AllJobs : DueOfJob(j)' = DueOfJob(j)
  BY DueKept
<1>3. \A j \in AllJobs : /\ errors'[<<"protocol", j>>] = errors[<<"protocol", j>>]
                        /\ errors'[<<"incomplete", j>>] = errors[<<"incomplete", j>>]
  <2>1. ASSUME NEW j \in AllJobs PROVE <<"protocol", j>> # e /\ <<"incomplete", j>> # e
    <3>1. c # j
      BY EntriesApart
    <3>2. CASE e = <<"chain", c>>
      BY <3>1, <3>2
    <3>3. CASE e = <<"incomplete", c>>
      BY <3>1, <3>3
    <3> QED
      BY <3>2, <3>3
  <2> QED
    BY <1>1, <2>1, EntriesApart
<1>4. ASSUME NEW d \in Asked, d # c
      PROVE  /\ errors'[<<"chain", d>>] = errors[<<"chain", d>>]
             /\ errors'[<<"incomplete", d>>] = errors[<<"incomplete", d>>]
             /\ DueOfChain(d)' = DueOfChain(d)
  <2>1. setup'[d] = setup[d]
    BY <1>4 DEF Chains
  <2> QED
    BY <1>1, <1>4, <2>1, EntriesApart DEF DueOfChain
<1>5. DueOfChain(c) = 0 /\ DueOfChain(c)' = 1
  BY DEF DueOfChain, Chains
<1>6. /\ errors[<<"chain", c>>] \in Nat /\ errors[<<"incomplete", c>>] \in Nat
      /\ errors[<<"chain", c>>] + errors[<<"incomplete", c>>] = 0
  BY <1>5, EntriesApart DEF Said
<1>7. \/ /\ errors'[<<"chain", c>>] = errors[<<"chain", c>>] + 1
         /\ errors'[<<"incomplete", c>>] = errors[<<"incomplete", c>>]
      \/ /\ errors'[<<"chain", c>>] = errors[<<"chain", c>>]
         /\ errors'[<<"incomplete", c>>] = errors[<<"incomplete", c>>] + 1
         /\ stopped
  BY <1>1, EntriesApart
<1>8. errors'[<<"chain", c>>] + errors'[<<"incomplete", c>>] = 1
  BY <1>6, <1>7
<1>9. ~stopped => errors'[<<"incomplete", c>>] = 0
  BY <1>6, <1>7
<1>10. \A d \in Asked : errors'[<<"chain", d>>] + errors'[<<"incomplete", d>>] = DueOfChain(d)'
  BY <1>4, <1>5, <1>8 DEF Said
<1>11. ~stopped => \A d \in Asked : errors'[<<"incomplete", d>>] = 0
  BY <1>4, <1>9 DEF Said
<1> QED
  BY <1>1, <1>2, <1>3, <1>10, <1>11 DEF Said

\* Every step keeps the errors' part.
LEMMA NextSaid == ASSUME Chains, Jobs, Reads, Said, [Next]_vars PROVE Said'
<1>1. CASE /\ UNCHANGED <<setup, job, failed, provider, errors>>
           /\ stopped => stopped'
           /\ phase \in Ending <=> phase' \in Ending
  BY <1>1, DueKept, SaidKept DEF DueOfChain
<1>2. ASSUME NEW c \in Asked, SetupChain(c) PROVE Said'
  <2>1. /\ phase = "setup" /\ phase' = phase /\ c \notin Disabled
        /\ setup[c] \in {"dial", "pin", "accounts"}
    BY <1>2, SetupPhase
  <2>2. UNCHANGED <<stopped, job, failed, provider>>
    BY <1>2 DEF SetupChain, NoURL, Dial, Pin, ResolveAccounts, FailSetup, SetupVarsOnly, readVars
  <2>3. CASE NoURL(c)
    BY <2>1, <2>2, <2>3, ChainSaid DEF NoURL
  <2>4. CASE FailSetup(c)
    BY <2>1, <2>2, <2>4, ChainSaid DEF FailSetup, ChainFails, ChainEntry
  <2>5. CASE Dial(c) \/ Pin(c) \/ ResolveAccounts(c)
    <3>1. /\ \E next \in {"pin", "accounts", "up"} : setup' = [setup EXCEPT ![c] = next]
          /\ errors' = errors
      BY <2>5 DEF Dial, Pin, ResolveAccounts
    <3>2. \A d \in Asked : setup'[d] = "down" <=> setup[d] = "down"
      BY <2>1, <3>1 DEF Chains
    <3>3. \A d \in Asked : DueOfChain(d)' = DueOfChain(d)
      BY <3>2 DEF DueOfChain
    <3> QED
      BY <2>1, <2>2, <3>1, <3>3, SaidKept, DueKept
  <2> QED
    BY <1>2, <2>3, <2>4, <2>5 DEF SetupChain
<1>3. CASE Begin
  <2> DEFINE E == IF Named THEN {"chain"} \X (Asked \cap Disabled) ELSE {}
  <2>1. /\ Add(E) /\ UNCHANGED <<stopped, job, failed, provider>>
        /\ phase = "start" /\ phase' = "setup"
        /\ setup' = [c \in Asked |-> IF c \in Served THEN "dial" ELSE "down"]
    BY <1>3 DEF Begin, readVars
  <2>2. /\ errors' \in [Entries -> Nat]
        /\ \A e \in Entries : /\ e \in E => errors'[e] = errors[e] + 1
                              /\ e \notin E => errors'[e] = errors[e]
    BY <2>1, Adds DEF Said
  <2>3. \A j \in AllJobs : DueOfJob(j)' = DueOfJob(j)
    BY <2>1, DueKept DEF Ending
  <2>4. \A j \in AllJobs : /\ errors'[<<"protocol", j>>] = errors[<<"protocol", j>>]
                          /\ errors'[<<"incomplete", j>>] = errors[<<"incomplete", j>>]
    BY <2>2, EntriesApart
  <2>5. ASSUME NEW c \in Asked
        PROVE  /\ errors'[<<"chain", c>>] + errors'[<<"incomplete", c>>] = DueOfChain(c)'
               /\ errors'[<<"incomplete", c>>] = errors[<<"incomplete", c>>]
    <3>1. DueOfChain(c) = 0
      BY <2>1 DEF DueOfChain, Chains
    <3>2. /\ errors[<<"chain", c>>] \in Nat /\ errors[<<"incomplete", c>>] \in Nat
          /\ errors[<<"chain", c>>] + errors[<<"incomplete", c>>] = 0
      BY <3>1, EntriesApart DEF Said
    <3>3. errors'[<<"incomplete", c>>] = errors[<<"incomplete", c>>]
      BY <2>2, EntriesApart
    <3>4. CASE c \in Disabled /\ Named
      <4>1. <<"chain", c>> \in E /\ setup'[c] = "down"
        BY <2>1, <3>4 DEF Served
      <4>2. errors'[<<"chain", c>>] = errors[<<"chain", c>>] + 1 /\ DueOfChain(c)' = 1
        BY <2>2, <3>4, <4>1, EntriesApart DEF DueOfChain
      <4> QED
        BY <3>2, <3>3, <4>2
    <3>5. CASE ~(c \in Disabled /\ Named)
      <4>1. <<"chain", c>> \notin E /\ (setup'[c] = "down" <=> c \in Disabled)
        BY <2>1, <3>5 DEF Served
      <4>2. errors'[<<"chain", c>>] = errors[<<"chain", c>>] /\ DueOfChain(c)' = 0
        BY <2>2, <3>5, <4>1, EntriesApart DEF DueOfChain
      <4> QED
        BY <3>2, <3>3, <4>2
    <3> QED
      BY <3>4, <3>5
  <2> QED
    BY <2>1, <2>2, <2>3, <2>4, <2>5 DEF Said
<1>4. CASE BuildDeployments
  <2>1. /\ job' = [j \in AllJobs |-> IF j.chain \in Up THEN "waiting" ELSE "none"]
        /\ phase = "setup" /\ phase' = "dispatch"
        /\ UNCHANGED <<errors, setup, stopped>>
    BY <1>4 DEF BuildDeployments, setupVars
  <2>2. \A j \in AllJobs : DueOfJob(j) = 0 /\ DueOfJob(j)' = 0
    BY <2>1 DEF DueOfJob, Jobs, Early, Ending
  <2> QED
    BY <2>1, <2>2, SaidKept DEF DueOfChain
<1>5. CASE CheckCollecting \/ CloseJobs
  BY <1>1, <1>5 DEF CheckCollecting, CloseJobs, NothingToSend, readVars, setupVars, Ending
<1>6. CASE Dispatch
  <2>1. /\ phase = "send" /\ phase' = "dispatch"
        /\ UNCHANGED <<setup, stopped, errors, failed, provider>>
    BY <1>6 DEF Dispatch, setupVars
  <2>2. PICK j \in AllJobs : job[j] = "waiting" /\ StartRead(j)
    BY <1>6, DispatchesOne
  <2>3. /\ job'[j] = "reading" \/ (job'[j] = "read" /\ j \in Inactive)
        /\ \A k \in AllJobs \ {j} : job'[k] = job[k]
    BY <2>2 DEF StartRead, Jobs
  <2>4. \A k \in AllJobs : DueOfJob(k)' = DueOfJob(k)
    BY <2>1, <2>2, <2>3 DEF DueOfJob, Ending
  <2> QED
    BY <2>1, <2>4, SaidKept DEF DueOfChain
<1>7. CASE SweepUndispatched
  <2>1. /\ phase = "drain" /\ phase' = "drain"
        /\ UNCHANGED <<setup, stopped, errors, failed, provider>>
    BY <1>7 DEF SweepUndispatched, setupVars
  <2>2. PICK j \in AllJobs : job[j] = "waiting" /\ job' = [job EXCEPT ![j] = "unread"]
    BY <1>7, SweepsOne
  <2>3. job'[j] = "unread" /\ \A k \in AllJobs \ {j} : job'[k] = job[k]
    BY <2>2 DEF Jobs
  <2>4. \A k \in AllJobs : DueOfJob(k)' = DueOfJob(k)
    BY <2>1, <2>2, <2>3 DEF DueOfJob, Ending
  <2> QED
    BY <2>1, <2>4, SaidKept DEF DueOfChain
<1>8. ASSUME NEW j \in AllJobs, ReadAccount(j) PROVE Said'
  <2>1. job[j] = "reading" /\ UNCHANGED <<phase, setup, stopped, job, errors, provider>>
    BY <1>8 DEF ReadAccount, setupVars
  <2>2. \A k \in AllJobs \ {j} : failed'[k] = failed[k]
    BY <1>8 DEF ReadAccount, Reads
  <2>3. \A k \in AllJobs : DueOfJob(k)' = DueOfJob(k)
    BY <2>1, <2>2 DEF DueOfJob
  <2> QED
    BY <2>1, <2>3, SaidKept DEF DueOfChain
<1>9. ASSUME NEW j \in AllJobs, ReportRead(j) PROVE Said'
  <2>1. /\ job[j] = "reading" /\ job' = [job EXCEPT ![j] = "read"]
        /\ UNCHANGED <<phase, setup, stopped, failed, provider>>
    BY <1>9 DEF ReportRead, setupVars
  <2>2. PICK noted \in SUBSET {<<"coverage", j>>} :
          errors' = [e \in Entries |-> errors[e]
                      + (IF failed[j] /\ e = FailureEntry(j) THEN 1 ELSE 0)
                      + (IF j \in provider /\ e = <<"protocol", j>> THEN 1 ELSE 0)
                      + (IF e \in noted THEN 1 ELSE 0)]
    BY <1>9 DEF ReportRead
  <2>3. FailureEntry(j) = IF stopped THEN <<"incomplete", j>> ELSE <<"protocol", j>>
    BY DEF FailureEntry
  <2>4. errors' \in [Entries -> Nat]
    BY <2>2 DEF Said
  <2>5. ASSUME NEW e \in Entries, e # <<"incomplete", j>>, e # <<"protocol", j>>,
                e # <<"coverage", j>>
         PROVE  errors'[e] = errors[e]
    <3>1. e # FailureEntry(j) /\ e \notin noted
      BY <2>3, <2>5
    <3>2. errors[e] \in Nat
      BY DEF Said
    <3>3. errors'[e] = errors[e] + 0 + 0 + 0
      BY <2>2, <2>5, <3>1
    <3> QED
      BY <3>2, <3>3
  <2>6. \A c \in Asked : /\ errors'[<<"chain", c>>] = errors[<<"chain", c>>]
                        /\ errors'[<<"incomplete", c>>] = errors[<<"incomplete", c>>]
                        /\ DueOfChain(c)' = DueOfChain(c)
    BY <2>1, <2>5, EntriesApart DEF DueOfChain
  <2>7. ASSUME NEW k \in AllJobs, k # j
        PROVE  /\ errors'[<<"protocol", k>>] = errors[<<"protocol", k>>]
               /\ errors'[<<"incomplete", k>>] = errors[<<"incomplete", k>>]
               /\ DueOfJob(k)' = DueOfJob(k)
    <3>1. /\ errors'[<<"protocol", k>>] = errors[<<"protocol", k>>]
          /\ errors'[<<"incomplete", k>>] = errors[<<"incomplete", k>>]
      BY <2>7, <2>5, EntriesApart
    <3>2. job'[k] = job[k]
      BY <2>1, <2>7 DEF Jobs
    <3> QED
      BY <2>1, <3>1, <3>2 DEF DueOfJob
  <2>8. /\ DueOfJob(j) = 0
        /\ DueOfJob(j)' = (IF failed[j] THEN 1 ELSE 0) + (IF j \in provider THEN 1 ELSE 0)
    <3>1. job'[j] = "read" /\ j \notin Inactive
      BY <2>1 DEF Jobs, Reads
    <3> QED
      BY <2>1, <3>1 DEF DueOfJob
  <2>9. /\ errors[<<"protocol", j>>] \in Nat /\ errors[<<"incomplete", j>>] \in Nat
        /\ errors[<<"protocol", j>>] + errors[<<"incomplete", j>>] = 0
    BY <2>8, EntriesApart DEF Said
  <2>10. /\ errors'[<<"protocol", j>>] = errors[<<"protocol", j>>]
               + (IF failed[j] /\ ~stopped THEN 1 ELSE 0)
               + (IF j \in provider THEN 1 ELSE 0) + 0
        /\ errors'[<<"incomplete", j>>] = errors[<<"incomplete", j>>]
               + (IF failed[j] /\ stopped THEN 1 ELSE 0) + 0 + 0
    BY <2>2, <2>3, EntriesApart
  <2>11. errors'[<<"protocol", j>>] + errors'[<<"incomplete", j>>] = DueOfJob(j)'
    <3>1. CASE failed[j] /\ j \in provider
      BY <2>8, <2>9, <2>10, <3>1
    <3>2. CASE failed[j] /\ j \notin provider
      BY <2>8, <2>9, <2>10, <3>2
    <3>3. CASE ~failed[j] /\ j \in provider
      BY <2>8, <2>9, <2>10, <3>3
    <3>4. CASE ~failed[j] /\ j \notin provider
      BY <2>8, <2>9, <2>10, <3>4
    <3> QED
      BY <3>1, <3>2, <3>3, <3>4
  <2>12. ~stopped => errors'[<<"incomplete", j>>] = 0
    BY <2>9, <2>10
  <2>13. \A k \in AllJobs : errors'[<<"protocol", k>>] + errors'[<<"incomplete", k>>] = DueOfJob(k)'
    BY <2>7, <2>11 DEF Said
  <2>14. ~stopped => \A k \in AllJobs : errors'[<<"incomplete", k>>] = 0
    BY <2>7, <2>12 DEF Said
  <2> QED
    BY <2>1, <2>4, <2>6, <2>13, <2>14 DEF Said
<1>10. CASE Settle
  <2> DEFINE E == {"incomplete"} \X (Unread \ Inactive)
  <2>1. /\ phase = "drain" /\ phase' = "price" /\ Add(E) /\ Settled
        /\ UNCHANGED <<setup, stopped, job, failed, provider>>
    BY <1>10 DEF Settle, setupVars, readVars
  <2>2. /\ errors' \in [Entries -> Nat]
        /\ \A e \in Entries : /\ e \in E => errors'[e] = errors[e] + 1
                              /\ e \notin E => errors'[e] = errors[e]
    BY <2>1, Adds DEF Said
  <2>3. \A c \in Asked : /\ errors'[<<"chain", c>>] = errors[<<"chain", c>>]
                        /\ errors'[<<"incomplete", c>>] = errors[<<"incomplete", c>>]
                        /\ DueOfChain(c)' = DueOfChain(c)
    BY <2>1, <2>2, EntriesApart DEF DueOfChain, Unread
  <2>4. ASSUME NEW j \in AllJobs
        PROVE  errors'[<<"protocol", j>>] + errors'[<<"incomplete", j>>] = DueOfJob(j)'
    <3>1. errors'[<<"protocol", j>>] = errors[<<"protocol", j>>]
      BY <2>2, EntriesApart
    <3>2. /\ errors[<<"protocol", j>>] \in Nat /\ errors[<<"incomplete", j>>] \in Nat
          /\ errors[<<"protocol", j>>] + errors[<<"incomplete", j>>] = DueOfJob(j)
      BY EntriesApart DEF Said
    <3>3. CASE j \in Unread \ Inactive
      <4>1. errors'[<<"incomplete", j>>] = errors[<<"incomplete", j>>] + 1
        BY <2>2, <3>3, EntriesApart
      <4>2. DueOfJob(j) = 0 /\ DueOfJob(j)' = 1
        BY <2>1, <3>3 DEF Unread, DueOfJob, Ending
      <4> QED
        BY <3>1, <3>2, <4>1, <4>2
    <3>4. CASE j \notin Unread \ Inactive
      <4>1. errors'[<<"incomplete", j>>] = errors[<<"incomplete", j>>]
        BY <2>2, <3>4, EntriesApart
      <4>2. DueOfJob(j)' = DueOfJob(j)
        BY <2>1, <3>4 DEF Unread, DueOfJob
      <4> QED
        BY <3>1, <3>2, <4>1, <4>2
    <3> QED
      BY <3>3, <3>4
  <2>5. ~stopped => \A j \in AllJobs : errors'[<<"incomplete", j>>] = 0
    <3>1. ~stopped => E = {}
      BY DEF Unread, Reads
    <3> QED
      BY <2>2, <3>1, EntriesApart DEF Said
  <2> QED
    BY <2>1, <2>2, <2>3, <2>4, <2>5 DEF Said
<1>11. CASE Price
  <2>1. /\ phase = "price" /\ phase' = "done" /\ stopped' = TRUE
        /\ UNCHANGED <<setup, job, failed, provider>>
    BY <1>11 DEF Price, readVars
  <2>2. PICK E \in SUBSET {<<"pricing", NoChain>>, <<"incomplete", NoChain>>} : Add(E)
    BY <1>11 DEF Price
  <2>3. /\ errors' \in [Entries -> Nat]
        /\ \A e \in Entries : e \notin E => errors'[e] = errors[e]
    BY <2>2, Adds DEF Said
  <2>4. \A c \in Asked : /\ errors'[<<"chain", c>>] = errors[<<"chain", c>>]
                        /\ errors'[<<"incomplete", c>>] = errors[<<"incomplete", c>>]
                        /\ DueOfChain(c)' = DueOfChain(c)
    BY <2>1, <2>3, EntriesApart DEF DueOfChain
  <2>5. \A j \in AllJobs : /\ errors'[<<"protocol", j>>] = errors[<<"protocol", j>>]
                          /\ errors'[<<"incomplete", j>>] = errors[<<"incomplete", j>>]
    BY <2>3, EntriesApart
  <2>6. \A j \in AllJobs : DueOfJob(j)' = DueOfJob(j)
    BY <2>1, DueKept DEF Ending
  <2> QED
    BY <2>1, <2>3, <2>4, <2>5, <2>6 DEF Said
<1>12. CASE Discover
  <2>1. /\ wallet = "discovering" /\ provider' \subseteq WalletUp
        /\ UNCHANGED <<phase, setup, stopped, job, failed, errors>>
    BY <1>12 DEF Discover, setupVars, readVars
  <2>2. provider = {} /\ \A j \in WalletUp : job[j] = "waiting"
    BY <2>1 DEF Jobs, Reads
  <2>3. \A j \in AllJobs : DueOfJob(j)' = DueOfJob(j)
    BY <2>1, <2>2 DEF DueOfJob
  <2> QED
    BY <2>1, <2>3, SaidKept DEF DueOfChain
<1>13. CASE WalletStopped \/ WalletReads
  <2>1. /\ wallet = "found" /\ UNCHANGED <<phase, setup, stopped, failed, provider, errors>>
        /\ \A k \in AllJobs : /\ k \notin WalletUp => job'[k] = job[k]
                              /\ k \in WalletUp => job'[k] \in {"unread", "reading", "read"}
                              /\ k \in WalletUp /\ job'[k] = "read" => k \in Inactive
    <3>1. CASE WalletStopped
      BY <3>1 DEF WalletStopped, setupVars
    <3>2. CASE WalletReads
      BY <3>2 DEF WalletReads, setupVars
    <3> QED
      BY <1>13, <3>1, <3>2
  <2>2. phase \notin Ending /\ \A j \in WalletUp : job[j] = "waiting"
    BY <2>1 DEF Jobs
  <2>3. \A j \in AllJobs : DueOfJob(j)' = DueOfJob(j)
    BY <2>1, <2>2 DEF DueOfJob
  <2> QED
    BY <2>1, <2>3, SaidKept DEF DueOfChain
<1>14. CASE WalletDone \/ StopCollecting \/ StopPricing \/ Finished \/ UNCHANGED vars
  BY <1>1, <1>14 DEF WalletDone, StopCollecting, StopPricing, Finished, vars, readVars, setupVars
<1> QED
  BY <1>2, <1>3, <1>4, <1>5, <1>6, <1>7, <1>8, <1>9, <1>10, <1>11, <1>12, <1>13, <1>14
     DEF Next, Dispatcher, Wallet, Read

-----------------------------------------------------------------------------
(* The invariant, and what follows from it.                                *)

\* A scan begins in the invariant.
LEMMA InitInv == ASSUME Init PROVE Inv
<1>1. Chains
  BY DEF Init, Chains, Early
<1>2. Jobs
  BY DEF Init, Jobs, Early, Ending
<1>3. Reads
  <2>1. \A j \in AllJobs : AccountsOn[j.chain] \in Nat
    BY EngineAssumption
  <2>2. /\ stopped \in BOOLEAN /\ late \in BOOLEAN /\ account \in [AllJobs -> Nat]
        /\ failed \in [AllJobs -> BOOLEAN] /\ groups \in [AllJobs -> BOOLEAN]
        /\ provider = {} /\ queue = {}
        /\ \A j \in AllJobs : account[j] = 0 /\ job[j] = "none"
    BY DEF Init
  <2>3. \A j \in AllJobs : account[j] <= AccountsOn[j.chain]
    BY <2>1, <2>2
  <2> QED
    BY <2>2, <2>3 DEF Reads
<1>4. Probes
  BY DEF Init, Probes
<1>5. Said
  <2>1. /\ \A c \in Asked : DueOfChain(c) = 0
        /\ \A j \in AllJobs : DueOfJob(j) = 0
    BY DEF Init, DueOfChain, DueOfJob
  <2>2. errors \in [Entries -> Nat] /\ \A e \in Entries : errors[e] = 0
    BY DEF Init
  <2>3. /\ \A c \in Asked : errors[<<"chain", c>>] = 0 /\ errors[<<"incomplete", c>>] = 0
        /\ \A j \in AllJobs : errors[<<"protocol", j>>] = 0 /\ errors[<<"incomplete", j>>] = 0
    BY <2>2, EntriesApart
  <2>4. /\ \A c \in Asked : errors[<<"chain", c>>] + errors[<<"incomplete", c>>] = 0
        /\ \A j \in AllJobs : errors[<<"protocol", j>>] + errors[<<"incomplete", j>>] = 0
    BY <2>3
  <2> QED
    BY <2>1, <2>2, <2>3, <2>4 DEF Said
<1> QED
  BY <1>1, <1>2, <1>3, <1>4, <1>5 DEF Inv

\* Every step keeps the invariant.
LEMMA NextInv == ASSUME Inv, [Next]_vars PROVE Inv'
  BY NextChains, NextJobs, NextReads, NextProbes, NextSaid DEF Inv

\* The invariant holds of every scan (ScanWithOptions).
THEOREM Invariant == Spec => []Inv
  BY InitInv, NextInv, PTL DEF Spec

\* A read uses an open client, and a scan that returned left none open.
THEOREM ClientsClosed == Spec => []ClientsClosedAfterUse
<1>1. Inv => ClientsClosedAfterUse
  <2> SUFFICES ASSUME Inv PROVE ClientsClosedAfterUse
    OBVIOUS
  <2>1. ASSUME NEW j \in AllJobs, job[j] = "reading" PROVE j.chain \in open
    <3>1. phase \notin Early /\ phase # "done"
      BY <2>1 DEF Inv, Jobs, Ending
    <3>2. j.chain \in Up
      BY <2>1, <3>1 DEF Inv, Jobs
    <3> QED
      BY <3>1, <3>2 DEF Inv, Chains, Up
  <2>2. phase = "done" => open = {}
    BY DEF Inv, Chains
  <2> QED
    BY <2>1, <2>2 DEF ClientsClosedAfterUse
<1> QED
  BY Invariant, <1>1, PTL

\* The probes of a protocol live exactly while some deployment may use them
\* (presenceLifetimes).
THEOREM ProbesUseful == Spec => []ProbesLiveWhileUseful
<1>1. Inv => ProbesLiveWhileUseful
  <2> SUFFICES ASSUME Inv PROVE ProbesLiveWhileUseful
    OBVIOUS
  <2>1. ASSUME NEW p \in Protocols
        PROVE  /\ left[p] = IF probe[p] = "none" THEN 0 ELSE Cardinality(Pending(p))
               /\ probe[p] = "live" <=> left[p] # 0
               /\ Pending(p) \subseteq AllJobs
               /\ Cardinality(Pending(p)) = 0 <=> Pending(p) = {}
    <3>1. Pending(p) \subseteq AllJobs
      BY DEF Pending
    <3>2. Cardinality(Pending(p)) = 0 <=> Pending(p) = {}
      BY <3>1, Counting
    <3> QED
      BY <3>1, <3>2 DEF Inv, Probes
  <2>2. ASSUME NEW j \in AllJobs, job[j] \in {"waiting", "reading"}
        PROVE  probe[j.protocol] # "cancelled"
    <3>1. j.protocol \in Protocols /\ j \in Pending(j.protocol)
      BY <2>2 DEF Protocols, Pending
    <3> QED
      BY <2>1, <3>1
  <2>3. ASSUME phase \in {"price", "done"}, NEW p \in Protocols PROVE probe[p] # "live"
    <3>1. Pending(p) = {}
      BY <2>3 DEF Inv, Jobs, Pending, Ending
    <3> QED
      BY <2>1, <3>1
  <2> QED
    BY <2>2, <2>3 DEF ProbesLiveWhileUseful
<1> QED
  BY Invariant, <1>1, PTL

\* Nothing is missing from a response in silence, and nothing is reported
\* missing twice or for nothing (ScanWithOptions).
THEOREM AccountedFor == Spec => []EverythingAccountedFor
<1>1. Inv => EverythingAccountedFor
  <2> SUFFICES ASSUME Inv PROVE EverythingAccountedFor
    OBVIOUS
  <2>1. CompleteUnlessStopped
    BY DEF Inv, Reads, Said, CompleteUnlessStopped, Unread
  <2>2. ASSUME phase = "done", NEW j \in AllJobs
        PROVE  Verdicts(j) = IF j.chain \notin Up \/ j \in Inactive \/ ReadInFull(j)
                             THEN 0 ELSE 1
    <3>1. /\ job[j] \in {"none", "read", "unread"}
          /\ job[j] = "none" <=> j.chain \notin Up
          /\ job[j] = "read" /\ j \notin Inactive /\ ~AllAccountsRead(j) => failed[j]
          /\ phase \in Ending
      BY <2>2 DEF Inv, Jobs, Reads, LoopOver, Early, Ending
    <3>2. Verdicts(j) = DueOfJob(j)
             - (IF j \in provider /\ job[j] = "read" /\ j \notin Inactive THEN 1 ELSE 0)
      <4>1. /\ errors[<<"protocol", j>>] \in Nat /\ errors[<<"incomplete", j>>] \in Nat
            /\ errors[<<"protocol", j>>] + errors[<<"incomplete", j>>] = DueOfJob(j)
        BY EntriesApart DEF Inv, Said
      <4>2. CASE j \in provider /\ job[j] = "read" /\ j \notin Inactive
        BY <4>1, <4>2 DEF Verdicts
      <4>3. CASE ~(j \in provider /\ job[j] = "read" /\ j \notin Inactive)
        BY <4>1, <4>3 DEF Verdicts
      <4> QED
        BY <4>2, <4>3
    <3>3. CASE j \in Inactive \/ job[j] # "read"
      BY <3>1, <3>2, <3>3 DEF DueOfJob, ReadInFull
    <3>4. CASE j \notin Inactive /\ job[j] = "read"
      <4>1. DueOfJob(j) = (IF failed[j] THEN 1 ELSE 0) + (IF j \in provider THEN 1 ELSE 0)
        BY <3>4 DEF DueOfJob
      <4>2. Verdicts(j) = IF failed[j] THEN 1 ELSE 0
        <5>1. CASE j \in provider
          BY <3>2, <3>4, <4>1, <5>1
        <5>2. CASE j \notin provider
          BY <3>2, <3>4, <4>1, <5>2
        <5> QED
          BY <5>1, <5>2
      <4>3. ReadInFull(j) <=> ~failed[j]
        BY <3>1, <3>4 DEF ReadInFull
      <4> QED
        BY <3>1, <3>4, <4>2, <4>3
    <3> QED
      BY <3>3, <3>4
  <2>3. ASSUME phase = "done", NEW c \in Asked
        PROVE  errors[<<"chain", c>>] + errors[<<"incomplete", c>>]
                   = IF c \in Up \/ (c \in Disabled /\ ~Named) THEN 0 ELSE 1
    <3>1. setup[c] \in {"up", "down"} /\ (c \in Up <=> setup[c] = "up")
      BY <2>3 DEF Inv, Chains, Early, Up
    <3>2. errors[<<"chain", c>>] + errors[<<"incomplete", c>>] = DueOfChain(c)
      BY DEF Inv, Said
    <3> QED
      BY <3>1, <3>2, EngineAssumption DEF DueOfChain
  <2> QED
    BY <2>1, <2>2, <2>3 DEF EverythingAccountedFor
<1> QED
  BY Invariant, <1>1, PTL

\* Once the holdings are being reconciled no reader touches the response.
THEOREM ReadersGone == Spec => NoLateRead
<1>1. ASSUME Inv, [Next]_vars, phase \in {"price", "done"}
      PROVE  UNCHANGED <<readVars, snapshots>>
  <2>1. /\ wallet = "over" /\ phase \in Ending
        /\ \A j \in AllJobs : job[j] # "reading"
    BY <1>1 DEF Inv, Jobs, Ending
  <2>2. \A j \in AllJobs : ~Read(j)
    BY <2>1 DEF Read, ReadAccount, ReportRead
  <2>3. CASE \E c \in Asked : SetupChain(c)
    BY <1>1, <2>3, SetupPhase DEF Inv
  <2>4. CASE Dispatcher
    BY <1>1, <2>4 DEF Dispatcher, Begin, BuildDeployments, CheckCollecting, Dispatch, CloseJobs,
                NothingToSend, SweepUndispatched, Settle, Price
  <2>5. CASE Wallet
    BY <2>1, <2>5 DEF Wallet, Discover, WalletStopped, WalletReads, WalletDone
  <2>6. CASE StopCollecting \/ StopPricing \/ Finished \/ UNCHANGED vars
    BY <2>6 DEF StopCollecting, StopPricing, Finished, vars
  <2> QED
    BY <1>1, <2>2, <2>3, <2>4, <2>5, <2>6 DEF Next
<1>2. Inv /\ [Next]_vars => [(phase \in {"price", "done"}) => (UNCHANGED <<readVars, snapshots>>)]_vars
  BY <1>1
<1> QED
  BY Invariant, <1>2, PTL DEF Spec, NoLateRead

\* Beside what is due, a coverage note of a job is made when its read is over and the
\* entries of the whole scan at its end, each once.
Once ==
    /\ snapshots \subseteq AllJobs
    /\ \A j \in AllJobs : /\ errors[<<"coverage", j>>] <= 1
                          /\ job[j] # "read" => errors[<<"coverage", j>>] = 0
    /\ \A k \in {"incomplete", "pricing"} :
          /\ errors[<<k, NoChain>>] <= 1
          /\ phase # "done" => errors[<<k, NoChain>>] = 0

\* These entries are counted like the others.
LEMMA OnceCounted ==
    /\ \A j \in AllJobs : <<"coverage", j>> \in Entries
    /\ \A k \in {"incomplete", "pricing"} : <<k, NoChain>> \in Entries
  BY DEF Entries

\* Steps that note nothing of the kind.
LEMMA OnceKept ==
    ASSUME Said, Once, UNCHANGED snapshots, errors' \in [Entries -> Nat],
           phase = "done" => phase' = "done",
           \A j \in AllJobs : /\ errors'[<<"coverage", j>>] = errors[<<"coverage", j>>]
                              /\ job[j] = "read" => job'[j] = "read",
           \A k \in {"incomplete", "pricing"} : errors'[<<k, NoChain>>] = errors[<<k, NoChain>>]
    PROVE  Once'
<1>1. snapshots' \subseteq AllJobs
  BY DEF Once
<1>2. ASSUME NEW j \in AllJobs
      PROVE  /\ errors'[<<"coverage", j>>] <= 1
             /\ job'[j] # "read" => errors'[<<"coverage", j>>] = 0
  BY DEF Once
<1>3. ASSUME NEW k \in {"incomplete", "pricing"}
      PROVE  /\ errors'[<<k, NoChain>>] <= 1
             /\ phase' # "done" => errors'[<<k, NoChain>>] = 0
  <2>1. errors'[<<k, NoChain>>] = errors[<<k, NoChain>>]
    OBVIOUS
  <2>2. /\ errors[<<k, NoChain>>] <= 1
        /\ phase # "done" => errors[<<k, NoChain>>] = 0
    BY DEF Once
  <2> QED
    BY <2>1, <2>2
<1> QED
  BY <1>1, <1>2, <1>3 DEF Once

\* Entries of another kind may be added.
LEMMA OnceBeside ==
    ASSUME Said, Once, NEW E, Add(E), UNCHANGED <<job, snapshots>>,
           phase = "done" => phase' = "done",
           \A j \in AllJobs : <<"coverage", j>> \notin E,
           \A k \in {"incomplete", "pricing"} : <<k, NoChain>> \notin E
    PROVE  Once'
<1>1. /\ errors' \in [Entries -> Nat]
      /\ \A e \in Entries : e \notin E => errors'[e] = errors[e]
  BY Adds DEF Said
<1> QED
  BY <1>1, OnceKept, OnceCounted

\* Every step keeps to one note of a job and one of the scan.
LEMMA NextOnce == ASSUME Inv, Once, [Next]_vars PROVE Once'
<1> USE DEF Inv
<1>1. CASE /\ UNCHANGED <<errors, snapshots>> /\ (phase = "done" => phase' = "done")
           /\ \A j \in AllJobs : job[j] = "read" => job'[j] = "read"
  BY <1>1, OnceKept DEF Said
<1>2. ASSUME NEW c \in Asked, SetupChain(c) PROVE Once'
  <2>1. phase' = phase /\ UNCHANGED <<job, snapshots>> /\ c # NoChain
    BY <1>2, EngineAssumption
       DEF SetupChain, NoURL, Dial, Pin, ResolveAccounts, FailSetup, SetupVarsOnly, readVars
  <2>2. CASE NoURL(c) \/ FailSetup(c)
    <3>1. PICK e \in {<<"chain", c>>, <<"incomplete", c>>} : Add({e})
      BY <2>2 DEF NoURL, FailSetup, ChainFails, ChainEntry
    <3> QED
      BY <2>1, <3>1, OnceBeside
  <2>3. CASE Dial(c) \/ Pin(c) \/ ResolveAccounts(c)
    BY <1>1, <2>1, <2>3 DEF Dial, Pin, ResolveAccounts
  <2> QED
    BY <1>2, <2>2, <2>3 DEF SetupChain
<1>3. CASE Begin
  <2>1. PICK E \in SUBSET ({"chain"} \X Asked) : Add(E)
    BY <1>3 DEF Begin
  <2> QED
    BY <1>3, <2>1, OnceBeside DEF Begin, readVars
<1>4. CASE BuildDeployments
  BY <1>1, <1>4 DEF BuildDeployments, Jobs, Early
<1>5. CASE CheckCollecting \/ CloseJobs
  BY <1>1, <1>5 DEF CheckCollecting, CloseJobs, NothingToSend, readVars
<1>6. CASE Dispatch
  <2>1. PICK j \in AllJobs : job[j] = "waiting" /\ StartRead(j)
    BY <1>6, DispatchesOne
  <2>2. \A k \in AllJobs \ {j} : job'[k] = job[k]
    BY <2>1 DEF StartRead, Jobs
  <2> QED
    BY <1>1, <1>6, <2>1, <2>2 DEF Dispatch
<1>7. CASE SweepUndispatched
  <2>1. PICK j \in AllJobs : job[j] = "waiting" /\ job' = [job EXCEPT ![j] = "unread"]
    BY <1>7, SweepsOne
  <2>2. \A k \in AllJobs \ {j} : job'[k] = job[k]
    BY <2>1 DEF Jobs
  <2> QED
    BY <1>1, <1>7, <2>1, <2>2 DEF SweepUndispatched
<1>8. ASSUME NEW j \in AllJobs, ReadAccount(j) PROVE Once'
  BY <1>1, <1>8 DEF ReadAccount
<1>9. ASSUME NEW j \in AllJobs, ReportRead(j) PROVE Once'
  <2>1. /\ job[j] = "reading" /\ job'[j] = "read" /\ phase' = phase /\ snapshots' \subseteq AllJobs
        /\ \A k \in AllJobs \ {j} : job'[k] = job[k]
    BY <1>9 DEF ReportRead, Jobs, Once
  <2>2. PICK noted \in SUBSET {<<"coverage", j>>} :
          errors' = [e \in Entries |-> errors[e]
                      + (IF failed[j] /\ e = FailureEntry(j) THEN 1 ELSE 0)
                      + (IF j \in provider /\ e = <<"protocol", j>> THEN 1 ELSE 0)
                      + (IF e \in noted THEN 1 ELSE 0)]
    BY <1>9 DEF ReportRead
  <2>3. FailureEntry(j) \in {<<"incomplete", j>>, <<"protocol", j>>} /\ j # NoChain
    BY EngineAssumption DEF FailureEntry
  <2>4. ASSUME NEW e \in Entries, e # FailureEntry(j), e # <<"protocol", j>>
        PROVE  errors'[e] = errors[e] + (IF e \in noted THEN 1 ELSE 0) /\ errors[e] \in Nat
    <3>1. errors[e] \in Nat
      BY DEF Said
    <3>2. errors'[e] = errors[e] + 0 + 0 + (IF e \in noted THEN 1 ELSE 0)
      BY <2>2, <2>4
    <3> QED
      BY <3>1, <3>2
  <2>5. ASSUME NEW k \in AllJobs
        PROVE  /\ errors'[<<"coverage", k>>] <= 1
               /\ job'[k] # "read" => errors'[<<"coverage", k>>] = 0
    <3>1. /\ errors'[<<"coverage", k>>]
                 = errors[<<"coverage", k>>] + (IF <<"coverage", k>> \in noted THEN 1 ELSE 0)
          /\ errors[<<"coverage", k>>] \in Nat
      BY <2>3, <2>4, OnceCounted
    <3>2. CASE k = j
      BY <2>1, <3>1, <3>2 DEF Once
    <3>3. CASE k # j
      <4>1. <<"coverage", k>> \notin noted
        BY <3>3
      <4> QED
        BY <2>1, <3>1, <3>3, <4>1 DEF Once
    <3> QED
      BY <3>2, <3>3
  <2>6. ASSUME NEW k \in {"incomplete", "pricing"} PROVE errors'[<<k, NoChain>>] = errors[<<k, NoChain>>]
    <3>1. <<k, NoChain>> \notin noted /\ <<k, NoChain>> # FailureEntry(j) /\ <<k, NoChain>> # <<"protocol", j>>
      BY <2>3
    <3>2. /\ errors'[<<k, NoChain>>] = errors[<<k, NoChain>>] + (IF <<k, NoChain>> \in noted THEN 1 ELSE 0)
          /\ errors[<<k, NoChain>>] \in Nat
      BY <2>4, <3>1, OnceCounted
    <3> QED
      BY <3>1, <3>2
  <2> QED
    BY <2>1, <2>5, <2>6 DEF Once
<1>10. CASE Settle
  <2>1. PICK E \in SUBSET ({"incomplete"} \X AllJobs) : Add(E)
    BY <1>10 DEF Settle, Unread
  <2>2. NoChain \notin AllJobs
    BY EngineAssumption
  <2> QED
    BY <1>10, <2>1, <2>2, OnceBeside DEF Settle, readVars
<1>11. CASE Price
  <2>1. /\ phase = "price" /\ phase' = "done" /\ UNCHANGED <<job, snapshots>>
    BY <1>11 DEF Price, readVars
  <2>2. PICK E \in SUBSET {<<"pricing", NoChain>>, <<"incomplete", NoChain>>} : Add(E)
    BY <1>11 DEF Price
  <2>3. \A e \in Entries : /\ e \in E => errors'[e] = errors[e] + 1
                           /\ e \notin E => errors'[e] = errors[e]
    BY <2>2, Adds DEF Said
  <2>4. ASSUME NEW j \in AllJobs PROVE errors'[<<"coverage", j>>] = errors[<<"coverage", j>>]
    <3>1. <<"coverage", j>> \notin E
      BY <2>2
    <3> QED
      BY <2>3, <3>1, OnceCounted
  <2>5. \A k \in {"incomplete", "pricing"} : errors'[<<k, NoChain>>] \in {0, 1}
    <3>1. \A k \in {"incomplete", "pricing"} : errors[<<k, NoChain>>] = 0
      BY <2>1 DEF Once
    <3> QED
      BY <2>3, <3>1, OnceCounted
  <2> QED
    BY <2>1, <2>4, <2>5 DEF Once
<1>12. CASE Discover \/ WalletDone
  BY <1>1, <1>12 DEF Discover, WalletDone, readVars
<1>13. CASE WalletStopped \/ WalletReads
  <2>1. \A j \in WalletUp : job[j] = "waiting"
    BY <1>13 DEF WalletStopped, WalletReads, Jobs
  <2>2. \A j \in AllJobs : job[j] = "read" => job'[j] = "read"
    BY <1>13, <2>1 DEF WalletStopped, WalletReads
  <2> QED
    BY <1>1, <1>13, <2>2 DEF WalletStopped, WalletReads
<1>14. CASE StopCollecting \/ StopPricing \/ Finished \/ UNCHANGED vars
  BY <1>1, <1>14 DEF StopCollecting, StopPricing, Finished, vars, readVars
<1> QED
  BY <1>2, <1>3, <1>4, <1>5, <1>6, <1>7, <1>8, <1>9, <1>10, <1>11, <1>12, <1>13, <1>14
     DEF Next, Dispatcher, Wallet, Read

\* Every variable of a scan keeps its type, for any chains, jobs and workers: nothing is
\* queued that could not be read, no loop runs past the last account, a presence probe is
\* counted down from no more than the jobs there are, and no job is named more than three
\* times (ScanWithOptions).
THEOREM TypeCorrect == Spec => []TypeOK
<1>1. Init => Inv /\ Once
  <2> SUFFICES ASSUME Init PROVE Inv /\ Once
    OBVIOUS
  <2>1. /\ snapshots = {} /\ \A e \in Entries : errors[e] = 0
    BY DEF Init
  <2> QED
    BY <2>1, InitInv, OnceCounted DEF Once
<1>2. (Inv /\ Once) /\ [Next]_vars => (Inv /\ Once)'
  BY NextInv, NextOnce
<1>3. Inv /\ Once => TypeOK
  <2> SUFFICES ASSUME Inv, Once PROVE TypeOK
    OBVIOUS
  <2> USE DEF Inv
  <2>1. /\ phase \in {"start", "setup", "dispatch", "send", "drain", "price", "done"}
        /\ setup \in [Asked -> {"none", "dial", "pin", "accounts", "up", "down"}]
        /\ open \subseteq Asked
    BY DEF Chains, Early, Ending
  <2>2. /\ job \in [AllJobs -> {"none", "waiting", "reading", "read", "unread"}]
        /\ queue \subseteq {i \in DOMAIN Adapters : job[Adapters[i]] \in {"waiting", "unread"}}
        /\ wallet \in {"none", "discovering", "found", "reading", "over"}
    BY DEF Jobs
  <2>3. /\ stopped \in BOOLEAN /\ late \in BOOLEAN /\ account \in [AllJobs -> Nat]
        /\ \A j \in AllJobs : account[j] <= AccountsOn[j.chain]
        /\ failed \in [AllJobs -> BOOLEAN] /\ groups \in [AllJobs -> BOOLEAN]
        /\ provider \subseteq WalletJobs
    BY DEF Reads, WalletUp
  <2>4. left \in [Protocols -> 0..Cardinality(AllJobs)]
    <3>1. ASSUME NEW p \in Protocols PROVE left[p] \in 0..Cardinality(AllJobs)
      <4>1. IsFiniteSet(AllJobs) /\ Cardinality(AllJobs) \in Nat
        BY EngineAssumption, FS_CardinalityType
      <4>2. Pending(p) \subseteq AllJobs
        BY DEF Pending
      <4>3. Cardinality(Pending(p)) \in 0..Cardinality(AllJobs)
        BY <4>1, <4>2, FS_Subset, FS_CardinalityType
      <4> QED
        BY <4>1, <4>3 DEF Probes
    <3> QED
      BY <3>1 DEF Probes
  <2>5. probe \in [Protocols -> {"none", "live", "cancelled"}]
    BY DEF Probes
  <2>6. errors \in [Entries -> 0..2]
    <3>1. errors \in [Entries -> Nat]
      BY DEF Said
    <3>2. ASSUME NEW c \in Asked
          PROVE  errors[<<"chain", c>>] <= 2 /\ errors[<<"incomplete", c>>] <= 2
      <4>1. PICK n, m \in Nat : n = errors[<<"chain", c>>] /\ m = errors[<<"incomplete", c>>]
        BY <3>1, EntriesApart
      <4>2. DueOfChain(c) \in {0, 1} /\ n + m = DueOfChain(c)
        BY <4>1 DEF Said, DueOfChain
      <4>3. n + m <= 1
        BY <4>2
      <4> QED
        BY <4>1, <4>3
    <3>3. ASSUME NEW j \in AllJobs
          PROVE  errors[<<"protocol", j>>] <= 2 /\ errors[<<"incomplete", j>>] <= 2
      <4>1. PICK n, m \in Nat : n = errors[<<"protocol", j>>] /\ m = errors[<<"incomplete", j>>]
        BY <3>1, EntriesApart
      <4>2. DueOfJob(j) \in 0..2
        BY DEF DueOfJob
      <4>3. n + m = DueOfJob(j)
        BY <4>1 DEF Said
      <4> QED
        BY <4>1, <4>2, <4>3
    <3>4. ASSUME NEW j \in AllJobs PROVE errors[<<"coverage", j>>] <= 2
      <4>1. PICK n \in Nat : n = errors[<<"coverage", j>>]
        BY <3>1, OnceCounted
      <4>2. n <= 1
        BY <4>1 DEF Once
      <4> QED
        BY <4>1, <4>2
    <3>5. errors[<<"incomplete", NoChain>>] <= 2 /\ errors[<<"pricing", NoChain>>] <= 2
      BY <3>1, OnceCounted DEF Once
    <3>6. ASSUME NEW e \in Entries PROVE errors[e] <= 2
      <4>1. CASE e \in {"chain", "incomplete"} \X Asked
        <5>1. PICK k \in {"chain", "incomplete"}, c \in Asked : e = <<k, c>>
          BY <4>1
        <5> QED
          BY <3>2, <5>1
      <4>2. CASE e \in {"protocol", "incomplete", "coverage"} \X AllJobs
        <5>1. PICK k \in {"protocol", "incomplete", "coverage"}, j \in AllJobs : e = <<k, j>>
          BY <4>2
        <5> QED
          BY <3>3, <3>4, <5>1
      <4>3. CASE e \in {<<"incomplete", NoChain>>, <<"pricing", NoChain>>}
        BY <3>5, <4>3
      <4> QED
        BY <4>1, <4>2, <4>3 DEF Entries
    <3> QED
      BY <3>1, <3>6
  <2> QED
    BY <2>1, <2>2, <2>3, <2>4, <2>5, <2>6 DEF TypeOK, Once
<1> QED
  BY <1>1, <1>2, <1>3, PTL DEF Spec

-----------------------------------------------------------------------------
(* One adapter's read of an account (AdapterReads): what follows from the  *)
(* discipline of its method, whatever the account has, the index says and  *)
(* fails.                                                                  *)

\* Every method is right on each of its paths: MethodsDisciplined, of all adapters.
AllDisciplined == \A a \in DOMAIN Positions : Disciplined(a)

\* An error has ended method p.
Stopped(p) == done /\ pc \in DOMAIN p

\* Where p asks whether the deployment w of the leg is there.
Windows(p, leg, w) ==
    {j \in Steps(p, "window", leg) : p[j].surface = w /\ leg \in p[j].closes}

\* An error of step s leaves the leg and lets the method go on.
Joins(s, leg) == Strict(s) /\ ~s.stop /\ leg \in s.closes

\* What an account has is in contracts that are there, and what the index has not
\* seen of a surface it has seen none of.
World(p) ==
    /\ openLegs \subseteq Legs(p)
    /\ \A leg \in held :
          leg \in Legs(p) /\ ~Undeployed(leg) /\ leg[2] # "registry"
    /\ missed \subseteq Indexed(p)
    /\ \A x \in missed : \A y \in held \cap Indexed(p) : x[1] = y[1] => y \in missed

\* An error has a fault behind it, and has ended the method unless it was joined.
Course(p) ==
    /\ faults \in Nat /\ (err => faults > 0) /\ (hurt # {} => err)
    /\ Stopped(p) =>
          /\ err /\ p[pc].stop
          /\ reported \cap p[pc].lost = {} /\ (p[pc].whole => reported = {})
          /\ p[pc].op = "raise" \/ (Strict(p[pc]) /\ p[pc].on \cap hurt # {})
    /\ err => Stopped(p) \/ \E i \in DOMAIN p : Strict(p[i]) /\ ~p[i].stop

\* A leg that is open has been by every window, drop and report there is no way around.
Paths(p) ==
    /\ \A leg, w, U : Before(p, Windows(p, leg, w), {}, U) =>
          pc \in U \/ leg \notin openLegs \/ w \notin inactive
    /\ \A leg, U : Before(p, Steps(p, "drop", leg), {}, U) =>
          pc \in U \/ leg \notin openLegs \/ leg \in held
    /\ \A leg \in held : \A U : Before(p, Steps(p, "report", leg), {leg}, U) =>
          \/ pc \in U \/ leg \notin openLegs \/ leg \in reported
          \/ Stopped(p) /\ (p[pc].whole \/ leg \in p[pc].lost)

\* What is held is left only by a lenient read, by an index that has not seen it or for
\* an error that was joined.
Departed(p) ==
    /\ \A leg \in held :
          \/ leg \in openLegs \cup passed \cup missed
          \/ \E i \in DOMAIN p : Joins(p[i], leg) /\ p[i].on \cap hurt # {}
    /\ \A leg \in passed : \E i \in DOMAIN p : Lenient(p[i]) /\ leg \in p[i].on

\* A debt goes with the asset beside it.
Together ==
    /\ reported \subseteq held
    /\ \A s : Debt(s) \in held =>
          /\ Asset(s) \in openLegs \cap held => Debt(s) \in openLegs
          /\ Asset(s) \in reported => Debt(s) \in reported

ReadInv ==
    /\ adapter \in DOMAIN Positions
    /\ World(plan) /\ Course(plan) /\ Paths(plan)
    /\ Departed(plan) /\ Together

\* How a step that returns no error goes on from pc.
Goes(p) ==
    /\ ~done /\ pc \in DOMAIN p /\ UNCHANGED <<world, hurt, err, done>>
    /\ faults' \in {faults, faults + 1}
    /\ openLegs' \subseteq openLegs
    /\ pc' \in After(p, pc, {})
    /\ \A leg \in held \cap openLegs : pc' \in After(p, pc, {leg})
    /\ p[pc].op = "window" => \A leg \in openLegs' \cap p[pc].on :
          p[pc].surface \in inactive => leg \notin p[pc].closes
    /\ p[pc].op = "drop" => openLegs' \cap p[pc].on \subseteq held
    /\ p[pc].op = "report" => openLegs' \cap p[pc].on \subseteq reported'
    /\ reported \subseteq reported'
    /\ reported' # reported => p[pc].op = "report" /\ reported' = reported \cup (p[pc].on \cap openLegs)
    /\ passed \subseteq passed'
    /\ passed' # passed => Lenient(p[pc]) /\ passed' \subseteq passed \cup p[pc].on
    /\ \A leg \in (held \cap openLegs) \ openLegs' :
          \/ p[pc].op = "window" /\ leg \in p[pc].closes /\ p[pc].surface \in inactive
          \/ /\ p[pc].op = "index" /\ leg \in p[pc].on \cap missed
             /\ openLegs' \cap p[pc].on \cap missed = {}
          \/ /\ Lenient(p[pc]) /\ leg \in p[pc].on \cap passed'
             /\ openLegs' \cap p[pc].on = {}

\* How a step that returns an error ends the method, or goes on after joining it.
Fails(p) ==
    /\ ~done /\ pc \in DOMAIN p /\ UNCHANGED <<world, passed>>
    /\ err' = TRUE /\ hurt' = hurt \cup (p[pc].on \cap openLegs)
    /\ reported' = IF p[pc].whole THEN {} ELSE reported \ p[pc].lost
    /\ \/ p[pc].stop /\ done' = TRUE /\ UNCHANGED <<pc, openLegs>>
       \/ ~p[pc].stop /\ done' = done /\ openLegs' = openLegs \ p[pc].closes /\ pc' = pc + 1
    /\ \/ Strict(p[pc]) /\ p[pc].on \cap openLegs # {} /\ faults' = faults + 1
       \/ p[pc].op = "raise" /\ err /\ faults' = faults

\* What a step says, in terms of the method it is of.
LEMMA AtStep ==
    ASSUME NEW p, p = plan
    PROVE  /\ step = p[pc] /\ now = p[pc].on \cap openLegs
           /\ \A op : At(op) <=> ~done /\ pc \in DOMAIN p /\ p[pc].op = op
           /\ \A n, L : GoOn(n, L) <=>
                 /\ openLegs' = openLegs \ L /\ pc' = pc + n
                 /\ UNCHANGED <<world, hurt, err, done>>
           /\ \A L : Leave(L) <=> GoOn(1, L)
  BY DEF step, now, At, StepIs, GoOn, Leave

\* An error that a step returns is handled as the method says.
LEMMA FailFails ==
    ASSUME NEW p, p = plan, ~done, pc \in DOMAIN p, Fail(step),
           \/ Strict(p[pc]) /\ p[pc].on \cap openLegs # {} /\ faults' = faults + 1
           \/ p[pc].op = "raise" /\ err /\ faults' = faults
    PROVE  Fails(p)
  BY AtStep DEF Fail, Fails

\* So is a read that failed.
LEMMA HandleShape ==
    ASSUME NEW p, p = plan, NEW how, ~done, pc \in DOMAIN p, p[pc].op \in {"call", "index"},
           Handle(how), p[pc].on \cap openLegs # {}, faults' \in {faults, faults + 1},
           how = "drop" => Lenient(p[pc]),
           how = "error" => Strict(p[pc]) /\ faults' = faults + 1
    PROVE  Goes(p) \/ Fails(p)
<1>1. CASE how = "error" /\ Fail(step)
  BY <1>1, FailFails
<1>2. CASE /\ how = "drop" /\ Leave(now) /\ passed' = passed \cup now
           /\ UNCHANGED reported
  <2>1. /\ openLegs' = openLegs \ (p[pc].on \cap openLegs) /\ pc' = pc + 1
        /\ passed' = passed \cup (p[pc].on \cap openLegs) /\ reported' = reported
        /\ UNCHANGED <<world, hurt, err, done>>
    BY <1>2, AtStep
  <2>2. held' = held
    BY <2>1 DEF world
  <2> QED
    BY <1>2, <2>1, <2>2 DEF Goes, After
<1>3. CASE how = "ignore" /\ Leave({}) /\ UNCHANGED <<passed, reported>>
  <2>1. /\ openLegs' = openLegs /\ pc' = pc + 1 /\ passed' = passed /\ reported' = reported
        /\ UNCHANGED <<world, hurt, err, done>>
    BY <1>3, AtStep
  <2> QED
    BY <2>1 DEF Goes, After
<1> QED
  BY <1>1, <1>2, <1>3 DEF Handle

\* No strict call finds a contract that is not there: its window has left the leg.
LEMMA Behind ==
    ASSUME AllDisciplined, ReadInv, NEW p, p = plan, pc \in DOMAIN p,
           p[pc].op = "call", p[pc].onFault = "error", NEW leg \in p[pc].on \cap openLegs
    PROVE  ~Undeployed(leg)
<1>1. BehindWindows(p) /\ Paths(p)
  BY DEF AllDisciplined, ReadInv, Disciplined, plan
<1>2. SUFFICES ASSUME NEW w \in WindowsOf(leg[1]), w \in inactive
               PROVE  FALSE
  BY DEF Undeployed
<1>3. Passes(p, Windows(p, leg, w), pc)
  BY <1>1 DEF BehindWindows, Windows
<1>4. PICK U : Before(p, Windows(p, leg, w), {}, U) /\ pc \notin U
  BY <1>3 DEF Passes
<1> QED
  BY <1>1, <1>2, <1>4 DEF Paths

\* Every step goes on, fails, or is the method's return.
LEMMA StepShape ==
    ASSUME AllDisciplined, ReadInv, NEW p, p = plan, MethodNext
    PROVE  Goes(p) \/ Fails(p) \/ Return
<1>0. faults \in Nat
  BY DEF ReadInv, Course
<1>1. CASE Skip
  <2>1. /\ ~done /\ pc \in DOMAIN p /\ p[pc].on \cap openLegs = {}
        /\ p[pc].op \notin {"raise", "need", "jump"}
        /\ openLegs' = openLegs /\ pc' = pc + 1
        /\ UNCHANGED <<world, hurt, err, done, passed, reported, faults>>
    BY <1>1, AtStep DEF Skip
  <2> QED
    BY <2>1 DEF Goes, After
<1>2. CASE Gate
  <2>1. /\ ~done /\ pc \in DOMAIN p /\ p[pc].op = "window" /\ pc' = pc + 1
        /\ openLegs' = openLegs \ (IF p[pc].surface \in inactive THEN p[pc].closes ELSE {})
        /\ UNCHANGED <<world, hurt, err, done, passed, reported, faults>>
    BY <1>2, AtStep DEF Gate
  <2> QED
    BY <2>1 DEF Goes, After
<1>3. CASE Answered
  <2>1. /\ ~done /\ pc \in DOMAIN p /\ p[pc].op = "call" /\ pc' = pc + (1 + p[pc].over)
        /\ openLegs' = openLegs
        /\ UNCHANGED <<world, hurt, err, done, passed, reported, faults>>
    BY <1>3, AtStep DEF Answered
  <2> QED
    BY <2>1 DEF Goes, After
<1>4. CASE Reverted
  <2>1. PICK how : how = IF p[pc].strictIf \cap held # {} THEN "error" ELSE p[pc].onRevert
    OBVIOUS
  <2>2. /\ ~done /\ pc \in DOMAIN p /\ p[pc].op = "call" /\ p[pc].on \cap openLegs # {}
        /\ Handle(how) /\ faults' = faults + 1
    BY <1>4, <2>1, AtStep DEF Reverted, Fault
  <2>3. /\ how = "drop" => Lenient(p[pc])
        /\ how = "error" => Strict(p[pc])
    BY <2>1, <2>2 DEF Lenient, Strict
  <2> QED
    BY <2>2, <2>3, HandleShape
<1>5. CASE NotAnswered
  <2>1. PICK how : how = p[pc].onFault
    OBVIOUS
  <2>2. /\ ~done /\ pc \in DOMAIN p /\ p[pc].op = "call" /\ p[pc].on \cap openLegs # {}
        /\ Handle(how)
        /\ IF \E leg \in p[pc].on \cap openLegs : Undeployed(leg)
           THEN faults' = faults ELSE faults' = faults + 1
    BY <1>5, <2>1, AtStep DEF NotAnswered, Fault
  <2>3. /\ how = "drop" => Lenient(p[pc])
        /\ how = "error" => Strict(p[pc])
    BY <2>1, <2>2 DEF Lenient, Strict
  <2>4. how = "error" => faults' = faults + 1
    BY <2>1, <2>2, Behind
  <2>5. faults' \in {faults, faults + 1}
    BY <2>2
  <2> QED
    BY <2>2, <2>3, <2>4, <2>5, HandleShape
<1>6. CASE Listed
  <2>1. /\ ~done /\ pc \in DOMAIN p /\ p[pc].op = "index" /\ pc' = pc + (1 + p[pc].over)
        /\ openLegs' = openLegs \ ((p[pc].on \cap openLegs) \ ((held \cup extra) \ missed))
        /\ UNCHANGED <<world, hurt, err, done, passed, reported, faults>>
    BY <1>6, AtStep DEF Listed
  <2> QED
    BY <2>1 DEF Goes, After
<1>7. CASE Refused
  <2>1. /\ ~done /\ pc \in DOMAIN p /\ p[pc].op = "check" /\ p[pc].on \cap openLegs # {}
        /\ faults' = faults + 1 /\ Fail(step)
    BY <1>7, AtStep DEF Refused, Fault
  <2> QED
    BY <2>1, FailFails DEF Strict
<1>8. CASE NoIndex
  <2>1. /\ ~done /\ pc \in DOMAIN p /\ p[pc].op = "index" /\ p[pc].on \cap openLegs # {}
        /\ faults' = faults + 1 /\ Handle(p[pc].onFault)
    BY <1>8, AtStep DEF NoIndex, Fault
  <2> QED
    BY <2>1, HandleShape DEF Strict, Lenient
<1>9. CASE Checked
  <2>1. /\ ~done /\ pc \in DOMAIN p /\ p[pc].op = "check" /\ pc' = pc + 1 /\ openLegs' = openLegs
        /\ UNCHANGED <<world, hurt, err, done, passed, reported, faults>>
    BY <1>9, AtStep DEF Checked
  <2> QED
    BY <2>1 DEF Goes, After
<1>14. CASE Unlisted
  <2>1. /\ ~done /\ pc \in DOMAIN p /\ p[pc].op = "listing" /\ pc' = pc + 1
        /\ UNCHANGED <<world, hurt, err, done, reported, faults>>
        /\ \/ openLegs' = openLegs /\ passed' = passed
           \/ /\ openLegs' = openLegs \ (p[pc].on \cap openLegs)
              /\ passed' = passed \cup (p[pc].on \cap openLegs)
    BY <1>14, AtStep DEF Unlisted
  <2>2. Lenient(p[pc]) /\ held' = held
    BY <2>1 DEF Lenient, world
  <2> QED
    BY <2>1, <2>2 DEF Goes, After
<1>15. CASE NotRead
  <2>1. /\ ~done /\ pc \in DOMAIN p /\ p[pc].op = "unasked" /\ pc' = pc + 1 /\ openLegs' = openLegs
        /\ UNCHANGED <<world, hurt, err, done, passed, reported, faults>>
    BY <1>15, AtStep DEF NotRead
  <2> QED
    BY <2>1 DEF Goes, After
<1>10. CASE Zeros
  <2>1. /\ ~done /\ pc \in DOMAIN p /\ p[pc].op = "drop" /\ pc' = pc + 1
        /\ openLegs' = openLegs \ ((p[pc].on \cap openLegs) \ held)
        /\ UNCHANGED <<world, hurt, err, done, passed, reported, faults>>
    BY <1>10, AtStep DEF Zeros
  <2> QED
    BY <2>1 DEF Goes, After
<1>11. CASE Jump
  <2>1. /\ ~done /\ pc \in DOMAIN p /\ openLegs' = openLegs
        /\ \/ /\ p[pc].op = "need"
              /\ pc' = pc + (IF p[pc].on \cap openLegs \cap (held \cup extra) = {}
                             THEN 1 + p[pc].over ELSE 1)
           \/ p[pc].op = "jump" /\ pc' = pc + (1 + p[pc].over)
        /\ UNCHANGED <<world, hurt, err, done, passed, reported, faults>>
    BY <1>11, AtStep DEF Jump, found
  <2>2. \A leg \in held \cap openLegs : pc' \in After(p, pc, {leg})
    BY <2>1 DEF After
  <2>3. pc' \in After(p, pc, {})
    BY <2>1 DEF After
  <2> QED
    BY <2>1, <2>2, <2>3 DEF Goes
<1>12. CASE Group
  <2>1. /\ ~done /\ pc \in DOMAIN p /\ p[pc].op = "report" /\ pc' = pc + 1 /\ openLegs' = openLegs
        /\ reported' = reported \cup (p[pc].on \cap openLegs)
        /\ UNCHANGED <<world, hurt, err, done, passed, faults>>
    BY <1>12, AtStep DEF Group
  <2> QED
    BY <2>1 DEF Goes, After
<1>13. CASE RaiseJoined
  <2>1. CASE err /\ Fail(step)
    BY <1>13, <2>1, AtStep, FailFails DEF RaiseJoined
  <2>2. CASE ~err /\ Leave({}) /\ UNCHANGED <<passed, reported>>
    <3>1. /\ ~done /\ pc \in DOMAIN p /\ p[pc].op = "raise" /\ pc' = pc + 1 /\ openLegs' = openLegs
          /\ UNCHANGED <<world, hurt, err, done, passed, reported, faults>>
      BY <1>13, <2>2, AtStep DEF RaiseJoined
    <3> QED
      BY <3>1 DEF Goes, After
  <2> QED
    BY <1>13, <2>1, <2>2 DEF RaiseJoined
<1> QED
  BY <1>1, <1>2, <1>3, <1>4, <1>5, <1>6, <1>7, <1>8, <1>9, <1>10, <1>11, <1>12, <1>13,
     <1>14, <1>15 DEF MethodNext

\* A step of the method: the world stays as it is and a legal step follows.
Moves(p) ==
    /\ Disciplined(adapter) /\ ReadInv /\ p = plan
    /\ Goes(p) \/ Fails(p) \/ Return

\* What a step leaves alone, and where an error takes the method.
LEMMA MoveFacts ==
    ASSUME NEW p, Moves(p)
    PROVE  /\ ~done /\ UNCHANGED world /\ openLegs' \subseteq openLegs
           /\ Fails(p) =>
                 /\ p[pc].op \notin {"window", "drop", "report"}
                 /\ ~p[pc].stop => Strict(p[pc]) /\ ~p[pc].whole
                                   /\ p[pc].lost \subseteq p[pc].closes
                 /\ ~p[pc].stop => \A L : pc' \in After(p, pc, L)
           /\ Return =>
                 /\ pc \notin DOMAIN p /\ done' = TRUE
                 /\ UNCHANGED <<pc, openLegs, passed, hurt, reported, err, faults>>
<1>1. ErrorsJoined(p) /\ ~done
  BY DEF Moves, Disciplined, plan, Goes, Fails, Return
<1>2. UNCHANGED world /\ openLegs' \subseteq openLegs
  BY DEF Moves, Goes, Fails, Return
<1>3. ASSUME Fails(p)
      PROVE  /\ p[pc].op \notin {"window", "drop", "report"}
             /\ ~p[pc].stop => Strict(p[pc]) /\ ~p[pc].whole
                               /\ p[pc].lost \subseteq p[pc].closes
             /\ ~p[pc].stop => \A L : pc' \in After(p, pc, L)
  <2>1. pc \in DOMAIN p /\ (Strict(p[pc]) \/ p[pc].op = "raise")
    BY <1>3 DEF Fails
  <2>2. p[pc].op \notin {"window", "drop", "report"}
    BY <2>1 DEF Strict
  <2>3. ~p[pc].stop => Strict(p[pc]) /\ ~p[pc].whole /\ p[pc].lost \subseteq p[pc].closes
    BY <1>1, <2>1 DEF ErrorsJoined
  <2>4. ~p[pc].stop => \A L : pc' \in After(p, pc, L)
    BY <1>3 DEF Fails, After
  <2> QED
    BY <2>2, <2>3, <2>4
<1>4. Return => /\ pc \notin DOMAIN p /\ done' = TRUE
                       /\ UNCHANGED <<pc, openLegs, passed, hurt, reported, err, faults>>
  BY DEF Return, Moves
<1> QED
  BY <1>1, <1>2, <1>3, <1>4

\* No path gets around a window, a drop or a report it must pass.
LEMMA PathsKeep ==
    ASSUME NEW p, Moves(p)
    PROVE  Paths(p)'
<1>1. /\ ~done /\ held' = held /\ inactive' = inactive /\ openLegs' \subseteq openLegs /\ Paths(p)
  BY MoveFacts DEF world, Moves, ReadInv
<1>2. ASSUME NEW leg, NEW w, NEW U, Before(p, Windows(p, leg, w), {}, U)
      PROVE  pc' \in U \/ leg \notin openLegs' \/ w \notin inactive
  <2>1. pc \in U \/ leg \notin openLegs \/ w \notin inactive
    BY <1>1, <1>2 DEF Paths
  <2>2. CASE Return \/ (Fails(p) /\ p[pc].stop)
    BY <1>1, <2>1, <2>2, MoveFacts DEF Fails
  <2>3. CASE Fails(p) /\ ~p[pc].stop
    <3>1. pc \notin Windows(p, leg, w)
      BY <2>3, MoveFacts DEF Windows, Steps
    <3>2. pc \in DOMAIN p
      BY <2>3 DEF Fails
    <3> QED
      BY <1>1, <1>2, <2>1, <2>3, <3>1, <3>2, MoveFacts DEF Before
  <2>4. CASE Goes(p)
    <3>1. CASE pc \in Windows(p, leg, w)
      BY <2>4, <3>1 DEF Goes, Windows, Steps
    <3>2. CASE pc \notin Windows(p, leg, w)
      BY <1>1, <1>2, <2>1, <2>4, <3>2 DEF Before, Goes
    <3> QED
      BY <3>1, <3>2
  <2> QED
    BY <2>2, <2>3, <2>4 DEF Moves
<1>3. ASSUME NEW leg, NEW U, Before(p, Steps(p, "drop", leg), {}, U)
      PROVE  pc' \in U \/ leg \notin openLegs' \/ leg \in held
  <2>1. pc \in U \/ leg \notin openLegs \/ leg \in held
    BY <1>1, <1>3 DEF Paths
  <2>2. CASE Return \/ (Fails(p) /\ p[pc].stop)
    BY <1>1, <2>1, <2>2, MoveFacts DEF Fails
  <2>3. CASE Fails(p) /\ ~p[pc].stop
    <3>1. pc \notin Steps(p, "drop", leg) /\ pc \in DOMAIN p
      BY <2>3, MoveFacts DEF Steps, Fails
    <3> QED
      BY <1>1, <1>3, <2>1, <2>3, <3>1, MoveFacts DEF Before
  <2>4. CASE Goes(p)
    <3>1. CASE pc \in Steps(p, "drop", leg)
      BY <2>4, <3>1 DEF Goes, Steps
    <3>2. CASE pc \notin Steps(p, "drop", leg)
      BY <1>1, <1>3, <2>1, <2>4, <3>2 DEF Before, Goes
    <3> QED
      BY <3>1, <3>2
  <2> QED
    BY <2>2, <2>3, <2>4 DEF Moves
<1>4. ASSUME NEW leg \in held, NEW U,
             Before(p, Steps(p, "report", leg), {leg}, U)
      PROVE  \/ pc' \in U \/ leg \notin openLegs' \/ leg \in reported'
             \/ Stopped(p)' /\ (p[pc'].whole \/ leg \in p[pc'].lost)
  <2>1. pc \in U \/ leg \notin openLegs \/ leg \in reported
    BY <1>1, <1>4 DEF Paths, Stopped
  <2>2. CASE Return
    BY <2>1, <2>2, MoveFacts
  <2>3. CASE Fails(p) /\ p[pc].stop
    BY <2>1, <2>3 DEF Fails, Stopped
  <2>4. CASE Fails(p) /\ ~p[pc].stop
    <3>1. pc \notin Steps(p, "report", leg) /\ pc \in DOMAIN p
      BY <2>4, MoveFacts DEF Steps, Fails
    <3>2. /\ reported' = reported \ p[pc].lost /\ openLegs' = openLegs \ p[pc].closes
          /\ p[pc].lost \subseteq p[pc].closes
      BY <2>4, MoveFacts DEF Fails
    <3> QED
      BY <1>1, <1>4, <2>1, <2>4, <3>1, <3>2, MoveFacts DEF Before
  <2>5. CASE Goes(p)
    <3>1. CASE pc \in Steps(p, "report", leg)
      BY <2>5, <3>1 DEF Goes, Steps
    <3>2. CASE pc \notin Steps(p, "report", leg)
      BY <1>1, <1>4, <2>1, <2>5, <3>2 DEF Before, Goes
    <3> QED
      BY <3>1, <3>2
  <2> QED
    BY <2>2, <2>3, <2>4, <2>5 DEF Moves
<1> QED
  BY <1>1, <1>2, <1>3, <1>4 DEF Paths

\* What there is stays as it is for the whole read.
LEMMA WorldKeeps ==
    ASSUME NEW p, Moves(p)
    PROVE  World(p)'
<1>1. /\ held' = held /\ inactive' = inactive /\ missed' = missed /\ openLegs' \subseteq openLegs
      /\ World(p)
  BY MoveFacts DEF world, Moves, ReadInv
<1> QED
  BY <1>1 DEF World, Undeployed

\* An error keeps its reason.
LEMMA CourseKeeps ==
    ASSUME NEW p, Moves(p)
    PROVE  Course(p)'
<1>1. ~done /\ Course(p) /\ ~Stopped(p)
  BY MoveFacts DEF Moves, ReadInv, Stopped
<1>2. CASE Return
  <2>1. ~Stopped(p)' /\ UNCHANGED <<hurt, err, faults>>
    BY <1>2, MoveFacts DEF Stopped
  <2> QED
    BY <1>1, <2>1 DEF Course
<1>3. CASE Goes(p)
  <2>1. ~Stopped(p)' /\ UNCHANGED <<hurt, err>> /\ faults' \in {faults, faults + 1}
    BY <1>3 DEF Stopped, Goes
  <2> QED
    BY <1>1, <2>1 DEF Course
<1>4. CASE Fails(p)
  <2>1. faults' \in Nat /\ faults' > 0 /\ err'
    BY <1>1, <1>4 DEF Fails, Course
  <2>2. CASE p[pc].stop
    <3>1. /\ pc' = pc /\ pc \in DOMAIN p /\ done'
          /\ reported' = IF p[pc].whole THEN {} ELSE reported \ p[pc].lost
          /\ hurt' = hurt \cup (p[pc].on \cap openLegs)
          /\ p[pc].op = "raise" \/ (Strict(p[pc]) /\ p[pc].on \cap openLegs # {})
      BY <1>4, <2>2 DEF Fails
    <3>2. p[pc].op = "raise" \/ (Strict(p[pc]) /\ p[pc].on \cap hurt' # {})
      BY <3>1
    <3>3. reported' \cap p[pc].lost = {} /\ (p[pc].whole => reported' = {})
      BY <3>1
    <3>4. Stopped(p)'
      BY <3>1 DEF Stopped
    <3> QED
      BY <2>1, <2>2, <3>1, <3>2, <3>3, <3>4 DEF Course
  <2>3. CASE ~p[pc].stop
    <3>1. done' = done /\ pc \in DOMAIN p
      BY <1>4, <2>3 DEF Fails
    <3>2. Strict(p[pc])
      BY <1>4, <2>3, MoveFacts
    <3> QED
      BY <1>1, <2>1, <2>3, <3>1, <3>2 DEF Course, Stopped
  <2> QED
    BY <2>2, <2>3
<1> QED
  BY <1>2, <1>3, <1>4 DEF Moves

\* A window never leaves what the account has.
LEMMA WindowLeavesNone ==
    ASSUME NEW p, Moves(p), pc \in DOMAIN p, NEW leg \in held,
           p[pc].op = "window", leg \in p[pc].closes, p[pc].surface \in inactive
    PROVE  FALSE
<1>1. World(p) /\ BehindWindows(p)
  BY DEF Moves, ReadInv, Disciplined, plan
<1>2. ~Undeployed(leg) /\ leg[2] # "registry"
  BY <1>1 DEF World
<1>3. p[pc].surface \in WindowsOf(leg[1])
  BY <1>1, <1>2 DEF BehindWindows
<1> QED
  BY <1>2, <1>3 DEF Undeployed

\* What is held is left for a reason.
LEMMA DepartedKeeps ==
    ASSUME NEW p, Moves(p)
    PROVE  Departed(p)'
<1>1. held' = held /\ missed' = missed /\ Departed(p)
  BY MoveFacts DEF world, Moves, ReadInv
<1>2. CASE Return
  <2>1. UNCHANGED <<openLegs, passed, hurt>>
    BY <1>2, MoveFacts
  <2> QED
    BY <1>1, <2>1 DEF Departed
<1>3. CASE Goes(p)
  <2>1. /\ pc \in DOMAIN p /\ hurt' = hurt /\ passed \subseteq passed'
        /\ passed' # passed => Lenient(p[pc]) /\ passed' \subseteq passed \cup p[pc].on
    BY <1>3 DEF Goes
  <2>2. ASSUME NEW leg \in (held \cap openLegs) \ openLegs'
        PROVE  leg \in passed' \cup missed
    <3>1. ~(p[pc].op = "window" /\ leg \in p[pc].closes /\ p[pc].surface \in inactive)
      BY <2>1, WindowLeavesNone
    <3> QED
      BY <1>3, <3>1 DEF Goes
  <2>3. ASSUME NEW leg \in held
        PROVE  \/ leg \in openLegs' \cup passed' \cup missed'
               \/ \E i \in DOMAIN p : Joins(p[i], leg) /\ p[i].on \cap hurt' # {}
    <3>1. CASE leg \in openLegs
      BY <1>1, <2>2, <3>1
    <3>2. CASE leg \notin openLegs
      BY <1>1, <2>1, <3>2 DEF Departed
    <3> QED
      BY <3>1, <3>2
  <2>4. ASSUME NEW leg \in passed'
        PROVE  \E i \in DOMAIN p : Lenient(p[i]) /\ leg \in p[i].on
    BY <1>1, <2>1 DEF Departed
  <2> QED
    BY <1>1, <2>3, <2>4 DEF Departed
<1>4. CASE Fails(p)
  <2>1. /\ pc \in DOMAIN p /\ passed' = passed /\ hurt \subseteq hurt'
        /\ p[pc].stop => openLegs' = openLegs
        /\ ~p[pc].stop => openLegs' = openLegs \ p[pc].closes
    BY <1>4 DEF Fails
  <2>2. ~p[pc].stop => Strict(p[pc]) /\ p[pc].on \cap openLegs # {}
    <3>1. ASSUME ~p[pc].stop
          PROVE  Strict(p[pc]) /\ p[pc].op # "raise"
      <4>1. Strict(p[pc])
        BY <1>4, <3>1, MoveFacts
      <4> QED
        BY <4>1 DEF Strict
    <3> QED
      BY <1>4, <3>1 DEF Fails
  <2>3. ~p[pc].stop => p[pc].on \cap hurt' # {}
    BY <1>4, <2>2 DEF Fails
  <2>4. ASSUME NEW leg \in held
        PROVE  \/ leg \in openLegs' \cup passed' \cup missed'
               \/ \E i \in DOMAIN p : Joins(p[i], leg) /\ p[i].on \cap hurt' # {}
    <3>1. CASE leg \in openLegs \ openLegs'
      BY <2>1, <2>2, <2>3, <3>1 DEF Joins
    <3>2. CASE leg \notin openLegs \ openLegs'
      <4>1. \/ leg \in openLegs' \cup passed \cup missed
            \/ \E i \in DOMAIN p : Joins(p[i], leg) /\ p[i].on \cap hurt # {}
        BY <1>1, <3>2 DEF Departed
      <4> QED
        BY <1>1, <2>1, <4>1
    <3> QED
      BY <3>1, <3>2
  <2> QED
    BY <1>1, <2>1, <2>4 DEF Departed
<1> QED
  BY <1>2, <1>3, <1>4 DEF Moves

\* No group is appended of what is not there, and a debt stays with its asset.
LEMMA TogetherKeeps ==
    ASSUME NEW p, Moves(p)
    PROVE  Together'
<1>1. /\ held' = held /\ openLegs' \subseteq openLegs
      /\ Together /\ World(p) /\ Paths(p)
      /\ GroupsExact(p) /\ DebtsPaired(p)
  BY MoveFacts DEF world, Moves, ReadInv, Disciplined, plan
<1>2. reported' \subseteq held
  <2>1. CASE Goes(p) /\ reported' # reported
    <3>1. pc \in DOMAIN p /\ p[pc].op = "report" /\ reported' = reported \cup (p[pc].on \cap openLegs)
      BY <2>1 DEF Goes
    <3>2. ASSUME NEW leg \in p[pc].on \cap openLegs
          PROVE  leg \in held
      <4>1. Passes(p, Steps(p, "drop", leg), pc)
        BY <1>1, <3>1 DEF GroupsExact
      <4>2. PICK U : Before(p, Steps(p, "drop", leg), {}, U) /\ pc \notin U
        BY <4>1 DEF Passes
      <4> QED
        BY <1>1, <4>2 DEF Paths
    <3> QED
      BY <1>1, <3>1, <3>2 DEF Together
  <2>2. CASE reported' = reported
    BY <1>1, <2>2 DEF Together
  <2>3. CASE Fails(p) \/ Return
    <3>1. reported' \subseteq reported
      BY <2>3, MoveFacts DEF Fails
    <3> QED
      BY <1>1, <3>1 DEF Together
  <2> QED
    BY <2>1, <2>2, <2>3 DEF Moves
<1>3. ASSUME NEW s, Debt(s) \in held
      PROVE  /\ Asset(s) \in openLegs' \cap held => Debt(s) \in openLegs'
             /\ Asset(s) \in reported' => Debt(s) \in reported'
  <2> DEFINE d == Debt(s)
             a == Asset(s)
  <2>1. /\ a \in openLegs \cap held => d \in openLegs
        /\ a \in reported => d \in reported
    BY <1>1, <1>3 DEF Together
  <2>2. ASSUME a \in openLegs \cup reported
        PROVE  \A i \in DOMAIN p :
                  /\ Lenient(p[i]) /\ d \in p[i].on => a \in p[i].on
                  /\ Strict(p[i]) /\ ~p[i].stop /\ d \in p[i].closes => a \in p[i].closes
                  /\ d \in p[i].lost => a \in p[i].lost
                  /\ p[i].op = "report" /\ a \in p[i].on => d \in p[i].on
    <3>1. {a, d} \subseteq Legs(p)
      BY <1>1, <1>3, <2>2 DEF World, Together
    <3>2. d[1] = s
      BY DEF Debt
    <3>3. s \in Surfaces(p)
      BY <3>1, <3>2 DEF Surfaces
    <3> QED
      BY <1>1, <3>1, <3>3 DEF DebtsPaired
  <2>3. d[1] = a[1]
    BY DEF Debt, Asset
  <2> HIDE DEF d, a
  <2>4. d \in held
    BY <1>3 DEF d
  <2>5. ASSUME a \in openLegs' \cap held
        PROVE  d \in openLegs'
    <3>1. a \in openLegs /\ d \in openLegs
      BY <1>1, <2>1, <2>5
    <3>2. CASE Return
      BY <3>1, <3>2, MoveFacts
    <3>3. CASE Fails(p)
      <4>1. p[pc].stop \/ Strict(p[pc])
        BY <3>3, MoveFacts
      <4> QED
        BY <2>2, <2>5, <3>1, <3>3, <4>1 DEF Fails
    <3>4. CASE Goes(p)
      <4>1. SUFFICES ASSUME d \notin openLegs'
                     PROVE  FALSE
        OBVIOUS
      <4>2. pc \in DOMAIN p
        BY <3>4 DEF Goes
      <4>3. ~(p[pc].op = "window" /\ d \in p[pc].closes /\ p[pc].surface \in inactive)
        BY <2>4, <4>2, WindowLeavesNone
      <4>4. CASE /\ p[pc].op = "index" /\ d \in p[pc].on \cap missed
                 /\ openLegs' \cap p[pc].on \cap missed = {}
        <5>1. a \in p[pc].on
          BY <2>2, <3>1, <4>2, <4>4 DEF Lenient
        <5>2. a \in Indexed(p)
          BY <4>2, <4>4, <5>1 DEF Indexed
        <5>3. a \in missed
          BY <1>1, <2>3, <2>5, <4>4, <5>2 DEF World
        <5> QED
          BY <2>5, <4>4, <5>1, <5>3
      <4>5. CASE Lenient(p[pc]) /\ d \in p[pc].on /\ openLegs' \cap p[pc].on = {}
        BY <2>2, <2>5, <3>1, <4>2, <4>5
      <4> QED
        BY <2>4, <3>1, <3>4, <4>1, <4>3, <4>4, <4>5 DEF Goes
    <3> QED
      BY <3>2, <3>3, <3>4 DEF Moves
  <2>6. ASSUME a \in reported'
        PROVE  d \in reported'
    <3>1. CASE Return
      BY <2>1, <2>6, <3>1, MoveFacts
    <3>2. CASE Fails(p)
      BY <2>1, <2>2, <2>6, <3>2 DEF Fails
    <3>3. CASE Goes(p)
      <4>1. CASE a \in reported
        BY <2>1, <3>3, <4>1 DEF Goes
      <4>2. CASE a \notin reported
        <5>1. /\ pc \in DOMAIN p /\ p[pc].op = "report" /\ a \in p[pc].on \cap openLegs
              /\ reported' = reported \cup (p[pc].on \cap openLegs)
          BY <2>6, <3>3, <4>2 DEF Goes
        <5>2. d \in p[pc].on
          BY <2>2, <5>1
        <5>3. a \in held
          BY <1>2, <2>6
        <5> QED
          BY <2>1, <5>1, <5>2, <5>3
      <4> QED
        BY <4>1, <4>2
    <3> QED
      BY <3>1, <3>2, <3>3 DEF Moves
  <2> QED
    BY <2>5, <2>6 DEF d, a
<1> QED
  BY <1>1, <1>2, <1>3 DEF Together

\* The subsets of at most k elements are subsets.
LEMMA UpToSubset ==
    ASSUME NEW k, NEW S, NEW T \in UpTo(k, S)
    PROVE  T \subseteq S
  BY DEF UpTo, kSubset

\* A read starts with every leg open and the account in contracts that are there.
LEMMA ReadStarts ==
    ASSUME MethodInit
    PROVE  ReadInv
<1> DEFINE p == plan
<1>1. /\ adapter \in DOMAIN Positions /\ pc = 1 /\ openLegs = Legs(p)
      /\ passed = {} /\ hurt = {} /\ reported = {} /\ err = FALSE /\ faults = 0 /\ done = FALSE
  BY DEF MethodInit
<1>2. \A leg \in held :
          leg \in Legs(p) /\ ~Undeployed(leg) /\ leg[2] # "registry"
  <2>1. held \in UpTo(MaxHeld, {leg \in Legs(p) : leg[2] # "registry" /\ ~Undeployed(leg)})
    BY DEF MethodInit
  <2> QED
    BY <2>1, UpToSubset
<1>3. PICK S : missed = {leg \in Indexed(p) \cap held :
                            {leg[1], Within(leg[1])} \cap S # {}}
  BY DEF MethodInit
<1>4. World(p)
  <2>1. \A x \in missed : \A y \in held \cap Indexed(p) : x[1] = y[1] => y \in missed
    BY <1>3
  <2> QED
    BY <1>1, <1>2, <1>3, <2>1 DEF World
<1>5. Course(p) /\ ~Stopped(p)
  BY <1>1 DEF Course, Stopped
<1>6. Paths(p)
  BY <1>1 DEF Paths, Before
<1>7. Departed(p) /\ Together
  BY <1>1, <1>2 DEF Departed, Together
<1> QED
  BY <1>1, <1>4, <1>5, <1>6, <1>7 DEF ReadInv

\* The discipline carries the invariant over every step.
LEMMA ReadSteps ==
    ASSUME AllDisciplined, ReadInv, [MethodNext]_methodVars
    PROVE  ReadInv'
<1>1. CASE UNCHANGED methodVars
  <2>1. UNCHANGED <<adapter, inactive, held, extra, missed, pc, openLegs, passed, hurt, reported,
                    err, faults, done>>
    BY <1>1 DEF methodVars, world
  <2>2. PICK p : p = plan
    OBVIOUS
  <2>3. plan' = p
    BY <2>1, <2>2 DEF plan
  <2>4. World(p) /\ Course(p) /\ Paths(p) /\ Departed(p) /\ Together
    BY <2>2 DEF ReadInv
  <2>5. World(p)' /\ Course(p)'
    BY <2>1, <2>4 DEF World, Course, Stopped, Undeployed
  <2>6. Paths(p)'
    BY <2>1, <2>4 DEF Paths, Stopped
  <2>7. Departed(p)' /\ Together'
    BY <2>1, <2>4 DEF Departed, Together
  <2> QED
    BY <2>1, <2>3, <2>5, <2>6, <2>7 DEF ReadInv
<1>2. CASE MethodNext
  <2>1. PICK p : p = plan
    OBVIOUS
  <2>2. Goes(p) \/ Fails(p) \/ Return
    BY <1>2, <2>1, StepShape
  <2>3. Moves(p)
    BY <2>1, <2>2 DEF Moves, AllDisciplined, ReadInv
  <2>4. plan' = p /\ adapter' = adapter
    BY <2>1, <2>3, MoveFacts DEF plan, world
  <2>5. World(p)' /\ Course(p)' /\ Paths(p)' /\ Departed(p)' /\ Together'
    BY <2>3, WorldKeeps, CourseKeeps, PathsKeep, DepartedKeeps, TogetherKeeps
  <2> QED
    BY <2>4, <2>5 DEF ReadInv
<1> QED
  BY <1>1, <1>2

\* What every state of a read satisfies, for every adapter that is disciplined.
LEMMA ReadInvariant ==
    ASSUME AllDisciplined
    PROVE  MethodSpec => []ReadInv
<1>1. MethodInit => ReadInv
  BY ReadStarts
<1>2. ReadInv /\ [MethodNext]_methodVars => ReadInv'
  BY ReadSteps
<1> QED
  BY <1>1, <1>2, PTL DEF MethodSpec

-----------------------------------------------------------------------------
\* The surfaces whose legs are said never to be left out, or to fail apart.
Accounted == {"savings", "farm", "lockstake", "distributor", "second distributor", "VAI"}

\* What the adapters leave out by design is on other surfaces.
LEMMA InScope ==
    ASSUME NEW leg, leg[1] \in Accounted
    PROVE  leg \notin OutOfScope
<1>1. SUFFICES ASSUME leg \in OutOfScope
               PROVE  FALSE
  OBVIOUS
<1>2. PICK s \in {"SPK farm", "GROVE farm", "first lockstake", "vesper pool", "locked VSP",
                 "staking module", "left farm"} :
         leg \in {Asset(s), Debt(s), Reward(s)}
  BY <1>1 DEF OutOfScope, Staked, Market
<1>3. leg[1] = s
  <2>1. \A x : Asset(x)[1] = x /\ Debt(x)[1] = x /\ Reward(x)[1] = x
    BY DEF Asset, Debt, Reward
  <2> QED
    BY <1>2, <2>1
<1>4. s \notin Accounted
  BY <1>2 DEF Accounted
<1> QED
  BY <1>3, <1>4

\* What is held and has not been left has its group when the method ends by itself.
LEMMA GroupAtTheEnd ==
    ASSUME AllDisciplined, ReadInv, NEW p, p = plan, done, ~Stopped(p),
           NEW leg \in held \cap openLegs,
           leg \notin OutOfScope
    PROVE  leg \in reported
<1>1. GroupsExact(p) /\ Paths(p) /\ World(p)
  BY DEF AllDisciplined, ReadInv, Disciplined, plan
<1>2. Ends(p, Steps(p, "report", leg), {leg})
  BY <1>1 DEF GroupsExact, World
<1>3. PICK U : Before(p, Steps(p, "report", leg), {leg}, U) /\ U \subseteq DOMAIN p
  BY <1>2 DEF Ends
<1>4. pc \notin U
  BY <1>3 DEF Stopped
<1> QED
  BY <1>1, <1>3, <1>4 DEF Paths

\* What no tolerant read is about is left only for an error that was joined.
LEMMA NotPassedOver ==
    ASSUME ReadInv, NEW p, p = plan, NEW leg \in held,
           \A i \in DOMAIN p : Lenient(p[i]) => leg \notin p[i].on
    PROVE  leg \in openLegs \/ \E i \in DOMAIN p : Joins(p[i], leg) /\ p[i].on \cap hurt # {}
<1>1. Departed(p) /\ World(p)
  BY DEF ReadInv
<1>2. leg \notin passed
  BY <1>1 DEF Departed
<1>3. leg \notin Indexed(p)
  BY DEF Indexed, Lenient
<1> QED
  BY <1>1, <1>2, <1>3 DEF Departed, World

\* Nothing is reported that is not there, and nothing left out without a reason.
LEMMA Exactly ==
    ASSUME AllDisciplined, ReadInv
    PROVE  AnswerExact
<1>1. PICK p : p = plan
  OBVIOUS
<1>2. Course(p) /\ Departed(p) /\ reported \subseteq held
  BY <1>1 DEF ReadInv, Together
<1>3. ASSUME done, ~err, NEW leg \in held \ reported,
             leg \notin OutOfScope
      PROVE  leg \in passed \cup missed
  <2>1. ~Stopped(p) /\ hurt = {}
    BY <1>2, <1>3 DEF Course
  <2>2. leg \notin openLegs
    BY <1>1, <1>3, <2>1, GroupAtTheEnd
  <2> QED
    BY <1>2, <2>1, <2>2 DEF Departed
<1> QED
  BY <1>2, <1>3 DEF AnswerExact

\* A debt is reported with the asset beside it, and VAI with the core pool.
LEMMA Indebted ==
    ASSUME AllDisciplined, ReadInv
    PROVE  DebtNeverHidden
<1>1. PICK p : p = plan
  OBVIOUS
<1>2. Course(p) /\ World(p) /\ Together /\ DebtsPaired(p)
  BY <1>1 DEF ReadInv, AllDisciplined, Disciplined, plan
<1>3. ASSUME Debt("VAI") \in held, done, reported # {}
      PROVE  Debt("VAI") \in reported
  <2>1. \A i \in DOMAIN p :
           /\ Strict(p[i]) \/ p[i].op = "raise" => p[i].stop /\ p[i].whole
           /\ Lenient(p[i]) => Debt("VAI") \notin p[i].on
    BY <1>2, <1>3 DEF DebtsPaired, World
  <2>2. ~Stopped(p)
    BY <1>2, <1>3, <2>1 DEF Course, Stopped
  <2>3. Debt("VAI") \in openLegs
    BY <1>1, <1>3, <2>1, NotPassedOver DEF Joins
  <2>4. Debt("VAI") \notin OutOfScope
    <3>1. Debt("VAI")[1] \in Accounted
      BY DEF Debt, Accounted
    <3> QED
      BY <3>1, InScope
  <2> QED
    BY <1>1, <1>3, <2>2, <2>3, <2>4, GroupAtTheEnd
<1> QED
  BY <1>2, <1>3 DEF DebtNeverHidden, Together

\* A surface of Sky is left only for an error in its own reads.
LEMMA SkyApart ==
    ASSUME AllDisciplined, ReadInv, NEW p, p = plan, adapter = "sky", done,
           NEW S \in {"savings", "farm", "lockstake"},
           {leg \in Legs(p) : leg[1] = S} \cap hurt = {},
           NEW leg \in held, leg[1] = S
    PROVE  leg \in reported
<1>1. /\ Course(p) /\ World(p)
      /\ \A i \in DOMAIN p :
            /\ p[i].op # "raise" /\ (Strict(p[i]) => ~p[i].stop) /\ ~Lenient(p[i])
            /\ Strict(p[i]) => \A x \in p[i].closes, y \in p[i].on : x[1] = y[1]
  <2>1. Course(p) /\ World(p) /\ SurfacesApart("sky", p)
    BY DEF ReadInv, AllDisciplined, Disciplined, plan
  <2> QED
    BY <2>1 DEF SurfacesApart
<1>2. ~Stopped(p)
  BY <1>1 DEF Course, Stopped
<1>3. ASSUME NEW i \in DOMAIN p, Joins(p[i], leg), NEW y \in p[i].on \cap hurt
      PROVE  FALSE
  <2>1. y[1] = S
    BY <1>1, <1>3 DEF Joins
  <2>2. y \in Legs(p)
    BY <1>3 DEF Legs
  <2> QED
    BY <1>3, <2>1, <2>2
<1>4. leg \in openLegs
  BY <1>1, <1>3, NotPassedOver
<1>5. leg \notin OutOfScope
  <2>1. leg[1] \in Accounted
    BY DEF Accounted
  <2> QED
    BY <2>1, InScope
<1> QED
  BY <1>2, <1>4, <1>5, GroupAtTheEnd

\* The principal of a Compound module is reported whatever became of its rewards.
LEMMA PrincipalStays ==
    ASSUME AllDisciplined, ReadInv, NEW p, p = plan, adapter = "compound", done,
           hurt \subseteq Modules, NEW s \in {"distributor", "second distributor"},
           Asset(s) \in held \ hurt
    PROVE  Asset(s) \in reported
<1> DEFINE a == Asset(s)
<1>1. /\ Course(p) /\ World(p) /\ Paths(p)
      /\ \A i \in DOMAIN p :
            /\ Strict(p[i]) /\ p[i].stop => p[i].on \cap Modules = {}
            /\ Strict(p[i]) /\ ~p[i].stop /\ a \in p[i].closes => p[i].on = {a}
            /\ Lenient(p[i]) => a \notin p[i].on
            /\ p[i].op = "raise" => ~p[i].whole /\ p[i].lost = {}
                  /\ Passes(p, Steps(p, "report", a), i)
  BY DEF ReadInv, AllDisciplined, Disciplined, SurfacesApart, plan
<1>2. a \notin OutOfScope
  <2>1. a[1] \in Accounted
    BY DEF Asset, Accounted
  <2> QED
    BY <2>1, InScope
<1> HIDE DEF a
<1>3. a \in openLegs /\ a \in held
  <2>1. a \in held /\ a \notin hurt
    BY DEF a
  <2>2. ASSUME NEW i \in DOMAIN p, Joins(p[i], a)
        PROVE  p[i].on \cap hurt = {}
    <3>1. Strict(p[i]) /\ ~p[i].stop /\ a \in p[i].closes
      BY <2>2 DEF Joins
    <3>2. p[i].on = {a}
      BY <1>1, <3>1
    <3> QED
      BY <2>1, <3>2
  <2>3. \A i \in DOMAIN p : Lenient(p[i]) => a \notin p[i].on
    BY <1>1
  <2>4. a \in openLegs \/ \E i \in DOMAIN p : Joins(p[i], a) /\ p[i].on \cap hurt # {}
    BY <2>1, <2>3, NotPassedOver
  <2> QED
    BY <2>1, <2>2, <2>4
<1>4. CASE ~Stopped(p)
  BY <1>2, <1>3, <1>4, GroupAtTheEnd DEF a
<1>5. CASE Stopped(p)
  <2>1. pc \in DOMAIN p /\ p[pc].op = "raise"
    BY <1>1, <1>5 DEF Course, Stopped
  <2>2. PICK U : Before(p, Steps(p, "report", a), {}, U) /\ pc \notin U
    BY <1>1, <2>1 DEF Passes
  <2>3. Before(p, Steps(p, "report", a), {a}, U)
    BY <2>2 DEF Before, After
  <2> QED
    BY <1>1, <1>3, <2>1, <2>2, <2>3 DEF Paths, a
<1> QED
  BY <1>4, <1>5

\* What is read apart fails apart.
LEMMA Apart ==
    ASSUME AllDisciplined, ReadInv
    PROVE  SurfacesIndependent
<1>1. PICK p : p = plan
  OBVIOUS
<1>2. ASSUME done, adapter = "sky", NEW S \in {"savings", "farm", "lockstake"},
             {leg \in Legs(p) : leg[1] = S} \cap hurt = {}
      PROVE  held \cap {leg \in Legs(p) : leg[1] = S} \subseteq reported
  BY <1>1, <1>2, SkyApart
<1>3. ASSUME done, adapter = "compound", hurt \subseteq Modules,
             NEW leg \in (held \cap Modules) \ hurt, leg[2] = "asset"
      PROVE  leg \in reported
  <2>1. PICK s \in {"distributor", "second distributor"} : leg = Asset(s)
    <3>1. leg \in UNION {Staked(s) : s \in {"distributor", "second distributor"}}
      BY <1>3 DEF Modules
    <3>2. PICK s \in {"distributor", "second distributor"} : leg \in Staked(s)
      BY <3>1
    <3>3. Reward(s)[2] = "reward"
      BY DEF Reward
    <3>4. leg = Asset(s)
      BY <1>3, <3>2, <3>3 DEF Staked
    <3> QED
      BY <3>4
  <2> QED
    BY <1>1, <1>3, <2>1, PrincipalStays
<1> QED
  BY <1>1, <1>2, <1>3 DEF SurfacesIndependent

\* Whatever an account has, the index says and fails, an adapter whose method is
\* disciplined reports only what is there, and returns no error only if what it leaves
\* out was passed over, not indexed or in OutOfScope: the Vesper, Compound and Sky
\* rewards, Sky's first engine and the two farms that the adapters do not ask for.
THEOREM AnswersAreExact ==
    ASSUME AllDisciplined
    PROVE  MethodSpec => []AnswerExact
<1>1. ReadInv => AnswerExact
  BY Exactly
<1> QED
  BY <1>1, ReadInvariant, PTL

\* Nor does it ever show an asset without the debt beside it, or the core pool of
\* Venus without the VAI the account owes.
THEOREM DebtsAreShown ==
    ASSUME AllDisciplined
    PROVE  MethodSpec => []DebtNeverHidden
<1>1. ReadInv => DebtNeverHidden
  BY Indebted
<1> QED
  BY <1>1, ReadInvariant, PTL

\* A deployment the pinned block comes before is never an error: what fails has failed.
THEOREM ErrorsHaveFaults ==
    ASSUME AllDisciplined
    PROVE  MethodSpec => []FailsOnlyOnFaults
<1>1. ReadInv => FailsOnlyOnFaults
  BY DEF ReadInv, Course, FailsOnlyOnFaults
<1> QED
  BY <1>1, ReadInvariant, PTL

\* Sky's surfaces and the principals of Compound's modules survive each other's errors.
THEOREM SurfacesStayApart ==
    ASSUME AllDisciplined
    PROVE  MethodSpec => []SurfacesIndependent
<1>1. ReadInv => SurfacesIndependent
  BY Apart
<1> QED
  BY <1>1, ReadInvariant, PTL

=============================================================================
