---------------------------- MODULE AdapterReads -----------------------------
(***************************************************************************)
(* One adapter scans one account at one pinned block.  What the account    *)
(* has (held), which contracts are not deployed yet (inactive) and what    *)
(* the pinned index says are chosen at the start; the plan of the adapter  *)
(* is then run step by step while round trips fail, calls revert and       *)
(* answers turn out malformed.                                             *)
(***************************************************************************)
EXTENDS LiquidityAdapters, FiniteSetsExt, TLC

CONSTANTS MaxHeld,    \* legs the account has,
          MaxFaults   \* round trips, calls and checks that fail

ASSUME MaxHeld \in Nat /\ MaxFaults \in Nat

VARIABLES adapter,   \* the adapter asked
          inactive,  \* deployments the pinned block comes before
          held,      \* the legs the account has at the pinned block
          extra,     \* legs the index lists that the account has no more
          missed,    \* legs the index has not seen
          pc,        \* the step of the plan
          openLegs,  \* legs not left yet
          passed,    \* legs a tolerant read or a registry passed over
          hurt,      \* legs whose reads returned an error
          reported,  \* the legs of the groups returned
          err,       \* whether an error comes with them
          faults,
          done

world == <<adapter, inactive, held, extra, missed>>
methodVars  == <<world, pc, openLegs, passed, hurt, reported, err, faults, done>>

-----------------------------------------------------------------------------
Positions ==
    [lido      |-> LidoPositions,           etherfi   |-> EtherfiPositions,
     frax      |-> FraxEtherPositions,      fx        |-> FxPositions,
     renzo     |-> RenzoPositions,          aster     |-> AsterPositions,
     staderEth |-> StaderEthereumPositions, staderBSC |-> StaderBSCPositions,
     staderPol |-> StaderPolygonPositions,  vesper    |-> VesperPositions,
     compound  |-> CompoundV2Positions,     venus     |-> VenusPositions,
     aaveV2    |-> AaveV2Positions,         spark     |-> SparkPositions,
     aaveV3    |-> AaveV3Positions,         aaveV4    |-> AaveV4Positions,
     crvUSD    |-> CrvUSDPositions,         curve     |-> CurveLendingPositions,
     sky       |-> SkyPositions,            fluid     |-> FluidPositions,
     erc4626   |-> ERC4626Positions,         comet     |-> CompoundV3Positions,
     fraxlend  |-> FraxlendPositions,       maker     |-> MakerDAOPositions,
     liquity   |-> LiquityV1Positions,      yearn     |-> YearnV3Positions,
     beefy     |-> BeefyPositions,          stakewise |-> StakeWisePositions,
     olympus   |-> OlympusPositions,        rocket    |-> RocketPoolPositions,
     maple     |-> MaplePositions,          meth      |-> MethPositions,
     uniswapV3 |-> UniswapV3Positions,      uniswapV4 |-> UniswapV4Positions,
     pendle    |-> PendlePositions,         morpho    |-> MorphoPositions,
     euler     |-> EulerV2Positions,        lista     |-> ListaPositions]

\* The surface whose deployment a surface depends on, and the surfaces that are
\* in the same contracts as the one they depend on and have no window of their own.
Within(s) ==
    LET in == "wstETH" :> "stETH" @@ "lido withdrawals" :> "stETH" @@ "earnETH" :> "stETH"
           @@ "REZ unstake" :> "REZ" @@ "BNBx withdrawal" :> "BNBx"
           @@ "MaticX withdrawal" :> "MaticX rate" @@ "MaticX rate" :> "MaticX"
           @@ "ETHx withdrawal" :> "ETHx" @@ "SD delegation" :> "ETHx"
           @@ "SD withdrawal" :> "ETHx" @@ "operator SD" :> "ETHx" @@ "operator ETH" :> "ETHx"
           @@ "VAI" :> "core" @@ "core lens" :> "core" @@ "pool lens" :> "isolated"
           @@ "v2 incentives" :> "v2 pool" @@ "left farm" :> "lockstake"
           @@ "spark receipt" :> "spark rewards" @@ "spark rewards" :> "spark pool"
           @@ "sUSDe cooldown" :> "sUSDe" @@ "sENA cooldown" :> "sENA" @@ "spoke" :> "v4 hub" @@ "second spoke" :> "v4 hub"
           @@ "one-way loan" :> "one-way" @@ "gauge" :> "one-way"
           @@ "v2 loan" :> "v2" @@ "v2" :> "one-way" @@ "locked VSP" :> "vesper pool"
           @@ "comet collateral" :> "comet" @@ "comet rewards" :> "comet"
           @@ "fraxlend collateral" :> "fraxlend" @@ "maker vault" :> "DAI savings"
           @@ "yearn staking" :> "yearn vault" @@ "gOHM" :> "sOHM" @@ "mono cooler" :> "sOHM"
           @@ "node bond" :> "rocket nodes" @@ "node RPL" :> "rocket nodes"
           @@ "rocket nodes" :> "rETH" @@ "mETH withdrawal" :> "mETH"
           @@ "PT" :> "pendle" @@ "YT" :> "pendle" @@ "LP" :> "pendle" @@ "LP exited" :> "pendle"
           @@ "morpho market" :> "morpho" @@ "morpho strategy" :> "morpho"
           @@ "morpho vault" :> "morpho" @@ "securitize" :> "evault" @@ "euler earn" :> "evault"
           @@ "euler rewards" :> "evault" @@ "euler vesting" :> "evault"
           @@ "lista vault" :> "moolah"
    IN IF s \in DOMAIN in THEN in[s] ELSE s

Windowless ==
    {"REZ unstake", "ETHx withdrawal", "SD delegation", "SD withdrawal", "operator SD",
     "operator ETH", "VAI", "left farm", "spark receipt", "sUSDe cooldown", "sENA cooldown",
     "spoke", "second spoke", "one-way loan", "gauge", "v2 loan",
     "comet collateral", "fraxlend collateral", "gOHM", "node bond", "node RPL",
     "mETH withdrawal", "PT", "YT", "LP", "LP exited", "morpho market", "morpho strategy",
     "morpho vault", "securitize", "euler earn", "lista vault"}

WindowsOf(s) == {s, Within(s), Within(Within(s))} \ Windowless

Surfaces(plan) == {leg[1] : leg \in Legs(plan)}
Indexed(plan)  == UNION {plan[i].on : i \in {j \in DOMAIN plan : plan[j].op = "index"}}
UpTo(k, S)     == UNION {kSubset(n, S) : n \in 0..k}

\* Contracts of the leg that are not there yet: a call to one answers nothing.
Undeployed(leg) == WindowsOf(leg[1]) \cap inactive # {}

plan == Positions[adapter]
step == plan[pc]
now  == step.on \cap openLegs

MethodInit ==
    /\ adapter \in DOMAIN Positions
    /\ inactive \in UpTo(1, UNION {WindowsOf(s) : s \in Surfaces(plan)})
    /\ held \in UpTo(MaxHeld, {leg \in Legs(plan) : leg[2] # "registry" /\ ~Undeployed(leg)})
    /\ extra \in UpTo(1, {leg \in Indexed(plan) : leg \notin held /\ ~Undeployed(leg)})
    /\ \E S \in UpTo(1, Surfaces(plan)) :
         missed = {leg \in Indexed(plan) \cap held : {leg[1], Within(leg[1])} \cap S # {}}
    /\ pc = 1
    /\ openLegs = Legs(plan)
    /\ passed = {} /\ hurt = {} /\ reported = {}
    /\ err = FALSE /\ faults = 0 /\ done = FALSE

-----------------------------------------------------------------------------
\* The method p, or the one asked, is at a step of this kind.
StepIs(p, op) == pc \in DOMAIN p /\ p[pc].op = op
At(op) == ~done /\ StepIs(plan, op)

\* The method goes on, by so many steps, and leaves these legs.
GoOn(n, L) ==
    /\ openLegs' = openLegs \ L
    /\ pc' = pc + n
    /\ UNCHANGED <<world, hurt, err, done>>

Leave(L) == GoOn(1, L)

\* The step s returned an error.
Fail(s) ==
    /\ err' = TRUE
    /\ hurt' = hurt \cup (s.on \cap openLegs)
    /\ reported' = IF s.whole THEN {} ELSE reported \ s.lost
    /\ IF s.stop THEN done' = TRUE /\ UNCHANGED <<pc, openLegs>>
       ELSE openLegs' = openLegs \ s.closes /\ pc' = pc + 1 /\ UNCHANGED done
    /\ UNCHANGED <<world, passed>>

\* A read that failed, by what the code does about it.
Handle(how) ==
    \/ how = "error" /\ Fail(step)
    \/ how = "drop" /\ Leave(now) /\ passed' = passed \cup now /\ UNCHANGED reported
    \/ how = "ignore" /\ Leave({}) /\ UNCHANGED <<passed, reported>>

Fault == faults < MaxFaults /\ faults' = faults + 1

\* The step is about legs that were left before.
Skip ==
    /\ ~done /\ pc \in DOMAIN plan /\ now = {}
    /\ step.op \notin {"raise", "need", "jump"}
    /\ Leave({}) /\ UNCHANGED <<passed, reported, faults>>

Gate ==
    /\ At("window") /\ now # {}
    /\ Leave(IF step.surface \in inactive THEN step.closes ELSE {})
    /\ UNCHANGED <<passed, reported, faults>>

\* The calls are sent in one round trip and all of them answer.
Answered ==
    /\ At("call") /\ now # {} /\ \A leg \in now : ~Undeployed(leg)
    /\ GoOn(1 + step.over, {}) /\ UNCHANGED <<passed, reported, faults>>

\* A contract reverts.
Reverted ==
    /\ At("call") /\ now # {} /\ Fault
    /\ Handle(IF step.strictIf \cap held # {} THEN "error" ELSE step.onRevert)

\* The round trip is lost, or a contract has no code yet and answers with
\* nothing, which no result is decoded from.
NotAnswered ==
    /\ At("call") /\ now # {}
    /\ IF \E leg \in now : Undeployed(leg) THEN UNCHANGED faults ELSE Fault
    /\ Handle(step.onFault)

\* The index answers with what the account had when it last looked.
Listed ==
    /\ At("index") /\ now # {}
    /\ GoOn(1 + step.over, now \ ((held \cup extra) \ missed))
    /\ UNCHANGED <<passed, reported, faults>>

\* A check that fails is an error; so is an index that does not answer, unless
\* the code can do without.
Refused == At("check") /\ now # {} /\ Fault /\ Fail(step)
NoIndex == At("index") /\ now # {} /\ Fault /\ Handle(step.onFault)
Checked == At("check") /\ now # {} /\ Leave({}) /\ UNCHANGED <<passed, reported, faults>>

\* What a registry lists is up to its owner: a leg it lists no more is passed over.
Unlisted ==
    /\ At("listing") /\ now # {}
    /\ \E L \in {{}, now} : Leave(L) /\ passed' = passed \cup L
    /\ UNCHANGED <<reported, faults>>

\* Legs the method does not ask for.
NotRead == At("unasked") /\ now # {} /\ Leave({}) /\ UNCHANGED <<passed, reported, faults>>

\* Amounts as they are at the pinned block.
Zeros == At("drop") /\ now # {} /\ Leave(now \ held) /\ UNCHANGED <<passed, reported, faults>>

\* What has been found to be there, a stale row of the index included.
found == now \cap (held \cup extra)

Jump ==
    /\ \/ At("need") /\ GoOn(IF found = {} THEN 1 + step.over ELSE 1, {})
       \/ At("jump") /\ GoOn(1 + step.over, {})
    /\ UNCHANGED <<passed, reported, faults>>

Group ==
    /\ At("report") /\ now # {}
    /\ reported' = reported \cup now
    /\ Leave({}) /\ UNCHANGED <<passed, faults>>

\* The errors joined so far are returned, if there are any.
RaiseJoined ==
    /\ At("raise")
    /\ \/ err /\ Fail(step)
       \/ ~err /\ Leave({}) /\ UNCHANGED <<passed, reported>>
    /\ UNCHANGED faults

Return ==
    /\ ~done /\ pc \notin DOMAIN plan
    /\ done' = TRUE
    /\ UNCHANGED <<world, pc, openLegs, passed, hurt, reported, err, faults>>

MethodNext == \/ Skip \/ Gate \/ Answered \/ Reverted \/ NotAnswered
        \/ Listed \/ NoIndex \/ Checked \/ Refused \/ Unlisted \/ NotRead
        \/ Zeros \/ Jump \/ Group
        \/ RaiseJoined \/ Return

MethodSpec == MethodInit /\ [][MethodNext]_methodVars

-----------------------------------------------------------------------------
(* The discipline of the methods, from which the properties follow.        *)

\* What every path of a method does.  The steps that may come after step k when the
\* account has the legs L: what is there is found.
After(p, k, L) ==
    IF p[k].op = "need" /\ p[k].on \cap L # {} THEN {k + 1} ELSE {k + 1, k + (1 + p[k].over)}

\* The steps a method can come to before it has taken one of those at stops.
Reached(p, stops, L) ==
    LET upTo[n \in 0..Len(p)] ==
            IF n = 0 THEN {1}
            ELSE LET earlier == upTo[n - 1] IN
                 IF n \in earlier \ stops THEN earlier \cup After(p, n, L) ELSE earlier
    IN  upTo[Len(p)]

\* U holds every step of a path that has not taken one of those at stops.
Before(p, stops, L, U) ==
    1 \in U /\ \A k \in (U \cap DOMAIN p) \ stops : After(p, k, L) \subseteq U

\* Every path comes to step i, or, with legs L, to the end by way of stops.
Passes(p, stops, i) ==
    LET U == Reached(p, stops, {}) IN Before(p, stops, {}, U) /\ i \notin U
Ends(p, stops, L) ==
    LET U == Reached(p, stops, L) IN Before(p, stops, L, U) /\ U \subseteq DOMAIN p

Steps(p, op, leg) == {j \in DOMAIN p : p[j].op = op /\ leg \in p[j].on}

\* A step that may return an error, and one that may pass legs over or miss them.
Strict(s) ==
    \/ s.op \in {"index", "check"}
    \/ s.op = "call" /\ ("error" \in {s.onRevert, s.onFault} \/ s.strictIf # {})
Lenient(s) ==
    s.op \in {"index", "listing"} \/ (s.op = "call" /\ "drop" \in {s.onRevert, s.onFault})

\* A strict call is behind the windows of what it calls; a window leaves its own
\* surfaces only.
BehindWindows(p) ==
    /\ \A i \in DOMAIN p : p[i].op = "call" /\ p[i].onFault = "error" =>
          \A leg \in p[i].on : \A w \in WindowsOf(leg[1]) :
             Passes(p, {j \in Steps(p, "window", leg) : p[j].surface = w /\ leg \in p[j].closes}, i)
    /\ \A i \in DOMAIN p : p[i].op = "window" =>
          \A leg \in p[i].closes : leg[2] # "registry" => p[i].surface \in WindowsOf(leg[1])

\* What the adapters leave out in silence, by the decisions their comments give: the
\* rewards of a Vesper pool after the exit, of a Compound staking module configured
\* without them, and of a Sky farm the urn has left; Sky's first Lockstake engine; and
\* the farms Sky leaves to Spark and to MakerDAO, which do not read them.
OutOfScope ==
    Staked("SPK farm") \cup Staked("GROVE farm") \cup Market("first lockstake")
      \cup {Reward(s) : s \in {"vesper pool", "locked VSP", "staking module",
                               "first lockstake", "left farm"}}

\* Zero amounts are left before a group is appended, and what is held and in scope has
\* its group by the end.
GroupsExact(p) ==
    /\ \A i \in DOMAIN p : p[i].op = "report" =>
          \A leg \in p[i].on : Passes(p, Steps(p, "drop", leg), i)
    /\ \A leg \in Legs(p) :
          leg[2] = "registry" \/ leg \in OutOfScope \/ Ends(p, Steps(p, "report", leg), {leg})

\* An error that is joined leaves the groups it takes back; raising ends the method.
ErrorsJoined(p) ==
    \A i \in DOMAIN p :
       /\ Strict(p[i]) /\ ~p[i].stop => ~p[i].whole /\ p[i].lost \subseteq p[i].closes
       /\ p[i].op = "raise" => p[i].stop

\* A debt is passed over, left, listed and reported with the asset beside it, and
\* VAI fails with everything.
DebtsPaired(p) ==
    /\ \A s \in Surfaces(p) : {Asset(s), Debt(s)} \subseteq Legs(p) =>
          \A i \in DOMAIN p :
             /\ Lenient(p[i]) /\ Debt(s) \in p[i].on => Asset(s) \in p[i].on
             /\ Strict(p[i]) /\ ~p[i].stop /\ Debt(s) \in p[i].closes => Asset(s) \in p[i].closes
             /\ Debt(s) \in p[i].lost => Asset(s) \in p[i].lost
             /\ p[i].op = "report" /\ Asset(s) \in p[i].on => Debt(s) \in p[i].on
    /\ Debt("VAI") \in Legs(p) =>
          \A i \in DOMAIN p :
             /\ Strict(p[i]) \/ p[i].op = "raise" => p[i].stop /\ p[i].whole
             /\ Lenient(p[i]) => Debt("VAI") \notin p[i].on

Modules == Staked("distributor") \cup Staked("second distributor")

\* Sky goes on after every error and leaves only what the error is about; so do the
\* modules of Compound, where only the principal's own read can leave it.
SurfacesApart(a, p) ==
    /\ a = "sky" =>
          \A i \in DOMAIN p :
             /\ p[i].op # "raise" /\ (Strict(p[i]) => ~p[i].stop) /\ ~Lenient(p[i])
             /\ Strict(p[i]) => \A x \in p[i].closes, y \in p[i].on : x[1] = y[1]
    /\ a = "compound" =>
          \A i \in DOMAIN p :
             /\ Strict(p[i]) /\ p[i].stop => p[i].on \cap Modules = {}
             /\ \A s \in {"distributor", "second distributor"} :
                   /\ Strict(p[i]) /\ ~p[i].stop /\ Asset(s) \in p[i].closes => p[i].on = {Asset(s)}
                   /\ Lenient(p[i]) => Asset(s) \notin p[i].on
                   /\ p[i].op = "raise" => ~p[i].whole /\ p[i].lost = {}
                         /\ Passes(p, Steps(p, "report", Asset(s)), i)

Disciplined(a) ==
    LET p == Positions[a] IN
    BehindWindows(p) /\ GroupsExact(p) /\ ErrorsJoined(p) /\ DebtsPaired(p) /\ SurfacesApart(a, p)

\* A method is right on each of its paths: no path comes to a strict call without the
\* window of what it calls, to a group without the zero amounts having been left, or
\* to the end without the group of what is held; a debt is left only with the asset
\* beside it, and what an error takes back is not asked about again (the order of the
\* reads, windows and early returns in every Positions).
MethodsDisciplined == pc = 1 /\ held = {} => Disciplined(adapter)

-----------------------------------------------------------------------------
\* A scan reports nothing the account does not have at the pinned block, and a
\* scan that returns no error has left out only what a tolerant read or a registry
\* passed over, what the index had not seen, and what is out of its scope: OutOfScope.
AnswerExact ==
    /\ reported \subseteq held
    /\ done /\ ~err => held \ reported \subseteq passed \cup missed \cup OutOfScope

\* What an account owes is never left out beside what it owns: not in an answer
\* that comes with an error either.
DebtNeverHidden ==
    \A s \in Surfaces(plan) :
       Debt(s) \in held =>
         /\ Asset(s) \in reported => Debt(s) \in reported
         /\ s = "VAI" /\ done /\ Asset("core") \in reported => Debt(s) \in reported

\* A scan of a block before a deployment does not fail for it: an error has a
\* failed round trip, call or check behind it.
FailsOnlyOnFaults == err => faults > 0

\* An independent surface that fails takes no other with it: Sky reads its three
\* whatever became of the others, and the rewards of a Compound staking module
\* do not suppress its principal.
SurfacesIndependent ==
    done =>
      /\ adapter = "sky" =>
           \A S \in {"savings", "farm", "lockstake"} :
              LET legs == {leg \in Legs(plan) : leg[1] = S} IN
              legs \cap hurt = {} => held \cap legs \subseteq reported
      /\ adapter = "compound" /\ hurt \subseteq Modules =>
           \A leg \in (held \cap Modules) \ hurt : leg[2] = "asset" => leg \in reported
=============================================================================
