--------------------------- MODULE LendingAdapters ---------------------------
(***************************************************************************)
(* The Positions methods of the lending adapters, as plans: Compound v2    *)
(* and its forks, Venus, Aave v2, v3 and Spark with their sidecars, Aave   *)
(* v4, Curve crvUSD and Curve Lending, Sky, Fluid.                         *)
(***************************************************************************)
EXTENDS VaultAdapters

-----------------------------------------------------------------------------
\* Compound v2.  Every market of the comptroller in one batch; the underlying's
\* metadata only where something is held.
compoundV2MarketGroup(s) ==
    Check(Market(s)) \o Held(Market(s)) \o Call(Market(s)) \o Report(Market(s))

\* The rewards are read of a module that says IncludeRewards.
compoundStakingGroups(s, rewards) ==
    LET L == {Asset(s)} \cup rewards IN
    If(s, Call({Asset(s)}) \o Call(rewards) \o Drop(L)
          \o Call({Asset(s)}) \o Call(rewards) \o Report(L))
      \o NotAsked({Reward(s)} \ rewards)

\* tokens(0), tokens(1)... until the list reverts.
compoundDistributorRewardTokens(s) == Probe({Reward(s)})

\* A mutant: a failure to enumerate the rewards fails the module.
StrictDistributorGroup(s) ==
    Call({Asset(s)})
      \o compoundDistributorRewardTokens(s) \o Joined(Probe({Reward(s)}))
      \o Drop(Staked(s))
      \o Call({Asset(s)}) \o Check({Asset(s)})
      \o PassOver({Reward(s)})
      \o Report(Staked(s))

\* Staked and pending withdrawal, then the rewards: what fails there is joined
\* to the error and the principal stays; a reward without metadata is passed over.
compoundDistributorStakingGroup(s) ==
    Call({Asset(s)})
      \o Joined(compoundDistributorRewardTokens(s)) \o Joined(Probe({Reward(s)}))
      \o Drop(Staked(s))
      \o Call({Asset(s)}) \o Check({Asset(s)})
      \o PassOver({Reward(s)})
      \o Report(Staked(s))

compoundDistributorStakingGroups(s) ==
    If(s, Joined(compoundDistributorStakingGroup(s)))

compoundMultiRewardGroup(s) ==
    Call({Reward(s)}) \o Check({Reward(s)}) \o Drop({Reward(s)})
      \o Call({Reward(s)}) \o Report({Reward(s)})

CompoundV2Positions ==
    LET lending == Market("comptroller")
        lens    == {Reward("reward lens")}
        modules == compoundDistributorStakingGroups("distributor")
                     \o compoundDistributorStakingGroups("second distributor")
    IN If("comptroller", Call(lending) \o Check(lending) \o compoundV2MarketGroup("comptroller"))
         \o compoundStakingGroups("staking module", {})
         \o modules \o Partial(Raise(Legs(modules)))
         \o If("reward lens", Call(lens) \o Check(lens) \o Drop(lens) \o Report(lens))
         \o If("multi reward", compoundMultiRewardGroup("multi reward"))

-----------------------------------------------------------------------------
\* Venus: the core pool, the isolated pools, their rewards, the XVS vault and
\* the VAI minted against the core pool.
venusRewardGroup(s) == Drop({Reward(s)}) \o Call({Reward(s)}) \o Report({Reward(s)})

venusCoreRewardGroup(s) == Call({Reward(s)}) \o Check({Reward(s)}) \o venusRewardGroup(s)

venusIsolatedRewardGroup(s) == Call({Reward(s)}) \o Check({Reward(s)}) \o venusRewardGroup(s)

venusVaultGroups(s) ==
    Call(Staked(s)) \o Call(Staked(s)) \o Check(Staked(s)) \o Call(Staked(s))
      \o Drop(Staked(s)) \o Call({Asset(s)}) \o Call({Reward(s)}) \o Report(Staked(s))

venusPools(L) == Call(L) \o Check(L) \o Call(L) \o Check(L)

VenusPositions ==
    LET core == Market("core")  vai == {Debt("VAI")} IN
    If("isolated", venusPools(Market("isolated")))
      \o If("core", Call(core) \o compoundV2MarketGroup("core"))
      \o compoundV2MarketGroup("isolated")
      \o If("core", If("core lens", venusCoreRewardGroup("core lens")))
      \o If("isolated", If("pool lens", venusIsolatedRewardGroup("pool lens")))
      \o If("XVS vault", venusVaultGroups("XVS vault"))
      \o If("core", Call(vai) \o Drop(vai) \o Report(vai))

-----------------------------------------------------------------------------
\* Aave v2, v3 and Spark.
activeMarkets(s) == Window(s, Market(s)) \o Check(Market(s))

readAaveHeldTokens(s) == Call(Market(s)) \o Check(Market(s))

readAaveIncentiveAssets(r) == Call({r}) \o Check({r})

\* The underlying of a reward that is a receipt; a token that has none, or whose
\* read failed, stands for itself.
readAaveRewardToken(r) == Try({r}) \o Check({r}) \o Call({r})

\* wstETH is converted, any other reward is looked through.
readSparkRewardComponents(wst, other) ==
    Call({wst, other}) \o Check({wst, other}) \o Drop({wst, other})
      \o Call({wst}) \o Check({wst})
      \o readAaveRewardToken(other)

readAaveSafetyModulePositions(s) ==
    If(s, Call(Staked(s))
          \o IfAny(Staked(s), Call(Staked(s)) \o Call(Staked(s)))
          \o Drop(Staked(s)) \o Report(Staked(s)))

readAaveUmbrellaPrincipal(a) == Call({a}) \o Check({a}) \o Call({a}) \o Call({a})

readAaveUmbrellaPositions(s) ==
    If(s, Call(Staked(s)) \o Check({Reward(s)}) \o Drop(Staked(s))
          \o readAaveUmbrellaPrincipal(Asset(s)) \o readAaveRewardToken(Reward(s))
          \o Report(Staked(s)))

readAaveStataPositions(s) ==
    LET a == {Asset(s)} IN
    If(s, Call(a) \o Check(a) \o Held(a) \o Call(a) \o Call(a) \o Report(a))

\* A mutant: what the account owes is read tolerantly.
TolerantAaveUserReserves(s) ==
    Call(Market(s)) \o Check(Market(s)) \o Call({Asset(s)}) \o Probe({Debt(s)})
      \o Drop(Market(s)) \o readAaveHeldTokens(s)

\* The reserves of one market and what the account has of each.
AaveUserReserves(s) ==
    Call(Market(s)) \o Check(Market(s)) \o Call(Market(s)) \o Drop(Market(s))
      \o readAaveHeldTokens(s)

AaveV2Positions ==
    LET r == Reward("v2 incentives") IN
    activeMarkets("v2 pool") \o AaveUserReserves("v2 pool")
      \o If("v2 pool", If("v2 incentives", readAaveIncentiveAssets(r) \o Call({r}) \o Drop({r})))
      \o Report(Market("v2 pool") \cup {r})
      \o readAaveSafetyModulePositions("v2 safety")

\* The SPK farm, which Sky leaves to Spark, is not read here either.
SparkPositions ==
    LET wst == Reward("spark rewards")  other == Reward("spark receipt") IN
    activeMarkets("spark pool") \o AaveUserReserves("spark pool")
      \o If("spark pool",
            If("spark rewards", readAaveIncentiveAssets(wst) \o readSparkRewardComponents(wst, other)))
      \o Report(Market("spark pool") \cup {wst, other})
      \o readVaultPositions("spark vault", {})
      \o NotAsked(Staked("SPK farm"))

AaveV3Positions ==
    activeMarkets("v3 pool") \o AaveUserReserves("v3 pool") \o Report(Market("v3 pool"))
      \o readAaveSafetyModulePositions("v3 safety")
      \o readAaveUmbrellaPositions("umbrella")
      \o readVaultPositions("sGHO", {})
      \o readAaveStataPositions("stata")

-----------------------------------------------------------------------------
\* Aave v4: the hubs name the spokes, and a spoke that is none reverts.
enumerateSpokes(L) ==
    Call(L) \o Check(L) \o Call(L) \o Check(L) \o Call(L) \o Check(L)

reserveCatalog(a, b) ==
    Probe(Market(a)) \o Probe(Market(b)) \o Check(Market(a) \cup Market(b))
      \o Call(Market(a) \cup Market(b)) \o Check(Market(a) \cup Market(b))

AaveV4Positions ==
    LET a == "spoke"  b == "second spoke"
        L == Market(a) \cup Market(b)
    IN If("v4 hub",
          enumerateSpokes(L) \o reserveCatalog(a, b)
            \o Held(L) \o Call(L) \o Check(L)
            \o Report(Market(a)) \o Report(Market(b)))

-----------------------------------------------------------------------------
\* Curve crvUSD and Curve Lending.
curveCrvUSDControllers(L) == Call(L) \o Check(L) \o Call(L) \o Check(L)

curveActiveControllerPositions(L) == Call(L) \o IfAny(L, Call(L)) \o Drop(L)

\* Some collaterals are vault shares, shown as what they are shares of.
curveNormalizeCollateral(a) == Call({a}) \o Check({a}) \o Call({a}) \o Call({a})

curveControllerGroups(s) ==
    Check(Market(s)) \o curveNormalizeCollateral(Asset(s)) \o Report(Market(s))

CrvUSDPositions ==
    LET L == Market("crvUSD") IN
    If("crvUSD",
       curveCrvUSDControllers(L) \o curveActiveControllerPositions(L)
         \o Call({Registry("crvUSD")} \cup L)
         \o curveControllerGroups("crvUSD"))

\* A vault without a gauge: gauge_for_vault reverts.
enumerateCurveOneWayMarkets(L, gauge) ==
    Call(L) \o Check(L) \o Call(L) \o Call(L) \o Probe(gauge)

enumerateCurveV2Markets(L) == Call(L) \o Check(L) \o Call(L)

enumerateCurveLendingMarkets(L, gauge, v2) ==
    If("one-way", enumerateCurveOneWayMarkets(L, gauge))
      \o If("v2", enumerateCurveV2Markets(v2)) \o Check(L \cup v2)

activeCurveLendingMarkets(L) == Call(L)

\* The vault's shares, its gauge's with them, and the loan.
curveLendingPrincipalGroups(shares, loan) ==
    Check(shares \cup Market(loan)) \o Drop(shares) \o Call(shares)
      \o IfAny(Market(loan), Call(Market(loan))) \o Drop(Market(loan))
      \o IfAny({Asset(loan)}, curveNormalizeCollateral(Asset(loan)))
      \o Report(shares \cup Market(loan))

curveLendingRewardGroups(r) ==
    Call({r}) \o Check({r}) \o Call({r}) \o Held({r}) \o Call({r}) \o Check({r}) \o Report({r})

CurveLendingPositions ==
    LET shares == {Asset("one-way"), Asset("gauge")}
        oneWay == shares \cup Market("one-way loan")
        v2     == {Asset("v2")} \cup Market("v2 loan")
        gauge  == Staked("gauge")
    IN If("one-way",
          enumerateCurveLendingMarkets(oneWay \ gauge, gauge, v2)
            \o activeCurveLendingMarkets(oneWay \cup v2) \o IfAny(oneWay \cup v2, Call(oneWay \cup v2))
            \o curveLendingPrincipalGroups(shares, "one-way loan")
            \o curveLendingPrincipalGroups({Asset("v2")}, "v2 loan")
            \o curveLendingRewardGroups(Reward("gauge")))

-----------------------------------------------------------------------------
\* Sky: three surfaces, each read whatever became of the others.  Of Lockstake only the
\* second engine is read, and of an urn only the farm it has selected.
skyFarmReward(r) == Held({r}) \o Call({r}) \o Call({r})

skyFarmGroups(s) ==
    If(s, Call({Asset(s)})
          \o Partial(Check({Asset(s)}) \o Drop({Asset(s)}) \o skyFarmReward(Reward(s)))
          \o Report(Staked(s)))

skyLockstakeUrns(L) == Call(L) \o Check(L) \o Call(L)

skyLockstakeGroups(s) ==
    LET L == Market(s) \cup {Reward(s)} IN
    If(s, skyLockstakeUrns(L)
          \o IfAny(L, Call(L) \o Call(L) \o Drop(Market(s))
                      \o Partial(skyFarmReward(Reward(s))) \o Report(L)))

SkyPositions ==
    Joined(readVaultPositions("savings", {}))
      \o Joined(skyFarmGroups("farm")) \o Joined(skyLockstakeGroups("lockstake"))
      \o NotAsked(Market("first lockstake") \cup {Reward("first lockstake"), Reward("left farm")})

-----------------------------------------------------------------------------
\* Fluid.
fluidLendingGroups(s) ==
    LET a == {Asset(s)} IN
    If(s, Call(a) \o Check(a) \o Held(a) \o Call(a) \o Call(a) \o Check(a) \o Report(a))

fluidLiteVaultGroups(s) ==
    LET a == {Asset(s)} IN
    If(s, Call(a) \o Check(a) \o Drop(a) \o Call(a) \o Call(a) \o Check(a) \o Report(a))

fluidStakingRewardGroups(s) ==
    If(s, Call(Staked(s)) \o Check(Staked(s))
          \o IfAny(Staked(s), Call(Staked(s)) \o Check(Staked(s)) \o Call(Staked(s)))
          \o Drop(Staked(s)) \o Report(Staked(s)))

fluidVaultNFTs(L) == Call(L) \o Check(L) \o Call(L) \o Check(L)

\* A vault answers constantsView, or the first version's constantsView.
fluidVaultConstants(L) ==
    Fallback(L) \o Check(L) \o Call(L) \o Check(L) \o Call(L)

fluidVaultGroups(s) ==
    LET L == Market(s) IN
    If(s, fluidVaultNFTs(L)
          \o IfAny(L, Call(L) \o Check(L) \o Call(L) \o Check(L)
                      \o fluidVaultConstants(L) \o Drop(L) \o Report(L)))

FluidPositions ==
    fluidLendingGroups("fToken") \o fluidLiteVaultGroups("lite vault")
      \o fluidStakingRewardGroups("fluid farm") \o fluidVaultGroups("fluid vault")
=============================================================================
