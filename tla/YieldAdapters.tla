---------------------------- MODULE YieldAdapters ----------------------------
(***************************************************************************)
(* The Positions methods of Compound v3, Fraxlend, MakerDAO, Liquity,      *)
(* Yearn, Beefy, StakeWise, Olympus, Rocket Pool, Maple and mETH, as       *)
(* plans.                                                                  *)
(***************************************************************************)
EXTENDS LendingAdapters

\* A token's decimals and its symbol, a string or else 32 bytes.
readToken(L) == Call(L) \o Either(L) \o Check(L)

-----------------------------------------------------------------------------
\* Compound v3: the base of a market, its collaterals and its rewards.
CometRewards(r) == If("comet rewards", Call(r) \o Check(r))

CompoundV3Positions ==
    LET lent == Market("comet") \cup {Asset("comet collateral")}
        all  == lent \cup {Reward("comet rewards")}
    IN If("comet",
          Call(lent) \o Check(lent) \o Call(lent) \o Check(lent) \o Call(lent)
            \o CometRewards({Reward("comet rewards")})
            \o Drop(all) \o readToken(all) \o Report(all))

-----------------------------------------------------------------------------
\* Fraxlend.  Both conversions of the third version, or both of the older one.
fraxlendStoredAmounts(L) == Either(L) \o Check(L)

FraxlendPositions ==
    LET lent == Market("fraxlend")
        all  == lent \cup {Asset("fraxlend collateral")}
    IN If("fraxlend",
          Call(all) \o Check(all) \o Call(all) \o Drop(all)
            \o Call(all) \o readToken(all) \o fraxlendStoredAmounts(lent) \o Report(all))

-----------------------------------------------------------------------------
\* MakerDAO: the vaults of the account and of its proxy, and their savings.
makerPositionOwners(L) == Call(L) \o Call(L)

\* first, list, list... as many as count says, and no further.
makerOwnerCDPs(L) == Call(L) \o Check(L) \o Call(L) \o Check(L)

makerVaults(L) ==
    makerOwnerCDPs(L) \o IfAny(L, Call(L) \o Check(L) \o Call(L)) \o Drop(L)

makerVaultGroups(L) == Call(L) \o Check(L) \o readToken(L) \o Report(L)

makerSavingsGroup(s) == Call(s) \o Check(s) \o Drop(s) \o Report(s)

\* The GROVE farm, which Sky leaves to MakerDAO, is not read here either.
MakerDAOPositions ==
    LET savings == {Asset("DAI savings")}  vault == Market("maker vault") IN
    If("DAI savings",
       makerPositionOwners(savings)
         \o If("maker vault", makerVaults(vault) \o makerVaultGroups(vault))
         \o makerSavingsGroup(savings))
      \o NotAsked(Staked("GROVE farm"))

-----------------------------------------------------------------------------
\* Liquity: one round trip for whatever is deployed.
newLiquityV1CallPlan(trove, pool, staking, unipool) ==
    Window("trove", trove) \o Window("stability pool", pool)
      \o Window("LQTY staking", staking) \o Window("unipool", unipool)
      \o Call(trove \cup pool \cup staking \cup unipool)

LiquityV1Positions ==
    LET trove   == Market("trove")
        pool    == Staked("stability pool")
        staking == Staked("LQTY staking")
        unipool == Staked("unipool")
        pair    == {Asset("unipool")}
    IN newLiquityV1CallPlan(trove, pool, staking, unipool)
         \o Drop(trove) \o Report(trove)
         \o Drop(pool) \o Report(pool)
         \o Drop(staking) \o Report(staking)
         \o Drop(unipool) \o Check(pair) \o Call(pair) \o Check(pair) \o Report(unipool)

-----------------------------------------------------------------------------
\* Yearn: a vault's shares held directly and through its staking contract, the
\* vault perhaps a vault of another's shares.
convertShares(L) == Call(L) \o Check(L) \o Call(L) \o Check(L)

YearnV3Positions ==
    LET direct  == {Asset("yearn vault")}
        staked  == {Asset("yearn staking")}
        staking == Staked("yearn staking")
    IN If("yearn vault",
          Call(direct)
            \o Window("yearn staking", staking) \o Call(staking) \o Check(staking)
            \o Drop(direct \cup staking)
            \o Call(staked) \o Check(staked)
            \o convertShares(direct \cup staked)
            \o Report(direct \cup staking))

BeefyPositions ==
    LET a == {Asset("beefy vault")} IN If("beefy vault", Held(a) \o Call(a) \o Report(a))

StakeWisePositions ==
    LET a == {Asset("stakewise vault")} IN
    If("stakewise vault", Held(a) \o Call(a) \o Report(a))

-----------------------------------------------------------------------------
\* Olympus: what is staked, and the cooler that came later.
OlympusPositions ==
    LET s == {Asset("sOHM")}  g == {Asset("gOHM")}  cooler == Market("mono cooler") IN
    If("sOHM",
       Call(s \cup g) \o Check(s \cup g) \o Drop(s \cup g)
         \o Report(s) \o Call(g) \o Report(g)
         \o If("mono cooler", Call(cooler) \o Check(cooler) \o Drop(cooler) \o Report(cooler)))

\* Rocket Pool: the registry names the contracts, those of the nodes too once
\* there are nodes.
resolveRocketPoolContracts(L) == Call(L) \o Check(L)

RocketPoolPositions ==
    LET r == {Asset("rETH")}  bond == {Asset("node bond")}  rpl == {Asset("node RPL")}
        node == bond \cup rpl
    IN If("rETH",
          Window("rocket nodes", node)
            \o resolveRocketPoolContracts(r \cup node) \o Call(r \cup node)
            \o Drop(r) \o Call(r) \o Report(r)
            \o IfAny(node, Call(node) \o Drop(node) \o Report(bond) \o Report(rpl)))

-----------------------------------------------------------------------------
\* Maple: a withdrawal queue keeps the account's shares, or, before its upgrade
\* and in older pools, the id of the account's request.
queuePositions(new, old) ==
    Window("maple queue", new) \o Window("legacy queue", old)
      \o Call(new \cup old) \o Check(new \cup old)
      \o Held(new) \o Call(old) \o IfAny(old, Call(old) \o Drop(old) \o Check(old))
      \o Drop(old) \o Call(new \cup old) \o Report(new) \o Report(old)

MaplePositions ==
    readVaultPositions("maple vault", {})
      \o queuePositions({Asset("maple queue")}, {Asset("legacy queue")})

-----------------------------------------------------------------------------
\* mETH: a request that was claimed since the index saw it is passed over.
assertMethWiring(L) == Call(L) \o Check(L)

readMethWithdrawals(w) == IfAny(w, Call(w) \o Drop(w) \o Check(w) \o Report(w))

MethPositions ==
    LET m == {Asset("mETH")}  w == {Asset("mETH withdrawal")} IN
    If("mETH",
       assertMethWiring(m \cup w) \o Call(m) \o Index(w)
         \o Drop(m) \o Call(m) \o Report(m) \o readMethWithdrawals(w))
=============================================================================
