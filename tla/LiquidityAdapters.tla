-------------------------- MODULE LiquidityAdapters --------------------------
(***************************************************************************)
(* The Positions methods of the adapters that learn from an index what the *)
(* account has: Uniswap v3 and v4, Pendle, Morpho, Euler v2 and Lista, as  *)
(* plans.                                                                  *)
(***************************************************************************)
EXTENDS YieldAdapters

\* Decimals must answer; a symbol that is no string is read as 32 bytes.
tokenMetadataAt(L) == Call(L) \o Fallback(L) \o Check(L)

-----------------------------------------------------------------------------
\* Uniswap v3.  Without the index the manager enumerates the account's tokens,
\* and then nothing about them may fail or differ.
enumerateUniswapV3NFTs(L) == Call(L) \o Check(L) \o Call(L) \o Check(L) \o Call(L) \o Check(L)

\* A pool that reverts is passed over, and so are the fees of a token whose
\* collect reverts.
applyUniswapV3Details(s) == Probe(Staked(s)) \o Probe({Reward(s)})

UniswapV3Positions ==
    LET L == Staked("v3 position") IN
    If("v3 position",
       IndexElse(L, enumerateUniswapV3NFTs(L) \o Call(L) \o Check(L) \o Call(L) \o Check(L) \o Drop(L),
                    Probe(L) \o Check(L) \o Probe(L) \o Drop(L))
         \o Call(L) \o Check(L) \o applyUniswapV3Details("v3 position")
         \o tokenMetadataAt(L) \o Report(L))

\* Uniswap v4.
uniswapV4ActivePositions(L) == Probe(L) \o Check(L)

UniswapV4Positions ==
    LET L == Staked("v4 position") IN
    If("v4 position",
       Index(L) \o uniswapV4ActivePositions(L) \o Probe(L) \o Drop(L)
         \o IfAny(L, Call(L) \o Check(L) \o Call(L) \o Check(L) \o tokenMetadataAt(L) \o Report(L)))

-----------------------------------------------------------------------------
\* Pendle.  A contract whose call fails is passed over; only the index and the
\* round trips themselves can fail a scan.
pendleTokenMetadataAtAllowFailure(L) == Probe(L) \o Probe(L)

heldRefs(pt, yt, lp, exited) ==
    Probe(pt) \o Probe(yt) \o Probe(lp) \o Probe(exited)
      \o Drop({leg \in pt \cup yt \cup lp : leg[2] = "asset"})

\* What a YT may claim; the preview in the yield token is better to have.
pendleYTClaims(r) == Probe(r) \o Peek(r) \o Drop(r)

\* The index is asked again, for the markets of a PT.
marketImpliedRates(L) == Call(L) \o Peek(L)

pendleSYStates(L)       == Peek(L)
pendleYieldTokensFor(L) == Peek(L)
pendlePYIndices(L)      == Peek(L)

\* A token with no basis is reported without a price basis.
tokenPriceBases(L) ==
    marketImpliedRates(L) \o pendleSYStates(L) \o pendleYieldTokensFor(L) \o pendlePYIndices(L)

pendleTokenGroups(pt, yt) ==
    LET r == {Reward("YT")}  tokens == (pt \cup yt) \ r IN
    pendleYTClaims(r) \o tokenPriceBases(tokens) \o tokenMetadataAt(tokens)
      \o Peek(tokens) \o Peek(tokens)
      \o pendleTokenMetadataAtAllowFailure(r)
      \o Report(pt) \o Report(yt)

readMarketSolvency(L) == pendlePYIndices(L)
readMarketRewards(r)  == Probe(r)
readMarketSY(L)       == Peek(L)

\* The state of a market or nothing, its reward tokens or none.
readMarketStates(lp) ==
    LET r == {Reward("LP")} IN
    Probe(lp) \o Probe(r) \o readMarketSY(lp) \o readMarketSolvency(lp) \o readMarketRewards(r)

pendleMarketGroups(lp) ==
    LET r == {Reward("LP")} IN
    readMarketStates(lp) \o Peek(lp)
      \o pendleTokenMetadataAtAllowFailure(lp \ r) \o pendleTokenMetadataAtAllowFailure(r)
      \o Drop(r) \o Report(lp)

\* The rewards of a market the account has left.
marketRewardOnlyGroups(r) ==
    Probe(r) \o Probe(r) \o Drop(r) \o pendleTokenMetadataAtAllowFailure(r) \o Report(r)

pendleBuildGroups(pt, yt, lp, exited) ==
    pendleTokenGroups(pt, yt)
      \o IfAny(lp, pendleMarketGroups(lp))
      \o marketRewardOnlyGroups(exited)

PendlePositions ==
    LET pt == {Asset("PT")}  yt == Staked("YT")
        lp == Staked("LP")   exited == {Reward("LP exited")}
        all == pt \cup yt \cup lp \cup exited
    IN If("pendle",
          Index(all) \o heldRefs(pt, yt, lp, exited) \o pendleBuildGroups(pt, yt, lp, exited))

-----------------------------------------------------------------------------
\* Morpho: markets, some with a wrapper of a Curve pool for collateral, and
\* vaults.
readMorphoCorePositions(L) == Call(L) \o Check(L) \o Drop(L) \o Call(L)

detectMorphoStrategyWrappers(L) == Peek(L) \o Check(L)
readMorphoCurvePoolCoins(a)     == Call(a) \o Check(a)

\* asset, asset... until a coin is no vault's share.
unwrapMorphoPoolCoin(a) == Peek(a) \o Check(a)

morphoStrategyCollateralComponents(a) ==
    Call(a) \o Check(a) \o readMorphoCurvePoolCoins(a) \o unwrapMorphoPoolCoin(a)

expandMorphoStrategyCollateral(plain, wrapped) ==
    detectMorphoStrategyWrappers({plain, wrapped}) \o morphoStrategyCollateralComponents({wrapped})

morphoVaultDrafts(v) == Held(v) \o Call(v)

attachMorphoTokenMetadata(L) == tokenMetadataAt(L)

MorphoPositions ==
    LET plain   == Market("morpho market")
        wrapped == Market("morpho strategy")
        vault   == {Asset("morpho vault")}
        core    == plain \cup wrapped
    IN If("morpho",
          Index(core \cup vault) \o readMorphoCorePositions(core)
            \o expandMorphoStrategyCollateral(Asset("morpho market"), Asset("morpho strategy"))
            \o morphoVaultDrafts(vault) \o attachMorphoTokenMetadata(core \cup vault)
            \o Report(plain) \o Report(wrapped) \o Report(vault))

-----------------------------------------------------------------------------
\* Euler v2: the vaults of the account's sub-accounts, what they earned, and the
\* EUL that vests.
ownedRefs(L) == Call(L) \o Check(L)

readStates(L) == Call(L) \o Check(L) \o Call(L) \o Drop(L)

readRewards(r) == If("euler rewards", Call(r) \o Held(r))

readVestings(v) == If("euler vesting", Call(v) \o Check(v) \o Held(v) \o Check(v))

\* Everything lent and borrowed by a sub-account is one group.
eulerBuildGroups(lending, other) ==
    Call(lending) \o Report(lending) \o Call(other) \o Report(other)

EulerV2Positions ==
    LET vaults  == Market("evault") \cup {Asset("securitize"), Asset("euler earn")}
        reward  == {Reward("euler rewards")}
        vesting == {Asset("euler vesting")}
        lending == (vaults \ {Asset("euler earn")}) \cup reward
    IN If("evault",
          Index(vaults \cup reward) \o ownedRefs(vaults) \o readStates(vaults)
            \o readRewards(reward) \o readVestings(vesting)
            \o eulerBuildGroups(lending, {Asset("euler earn")} \cup vesting))

-----------------------------------------------------------------------------
\* Lista: Moolah's markets and vaults, and the CDPs, which need no index.
tokenMapForAddresses(L) == readToken(L)

moolahGroups(m) ==
    Held(m) \o Call(m) \o Check(m) \o Call(m) \o tokenMapForAddresses(m) \o Report(m)

listaVaultGroups(v) == Held(v) \o Call(v) \o readToken(v) \o Report(v)

\* A collateral that is not live is passed over.
cdpGroups(s) ==
    If(s, Call(Market(s)) \o Listing(Market(s)) \o Held(Market(s))
          \o readToken(Market(s)) \o Report(Market(s)))

ListaPositions ==
    LET m == Market("moolah")  v == {Asset("lista vault")} IN
    If("moolah", Index(m \cup v) \o moolahGroups(m) \o listaVaultGroups(v)) \o cdpGroups("lista cdp")
=============================================================================
