---------------------------- MODULE VaultAdapters ----------------------------
(***************************************************************************)
(* The Positions methods of the vault and staking adapters, as plans:      *)
(* ERC-4626 vaults, converted balances, Lido, ether.fi, Frax Ether, f(x).  *)
(***************************************************************************)
EXTENDS AdapterPlan

-----------------------------------------------------------------------------
\* ERC-4626: the shares of a vault and, where it has one, the account's
\* cooldown there.
readVaultPositions(s, cooldown) ==
    If(s, Call({Asset(s)} \cup cooldown) \o Check({Asset(s)} \cup cooldown)
          \o Drop({Asset(s)} \cup cooldown)
          \o Call({Asset(s)}) \o Report({Asset(s)}) \o Report(cooldown))

ERC4626Positions ==
    readVaultPositions("sUSDe", {Asset("sUSDe cooldown")})
      \o readVaultPositions("sENA", {Asset("sENA cooldown")})

readConvertedBalancePositions(s) ==
    If(s, Held({Asset(s)}) \o Call({Asset(s)}) \o Report({Asset(s)}))

-----------------------------------------------------------------------------
\* Lido.
\* A mutant: the withdrawal queue is called whatever the block.
UngatedLidoWithdrawals ==
    LET w == {Asset("lido withdrawals")} IN
    Call(w) \o IfAny(w, Check(w) \o Call(w) \o Check(w) \o Drop(w) \o Report(w))

readLidoWithdrawals ==
    LET w == {Asset("lido withdrawals")} IN
    If("lido withdrawals",
       Call(w) \o IfAny(w, Check(w) \o Call(w) \o Check(w) \o Drop(w) \o Report(w)))

readLidoEarnETH ==
    LET e == {Asset("earnETH")} IN
    If("earnETH", Call(e) \o Check(e) \o Drop(e) \o Call(e) \o Check(e)
                  \o Call(e) \o Check(e) \o Call(e) \o Report(e))

LidoPositions ==
    LET st  == {Asset("stETH")}
        wst == {Asset("wstETH")}
    IN If("stETH",
          Window("wstETH", wst) \o Call(st \cup wst) \o Check(wst)
            \o readLidoWithdrawals \o readLidoEarnETH
            \o Drop(st \cup wst) \o Report(st) \o Call(wst) \o Report(wst))

-----------------------------------------------------------------------------
\* ether.fi: receipts, accountant vaults, membership tokens, withdrawal tokens.
readEtherfiVaultPositions(s) ==
    LET v == {Asset(s)} IN
    If(s, Held(v) \o Partial(Call(v) \o Check(v) \o Fallback(v) \o Check(v) \o Call(v) \o Check(v))
          \o Report(v))

membershipGroups(m) == Partial(Call(m) \o Check(m)) \o Drop(m) \o Partial(Call(m)) \o Report(m)

readMemberships ==
    LET m == {Asset("membership")} IN
    If("membership", Index(m) \o membershipGroups(m))

\* A mutant: the owner the index names is not read again at the pin.
IndexedWithdrawalGroups(w) ==
    Partial(Probe(w) \o Call(w) \o Check(w) \o Call(w)) \o Report(w)

\* ownerOf: a token that was burned, or is another's by now, is passed over.
withdrawalGroups(w) ==
    Partial(Probe(w) \o Drop(w) \o Call(w) \o Check(w) \o Call(w)) \o Report(w)

EtherfiPositions ==
    LET w == {Asset("etherfi withdrawal")} IN
    readConvertedBalancePositions("weETH")
      \o Kept(readEtherfiVaultPositions("etherfi vault"))
      \o Kept(readMemberships)
      \o If("etherfi withdrawal", Partial(Index(w)) \o withdrawalGroups(w))

-----------------------------------------------------------------------------
\* Frax Ether: receipts and the tickets of the redemption queues.
ticketGroups(t) == Partial(Probe(t) \o Drop(t) \o Call(t)) \o Report(t)

FraxEtherPositions ==
    LET t == {Asset("redemption")} IN
    readConvertedBalancePositions("sfrxETH")
      \o If("redemption", Partial(Index(t)) \o ticketGroups(t))

-----------------------------------------------------------------------------
\* f(x) rebalance pools.  A legacy pool the account has left may fail its
\* claimable call; any other failed row is an error.
fxPoolHeaders(new, old) ==
    Window(new, Staked(new)) \o Window(old, Staked(old))
      \o Call(Staked(new) \cup Staked(old)) \o Call(Staked(old))
      \o Check(Staked(new) \cup Staked(old))

FxPositions ==
    LET new == "fx pool"  old == "fx legacy pool"
        all == Staked(new) \cup Staked(old)
    IN fxPoolHeaders(new, old)
         \o Call({Reward(new)}) \o ProbeUnless({Reward(old)}, {Asset(old)})
         \o Call(all)
         \o Drop(all) \o Report(Staked(new)) \o Report(Staked(old))

-----------------------------------------------------------------------------
\* Renzo.
readMainnetReceipts ==
    LET ez == {Asset("ezETH")}
        pz == {Asset("pzETH")}
    IN If("ezETH", Held(ez) \o Call(ez) \o Check(ez) \o Call(ez) \o Report(ez))
         \o If("pzETH", Partial(Call(pz) \o Check(pz) \o Drop(pz) \o Call(pz)) \o Report(pz))

readEigenVaults(s) ==
    If(s, Call({Asset(s)}) \o Check({Asset(s)}) \o Drop({Asset(s)}) \o Report({Asset(s)}))

\* A slot that was cleared since the index saw it is passed over; any other
\* difference from the index is an error.
eigenWithdrawalGroups(w) == Call(w) \o Drop(w) \o Check(w) \o Report(w)

readEigenWithdrawals ==
    LET w == {Asset("eigen withdrawal")} IN
    If("eigen withdrawal", Index(w) \o Check(w) \o eigenWithdrawalGroups(w))

readEZETHWithdrawals ==
    LET w == {Asset("ezETH withdrawal")} IN
    If("ezETH withdrawal",
       Call(w) \o Check(w) \o Call(w) \o Drop(w) \o Call(w) \o Report(w))

readLegacyStake ==
    LET rez == {Asset("REZ")}  un == {Asset("REZ unstake")} IN
    If("REZ", Call(rez \cup un) \o Check(rez \cup un) \o Drop(rez) \o Report(rez)
              \o Call(un) \o Drop(un) \o Report(un))

RenzoPositions ==
    Whole(readMainnetReceipts)
      \o Kept(readEigenVaults("eigen vault")) \o Kept(readEigenWithdrawals)
      \o Kept(readEZETHWithdrawals) \o Kept(readLegacyStake)

-----------------------------------------------------------------------------
\* Aster.
readYieldPositions ==
    LET y == {Asset("asBNB")} IN
    If("asBNB", Held(y) \o Partial(Call(y) \o Check(y) \o Call(y)) \o Report(y))

AsterWithdrawalGroups(w) ==
    Call(w) \o Drop(w) \o Check(w) \o Call(w) \o Check(w) \o Call(w) \o Report(w)

readWithdrawalRequests ==
    LET w == {Asset("asBTC withdrawal")} IN
    If("asBTC withdrawal", Index(w) \o AsterWithdrawalGroups(w))

mintGroups(w) ==
    Call(w) \o Check(w) \o Call(w) \o Check(w) \o Call(w) \o Drop(w) \o Check(w) \o Report(w)

readMintRequests ==
    LET w == {Asset("asBNB mint")} IN If("asBNB mint", Index(w) \o mintGroups(w))

AsterPositions ==
    Whole(readYieldPositions) \o Kept(readMintRequests) \o Kept(readWithdrawalRequests)

-----------------------------------------------------------------------------
\* Stader, on each of its chains.
assertStaderWiring(L) == Call(L) \o Check(L)

readStaderWithdrawalGroup(w) ==
    IfAny(w, Check(w) \o Call(w) \o Check(w) \o Drop(w) \o Report(w))

\* A mutant: an operator without SD is taken to have put up nothing.
EarlyOperatorGroups(sd, node) ==
    IfAny(sd, Drop(sd) \o Report(sd) \o Call(node) \o Call(node) \o Drop(node) \o Report(node))

\* The ETH an operator put up for its validators.
StaderOperatorGroups(sd, node) ==
    Drop(sd) \o Report(sd)
      \o IfAny(node, Call(node) \o Call(node) \o Drop(node) \o Report(node))

StaderEthereumPositions ==
    LET x    == {Asset("ETHx")}
        w    == {Asset("ETHx withdrawal")}
        sd   == {Asset("SD delegation")}
        sdw  == {Asset("SD withdrawal")}
        op   == {Asset("operator SD")}
        node == {Asset("operator ETH")}
        all  == x \cup w \cup sd \cup sdw \cup op \cup node
    IN If("ETHx",
          assertStaderWiring(all) \o Call(all)
            \o Drop(x) \o Call(x) \o Report(x)
            \o readStaderWithdrawalGroup(w)
            \o Drop(sd) \o Report(sd)
            \o readStaderWithdrawalGroup(sdw)
            \o StaderOperatorGroups(op, node))

\* A request is converted on its own, or by the rate of the batch it was
\* processed in.
StaderBSCWithdrawals(w) ==
    IfAny(w, Call(w) \o Check(w) \o Call(w) \o Call(w) \o Check(w) \o Drop(w) \o Report(w))

StaderBSCPositions ==
    LET x == {Asset("BNBx")}  w == {Asset("BNBx withdrawal")} IN
    If("BNBx",
       Window("BNBx withdrawal", w) \o Call(x \cup w) \o Check(w)
         \o Drop(x) \o Report(x) \o StaderBSCWithdrawals(w))

\* Before its rate could be read, MaticX is reported as it is and the
\* withdrawals, which came later, are not asked for.
StaderPolygonPositions ==
    LET x    == {Asset("MaticX")}
        w    == {Asset("MaticX withdrawal")}
        rate == {Registry("MaticX rate")}
    IN If("MaticX",
          Call(x)
            \o Window("MaticX rate", rate \cup w) \o Window("MaticX withdrawal", w)
            \o Call(rate \cup w)
            \o Drop(x) \o Report(x)
            \o Check(w) \o Drop(w) \o Report(w))

-----------------------------------------------------------------------------
\* Vesper: the pools, their rewards (an older rewards contract answers another
\* method), and the locked VSP.
VesperPools(a) == Call({a}) \o Check({a}) \o Call({a})

VesperRewards(r) == Fallback({r}) \o Check({r}) \o Drop({r}) \o Call({r})

VesperLocked(s) ==
    If(s, Call(Staked(s))
          \o IfAny({Asset(s)}, Call({Reward(s)}) \o Check({Reward(s)}) \o Call({Reward(s)})
                              \o Drop(Staked(s)) \o Report(Staked(s))))

VesperPositions ==
    LET pool == "vesper pool" IN
    If(pool, Call(Staked(pool))
             \o IfAny({Asset(pool)},
                      VesperPools(Asset(pool)) \o VesperRewards(Reward(pool))
                        \o Drop({Asset(pool)}) \o Report(Staked(pool)))
             \o VesperLocked("locked VSP"))
=============================================================================
