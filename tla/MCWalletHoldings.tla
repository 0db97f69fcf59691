-------------------------- MODULE MCWalletHoldings --------------------------
(* A historical and a live scan of one engine.  One of them gets every kind *)
(* of answer while the other is not made, or both get answers that make them *)
(* meet in the cache and the blocklist.  Provider samples are honest: rows   *)
(* hold what the account has in the block they were taken at.  Far is a time *)
(* that no Duration of 2^12 values tells from the pin's.                     *)
EXTENDS WalletHoldings

CONSTANTS past, now, root, dsa, stranger, other, weth, usd, odd, spam,
          h2, h5, h8, h9, f9

B(n, h, t) == [chain |-> Chain, number |-> n, hash |-> h, time |-> t]
Old == B(2, h2, 20)
Near == B(8, h8, 85)
Far == B(8, h8, 300)
Settled(b, f) ==
    [chain |-> b.chain, number |-> b.number, hash |-> b.hash, time |-> b.time, fixed |-> f]
MCPin == [s \in Scans |-> IF s = past THEN Settled(B(5, h5, 50), TRUE)
                          ELSE Settled(B(9, h9, 90), FALSE)]
PinBlock(s) == B(Pin[s].number, Pin[s].hash, Pin[s].time)

\* usd is held in amounts that differ, by the dsa only after h2; odd reverts at
\* h5 and is held by the root; weth comes late, and spam is no token.
MCHeld ==
    [h \in {h2, h5, h8, h9, f9} |-> [a \in {root, dsa} |-> [t \in Tokens \cup {Native} |->
        CASE t = usd -> (CASE h = h2 -> IF a = root THEN 1 ELSE 0 [] h = h5 -> 2
                           [] h = h8 -> 3 [] h = h9 -> 4 [] OTHER -> 5)
          [] t = odd -> IF a = root /\ h \notin {h2, h5} THEN 1 ELSE 0
          [] t = weth -> IF a = dsa /\ h \in {h8, h9, f9} THEN 1 ELSE 0
          [] t = Native -> IF a = root THEN 1 ELSE 0
          [] OTHER -> 0]]]
MCDeployed == [h \in {h2, h5, h8, h9, f9} |->
                  IF h \in {h2, h5} THEN {usd, odd, spam} ELSE Tokens]
MCReverting == [h \in {h2, h5, h8, h9, f9} |-> IF h = h5 THEN {odd} ELSE {}]
MCMetadata == [t \in Tokens |-> CASE t = weth -> "reverts" [] t = spam -> "invalid"
                                  [] OTHER -> "valid"]

R(t, n, c) == [token |-> t, chain |-> Chain, amount |-> n, complete |-> c]

\* What the provider finds of account a at hash h; it has no metadata of ERC-20s.
Sample(h, a) ==
    SelectSeq(<<R(Native, Held[h][a][Native], TRUE), R(usd, Held[h][a][usd], FALSE),
                R(odd, Held[h][a][odd], FALSE), R(weth, Held[h][a][weth], FALSE)>>,
              LAMBDA r : r.amount > 0)
Everything(h, a) == Sample(h, a) \o <<R(odd, 0, TRUE), R(spam, 0, FALSE)>>

E(a, b, only, rs) == [account |-> a, block |-> b, discoveryOnly |-> only, rows |-> rs]
C(b, es) == [block |-> b, accounts |-> es]
Ok(cs) == [failures |-> {}, chains |-> cs]
F(a, u) == [chain |-> Chain, account |-> a, unsupported |-> u]
Both(h, only) == <<E(root, {}, only, Sample(h, root)), E(dsa, {}, only, Sample(h, dsa))>>

\* Every kind of answer, to scan s.
Kinds(s) ==
    LET pin == PinBlock(s)
        hash == Pin[s].hash
        mine == E(root, {}, FALSE, Sample(hash, root))
        theirs == Sample(hash, dsa)
        withRows(rs) == Ok(<<C(pin, <<mine, E(dsa, {}, FALSE, rs)>>)>>)
        stale(rs) == Ok(<<C(Old, <<E(dsa, {}, FALSE, rs)>>)>>)
    IN  {NoAnswer, Ok(<<C(pin, Both(hash, FALSE))>>),
         Ok(<<C(pin, Both(hash, TRUE))>>),
         Ok(<<C(Near, Both(h8, FALSE))>>), Ok(<<C(Old, Both(h2, FALSE))>>),
         Ok(<<C([Near EXCEPT !.time = 0], Both(h8, FALSE))>>),
         Ok(<<C(Far, Both(h8, FALSE))>>),
         Ok(<<C(pin, <<mine, E(dsa, {Near}, FALSE, Sample(h8, dsa))>>)>>),
         Ok(<<C([pin EXCEPT !.hash = f9], Both(f9, FALSE))>>),
         Ok(<<C([pin EXCEPT !.time = 51], Both(hash, FALSE))>>),
         Ok(<<C([pin EXCEPT !.number = 0], Both(h2, FALSE))>>),
         Ok(<<C(pin, <<mine>>)>>), Ok(<<C(pin, <<>>)>>), Ok(<<>>),
         Ok(<<C(pin, Both(hash, FALSE) \o <<E(dsa, {}, FALSE, theirs)>>)>>),
         Ok(<<C(pin, <<mine, E(stranger, {}, FALSE, <<>>)>>)>>),
         Ok(<<C(pin, Both(hash, FALSE)), C(Old, Both(h2, FALSE))>>),
         Ok(<<C(pin, <<mine, E(dsa, {[pin EXCEPT !.chain = other]}, FALSE, theirs)>>)>>),
         [failures |-> {F(dsa, FALSE)}, chains |-> <<C(pin, Both(hash, FALSE))>>],
         [failures |-> {F(dsa, TRUE)}, chains |-> <<C(pin, Both(hash, FALSE))>>],
         [failures |-> {F(ZeroAddress, TRUE)}, chains |-> <<C(pin, Both(hash, FALSE))>>],
         withRows(theirs \o theirs), withRows(theirs \o <<R(spam, -1, FALSE)>>),
         withRows(theirs \o <<R(ZeroAddress, 1, TRUE)>>),
         withRows(<<[R(usd, 1, TRUE) EXCEPT !.chain = other]>> \o theirs),
         stale(Everything(h2, dsa)), stale(theirs \o theirs),
         stale(<<R(usd, -1, FALSE), R(ZeroAddress, 1, TRUE)>>)}

\* A vault share that names its converter, a stake of the dsa inferred from its
\* balanceOf, a reward read from a contract it does not hold, and a position on
\* another chain.
P(c, a, holds, contract, consumed) ==
    [chain |-> c, stamp |-> Stamp(a), holds |-> holds, contract |-> contract,
     balanceOf |-> TRUE, consumed |-> consumed]
Components(s) ==
    IF s = past THEN {P(other, root, {usd}, usd, {usd}), P(Chain, root, {}, usd, {})}
    ELSE {P(Chain, root, {weth}, odd, {weth}), P(Chain, dsa, NoHolds, usd, {usd})}

Made(r, components) == [answer |-> r, components |-> components]
Alone(s, r) ==
    [x \in Scans |-> IF x = s THEN Made(r, Components(s)) ELSE Made(NoScan, {})]
Together(p, n) == [x \in Scans |-> IF x = past THEN Made(p, {}) ELSE Made(n, {})]

MCEncounters ==
    UNION {{Alone(s, r) : r \in Kinds(s)} : s \in Scans}
    \cup {Together(Ok(<<C(Old, <<E(root, {}, FALSE, Everything(h2, root))>>)>>),
                   Ok(<<C(b, <<E(root, {}, FALSE, Everything(h9, root))>>)>>)) :
             b \in {PinBlock(now), Old}}

MCAccounts == <<root, dsa>>
=============================================================================
