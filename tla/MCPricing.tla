------------------------------ MODULE MCPricing ------------------------------
(***************************************************************************)
(* Pricing over three chains: two at fixed blocks of their own and one     *)
(* live, with one address that is a token on each of them, a token no      *)
(* source quotes, one quoted at nothing, one below it and one only today.  *)
(***************************************************************************)
EXTENDS Pricing

CONSTANTS eth, arb, bsc, usd, pt, nil, neg, new, lend, farm, wallet

MCPinTime == (eth :> 5) @@ (arb :> 3) @@ (bsc :> Live)

MCQuote ==
    (<< <<eth, usd>>, 5>> :> 3) @@ (<< <<eth, usd>>, 3>> :> 7) @@ (<< <<eth, usd>>, Live>> :> 4)
    @@ (<< <<arb, usd>>, 3>> :> 1) @@ (<< <<arb, usd>>, 5>> :> 6) @@ (<< <<arb, usd>>, Live>> :> 2)
    @@ (<< <<bsc, usd>>, Live>> :> 5) @@ (<< <<bsc, usd>>, 3>> :> 8)
    @@ (<< <<eth, new>>, Live>> :> 9) @@ (<< <<bsc, nil>>, Live>> :> 0)
    @@ (<< <<bsc, neg>>, Live>> :> -1)

Row(kind, token, amount) ==
    [kind |-> kind, token |-> token, basis |-> NoToken, ratio |-> 0, amount |-> amount]
Through(row, basis, ratio) == [row EXCEPT !.basis = basis, !.ratio = ratio]
Rows(policy, rows) == [policy |-> policy, components |-> rows]
Shot(protocol, chain, groups) ==
    [protocol |-> protocol, chain |-> chain, policy |-> "floor-zero", groups |-> groups]

\* A lending position under water beside one that is not, the same protocol on a
\* second chain, a farm with a basis, one with rewards whose token is quoted only
\* today, and wallets.
Underwater == Shot(lend, eth, <<
    Rows("floor-zero", <<Row("asset", <<eth, usd>>, 1), Row("debt", <<eth, usd>>, 3)>>),
    Rows("floor-zero", <<Row("asset", <<eth, usd>>, 2), Row("debt", <<eth, new>>, 1)>>)>>)
LendOnArb == Shot(lend, arb, <<Rows("floor-zero", <<Row("asset", <<arb, usd>>, 4),
                                                    Row("debt", <<arb, usd>>, 1)>>)>>)
Principal == Shot(farm, eth, <<
    Rows("", <<Through(Row("asset", <<eth, pt>>, 2), <<eth, usd>>, 1),
               Row("reward", <<eth, pt>>, 1)>>)>>)
Short == Shot(farm, bsc, <<Rows("", <<Row("debt", <<bsc, usd>>, 2)>>),
                           Rows("", <<Row("asset", <<bsc, usd>>, 1)>>)>>)
Holdings == Shot(wallet, bsc, <<Rows("", <<Row("asset", <<bsc, usd>>, 1)>>),
                                Rows("", <<Row("asset", <<bsc, nil>>, 1)>>)>>)
\* A basis that is negative twice over, which is not a positive price.
Twisted == Shot(wallet, bsc, <<Rows("", <<Through(Row("asset", <<bsc, pt>>, 1), <<bsc, neg>>, -1)>>)>>)
Dust == Shot(wallet, arb, <<Rows("", <<Row("asset", <<arb, usd>>, 0)>>)>>)

Shapes == {Underwater, LendOnArb, Principal, Short, Holdings, Twisted, Dust}
MCPortfolios == {SetToSeq(held) : held \in UNION {kSubset(k, Shapes) : k \in 0..4}}
=============================================================================
