------------------------------- MODULE Pricing -------------------------------
(***************************************************************************)
(* The last part of a scan (engine.go, pricing.go, valuation.go): what was *)
(* read is quoted at the instant it was read at, one provider call for     *)
(* each instant, and then valued component by component.  The provider is  *)
(* external: it may leave any token out, as long as it says so.            *)
(* A token is <<chain, address>>.  Values are integers, in units of        *)
(* 1/RatioOne of a quote's.                                                *)
(***************************************************************************)
EXTENDS Integers, Sequences, SequencesExt, FiniteSetsExt

CONSTANTS Portfolios,   \* the sequences of snapshots a scan may have read
          PinTime,      \* chain -> timestamp of its fixed block, Live without one
          Quote,        \* <<token, instant>> -> quote, where the provider has one
          RatioOne,     \* the fixed-point one of a price basis
          NoToken, NoChain

Live == 0

VARIABLES snapshots,   \* what was read
          provider,    \* is a price provider configured
          phase,
          queries,     \* the provider calls still to make
          prices,      \* token -> quote
          priceErrors, \* response.Errors of pricing, as <<scope, chain>>
          late,        \* pricingCtx has ended
          cutShort,    \* history: tokens left out by calls made after that
          cursor,      \* the component to value next
          totals,      \* totals of the group and the snapshot at the cursor
          worth,       \* ValueUSD of components, groups and snapshots, by place
          summaries    \* protocol -> its summary

fetchVars == <<queries, prices, cutShort>>
valueVars == <<cursor, totals, worth, summaries>>
pricingVars == <<snapshots, provider, phase, priceErrors, late, fetchVars, valueVars>>

Groups(s)     == DOMAIN snapshots[s].groups
Places(s, g)  == DOMAIN snapshots[s].groups[g].components
At(s, g, c)   == snapshots[s].groups[g].components[c]
AllComponents ==
    UNION {UNION {{<<s, g, c>> : c \in Places(s, g)} : g \in Groups(s)} : s \in DOMAIN snapshots}

priceToken(component) ==
    IF component.basis = NoToken THEN component.token ELSE component.basis

\* Snapshots, groups and components come in lists; a basis is a token of the
\* component's chain, and a chain has one pin.  Amounts, ratios and quotes are integers.
ASSUME PricingAssumption ==
    /\ RatioOne \in Nat \ {0}
    /\ \A k \in DOMAIN Quote : Quote[k] \in Int
    /\ \A p \in Portfolios :
          /\ p \in Seq(ToSet(p))
          /\ \A s \in DOMAIN p :
                /\ p[s].groups \in Seq(ToSet(p[s].groups)) /\ PinTime[p[s].chain] \in Nat
                /\ \A g \in DOMAIN p[s].groups :
                      /\ p[s].groups[g].components \in Seq(ToSet(p[s].groups[g].components))
                      /\ \A c \in DOMAIN p[s].groups[g].components :
                            LET component == p[s].groups[g].components[c]
                            IN  /\ priceToken(component)[1] = p[s].chain
                                /\ component.amount \in Int /\ component.ratio \in Int
                                /\ component.kind \in {"asset", "debt", "reward"}

\* The function f with this value at key, and f overridden by g.
With(f, key, value) == [x \in DOMAIN f \cup {key} |-> IF x = key THEN value ELSE f[x]]
Merged(f, g) == [x \in DOMAIN f \cup DOMAIN g |-> IF x \in DOMAIN g THEN g[x] ELSE f[x]]

NoTotals == [group |-> 0, groupPriced |-> FALSE, snapshot |-> 0, snapshotPriced |-> FALSE]

PricingInit ==
    /\ snapshots \in Portfolios /\ provider \in BOOLEAN
    /\ phase = "collect" /\ queries = <<>> /\ prices = <<>>
    /\ priceErrors = {} /\ late = FALSE /\ cutShort = {}
    /\ cursor = <<1, 1, 1>> /\ totals = NoTotals
    /\ worth = <<>> /\ summaries = <<>>

\* PricingDeadline, or the caller's own, passes while prices are fetched.
StopPricing ==
    /\ phase \in {"collect", "fetch"} /\ ~late
    /\ late' = TRUE
    /\ UNCHANGED <<snapshots, provider, phase, priceErrors, fetchVars, valueVars>>

-----------------------------------------------------------------------------
\* A fixed block is valued at its own timestamp, a live head at the present.
valuationInstant(chain) == PinTime[chain]

\* collectPriceQueries: the tokens of what is not zero by the instant of their
\* snapshot, latest first.
WantedAt(at) ==
    {priceToken(At(p[1], p[2], p[3])) : p \in
        {p \in AllComponents : /\ valuationInstant(snapshots[p[1]].chain) = at
                               /\ At(p[1], p[2], p[3]).amount # 0}}

Instants ==
    {at \in {valuationInstant(snapshots[s].chain) : s \in DOMAIN snapshots} : WantedAt(at) # {}}

\* The n-th of them, in their order.
NthOf(instants, n) ==
    CHOOSE at \in instants : Cardinality({i \in instants : i <= at}) = n

collectPriceQueries ==
    [n \in 1..Cardinality(Instants) |->
        LET at == NthOf(Instants, n) IN [at |-> at, tokens |-> WantedAt(at)]]

Collect ==
    /\ phase = "collect"
    /\ IF provider \/ collectPriceQueries = <<>>
       THEN queries' = collectPriceQueries /\ priceErrors' = priceErrors
       ELSE queries' = <<>> /\ priceErrors' = {<<"pricing", NoChain>>}
    /\ phase' = "fetch"
    /\ UNCHANGED <<snapshots, provider, late, prices, cutShort, valueVars>>

\* What the provider may answer: some of the quotes it has for the instant, alone
\* or among others nobody asked for, and for what it leaves out a failure by token
\* or one for them all.
Answers(query) ==
    LET has  == {t \in {k[1] : k \in DOMAIN Quote} : <<t, query.at>> \in DOMAIN Quote}
        Some(quoted, unasked) ==
            {[prices |-> [t \in quoted \cup unasked |-> Quote[<<t, query.at>>]],
              failures |-> f] :
                f \in IF query.tokens \subseteq quoted THEN {{}}
                      ELSE {{t[1] : t \in query.tokens \ quoted}, {NoChain}}}
    IN  UNION {Some(quoted, {}) \cup Some(quoted, has \ query.tokens) :
                 quoted \in SUBSET (has \cap query.tokens)}

\* A mutant: every price of an answer is taken.
Unfiltered(query, answer) == answer.prices

\* Only what was asked for is taken from an answer.
Taken(query, answer) == [t \in query.tokens \cap DOMAIN answer.prices |-> answer.prices[t]]

\* One call of fetchPrices' loop, which goes on after the context has ended.
Fetch ==
    /\ phase = "fetch" /\ queries # <<>>
    /\ \E answer \in Answers(Head(queries)) :
          /\ prices' = Merged(prices, Taken(Head(queries), answer))
          /\ priceErrors' = priceErrors \cup {<<"pricing", c>> : c \in answer.failures}
          /\ cutShort' = IF late THEN cutShort \cup (Head(queries).tokens \ DOMAIN answer.prices)
                         ELSE cutShort
    /\ queries' = Tail(queries)
    /\ UNCHANGED <<snapshots, provider, phase, late, valueVars>>

\* ScanWithOptions: failures under an ended context mean that pricing was cut short.
Fetched ==
    /\ phase = "fetch" /\ queries = <<>>
    /\ priceErrors' = IF priceErrors # {} /\ late THEN priceErrors \cup {<<"incomplete", NoChain>>} ELSE priceErrors
    /\ phase' = "value"
    /\ UNCHANGED <<snapshots, provider, late, fetchVars, valueVars>>

-----------------------------------------------------------------------------
\* componentPrice, through the basis if there is one.
Rate(component) ==
    prices[priceToken(component)]
        * (IF component.basis = NoToken THEN RatioOne ELSE component.ratio)

Quoted(component) == priceToken(component) \in DOMAIN prices

\* A ratio that is not positive is refused, and so is a price, whatever made it so
\* (componentPrice, componentValueUSD).
Priceable(component) ==
    /\ component.basis # NoToken => component.ratio > 0
    /\ Rate(component) > 0

NoSummary == [components |-> 0, priced |-> 0, asset |-> 0, debt |-> 0, reward |-> 0, total |-> 0]
Summary(protocol) == IF protocol \in DOMAIN summaries THEN summaries[protocol] ELSE NoSummary
Keep(protocol, summary) == summaries' = With(summaries, protocol, summary)

applyFloorZero(value, policy) == IF policy = "floor-zero" /\ value < 0 THEN 0 ELSE value

\* applyValuations, one component of the group at the cursor.
ValueComponent ==
    /\ phase = "value"
    /\ LET s == cursor[1]  g == cursor[2]  c == cursor[3]
       IN  /\ s \in DOMAIN snapshots /\ g \in Groups(s) /\ c \in Places(s, g)
           /\ LET component == At(s, g, c)
                  value     == component.amount * Rate(component)
                  counted   == [Summary(snapshots[s].protocol) EXCEPT !.components = @ + 1]
              IN  /\ Quoted(component) => Priceable(component)
                  /\ IF ~Quoted(component)
                     THEN Keep(snapshots[s].protocol, counted) /\ UNCHANGED <<worth, totals>>
                     ELSE /\ worth' = With(worth, cursor, value)
                          /\ Keep(snapshots[s].protocol,
                                  [counted EXCEPT !.priced = @ + 1, ![component.kind] = @ + value])
                          /\ totals' = [totals EXCEPT
                                !.group = IF component.kind = "debt" THEN @ - value ELSE @ + value,
                                !.groupPriced = TRUE, !.snapshotPriced = TRUE]
           /\ cursor' = <<s, g, c + 1>>
    /\ UNCHANGED <<snapshots, provider, phase, priceErrors, late, fetchVars>>

\* A price that cannot be used fails the valuation: there are no summaries at all.
RefuseComponent ==
    /\ phase = "value"
    /\ cursor[1] \in DOMAIN snapshots /\ cursor[2] \in Groups(cursor[1])
    /\ cursor[3] \in Places(cursor[1], cursor[2])
    /\ LET component == At(cursor[1], cursor[2], cursor[3])
       IN  Quoted(component) /\ ~Priceable(component)
    /\ priceErrors' = priceErrors \cup {<<"pricing", NoChain>>}
    /\ summaries' = <<>> /\ phase' = "failed"
    /\ UNCHANGED <<snapshots, provider, late, fetchVars, cursor, totals, worth>>

\* A mutant: the totals of a group run on into the next one.
TotalsRunOn(value) == [totals EXCEPT !.snapshot = @ + value]

\* The next group starts from nothing.
GroupClosed(value) ==
    [totals EXCEPT !.snapshot = @ + value, !.group = 0, !.groupPriced = FALSE]

EndGroup ==
    /\ phase = "value"
    /\ LET s == cursor[1]  g == cursor[2]
       IN  /\ s \in DOMAIN snapshots /\ g \in Groups(s) /\ cursor[3] \notin Places(s, g)
           /\ LET value == applyFloorZero(totals.group, snapshots[s].groups[g].policy)
              IN  IF totals.groupPriced
                  THEN worth' = With(worth, <<s, g>>, value) /\ totals' = GroupClosed(value)
                  ELSE UNCHANGED <<worth, totals>>
           /\ cursor' = <<s, g + 1, 1>>
    /\ UNCHANGED <<snapshots, provider, phase, priceErrors, late, fetchVars, summaries>>

EndSnapshot ==
    /\ phase = "value"
    /\ LET s == cursor[1]
       IN  /\ s \in DOMAIN snapshots /\ cursor[2] \notin Groups(s)
           /\ LET value    == applyFloorZero(totals.snapshot, snapshots[s].policy)
                  protocol == snapshots[s].protocol
              IN  IF totals.snapshotPriced
                  THEN /\ worth' = With(worth, <<s>>, value)
                       /\ Keep(protocol, [Summary(protocol) EXCEPT !.total = @ + value])
                  ELSE UNCHANGED <<worth, summaries>>
           /\ totals' = NoTotals /\ cursor' = <<s + 1, 1, 1>>
    /\ UNCHANGED <<snapshots, provider, phase, priceErrors, late, fetchVars>>

Valued ==
    /\ phase = "value" /\ cursor[1] \notin DOMAIN snapshots
    /\ phase' = "done"
    /\ UNCHANGED <<snapshots, provider, priceErrors, late, fetchVars, valueVars>>

PricingNext ==
    \/ StopPricing \/ Collect \/ Fetch \/ Fetched
    \/ ValueComponent \/ RefuseComponent \/ EndGroup \/ EndSnapshot \/ Valued

PricingSpec == PricingInit /\ [][PricingNext]_pricingVars

-----------------------------------------------------------------------------
Component(p) == At(p[1], p[2], p[3])

\* What a component would be worth at its own instant, were it quoted.
TrueWorth(p) ==
    LET c == Component(p)
    IN  c.amount * (Quote[<<priceToken(c), PinTime[snapshots[p[1]].chain]>>]
                       * (IF c.basis = NoToken THEN RatioOne ELSE c.ratio))

\* Every holding is worth what its own token, or the basis it names, cost on its
\* own chain at the block it was read at; one that has no value is explained by an
\* error that names its chain or none; and what a deadline took is not passed off
\* as unquotable (fetchPrices, componentPrice, ScanWithOptions).
ValuedOrSaid ==
    phase \in {"done", "failed"} =>
        /\ \A p \in AllComponents \cap DOMAIN worth : worth[p] = TrueWorth(p)
        /\ \A p \in AllComponents \ DOMAIN worth :
              \/ Component(p).amount = 0
              \/ \E chain \in {NoChain, snapshots[p[1]].chain} : <<"pricing", chain>> \in priceErrors
        /\ cutShort # {} => <<"incomplete", NoChain>> \in priceErrors

Priced == AllComponents \cap DOMAIN worth

SumOf(f, S) == MapThenSumSet(LAMBDA x : f[x], S)

\* The net of a group's valued components, under its policy.
Signed == [p \in Priced |-> IF Component(p).kind = "debt" THEN -worth[p] ELSE worth[p]]
Net(s, g) ==
    applyFloorZero(SumOf(Signed, {p \in Priced : p[1] = s /\ p[2] = g}),
                   snapshots[s].groups[g].policy)

Nets(s)  == [g \in Groups(s) |-> Net(s, g)]
Total(s) == applyFloorZero(SumOf(Nets(s), Groups(s)), snapshots[s].policy)
Totals   == [s \in DOMAIN snapshots |-> Total(s)]

Own(protocol) == {s \in DOMAIN snapshots : snapshots[s].protocol = protocol}

Sum(protocol, kind) ==
    SumOf(worth, {p \in Priced : p[1] \in Own(protocol) /\ Component(p).kind = kind})

\* A protocol's totals are those of its snapshots and of nothing else, a debt
\* offsets the assets of its own group alone when the group's policy says so, and a
\* valuation that failed half way is no summary (applyValuations).
TotalsNet ==
    /\ phase = "failed" => summaries = <<>>
    /\ phase = "done" =>
        \A protocol \in {snapshots[s].protocol : s \in DOMAIN snapshots} :
            /\ Summary(protocol).total = SumOf(Totals, Own(protocol))
            /\ \A kind \in {"asset", "debt", "reward"} :
                  Summary(protocol)[kind] = Sum(protocol, kind)
            /\ Summary(protocol).priced = Cardinality({p \in Priced : p[1] \in Own(protocol)})
            /\ Summary(protocol).components
                  = Cardinality({p \in AllComponents : p[1] \in Own(protocol)})
=============================================================================
