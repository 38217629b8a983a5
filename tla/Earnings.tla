------------------------------ MODULE Earnings ------------------------------
(***************************************************************************)
(* From a quote to a payout: rates and commissions change, quotes are      *)
(* built from them, a chain binds one for its life, the answer decides the *)
(* unlock price and the responder's share, payouts draw on the shares.     *)
(*                                                                         *)
(* Two assets: EURC is worth the basis currency, USDC is converted.  The   *)
(* reuse of a stored quote is left out: a quote is reused only while its   *)
(* fingerprint matches, so what it says is the same as a new one.  Time is *)
(* left out too (VerifyChain has it): a pending chain is answered in one   *)
(* of its windows or expires.  One wallet; v2 paid chains are history.     *)
(* An operator named Op_Variant is a faulty variant of Op that no action   *)
(* uses.                                                                   *)
(***************************************************************************)
EXTENDS Pricing, FiniteSets, FiniteSetsExt

CONSTANTS
    Verifies, Associates, Null,
    Configs,         \* the configurations a core may be started with
    Rates,           \* USD per EUR, as published
    Commissions,     \* what the operator may set, in cents
    FreeCommission,  \* FREE_COMMISSION_USD, in cents
    BotCeiling,      \* the SLA price in the bot's own environment, in cents
    MaxPublications, \* bound: rates published
    MaxSettings,     \* bound: times the commission is set
    MaxRestarts,     \* bound: restarts of the core
    MaxPaid          \* bound: cents paid to one associate in one asset

Assets == {"USDC", "EURC"}

\* load_config refuses everything else.  grace = 0 is no grace window.
Config ==
    {c \in [sla : Nat \ {0}, grace : Nat, assets : SUBSET Assets] :
        c.grace <= c.sla /\ c.assets # {}}

ASSUME ConfigAssumption == Configs \subseteq Config /\ Configs # {}

ASSUME AmountsAssumption ==
    /\ Rates \subseteq Nat \ {0} /\ Commissions \subseteq Nat /\ FreeCommission \in Nat
    /\ BotCeiling \in Nat
    /\ MaxPublications \in Nat /\ MaxSettings \in Nat /\ MaxRestarts \in Nat /\ MaxPaid \in Nat

\* Terms in one asset: the price of each window in atomic units (grace = 0
\* without a grace window), the basis price and the commission that a share is
\* computed from, and the rate, which the conversion block names.
Terms ==
    [asset : Assets, sla : Nat, grace : Nat, basis : Nat, commission : Nat,
     rate : Rates \cup {Null}]

Earning == [verify : Verifies, associate : Associates, asset : Assets, amount : Nat]

ASSUME DistinctAssumption ==
    /\ Null \notin Verifies \cup Associates \cup Nat \cup Terms
    /\ Verifies \cap {"none", "x402", "free"} = {}

VARIABLES
    config,     \* the running core's configuration
    rate,       \* the latest rate stored, Null before the first
    commission, \* instances.associate_commission
    state,      \* how far each request or chain is
    asked,      \* the commission a request for terms has read
    quote,      \* the quote a request has been given: its terms in each asset
    source,     \* who funded the chain: "x402", "free" or the chain whose credit it used
    bound,      \* the terms a chain is bound to
    credits,    \* chains whose failure credit is open
    window,     \* the window of the answer
    unlock,     \* unlock_amount_atomic
    ledger,     \* answer rows of associate_earnings
    paid,       \* payouts, in cents, by associate and asset
    count       \* bounds: publications, settings, restarts

market == <<config, rate, commission, count>>
chain  == <<state, asked, quote, source, bound, credits>>
money  == <<window, unlock, ledger, paid>>
vars   == <<market, chain, money>>

TypeOK ==
    /\ config \in Configs
    /\ rate \in Rates \cup {Null}
    /\ commission \in Commissions
    /\ state \in [Verifies -> {"new", "asking", "quoted", "admitting", "pending", "answered",
                               "expired"}]
    /\ asked \in [Verifies -> Commissions \cup {Null}]
    /\ quote \in [Verifies -> SUBSET Terms]
    /\ source \in [Verifies -> {"none", "x402", "free"} \cup Verifies]
    /\ bound \in [Verifies -> Terms \cup {Null}]
    /\ \A v \in Verifies :
          /\ asked[v] # Null <=> state[v] = "asking"
          /\ quote[v] # {} <=> state[v] \in {"quoted", "admitting"}
          /\ source[v] # "none" <=> state[v] \in {"pending", "answered", "expired"}
          /\ bound[v] # Null <=> source[v] \notin {"none", "free"}
          /\ window[v] # "none" <=> state[v] = "answered" /\ source[v] # "free"
    /\ credits \subseteq Verifies
    /\ window \in [Verifies -> {"none", "sla", "grace"}]
    /\ unlock \in [Verifies -> Nat]
    /\ ledger \subseteq Earning
    /\ paid \in [Associates -> [Assets -> 0..MaxPaid]]
    /\ count \in [published : 0..MaxPublications, set : 0..MaxSettings, restarts : 0..MaxRestarts]

Init ==
    /\ config \in Configs
    /\ rate = Null
    /\ commission \in Commissions
    /\ state = [v \in Verifies |-> "new"]
    /\ asked = [v \in Verifies |-> Null]
    /\ quote = [v \in Verifies |-> {}]
    /\ source = [v \in Verifies |-> "none"]
    /\ bound = [v \in Verifies |-> Null]
    /\ credits = {}
    /\ window = [v \in Verifies |-> "none"]
    /\ unlock = [v \in Verifies |-> 0]
    /\ ledger = {}
    /\ paid = [a \in Associates |-> [x \in Assets |-> 0]]
    /\ count = [published |-> 0, set |-> 0, restarts |-> 0]

Goto(v, s) == state' = [state EXCEPT ![v] = s]

-----------------------------------------------------------------------------
(***************************************************************************)
(* What prices are made of.                                                *)
(***************************************************************************)

\* The ECB publishes a rate and the fx loop stores it.
PublishRate(r) ==
    /\ count.published < MaxPublications
    /\ count' = [count EXCEPT !.published = @ + 1]
    /\ rate' = r
    /\ UNCHANGED <<config, commission, chain, money>>

\* The dashboard's form caps it at the core's SLA price, the bot's /commission at
\* the one in the bot's environment, which need not be the same.
SetCommission(c) ==
    /\ count.set < MaxSettings
    /\ count' = [count EXCEPT !.set = @ + 1]
    /\ c <= config.sla \/ c <= BotCeiling
    /\ commission' = c
    /\ UNCHANGED <<config, rate, chain, money>>

\* The core restarts with other settings and loses the requests it is handling.
Restart(cfg) ==
    /\ count.restarts < MaxRestarts
    /\ count' = [count EXCEPT !.restarts = @ + 1]
    /\ config' = cfg
    /\ LET lost == {v \in Verifies : state[v] \in {"asking", "admitting"}} IN
         /\ state' = [v \in Verifies |-> IF v \in lost THEN "new" ELSE state[v]]
         /\ asked' = [v \in Verifies |-> IF v \in lost THEN Null ELSE asked[v]]
         /\ quote' = [v \in Verifies |-> IF v \in lost THEN {} ELSE quote[v]]
    /\ UNCHANGED <<rate, commission, source, bound, credits, money>>

-----------------------------------------------------------------------------
(***************************************************************************)
(* terms_current and create_verify.                                        *)
(***************************************************************************)

\* A 402 is asked for, or create_verify wants terms for a credit.  The
\* commission and the rate are read by two statements of no transaction.
Ask(v) ==
    /\ state[v] = "new"
    /\ asked' = [asked EXCEPT ![v] = commission]
    /\ Goto(v, "asking")
    /\ UNCHANGED <<market, quote, source, bound, credits, money>>

Converted(asset, cents) == IF asset = "EURC" THEN cents ELSE Convert(cents, rate)

PriceIn(asset, cents) == ToAtomic(Converted(asset, cents))

TermsIn_BasisGrace(asset, c) ==
    [asset |-> asset, sla |-> PriceIn(asset, config.sla), grace |-> ToAtomic(config.grace),
     basis |-> config.sla, commission |-> c, rate |-> IF asset = "EURC" THEN Null ELSE rate]

TermsIn(asset, c) ==
    [asset |-> asset, sla |-> PriceIn(asset, config.sla), grace |-> PriceIn(asset, config.grace),
     basis |-> config.sla, commission |-> c, rate |-> IF asset = "EURC" THEN Null ELSE rate]

\* A partial offer is refused rather than served.
Priceable == "USDC" \in config.assets => rate # Null

\* build_terms; the quote goes to a payer or stays with an admission.
Quote(v) ==
    /\ state[v] = "asking"
    /\ asked' = [asked EXCEPT ![v] = Null]
    /\ \/ /\ Priceable
          /\ quote' = [quote EXCEPT ![v] = {TermsIn(a, asked[v]) : a \in config.assets}]
          /\ Goto(v, "quoted") \/ Goto(v, "admitting")
       \/ /\ ~Priceable
          /\ Goto(v, "new")
          /\ UNCHANGED quote
    /\ UNCHANGED <<market, source, bound, credits, money>>

\* bind_terms: the chain keeps t for its life.
Bind(v, src, t) ==
    /\ source' = [source EXCEPT ![v] = src]
    /\ bound' = [bound EXCEPT ![v] = t]
    /\ quote' = [quote EXCEPT ![v] = {}]
    /\ Goto(v, "pending")

\* The payment names the quote it was made for, and its asset.
AdmitPaid(v) ==
    /\ state[v] = "quoted"
    /\ \E t \in quote[v] : Bind(v, "x402", t)
    /\ UNCHANGED <<market, asked, credits, money>>

CreditTerms_AnyAsset(q, asset) == q

\* The terms in the asset of the chain that earned the credit, if offered.
CreditTerms(q, asset) ==
    LET same == {t \in q : t.asset = asset} IN IF same # {} THEN same ELSE q

AdmitOnCredit(v) ==
    /\ state[v] = "admitting"
    /\ \E c \in credits :
          /\ \E t \in CreditTerms(quote[v], bound[c].asset) : Bind(v, c, t)
          /\ credits' = credits \ {c}
    /\ UNCHANGED <<market, asked, money>>

\* A free chain is of contract version 2 and binds nothing.
AdmitFree(v) ==
    /\ state[v] = "new"
    /\ source' = [source EXCEPT ![v] = "free"]
    /\ Goto(v, "pending")
    /\ UNCHANGED <<market, asked, quote, bound, credits, money>>

\* The quote is not used: the payer gives up, the admission is refused.
Drop(v) ==
    /\ state[v] \in {"quoted", "admitting"}
    /\ quote' = [quote EXCEPT ![v] = {}]
    /\ Goto(v, "new")
    /\ UNCHANGED <<market, asked, source, bound, credits, money>>

-----------------------------------------------------------------------------
(***************************************************************************)
(* What becomes of a chain.                                                *)
(***************************************************************************)

\* credit_for_verify, in the transaction that records the answer.
Earn(v, a) ==
    ledger' = ledger \cup
        {IF source[v] = "free"
         THEN [verify |-> v, associate |-> a, asset |-> "USDC", amount |-> ToAtomic(FreeCommission)]
         ELSE [verify |-> v, associate |-> a, asset |-> bound[v].asset,
               amount |-> Share(unlock'[v], bound[v].commission, bound[v].basis)]}

Answer_Repriced(v, a) ==
    /\ state[v] = "pending"
    /\ \/ /\ source[v] = "free"
          /\ UNCHANGED <<window, unlock>>
       \/ /\ source[v] # "free"
          /\ window' = [window EXCEPT ![v] = "sla"]
          /\ unlock' = [unlock EXCEPT ![v] =
                ToAtomic(IF bound[v].asset = "EURC" THEN config.sla ELSE Convert(config.sla, rate))]
    /\ Earn(v, a)
    /\ Goto(v, "answered")
    /\ UNCHANGED <<market, asked, quote, source, bound, credits, paid>>

\* record_answer decides the window and copies its price; a free chain has none.
Answer(v, a) ==
    /\ state[v] = "pending"
    /\ \/ /\ source[v] = "free"
          /\ UNCHANGED <<window, unlock>>
       \/ /\ source[v] # "free"
          /\ \E w \in IF bound[v].grace = 0 THEN {"sla"} ELSE {"sla", "grace"} :
                /\ window' = [window EXCEPT ![v] = w]
                /\ unlock' = [unlock EXCEPT ![v] = bound[v][w]]
    /\ Earn(v, a)
    /\ Goto(v, "answered")
    /\ UNCHANGED <<market, asked, quote, source, bound, credits, paid>>

\* A paid entry earns a credit; an entitlement goes back where it came from.
Expire(v) ==
    /\ state[v] = "pending"
    /\ credits' = credits \cup
          (IF source[v] = "x402" THEN {v} ELSE IF source[v] = "free" THEN {} ELSE {source[v]})
    /\ Goto(v, "expired")
    /\ UNCHANGED <<market, asked, quote, source, bound, money>>

-----------------------------------------------------------------------------
(***************************************************************************)
(* Payouts.                                                                *)
(***************************************************************************)

EarnedBy_AnyAsset(a, asset) == {e \in ledger : e.associate = a}

EarnedBy(a, asset) == {e \in ledger : e.associate = a /\ e.asset = asset}

Total(E) == MapThenSumSet(LAMBDA e : e.amount, E)

\* The ledger sum of an asset minus the payouts in that asset.
Balance(a, asset) == Total(EarnedBy(a, asset)) - ToAtomic(paid[a][asset])

\* /paid: any whole number of cents that is owed.  The bot handles one command at a
\* time, and the balance is read and the payout written under the lock of the
\* associate's row besides: one step, but for answers, which only add to a balance.
MarkPaid(a, asset, cents) ==
    /\ paid[a][asset] + cents <= MaxPaid
    /\ ToAtomic(cents) <= Balance(a, asset)
    /\ paid' = [paid EXCEPT ![a][asset] = @ + cents]
    /\ UNCHANGED <<market, chain, window, unlock, ledger>>

-----------------------------------------------------------------------------

ChainStep(v) ==
    \/ Ask(v) \/ Quote(v) \/ AdmitPaid(v) \/ AdmitOnCredit(v) \/ AdmitFree(v) \/ Drop(v)
    \/ Expire(v) \/ \E a \in Associates : Answer(v, a)

MarketStep ==
    \/ \E r \in Rates : PublishRate(r)
    \/ \E c \in Commissions : SetCommission(c)
    \/ \E cfg \in Configs : Restart(cfg)

Next ==
    \/ \E v \in Verifies : ChainStep(v)
    \/ MarketStep
    \/ \E a \in Associates, asset \in Assets, cents \in 1..MaxPaid : MarkPaid(a, asset, cents)

Spec == Init /\ [][Next]_vars

-----------------------------------------------------------------------------
(***************************************************************************)
(* Properties.                                                             *)
(***************************************************************************)

\* An answer inside the SLA window earns its commission in full, to the last
\* atomic unit of what it is worth at the rate of the quote, and never more
\* than its unlock brings, unless the SLA price was lowered below a commission
\* that was set before (v3_earning, settlement.py:46-49; the cap of
\* set_commission, dashboard.py:335-338).
ShareIsFair ==
    \A e \in ledger : source[e.verify] # "free" =>
        LET t == bound[e.verify]
            r == IF t.asset = "EURC" THEN RateScale ELSE t.rate
        IN /\ window[e.verify] = "sla" =>
                 (e.amount + 1) * RateScale > ToAtomic(t.commission * r)
           /\ t.commission <= t.basis => e.amount <= unlock[e.verify]

\* Who waits longer never pays more, in any asset and at any rate, and no price
\* vanishes in the conversion (convert, pricing.py:194-196; load_config
\* compares the basis prices only, 148-153).
WindowsAreOrdered ==
    \A v \in Verifies : \A t \in quote[v] \cup ({bound[v]} \ {Null}) :
        0 < t.sla /\ t.grace <= t.sla

\* An associate is never paid more than was earned in the same asset
\* (mark_paid, bot/payments.py:72-81).
PaidWithinEarned ==
    \A a \in Associates, asset \in Assets :
        ToAtomic(paid[a][asset]) <=
            Total({e \in ledger : e.associate = a /\ e.asset = asset})

\* A credit stands for an entry that was paid, never for another credit; and
\* however often a chain it funds expires and comes again, that chain is bound
\* to the asset the entry was paid in, if its quote offers it (_credit_asset,
\* server.py:130-142; _expire_stale_once, 262-271).
CreditKeepsAsset ==
    [][\A v, c \in Verifies : source[v] = "none" /\ source'[v] = c =>
          /\ source[c] = "x402" /\ state[c] = "expired"
          /\ \/ bound'[v].asset = bound[c].asset
             \/ \A t \in quote[v] : t.asset # bound[c].asset]_vars

\* What a chain was bound to, what its answer costs and what it has earned stay
\* as they are, whatever becomes of the rate, the commission and the settings
\* (bind_terms, pricing.py:316-348; record_answer, windows.py:26-65).
BoundForLife ==
    [][/\ ledger \subseteq ledger'
       /\ \A v \in Verifies : state[v] \in {"pending", "answered", "expired"} =>
             /\ bound'[v] = bound[v]
             /\ state[v] # "pending" => unlock'[v] = unlock[v] /\ window'[v] = window[v]
             /\ unlock'[v] # unlock[v] => unlock'[v] \in {bound[v].sla, bound[v].grace}]_vars
-----------------------------------------------------------------------------
(***************************************************************************)
(* The refinement of Outcomes, which Routing implements too: that module   *)
(* has the associates who are asked, this one what they earn.              *)
(***************************************************************************)

PlaceOf(v) ==
    IF state[v] \in {"answered", "expired"} THEN state[v]
    ELSE IF state[v] = "pending" THEN "queued" ELSE "waiting"

Promise == INSTANCE Outcomes WITH
    Chains <- Verifies,
    place <- [v \in Verifies |-> PlaceOf(v)],
    earned <- {<<e.verify, e.associate>> : e \in ledger}

\* Quotes that are dropped, restarts, credits and new settings change nothing
\* about who earns: one row with the answer, none without.
AnswersEarnOnce == Promise!Spec
=============================================================================
