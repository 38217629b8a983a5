--------------------------- MODULE EarningsProofs ---------------------------
(***************************************************************************)
(* Theorems about Earnings, for any configurations, rates, commissions,    *)
(* prices and scales.                                                      *)
(***************************************************************************)
EXTENDS Earnings, FiniteSetTheorems, WellFoundedInduction, TLAPS

(***************************************************************************)
(* The arithmetic of prices, for every amount, rate and scale.             *)
(***************************************************************************)

LEMMA ProductIsNat ==
    ASSUME NEW a \in Nat, NEW b \in Nat
    PROVE  a * b \in Nat
OBVIOUS

LEMMA ProductMonotone ==
    ASSUME NEW a \in Nat, NEW b \in Nat, NEW c \in Nat, a <= b
    PROVE  a * c <= b * c
<1>1. PICK d \in Nat : b = a + d
  BY SMT
<1>2. b * c = a * c + d * c
  BY <1>1, SMT
<1> QED BY <1>2, ProductIsNat, SMT

LEMMA ProductCancels ==
    ASSUME NEW a \in Nat, NEW b \in Nat, NEW c \in Nat \ {0}, a * c < b * c
    PROVE  a < b
<1>1. ASSUME b <= a PROVE FALSE
  <2>1. b * c <= a * c
    BY <1>1, ProductMonotone
  <2> QED BY <2>1, ProductIsNat, SMT
<1> QED BY <1>1, SMT

LEMMA QuotientBounds ==
    ASSUME NEW a \in Nat, NEW b \in Nat \ {0}
    PROVE  /\ a \div b \in Nat
           /\ (a \div b) * b <= a
           /\ a < (a \div b + 1) * b
<1>1. a \div b \in Nat /\ (a \div b) * b <= a /\ a < (a \div b) * b + b
  BY SMT
<1>2. (a \div b + 1) * b = (a \div b) * b + b
  BY <1>1, SMT
<1> QED BY <1>1, <1>2, SMT

LEMMA QuotientMonotone ==
    ASSUME NEW a \in Nat, NEW c \in Nat, NEW b \in Nat \ {0}, a <= c
    PROVE  a \div b <= c \div b
BY SMT

\* A conversion is rounded up, by less than a cent.
LEMMA ConvertBounds ==
    ASSUME NEW cents \in Nat, NEW factor \in Nat
    PROVE  /\ Convert(cents, factor) \in Nat
           /\ cents * factor <= Convert(cents, factor) * RateScale
           /\ Convert(cents, factor) * RateScale < cents * factor + RateScale
<1> DEFINE a == cents * factor
<1>1. a \in Nat /\ RateScale \in Nat \ {0}
  BY ProductIsNat, ScalesAssumption
<1> HIDE DEF a
<1>2. CeilDiv(a, RateScale) \in Nat
      /\ CeilDiv(a, RateScale) * RateScale <= a + RateScale - 1
      /\ a + RateScale - 1 < CeilDiv(a, RateScale) * RateScale + RateScale
  BY <1>1, SMT DEF CeilDiv
<1>3. CeilDiv(a, RateScale) * RateScale \in Nat
  BY <1>1, <1>2, ProductIsNat
<1>4. /\ a <= CeilDiv(a, RateScale) * RateScale
      /\ CeilDiv(a, RateScale) * RateScale < a + RateScale
  BY <1>1, <1>2, <1>3, SMT
<1> QED BY <1>2, <1>4 DEF Convert, a

LEMMA ConvertMonotone ==
    ASSUME NEW c \in Nat, NEW d \in Nat, NEW factor \in Nat, c <= d
    PROVE  Convert(c, factor) <= Convert(d, factor)
<1>1. c * factor \in Nat /\ d * factor \in Nat /\ c * factor <= d * factor
  BY ProductIsNat, ProductMonotone
<1>2. c * factor + RateScale - 1 \in Nat /\ d * factor + RateScale - 1 \in Nat
      /\ c * factor + RateScale - 1 <= d * factor + RateScale - 1
  BY <1>1, ScalesAssumption, SMT
<1> QED BY <1>2, QuotientMonotone, ScalesAssumption DEF Convert, CeilDiv

\* A share of no more than the whole is no more than the unlock price.
LEMMA ShareAtMost ==
    ASSUME NEW price \in Nat, NEW whole \in Nat \ {0}, NEW part \in Nat, part <= whole
    PROVE  Share(price, part, whole) <= price
<1>1. price * part \in Nat /\ price * whole \in Nat
      /\ price * part <= price * whole
  <2>1. part * price <= whole * price
    BY ProductMonotone
  <2> QED BY <2>1, ProductIsNat, SMT
<1>2. (price * part) \div whole <= (price * whole) \div whole
  BY <1>1, QuotientMonotone
<1>3. (price * whole) \div whole <= price
  <2> DEFINE q == (price * whole) \div whole
  <2>1. q \in Nat /\ q * whole <= price * whole
    BY <1>1, QuotientBounds
  <2>2. price * whole < (price + 1) * whole
    BY <1>1, SMT
  <2> HIDE DEF q
  <2>3. q * whole < (price + 1) * whole
    BY <1>1, <2>1, <2>2, ProductIsNat, SMT
  <2>4. q < price + 1
    BY <2>1, <2>3, ProductCancels
  <2> QED BY <2>1, <2>4 DEF q
<1>4. (price * part) \div whole \in Nat /\ (price * whole) \div whole \in Nat
  BY <1>1, QuotientBounds
<1> QED BY <1>2, <1>3, <1>4 DEF Share

\* If the unlock price is worth the basis price at the rate r, the share is
\* worth the commission at r, but for less than one atomic unit.
LEMMA ShareCovers ==
    ASSUME NEW price \in Nat, NEW whole \in Nat \ {0}, NEW part \in Nat, NEW r \in Nat,
           ToAtomic(whole * r) <= price * RateScale
    PROVE  ToAtomic(part * r) < (Share(price, part, whole) + 1) * RateScale
<1> DEFINE s == Share(price, part, whole)
           x == r * AtomicPerCent
<1>1. /\ s \in Nat /\ price * part < (s + 1) * whole
      /\ x \in Nat /\ part * x \in Nat /\ (s + 1) * RateScale \in Nat
      /\ RateScale \in Nat \ {0}
  <2>1. price * part \in Nat /\ x \in Nat /\ RateScale \in Nat \ {0}
    BY ProductIsNat, ScalesAssumption
  <2>2. s \in Nat /\ price * part < (s + 1) * whole
    BY <2>1, QuotientBounds DEF Share
  <2> HIDE DEF s, x
  <2>3. part * x \in Nat /\ (s + 1) * RateScale \in Nat
    BY <2>1, <2>2, ProductIsNat
  <2> QED BY <2>1, <2>2, <2>3
<1>2. ToAtomic(part * r) = part * x /\ ToAtomic(whole * r) = whole * x
  BY ScalesAssumption, SMT DEF ToAtomic
<1> HIDE DEF s, x
<1>3. (whole * x) * part <= (price * RateScale) * part
  BY <1>1, <1>2, ProductIsNat, ProductMonotone
<1>4. (price * part) * RateScale < ((s + 1) * whole) * RateScale
  <2> DEFINE p == price * part
             q == (s + 1) * whole
  <2>1. p \in Nat /\ q \in Nat /\ p + 1 <= q
    BY <1>1, ProductIsNat, SMT
  <2> HIDE DEF p, q
  <2>2. (p + 1) * RateScale <= q * RateScale
    BY <2>1, <1>1, ProductMonotone
  <2>3. (p + 1) * RateScale = p * RateScale + RateScale
    BY <2>1, <1>1, SMT
  <2>4. p * RateScale \in Nat /\ q * RateScale \in Nat
    BY <2>1, <1>1, ProductIsNat
  <2> QED BY <2>2, <2>3, <2>4, <1>1, SMT DEF p, q
<1>5. (part * x) * whole < ((s + 1) * RateScale) * whole
  <2>1. (whole * x) * part = (part * x) * whole
    BY <1>1, SMT
  <2>2. (price * RateScale) * part = (price * part) * RateScale
    BY <1>1, SMT
  <2>3. ((s + 1) * whole) * RateScale = ((s + 1) * RateScale) * whole
    BY <1>1, SMT
  <2>4. (part * x) * whole \in Nat /\ (price * part) * RateScale \in Nat
        /\ ((s + 1) * RateScale) * whole \in Nat
    BY <1>1, ProductIsNat
  <2> QED BY <2>1, <2>2, <2>3, <2>4, <1>3, <1>4, SMT
<1>6. part * x < (s + 1) * RateScale
  BY <1>1, <1>5, ProductCancels
<1> QED BY <1>2, <1>6 DEF s

(***************************************************************************)
(* The inductive invariant.                                                *)
(***************************************************************************)

\* What a price in t's asset was multiplied by.
RateOf(t) == IF t.asset = "EURC" THEN RateScale ELSE t.rate

\* The SLA price is worth at least its basis price, no price is nothing, and a
\* grace window is not dearer.
TermsSound(t) ==
    /\ 0 < t.basis /\ 0 < t.sla /\ t.grace <= t.sla
    /\ t.asset = "USDC" => t.rate \in Rates
    /\ ToAtomic(t.basis * RateOf(t)) <= t.sla * RateScale

QuotesSound ==
    \A v \in Verifies : \A t \in quote[v] \cup ({bound[v]} \ {Null}) : TermsSound(t)

\* An answer costs the bound price of its window and has earned its share.
PricesSound ==
    \A v \in Verifies : state[v] = "answered" /\ source[v] # "free" =>
        /\ window[v] = "sla" => unlock[v] = bound[v].sla
        /\ window[v] = "grace" => unlock[v] = bound[v].grace

EarningsSound ==
    \A e \in ledger :
        /\ state[e.verify] = "answered"
        /\ source[e.verify] # "free" =>
              e.amount = Share(unlock[e.verify], bound[e.verify].commission, bound[e.verify].basis)

\* A credit stands for an expired paid entry, spent or not.
CreditsSound ==
    /\ \A c \in credits : source[c] = "x402" /\ state[c] = "expired"
    /\ \A v \in Verifies : source[v] \in Verifies =>
          source[source[v]] = "x402" /\ state[source[v]] = "expired"

IndInv == TypeOK /\ QuotesSound /\ PricesSound /\ EarningsSound /\ CreditsSound

(***************************************************************************)
(* Type correctness.                                                       *)
(***************************************************************************)

LEMMA InitType == Init => TypeOK
BY AmountsAssumption, DistinctAssumption DEF Init, TypeOK

LEMMA MarketType == TypeOK /\ MarketStep => TypeOK'
<1> SUFFICES ASSUME TypeOK, MarketStep PROVE TypeOK'
  OBVIOUS
<1>1. ASSUME NEW r \in Rates, PublishRate(r) PROVE TypeOK'
  BY <1>1, AmountsAssumption DEF PublishRate, TypeOK, chain, money
<1>2. ASSUME NEW c \in Commissions, SetCommission(c) PROVE TypeOK'
  BY <1>2, AmountsAssumption DEF SetCommission, TypeOK, chain, money
<1>3. ASSUME NEW cfg \in Configs, Restart(cfg) PROVE TypeOK'
  BY <1>3, AmountsAssumption, DistinctAssumption DEF Restart, TypeOK, money
<1> QED BY <1>1, <1>2, <1>3 DEF MarketStep

\* Terms are of the type of terms, and sound.
LEMMA TermsOfTerms ==
    ASSUME TypeOK, Priceable, NEW asset \in config.assets, NEW c \in Commissions
    PROVE  TermsIn(asset, c) \in Terms /\ TermsSound(TermsIn(asset, c))
<1> DEFINE t == TermsIn(asset, c)
           sla == config.sla
           grace == config.grace
           r == IF asset = "EURC" THEN RateScale ELSE rate
           cents == Converted(asset, sla)
<1>1. /\ sla \in Nat \ {0} /\ grace \in Nat /\ grace <= sla
      /\ asset \in Assets /\ c \in Nat
  BY ConfigAssumption, AmountsAssumption DEF TypeOK, Config
<1>2. r \in Nat \ {0} /\ (asset = "USDC" => rate \in Rates)
  BY <1>1, AmountsAssumption, ScalesAssumption DEF Priceable, TypeOK, Assets
<1>3. RateScale \in Nat \ {0} /\ AtomicPerCent \in Nat \ {0}
  BY ScalesAssumption
<1> HIDE DEF sla, grace, r
<1>4. /\ cents \in Nat /\ Converted(asset, grace) \in Nat
      /\ sla * r <= cents * RateScale
      /\ Converted(asset, grace) <= cents
  <2>1. CASE asset = "EURC"
    BY <2>1, <1>1, <1>3 DEF Converted, r
  <2>2. CASE asset # "EURC"
    BY <2>2, <1>1, <1>2, ConvertBounds, ConvertMonotone DEF Converted, r
  <2> QED BY <2>1, <2>2
<1>5. 0 < cents
  <2>1. 0 < sla * r
    BY <1>1, <1>2, SMT
  <2> QED BY <2>1, <1>1, <1>2, <1>3, <1>4, ProductIsNat, SMT
<1> HIDE DEF cents
<1>6. /\ ToAtomic(cents) \in Nat \ {0}
      /\ ToAtomic(Converted(asset, grace)) \in Nat
      /\ ToAtomic(Converted(asset, grace)) <= ToAtomic(cents)
  BY <1>3, <1>4, <1>5, ProductIsNat, ProductMonotone, SMT DEF ToAtomic
<1>7. ToAtomic(sla * r) <= ToAtomic(cents) * RateScale
  <2>1. (sla * r) * AtomicPerCent <= (cents * RateScale) * AtomicPerCent
    BY <1>1, <1>2, <1>3, <1>4, ProductIsNat, ProductMonotone
  <2>2. (cents * RateScale) * AtomicPerCent = (cents * AtomicPerCent) * RateScale
    BY <1>3, <1>4, SMT
  <2> QED BY <2>1, <2>2 DEF ToAtomic
<1>8. /\ t.asset = asset /\ t.sla = ToAtomic(cents) /\ t.basis = sla /\ t.commission = c
      /\ t.grace = ToAtomic(Converted(asset, grace))
      /\ t.rate = IF asset = "EURC" THEN Null ELSE rate
  BY DEF TermsIn, PriceIn, cents, sla, grace
<1>9. t \in Terms
  BY <1>1, <1>2, <1>6 DEF TermsIn, PriceIn, Terms, Assets, cents, sla, grace
<1>10. TermsSound(t)
  <2>1. RateOf(t) = r
    BY <1>8 DEF RateOf, r
  <2> HIDE DEF t
  <2> QED BY <2>1, <1>1, <1>2, <1>6, <1>7, <1>8 DEF TermsSound
<1> QED BY <1>9, <1>10

LEMMA RequestType ==
    ASSUME TypeOK, NEW v \in Verifies, Ask(v) \/ Quote(v) \/ Drop(v)
    PROVE  TypeOK'
<1>1. CASE Ask(v)
  BY <1>1, AmountsAssumption, DistinctAssumption DEF Ask, Goto, TypeOK, market, money
<1>2. CASE Quote(v)
  <2>1. CASE ~Priceable
    BY <1>2, <2>1 DEF Quote, Goto, TypeOK, market, money
  <2>2. CASE Priceable
    <3> DEFINE q == {TermsIn(a, asked[v]) : a \in config.assets}
    <3>1. asked[v] \in Commissions
      BY <1>2 DEF Quote, TypeOK
    <3>2. q \in SUBSET Terms
      BY <2>2, <3>1, TermsOfTerms
    <3>3. q # {}
      <4>1. PICK a \in config.assets : TRUE
        BY ConfigAssumption DEF TypeOK, Config
      <4> QED BY <4>1
    <3>4. quote' = [quote EXCEPT ![v] = q] /\ (Goto(v, "quoted") \/ Goto(v, "admitting"))
      BY <1>2, <2>2 DEF Quote
    <3> HIDE DEF q
    <3> QED BY <1>2, <3>2, <3>3, <3>4 DEF Quote, Goto, TypeOK, market, money
  <2> QED BY <2>1, <2>2
<1>3. CASE Drop(v)
  BY <1>3 DEF Drop, Goto, TypeOK, market, money
<1> QED BY <1>1, <1>2, <1>3

LEMMA BindType ==
    ASSUME TypeOK, NEW v \in Verifies, NEW src \in {"x402"} \cup Verifies, NEW t \in Terms,
           state[v] \in {"quoted", "admitting"}, Bind(v, src, t), credits' \in SUBSET Verifies,
           UNCHANGED <<market, asked, money>>
    PROVE  TypeOK'
<1>1. src \notin {"none", "free"} /\ t # Null
  BY DistinctAssumption
<1> QED BY <1>1 DEF Bind, Goto, TypeOK, market, money

LEMMA CreditTermsOffered ==
    ASSUME NEW q, NEW asset, NEW t \in CreditTerms(q, asset)
    PROVE  t \in q /\ (t.asset = asset \/ \A u \in q : u.asset # asset)
BY DEF CreditTerms

LEMMA AdmitType ==
    ASSUME TypeOK, NEW v \in Verifies, AdmitPaid(v) \/ AdmitOnCredit(v) \/ AdmitFree(v)
    PROVE  TypeOK'
<1>1. CASE AdmitPaid(v)
  <2>1. PICK t \in quote[v] : Bind(v, "x402", t)
    BY <1>1 DEF AdmitPaid
  <2> QED BY <1>1, <2>1, BindType DEF AdmitPaid, TypeOK
<1>2. CASE AdmitOnCredit(v)
  <2>1. PICK c \in credits :
          /\ \E t \in CreditTerms(quote[v], bound[c].asset) : Bind(v, c, t)
          /\ credits' = credits \ {c}
    BY <1>2 DEF AdmitOnCredit
  <2>2. PICK t \in quote[v] : Bind(v, c, t)
    BY <2>1, CreditTermsOffered
  <2> QED BY <1>2, <2>1, <2>2, BindType DEF AdmitOnCredit, TypeOK
<1>3. CASE AdmitFree(v)
  BY <1>3, DistinctAssumption DEF AdmitFree, Goto, TypeOK, market, money
<1> QED BY <1>1, <1>2, <1>3

LEMMA EarnType ==
    ASSUME TypeOK, NEW v \in Verifies, NEW a \in Associates, state[v] = "pending",
           Earn(v, a), unlock' \in [Verifies -> Nat],
           source[v] # "free" => 0 < bound[v].basis
    PROVE  ledger' \in SUBSET Earning
<1>1. CASE source[v] = "free"
  BY <1>1, AmountsAssumption, ScalesAssumption, ProductIsNat DEF Earn, TypeOK, Earning, Assets, ToAtomic
<1>2. CASE source[v] # "free"
  <2>1. bound[v] \in Terms
    BY <1>2 DEF TypeOK
  <2>2. bound[v].asset \in Assets /\ bound[v].commission \in Nat /\ bound[v].basis \in Nat \ {0}
    BY <1>2, <2>1 DEF Terms
  <2>3. Share(unlock'[v], bound[v].commission, bound[v].basis) \in Nat
    BY <2>2, ProductIsNat, QuotientBounds DEF Share
  <2> QED BY <1>2, <2>2, <2>3 DEF Earn, TypeOK, Earning
<1> QED BY <1>1, <1>2

LEMMA OutcomeType ==
    ASSUME TypeOK, QuotesSound, NEW v \in Verifies,
           Expire(v) \/ \E a \in Associates : Answer(v, a)
    PROVE  TypeOK'
<1>1. CASE Expire(v)
  BY <1>1 DEF Expire, Goto, TypeOK, market, money
<1>2. ASSUME NEW a \in Associates, Answer(v, a) PROVE TypeOK'
  <2>1. source[v] # "free" => bound[v] \in Terms /\ 0 < bound[v].basis
    BY <1>2, DistinctAssumption DEF Answer, TypeOK, QuotesSound, TermsSound
  <2>2. source[v] # "free" =>
          \E w \in {"sla", "grace"} :
             /\ window' = [window EXCEPT ![v] = w]
             /\ unlock' = [unlock EXCEPT ![v] = bound[v][w]]
             /\ bound[v][w] \in Nat
    BY <1>2, <2>1 DEF Answer, Terms
  <2>3. source[v] = "free" => window' = window /\ unlock' = unlock
    BY <1>2 DEF Answer
  <2>4. window' \in [Verifies -> {"none", "sla", "grace"}]
    BY <2>2, <2>3 DEF TypeOK
  <2>5. unlock' \in [Verifies -> Nat]
    BY <2>2, <2>3 DEF TypeOK
  <2>6. ledger' \in SUBSET Earning
    BY <1>2, <2>1, <2>5, EarnType DEF Answer
  <2>7. state[v] = "pending" /\ state' = [state EXCEPT ![v] = "answered"]
    BY <1>2 DEF Answer, Goto
  <2>8. \A u \in Verifies :
          window'[u] # "none" <=> state'[u] = "answered" /\ source[u] # "free"
    <3>1. CASE source[v] = "free"
      BY <2>3, <2>7, <3>1 DEF TypeOK
    <3>2. CASE source[v] # "free"
      BY <2>2, <2>7, <3>2 DEF TypeOK
    <3> QED BY <3>1, <3>2
  <2>9. UNCHANGED <<market, asked, quote, source, bound, credits, paid>>
    BY <1>2 DEF Answer
  <2> QED BY <2>4, <2>5, <2>6, <2>7, <2>8, <2>9 DEF TypeOK, market
<1> QED BY <1>1, <1>2

LEMMA PaidType ==
    ASSUME TypeOK, NEW a \in Associates, NEW asset \in Assets, NEW cents \in 1..MaxPaid,
           MarkPaid(a, asset, cents)
    PROVE  TypeOK'
BY AmountsAssumption DEF MarkPaid, TypeOK, market, chain

(***************************************************************************)
(* Sums over a ledger.  The definition is recursive over finite sets; that *)
(* it has a solution, and what it computes, is proved by minimal           *)
(* counterexamples in the library's order of strict inclusion.             *)
(***************************************************************************)

\* MapThenSumSet takes the elements of a set one by one, the next to be Pick(s).
\* Fold(S, f) is what f has to be for f[S] to be the total of S.
Pick(s) == CHOOSE x \in s : TRUE

Fold(S, f) ==
  [s \in SUBSET S |-> IF s = {} THEN 0 ELSE Pick(s).amount + f[s \ {Pick(s)}]]

FoldOf(S) == CHOOSE f : f = Fold(S, f)

\* The total of S, as the library defines it.
LEMMA TotalIsFold ==
  ASSUME NEW S
  PROVE  Total(S) = FoldOf(S)[S]
  BY Zenon DEF Total, MapThenSumSet, MapThenFoldSet, FoldOf, Fold, Pick

\* Induction over the subsets of a finite set: a set of counterexamples has a
\* minimal one.
LEMMA MinimalSubset ==
  ASSUME NEW S, IsFiniteSet(S), NEW B \in SUBSET (SUBSET S), B # {}
  PROVE  \E T \in B : \A U \in SUBSET T : U # T => U \notin B
<1>1. IsWellFoundedOn(StrictSubsetOrdering(S), SUBSET S)
  BY FS_StrictSubsetOrderingWellFounded, FS_FiniteSubsetsOfFinite, Zenon
<1>2. PICK T \in B : \A U \in B : ~ (<<U, T>> \in StrictSubsetOrdering(S))
  BY <1>1, WFMin, Zenon
<1> QED BY <1>2 DEF StrictSubsetOrdering

\* What is picked is an element.
LEMMA PickIn == ASSUME NEW s, s # {} PROVE Pick(s) \in s
  BY DEF Pick

\* At most one function satisfies the recursive definition.
LEMMA FoldUnique ==
  ASSUME NEW S, IsFiniteSet(S), NEW f, NEW g, f = Fold(S, f), g = Fold(S, g)
  PROVE  f = g
<1> DEFINE B == {T \in SUBSET S : f[T] # g[T]}
<1>1. CASE B = {}
  <2>1. f = [s \in SUBSET S |-> f[s]] /\ g = [s \in SUBSET S |-> g[s]]
    BY DEF Fold
  <2> QED BY <1>1, <2>1
<1>2. CASE B # {}
  <2>1. PICK T \in B : \A U \in SUBSET T : U # T => U \notin B
    <3>1. B \in SUBSET (SUBSET S)
      OBVIOUS
    <3> HIDE DEF B
    <3> QED BY <1>2, <3>1, MinimalSubset
  <2>2. T # {}
    BY DEF Fold
  <2> DEFINE U == T \ {Pick(T)}
  <2>3. U \in SUBSET T /\ U # T /\ U \in SUBSET S
    BY <2>2, PickIn
  <2>4. f[U] = g[U]
    BY <2>1, <2>3
  <2>5. f[T] = Pick(T).amount + f[U] /\ g[T] = Pick(T).amount + g[U]
    BY <2>2 DEF Fold
  <2> QED BY <2>4, <2>5
<1> QED BY <1>1, <1>2

\* The same function serves the subsets.
LEMMA FoldRestrict ==
  ASSUME NEW S, NEW f, f = Fold(S, f), NEW T \in SUBSET S,
         NEW g, g = [s \in SUBSET T |-> f[s]]
  PROVE  g = Fold(T, g)
<1>1. ASSUME NEW s \in SUBSET T
      PROVE  g[s] = IF s = {} THEN 0 ELSE Pick(s).amount + g[s \ {Pick(s)}]
  <2>1. s \in SUBSET S /\ s \ {Pick(s)} \in SUBSET T
    OBVIOUS
  <2>2. f[s] = IF s = {} THEN 0 ELSE Pick(s).amount + f[s \ {Pick(s)}]
    BY <2>1 DEF Fold
  <2> QED BY <2>1, <2>2
<1> QED BY <1>1 DEF Fold

\* Some function satisfies the recursive definition.
LEMMA FoldExists ==
  ASSUME NEW S, IsFiniteSet(S)
  PROVE  \E f : f = Fold(S, f)
<1> DEFINE B == {T \in SUBSET S : ~ \E f : f = Fold(T, f)}
<1>1. SUFFICES ASSUME B # {} PROVE FALSE
  OBVIOUS
<1>2. PICK T \in B : \A U \in SUBSET T : U # T => U \notin B
  <2>1. B \in SUBSET (SUBSET S)
    OBVIOUS
  <2> HIDE DEF B
  <2> QED BY <1>1, <2>1, MinimalSubset
<1>3. \A U \in SUBSET T : U # T => FoldOf(U) = Fold(U, FoldOf(U))
  BY <1>2 DEF FoldOf
<1> DEFINE Val(U) == FoldOf(U)[U]
<1>4. ASSUME NEW U \in SUBSET T, U # T, U # {}
      PROVE  Val(U) = Pick(U).amount + Val(U \ {Pick(U)})
  <2> DEFINE W == U \ {Pick(U)}
             g == [s \in SUBSET W |-> FoldOf(U)[s]]
  <2>1. FoldOf(U) = Fold(U, FoldOf(U)) /\ FoldOf(W) = Fold(W, FoldOf(W)) /\ IsFiniteSet(W)
    <3>1. W \in SUBSET T /\ W # T /\ W \in SUBSET S
      BY <1>4
    <3>2. IsFiniteSet(W)
      BY <3>1, FS_Subset
    <3> QED BY <1>3, <1>4, <3>1, <3>2
  <2>2. g = Fold(W, g)
    <3> DEFINE h == FoldOf(U)
    <3>1. h = Fold(U, h) /\ W \in SUBSET U /\ g = [s \in SUBSET W |-> h[s]]
      BY <2>1
    <3> HIDE DEF h, W, g
    <3> QED BY <3>1, FoldRestrict
  <2>3. g = FoldOf(W)
    <3> HIDE DEF g, W
    <3> QED BY <2>1, <2>2, FoldUnique
  <2>4. g[W] = FoldOf(U)[W]
    OBVIOUS
  <2>5. FoldOf(U)[U] = Pick(U).amount + FoldOf(U)[W]
    <3> DEFINE h == FoldOf(U)
    <3>1. h = Fold(U, h)
      BY <2>1
    <3> HIDE DEF h
    <3>2. h[U] = Pick(U).amount + h[W]
      BY <1>4, <3>1 DEF Fold
    <3> QED BY <3>2 DEF h
  <2> QED BY <2>3, <2>4, <2>5
<1>5. {} # T => Val({}) = 0
  <2> DEFINE h == FoldOf({})
  <2>1. {} # T => h = Fold({}, h)
    BY <1>3
  <2> HIDE DEF h
  <2>2. {} # T => h[{}] = 0
    BY <2>1 DEF Fold
  <2> QED BY <2>2 DEF h
<1> DEFINE f == [s \in SUBSET T |-> IF s = {} THEN 0 ELSE Pick(s).amount + Val(s \ {Pick(s)})]
<1>6. \A U \in SUBSET T : U # T => f[U] = Val(U)
  <2> HIDE DEF Val
  <2> QED BY <1>4, <1>5
<1>7. \A s \in SUBSET T : s # {} => f[s] = Pick(s).amount + f[s \ {Pick(s)}]
  <2> SUFFICES ASSUME NEW s \in SUBSET T, s # {}
               PROVE  f[s] = Pick(s).amount + f[s \ {Pick(s)}]
    OBVIOUS
  <2>1. s \ {Pick(s)} \in SUBSET T /\ s \ {Pick(s)} # T
    BY PickIn
  <2>2. f[s \ {Pick(s)}] = Val(s \ {Pick(s)})
    BY <1>6, <2>1
  <2>3. f[s] = Pick(s).amount + Val(s \ {Pick(s)})
    OBVIOUS
  <2> QED BY <2>2, <2>3
<1>8. f = Fold(T, f)
  <2>1. f[{}] = 0 
    OBVIOUS
  <2>2. f = [s \in SUBSET T |-> f[s]]
    OBVIOUS
  <2> HIDE DEF f
  <2> QED BY <1>7, <2>1, <2>2 DEF Fold
<1> QED BY <1>2, <1>8

\* The total of a set, by the total of what is left without the first pick.
LEMMA TotalUnfolds ==
  ASSUME NEW S, IsFiniteSet(S)
  PROVE  Total(S) = IF S = {} THEN 0 ELSE Pick(S).amount + Total(S \ {Pick(S)})
<1> DEFINE f == FoldOf(S)
           T == S \ {Pick(S)}
           g == [s \in SUBSET T |-> f[s]]
<1>1. f = Fold(S, f)
  BY FoldExists DEF FoldOf
<1>2. T \in SUBSET S /\ IsFiniteSet(T)
  BY FS_Subset
<1>3. FoldOf(T) = Fold(T, FoldOf(T))
  <2> HIDE DEF T
  <2> QED BY <1>2, FoldExists DEF FoldOf
<1>4. g = FoldOf(T)
  <2> HIDE DEF f, T
  <2>0. g = [s \in SUBSET T |-> f[s]]
    OBVIOUS
  <2> HIDE DEF g
  <2>1. g = Fold(T, g)
    BY <1>1, <1>2, <2>0, FoldRestrict
  <2> QED BY <1>2, <1>3, <2>1, FoldUnique
<1>5. g[T] = f[T]
  OBVIOUS
<1>6. f[S] = IF S = {} THEN 0 ELSE Pick(S).amount + f[T]
  <2> HIDE DEF f
  <2> QED BY <1>1 DEF Fold
<1> QED BY <1>4, <1>5, <1>6, TotalIsFold

\* A total of natural numbers is one.
LEMMA TotalIsNat ==
  ASSUME NEW S, IsFiniteSet(S), \A e \in S : e.amount \in Nat
  PROVE  Total(S) \in Nat
<1> DEFINE B == {T \in SUBSET S : Total(T) \notin Nat}
<1>1. SUFFICES ASSUME B # {} PROVE FALSE
  OBVIOUS
<1>2. PICK T \in B : \A U \in SUBSET T : U # T => U \notin B
  <2>1. B \in SUBSET (SUBSET S)
    OBVIOUS
  <2> HIDE DEF B
  <2> QED BY <1>1, <2>1, MinimalSubset
<1>3. IsFiniteSet(T)
  BY FS_Subset
<1>4. T # {}
  <2>1. Total({}) = 0
    BY FS_EmptySet, TotalUnfolds
  <2> QED BY <2>1
<1>5. Pick(T) \in T
  BY <1>4, PickIn
<1>6. Total(T \ {Pick(T)}) \in Nat
  BY <1>2, <1>5
<1>7. Total(T) = Pick(T).amount + Total(T \ {Pick(T)})
  BY <1>3, <1>4, TotalUnfolds
<1> QED BY <1>5, <1>6, <1>7

\* The order in which the elements are picked does not matter.
LEMMA TotalWithout ==
  ASSUME NEW S, IsFiniteSet(S), \A e \in S : e.amount \in Nat, NEW x \in S
  PROVE  Total(S) = x.amount + Total(S \ {x})
<1> DEFINE B == {T \in SUBSET S : \E y \in T : Total(T) # y.amount + Total(T \ {y})}
<1>1. SUFFICES ASSUME B # {} PROVE FALSE
  OBVIOUS
<1>2. PICK T \in B : \A U \in SUBSET T : U # T => U \notin B
  <2>1. B \in SUBSET (SUBSET S)
    OBVIOUS
  <2> HIDE DEF B
  <2> QED BY <1>1, <2>1, MinimalSubset
<1>3. PICK y \in T : Total(T) # y.amount + Total(T \ {y})
  OBVIOUS
<1> DEFINE p == Pick(T)
<1>4. p \in T /\ Total(T) = p.amount + Total(T \ {p})
  <2>1. IsFiniteSet(T)
    BY FS_Subset
  <2> QED BY <2>1, PickIn, TotalUnfolds
<1>5. y # p
  BY <1>3, <1>4
<1> HIDE DEF p
<1>6. Total(T \ {p}) = y.amount + Total((T \ {p}) \ {y})
  <2>1. T \ {p} \in SUBSET T /\ T \ {p} # T /\ y \in T \ {p}
    BY <1>4, <1>5
  <2> QED BY <1>2, <2>1
<1>7. Total(T \ {y}) = p.amount + Total((T \ {y}) \ {p})
  <2>1. T \ {y} \in SUBSET T /\ T \ {y} # T /\ p \in T \ {y}
    BY <1>4, <1>5
  <2> QED BY <1>2, <2>1
<1>8. (T \ {y}) \ {p} = (T \ {p}) \ {y}
  OBVIOUS
<1>9. Total((T \ {p}) \ {y}) \in Nat /\ y.amount \in Nat /\ p.amount \in Nat
  <2>1. (T \ {p}) \ {y} \in SUBSET S
    OBVIOUS
  <2>2. IsFiniteSet((T \ {p}) \ {y})
    BY <2>1, FS_Subset
  <2> QED BY <1>4, <2>1, <2>2, TotalIsNat
<1> QED BY <1>3, <1>4, <1>6, <1>7, <1>8, <1>9

\* One more row never makes a total smaller.
LEMMA TotalAdds ==
  ASSUME NEW S, IsFiniteSet(S), NEW x, \A e \in S \cup {x} : e.amount \in Nat
  PROVE  /\ Total(S) \in Nat /\ Total(S \cup {x}) \in Nat
         /\ Total(S) <= Total(S \cup {x})
<1>1. IsFiniteSet(S \cup {x})
  BY FS_AddElement
<1>2. Total(S) \in Nat /\ Total(S \cup {x}) \in Nat /\ x.amount \in Nat
  BY <1>1, TotalIsNat
<1>3. CASE x \in S
  <2>1. S \cup {x} = S
    BY <1>3
  <2> QED BY <1>2, <2>1
<1>4. CASE x \notin S
  <2>1. (S \cup {x}) \ {x} = S
    BY <1>4
  <2>2. Total(S \cup {x}) = x.amount + Total((S \cup {x}) \ {x})
    BY <1>1, TotalWithout
  <2> QED BY <1>2, <2>1, <2>2
<1> QED BY <1>3, <1>4

(***************************************************************************)
(* Every step preserves the rest.                                          *)
(***************************************************************************)

LEMMA NextType == TypeOK /\ QuotesSound /\ [Next]_vars => TypeOK'
<1> SUFFICES ASSUME TypeOK, QuotesSound, [Next]_vars PROVE TypeOK'
  OBVIOUS
<1>1. CASE UNCHANGED vars
  BY <1>1 DEF vars, market, chain, money, TypeOK
<1>2. CASE Next
  BY <1>2, MarketType, RequestType, AdmitType, OutcomeType, PaidType DEF Next, ChainStep, MarketStep
<1> QED BY <1>1, <1>2

\* Only a chain that is not yet admitted is bound, and an outcome is final.
LEMMA ChainsKept ==
    ASSUME TypeOK, [Next]_vars, NEW u \in Verifies,
           state[u] \in {"pending", "answered", "expired"}
    PROVE  /\ bound'[u] = bound[u] /\ source'[u] = source[u]
           /\ state[u] # "pending" =>
                 state'[u] = state[u] /\ unlock'[u] = unlock[u] /\ window'[u] = window[u]
<1> DEFINE Kept ==
             /\ bound'[u] = bound[u] /\ source'[u] = source[u]
             /\ state[u] # "pending" =>
                   state'[u] = state[u] /\ unlock'[u] = unlock[u] /\ window'[u] = window[u]
<1>1. CASE UNCHANGED vars
  BY <1>1 DEF vars, chain, money
<1>2. CASE MarketStep
  <2>1. ASSUME NEW r \in Rates, PublishRate(r) PROVE Kept
    BY <2>1 DEF PublishRate, chain, money
  <2>2. ASSUME NEW c \in Commissions, SetCommission(c) PROVE Kept
    BY <2>2 DEF SetCommission, chain, money
  <2>3. ASSUME NEW cfg \in Configs, Restart(cfg) PROVE Kept
    BY <2>3 DEF Restart, TypeOK, money
  <2> QED BY <1>2, <2>1, <2>2, <2>3 DEF MarketStep
<1>3. ASSUME NEW v \in Verifies, Ask(v) \/ Quote(v) \/ AdmitFree(v) \/ Drop(v) PROVE Kept
  BY <1>3 DEF Ask, Quote, AdmitFree, Drop, Goto, TypeOK, money
<1>4. ASSUME NEW v \in Verifies, AdmitPaid(v) \/ AdmitOnCredit(v) PROVE Kept
  BY <1>4 DEF AdmitPaid, AdmitOnCredit, Bind, Goto, TypeOK, money
<1>5. ASSUME NEW v \in Verifies, Expire(v) PROVE Kept
  BY <1>5 DEF Expire, Goto, TypeOK, money
<1>6. ASSUME NEW v \in Verifies, NEW a \in Associates, Answer(v, a) PROVE Kept
  <2>1. /\ state[v] = "pending" /\ state' = [state EXCEPT ![v] = "answered"]
        /\ UNCHANGED <<bound, source>>
    BY <1>6 DEF Answer, Goto
  <2>2. u # v => unlock'[u] = unlock[u] /\ window'[u] = window[u]
    BY <1>6 DEF Answer, TypeOK
  <2> QED BY <2>1, <2>2 DEF TypeOK
<1>7. ASSUME NEW a \in Associates, NEW asset \in Assets, NEW cents \in 1..MaxPaid,
             MarkPaid(a, asset, cents)
      PROVE  Kept
  BY <1>7 DEF MarkPaid, chain
<1> QED BY <1>1, <1>2, <1>3, <1>4, <1>5, <1>6, <1>7 DEF Next, ChainStep

LEMMA QuotesSoundStep == TypeOK /\ QuotesSound /\ [Next]_vars => QuotesSound'
<1> SUFFICES ASSUME TypeOK, QuotesSound, [Next]_vars, NEW u \in Verifies,
                    NEW t \in quote'[u] \cup ({bound'[u]} \ {Null})
             PROVE  TermsSound(t)
  BY DEF QuotesSound
<1> DEFINE known == quote[u] \cup ({bound[u]} \ {Null})
<1>1. t \in known => TermsSound(t)
  BY DEF QuotesSound
<1>2. CASE UNCHANGED vars
  BY <1>1, <1>2 DEF vars, chain
<1>3. CASE MarketStep
  <2>1. ASSUME NEW r \in Rates, PublishRate(r) PROVE t \in known
    BY <2>1 DEF PublishRate, chain
  <2>2. ASSUME NEW c \in Commissions, SetCommission(c) PROVE t \in known
    BY <2>2 DEF SetCommission, chain
  <2>3. ASSUME NEW cfg \in Configs, Restart(cfg) PROVE t \in known
    BY <2>3 DEF Restart, TypeOK
  <2> QED BY <1>1, <1>3, <2>1, <2>2, <2>3 DEF MarketStep
<1>4. ASSUME NEW v \in Verifies, Ask(v) \/ AdmitFree(v) \/ Drop(v) \/ Expire(v) PROVE TermsSound(t)
  BY <1>1, <1>4 DEF Ask, AdmitFree, Drop, Expire, Goto, TypeOK
<1>5. ASSUME NEW v \in Verifies, Quote(v) PROVE TermsSound(t)
  <2>1. CASE t \in known
    BY <1>1, <2>1
  <2>2. CASE t \notin known
    <3>1. Priceable /\ quote' = [quote EXCEPT ![v] = {TermsIn(a, asked[v]) : a \in config.assets}]
          /\ bound' = bound /\ asked[v] \in Commissions
      BY <1>5, <2>2 DEF Quote, TypeOK
    <3>2. t \in {TermsIn(a, asked[v]) : a \in config.assets}
      BY <2>2, <3>1 DEF TypeOK
    <3> QED BY <3>1, <3>2, TermsOfTerms
  <2> QED BY <2>1, <2>2
<1>6. ASSUME NEW v \in Verifies, NEW src, NEW s \in quote[v], Bind(v, src, s) PROVE TermsSound(t)
  BY <1>6 DEF Bind, QuotesSound, TypeOK
<1>7. ASSUME NEW v \in Verifies, AdmitPaid(v) \/ AdmitOnCredit(v) PROVE TermsSound(t)
  BY <1>6, <1>7, CreditTermsOffered DEF AdmitPaid, AdmitOnCredit
<1>8. ASSUME NEW v \in Verifies, NEW a \in Associates, Answer(v, a) PROVE TermsSound(t)
  BY <1>1, <1>8 DEF Answer
<1>9. ASSUME NEW a \in Associates, NEW asset \in Assets, NEW cents \in 1..MaxPaid,
             MarkPaid(a, asset, cents)
      PROVE  TermsSound(t)
  BY <1>1, <1>9 DEF MarkPaid, chain
<1> QED BY <1>2, <1>3, <1>4, <1>5, <1>7, <1>8, <1>9 DEF Next, ChainStep

\* Answer alone makes a chain answered, or touches the ledger.
LEMMA OnlyAnswers ==
    ASSUME TypeOK, [Next]_vars, \A v \in Verifies, a \in Associates : ~Answer(v, a)
    PROVE  /\ ledger' = ledger
           /\ \A u \in Verifies : state'[u] = "answered" => state[u] = "answered"
<1> DEFINE Same ==
             /\ ledger' = ledger
             /\ \A u \in Verifies : state'[u] = "answered" => state[u] = "answered"
<1>1. CASE UNCHANGED vars
  BY <1>1 DEF vars, chain, money
<1>2. CASE MarketStep
  <2>1. ASSUME NEW r \in Rates, PublishRate(r) PROVE Same
    BY <2>1 DEF PublishRate, chain, money
  <2>2. ASSUME NEW c \in Commissions, SetCommission(c) PROVE Same
    BY <2>2 DEF SetCommission, chain, money
  <2>3. ASSUME NEW cfg \in Configs, Restart(cfg) PROVE Same
    BY <2>3 DEF Restart, TypeOK, money
  <2> QED BY <1>2, <2>1, <2>2, <2>3 DEF MarketStep
<1>3. ASSUME NEW v \in Verifies, Ask(v) \/ Quote(v) \/ AdmitFree(v) \/ Drop(v) \/ Expire(v) PROVE Same
  BY <1>3 DEF Ask, Quote, AdmitFree, Drop, Expire, Goto, TypeOK, money
<1>4. ASSUME NEW v \in Verifies, AdmitPaid(v) \/ AdmitOnCredit(v) PROVE Same
  BY <1>4 DEF AdmitPaid, AdmitOnCredit, Bind, Goto, TypeOK, money
<1>5. ASSUME NEW a \in Associates, NEW asset \in Assets, NEW cents \in 1..MaxPaid,
             MarkPaid(a, asset, cents)
      PROVE  Same
  BY <1>5 DEF MarkPaid, chain
<1> QED BY <1>1, <1>2, <1>3, <1>4, <1>5 DEF Next, ChainStep

\* What an answer decides for a chain that is not free.
LEMMA AnswerDecides ==
    ASSUME TypeOK, QuotesSound, NEW v \in Verifies, NEW a \in Associates, Answer(v, a), source[v] # "free"
    PROVE  /\ bound[v] \in Terms
           /\ \/ window'[v] = "sla" /\ unlock'[v] = bound[v].sla
              \/ window'[v] = "grace" /\ unlock'[v] = bound[v].grace
<1>1. bound[v] \in Terms
  BY DEF Answer, TypeOK
<1>2. PICK w \in {"sla", "grace"} :
        /\ window' = [window EXCEPT ![v] = w]
        /\ unlock' = [unlock EXCEPT ![v] = bound[v][w]]
  BY DEF Answer
<1>3. window'[v] = w /\ unlock'[v] = bound[v][w]
  BY <1>2 DEF TypeOK
<1>4. w = "sla" => bound[v][w] = bound[v].sla
  OBVIOUS
<1>5. w = "grace" => bound[v][w] = bound[v].grace
  OBVIOUS
<1> QED BY <1>1, <1>2, <1>3, <1>4, <1>5

LEMMA PricesSoundStep == TypeOK /\ QuotesSound /\ PricesSound /\ [Next]_vars => PricesSound'
<1> SUFFICES ASSUME TypeOK, QuotesSound, PricesSound, [Next]_vars, NEW u \in Verifies,
                    state'[u] = "answered", source'[u] # "free"
             PROVE  /\ window'[u] = "sla" => unlock'[u] = bound'[u].sla
                    /\ window'[u] = "grace" => unlock'[u] = bound'[u].grace
  BY DEF PricesSound
<1>1. CASE state[u] = "answered"
  BY <1>1, ChainsKept DEF PricesSound
<1>2. CASE state[u] # "answered"
  <2>1. PICK v \in Verifies, a \in Associates : Answer(v, a)
    BY <1>2, OnlyAnswers
  <2>2. u = v /\ bound' = bound /\ source' = source
    BY <1>2, <2>1 DEF Answer, Goto, TypeOK
  <2> QED BY <2>1, <2>2, AnswerDecides
<1> QED BY <1>1, <1>2

LEMMA EarningsSoundStep == TypeOK /\ EarningsSound /\ [Next]_vars => EarningsSound'
<1> SUFFICES ASSUME TypeOK, EarningsSound, [Next]_vars, NEW e \in ledger'
             PROVE  /\ state'[e.verify] = "answered"
                    /\ source'[e.verify] # "free" =>
                          e.amount = Share(unlock'[e.verify], bound'[e.verify].commission,
                                           bound'[e.verify].basis)
  BY DEF EarningsSound
<1>1. CASE e \in ledger
  <2>1. e.verify \in Verifies /\ state[e.verify] = "answered"
    BY <1>1 DEF EarningsSound, TypeOK, Earning
  <2> QED BY <1>1, <2>1, ChainsKept DEF EarningsSound
<1>2. CASE e \notin ledger
  <2>1. PICK v \in Verifies, a \in Associates : Answer(v, a)
    BY <1>2, OnlyAnswers
  <2>2. /\ e.verify = v
        /\ source[v] # "free" => e.amount = Share(unlock'[v], bound[v].commission, bound[v].basis)
    BY <1>2, <2>1 DEF Answer, Earn
  <2>3. state'[v] = "answered" /\ bound' = bound /\ source' = source
    BY <2>1 DEF Answer, Goto, TypeOK
  <2> QED BY <2>2, <2>3
<1> QED BY <1>1, <1>2

LEMMA CreditsSoundStep == TypeOK /\ CreditsSound /\ [Next]_vars => CreditsSound'
<1> SUFFICES ASSUME TypeOK, CreditsSound, [Next]_vars PROVE CreditsSound'
  OBVIOUS
<1> DEFINE Entry(c) == source[c] = "x402" /\ state[c] = "expired"
           Kept == credits' \subseteq credits
                   /\ \A u \in Verifies : source'[u] \in Verifies => source'[u] = source[u]
<1>1. \A c \in Verifies : Entry(c) => Entry(c)'
  BY ChainsKept
<1>2. ASSUME Kept PROVE CreditsSound'
  <2>1. \A c \in credits : c \in Verifies /\ Entry(c)
    BY DEF CreditsSound, TypeOK
  <2>2. \A u \in Verifies : source[u] \in Verifies => Entry(source[u])
    BY DEF CreditsSound
  <2> QED BY <1>1, <1>2, <2>1, <2>2 DEF CreditsSound
<1>3. CASE UNCHANGED vars
  BY <1>2, <1>3 DEF vars, chain
<1>4. CASE MarketStep
  <2>1. ASSUME NEW r \in Rates, PublishRate(r) PROVE Kept
    BY <2>1 DEF PublishRate, chain
  <2>2. ASSUME NEW c \in Commissions, SetCommission(c) PROVE Kept
    BY <2>2 DEF SetCommission, chain
  <2>3. ASSUME NEW cfg \in Configs, Restart(cfg) PROVE Kept
    BY <2>3 DEF Restart
  <2> QED BY <1>2, <1>4, <2>1, <2>2, <2>3 DEF MarketStep
<1>5. ASSUME NEW v \in Verifies, Ask(v) \/ Quote(v) \/ AdmitFree(v) \/ Drop(v) \/ AdmitPaid(v)
      PROVE  Kept
  BY <1>5, DistinctAssumption DEF Ask, Quote, AdmitFree, Drop, AdmitPaid, Bind, TypeOK
<1>6. ASSUME NEW v \in Verifies, AdmitOnCredit(v) PROVE CreditsSound'
  <2>1. PICK c \in credits :
          credits' = credits \ {c} /\ source' = [source EXCEPT ![v] = c]
    BY <1>6 DEF AdmitOnCredit, Bind
  <2>2. \A d \in credits : d \in Verifies /\ Entry(d)'
    BY <1>1 DEF CreditsSound, TypeOK
  <2>3. \A u \in Verifies : source[u] \in Verifies =>
          source'[source[u]] = "x402" /\ state'[source[u]] = "expired"
    BY <1>1 DEF CreditsSound
  <2>4. \A u \in Verifies : source'[u] = IF u = v THEN c ELSE source[u]
    BY <2>1 DEF TypeOK
  <2> QED BY <2>1, <2>2, <2>3, <2>4 DEF CreditsSound
<1>7. ASSUME NEW v \in Verifies, Expire(v) PROVE CreditsSound'
  <2>1. /\ source' = source /\ state' = [state EXCEPT ![v] = "expired"]
        /\ credits' \subseteq credits \cup
              (IF source[v] = "x402" THEN {v} ELSE IF source[v] = "free" THEN {} ELSE {source[v]})
    BY <1>7 DEF Expire, Goto
  <2>2. source[v] \in {"x402", "free"} \cup Verifies
    BY <1>7 DEF Expire, TypeOK
  <2>3. \A c \in credits : Entry(c)'
    BY <1>1 DEF CreditsSound, TypeOK
  <2>4. \A u \in Verifies : source[u] \in Verifies =>
          source'[source[u]] = "x402" /\ state'[source[u]] = "expired"
    BY <1>1 DEF CreditsSound
  <2>5. source[v] = "x402" => Entry(v)'
    BY <2>1 DEF TypeOK
  <2>6. \A c \in credits' : Entry(c)'
    BY <2>1, <2>2, <2>3, <2>4, <2>5
  <2> QED BY <2>1, <2>4, <2>6 DEF CreditsSound
<1>8. ASSUME NEW v \in Verifies, NEW a \in Associates, Answer(v, a) PROVE Kept
  BY <1>8 DEF Answer
<1>9. ASSUME NEW a \in Associates, NEW asset \in Assets, NEW cents \in 1..MaxPaid,
             MarkPaid(a, asset, cents)
      PROVE  Kept
  BY <1>9 DEF MarkPaid, chain
<1> QED BY <1>2, <1>3, <1>4, <1>5, <1>6, <1>7, <1>8, <1>9 DEF Next, ChainStep

(***************************************************************************)
(* Payouts.                                                                *)
(***************************************************************************)

\* The rows of an associate in an asset, as PaidWithinEarned names them.
RowsOf(a, asset) == {e \in ledger : e.associate = a /\ e.asset = asset}

\* A ledger has finitely many rows, and no payout was above a balance.
PaidSound == IsFiniteSet(ledger) /\ PaidWithinEarned

LEMMA RowsCount ==
    ASSUME TypeOK, IsFiniteSet(ledger), NEW a, NEW asset
    PROVE  /\ IsFiniteSet(RowsOf(a, asset))
           /\ \A e \in RowsOf(a, asset) : e.amount \in Nat
           /\ Total(RowsOf(a, asset)) \in Nat
<1>1. RowsOf(a, asset) \in SUBSET ledger
  BY DEF RowsOf
<1>2. IsFiniteSet(RowsOf(a, asset))
  BY <1>1, FS_Subset
<1>3. \A e \in RowsOf(a, asset) : e.amount \in Nat
  BY <1>1 DEF TypeOK, Earning
<1> QED BY <1>2, <1>3, TotalIsNat

\* An answer adds one row to one of the totals.
LEMMA AnswerAdds ==
    ASSUME TypeOK, TypeOK', PaidSound, NEW v \in Verifies, NEW b \in Associates, Answer(v, b)
    PROVE  PaidSound'
<1>1. PICK r : ledger' = ledger \cup {r}
  BY DEF Answer, Earn
<1>2. IsFiniteSet(ledger)
  BY DEF PaidSound
<1>3. IsFiniteSet(ledger')
  <2>1. IsFiniteSet(ledger \cup {r})
    BY <1>2, FS_AddElement, Zenon
  <2> QED BY <1>1, <2>1
<1>4. ASSUME NEW a \in Associates, NEW asset \in Assets
      PROVE  ToAtomic(paid'[a][asset]) <= Total(RowsOf(a, asset)')
  <2>1. paid' = paid /\ paid[a][asset] \in Nat
    BY AmountsAssumption DEF Answer, TypeOK
  <2>2. ToAtomic(paid[a][asset]) \in Nat
    BY <2>1, ScalesAssumption, ProductIsNat DEF ToAtomic
  <2>3. ToAtomic(paid[a][asset]) <= Total(RowsOf(a, asset))
    BY DEF PaidSound, PaidWithinEarned, RowsOf
  <2>4. CASE r.associate = a /\ r.asset = asset
    <3>1. RowsOf(a, asset)' = RowsOf(a, asset) \cup {r}
      BY <1>1, <2>4 DEF RowsOf
    <3>2. \A e \in RowsOf(a, asset) \cup {r} : e.amount \in Nat
      BY <1>1 DEF RowsOf, TypeOK, Earning
    <3>3. /\ Total(RowsOf(a, asset)) \in Nat /\ Total(RowsOf(a, asset) \cup {r}) \in Nat
          /\ Total(RowsOf(a, asset)) <= Total(RowsOf(a, asset) \cup {r})
      BY <1>2, <3>2, RowsCount, TotalAdds
    <3> QED BY <2>1, <2>2, <2>3, <3>1, <3>3
  <2>5. CASE ~(r.associate = a /\ r.asset = asset)
    <3>1. RowsOf(a, asset)' = RowsOf(a, asset)
      BY <1>1, <2>5 DEF RowsOf
    <3> QED BY <2>1, <2>3, <3>1
  <2> QED BY <2>4, <2>5
<1> QED BY <1>3, <1>4 DEF PaidSound, PaidWithinEarned, RowsOf

\* A payout is within the balance that is left.
LEMMA PayoutFits ==
    ASSUME TypeOK, PaidSound, NEW b \in Associates, NEW x \in Assets, NEW cents \in 1..MaxPaid,
           MarkPaid(b, x, cents)
    PROVE  PaidSound'
<1>1. ledger' = ledger /\ paid' = [paid EXCEPT ![b][x] = @ + cents]
  BY DEF MarkPaid
<1>2. ASSUME NEW a \in Associates, NEW asset \in Assets
      PROVE  ToAtomic(paid'[a][asset]) <= Total(RowsOf(a, asset))
  <2>1. CASE a = b /\ asset = x
    <3> DEFINE n == paid[b][x]
    <3>1. paid'[a][asset] = n + cents /\ n \in Nat /\ cents \in Nat
      BY <1>1, <2>1, AmountsAssumption DEF TypeOK
    <3>2. Total(RowsOf(b, x)) \in Nat
      BY RowsCount DEF PaidSound
    <3>3. ToAtomic(cents) <= Total(RowsOf(b, x)) - ToAtomic(n)
      BY DEF MarkPaid, Balance, EarnedBy, RowsOf
    <3> HIDE DEF n
    <3>4. /\ ToAtomic(n) \in Nat /\ ToAtomic(cents) \in Nat
          /\ ToAtomic(n + cents) = ToAtomic(n) + ToAtomic(cents)
      BY <3>1, ScalesAssumption, ProductIsNat DEF ToAtomic
    <3> QED BY <2>1, <3>1, <3>2, <3>3, <3>4
  <2>2. CASE ~(a = b /\ asset = x)
    <3>1. paid'[a][asset] = paid[a][asset]
      BY <1>1, <2>2 DEF TypeOK
    <3> QED BY <3>1 DEF PaidSound, PaidWithinEarned, RowsOf
  <2> QED BY <2>1, <2>2
<1> QED BY <1>1, <1>2 DEF PaidSound, PaidWithinEarned, RowsOf

\* Payouts alone change what is paid.
LEMMA OnlyPayouts ==
    ASSUME TypeOK, [Next]_vars,
           \A a \in Associates, asset \in Assets, cents \in 1..MaxPaid : ~MarkPaid(a, asset, cents)
    PROVE  paid' = paid
<1>1. CASE MarketStep
  BY <1>1 DEF MarketStep, PublishRate, SetCommission, Restart, money
<1>2. ASSUME NEW v \in Verifies, ChainStep(v) PROVE paid' = paid
  BY <1>2 DEF ChainStep, Ask, Quote, AdmitPaid, AdmitOnCredit, AdmitFree, Drop, Expire, Answer,
             money
<1> QED BY <1>1, <1>2 DEF Next, vars, money

LEMMA PaidSoundStep == TypeOK /\ TypeOK' /\ PaidSound /\ [Next]_vars => PaidSound'
<1> SUFFICES ASSUME TypeOK, TypeOK', PaidSound, [Next]_vars PROVE PaidSound'
  OBVIOUS
<1>1. CASE \E v \in Verifies, a \in Associates : Answer(v, a)
  BY <1>1, AnswerAdds
<1>2. CASE \E a \in Associates, asset \in Assets, cents \in 1..MaxPaid : MarkPaid(a, asset, cents)
  BY <1>2, PayoutFits
<1>3. CASE /\ ~ \E v \in Verifies, a \in Associates : Answer(v, a)
           /\ ~ \E a \in Associates, asset \in Assets, cents \in 1..MaxPaid :
                    MarkPaid(a, asset, cents)
  <2>1. ledger' = ledger /\ paid' = paid
    BY <1>3, OnlyAnswers, OnlyPayouts
  <2> QED BY <2>1 DEF PaidSound, PaidWithinEarned
<1> QED BY <1>1, <1>2, <1>3

(***************************************************************************)
(* Theorems.                                                               *)
(***************************************************************************)

LEMMA InitInv == Init => IndInv
<1> SUFFICES ASSUME Init PROVE IndInv
  OBVIOUS
<1>1. TypeOK
  BY InitType
<1>2. QuotesSound /\ PricesSound /\ EarningsSound
  BY DEF Init, QuotesSound, PricesSound, EarningsSound
<1>3. CreditsSound
  BY DistinctAssumption DEF Init, CreditsSound
<1> QED BY <1>1, <1>2, <1>3 DEF IndInv

LEMMA NextInv == IndInv /\ [Next]_vars => IndInv'
BY NextType, QuotesSoundStep, PricesSoundStep, EarningsSoundStep, CreditsSoundStep DEF IndInv

\* The inductive invariant: terms are worth their basis, answers cost what was
\* bound, shares are of what they cost, credits stand for paid entries.
THEOREM InvCorrect == Spec => []IndInv
BY InitInv, NextInv, PTL DEF Spec

\* Type correctness.
THEOREM TypeCorrect == Spec => []TypeOK
<1>1. IndInv => TypeOK
  BY DEF IndInv
<1> QED BY <1>1, InvCorrect, PTL

\* At any rate, in any asset: a cheaper window is not made the dearer one by
\* the conversion, and no price becomes nothing (convert, pricing.py:194-196).
THEOREM WindowsOrdered == Spec => []WindowsAreOrdered
<1>1. IndInv => WindowsAreOrdered
  BY DEF IndInv, QuotesSound, TermsSound, WindowsAreOrdered
<1> QED BY <1>1, InvCorrect, PTL

\* For all prices, commissions and rates, whatever changes in between: an SLA
\* answer earns its commission to the last atomic unit, and no answer earns
\* more than it costs unless the commission is above the basis price
\* (v3_earning, settlement.py:46-49).
THEOREM SharesFair == Spec => []ShareIsFair
<1>1. ASSUME IndInv, NEW e \in ledger, source[e.verify] # "free"
      PROVE  LET t == bound[e.verify]
                 r == IF t.asset = "EURC" THEN RateScale ELSE t.rate
             IN /\ window[e.verify] = "sla" =>
                      (e.amount + 1) * RateScale > ToAtomic(t.commission * r)
                /\ t.commission <= t.basis => e.amount <= unlock[e.verify]
  <2> DEFINE v == e.verify
             t == bound[v]
             r == RateOf(t)
  <2>1. v \in Verifies /\ state[v] = "answered"
    BY <1>1 DEF IndInv, EarningsSound, TypeOK, Earning
  <2>2. t \in Terms
    BY <1>1, <2>1, DistinctAssumption DEF IndInv, TypeOK
  <2>3. TermsSound(t)
    BY <1>1, <2>1, <2>2, DistinctAssumption DEF IndInv, QuotesSound
  <2>4. e.amount = Share(unlock[v], t.commission, t.basis)
    BY <1>1 DEF IndInv, EarningsSound
  <2>5. unlock[v] \in Nat
    BY <1>1, <2>1 DEF IndInv, TypeOK
  <2>6. t.asset \in Assets /\ t.commission \in Nat /\ t.basis \in Nat \ {0}
    BY <2>2, <2>3 DEF Terms, TermsSound
  <2>7. r \in Nat
    BY <2>3, <2>6, AmountsAssumption, ScalesAssumption DEF RateOf, TermsSound, Assets
  <2>8. window[v] = "sla" => ToAtomic(t.basis * r) <= unlock[v] * RateScale
    BY <1>1, <2>1, <2>3 DEF IndInv, PricesSound, TermsSound
  <2> HIDE DEF v, t, r
  <2>9. window[v] = "sla" => ToAtomic(t.commission * r) < (e.amount + 1) * RateScale
    BY <2>4, <2>5, <2>6, <2>7, <2>8, ShareCovers
  <2>10. t.commission <= t.basis => e.amount <= unlock[v]
    BY <2>4, <2>5, <2>6, ShareAtMost
  <2>11. (e.amount + 1) * RateScale \in Nat /\ ToAtomic(t.commission * r) \in Nat
    BY <2>4, <2>5, <2>6, <2>7, ProductIsNat, QuotientBounds, ScalesAssumption DEF Share, ToAtomic
  <2> QED BY <2>9, <2>10, <2>11 DEF v, t, r, RateOf
<1>2. IndInv => ShareIsFair
  BY <1>1 DEF ShareIsFair
<1> QED BY <1>2, InvCorrect, PTL

\* What a chain is bound to, what it costs and what it earned are never
\* changed by rates, commissions and configurations (bind_terms,
\* pricing.py:316-348; record_answer, windows.py:26-65).
THEOREM BoundLasts == Spec => BoundForLife
<1> DEFINE Kept ==
      /\ ledger \subseteq ledger'
      /\ \A v \in Verifies : state[v] \in {"pending", "answered", "expired"} =>
            /\ bound'[v] = bound[v]
            /\ state[v] # "pending" => unlock'[v] = unlock[v] /\ window'[v] = window[v]
            /\ unlock'[v] # unlock[v] => unlock'[v] \in {bound[v].sla, bound[v].grace}
<1>1. ASSUME IndInv, [Next]_vars PROVE [Kept]_vars
  <2>1. CASE \A v \in Verifies, a \in Associates : ~Answer(v, a)
    <3>1. ledger' = ledger
      BY <1>1, <2>1, OnlyAnswers DEF IndInv
    <3>2. unlock' = unlock
      BY <1>1, <2>1 DEF vars, market, chain, money, Next, ChainStep, MarketStep, PublishRate,
         SetCommission, Restart, Ask, Quote, AdmitPaid, AdmitOnCredit, AdmitFree, Drop, Expire, MarkPaid
    <3> QED BY <1>1, <3>1, <3>2, ChainsKept DEF IndInv
  <2>2. ASSUME NEW v \in Verifies, NEW a \in Associates, Answer(v, a) PROVE Kept
    <3>1. ledger \subseteq ledger'
      BY <2>2 DEF Answer, Earn
    <3>2. \A u \in Verifies : unlock'[u] # unlock[u] => u = v /\ source[v] # "free"
      BY <1>1, <2>2 DEF Answer, IndInv, TypeOK
    <3>3. source[v] # "free" => unlock'[v] \in {bound[v].sla, bound[v].grace}
      BY <1>1, <2>2, AnswerDecides DEF IndInv
    <3> QED BY <1>1, <3>1, <3>2, <3>3, ChainsKept DEF IndInv
  <2> QED BY <2>1, <2>2
<1> QED BY <1>1, InvCorrect, PTL DEF Spec, BoundForLife

\* A chain on a credit is bound to the asset its entry was paid in, or that
\* asset is not offered, however often the credit comes back (_credit_asset,
\* server.py:130-142).
THEOREM CreditsKeepAssets == Spec => CreditKeepsAsset
<1> DEFINE Kept ==
      \A v, c \in Verifies : source[v] = "none" /\ source'[v] = c =>
          /\ source[c] = "x402" /\ state[c] = "expired"
          /\ \/ bound'[v].asset = bound[c].asset
             \/ \A t \in quote[v] : t.asset # bound[c].asset
<1>1. ASSUME IndInv, [Next]_vars PROVE [Kept]_vars
  <2> SUFFICES ASSUME NEW v \in Verifies, NEW c \in Verifies,
                      source[v] = "none", source'[v] = c
               PROVE  /\ source[c] = "x402" /\ state[c] = "expired"
                      /\ \/ bound'[v].asset = bound[c].asset
                         \/ \A t \in quote[v] : t.asset # bound[c].asset
    OBVIOUS
  <2>1. source' # source /\ c \notin {"none", "x402", "free"}
    BY DistinctAssumption
  <2>2. PICK u \in Verifies : AdmitPaid(u) \/ AdmitOnCredit(u) \/ AdmitFree(u)
    BY <1>1, <2>1 DEF vars, market, chain, money, Next, ChainStep, MarketStep, PublishRate,
       SetCommission, Restart, Ask, Quote, Drop, Expire, Answer, MarkPaid
  <2>3. AdmitOnCredit(u) /\ u = v
    BY <1>1, <2>1, <2>2 DEF AdmitPaid, AdmitOnCredit, AdmitFree, Bind, IndInv, TypeOK
  <2>4. PICK d \in credits : \E t \in CreditTerms(quote[v], bound[d].asset) : Bind(v, d, t)
    BY <2>3 DEF AdmitOnCredit
  <2>5. PICK t \in CreditTerms(quote[v], bound[d].asset) : Bind(v, d, t)
    BY <2>4
  <2>6. d = c /\ bound'[v] = t
    BY <1>1, <2>5 DEF Bind, IndInv, TypeOK
  <2>7. t.asset = bound[c].asset \/ \A s \in quote[v] : s.asset # bound[c].asset
    BY <2>5, <2>6, CreditTermsOffered
  <2>8. source[c] = "x402" /\ state[c] = "expired"
    BY <1>1, <2>4, <2>6 DEF IndInv, CreditsSound
  <2> QED BY <2>6, <2>7, <2>8
<1> QED BY <1>1, InvCorrect, PTL DEF Spec, CreditKeepsAsset

\* However many answers are given and payouts marked, in whichever order: no
\* associate is paid more in an asset than was earned in it (mark_paid,
\* bot/payments.py:72-81).
THEOREM PaidWithin == Spec => []PaidWithinEarned
<1>1. Init => PaidSound
  <2> SUFFICES ASSUME Init PROVE PaidSound
    OBVIOUS
  <2>1. IsFiniteSet({}) /\ Total({}) = 0
    BY FS_EmptySet, TotalUnfolds
  <2>2. \A a \in Associates, asset \in Assets :
           /\ {e \in ledger : e.associate = a /\ e.asset = asset} = {}
           /\ ToAtomic(paid[a][asset]) = 0
    BY ScalesAssumption DEF Init, ToAtomic
  <2> QED BY <2>1, <2>2 DEF Init, PaidSound, PaidWithinEarned
<1>2. IndInv /\ IndInv' /\ PaidSound /\ [Next]_vars => PaidSound'
  BY PaidSoundStep DEF IndInv
<1>3. PaidSound => PaidWithinEarned
  BY DEF PaidSound
<1> QED BY <1>1, <1>2, <1>3, InvCorrect, PTL DEF Spec

\* An admission, an answer and an expiry are steps of Outcomes; quotes, terms
\* and payouts are none.
LEMMA StepPromises ==
  ASSUME IndInv, [Next]_vars
  PROVE  [Promise!Next]_(Promise!outcomes)
<1> USE DEF IndInv
<1>1. ASSUME [v \in Verifies |-> PlaceOf(v)]' = [v \in Verifies |-> PlaceOf(v)], ledger' = ledger
      PROVE  UNCHANGED Promise!outcomes
  BY <1>1 DEF Promise!outcomes
<1>2. ASSUME NEW v \in Verifies, NEW s, Goto(v, s),
             s \in {"asking", "quoted", "admitting", "new"},
             state[v] \in {"asking", "quoted", "admitting", "new"}
      PROVE  [u \in Verifies |-> PlaceOf(u)]' = [u \in Verifies |-> PlaceOf(u)]
  BY <1>2 DEF Goto, PlaceOf, TypeOK
<1>3. ASSUME NEW v \in Verifies, Ask(v) \/ Quote(v) \/ Drop(v)
      PROVE  UNCHANGED Promise!outcomes
  <2>1. ledger' = ledger
    BY <1>3 DEF Ask, Quote, Drop, money
  <2>2. \E s \in {"asking", "quoted", "admitting", "new"} : Goto(v, s)
    BY <1>3 DEF Ask, Quote, Drop
  <2>3. state[v] \in {"asking", "quoted", "admitting", "new"}
    BY <1>3 DEF Ask, Quote, Drop
  <2> QED BY <1>1, <1>2, <2>1, <2>2, <2>3
<1>4. ASSUME NEW v \in Verifies, AdmitPaid(v) \/ AdmitOnCredit(v) \/ AdmitFree(v)
      PROVE  Promise!Next
  <2>1. state[v] \in {"new", "quoted", "admitting"} /\ Goto(v, "pending") /\ ledger' = ledger
    BY <1>4 DEF AdmitPaid, AdmitOnCredit, AdmitFree, Bind, money
  <2>2. Promise!Enter(v)
    BY <2>1 DEF Goto, PlaceOf, TypeOK, Promise!Enter, Promise!Move
  <2> QED BY <2>2 DEF Promise!Next
<1>5. ASSUME NEW v \in Verifies, Expire(v) PROVE Promise!Next
  <2>1. Promise!Expire(v)
    BY <1>5 DEF Expire, Goto, PlaceOf, TypeOK, money, Promise!Expire, Promise!Move
  <2> QED BY <2>1 DEF Promise!Next
<1>6. ASSUME NEW v \in Verifies, NEW a \in Associates, Answer(v, a) PROVE Promise!Next
  <2>1. PICK row : row.verify = v /\ row.associate = a /\ ledger' = ledger \cup {row}
    BY <1>6 DEF Answer, Earn
  <2>2. {<<e.verify, e.associate>> : e \in ledger}'
          = {<<e.verify, e.associate>> : e \in ledger} \cup {<<v, a>>}
    BY <2>1
  <2>3. state[v] = "pending" /\ Goto(v, "answered")
    BY <1>6 DEF Answer
  <2>4. Promise!Answer(v, a)
    BY <2>2, <2>3 DEF Goto, PlaceOf, TypeOK, Promise!Answer, Promise!Move
  <2> QED BY <2>4 DEF Promise!Next
<1>7. CASE MarketStep
  <2>1. ledger' = ledger
    BY <1>7 DEF MarketStep, PublishRate, SetCommission, Restart, money
  <2>2. CASE state' = state
    BY <1>1, <2>1, <2>2 DEF PlaceOf
  <2>3. ASSUME NEW cfg \in Configs, Restart(cfg) PROVE UNCHANGED Promise!outcomes
    <3>1. [v \in Verifies |-> PlaceOf(v)]' = [v \in Verifies |-> PlaceOf(v)]
      BY <2>3 DEF Restart, PlaceOf, TypeOK
    <3> QED BY <1>1, <2>1, <3>1
  <2>4. CASE ~\E cfg \in Configs : Restart(cfg)
    BY <1>7, <2>2, <2>4 DEF MarketStep, PublishRate, SetCommission, chain
  <2> QED BY <2>3, <2>4
<1>8. CASE \/ UNCHANGED vars
           \/ \E a \in Associates, asset \in Assets, cents \in 1..MaxPaid : MarkPaid(a, asset, cents)
  <2>1. UNCHANGED <<state, ledger>>
    BY <1>8 DEF MarkPaid, vars, chain, money
  <2> QED BY <1>1, <2>1 DEF PlaceOf
<1> QED BY <1>3, <1>4, <1>5, <1>6, <1>7, <1>8 DEF Next, ChainStep

(***************************************************************************)
(* Who earns does not depend on what is earned: the second of the two      *)
(* refinements of Outcomes.                                                *)
(***************************************************************************)
THEOREM AnswersEarn == Spec => AnswersEarnOnce
<1>1. Init => Promise!Init
  BY DEF Init, PlaceOf, Promise!Init
<1> QED BY <1>1, StepPromises, InvCorrect, PTL DEF Spec, AnswersEarnOnce, Promise!Spec
=============================================================================
