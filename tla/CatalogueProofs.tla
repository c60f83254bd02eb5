----------------------------- MODULE CatalogueProofs -----------------------------
(***************************************************************************)
(* Proofs about Catalogue: what the entry, the samples and the verdicts of *)
(* the probes say is true of the hours they speak of (IInv), so what is    *)
(* resolved from them is the price that is charged.                        *)
(***************************************************************************)
EXTENDS Catalogue, NaturalsInduction, WellFoundedInduction, TLAPS

(* The inductive invariant.  H is the vendor's rule of every hour up to now. *)

\* The vendor's rules are numbered in their order, and a rule that came later came
\* before its promotion was over.
HistoryInv(H, now) ==
    \A h, k \in 1..now :
        /\ h <= k => H[h].version <= H[k].version
        /\ H[h].version = H[k].version => H[h].rule = H[k].rule
        /\ (h <= k /\ ~NoneOver(H[k].rule, h)) => H[h].version = H[k].version

\* What a call cost in an hour.
Charge(H, h) == Real(H[h].rule, h)

\* An entry of the interface is what it says of a rule in the hour it is read.
Parsed(e, r) ==
    LET p == hit(r, e.readAt)
        on == promoActive(p, e.readAt)
    IN  /\ e.credits = r.credits /\ e.factor = p.factor
        /\ e.from = p.from /\ e.until = p.until
        /\ e.base = Times(r.credits, 1)
        /\ e.multiplier = Times(r.credits, IF on THEN p.factor ELSE 1)
        /\ e.has = (r.credits # NoPrice \/ (on /\ p.factor = 0))
        /\ e.expired = (p.factor # NoPrice /\ ~on)

\* From the hour the price of an entry last changed until its rule is replaced, calls
\* are charged what it says, in every hour it can tell of.
HoldsSinceChange(e, H, now) ==
    LET rate == catalogRateAt(e, now) IN
    (~e.missed /\ rate.known) =>
        \A h \in 1..now :
            (rate.changed <= h /\ H[h].version <= e.version /\ Tells(e, H[h].rule, h))
            => Charge(H, h) = rate.value

EntryInv(e, H, now) ==
    /\ e.checkedAt = e.readAt
    /\ e.source # "none" => e.checkedAt > 0
    /\ e.source = "live" =>
        /\ e.readAt \in 1..now /\ e.version = H[e.readAt].version
        /\ Parsed(e, H[e.readAt].rule)
        /\ HoldsSinceChange(e, H, now)
    /\ e.changedAt <= now

\* A class that was observed is the class of the price of its hour.
SampleInv(class, at, H, now) ==
    class # "unknown" => at \in 1..now /\ class = Class(Charge(H, at))

\* A verdict is the class of the price of an hour since the probe was sent.
VerdictInv(p, H, now) ==
    p.verdict # "none" =>
        /\ p.verdictAt > 0
        /\ \E h \in p.verdictAt..now : p.verdict = Class(Charge(H, h))

SourcesInv(e, p, u, H, now) ==
    /\ EntryInv(e, H, now)
    /\ VerdictInv(p, H, now)
    /\ SampleInv(u.class, u.learnt, H, now)

FileInv(F, H, now) ==
    F # NoFile => /\ SourcesInv(F.entry, F.probe, F.usage, H, now)
                  /\ ~F.entry.cached

TasksInv ==
    /\ SampleInv(ledger.class, ledger.learnt, history, clock)
    /\ \A c \in Callers : SampleInv(caller[c].class, caller[c].at, history, clock)
    /\ probing.step = "sent" => probing.now \in 1..clock

\* When what is shown must be right.
ShownCondition ==
    /\ up /\ entry.source = "live" /\ entry.version = version /\ ~entry.missed
    /\ Settled(entry, clock)
    /\ \A h \in 1..clock : h >= catalogRateAt(entry, clock).changed
                            => Tells(entry, history[h].rule, h)
    /\ RestoredAtItsTime

IInv ==
    /\ TypeOK
    /\ history[clock] = [rule |-> rule, version |-> version]
    /\ HistoryInv(history, clock)
    /\ SourcesInv(entry, probe, usage, history, clock)
    /\ FileInv(file, history, clock)
    /\ TasksInv

-----------------------------------------------------------------------------
(* The rules and the entries. *)

\* The times of a rule and of an entry are numbers; so are the prices that are given.
LEMMA RuleFields ==
    ASSUME NEW r \in Rules
    PROVE  /\ r.real \in Nat /\ r.listed \in BOOLEAN /\ r.credits \in Prices
           /\ r.promotions \in Seq(Promotions)
           /\ \A i \in DOMAIN r.promotions :
                /\ r.promotions[i].factor \in Nat /\ r.promotions[i].from \in Nat
                /\ r.promotions[i].until \in Nat /\ r.promotions[i].factor # NoPrice
  <1>1. /\ r.real \in Nat /\ r.listed \in BOOLEAN /\ r.credits \in Prices
        /\ r.promotions \in Seq(Promotions)
    BY RuleAssumption
  <1>2. \A i \in DOMAIN r.promotions : r.promotions[i] \in Promotions
    BY <1>1
  <1>3. QED
    BY <1>1, <1>2, PriceAssumption DEF Promotions

\* A set of naturals that is not empty has a least one: induction, without an operator.
LEMMA LeastOf ==
    ASSUME NEW S, S \subseteq Nat, S # {}
    PROVE  Min(S) \in S /\ \A y \in S : Min(S) <= y
  <1>1. PICK x \in S : \A y \in S : <<y, x>> \notin OpToRel(<, Nat)
    BY NatLessThanWellFounded, WFMin
  <1>2. \A y \in S : ~(y < x)
    BY <1>1 DEF OpToRel
  <1>3. \A y \in S : x <= y
    BY <1>2
  <1>4. QED
    BY <1>1, <1>3 DEF Min

\* The lowest of the promotions in force is one of them.
LEMMA LowestInForce ==
    ASSUME NEW r \in Rules, NEW now \in Nat, InForce(r, now) # {}
    PROVE  /\ Lowest(r, now) \in Nat
           /\ \E i \in InForce(r, now) : r.promotions[i].factor = Lowest(r, now)
  <1> DEFINE S == {r.promotions[i].factor : i \in InForce(r, now)}
  <1>1. S \subseteq Nat /\ S # {}
    BY RuleFields DEF InForce
  <1>2. Min(S) \in S
    BY <1>1, LeastOf
  <1>3. Lowest(r, now) = Min(S)
    BY DEF Lowest
  <1>4. QED
    BY <1>1, <1>2, <1>3

\* The promotion an entry keeps: none of none, one of those listed, and while some are
\* in force the lowest of these.
LEMMA HitFacts ==
    ASSUME NEW r \in Rules, NEW now \in Nat
    PROVE  /\ r.promotions = <<>> => hit(r, now) = NoPromotion
           /\ r.promotions # <<>> =>
                \E i \in DOMAIN r.promotions : hit(r, now) = r.promotions[i]
           /\ InForce(r, now) # {} =>
                promoActive(hit(r, now), now) /\ hit(r, now).factor = Lowest(r, now)
  <1> DEFINE lowest == {i \in InForce(r, now) : r.promotions[i].factor = Lowest(r, now)}
  <1>1. hit(r, now) = CASE r.promotions = <<>> -> NoPromotion
                        [] r.promotions # <<>> /\ lowest = {} -> Head(r.promotions)
                        [] OTHER -> r.promotions[Min(lowest)]
    BY DEF hit
  <1>2. InForce(r, now) # {} => lowest # {}
    BY LowestInForce
  <1>3. lowest # {} => Min(lowest) \in lowest
    <2>1. lowest \subseteq Nat
      BY RuleFields DEF InForce
    <2>2. QED
      BY <2>1, LeastOf
  <1>4. lowest \subseteq InForce(r, now) /\ InForce(r, now) \subseteq DOMAIN r.promotions
    BY DEF InForce
  <1>5. r.promotions = <<>> => InForce(r, now) = {}
    BY DEF InForce
  <1>6. \A i \in lowest : /\ promoActive(r.promotions[i], now)
                          /\ r.promotions[i].factor = Lowest(r, now)
    BY DEF InForce
  <1> HIDE DEF lowest
  <1>7. CASE r.promotions = <<>>
    BY <1>1, <1>5, <1>7
  <1>8. CASE r.promotions # <<>> /\ lowest = {}
    <2>1. hit(r, now) = r.promotions[1] /\ 1 \in DOMAIN r.promotions
      BY <1>1, <1>8, RuleFields
    <2>2. QED
      BY <1>2, <1>8, <2>1
  <1>9. CASE r.promotions # <<>> /\ lowest # {}
    <2>1. hit(r, now) = r.promotions[Min(lowest)] /\ Min(lowest) \in lowest
      BY <1>1, <1>3, <1>9
    <2>2. QED
      BY <1>4, <1>6, <1>9, <2>1
  <1>10. QED
    BY <1>7, <1>8, <1>9

LEMMA HitFields ==
    ASSUME NEW r \in Rules, NEW now \in Nat
    PROVE  LET p == hit(r, now) IN
           /\ p.from \in Nat /\ p.until \in Nat /\ p.factor \in Prices
           /\ p.factor = NoPrice => r.promotions = <<>> /\ p.from = 0 /\ p.until = 0
           /\ p.factor # NoPrice => p.factor \in Nat
           /\ r.promotions = <<>> => p.factor = NoPrice
           /\ \A h : promoActive(p, h) => InForce(r, h) # {}
  <1> DEFINE p == hit(r, now)
  <1>1. CASE r.promotions = <<>>
    <2>1. p = NoPromotion
      BY <1>1, HitFacts
    <2>2. p.factor = NoPrice /\ p.from = 0 /\ p.until = 0
      BY <2>1 DEF NoPromotion
    <2>3. QED
      BY <1>1, <2>2 DEF promoActive, Prices
  <1>2. CASE r.promotions # <<>>
    <2>1. PICK i \in DOMAIN r.promotions : p = r.promotions[i]
      BY <1>2, HitFacts
    <2>2. \A h : promoActive(p, h) => i \in InForce(r, h)
      BY <2>1 DEF InForce
    <2>3. QED
      BY <1>2, <2>1, <2>2, RuleFields DEF Prices
  <1>3. QED
    BY <1>1, <1>2

LEMMA TimesIsNat ==
    ASSUME NEW c \in Prices, NEW f \in Nat
    PROVE  Times(c, f) \in Nat
  <1>1. ASSUME NEW x \in Nat PROVE x * f \in Nat
    BY <1>1
  <1>2. QED
    BY <1>1 DEF Times, Prices

LEMMA RealIsNat ==
    ASSUME NEW r \in Rules, NEW now \in Nat
    PROVE  Real(r, now) \in Nat
  <1>1. CASE InForce(r, now) # {}
    <2> DEFINE price == IF r.credits = NoPrice THEN r.real ELSE r.credits
    <2>1. price \in Prices /\ Lowest(r, now) \in Nat
      BY <1>1, RuleFields, LowestInForce DEF Prices
    <2>2. Times(price, Lowest(r, now)) \in Nat
      BY <2>1, TimesIsNat
    <2>3. QED
      BY <1>1, <2>2 DEF Real
  <1>2. CASE InForce(r, now) = {}
    BY <1>2, RuleFields DEF Real
  <1>3. QED
    BY <1>1, <1>2

\* The last change of an entry: the newest of the boundaries that have gone by and of
\* the time that was stamped.
LEMMA ChangedIsNewest ==
    ASSUME NEW e, e.from \in Nat, e.until \in Nat, e.changedAt \in Nat, NEW now \in Nat
    PROVE  LET past == {t \in {e.from, e.until} : t # 0 /\ now >= t} \cup {e.changedAt}
               c == catalogRateAt(e, now).changed
           IN  c \in past /\ \A t \in past : c >= t
  <1> DEFINE past == {t \in {e.from, e.until} : t # 0 /\ now >= t} \cup {e.changedAt}
  <1>1. catalogRateAt(e, now).changed = Max(past)
    BY DEF catalogRateAt
  <1>2. \E x \in past : \A t \in past : x >= t
    <2>1. past \subseteq {e.from, e.until, e.changedAt} /\ e.changedAt \in past
      OBVIOUS
    <2>2. CASE \A t \in past : e.changedAt >= t
      BY <2>1, <2>2
    <2>3. CASE e.from \in past /\ \A t \in past : e.from >= t
      BY <2>3
    <2>4. CASE e.until \in past /\ \A t \in past : e.until >= t
      BY <2>4
    <2>5. QED
      BY <2>1, <2>2, <2>3, <2>4
  <1>3. Max(past) \in past /\ \A t \in past : Max(past) >= t
    BY <1>2 DEF Max
  <1>4. QED
    BY <1>1, <1>3

\* What a reader of the last change uses of it.
LEMMA ChangedFacts ==
    ASSUME NEW e \in Entries, NEW now \in Nat
    PROVE  /\ catalogRateAt(e, now).changed \in Nat
           /\ catalogRateAt(e, now).changed >= e.changedAt
           /\ e.from # 0 /\ now >= e.from => catalogRateAt(e, now).changed >= e.from
           /\ e.until # 0 /\ now >= e.until => catalogRateAt(e, now).changed >= e.until
  <1>1. e.from \in Nat /\ e.until \in Nat /\ e.changedAt \in Nat
    BY DEF Entries
  <1>2. QED
    BY <1>1, ChangedIsNewest

\* Time only adds boundaries.
LEMMA ChangedGrows ==
    ASSUME NEW e \in Entries, NEW now \in Nat, NEW later \in Nat, now <= later
    PROVE  catalogRateAt(e, now).changed <= catalogRateAt(e, later).changed
  <1>1. e.from \in Nat /\ e.until \in Nat /\ e.changedAt \in Nat
    BY DEF Entries
  <1> DEFINE past(n) == {t \in {e.from, e.until} : t # 0 /\ n >= t} \cup {e.changedAt}
  <1>2. past(now) \subseteq past(later)
    BY <1>1
  <1>3. catalogRateAt(e, now).changed \in past(now)
    BY <1>1, ChangedIsNewest
  <1>4. \A t \in past(later) : catalogRateAt(e, later).changed >= t
    BY <1>1, ChangedIsNewest
  <1>5. catalogRateAt(e, later).changed \in Nat /\ catalogRateAt(e, now).changed \in Nat
    BY ChangedFacts
  <1>6. QED
    BY <1>2, <1>3, <1>4, <1>5

\* Between the last change of an entry and now no boundary of its promotion lies, so
\* it says the same of every hour between.
LEMMA NoBoundarySince ==
    ASSUME NEW e \in Entries,
           NEW now \in Nat, NEW h \in Nat, h <= now, catalogRateAt(e, now).changed <= h
    PROVE  /\ promoActive(e, h) <=> promoActive(e, now)
           /\ catalogRateAt(e, h).known = catalogRateAt(e, now).known
           /\ catalogRateAt(e, h).value = catalogRateAt(e, now).value
  <1>1. e.from \in Nat /\ e.until \in Nat /\ e.expired \in BOOLEAN
    BY DEF Entries
  <1>2. /\ e.from # 0 /\ now >= e.from => h >= e.from
        /\ e.until # 0 /\ now >= e.until => h >= e.until
    BY <1>1, ChangedFacts
  <1>3. promoOutside(e, h) <=> promoOutside(e, now)
    BY <1>1, <1>2 DEF promoOutside
  <1>4. promoActive(e, h) <=> promoActive(e, now)
    BY <1>1, <1>2 DEF promoActive
  <1>5. /\ catalogRateAt(e, h).known = catalogRateAt(e, now).known
        /\ catalogRateAt(e, h).value = catalogRateAt(e, now).value
    <2>1. CASE promoOutside(e, h) /\ promoOutside(e, now)
      BY <2>1, Zenon DEF catalogRateAt
    <2>2. CASE ~promoOutside(e, h) /\ ~promoOutside(e, now)
      BY <2>2, Zenon DEF catalogRateAt
    <2>3. QED
      BY <1>3, <2>1, <2>2
  <1>6. QED
    BY <1>4, <1>5

\* A promotion is judged alike by the code and by the vendor.
LEMMA OutsideIsInactive ==
    ASSUME NEW e \in Entries, NEW r \in Rules, Parsed(e, r), NEW now \in Nat
    PROVE  IF e.factor = NoPrice THEN ~promoOutside(e, now)
                                 ELSE promoOutside(e, now) <=> ~promoActive(e, now)
  <1> DEFINE p == hit(r, e.readAt)
  <1>1. e.from = p.from /\ e.until = p.until /\ e.factor = p.factor
        /\ e.expired = (p.factor # NoPrice /\ ~promoActive(p, e.readAt))
    BY DEF Parsed
  <1>2. e.readAt \in Nat /\ e.from \in Nat /\ e.until \in Nat
    BY DEF Entries
  <1>3. p.factor = NoPrice => p.from = 0 /\ p.until = 0
    BY <1>2, HitFields
  <1> HIDE DEF p
  <1>4. CASE e.factor = NoPrice
    BY <1>1, <1>3, <1>4 DEF promoOutside
  <1>5. CASE e.factor # NoPrice
    <2>1. p.from = 0 /\ p.until = 0 => promoActive(p, e.readAt)
      BY <1>1, <1>2, <1>5 DEF promoActive
    <2>2. e.from = 0 /\ e.until = 0 => ~e.expired
      BY <1>1, <2>1
    <2>3. promoOutside(e, now) <=> \/ e.until # 0 /\ now >= e.until
                                   \/ e.from # 0 /\ now < e.from
      BY <2>2 DEF promoOutside
    <2>4. QED
      BY <1>2, <1>5, <2>3 DEF promoActive
  <1>6. QED
    BY <1>4, <1>5

\* What an entry says of the price of an hour its rule was in force in, and that it can
\* tell of, is what was charged.
LEMMA RateIsReal ==
    ASSUME NEW e \in Entries, NEW r \in Rules, Parsed(e, r), NEW h \in Nat,
           Tells(e, r, h), catalogRateAt(e, h).known
    PROVE  catalogRateAt(e, h).value = Real(r, h)
  <1> DEFINE p == hit(r, e.readAt)
             rate == catalogRateAt(e, h)
  <1>1. /\ e.readAt \in Nat /\ e.from \in Nat /\ e.until \in Nat
        /\ e.from = p.from /\ e.until = p.until /\ e.factor = p.factor
        /\ e.credits = r.credits /\ e.base = Times(r.credits, 1)
        /\ e.multiplier = Times(r.credits, IF promoActive(p, e.readAt) THEN p.factor ELSE 1)
        /\ e.has = (r.credits # NoPrice \/ (promoActive(p, e.readAt) /\ p.factor = 0))
    BY DEF Parsed, Entries
  <1>2. \A n : promoActive(e, n) <=> promoActive(p, n)
    BY <1>1 DEF promoActive
  <1>3. /\ InForce(r, e.readAt) # {} =>
                promoActive(p, e.readAt) /\ p.factor = Lowest(r, e.readAt)
        /\ promoActive(p, h) => InForce(r, h) # {}
        /\ p.factor = NoPrice => r.promotions = <<>>
        /\ p.factor # NoPrice => p.factor \in Nat
    BY <1>1, HitFacts, HitFields
  <1>4. /\ r.credits \in Prices /\ r.real \in Nat
        /\ \A c \in Nat : c # NoPrice /\ Times(c, 1) = c /\ Times(c, 0) = 0
    <2>1. \A c \in Nat : c # NoPrice /\ c * 1 = c /\ c * 0 = 0
      BY PriceAssumption
    <2>2. QED
      BY <2>1, RuleFields DEF Times
  <1> HIDE DEF p
  <1>5. CASE InForce(r, h) # {}
    <2>1. promoActive(e, h) /\ e.factor = Lowest(r, h)
      BY <1>1, <1>2, <1>3, <1>5 DEF Tells
    <2>2. e.factor # NoPrice /\ ~promoOutside(e, h) /\ e.factor \in Nat
      BY <1>1, <1>3, <2>1, OutsideIsInactive DEF promoActive
    <2>3. rate.value = Times(r.credits, e.factor) /\ (r.credits # NoPrice \/ e.factor = 0)
      <3>1. CASE {e.from, e.until} = {0}
        <4>1. promoActive(e, e.readAt)
          BY <1>1, <2>2, <3>1 DEF promoActive
        <4>2. rate.known = e.has /\ rate.value = e.multiplier
          BY <2>2, <3>1 DEF catalogRateAt
        <4>3. QED
          BY <1>1, <1>2, <4>1, <4>2
      <3>2. CASE {e.from, e.until} # {0}
        BY <1>1, <2>2, <3>2 DEF catalogRateAt
      <3>3. QED
        BY <3>1, <3>2
    <2>4. Real(r, h) = Times(IF r.credits = NoPrice THEN r.real ELSE r.credits, e.factor)
      BY <1>5, <2>1 DEF Real
    <2>5. CASE r.credits # NoPrice
      BY <2>3, <2>4, <2>5
    <2>6. CASE r.credits = NoPrice
      <3>1. rate.value = 0
        <4>1. rate.value = Times(NoPrice, 0)
          BY <2>3, <2>6
        <4>2. Times(NoPrice, 0) = 0
          BY DEF Times
        <4>3. QED
          BY <4>1, <4>2
      <3>2. Real(r, h) = 0
        BY <1>4, <2>3, <2>4, <2>6
      <3>3. QED
        BY <3>1, <3>2
    <2>7. QED
      BY <2>5, <2>6
  <1>6. CASE InForce(r, h) = {}
    <2>1. ~promoActive(e, h) /\ Real(r, h) = r.real
      BY <1>2, <1>3, <1>6 DEF Real
    <2>2. r.credits \in {r.real, NoPrice} \/ (r.credits = 0 /\ r.promotions # <<>>)
      BY <1>6 DEF Tells
    <2>3. CASE e.factor # NoPrice
      <3>1. promoOutside(e, h)
        BY <2>1, <2>3, OutsideIsInactive
      <3>2. rate.known = (e.base > 0) /\ rate.value = e.base
        BY <3>1 DEF catalogRateAt
      <3>3. Times(r.credits, 1) > 0 /\ rate.value = Times(r.credits, 1)
        BY <1>1, <3>2
      <3>4. r.credits # NoPrice
        BY <3>3 DEF Times
      <3>5. r.credits \in Nat /\ r.credits > 0 /\ rate.value = r.credits
        BY <1>4, <3>3, <3>4 DEF Prices
      <3>6. QED
        BY <2>1, <2>2, <3>4, <3>5
    <2>4. CASE e.factor = NoPrice
      <3>1. ~promoOutside(e, h) /\ r.promotions = <<>>
        BY <1>1, <1>3, <2>4, OutsideIsInactive
      <3>2. rate.known = e.has /\ rate.value = e.multiplier
        BY <2>4, <3>1 DEF catalogRateAt
      <3>3. ~promoActive(p, e.readAt)
        BY <1>1, <2>4 DEF promoActive
      <3>4. r.credits # NoPrice /\ rate.value = Times(r.credits, 1)
        BY <1>1, <3>2, <3>3
      <3>5. r.credits = r.real
        BY <2>2, <3>1, <3>4
      <3>6. QED
        BY <1>4, <2>1, <3>4, <3>5
    <2>5. QED
      BY <2>3, <2>4
  <1>7. QED
    BY <1>5, <1>6

\* Of two entries that are read alike one says what the other does.
LEMMA SameRateSameValue ==
    ASSUME NEW a \in Entries, NEW ra \in Rules, Parsed(a, ra),
           NEW b \in Entries, NEW rb \in Rules, Parsed(b, rb),
           sameCatalogRate(a, b), NEW now \in Nat, catalogRateAt(b, now).known
    PROVE  catalogRateAt(a, now).known
           /\ catalogRateAt(a, now).value = catalogRateAt(b, now).value
  <1>1. /\ a.has = b.has /\ a.multiplier = b.multiplier /\ a.base = b.base
        /\ a.from = b.from /\ a.until = b.until /\ a.factor = b.factor
        /\ {a.from, a.until} = {0} => a.expired = b.expired
    BY DEF sameCatalogRate
  <1>2. promoOutside(a, now) = promoOutside(b, now)
    BY <1>1 DEF promoOutside
  <1>3. CASE promoOutside(b, now)
    BY <1>1, <1>2, <1>3 DEF catalogRateAt
  <1>4. CASE ~promoOutside(b, now) /\ (b.factor = NoPrice \/ {b.from, b.until} = {0})
    BY <1>1, <1>2, <1>4 DEF catalogRateAt
  <1>5. CASE ~promoOutside(b, now) /\ ~(b.factor = NoPrice \/ {b.from, b.until} = {0})
    <2>1. /\ catalogRateAt(a, now).known = (a.credits # NoPrice \/ a.factor = 0)
          /\ catalogRateAt(b, now).known = (b.credits # NoPrice \/ b.factor = 0)
      BY <1>1, <1>2, <1>5 DEF catalogRateAt
    <2>2. /\ a.credits # NoPrice \/ a.factor = 0
                => catalogRateAt(a, now).value = Times(a.credits, a.factor)
          /\ b.credits # NoPrice \/ b.factor = 0
                => catalogRateAt(b, now).value = Times(b.credits, b.factor)
      BY <1>1, <1>2, <1>5 DEF catalogRateAt
    <2>3. b.factor # 0 => (a.credits # NoPrice <=> b.credits # NoPrice)
      BY <1>1 DEF Parsed
    <2>4. (IF a.credits = NoPrice THEN 0 ELSE a.credits)
              = (IF b.credits = NoPrice THEN 0 ELSE b.credits)
      <3>1. Times(a.credits, 1) = Times(b.credits, 1)
        BY <1>1 DEF Parsed
      <3>2. \A c \in Nat : c * 1 = c
        OBVIOUS
      <3>3. QED
        BY <3>1, <3>2 DEF Times, Prices, Entries
    <2>5. Times(a.credits, a.factor) = Times(b.credits, b.factor)
      BY <1>1, <2>4 DEF Times
    <2>6. QED
      BY <1>1, <2>1, <2>2, <2>3, <2>5
  <1>6. QED
    BY <1>3, <1>4, <1>5

-----------------------------------------------------------------------------
(* An hour goes by: what was said of the hours so far stays true. *)

Histories(now) == [1..now -> [rule: Rules, version: Nat]]

LEMMA HistoryFields ==
    ASSUME NEW now \in Nat, NEW H \in Histories(now), NEW h \in 1..now
    PROVE  H[h].rule \in Rules /\ H[h].version \in Nat
    BY DEF Histories

LEMMA ChargeIsNat ==
    ASSUME NEW now \in Nat, NEW H \in Histories(now), NEW h \in 1..now
    PROVE  Charge(H, h) \in Nat
    BY HistoryFields, RealIsNat DEF Charge

\* The next hour has the rule of the last one, or a new rule that is not over.
Follows(H, now, G) ==
    /\ \A h \in 1..now : G[h] = H[h]
    /\ \/ G[now + 1] = H[now]
       \/ /\ G[now + 1].version = H[now].version + 1
          /\ NoneOver(G[now + 1].rule, now + 1)

\* What was over stays over.
LEMMA NoneOverBefore ==
    ASSUME NEW r \in Rules, NEW h \in Nat, NEW k \in Nat, h <= k, NoneOver(r, k)
    PROVE  NoneOver(r, h)
  BY RuleFields DEF NoneOver

LEMMA HistoryGoesOn ==
    ASSUME NEW now \in Nat \ {0}, NEW H \in Histories(now), NEW G \in Histories(now + 1),
           HistoryInv(H, now), Follows(H, now, G)
    PROVE  HistoryInv(G, now + 1)
  <1> SUFFICES ASSUME NEW h \in 1..now + 1, NEW k \in 1..now + 1
               PROVE  /\ h <= k => G[h].version <= G[k].version
                      /\ G[h].version = G[k].version => G[h].rule = G[k].rule
                      /\ (h <= k /\ ~NoneOver(G[k].rule, h)) => G[h].version = G[k].version
    BY DEF HistoryInv
  <1>1. \A i \in 1..now : /\ G[i] = H[i]
                          /\ H[i].version \in Nat /\ H[i].version <= H[now].version
    <2>1. \A i \in 1..now : H[i].version <= H[now].version
      BY DEF HistoryInv
    <2>2. QED
      BY <2>1, HistoryFields DEF Follows
  <1>2. G[now + 1].version \in Nat /\ G[now + 1].rule \in Rules
    BY HistoryFields
  <1>3. CASE h \in 1..now /\ k \in 1..now
    BY <1>1, <1>3 DEF HistoryInv
  <1>4. CASE h = now + 1 /\ k = now + 1
    BY <1>2, <1>4
  <1>5. CASE G[now + 1] = H[now] /\ h = now + 1 /\ k \in 1..now
    BY <1>1, <1>5 DEF HistoryInv
  <1>6. CASE G[now + 1] = H[now] /\ h \in 1..now /\ k = now + 1
    BY <1>1, <1>6 DEF HistoryInv
  <1>7. CASE /\ G[now + 1].version = H[now].version + 1
             /\ NoneOver(G[now + 1].rule, now + 1)
    <2>1. \A i \in 1..now : G[i].version < G[now + 1].version
      BY <1>1, <1>7
    <2>2. \A i \in 1..now : G[i].version \in Nat
      BY <1>1
    <2>3. CASE h \in 1..now /\ k = now + 1
      <3>1. NoneOver(G[k].rule, h)
        BY <1>2, <1>7, <2>3, NoneOverBefore
      <3>2. QED
        BY <1>2, <2>1, <2>2, <2>3, <3>1
    <2>4. CASE h = now + 1 /\ k \in 1..now
      BY <1>2, <2>1, <2>2, <2>4
    <2>5. QED
      BY <1>3, <1>4, <2>3, <2>4
  <1>8. QED
    BY <1>3, <1>4, <1>5, <1>6, <1>7 DEF Follows

LEMMA EntryStaysTrue ==
    ASSUME NEW now \in Nat \ {0}, NEW H \in Histories(now), NEW G \in Histories(now + 1),
           HistoryInv(G, now + 1), \A h \in 1..now : G[h] = H[h],
           NEW e \in Entries, EntryInv(e, H, now)
    PROVE  EntryInv(e, G, now + 1)
  <1>1. CASE e.source # "live"
    <2>1. e.changedAt <= now + 1
      BY DEF EntryInv, Entries
    <2>2. QED
      BY <1>1, <2>1 DEF EntryInv
  <1>2. CASE e.source = "live"
    <2> DEFINE r == H[e.readAt].rule
    <2>1. /\ e.readAt \in 1..now /\ e.readAt \in 1..now + 1
          /\ e.version = G[e.readAt].version /\ G[e.readAt].rule = r /\ r \in Rules
          /\ Parsed(e, r) /\ HoldsSinceChange(e, H, now)
      BY <1>2, HistoryFields DEF EntryInv
    <2>2. ASSUME ~e.missed, catalogRateAt(e, now + 1).known, NEW h \in 1..now + 1,
                 catalogRateAt(e, now + 1).changed <= h, G[h].version <= e.version,
                 Tells(e, G[h].rule, h)
          PROVE  Charge(G, h) = catalogRateAt(e, now + 1).value
      <3>1. /\ catalogRateAt(e, h).known
            /\ catalogRateAt(e, h).value = catalogRateAt(e, now + 1).value
        BY <2>2, NoBoundarySince
      <3>2. CASE G[h].version = e.version
        <4>1. G[h].rule = r
          BY <2>1, <3>2 DEF HistoryInv
        <4>2. QED
          BY <2>1, <2>2, <3>1, <4>1, RateIsReal DEF Charge
      <3>3. CASE G[h].version # e.version
        <4>1. h \in 1..now
          <5>1. G[now + 1].version >= e.version
            BY <2>1 DEF HistoryInv
          <5>2. G[now + 1].version \in Nat /\ e.version \in Nat
            BY <2>1, HistoryFields
          <5>3. QED
            BY <2>2, <3>3, <5>1, <5>2
        <4>2. catalogRateAt(e, now).changed <= h
          <5>1. catalogRateAt(e, now).changed <= catalogRateAt(e, now + 1).changed
            BY ChangedGrows
          <5>2. /\ catalogRateAt(e, now).changed \in Nat
                /\ catalogRateAt(e, now + 1).changed \in Nat
            BY ChangedFacts
          <5>3. QED
            BY <2>2, <5>1, <5>2
        <4>3. /\ catalogRateAt(e, now).known
              /\ catalogRateAt(e, now).value = catalogRateAt(e, h).value
          <5>1. h <= now
            BY <4>1
          <5>2. QED
            BY <3>1, <4>2, <5>1, NoBoundarySince
        <4>4. H[h] = G[h]
          BY <4>1
        <4>5. Charge(H, h) = catalogRateAt(e, now).value
          BY <2>1, <2>2, <4>1, <4>2, <4>3, <4>4 DEF HoldsSinceChange
        <4>6. QED
          BY <3>1, <4>3, <4>4, <4>5 DEF Charge
      <3>4. QED
        BY <3>2, <3>3
    <2>3. HoldsSinceChange(e, G, now + 1)
      BY <2>1, <2>2 DEF HoldsSinceChange
    <2>4. e.changedAt <= now + 1
      BY DEF EntryInv, Entries
    <2>5. QED
      BY <1>2, <2>1, <2>3, <2>4 DEF EntryInv
  <1>3. QED
    BY <1>1, <1>2

LEMMA SourcesStayTrue ==
    ASSUME NEW now \in Nat \ {0}, NEW H \in Histories(now), NEW G \in Histories(now + 1),
           HistoryInv(G, now + 1), \A h \in 1..now : G[h] = H[h],
           NEW e \in Entries, NEW p \in Verdicts, NEW u, SourcesInv(e, p, u, H, now)
    PROVE  SourcesInv(e, p, u, G, now + 1)
  <1>1. EntryInv(e, G, now + 1)
    BY EntryStaysTrue DEF SourcesInv
  <1>2. VerdictInv(p, G, now + 1)
    <2>1. p.verdictAt \in Nat
      BY DEF Verdicts
    <2>2. \A h \in p.verdictAt..now : p.verdictAt > 0 =>
              h \in p.verdictAt..now + 1 /\ Charge(G, h) = Charge(H, h)
      BY <2>1 DEF Charge
    <2>3. QED
      BY <2>2 DEF SourcesInv, VerdictInv
  <1>3. SampleInv(u.class, u.learnt, G, now + 1)
    BY DEF SourcesInv, SampleInv, Charge
  <1>4. QED
    BY <1>1, <1>2, <1>3 DEF SourcesInv

-----------------------------------------------------------------------------
(* A refresh: what the interface or the cache says, stamped, is true. *)

\* Being cached says nothing of the price.
LEMMA CachedStaysTrue ==
    ASSUME NEW e \in Entries, NEW b \in BOOLEAN, NEW H, NEW now \in Nat
    PROVE  LET f == [e EXCEPT !.cached = b] IN
           /\ f \in Entries /\ f.cached = b /\ f.source = e.source
           /\ f.checkedAt = e.checkedAt
           /\ EntryInv(f, H, now) <=> EntryInv(e, H, now)
  <1> DEFINE f == [e EXCEPT !.cached = b]
  <1>1. f \in Entries
    BY DEF Entries
  <1>2. /\ f.cached = b /\ f.source = e.source /\ f.credits = e.credits /\ f.base = e.base
        /\ f.multiplier = e.multiplier /\ f.has = e.has /\ f.factor = e.factor
        /\ f.from = e.from /\ f.until = e.until /\ f.expired = e.expired
        /\ f.checkedAt = e.checkedAt /\ f.changedAt = e.changedAt
        /\ f.version = e.version /\ f.readAt = e.readAt /\ f.missed = e.missed
    BY DEF Entries
  <1> HIDE DEF f
  <1>3. catalogRateAt(f, now) = catalogRateAt(e, now)
        /\ \A r, h : Tells(f, r, h) <=> Tells(e, r, h)
    <2>1. promoOutside(f, now) = promoOutside(e, now)
      BY <1>2 DEF promoOutside
    <2>2. catalogRateAt(f, now) = catalogRateAt(e, now)
      BY <1>2, <2>1 DEF catalogRateAt
    <2>3. \A h : promoActive(f, h) <=> promoActive(e, h)
      BY <1>2 DEF promoActive
    <2>4. QED
      BY <1>2, <2>2, <2>3 DEF Tells
  <1>4. \A r : Parsed(f, r) <=> Parsed(e, r)
    BY <1>2 DEF Parsed
  <1>5. HoldsSinceChange(f, H, now) <=> HoldsSinceChange(e, H, now)
    BY <1>2, <1>3 DEF HoldsSinceChange
  <1>6. EntryInv(f, H, now) <=> EntryInv(e, H, now)
    BY <1>2, <1>4, <1>5 DEF EntryInv
  <1>7. QED
    BY <1>1, <1>2, <1>6 DEF f

\* What two entries that differ only in their times have in common.
SamePrice(f, e) ==
    /\ f.source = e.source /\ f.credits = e.credits /\ f.base = e.base
    /\ f.multiplier = e.multiplier /\ f.has = e.has /\ f.factor = e.factor
    /\ f.from = e.from /\ f.until = e.until /\ f.expired = e.expired
    /\ f.version = e.version /\ f.readAt = e.readAt

LEMMA SamePriceReadsAlike ==
    ASSUME NEW e, NEW f, SamePrice(f, e)
    PROVE  /\ \A n : catalogRateAt(f, n).known = catalogRateAt(e, n).known
           /\ \A r : Parsed(f, r) <=> Parsed(e, r)
           /\ \A a : sameCatalogRate(a, f) <=> sameCatalogRate(a, e)
  <1>1. ASSUME NEW n
        PROVE  catalogRateAt(f, n).known = catalogRateAt(e, n).known
    <2>1. promoOutside(f, n) = promoOutside(e, n)
      BY DEF promoOutside, SamePrice
    <2>2. QED
      BY <2>1 DEF catalogRateAt, SamePrice
  <1>2. \A r : Parsed(f, r) <=> Parsed(e, r)
    BY DEF Parsed, SamePrice
  <1>3. \A a : sameCatalogRate(a, f) <=> sameCatalogRate(a, e)
    BY DEF sameCatalogRate, SamePrice
  <1>4. QED
    BY <1>1, <1>2, <1>3

\* Reading a rule gives an entry that says what the rule says.
LEMMA LiveIsParsed ==
    ASSUME NEW r \in Rules, NEW now \in Nat, version \in Nat
    PROVE  LET f == parseLiveCatalog(r, now) IN
           /\ f \in Entries /\ f.source = "live" /\ ~f.cached
           /\ f.version = version /\ f.readAt = now
           /\ Parsed(f, r)
  <1> DEFINE f == parseLiveCatalog(r, now)
             p == hit(r, now)
             on == promoActive(p, now)
             base == Times(r.credits, 1)
             multiplier == Times(r.credits, IF on THEN p.factor ELSE 1)
             has == r.credits # NoPrice \/ (on /\ p.factor = 0)
             expired == p.factor # NoPrice /\ ~on
  <1>1. base \in Nat /\ multiplier \in Nat /\ has \in BOOLEAN /\ expired \in BOOLEAN
    <2>1. on => p.factor \in Nat
      BY HitFields DEF promoActive
    <2>2. QED
      BY <2>1, RuleFields, TimesIsNat
  <1>2. f = [NoEntry EXCEPT
                !.source = "live", !.credits = r.credits, !.base = base,
                !.multiplier = multiplier, !.has = has,
                !.factor = p.factor, !.from = p.from, !.until = p.until,
                !.expired = expired, !.version = version, !.readAt = now]
    BY Zenon DEF parseLiveCatalog
  <1>3. p.from \in Nat /\ p.until \in Nat /\ p.factor \in Prices
    BY HitFields
  <1> HIDE DEF f, p, base, multiplier, has, expired
  <1>4. f = [source |-> "live", cached |-> FALSE, credits |-> r.credits, base |-> base,
             multiplier |-> multiplier, has |-> has, factor |-> p.factor,
             from |-> p.from, until |-> p.until, expired |-> expired,
             checkedAt |-> 0, changedAt |-> 0,
             version |-> version, readAt |-> now, missed |-> FALSE]
    BY <1>2 DEF NoEntry
  <1>5. f \in Entries
    BY <1>1, <1>3, <1>4, RuleFields DEF Entries
  <1>6. /\ f.source = "live" /\ ~f.cached /\ f.version = version /\ f.readAt = now
        /\ f.credits = r.credits /\ f.factor = p.factor /\ f.from = p.from
        /\ f.until = p.until /\ f.base = base /\ f.multiplier = multiplier
        /\ f.has = has /\ f.expired = expired
    BY <1>4
  <1>7. Parsed(f, r)
    BY <1>6 DEF Parsed, p, base, multiplier, has, expired
  <1>8. QED
    BY <1>5, <1>6, <1>7 DEF f

\* What was just read from the interface, stamped: the price did change, or it is the
\* one of the rule before, or it is not known.
LEMMA StampedLiveIsTrue ==
    ASSUME NEW e \in Entries, TypeOK, HistoryInv(history, clock),
           history[clock] = [rule |-> rule, version |-> version],
           EntryInv(e, history, clock)
    PROVE  LET f == stampCatalogRates(parseLiveCatalog(rule, clock), e, clock)
           IN  f \in Entries /\ EntryInv(f, history, clock)
  <1> DEFINE fresh == parseLiveCatalog(rule, clock)
             known == catalogRateAt(fresh, clock).known
             same == sameCatalogRate(e, fresh)
             changed == IF known /\ ~same THEN clock ELSE e.changedAt
             missed == known /\ same
                       /\ (e.missed \/ e.version \notin {version - 1, version})
             f == [fresh EXCEPT !.checkedAt = clock, !.changedAt = changed,
                                !.missed = missed]
  <1>1. /\ clock \in Nat \ {0} /\ rule \in Rules /\ version \in Nat
        /\ history \in Histories(clock)
    BY DEF TypeOK, Histories
  <1>2. /\ fresh \in Entries /\ fresh.source = "live" /\ ~fresh.cached
        /\ fresh.version = version /\ fresh.readAt = clock
        /\ Parsed(fresh, rule)
    BY <1>1, LiveIsParsed
  <1> HIDE DEF fresh
  <1>3. stampCatalogRates(fresh, e, clock) = f
    BY <1>2 DEF stampCatalogRates
  <1>4. changed \in Nat /\ missed \in BOOLEAN
    <2>1. e.changedAt \in Nat
      BY DEF Entries
    <2>2. QED
      BY <1>1, <2>1
  <1> HIDE DEF changed, missed
  <1>5. /\ f \in Entries
        /\ f.checkedAt = clock /\ f.changedAt = changed /\ f.missed = missed
        /\ SamePrice(f, fresh)
    BY <1>1, <1>2, <1>4 DEF Entries, SamePrice
  <1> HIDE DEF f
  <1>6. /\ f.source = "live" /\ f.version = version /\ f.readAt = clock
        /\ catalogRateAt(f, clock).known = known
        /\ Parsed(f, rule)
        /\ sameCatalogRate(e, f) <=> same
    BY <1>2, <1>5, SamePriceReadsAlike DEF SamePrice
  <1> HIDE DEF known, same
  <1>7. ASSUME ~f.missed, known, NEW h \in 1..clock,
               catalogRateAt(f, clock).changed <= h, Tells(f, history[h].rule, h)
        PROVE  Charge(history, h) = catalogRateAt(f, clock).value
    <2>1. /\ catalogRateAt(f, h).known
          /\ catalogRateAt(f, h).value = catalogRateAt(f, clock).value
      <3>1. h \in Nat /\ h <= clock /\ clock \in Nat
        BY <1>1
      <3>2. QED
        BY <1>5, <1>6, <1>7, <3>1, NoBoundarySince
    <2>2. ASSUME history[h].version = version
          PROVE  Charge(history, h) = catalogRateAt(f, clock).value
      <3>1. history[h].version = history[clock].version /\ clock \in 1..clock
        BY <1>1, <2>2
      <3>2. history[h].rule = rule
        BY <3>1 DEF HistoryInv
      <3>3. h \in Nat
        BY <1>1
      <3>4. QED
        BY <1>1, <1>5, <1>6, <1>7, <2>1, <3>2, <3>3, RateIsReal DEF Charge
    <2>3. CASE ~same
      <3>1. catalogRateAt(f, clock).changed \in Nat
            /\ catalogRateAt(f, clock).changed >= f.changedAt
        BY <1>1, <1>5, ChangedFacts
      <3>2. f.changedAt = clock
        BY <1>5, <1>7, <2>3 DEF changed
      <3>3. h = clock
        BY <1>1, <1>7, <3>1, <3>2
      <3>4. QED
        BY <2>2, <3>3
    <2>4. CASE same
      <3>1. ~e.missed /\ e.version \in {version - 1, version}
        BY <1>5, <1>7, <2>4 DEF missed
      <3>2. /\ e.source = "live" /\ e.from = f.from /\ e.until = f.until
            /\ e.factor = f.factor
        BY <1>6, <2>4 DEF sameCatalogRate
      <3>3. /\ e.readAt \in 1..clock /\ e.version = history[e.readAt].version
            /\ Parsed(e, history[e.readAt].rule) /\ HoldsSinceChange(e, history, clock)
        BY <3>2 DEF EntryInv
      <3>4. history[e.readAt].rule \in Rules /\ history[h].version \in Nat /\ e.version \in Nat
        BY <1>1, <3>3, HistoryFields
      <3>5. history[h].version <= version
        BY <1>1 DEF HistoryInv
      <3>6. CASE history[h].version <= e.version /\ history[h].version # version
        <4>1. /\ catalogRateAt(e, clock).known
              /\ catalogRateAt(e, clock).value = catalogRateAt(f, clock).value
          <5>1. sameCatalogRate(e, f) /\ catalogRateAt(f, clock).known /\ clock \in Nat
            BY <1>1, <1>6, <1>7, <2>4
          <5>2. QED
            BY <1>1, <1>5, <1>6, <3>3, <3>4, <5>1, SameRateSameValue
        <4>2. catalogRateAt(e, clock).changed = catalogRateAt(f, clock).changed
          <5>1. f.changedAt = e.changedAt
            BY <1>5, <2>4 DEF changed
          <5>2. QED
            BY <3>2, <5>1 DEF catalogRateAt
        <4>3. Tells(e, history[h].rule, h)
          <5>1. h # f.readAt
            BY <1>6, <3>6
          <5>2. promoActive(e, h) <=> promoActive(f, h)
            BY <3>2 DEF promoActive
          <5>3. QED
            BY <1>7, <3>2, <5>1, <5>2 DEF Tells
        <4>4. QED
          BY <1>7, <3>1, <3>3, <3>6, <4>1, <4>2, <4>3 DEF HoldsSinceChange
      <3>7. CASE ~(history[h].version <= e.version /\ history[h].version # version)
        <4>1. history[h].version = version
          BY <1>1, <3>1, <3>4, <3>5, <3>7
        <4>2. QED
          BY <2>2, <4>1
      <3>8. QED
        BY <3>6, <3>7
    <2>5. QED
      BY <2>3, <2>4
  <1>8. HoldsSinceChange(f, history, clock)
    BY <1>1, <1>5, <1>6, <1>7 DEF HoldsSinceChange
  <1>9. EntryInv(f, history, clock)
    <2>1. f.changedAt <= clock
      BY <1>1, <1>5 DEF changed, EntryInv
    <2>2. QED
      BY <1>1, <1>5, <1>6, <1>8, <2>1 DEF EntryInv
  <1>10. QED
    BY <1>3, <1>5, <1>6, <1>9 DEF fresh

\* The package, and a site that lists nothing, say nothing of the interface.
LEMMA OtherIsTrue ==
    ASSUME NEW e \in Entries, NEW p \in Prices, NEW now \in Nat \ {0}, NEW H,
           e.changedAt <= now
    PROVE  /\ LET f == stampCatalogRates(parseNPMCatalog(p, now), e, now)
              IN  f \in Entries /\ EntryInv(f, H, now)
           /\ stampCatalogRates(NoEntry, e, now) = NoEntry
           /\ NoEntry \in Entries /\ EntryInv(NoEntry, H, now)
  <1> DEFINE fresh == parseNPMCatalog(p, now)
             known == catalogRateAt(fresh, now).known
             same == sameCatalogRate(e, fresh)
             changed == IF known /\ ~same THEN now ELSE e.changedAt
             missed == known /\ same
                       /\ (e.missed \/ e.version \notin {version - 1, version})
             f == [fresh EXCEPT !.checkedAt = now, !.changedAt = changed,
                                !.missed = missed]
             base == Times(p, 1)
             has == p # NoPrice
  <1>1. base \in Nat /\ has \in BOOLEAN
    BY TimesIsNat
  <1>2. fresh = [NoEntry EXCEPT !.source = "npm", !.credits = p, !.base = base,
                                !.multiplier = base, !.has = has, !.readAt = now]
    BY Zenon DEF parseNPMCatalog
  <1> HIDE DEF fresh, base, has
  <1>3. fresh = [source |-> "npm", cached |-> FALSE, credits |-> p, base |-> base,
                 multiplier |-> base, has |-> has, factor |-> NoPrice,
                 from |-> 0, until |-> 0, expired |-> FALSE,
                 checkedAt |-> 0, changedAt |-> 0,
                 version |-> 0, readAt |-> now, missed |-> FALSE]
    BY <1>2 DEF NoEntry
  <1>4. fresh \in Entries /\ fresh.source = "npm" /\ ~fresh.cached /\ fresh.readAt = now
    BY <1>1, <1>3 DEF Entries, Prices
  <1>5. stampCatalogRates(fresh, e, now) = f
    BY <1>4 DEF stampCatalogRates
  <1>6. changed \in Nat /\ missed \in BOOLEAN
    <2>1. e.changedAt \in Nat
      BY DEF Entries
    <2>2. QED
      BY <2>1
  <1> HIDE DEF changed, missed
  <1>7. /\ f \in Entries /\ f.source = "npm" /\ f.checkedAt = now /\ f.readAt = now
        /\ f.changedAt <= now
    <2>1. changed <= now
      BY DEF changed
    <2>2. QED
      BY <1>4, <1>6, <2>1 DEF Entries
  <1>8. EntryInv(f, H, now)
    BY <1>7 DEF EntryInv
  <1>9. stampCatalogRates(NoEntry, e, now) = NoEntry
    BY DEF stampCatalogRates, NoEntry
  <1>10. NoEntry \in Entries /\ EntryInv(NoEntry, H, now)
    BY DEF NoEntry, Entries, Prices, EntryInv
  <1>11. QED
    BY <1>5, <1>7, <1>8, <1>9, <1>10 DEF fresh

\* Whatever a refresh reads, the entry it leaves is true.
LEMMA RefreshedIsTrue ==
    ASSUME IInv, NEW liveOK \in BOOLEAN, NEW npmOK \in BOOLEAN
    PROVE  LET f == stampCatalogRates(Fetched(liveOK, npmOK), entry, clock)
           IN  f \in Entries /\ EntryInv(f, history, clock)
  <1> DEFINE live == IF rule.listed THEN parseLiveCatalog(rule, clock) ELSE NoEntry
             npm == IF npmOK THEN parseNPMCatalog(package, clock) ELSE NoEntry
             old == [entry EXCEPT !.cached = TRUE]
             Good(x) == /\ stampCatalogRates(x, entry, clock) \in Entries
                        /\ EntryInv(stampCatalogRates(x, entry, clock), history, clock)
  <1>1. /\ TypeOK /\ HistoryInv(history, clock)
        /\ history[clock] = [rule |-> rule, version |-> version]
        /\ entry \in Entries /\ EntryInv(entry, history, clock)
        /\ clock \in Nat \ {0} /\ package \in Prices
    BY PriceAssumption DEF IInv, TypeOK, SourcesInv
  <1>2. Good(parseLiveCatalog(rule, clock))
    BY <1>1, StampedLiveIsTrue
  <1>3. Good(parseNPMCatalog(package, clock)) /\ Good(NoEntry)
    <2>1. entry.changedAt <= clock
      BY <1>1 DEF EntryInv
    <2>2. QED
      BY <1>1, <2>1, OtherIsTrue
  <1>4. Good(old)
    <2>1. /\ old \in Entries /\ old.cached /\ old.source = entry.source
          /\ old.checkedAt = entry.checkedAt /\ EntryInv(old, history, clock)
      BY <1>1, CachedStaysTrue
    <2>2. old.source = "none" \/ (old.cached /\ old.checkedAt > 0)
      BY <2>1 DEF EntryInv
    <2> HIDE DEF old
    <2>3. stampCatalogRates(old, entry, clock) = old
      BY <2>2 DEF stampCatalogRates
    <2>4. QED
      BY <2>1, <2>3
  <1> HIDE DEF Good
  <1>5. Good(live) /\ Good(npm)
    BY <1>2, <1>3
  <1>6. Fetched(liveOK, npmOK) \in {live, npm, old}
    BY DEF Fetched, mergeCatalogs
  <1>7. Good(Fetched(liveOK, npmOK))
    BY <1>4, <1>5, <1>6
  <1>8. QED
    BY <1>7 DEF Good

-----------------------------------------------------------------------------
(* The steps. *)

LEMMA ClassIsClass ==
    ASSUME NEW price
    PROVE  Class(price) \in {"free", "paid"}
    BY DEF Class

LEMMA FreeUntilIsNat ==
    ASSUME NEW e \in Entries, NEW class, NEW at
    PROVE  FreeUntil(e, class, at) \in Nat
    BY DEF Entries, FreeUntil

\* What a write leaves on disk is true if what is written is.
LEMMA PersistedIsTrue ==
    ASSUME IInv, NEW e \in Entries, NEW p \in Verdicts, NEW u \in Samples,
           SourcesInv(e, p, u, history, clock), persistModelsLocked(e, p, u)
    PROVE  /\ file' \in Files \cup {NoFile} /\ problem' \in BOOLEAN
           /\ failures' \in 0..MaxFailures
           /\ FileInv(file', history, clock)
  <1>1. clock \in Nat /\ file \in Files \cup {NoFile} /\ failures \in 0..MaxFailures
        /\ MaxFailures \in Nat /\ problem \in BOOLEAN /\ FileInv(file, history, clock)
    BY BoundAssumption DEF IInv, TypeOK
  <1>2. CASE file' = Stored(e, p, u) /\ problem' = FALSE /\ UNCHANGED failures
    <2> DEFINE f == [e EXCEPT !.cached = FALSE]
    <2>1. f \in Entries /\ ~f.cached /\ (EntryInv(f, history, clock) <=> EntryInv(e, history, clock))
      BY <1>1, CachedStaysTrue
    <2>2. file' = [entry |-> f, probe |-> p, usage |-> u]
      BY <1>2 DEF Stored
    <2> HIDE DEF f
    <2>3. file' \in Files
      BY <2>1, <2>2 DEF Files
    <2>4. file'.entry = f /\ file'.probe = p /\ file'.usage = u
      BY <2>2
    <2>5. FileInv(file', history, clock)
      BY <2>1, <2>4 DEF FileInv, SourcesInv
    <2>6. QED
      BY <1>1, <1>2, <2>3, <2>5
  <1>3. CASE /\ failures < MaxFailures
             /\ failures' = failures + 1
             /\ problem' = TRUE
             /\ UNCHANGED file
    BY <1>1, <1>3
  <1>4. QED
    BY <1>2, <1>3 DEF persistModelsLocked

\* What holds when nothing of the vendor changes, and nothing of the tasks.
LEMMA SourcesStep ==
    ASSUME IInv, UNCHANGED vendor, UNCHANGED <<ledger, tasks>>,
           up' \in BOOLEAN, requested' \in BOOLEAN, lastProbe' \in Nat,
           crashes' \in 0..MaxCrashes,
           entry' \in Entries, probe' \in Verdicts, usage' \in Samples,
           SourcesInv(entry', probe', usage', history, clock),
           \/ persistModelsLocked(entry', probe', usage')
           \/ UNCHANGED cache
    PROVE  IInv'
  <1>1. /\ file' \in Files \cup {NoFile} /\ problem' \in BOOLEAN
        /\ failures' \in 0..MaxFailures
        /\ FileInv(file', history, clock)
    <2>1. CASE UNCHANGED cache
      BY <2>1 DEF IInv, TypeOK, cache
    <2>2. CASE persistModelsLocked(entry', probe', usage')
      BY <2>2, PersistedIsTrue
    <2>3. QED
      BY <2>1, <2>2
  <1>2. /\ clock' = clock /\ rule' = rule /\ version' = version /\ history' = history
        /\ package' = package /\ ledger' = ledger /\ probing' = probing /\ caller' = caller
    BY DEF vendor, tasks
  <1>3. TypeOK'
    BY <1>1, <1>2 DEF IInv, TypeOK
  <1>4. TasksInv'
    BY <1>2 DEF IInv, TasksInv
  <1>5. SourcesInv(entry', probe', usage', history', clock') /\ FileInv(file', history', clock')
    BY <1>1, <1>2
  <1>6. HistoryInv(history', clock') /\ history'[clock'] = [rule |-> rule', version |-> version']
    BY <1>2 DEF IInv
  <1>7. QED
    BY <1>3, <1>4, <1>5, <1>6 DEF IInv

\* The charge of this hour.
LEMMA ChargeNow ==
    ASSUME IInv
    PROVE  /\ clock \in Nat /\ clock \in 1..clock
           /\ Charge(history, clock) = Real(rule, clock)
    BY DEF IInv, TypeOK, Charge

LEMMA TickInv ==
    ASSUME IInv, Tick
    PROVE  IInv'
  <1>1. /\ clock \in Nat \ {0} /\ clock' = clock + 1 /\ history \in Histories(clock)
        /\ rule \in Rules /\ version \in Nat
        /\ history[clock] = [rule |-> rule, version |-> version] /\ HistoryInv(history, clock)
    BY DEF IInv, TypeOK, Histories, Tick
  <1>2. /\ rule' \in Rules /\ version' \in Nat
        /\ \/ rule' = rule /\ version' = version
           \/ version' = version + 1 /\ NoneOver(rule', clock + 1)
    BY <1>1 DEF Tick
  <1>3. history' = [h \in 1..clock + 1 |->
            IF h = clock + 1 THEN [rule |-> rule', version |-> version'] ELSE history[h]]
    BY <1>1 DEF Tick
  <1>4. history' \in Histories(clock + 1)
    BY <1>1, <1>2, <1>3 DEF Histories
  <1>5. /\ \A h \in 1..clock : history'[h] = history[h]
        /\ history'[clock + 1] = [rule |-> rule', version |-> version']
    BY <1>1, <1>3
  <1>6. Follows(history, clock, history')
    BY <1>1, <1>2, <1>5 DEF Follows
  <1>7. HistoryInv(history', clock + 1)
    BY <1>1, <1>4, <1>6, HistoryGoesOn
  <1>8. UNCHANGED <<package, up, sources, cache, ledger, requested, tasks, lastProbe, crashes>>
    BY DEF Tick
  <1>9. SourcesInv(entry, probe, usage, history', clock + 1)
    BY <1>1, <1>4, <1>5, <1>7, SourcesStayTrue DEF IInv, TypeOK
  <1>10. FileInv(file, history', clock + 1)
    <2> SUFFICES ASSUME file # NoFile
                 PROVE  SourcesInv(file.entry, file.probe, file.usage, history', clock + 1)
                        /\ ~file.entry.cached
      BY DEF FileInv
    <2>1. file.entry \in Entries /\ file.probe \in Verdicts
      BY DEF IInv, TypeOK, Files
    <2>2. SourcesInv(file.entry, file.probe, file.usage, history, clock) /\ ~file.entry.cached
      BY DEF IInv, FileInv
    <2>3. QED
      BY <1>1, <1>4, <1>5, <1>7, <2>1, <2>2, SourcesStayTrue
  <1>11. TasksInv'
    <2>1. \A class, at : SampleInv(class, at, history, clock)
                            => SampleInv(class, at, history', clock + 1)
      BY <1>1, <1>5 DEF SampleInv, Charge
    <2>2. ledger' = ledger /\ caller' = caller /\ probing' = probing
      BY <1>8 DEF tasks
    <2>3. \A c \in Callers : SampleInv(caller[c].class, caller[c].at, history', clock + 1)
      BY <2>1 DEF IInv, TasksInv
    <2>4. SampleInv(ledger.class, ledger.learnt, history', clock + 1)
      BY <2>1 DEF IInv, TasksInv
    <2>5. probing.step = "sent" => probing.now \in 1..clock + 1
      BY <1>1 DEF IInv, TasksInv
    <2>6. QED
      BY <1>1, <2>2, <2>3, <2>4, <2>5 DEF TasksInv
  <1>12. TypeOK'
    BY <1>1, <1>2, <1>4, <1>8 DEF IInv, TypeOK, Histories, sources, cache, tasks
  <1>13. SourcesInv(entry', probe', usage', history', clock') /\ FileInv(file', history', clock')
    BY <1>1, <1>8, <1>9, <1>10 DEF sources, cache
  <1>14. history'[clock'] = [rule |-> rule', version |-> version'] /\ HistoryInv(history', clock')
    BY <1>1, <1>5, <1>7
  <1>15. QED
    BY <1>11, <1>12, <1>13, <1>14 DEF IInv

LEMMA RefreshInv ==
    ASSUME IInv, refreshModelsOnce
    PROVE  IInv'
  <1>1. PICK liveOK \in BOOLEAN, npmOK \in BOOLEAN :
            entry' = stampCatalogRates(Fetched(liveOK, npmOK), entry, clock)
    BY DEF refreshModelsOnce
  <1>2. entry' \in Entries /\ EntryInv(entry', history, clock)
    BY <1>1, RefreshedIsTrue
  <1>3. probe' \in {NoVerdict, probe} /\ usage' = usage /\ up' = up
        /\ UNCHANGED <<vendor, ledger, requested, tasks, lastProbe, crashes>>
    BY DEF refreshModelsOnce
  <1>4. NoVerdict \in Verdicts /\ VerdictInv(NoVerdict, history, clock)
    BY DEF NoVerdict, Verdicts, VerdictInv
  <1>5. probe' \in Verdicts /\ VerdictInv(probe', history, clock)
    BY <1>3, <1>4 DEF IInv, TypeOK, SourcesInv
  <1>6. usage' \in Samples /\ SampleInv(usage'.class, usage'.learnt, history, clock)
    BY <1>3 DEF IInv, TypeOK, SourcesInv
  <1>7. SourcesInv(entry', probe', usage', history, clock)
    BY <1>2, <1>5, <1>6 DEF SourcesInv
  <1>8. persistModelsLocked(entry', probe', usage')
    BY <1>3 DEF refreshModelsOnce
  <1>9. /\ up' \in BOOLEAN /\ requested' \in BOOLEAN /\ lastProbe' \in Nat
        /\ crashes' \in 0..MaxCrashes
    BY <1>3 DEF IInv, TypeOK
  <1>10. QED
    BY <1>2, <1>3, <1>5, <1>6, <1>7, <1>8, <1>9, SourcesStep

\* What a process that has just been started, or is not running, knows.
LEMMA NothingIsTrue ==
    ASSUME IInv
    PROVE  /\ NoEntry \in Entries /\ NoVerdict \in Verdicts /\ NoUsage \in Samples
           /\ SourcesInv(NoEntry, NoVerdict, NoUsage, history, clock)
  <1>1. NoEntry \in Entries /\ EntryInv(NoEntry, history, clock)
    BY DEF IInv, TypeOK, NoEntry, Entries, Prices, EntryInv
  <1>2. NoVerdict \in Verdicts /\ VerdictInv(NoVerdict, history, clock)
    BY DEF NoVerdict, Verdicts, VerdictInv
  <1>3. NoUsage \in Samples /\ SampleInv(NoUsage.class, NoUsage.learnt, history, clock)
    BY DEF NoUsage, Samples, Classes, SampleInv
  <1>4. QED
    BY <1>1, <1>2, <1>3 DEF SourcesInv

\* A start: what is loaded was true when it was written and still is, and so is a
\* sample that is restored from the ledger.
LEMMA StartInv ==
    ASSUME IInv, Start
    PROVE  IInv'
  <1> DEFINE loaded == IF file = NoFile THEN Stored(NoEntry, NoVerdict, NoUsage) ELSE file
             class == IF ledger.blocked /\ ledger.class = "paid" THEN "unknown"
                      ELSE ledger.class
  <1>1. ledger \in Ledgers /\ SampleInv(ledger.class, ledger.learnt, history, clock)
    BY DEF IInv, TypeOK, TasksInv, Ledgers
  <1>2. ledger' = [ledger EXCEPT !.class = class]
    BY DEF Start, sanitizeRestoredModelState
  <1>3. class \in Classes /\ SampleInv(class, ledger.learnt, history, clock)
    BY <1>1 DEF Ledgers, Classes, SampleInv
  <1> HIDE DEF class
  <1>4. /\ ledger' \in Ledgers /\ ledger'.class = class /\ ledger'.learnt = ledger.learnt
        /\ ledger'.at \in Nat /\ ledger'.learnt \in Nat
    BY <1>1, <1>2, <1>3 DEF Ledgers
  <1>5. /\ loaded.entry \in Entries /\ loaded.probe \in Verdicts /\ loaded.usage \in Samples
        /\ SourcesInv(loaded.entry, loaded.probe, loaded.usage, history, clock)
    <2>1. CASE file = NoFile
      <3> DEFINE e == [NoEntry EXCEPT !.cached = FALSE]
      <3>1. clock \in Nat
        BY DEF IInv, TypeOK
      <3>2. e \in Entries /\ (EntryInv(e, history, clock) <=> EntryInv(NoEntry, history, clock))
        BY <3>1, NothingIsTrue, CachedStaysTrue
      <3>3. loaded = [entry |-> e, probe |-> NoVerdict, usage |-> NoUsage]
        BY <2>1 DEF Stored
      <3> HIDE DEF e, loaded
      <3>4. loaded.entry = e /\ loaded.probe = NoVerdict /\ loaded.usage = NoUsage
        BY <3>3
      <3>5. QED
        BY <3>2, <3>4, NothingIsTrue DEF SourcesInv
    <2>2. CASE file # NoFile
      <3>1. file \in Files /\ loaded = file
        BY <2>2 DEF IInv, TypeOK
      <3>2. SourcesInv(file.entry, file.probe, file.usage, history, clock)
        BY <2>2 DEF IInv, FileInv
      <3>3. QED
        BY <3>1, <3>2 DEF Files
    <2>3. QED
      BY <2>1, <2>2
  <1>6. /\ entry' = [loaded.entry EXCEPT !.cached = loaded.entry.source # "none"]
        /\ probe' = loaded.probe
        /\ \/ usage' = loaded.usage /\ UNCHANGED cache
           \/ /\ class # "unknown"
              /\ usage' = restoreRateUsage(entry', ledger')
              /\ persistModelsLocked(entry', probe', usage')
    BY <1>4 DEF Start
  <1> HIDE DEF loaded
  <1>7. clock \in Nat /\ (loaded.entry.source # "none") \in BOOLEAN
    BY DEF IInv, TypeOK
  <1>8. entry' \in Entries /\ EntryInv(entry', history, clock)
    BY <1>5, <1>6, <1>7, CachedStaysTrue DEF SourcesInv
  <1>9. probe' \in Verdicts /\ VerdictInv(probe', history, clock)
    BY <1>5, <1>6 DEF SourcesInv
  <1>10. usage' \in Samples /\ SampleInv(usage'.class, usage'.learnt, history, clock)
    <2>1. CASE usage' = loaded.usage
      BY <1>5, <2>1 DEF SourcesInv
    <2>2. CASE usage' = restoreRateUsage(entry', ledger')
      <3> DEFINE until == FreeUntil(entry', ledger'.class, ledger'.at)
      <3>1. until \in Nat
        BY <1>8, FreeUntilIsNat
      <3>2. usage' = [at |-> ledger'.at, class |-> ledger'.class, learnt |-> ledger'.learnt,
                      freeUntil |-> until]
        BY <2>2 DEF restoreRateUsage
      <3> HIDE DEF until
      <3>3. usage' \in Samples
        BY <1>3, <1>4, <3>1, <3>2 DEF Samples
      <3>4. usage'.class = class /\ usage'.learnt = ledger.learnt
        BY <1>4, <3>2
      <3>5. QED
        BY <1>3, <3>3, <3>4
    <2>3. QED
      BY <1>6, <2>1, <2>2
  <1>11. SourcesInv(entry', probe', usage', history, clock)
    BY <1>8, <1>9, <1>10 DEF SourcesInv
  <1>12. /\ file' \in Files \cup {NoFile} /\ problem' \in BOOLEAN
         /\ failures' \in 0..MaxFailures /\ FileInv(file', history, clock)
    <2>1. CASE UNCHANGED cache
      BY <2>1 DEF IInv, TypeOK, cache
    <2>2. CASE persistModelsLocked(entry', probe', usage')
      BY <1>8, <1>9, <1>10, <1>11, <2>2, PersistedIsTrue
    <2>3. QED
      BY <1>6, <2>1, <2>2
  <1>13. /\ clock' = clock /\ rule' = rule /\ version' = version /\ history' = history
         /\ package' = package /\ up' = TRUE /\ requested' = requested
         /\ caller' = caller /\ probing' = probing /\ lastProbe' = lastProbe
         /\ crashes' = crashes
    BY DEF Start, vendor, tasks
  <1>14. TypeOK'
    BY <1>4, <1>8, <1>9, <1>10, <1>12, <1>13 DEF IInv, TypeOK, Ledgers
  <1>15. TasksInv'
    BY <1>3, <1>4, <1>13 DEF IInv, TasksInv
  <1>16. /\ SourcesInv(entry', probe', usage', history', clock')
         /\ FileInv(file', history', clock')
         /\ HistoryInv(history', clock')
         /\ history'[clock'] = [rule |-> rule', version |-> version']
    BY <1>11, <1>12, <1>13 DEF IInv
  <1>17. QED
    BY <1>14, <1>15, <1>16 DEF IInv

\* Nothing of the process is left, and the file says what it said.
LEMMA CrashInv ==
    ASSUME IInv, Crash
    PROVE  IInv'
  <1>1. /\ up' = FALSE /\ crashes' \in 0..MaxCrashes
        /\ entry' = NoEntry /\ probe' = NoVerdict /\ usage' = NoUsage
        /\ problem' = FALSE /\ requested' = FALSE
        /\ probing' = NotProbing /\ caller' = [c \in Callers |-> Idle]
        /\ clock' = clock /\ rule' = rule /\ version' = version /\ history' = history
        /\ package' = package /\ file' = file /\ failures' = failures
        /\ ledger' = ledger /\ lastProbe' = lastProbe
    BY BoundAssumption DEF Crash, vendor, IInv, TypeOK
  <1>2. /\ probing' \in [step: {"idle", "sent"}, now: Nat] /\ probing'.step = "idle"
        /\ caller' \in [Callers -> [class: Classes, at: Nat]]
        /\ \A c \in Callers : caller'[c].class = "unknown"
    BY <1>1 DEF NotProbing, Idle, Classes
  <1>3. TypeOK'
    BY <1>1, <1>2, NothingIsTrue DEF IInv, TypeOK
  <1>4. TasksInv'
    BY <1>1, <1>2 DEF IInv, TasksInv, SampleInv
  <1>5. /\ SourcesInv(entry', probe', usage', history', clock')
        /\ FileInv(file', history', clock')
        /\ HistoryInv(history', clock')
        /\ history'[clock'] = [rule |-> rule', version |-> version']
    BY <1>1, NothingIsTrue DEF IInv
  <1>6. QED
    BY <1>3, <1>4, <1>5 DEF IInv

\* What holds when nothing of the vendor and of what is known changes.
LEMMA TasksStep ==
    ASSUME IInv, UNCHANGED <<vendor, up, sources, cache, crashes>>,
           ledger' \in Ledgers, requested' \in BOOLEAN, lastProbe' \in Nat,
           probing' \in [step: {"idle", "sent"}, now: Nat],
           caller' \in [Callers -> [class: Classes, at: Nat]],
           SampleInv(ledger'.class, ledger'.learnt, history, clock),
           \A c \in Callers : SampleInv(caller'[c].class, caller'[c].at, history, clock),
           probing'.step = "sent" => probing'.now \in 1..clock
    PROVE  IInv'
  <1>1. /\ clock' = clock /\ rule' = rule /\ version' = version /\ history' = history
        /\ package' = package /\ up' = up /\ entry' = entry /\ probe' = probe
        /\ usage' = usage /\ problem' = problem /\ file' = file /\ failures' = failures
        /\ crashes' = crashes
    BY DEF vendor, sources, cache
  <1>2. TypeOK'
    BY <1>1 DEF IInv, TypeOK
  <1>3. TasksInv'
    BY <1>1 DEF TasksInv
  <1>4. /\ SourcesInv(entry', probe', usage', history', clock')
        /\ FileInv(file', history', clock')
        /\ HistoryInv(history', clock')
        /\ history'[clock'] = [rule |-> rule', version |-> version']
    BY <1>1 DEF IInv
  <1>5. QED
    BY <1>2, <1>3, <1>4 DEF IInv

\* What the tasks are before a step.
LEMMA TasksFacts ==
    ASSUME IInv
    PROVE  /\ ledger \in Ledgers /\ requested \in BOOLEAN /\ lastProbe \in Nat
           /\ probing \in [step: {"idle", "sent"}, now: Nat]
           /\ caller \in [Callers -> [class: Classes, at: Nat]]
           /\ SampleInv(ledger.class, ledger.learnt, history, clock)
           /\ \A c \in Callers : SampleInv(caller[c].class, caller[c].at, history, clock)
           /\ probing.step = "sent" => probing.now \in 1..clock
    BY DEF IInv, TypeOK, TasksInv

LEMMA ObserveInv ==
    ASSUME IInv, NEW c \in Callers, observeModelCredit(c)
    PROVE  IInv'
  <1> DEFINE class == Class(Real(rule, clock))
             blocked == ledger.blocked /\ class = "paid"
             seen == [class |-> class, at |-> clock]
  <1>1. class \in {"free", "paid"} /\ class \in Classes /\ blocked \in BOOLEAN
    BY ClassIsClass DEF Classes
  <1>2. SampleInv(class, clock, history, clock)
    BY ChargeNow DEF SampleInv
  <1>3. /\ ledger' = [class |-> class, at |-> clock, learnt |-> clock, blocked |-> blocked]
        /\ caller' = [caller EXCEPT ![c] = seen]
        /\ requested' = TRUE /\ lastProbe' = lastProbe /\ probing' = probing
        /\ UNCHANGED <<vendor, up, sources, cache, crashes>>
    BY DEF observeModelCredit
  <1> HIDE DEF class, blocked
  <1>4. ledger' \in Ledgers /\ ledger'.class = class /\ ledger'.learnt = clock
    BY <1>1, <1>3, ChargeNow DEF Ledgers
  <1>5. seen \in [class: Classes, at: Nat] /\ seen.class = class /\ seen.at = clock
    BY <1>1, ChargeNow
  <1> HIDE DEF seen
  <1>6. caller' \in [Callers -> [class: Classes, at: Nat]]
    BY <1>3, <1>5, TasksFacts
  <1>7. \A d \in Callers : SampleInv(caller'[d].class, caller'[d].at, history, clock)
    <2>1. \A d \in Callers : caller'[d] = IF d = c THEN seen ELSE caller[d]
      BY <1>3, TasksFacts
    <2>2. QED
      BY <1>2, <1>5, <2>1, TasksFacts
  <1>8. SampleInv(ledger'.class, ledger'.learnt, history, clock)
    BY <1>2, <1>4
  <1>9. /\ probing' \in [step: {"idle", "sent"}, now: Nat]
        /\ probing'.step = "sent" => probing'.now \in 1..clock
        /\ requested' \in BOOLEAN /\ lastProbe' \in Nat
    BY <1>3, TasksFacts
  <1>10. QED
    BY <1>3, <1>4, <1>6, <1>7, <1>8, <1>9, TasksStep

LEMMA RecordInv ==
    ASSUME IInv, NEW c \in Callers, recordRateUsage(c)
    PROVE  IInv'
  <1> DEFINE at == caller[c].at
             class == caller[c].class
             until == FreeUntil(entry, class, at)
             sample == [at |-> at, class |-> class, learnt |-> at, freeUntil |-> until]
  <1>1. entry \in Entries /\ probe \in Verdicts /\ usage \in Samples
        /\ SourcesInv(entry, probe, usage, history, clock)
    BY DEF IInv, TypeOK
  <1>2. at \in Nat /\ class \in Classes /\ SampleInv(class, at, history, clock)
    BY TasksFacts
  <1>3. until \in Nat
    BY <1>1, FreeUntilIsNat
  <1>4. /\ caller' = [caller EXCEPT ![c] = Idle]
        /\ entry' = entry /\ probe' = probe /\ up' = up /\ requested' = requested
        /\ lastProbe' = lastProbe /\ crashes' = crashes /\ ledger' = ledger
        /\ probing' = probing /\ UNCHANGED vendor
        /\ \/ usage' = usage /\ UNCHANGED cache
           \/ usage' = sample /\ persistModelsLocked(entry, probe, usage')
    BY DEF recordRateUsage
  <1> HIDE DEF at, class, until
  <1>5. sample \in Samples /\ sample.class = class /\ sample.learnt = at
    BY <1>2, <1>3 DEF Samples
  <1>6. sample \in Samples /\ SourcesInv(entry, probe, sample, history, clock)
    BY <1>1, <1>2, <1>5 DEF SourcesInv
  <1> HIDE DEF sample
  <1>7. usage' \in Samples /\ SourcesInv(entry, probe, usage', history, clock)
    BY <1>1, <1>4, <1>6
  <1>8. /\ file' \in Files \cup {NoFile} /\ problem' \in BOOLEAN
        /\ failures' \in 0..MaxFailures
        /\ FileInv(file', history, clock)
    <2>1. CASE UNCHANGED cache
      BY <2>1 DEF IInv, TypeOK, cache
    <2>2. CASE persistModelsLocked(entry, probe, usage')
      BY <1>1, <1>7, <2>2, PersistedIsTrue
    <2>3. QED
      BY <1>4, <2>1, <2>2
  <1>9. /\ caller' \in [Callers -> [class: Classes, at: Nat]]
        /\ \A d \in Callers : SampleInv(caller'[d].class, caller'[d].at, history, clock)
    <2>1. Idle \in [class: Classes, at: Nat] /\ SampleInv(Idle.class, Idle.at, history, clock)
      BY DEF Idle, Classes, SampleInv
    <2>2. \A d \in Callers : caller'[d] = IF d = c THEN Idle ELSE caller[d]
      BY <1>4, TasksFacts
    <2>3. QED
      BY <1>4, <2>1, <2>2, TasksFacts
  <1>10. clock' = clock /\ rule' = rule /\ version' = version /\ history' = history
         /\ package' = package
    BY <1>4 DEF vendor
  <1>11. TypeOK'
    BY <1>1, <1>4, <1>7, <1>8, <1>9, <1>10 DEF IInv, TypeOK
  <1>12. TasksInv'
    BY <1>4, <1>9, <1>10 DEF IInv, TasksInv
  <1>13. /\ SourcesInv(entry', probe', usage', history', clock')
         /\ FileInv(file', history', clock')
         /\ HistoryInv(history', clock')
         /\ history'[clock'] = [rule |-> rule', version |-> version']
    BY <1>4, <1>7, <1>8, <1>10 DEF IInv
  <1>14. QED
    BY <1>11, <1>12, <1>13 DEF IInv

\* The steps that only change the ledger, or note a request or a probe.
LEMMA NotingInv ==
    ASSUME IInv, NothingReported \/ markModelQuotaBlocked \/ QuotaBack \/ ProbeBegin
    PROVE  IInv'
  <1>1. CASE NothingReported
    <2>1. /\ requested' = TRUE /\ ledger' = ledger /\ lastProbe' = lastProbe
          /\ probing' = probing /\ caller' = caller
          /\ UNCHANGED <<vendor, up, sources, cache, crashes>>
      BY <1>1 DEF NothingReported, tasks
    <2>2. QED
      BY <2>1, TasksFacts, TasksStep
  <1>2. CASE markModelQuotaBlocked
    <2>1. /\ ledger' = [ledger EXCEPT !.blocked = TRUE, !.at = clock]
          /\ requested' = TRUE /\ lastProbe' = lastProbe
          /\ probing' = probing /\ caller' = caller
          /\ UNCHANGED <<vendor, up, sources, cache, crashes>>
      BY <1>2 DEF markModelQuotaBlocked, tasks
    <2>2. /\ ledger' \in Ledgers /\ ledger'.class = ledger.class
          /\ ledger'.learnt = ledger.learnt
      BY <2>1, TasksFacts, ChargeNow DEF Ledgers
    <2>3. QED
      BY <2>1, <2>2, TasksFacts, TasksStep
  <1>3. CASE QuotaBack
    <2>1. /\ ledger' = [ledger EXCEPT !.blocked = FALSE]
          /\ requested' = requested /\ lastProbe' = lastProbe
          /\ probing' = probing /\ caller' = caller
          /\ UNCHANGED <<vendor, up, sources, cache, crashes>>
      BY <1>3 DEF QuotaBack, tasks
    <2>2. /\ ledger' \in Ledgers /\ ledger'.class = ledger.class
          /\ ledger'.learnt = ledger.learnt
      BY <2>1, TasksFacts DEF Ledgers
    <2>3. QED
      BY <2>1, <2>2, TasksFacts, TasksStep
  <1>4. CASE ProbeBegin
    <2>1. /\ probing' = [step |-> "sent", now |-> clock] /\ lastProbe' = clock
          /\ requested' = requested /\ ledger' = ledger /\ caller' = caller
          /\ UNCHANGED <<vendor, up, sources, cache, crashes>>
      BY <1>4 DEF ProbeBegin
    <2>2. QED
      BY <2>1, ChargeNow, TasksFacts, TasksStep
  <1>5. QED
    BY <1>1, <1>2, <1>3, <1>4

\* A probe ends: its verdict is of the price now, and it is dated when it was sent.
LEMMA ProbeEndInv ==
    ASSUME IInv, ProbeEnd
    PROVE  IInv'
  <1>1. entry \in Entries /\ probe \in Verdicts /\ usage \in Samples
        /\ SourcesInv(entry, probe, usage, history, clock)
    BY DEF IInv, TypeOK
  <1>2. probing.now \in Nat /\ probing.now \in 1..clock /\ clock \in Nat
    BY TasksFacts, ChargeNow DEF ProbeEnd
  <1>3. probe' \in Verdicts /\ VerdictInv(probe', history, clock)
    <2>1. PICK verdict \in probeModelPrice :
            probe' = IF verdict = "none"
                     THEN [probe EXCEPT !.lastProbeAt = probing.now,
                             !.verdictAt = IF probe.verdictAt = 0 /\ probe.verdict # "none"
                                           THEN probe.lastProbeAt ELSE probe.verdictAt]
                     ELSE [lastProbeAt |-> probing.now, verdictAt |-> probing.now,
                           verdict |-> verdict,
                           freeUntil |-> FreeUntil(entry, verdict, probing.now)]
      BY DEF ProbeEnd
    <2>2. CASE verdict = "none"
      <3> DEFINE at == IF probe.verdictAt = 0 /\ probe.verdict # "none"
                       THEN probe.lastProbeAt ELSE probe.verdictAt
      <3>1. at \in Nat /\ (probe.verdict # "none" => at = probe.verdictAt)
        BY <1>1 DEF Verdicts, SourcesInv, VerdictInv
      <3>2. probe' = [probe EXCEPT !.lastProbeAt = probing.now, !.verdictAt = at]
        BY <2>1, <2>2
      <3> HIDE DEF at
      <3>3. probe' \in Verdicts /\ probe'.verdict = probe.verdict /\ probe'.verdictAt = at
        BY <1>1, <1>2, <3>1, <3>2 DEF Verdicts
      <3>4. VerdictInv(probe', history, clock)
        BY <1>1, <3>1, <3>3 DEF SourcesInv, VerdictInv
      <3>5. QED
        BY <3>3, <3>4
    <2>3. CASE verdict # "none"
      <3> DEFINE until == FreeUntil(entry, verdict, probing.now)
      <3>1. verdict = Class(Charge(history, clock)) /\ verdict \in {"free", "paid"}
        BY <2>3, ChargeNow, ClassIsClass DEF probeModelPrice
      <3>2. until \in Nat
        BY <1>1, FreeUntilIsNat
      <3>3. probe' = [lastProbeAt |-> probing.now, verdictAt |-> probing.now,
                      verdict |-> verdict, freeUntil |-> until]
        BY <2>1, <2>3
      <3> HIDE DEF until
      <3>4. probe' \in Verdicts /\ probe'.verdict = verdict /\ probe'.verdictAt = probing.now
        BY <1>2, <3>1, <3>2, <3>3 DEF Verdicts
      <3>5. clock \in probing.now..clock /\ probing.now > 0
        BY <1>2
      <3>6. VerdictInv(probe', history, clock)
        BY <3>1, <3>4, <3>5 DEF VerdictInv
      <3>7. QED
        BY <3>4, <3>6
    <2>4. QED
      BY <2>2, <2>3
  <1>4. SourcesInv(entry, probe', usage, history, clock)
    BY <1>1, <1>3 DEF SourcesInv
  <1>5. /\ persistModelsLocked(entry, probe', usage) /\ probing' = NotProbing
        /\ entry' = entry /\ usage' = usage /\ up' = up /\ ledger' = ledger
        /\ requested' = requested /\ caller' = caller /\ lastProbe' = lastProbe
        /\ crashes' = crashes /\ UNCHANGED vendor
    BY DEF ProbeEnd
  <1>6. /\ file' \in Files \cup {NoFile} /\ problem' \in BOOLEAN
        /\ failures' \in 0..MaxFailures
        /\ FileInv(file', history, clock)
    BY <1>1, <1>3, <1>4, <1>5, PersistedIsTrue
  <1>7. clock' = clock /\ rule' = rule /\ version' = version /\ history' = history
        /\ package' = package
    BY <1>5 DEF vendor
  <1>8. probing' \in [step: {"idle", "sent"}, now: Nat] /\ probing'.step = "idle"
    BY <1>5 DEF NotProbing
  <1>9. TypeOK'
    BY <1>1, <1>3, <1>5, <1>6, <1>7, <1>8 DEF IInv, TypeOK
  <1>10. TasksInv'
    BY <1>5, <1>7, <1>8 DEF IInv, TasksInv
  <1>11. /\ SourcesInv(entry', probe', usage', history', clock')
         /\ FileInv(file', history', clock')
         /\ HistoryInv(history', clock')
         /\ history'[clock'] = [rule |-> rule', version |-> version']
    BY <1>4, <1>5, <1>6, <1>7 DEF IInv
  <1>12. QED
    BY <1>9, <1>10, <1>11 DEF IInv

LEMMA InitInv == Init => IInv
  <1> SUFFICES ASSUME Init PROVE IInv
    OBVIOUS
  <1>1. /\ clock = 1 /\ rule \in Rules /\ version = 1
        /\ history = [h \in 1..1 |-> [rule |-> rule, version |-> version]]
        /\ file = NoFile
    BY DEF Init
  <1>2. \A h \in 1..1 : h = 1
    OBVIOUS
  <1>3. /\ history \in [1..1 -> [rule: Rules, version: Nat]]
        /\ history[1] = [rule |-> rule, version |-> version]
    BY <1>1, <1>2
  <1>4. HistoryInv(history, clock)
    BY <1>1, <1>2, <1>3 DEF HistoryInv
  <1>5. NoEntry \in Entries /\ NoVerdict \in Verdicts /\ NoUsage \in Samples
        /\ NoLedger \in Ledgers /\ NotProbing \in [step: {"idle", "sent"}, now: Nat]
        /\ Idle \in [class: Classes, at: Nat]
    BY DEF NoEntry, NoVerdict, NoUsage, NoLedger, NotProbing, Idle, Entries, Prices, Verdicts,
           Samples, Ledgers, Classes
  <1>6. TypeOK
    <2>1. history \in [1..clock -> [rule: Rules, version: Nat]]
      BY <1>1, <1>3
    <2>2. caller \in [Callers -> [class: Classes, at: Nat]]
      BY <1>5 DEF Init
    <2>3. 0 \in 0..MaxFailures /\ 0 \in 0..MaxCrashes
      BY BoundAssumption
    <2>4. /\ package \in PackagePrices /\ up = FALSE /\ problem = FALSE /\ requested = FALSE
          /\ entry = NoEntry /\ probe = NoVerdict /\ usage = NoUsage /\ ledger = NoLedger
          /\ probing = NotProbing /\ lastProbe = 0 /\ failures = 0 /\ crashes = 0
      BY DEF Init
    <2>5. clock \in Nat \ {0} /\ rule \in Rules /\ version \in Nat
      BY <1>1
    <2>6. /\ entry \in Entries /\ probe \in Verdicts /\ usage \in Samples
          /\ ledger \in Ledgers /\ probing \in [step: {"idle", "sent"}, now: Nat]
      BY Zenon, <1>5, <2>4
    <2>7. /\ lastProbe \in Nat /\ failures \in 0..MaxFailures
          /\ crashes \in 0..MaxCrashes
      BY <2>3, <2>4
    <2>8. up \in BOOLEAN /\ problem \in BOOLEAN /\ requested \in BOOLEAN
      BY <2>4
    <2>9. file \in Files \cup {NoFile}
      BY <1>1
    <2>10. QED
      BY Zenon, <2>1, <2>2, <2>4, <2>5, <2>6, <2>7, <2>8, <2>9 DEF TypeOK
  <1>7. SourcesInv(entry, probe, usage, history, clock)
    BY DEF Init, NoEntry, NoVerdict, NoUsage, SourcesInv, EntryInv, VerdictInv, SampleInv
  <1>8. TasksInv
    BY DEF Init, NoLedger, Idle, NotProbing, TasksInv, SampleInv
  <1>9. FileInv(file, history, clock)
    BY <1>1 DEF FileInv
  <1>10. QED
    BY <1>1, <1>3, <1>4, <1>6, <1>7, <1>8, <1>9 DEF IInv

LEMMA NextInv == IInv /\ [Next]_vars => IInv'
  <1> SUFFICES ASSUME IInv, [Next]_vars PROVE IInv'
    OBVIOUS
  <1>1. CASE Tick
    BY <1>1, TickInv
  <1>2. CASE Start
    BY <1>2, StartInv
  <1>3. CASE Crash
    BY <1>3, CrashInv
  <1>4. CASE refreshModelsOnce
    BY <1>4, RefreshInv
  <1>5. CASE ProbeBegin \/ NothingReported \/ markModelQuotaBlocked \/ QuotaBack
    BY <1>5, NotingInv
  <1>6. CASE ProbeEnd
    BY <1>6, ProbeEndInv
  <1>7. CASE \E c \in Callers : observeModelCredit(c) \/ recordRateUsage(c)
    BY <1>7, ObserveInv, RecordInv
  <1>8. CASE UNCHANGED vars
    <2>1. /\ UNCHANGED <<vendor, up, sources, cache, crashes>>
          /\ ledger' = ledger /\ requested' = requested /\ lastProbe' = lastProbe
          /\ probing' = probing /\ caller' = caller
      BY <1>8 DEF vars, tasks
    <2>2. QED
      BY <2>1, TasksFacts, TasksStep
  <1>9. QED
    BY <1>1, <1>2, <1>3, <1>4, <1>5, <1>6, <1>7, <1>8 DEF Next

LEMMA Invariant == Spec => []IInv
  BY InitInv, NextInv, PTL DEF Spec

-----------------------------------------------------------------------------
(* The theorems. *)

\* Type correctness: every variable of the catalogue keeps the type it is declared
\* with.
THEOREM TypeCorrect == Spec => []TypeOK
  <1>1. IInv => TypeOK
    BY DEF IInv
  <1>2. QED
    BY <1>1, Invariant, PTL

\* The time the console gives for the last check is when the entry was really read:
\* neither a failed refresh nor a restart moves it.
THEOREM CheckedIsRead == Spec => []CheckedWhenRead
  <1>1. IInv => CheckedWhenRead
    BY DEF IInv, SourcesInv, EntryInv, CheckedWhenRead
  <1>2. QED
    BY <1>1, Invariant, PTL

\* Memory and file agree, or the console warns of it (persistModelsLocked).
THEOREM UnsavedIsKnown == Spec => []SavedOrWarned
  <1> DEFINE SInv == up /\ ~problem => Stored(entry, probe, usage)
                       = IF file = NoFile THEN Stored(NoEntry, NoVerdict, NoUsage) ELSE file
  <1>1. Init => SInv
    BY DEF Init
  <1>2. IInv /\ SInv /\ [Next]_vars => SInv'
    <2> SUFFICES ASSUME IInv, SInv, [Next]_vars PROVE SInv'
      OBVIOUS
    <2>1. ASSUME persistModelsLocked(entry', probe', usage'),
                 entry' \in Entries, probe' \in Verdicts, usage' \in Samples
          PROVE  SInv'
      <3>1. CASE file' = Stored(entry', probe', usage')
        <4> DEFINE f == [entry' EXCEPT !.cached = FALSE]
        <4>1. f \in Entries
          BY <2>1 DEF Entries
        <4>2. file' = [entry |-> f, probe |-> probe', usage |-> usage']
          BY <3>1 DEF Stored
        <4> HIDE DEF f
        <4>3. file' \in Files
          BY <2>1, <4>1, <4>2 DEF Files
        <4>4. file' # NoFile
          BY <4>3, FileAssumption
        <4>5. QED
          BY <3>1, <4>4
      <3>2. CASE problem' = TRUE
        BY <3>2
      <3>3. QED
        BY <2>1, <3>1, <3>2 DEF persistModelsLocked
    <2>2. IInv' => entry' \in Entries /\ probe' \in Verdicts /\ usage' \in Samples
      BY DEF IInv, TypeOK
    <2>3. entry' \in Entries /\ probe' \in Verdicts /\ usage' \in Samples
      BY <2>2, NextInv
    <2>4. ASSUME UNCHANGED <<up, sources, cache>> PROVE SInv'
      BY <2>4 DEF sources, cache
    <2>5. CASE Start
      <3>1. CASE persistModelsLocked(entry', probe', usage')
        BY <2>1, <2>3, <3>1
      <3>2. CASE UNCHANGED cache /\ ~persistModelsLocked(entry', probe', usage')
        <4> DEFINE loaded == IF file = NoFile THEN Stored(NoEntry, NoVerdict, NoUsage) ELSE file
        <4>1. /\ entry' = [loaded.entry EXCEPT !.cached = loaded.entry.source # "none"]
              /\ probe' = loaded.probe /\ usage' = loaded.usage
              /\ file' = file
          BY <2>5, <3>2 DEF Start, cache
        <4>2. loaded \in Files /\ ~loaded.entry.cached
          <5>1. CASE file = NoFile
            <6> DEFINE e == [NoEntry EXCEPT !.cached = FALSE]
            <6>1. loaded = [entry |-> e, probe |-> NoVerdict, usage |-> NoUsage]
              BY <5>1 DEF Stored
            <6>2. clock \in Nat /\ FALSE \in BOOLEAN
              BY DEF IInv, TypeOK
            <6>3. e \in Entries /\ e.cached = FALSE
              BY <6>2, NothingIsTrue, CachedStaysTrue
            <6> HIDE DEF e, loaded
            <6>4. loaded \in Files /\ loaded.entry = e
              BY <6>1, <6>3, NothingIsTrue DEF Files
            <6>5. QED
              BY <6>3, <6>4
          <5>2. CASE file # NoFile
            BY <5>2 DEF IInv, TypeOK, FileInv
          <5>3. QED
            BY <5>1, <5>2
        <4> HIDE DEF loaded
        <4>3. loaded.entry \in Entries
              /\ loaded = [entry |-> loaded.entry, probe |-> loaded.probe, usage |-> loaded.usage]
          BY <4>2 DEF Files
        <4>4. [entry' EXCEPT !.cached = FALSE] = loaded.entry
          BY <4>1, <4>2, <4>3 DEF Entries
        <4>5. Stored(entry', probe', usage') = loaded
          BY <4>1, <4>3, <4>4 DEF Stored
        <4>6. QED
          BY <4>1, <4>5 DEF loaded
      <3>3. QED
        BY <2>5, <3>1, <3>2 DEF Start
    <2>6. CASE Crash
      BY <2>6 DEF Crash
    <2>7. CASE refreshModelsOnce
      <3>1. persistModelsLocked(entry', probe', usage')
        BY <2>7 DEF refreshModelsOnce
      <3>2. QED
        BY <2>1, <2>3, <3>1
    <2>8. CASE ProbeEnd
      <3>1. persistModelsLocked(entry', probe', usage')
        BY <2>8 DEF ProbeEnd
      <3>2. QED
        BY <2>1, <2>3, <3>1
    <2>9. ASSUME NEW c \in Callers, recordRateUsage(c) PROVE SInv'
      <3>1. \/ persistModelsLocked(entry', probe', usage')
            \/ UNCHANGED <<up, sources, cache>>
        BY <2>9 DEF recordRateUsage, sources
      <3>2. QED
        BY <2>1, <2>3, <2>4, <3>1
    <2>10. ASSUME Tick \/ ProbeBegin \/ NothingReported \/ markModelQuotaBlocked \/ QuotaBack
                    \/ \E c \in Callers : observeModelCredit(c)
           PROVE  SInv'
      <3>1. UNCHANGED <<up, sources, cache>>
        BY <2>10 DEF Tick, ProbeBegin, NothingReported, markModelQuotaBlocked, QuotaBack,
                     observeModelCredit
      <3>2. QED
        BY <2>4, <3>1
    <2>11. CASE UNCHANGED vars
      BY <2>4, <2>11 DEF vars
    <2>12. QED
      BY <2>5, <2>6, <2>7, <2>8, <2>9, <2>10, <2>11 DEF Next
  <1>3. SInv <=> SavedOrWarned
    BY DEF SavedOrWarned
  <1>4. QED
    BY <1>1, <1>2, <1>3, Invariant, PTL DEF Spec

\* Results of calls that come in another order than the calls ended in: of the samples
\* the newest stays (recordRateUsage).
THEOREM NewestStays == Spec => NewestSampleStays
  <1>1. IInv /\ [Next]_vars => [up /\ up' => usage'.at >= usage.at]_vars
    <2> SUFFICES ASSUME IInv, Next, up, up' PROVE usage'.at >= usage.at
      OBVIOUS
    <2>1. usage.at \in Nat
      BY DEF IInv, TypeOK, Samples
    <2>2. ASSUME NEW c \in Callers, recordRateUsage(c) PROVE usage'.at >= usage.at
      <3> DEFINE at == caller[c].at
      <3>1. at \in Nat
        BY TasksFacts
      <3>2. CASE olderThan(at)
        <4>1. usage' = usage
          BY <2>2, <3>2 DEF recordRateUsage
        <4>2. QED
          BY <2>1, <4>1
      <3>3. CASE ~olderThan(at)
        <4>1. usage'.at = at
          BY <2>2, <3>3 DEF recordRateUsage
        <4>2. QED
          BY <2>1, <3>1, <3>3, <4>1 DEF olderThan
      <3>4. QED
        BY <3>2, <3>3
    <2>3. CASE Start \/ Crash
      BY <2>3 DEF Start, Crash
    <2>4. ASSUME \/ Tick \/ refreshModelsOnce \/ ProbeBegin \/ ProbeEnd
                 \/ NothingReported \/ markModelQuotaBlocked \/ QuotaBack
                 \/ \E c \in Callers : observeModelCredit(c)
          PROVE  usage'.at >= usage.at
      <3>1. usage' = usage
        BY <2>4 DEF Tick, refreshModelsOnce, ProbeBegin, ProbeEnd, NothingReported,
                    markModelQuotaBlocked, QuotaBack, observeModelCredit, sources
      <3>2. QED
        BY <2>1, <3>1
    <2>5. QED
      BY <2>2, <2>3, <2>4 DEF Next
  <1>2. QED
    BY <1>1, Invariant, PTL DEF Spec, NewestSampleStays

\* When the catalogue is the vendor's last word, calls were charged as they are now
\* since the hour its price last changed.
LEMMA ChargedSinceChange ==
    ASSUME IInv, ShownCondition
    PROVE  /\ entry \in Entries /\ rule \in Rules /\ clock \in Nat /\ Parsed(entry, rule)
           /\ Tells(entry, rule, clock)
           /\ catalogRateAt(entry, clock).changed \in Nat
           /\ \A h \in 1..clock : catalogRateAt(entry, clock).changed <= h
                                  => Charge(history, h) = Real(rule, clock)
  <1> DEFINE changed == catalogRateAt(entry, clock).changed
  <1>1. /\ entry \in Entries /\ rule \in Rules /\ clock \in Nat /\ clock \in 1..clock
        /\ history \in Histories(clock) /\ version \in Nat
    BY DEF IInv, TypeOK, Histories
  <1>2. /\ entry.source = "live" /\ entry.version = version /\ ~entry.missed
        /\ Settled(entry, clock)
        /\ \A h \in 1..clock : changed <= h => Tells(entry, history[h].rule, h)
    <2>1. changed \in Nat
      BY <1>1, ChangedFacts
    <2>2. QED
      BY <2>1 DEF ShownCondition
  <1>3. /\ entry.readAt \in 1..clock /\ entry.version = history[entry.readAt].version
        /\ Parsed(entry, history[entry.readAt].rule)
        /\ HoldsSinceChange(entry, history, clock)
    BY <1>2 DEF IInv, SourcesInv, EntryInv
  <1>4. history[clock].version = version /\ history[clock].rule = rule
    BY DEF IInv
  <1>5. history[entry.readAt].rule = rule
    BY <1>1, <1>2, <1>3, <1>4 DEF IInv, HistoryInv
  <1>6. Parsed(entry, rule) /\ changed \in Nat /\ changed <= clock
    <2>1. entry.changedAt \in Nat /\ entry.from \in Nat /\ entry.until \in Nat
      BY <1>1 DEF Entries
    <2>2. changed \in {t \in {entry.from, entry.until} : t # 0 /\ clock >= t}
                      \cup {entry.changedAt}
      BY <1>1, <2>1, ChangedIsNewest
    <2>3. entry.changedAt <= clock
      BY DEF IInv, SourcesInv, EntryInv
    <2>4. QED
      BY <1>1, <1>3, <1>5, <2>1, <2>2, <2>3
  <1>7. Tells(entry, rule, clock)
    BY <1>1, <1>2, <1>4, <1>6
  <1>8. ASSUME NEW h \in 1..clock, changed <= h
        PROVE  Charge(history, h) = Real(rule, clock)
    <2>1. history[h].version <= entry.version
      BY <1>1, <1>2, <1>4 DEF IInv, HistoryInv
    <2>2. CASE catalogRateAt(entry, clock).known
      <3>1. Charge(history, h) = catalogRateAt(entry, clock).value
        BY <1>2, <1>3, <1>8, <2>1, <2>2 DEF HoldsSinceChange
      <3>2. catalogRateAt(entry, clock).value = Real(rule, clock)
        BY <1>1, <1>6, <1>7, <2>2, RateIsReal
      <3>3. QED
        BY <3>1, <3>2
    <2>3. CASE ~catalogRateAt(entry, clock).known
      <3>1. entry.until # 0 /\ clock >= entry.until /\ entry.until \in Nat
        BY <1>1, <1>2, <2>3 DEF Settled, Entries
      <3>2. h >= entry.until /\ h \in Nat
        <4>1. changed >= entry.until
          BY <1>1, <3>1, ChangedFacts
        <4>2. QED
          BY <1>1, <1>6, <1>8, <3>1, <4>1
      <3>3. ~NoneOver(rule, h)
        <4>1. entry.readAt \in Nat /\ entry.until = hit(rule, entry.readAt).until
          BY <1>1, <1>6 DEF Parsed, Entries
        <4>2. hit(rule, entry.readAt) # NoPromotion
          BY <3>1, <4>1 DEF NoPromotion
        <4>3. PICK i \in DOMAIN rule.promotions :
                    hit(rule, entry.readAt) = rule.promotions[i]
          BY <1>1, <4>1, <4>2, HitFacts
        <4>4. QED
          BY <3>1, <3>2, <4>1, <4>3 DEF NoneOver
      <3>4. history[h].rule = rule
        <4>1. h <= clock
          BY <1>1
        <4>2. history[h].version = history[clock].version
          BY <1>1, <1>4, <3>3, <4>1 DEF IInv, HistoryInv
        <4>3. QED
          BY <1>1, <1>4, <4>2 DEF IInv, HistoryInv
      <3>5. ASSUME NEW k \in Nat, k >= entry.until, Tells(entry, rule, k), k \in 1..clock
            PROVE  Real(rule, k) = rule.real
        <4>1. ~promoActive(entry, k)
          BY <3>1, <3>5 DEF promoActive
        <4>2. CASE InForce(rule, k) = {}
          BY <4>2 DEF Real
        <4>3. CASE InForce(rule, k) # {}
          <5>1. k = entry.readAt
            BY <3>5, <4>1, <4>3 DEF Tells
          <5>2. promoActive(hit(rule, k), k)
            BY <1>1, <3>5, <4>3, HitFacts
          <5>3. promoActive(entry, k)
            BY <1>6, <5>1, <5>2 DEF Parsed, promoActive
          <5>4. QED
            BY <4>1, <5>3
        <4>4. QED
          BY <4>2, <4>3
      <3>6. Real(rule, h) = rule.real /\ Real(rule, clock) = rule.real
        BY <1>1, <1>2, <1>7, <1>8, <3>1, <3>2, <3>4, <3>5
      <3>7. QED
        BY <3>4, <3>6 DEF Charge
    <2>4. QED
      BY <2>2, <2>3
  <1>9. QED
    BY <1>1, <1>6, <1>7, <1>8

\* So whatever evidence is not older than the price says what is charged now.
LEMMA EvidenceIsCharged ==
    ASSUME IInv, ShownCondition, Evidence \in {"free", "paid"}
    PROVE  Evidence = Class(Real(rule, clock))
  <1> DEFINE changed == catalogRateAt(entry, clock).changed
             over(until) == until # 0 /\ clock >= until
             boundary == IF over(usage.freeUntil) THEN Max({changed, usage.freeUntil})
                         ELSE changed
             sample == IF usage.at > 0 /\ usage.at >= boundary THEN usage.class
                       ELSE "unknown"
             probeAt == IF probe.verdictAt = 0 THEN probe.lastProbeAt ELSE probe.verdictAt
             probed == /\ probe.verdict # "none" /\ probeAt >= changed
                       /\ ~(probe.verdict = "free" /\ over(probe.freeUntil))
  <1>1. \/ probed /\ Evidence = probe.verdict
        \/ Evidence = sample
    <2>1. entry.source = "live"
      BY DEF ShownCondition
    <2>2. QED
      BY <2>1 DEF Evidence
  <1>2. /\ changed \in Nat /\ clock \in Nat
        /\ \A h \in 1..clock : changed <= h => Charge(history, h) = Real(rule, clock)
    BY ChargedSinceChange
  <1>3. usage \in Samples /\ probe \in Verdicts
        /\ VerdictInv(probe, history, clock)
        /\ SampleInv(usage.class, usage.at, history, clock)
    BY DEF IInv, TypeOK, SourcesInv, ShownCondition, RestoredAtItsTime
  <1>4. CASE probed /\ Evidence = probe.verdict
    <2>1. probe.verdictAt > 0 /\ probe.verdictAt \in Nat
      BY <1>3, <1>4 DEF VerdictInv, Verdicts
    <2>2. changed <= probe.verdictAt
      BY <1>2, <1>4, <2>1
    <2>3. PICK h \in probe.verdictAt..clock : probe.verdict = Class(Charge(history, h))
      BY <1>3, <1>4 DEF VerdictInv
    <2>4. h \in 1..clock /\ changed <= h
      BY <1>2, <2>1, <2>2
    <2>5. QED
      BY <1>2, <1>4, <2>3, <2>4
  <1>5. CASE Evidence = sample
    <2>1. sample # "unknown"
      BY <1>5
    <2>2. usage.at >= boundary /\ Evidence = usage.class /\ usage.class # "unknown"
      BY <1>5, <2>1
    <2>3. usage.at \in 1..clock /\ usage.class = Class(Charge(history, usage.at))
      BY <1>3, <2>2 DEF SampleInv
    <2>4. changed <= boundary /\ boundary \in Nat
      <3>1. usage.freeUntil \in Nat
        BY <1>3 DEF Samples
      <3>2. \E x \in {changed, usage.freeUntil} :
                \A y \in {changed, usage.freeUntil} : x >= y
        BY <1>2, <3>1
      <3>3. /\ Max({changed, usage.freeUntil}) \in {changed, usage.freeUntil}
            /\ Max({changed, usage.freeUntil}) >= changed
        BY <3>2 DEF Max
      <3>4. QED
        BY <1>2, <3>1, <3>3
    <2>5. changed <= usage.at
      BY <1>2, <2>2, <2>3, <2>4
    <2>6. QED
      BY <1>2, <2>2, <2>3, <2>5
  <1>6. QED
    BY <1>1, <1>4, <1>5

\* What the console shows is what a call is charged: for any rules of the vendor, any
\* number of callers and of refreshes, restarts and failed writes between them
\* (resolveRateEvidence).
THEOREM ShownCharged == Spec => []ShownIsCharged
  <1>1. IInv => ShownIsCharged
    <2> SUFFICES ASSUME IInv, ShownCondition PROVE ShownRight
      BY DEF ShownIsCharged, ShownCondition
    <2> DEFINE rate == catalogRateAt(entry, clock)
    <2>1. Tells(entry, rule, clock)
      BY ChargedSinceChange
    <2>2. entry \in Entries /\ rule \in Rules /\ clock \in Nat /\ Parsed(entry, rule)
      BY ChargedSinceChange
    <2>3. Real(rule, clock) \in Nat
      BY <2>2, RealIsNat
    <2>4. rate.known => rate.value = Real(rule, clock)
      BY <2>1, <2>2, RateIsReal
    <2>5. /\ Evidence = "free" => Real(rule, clock) = 0
          /\ Evidence = "paid" => Real(rule, clock) > 0
      BY <2>3, EvidenceIsCharged DEF Class
    <2> HIDE DEF rate
    <2>6. resolveRateEvidence =
              CASE Evidence = "free" -> Price(0)
                [] Evidence = "paid" /\ ~(rate.known /\ rate.value > 0) -> Charged
                [] OTHER -> IF rate.known THEN Price(rate.value) ELSE Unknown
      <3>1. entry.source = "live"
        BY DEF ShownCondition
      <3>2. entry.source # "none"
        BY <3>1
      <3>3. QED
        BY <3>2, Zenon DEF resolveRateEvidence, rate
    <2>7. CASE Evidence = "free"
      <3>1. resolveRateEvidence = Price(0)
        BY <2>6, <2>7
      <3>2. QED
        BY <2>5, <2>7, <3>1 DEF Price, ShownRight
    <2>8. CASE Evidence = "paid" /\ ~(rate.known /\ rate.value > 0)
      <3>1. resolveRateEvidence = Charged
        BY <2>6, <2>8
      <3>2. QED
        BY <2>5, <2>8, <3>1 DEF Charged, ShownRight
    <2>9. CASE /\ Evidence # "free"
               /\ ~(Evidence = "paid" /\ ~(rate.known /\ rate.value > 0))
      <3>1. resolveRateEvidence = IF rate.known THEN Price(rate.value) ELSE Unknown
        BY <2>6, <2>9
      <3>2. QED
        BY <2>4, <3>1 DEF Price, Unknown, ShownRight
    <2>10. QED
      BY <2>7, <2>8, <2>9
  <1>2. QED
    BY <1>1, Invariant, PTL
=============================================================================
