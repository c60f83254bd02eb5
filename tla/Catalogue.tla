------------------------------- MODULE Catalogue -------------------------------
(***************************************************************************)
(* What a model costs on a site (models.go, rate_resolution.go, probe.go): *)
(* the catalogue the gateway fetches from the vendor's interface and from  *)
(* an npm package, the price that calls report, the probes it makes of its *)
(* own, the cache on disk that keeps all three, and the value the console  *)
(* shows, resolved from them at the moment it is asked.                    *)
(*                                                                         *)
(* One site and one model.  A rule is what the vendor says of the model    *)
(* and what it charges; a call is charged by the rule of the hour it ends  *)
(* in.  Capabilities, aliases and the counters of the console are left     *)
(* out, and so is the choice of the account a probe is made with.          *)
(***************************************************************************)
EXTENDS Integers, Sequences, FiniteSetsExt

CONSTANTS
    Callers,        \* those who call the model, any number of times
    Rules,          \* what the vendor may say
    PackagePrices,  \* what the npm package may say
    NoPrice, NoFile,
    Interval,       \* modelAPIPriceProbeInterval, twelve hours
    MaxHour,        \* bound: where the clock stops
    MaxVersion,     \* bound: the last of the vendor's rules
    MaxFailures,    \* bound: failed writes of the cache
    MaxCrashes      \* bound: ends of the process

Prices == Nat \cup {NoPrice}

ASSUME PriceAssumption == NoPrice \notin Nat /\ PackagePrices \subseteq Prices

ASSUME BoundAssumption == {Interval, MaxHour, MaxVersion, MaxFailures, MaxCrashes} \subseteq Nat

\* A promotion, and what the vendor says of a model: the credits it gives, what it
\* really charges without a promotion, and its promotions in the order it lists them.
Promotions == [factor: Nat, from: Nat, until: Nat]  \* a time of 0: no such time
NoPromotion == [factor |-> NoPrice, from |-> 0, until |-> 0]

ASSUME RuleAssumption ==
    Rules \subseteq [listed: BOOLEAN, credits: Prices, real: Nat, promotions: Seq(Promotions)]

VARIABLES
    clock, rule, version,   \* the vendor's rule and its number
    history,                \* history: the rule of every hour so far
    package,                \* what the package says
    up,
    entry,      \* catalogModels of the site, for the model
    probe,      \* modelProbes
    usage,      \* modelRateUsage
    problem,    \* rateSourcesProblem is set
    file,       \* wb-models-cache.json
    ledger,     \* acc.ModelStates of the account, which the status snapshot keeps
    requested,  \* modelRequestCount > 0
    probing,    \* the probe of modelPriceProbeOnce under way
    caller,     \* a price observed and not yet recorded
    lastProbe,  \* history: when a probe was last sent
    failures, crashes   \* counters of the bounds

vendor == <<clock, rule, version, history, package>>
sources == <<entry, probe, usage>>
cache == <<problem, file, failures>>
tasks == <<probing, caller>>
vars == <<vendor, up, sources, cache, ledger, requested, tasks, lastProbe,
          crashes>>

NoEntry == [source |-> "none", cached |-> FALSE, credits |-> NoPrice, base |-> 0,
            multiplier |-> 0, has |-> FALSE, factor |-> NoPrice, from |-> 0, until |-> 0,
            expired |-> FALSE, checkedAt |-> 0, changedAt |-> 0,
            \* history: the rule it was read from, when, and whether another rule
            \* came and went between two readings of the same price
            version |-> 0, readAt |-> 0, missed |-> FALSE]
NoVerdict == [lastProbeAt |-> 0, verdictAt |-> 0, verdict |-> "none", freeUntil |-> 0]
\* learnt: when the price was really reported (history).
NoUsage == [at |-> 0, class |-> "unknown", freeUntil |-> 0, learnt |-> 0]
NoLedger == [class |-> "unknown", at |-> 0, learnt |-> 0, blocked |-> FALSE]
NotProbing == [step |-> "idle", now |-> 0]
Idle == [class |-> "unknown", at |-> 0]

Classes == {"free", "paid", "unknown"}
Entries == [source: {"none", "live", "npm"}, cached: BOOLEAN, credits: Prices, base: Nat,
            multiplier: Nat, has: BOOLEAN, factor: Prices, from: Nat, until: Nat,
            expired: BOOLEAN, checkedAt: Nat, changedAt: Nat,
            version: Nat, readAt: Nat, missed: BOOLEAN]
Verdicts == [lastProbeAt: Nat, verdictAt: Nat, verdict: {"none", "free", "paid"},
             freeUntil: Nat]
Samples == [at: Nat, class: Classes, freeUntil: Nat, learnt: Nat]
Ledgers == [class: Classes, at: Nat, learnt: Nat, blocked: BOOLEAN]
Files == [entry: Entries, probe: Verdicts, usage: Samples]

ASSUME FileAssumption == NoFile \notin Files

TypeOK ==
    /\ clock \in Nat \ {0} /\ rule \in Rules /\ version \in Nat
    /\ history \in [1..clock -> [rule: Rules, version: Nat]]
    /\ package \in PackagePrices
    /\ up \in BOOLEAN
    /\ entry \in Entries /\ probe \in Verdicts /\ usage \in Samples
    /\ problem \in BOOLEAN
    /\ file \in Files \cup {NoFile}
    /\ ledger \in Ledgers
    /\ requested \in BOOLEAN
    /\ probing \in [step: {"idle", "sent"}, now: Nat]
    /\ caller \in [Callers -> [class: Classes, at: Nat]]
    /\ lastProbe \in Nat /\ failures \in 0..MaxFailures /\ crashes \in 0..MaxCrashes

-----------------------------------------------------------------------------
(* The vendor. *)

promoActive(p, now) ==
    /\ p.factor # NoPrice
    /\ now >= p.from
    /\ p.until = 0 \/ now < p.until

InForce(r, now) == {i \in DOMAIN r.promotions : promoActive(r.promotions[i], now)}
Lowest(r, now) == Min({r.promotions[i].factor : i \in InForce(r, now)})

Times(price, factor) == (IF price = NoPrice THEN 0 ELSE price) * factor

\* What a call is charged: of the promotions in force the lowest counts.
Real(r, now) == IF InForce(r, now) = {} THEN r.real
                ELSE Times(IF r.credits = NoPrice THEN r.real ELSE r.credits, Lowest(r, now))
Class(price) == IF price = 0 THEN "free" ELSE "paid"

NoneOver(r, now) == \A i \in DOMAIN r.promotions :
                        r.promotions[i].until = 0 \/ now < r.promotions[i].until

\* The hour goes by; the vendor changes its prices between two hours, and says of no
\* promotion that it was.
Tick ==
    /\ clock < MaxHour
    /\ clock' = clock + 1
    /\ \/ UNCHANGED <<rule, version>>
       \/ /\ version < MaxVersion
          /\ rule' \in {r \in Rules \ {rule} : NoneOver(r, clock')}
          /\ version' = version + 1
    /\ history' = [h \in 1..clock' |->
            IF h = clock' THEN [rule |-> rule', version |-> version'] ELSE history[h]]
    /\ UNCHANGED <<package, up, sources, cache, ledger, requested, tasks, lastProbe, crashes>>

-----------------------------------------------------------------------------
(* The catalogue. *)

\* Mutant: the first promotion that is listed is kept.
hitFirst(r, now) == IF r.promotions = <<>> THEN NoPromotion ELSE Head(r.promotions)

\* The one promotion an entry keeps: of those in force the first of the lowest, and
\* when none is in force the first that is listed.
hit(r, now) ==
    LET factor(i) == r.promotions[i].factor
        lowest == {i \in InForce(r, now) : factor(i) = Lowest(r, now)}
    IN  CASE r.promotions = <<>> -> NoPromotion
          [] r.promotions # <<>> /\ lowest = {} -> Head(r.promotions)
          [] OTHER -> r.promotions[Min(lowest)]

parseLiveCatalog(r, now) ==
    LET p == hit(r, now)
        on == promoActive(p, now)
    IN
    [NoEntry EXCEPT
        !.source = "live", !.credits = r.credits, !.base = Times(r.credits, 1),
        !.multiplier = Times(r.credits, IF on THEN p.factor ELSE 1),
        !.has = r.credits # NoPrice \/ (on /\ p.factor = 0),
        !.factor = p.factor, !.from = p.from, !.until = p.until,
        !.expired = p.factor # NoPrice /\ ~on,
        !.version = version, !.readAt = now]

parseNPMCatalog(price, now) ==
    [NoEntry EXCEPT !.source = "npm", !.credits = price, !.base = Times(price, 1),
                    !.multiplier = Times(price, 1), !.has = price # NoPrice, !.readAt = now]

\* Mutant: a promotion ends when the catalogue is fetched again.
promoOutsideAtFetch(e, now) == e.expired

\* Whether the promotion of an entry is not in force.
promoOutside(e, now) ==
    IF e.until # 0 /\ now >= e.until THEN TRUE
    ELSE IF e.from # 0 THEN now < e.from
    ELSE e.until = 0 /\ e.expired

\* What an entry says the model costs now, and when that last changed: a boundary
\* of a promotion that has gone by is a change.
catalogRateAt(e, now) ==
    LET past == {t \in {e.from, e.until} : t # 0 /\ now >= t}
        rate(known, value) == [known |-> known, value |-> value,
                               changed |-> Max(past \cup {e.changedAt})]
    IN  IF promoOutside(e, now) THEN rate(e.base > 0, e.base)
        ELSE IF e.factor = NoPrice \/ {e.from, e.until} = {0} THEN rate(e.has, e.multiplier)
        ELSE IF e.credits # NoPrice \/ e.factor = 0 THEN rate(TRUE, Times(e.credits, e.factor))
        ELSE rate(FALSE, e.multiplier)

sameCatalogRate(a, b) ==
    /\ <<a.has, a.multiplier, a.base, a.source, a.from, a.until, a.factor>>
           = <<b.has, b.multiplier, b.base, b.source, b.from, b.until, b.factor>>
    /\ {a.from, a.until} = {0} => a.expired = b.expired

\* The time of a price that was only repeated, or is missing, does not move.
stampCatalogRates(fresh, before, now) ==
    LET known == catalogRateAt(fresh, now).known
        same == sameCatalogRate(before, fresh)
    IN  IF fresh.source = "none" \/ (fresh.cached /\ fresh.checkedAt > 0) THEN fresh
        ELSE [fresh EXCEPT
                !.checkedAt = now,
                !.changedAt = IF known /\ ~same THEN now ELSE before.changedAt,
                !.missed = known /\ same
                           /\ (before.missed \/ before.version \notin {version - 1, version})]

mergeCatalogs(first, second) == IF first.source # "none" THEN first ELSE second

\* What a refresh of the site reads: the interface, or else the cache, and the package
\* for what they do not have.  (Of the two lists of the interface the first that has the
\* model is the one that counts.)
Fetched(liveOK, npmOK) ==
    LET live == IF rule.listed THEN parseLiveCatalog(rule, clock) ELSE NoEntry
        npm == IF npmOK THEN parseNPMCatalog(package, clock) ELSE NoEntry
    IN  mergeCatalogs(IF liveOK THEN live ELSE [entry EXCEPT !.cached = TRUE], npm)

-----------------------------------------------------------------------------
(* The cache. *)

Stored(e, p, u) == [entry |-> [e EXCEPT !.cached = FALSE], probe |-> p, usage |-> u]

\* Mutant: a write that fails is not noted.
persistModelsLockedQuietly(e, p, u) ==
    \/ file' = Stored(e, p, u) /\ problem' = FALSE /\ UNCHANGED failures
    \/ failures < MaxFailures /\ failures' = failures + 1 /\ UNCHANGED <<file, problem>>

persistModelsLocked(e, p, u) ==
    \/ file' = Stored(e, p, u) /\ problem' = FALSE /\ UNCHANGED failures
    \/ /\ failures < MaxFailures
       /\ failures' = failures + 1
       /\ problem' = TRUE
       /\ UNCHANGED file

\* The fetched catalogue is published; a model at 0.00x loses a verdict of "paid".  A
\* refresh that fetches nothing for this site nor for another writes nothing: it is no
\* step.
refreshModelsOnce ==
    /\ up
    /\ \E liveOK, npmOK \in BOOLEAN :
        entry' = stampCatalogRates(Fetched(liveOK, npmOK), entry, clock)
    /\ probe' = IF entry'.has /\ entry'.multiplier = 0 /\ ~entry'.expired
                   /\ probe.verdict = "paid"
                THEN NoVerdict ELSE probe
    /\ persistModelsLocked(entry', probe', usage)
    /\ UNCHANGED <<vendor, up, usage, ledger, requested, tasks, lastProbe, crashes>>

\* A free sample is bound to the promotion it was taken in (catalogFreeUntilLocked).
FreeUntil(e, class, at) ==
    IF class = "free" /\ e.until # 0 /\ at < e.until THEN e.until ELSE 0

Init ==
    /\ clock = 1 /\ rule \in Rules /\ version = 1 /\ package \in PackagePrices
    /\ history = [h \in 1..1 |-> [rule |-> rule, version |-> version]]
    /\ up = FALSE
    /\ entry = NoEntry /\ probe = NoVerdict /\ usage = NoUsage
    /\ problem = FALSE /\ file = NoFile /\ failures = 0
    /\ ledger = NoLedger /\ requested = FALSE
    /\ probing = NotProbing
    /\ caller = [c \in Callers |-> Idle]
    /\ lastProbe = 0 /\ crashes = 0

\* A price learnt by an account that was refused for its quota since is not kept.
sanitizeRestoredModelState(state) ==
    [state EXCEPT !.class = IF state.blocked /\ @ = "paid" THEN "unknown" ELSE @]

restoreRateUsage(e, state) ==
    [at |-> state.at, class |-> state.class, learnt |-> state.learnt,
     freeUntil |-> FreeUntil(e, state.class, state.at)]

\* loadModelsCache, and a sample from the account's ledger if the cache has none.
Start ==
    /\ ~up
    /\ up' = TRUE
    /\ ledger' = sanitizeRestoredModelState(ledger)
    /\ LET loaded == IF file = NoFile THEN Stored(NoEntry, NoVerdict, NoUsage) ELSE file
       IN  /\ entry' = [loaded.entry EXCEPT !.cached = loaded.entry.source # "none"]
           /\ probe' = loaded.probe
           /\ IF loaded.usage.at > 0 \/ ledger'.class = "unknown"
              THEN usage' = loaded.usage /\ UNCHANGED cache
              ELSE /\ usage' = restoreRateUsage(entry', ledger')
                   /\ persistModelsLocked(entry', probe', usage')
    /\ UNCHANGED <<vendor, requested, tasks, lastProbe, crashes>>

Crash ==
    /\ up
    /\ crashes < MaxCrashes
    /\ crashes' = crashes + 1
    /\ up' = FALSE
    /\ entry' = NoEntry /\ probe' = NoVerdict /\ usage' = NoUsage
    /\ problem' = FALSE /\ requested' = FALSE
    /\ probing' = NotProbing
    /\ caller' = [c \in Callers |-> Idle]
    /\ UNCHANGED <<vendor, file, failures, ledger, lastProbe>>

-----------------------------------------------------------------------------
(* The calls. *)

\* A call ends and reports its price: the account learns it.
observeModelCredit(c) ==
    /\ up
    /\ caller[c] = Idle
    /\ LET class == Class(Real(rule, clock)) IN
        /\ ledger' = [class |-> class, at |-> clock, learnt |-> clock,
                      blocked |-> ledger.blocked /\ class = "paid"]
        /\ caller' = [caller EXCEPT ![c] = [class |-> class, at |-> clock]]
    /\ requested' = TRUE
    /\ UNCHANGED <<vendor, up, sources, cache, probing, lastProbe, crashes>>

\* Mutant: the last to come is taken for the newest.
olderThanNever(at) == FALSE
olderThan(at) == usage.at > at

\* Under modelsMu, after another call may have got there first.
recordRateUsage(c) ==
    /\ up
    /\ caller[c] # Idle
    /\ caller' = [caller EXCEPT ![c] = Idle]
    /\ LET at == caller[c].at
           class == caller[c].class
       IN  IF olderThan(at) THEN UNCHANGED <<usage, cache>>
           ELSE /\ usage' = [at |-> at, class |-> class, learnt |-> at,
                             freeUntil |-> FreeUntil(entry, class, at)]
                /\ persistModelsLocked(entry, probe, usage')
    /\ UNCHANGED <<vendor, up, entry, probe, ledger, requested, probing, lastProbe, crashes>>

\* A call that reports no price, or zero for a sample too small to be one.
NothingReported ==
    /\ up
    /\ ~requested
    /\ requested' = TRUE
    /\ UNCHANGED <<vendor, up, sources, cache, ledger, tasks, lastProbe, crashes>>

\* A call is refused for the account's quota: the block takes the ledger's time.
markModelQuotaBlocked ==
    /\ up
    /\ ledger' = [ledger EXCEPT !.blocked = TRUE, !.at = clock]
    /\ requested' = TRUE
    /\ UNCHANGED <<vendor, up, sources, cache, tasks, lastProbe, crashes>>

\* applyQuotaObservation: the account has a quota again.
QuotaBack ==
    /\ up
    /\ ledger.blocked
    /\ ledger' = [ledger EXCEPT !.blocked = FALSE]
    /\ UNCHANGED <<vendor, up, sources, cache, requested, tasks, lastProbe, crashes>>

-----------------------------------------------------------------------------
(* The probes (modelPriceProbeOnce): one at a time, when they are switched on. *)

modelNeedsProbe ==
    IF entry.source = "live" THEN entry.has /\ entry.multiplier = 0 /\ entry.expired
    ELSE entry.source # "none" /\ requested

ProbeBegin ==
    /\ up
    /\ probing.step = "idle"
    /\ modelNeedsProbe
    /\ probe.lastProbeAt = 0 \/ clock - probe.lastProbeAt >= Interval
    /\ probing' = [step |-> "sent", now |-> clock]
    /\ lastProbe' = clock
    /\ UNCHANGED <<vendor, up, sources, cache, ledger, requested, caller, crashes>>

\* A verdict, or none when the call fails or proves nothing.
probeModelPrice == {Class(Real(rule, clock)), "none"}

\* An attempt without a verdict leaves the last one as it is.
ProbeEnd ==
    /\ up
    /\ probing.step = "sent"
    /\ \E verdict \in probeModelPrice :
        probe' = IF verdict = "none"
                 THEN [probe EXCEPT !.lastProbeAt = probing.now,
                         !.verdictAt = IF @ = 0 /\ probe.verdict # "none"
                                       THEN probe.lastProbeAt ELSE @]
                 ELSE [lastProbeAt |-> probing.now, verdictAt |-> probing.now,
                       verdict |-> verdict,
                       freeUntil |-> FreeUntil(entry, verdict, probing.now)]
    /\ persistModelsLocked(entry, probe', usage)
    /\ probing' = NotProbing
    /\ UNCHANGED <<vendor, up, entry, usage, ledger, requested, caller,
                   lastProbe, crashes>>

Next ==
    \/ Tick \/ Start \/ Crash \/ refreshModelsOnce \/ ProbeBegin \/ ProbeEnd
    \/ NothingReported \/ markModelQuotaBlocked \/ QuotaBack
    \/ \E c \in Callers : observeModelCredit(c) \/ recordRateUsage(c)

Spec == Init /\ [][Next]_vars

-----------------------------------------------------------------------------
(* What is shown (resolveRateEvidence, asked now). *)

Price(value) == [kind |-> "price", value |-> value]
Charged == [kind |-> "charged", value |-> 0]    \* "paid, rate unknown"
Unknown == [kind |-> "unknown", value |-> 0]

\* Evidence of the class of the price, and what it outranks: the newest that is
\* not older than the price, and not bound to a promotion that is over.
Evidence ==
    LET rate == catalogRateAt(entry, clock)
        changed == IF entry.source = "live" THEN rate.changed ELSE 0
        over(until) == until # 0 /\ clock >= until
        boundary == IF over(usage.freeUntil) THEN Max({changed, usage.freeUntil}) ELSE changed
        sample == IF usage.at > 0 /\ usage.at >= boundary THEN usage.class ELSE "unknown"
        probeAt == IF probe.verdictAt = 0 THEN probe.lastProbeAt ELSE probe.verdictAt
        probed == /\ probe.verdict # "none" /\ probeAt >= changed
                  /\ ~(probe.verdict = "free" /\ over(probe.freeUntil))
    IN  IF probed /\ (sample = "unknown" \/ probeAt > usage.at) THEN probe.verdict ELSE sample

resolveRateEvidence ==
    LET rate == catalogRateAt(entry, clock)
        known == entry.source # "none" /\ rate.known
    IN  CASE Evidence = "free" -> Price(0)
          [] Evidence = "paid" /\ ~(known /\ rate.value > 0) -> Charged
          [] OTHER -> IF known THEN Price(rate.value) ELSE Unknown

-----------------------------------------------------------------------------
(* Properties. *)

\* user-guide.md:902: a sample restored from an account's ledger keeps the time it
\* was observed at.
RestoredAtItsTime == usage.at = usage.learnt

\* Whether an entry can tell what was charged in an hour by rule r: it has room for one
\* promotion, so one that is in force after (or was before) it was read must be the one
\* it keeps; and without one the credits were charged, unless they were no price.
Tells(e, r, h) ==
    IF InForce(r, h) # {}
    THEN h = e.readAt \/ (promoActive(e, h) /\ e.factor = Lowest(r, h))
    ELSE r.credits \in {r.real, NoPrice} \/ (r.credits = 0 /\ r.promotions # <<>>)

\* The entry gives a price, or its promotion is over.
Settled(e, now) == catalogRateAt(e, now).known \/ (e.until # 0 /\ now >= e.until)

ShownRight ==
    CASE resolveRateEvidence.kind = "price" -> resolveRateEvidence.value = Real(rule, clock)
      [] resolveRateEvidence.kind = "charged" -> Real(rule, clock) > 0
      [] OTHER -> TRUE

\* As long as the catalogue is the vendor's last word, and could tell the charge since
\* its price last changed, the price that is shown is the one that is charged, and
\* "paid" or "free" is shown only of what is: over promotions that begin and end
\* between two refreshes, samples and probes of another time, a restart, and a cache
\* that was not written.  (Not of a sample that was restored under a later time; nor
\* when a price came and went between two refreshes, since what was learnt of it
\* outranks a catalogue that did not change.)
ShownIsCharged ==
    (/\ up /\ entry.source = "live" /\ entry.version = version /\ ~entry.missed
     /\ Settled(entry, clock)
     /\ \A h \in 1..clock : h >= catalogRateAt(entry, clock).changed
                             => Tells(entry, history[h].rule, h)
     /\ RestoredAtItsTime)
    => ShownRight

\* user-guide.md:1103: the credits of a model whose promotion is over are not to be
\* trusted, and nothing is shown until it was probed.
ExpiredIsUnknown ==
    up /\ entry.source = "live" /\ entry.until # 0 /\ clock >= entry.until
       /\ Evidence = "unknown"
    => resolveRateEvidence = Unknown

\* user-guide.md:1102: while a promotion is in force, credits times its factor is shown.
PromotionIsShown ==
    up /\ entry.source = "live" /\ entry.version = version
       /\ InForce(rule, clock) # {} /\ rule.credits # NoPrice /\ Evidence = "unknown"
    => resolveRateEvidence = Price(Times(rule.credits, Lowest(rule, clock)))

\* What is in memory and not in the cache is warned of.
SavedOrWarned ==
    up /\ ~problem => Stored(entry, probe, usage)
                      = IF file = NoFile THEN Stored(NoEntry, NoVerdict, NoUsage) ELSE file

\* The time of the last check is the time the entry was read at, whatever failed
\* since and however often the process was started again.
CheckedWhenRead == entry.checkedAt = entry.readAt

\* A call that ends late never replaces the sample of a later one.
NewestSampleStays == [][up /\ up' => usage'.at >= usage.at]_vars

\* user-guide.md:1125: a model is probed at most once in twelve hours.
ProbedOncePerInterval ==
    [][lastProbe' # lastProbe /\ lastProbe # 0 => lastProbe' - lastProbe >= Interval]_vars
=============================================================================
