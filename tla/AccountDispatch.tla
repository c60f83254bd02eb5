---------------------------- MODULE AccountDispatch ----------------------------
(***************************************************************************)
(* How one model request finds an account (main.go): the pool is walked    *)
(* round-robin, free exhausted accounts first, then accounts with credit,  *)
(* then one controlled probe of an exhausted account whose model is not    *)
(* known to cost anything; the account's slot, its token and its           *)
(* credential lock come next; and a refusal of the upstream is written to  *)
(* the ledger and, mostly, answered by trying the next account.            *)
(*                                                                         *)
(* Every handler takes accountMu only for the moment it reads or writes    *)
(* the ledger, so any number of requests, the quota scan and a reload of   *)
(* the credential file interleave between the steps below:                 *)
(*                                                                         *)
(*   idle -> prefer -> select -> slot -> token (-> refreshing) -> cred     *)
(*        -> checked -> sent -> reply -> prefer ...                        *)
(*                           or stream -> usage -> done                    *)
(*                                                                         *)
(* Instants are abstracted to what is left of them: a cooldown or a probe  *)
(* delay is a number of ticks that TimePasses decrements.                  *)
(***************************************************************************)
EXTENDS Integers, FiniteSets

CONSTANTS
    Requests,       \* model requests under way at one time
    N,              \* accounts in the pool
    Sites,          \* the upstream sites
    SiteOf,         \* SiteOf[a]: the site of account a
    Models,         \* model names, normalised
    NoAccount,      \* a request that has picked none
    MaxAcc,         \* slots per account, see ModelConcurrency
    MaxCool,        \* longest cooldown and probe delay, in ticks
    NoModel,        \* no probe holds the account's credential lock
    MaxOutside,     \* bound: reloads, filter changes, credit changes, probes
    CatalogFree,    \* pairs <<site, model>> the catalogue prices at 0
    CatalogPaid     \* pairs <<site, model>> the catalogue prices above 0

Accounts == 0 .. N - 1

ASSUME PoolAssumption == N \in Nat \ {0} /\ SiteOf \in [Accounts -> Sites]
ASSUME NoAccountAssumption == NoAccount \notin Accounts
ASSUME RequestsAssumption == IsFiniteSet(Requests)
ASSUME MaxAccAssumption == MaxAcc \in Nat \ {0}
ASSUME BoundsAssumption == MaxCool \in Nat \ {0} /\ MaxOutside \in Nat
ASSUME NoModelAssumption == NoModel \notin Models

Kinds == {"freeExhausted", "normal", "probeExhausted"}
\* The order in which nextAccountForModel looks for a usable account.
Rank(k) == CASE k = "freeExhausted" -> 1 [] k = "normal" -> 2 [] k = "probeExhausted" -> 3

\* What doUpstreamRequest may come back with, classified as upstreamChat does.
Refusals == {"network", "quota", "modelRate", "rate", "auth", "other"}
Answers == {"none", "ok", "model_account_disabled", "no_available_account",
            "concurrent_wait_canceled", "upstream_network_error",
            "model_requires_quota", "model_rate_limited", "upstream_error",
            "all_accounts_cooldown"}
InAttempt == {"token", "refreshing", "cred", "checked", "sent", "stream"}

VARIABLES
    rrIndex,    \* where the next walk of the pool starts
    disabled,   \* acc.Disabled
    exhausted,  \* acc.QuotaExhausted
    cool,       \* ticks left of acc.CooldownUntil
    ledger,     \* acc.ModelStates
    allowed,    \* allowed[m]: accounts the allow and block lists leave for m
    hasCredit,  \* what the billing service knows of the account
    probing,    \* probing[a]: the model a probe of the admin API is trying on a
    outside,    \* how many of the MaxOutside outside events are left
    late,       \* history: requests sent on account a since it was disabled
    pc, model, attempted, preferred, account, kind, refusal, answer,
    slot        \* slot[r]: the account whose concurrency slot r holds

ledgerVars == <<disabled, exhausted, cool, ledger>>
outsideVars == <<allowed, hasCredit, probing, outside, late>>
poolVars == <<rrIndex, ledgerVars, outsideVars>>
requestVars == <<pc, model, attempted, preferred, account, kind, refusal, answer, slot>>
vars == <<poolVars, requestVars>>

Slots == INSTANCE Admission WITH
    Keys <- Accounts, NoKey <- NoAccount, Configs <- {}, DefaultMaxAcc <- MaxAcc,
    limits <- [MaxAcc |-> MaxAcc, MaxGlobal |-> 0], holds <- slot

\* A model the account has no entry for reads as this one.
NewState == [cost |-> "unknown", blocked |-> FALSE, cool |-> 0, probe |-> 0]
ModelStates == [cost : {"unknown", "free", "paid"}, blocked : BOOLEAN,
                cool : 0 .. MaxCool, probe : 0 .. MaxCool]

Init ==
    /\ rrIndex = 0
    /\ disabled = [a \in Accounts |-> FALSE]
    /\ exhausted \in [Accounts -> BOOLEAN]
    /\ hasCredit = [a \in Accounts |-> ~exhausted[a]]
    /\ probing = [a \in Accounts |-> NoModel]
    /\ outside = MaxOutside
    /\ late = [a \in Accounts |-> 0]
    /\ cool = [a \in Accounts |-> 0]
    /\ ledger = [a \in Accounts |-> [m \in Models |-> NewState]]
    /\ allowed = [m \in Models |-> Accounts]
    /\ pc = [r \in Requests |-> "idle"]
    /\ model \in [Requests -> Models]
    /\ attempted = [r \in Requests |-> {}]
    /\ preferred = [r \in Requests |-> {}]
    /\ account = [r \in Requests |-> NoAccount]
    /\ kind = [r \in Requests |-> "normal"]
    /\ refusal = [r \in Requests |-> "other"]
    /\ answer = [r \in Requests |-> "none"]
    /\ slot = [r \in Requests |-> NoAccount]

-----------------------------------------------------------------------------
(* Choosing an account *)

usableForModel(a, m) ==
    ~disabled[a] /\ cool[a] = 0 /\ ledger[a][m].cool = 0 /\ ~ledger[a][m].blocked

\* The kinds account a may be selected as for model m: one, or none.
SelectionKinds(a, m) ==
    {k \in Kinds :
        /\ usableForModel(a, m)
        /\ k = "normal" <=> ~exhausted[a]
        /\ k = "freeExhausted" => ledger[a][m].cost = "free"
        /\ k = "probeExhausted" => ledger[a][m].cost = "unknown" /\ ledger[a][m].probe = 0}

siteKnownFree(s, m) ==
    \/ <<s, m>> \in CatalogFree
    \/ \E a \in Accounts : SiteOf[a] = s /\ ~disabled[a] /\ ledger[a][m].cost = "free"

\* Mutant: the two lists of preferredFreeSites change places.
FreeSitesSwapped(m) == {s \in Sites : <<s, m>> \in CatalogPaid}

\* Sites to be served first: those where the model is free, if it is paid for
\* elsewhere.
FreeSites(m) ==
    IF \E s \in Sites : <<s, m>> \in CatalogPaid
    THEN {s \in Sites : siteKnownFree(s, m)} ELSE {}

Candidates(r, sites, k) ==
    {a \in Accounts \ attempted[r] :
        /\ a \in allowed[model[r]] /\ SiteOf[a] \in sites
        /\ k \in SelectionKinds(a, model[r])}

\* Mutant: every walk starts at the first account of the pool.
OffsetFromStart(a) == a

\* Distance from the round-robin index, in the order of the pool.
Offset(a) == (a - rrIndex) % N

\* Account a is the one the walk over the given sites stops at, as kind k.
FirstOn(r, sites, a, k) ==
    /\ a \in Candidates(r, sites, k)
    /\ \A j \in Kinds : Rank(j) < Rank(k) => Candidates(r, sites, j) = {}
    /\ \A b \in Candidates(r, sites, k) : Offset(a) <= Offset(b)

Reachable(r, sites) == \E k \in Kinds : Candidates(r, sites, k) # {}

\* Mutant: no way back to the sites that charge.
SitesTriedNoFallback(r) == IF preferred[r] # {} THEN preferred[r] ELSE Sites

\* The preferred sites, and all sites when those have nobody to offer.
SitesTried(r) == IF Reachable(r, preferred[r]) THEN preferred[r] ELSE Sites

NextIndex(a) == (a + 1) % N

\* Mutant: the request forgets whom it has tried.
TriedForgotten(r, a) == attempted[r]
Tried(r, a) == attempted[r] \cup {a}

\* The credential lock of account a: a request reads, from its second look at the
\* account until the headers are in; a refresh or a probe writes.
NoMaintenance(a) ==
    /\ probing[a] = NoModel
    /\ \A r \in Requests : account[r] = a => pc[r] # "refreshing"
Unlocked(a) ==
    /\ NoMaintenance(a)
    /\ \A r \in Requests : account[r] = a => pc[r] \notin {"checked", "sent"}

Fail(r, why) ==
    /\ pc' = [pc EXCEPT ![r] = "done"]
    /\ answer' = [answer EXCEPT ![r] = why]

Start(r) ==
    /\ pc[r] = "idle"
    /\ pc' = [pc EXCEPT ![r] = "prefer"]
    /\ UNCHANGED <<poolVars, model, attempted, preferred, account, kind, refusal, answer, slot>>

\* preferredFreeSites reads the ledger before nextAccountForModel locks it.
preferredFreeSites(r) ==
    /\ pc[r] = "prefer"
    /\ attempted[r] # Accounts
    /\ preferred' = [preferred EXCEPT ![r] = FreeSites(model[r])]
    /\ pc' = [pc EXCEPT ![r] = "select"]
    /\ UNCHANGED <<poolVars, model, attempted, account, kind, refusal, answer, slot>>

\* The loop of upstreamChat is over: as many attempts as there were accounts.
AllAttempted(r) ==
    /\ pc[r] = "prefer"
    /\ attempted[r] = Accounts
    /\ Fail(r, "all_accounts_cooldown")
    /\ UNCHANGED <<poolVars, model, attempted, preferred, account, kind, refusal, slot>>

nextAccountForModel(r) ==
    /\ pc[r] = "select"
    /\ \E a \in Accounts, k \in Kinds :
        /\ FirstOn(r, SitesTried(r), a, k)
        /\ account' = [account EXCEPT ![r] = a]
        /\ kind' = [kind EXCEPT ![r] = k]
        /\ attempted' = [attempted EXCEPT ![r] = Tried(r, a)]
        /\ rrIndex' = NextIndex(a)
        /\ ledger' = IF k = "probeExhausted"
                     THEN [ledger EXCEPT ![a][model[r]].probe = MaxCool] ELSE ledger
    /\ pc' = [pc EXCEPT ![r] = "slot"]
    /\ UNCHANGED <<disabled, exhausted, cool, outsideVars, model, preferred,
                   refusal, answer, slot>>

NoAccountLeft(r) ==
    /\ pc[r] = "select"
    /\ ~Reachable(r, SitesTried(r))
    /\ Fail(r, IF allowed[model[r]] = {} THEN "model_account_disabled"
                                         ELSE "no_available_account")
    /\ UNCHANGED <<poolVars, model, attempted, preferred, account, kind, refusal, slot>>

-----------------------------------------------------------------------------
(* One attempt *)

acquireModelConcurrency(r) ==
    /\ pc[r] = "slot"
    /\ Slots!Grant(r, account[r])
    /\ pc' = [pc EXCEPT ![r] = "token"]
    /\ UNCHANGED <<poolVars, model, attempted, preferred, account, kind, refusal, answer>>

CancelledInQueue(r) ==
    /\ pc[r] = "slot"
    /\ Fail(r, "concurrent_wait_canceled")
    /\ UNCHANGED <<poolVars, model, attempted, preferred, account, kind, refusal, slot>>

\* A disabled account is let through here and stopped under its lock.
ensureValidTokenFor(r) ==
    /\ pc[r] = "token"
    /\ \E step \in {"cred", "refreshing"} :
        /\ step = "refreshing" => ~disabled[account[r]] /\ Unlocked(account[r])
        /\ pc' = [pc EXCEPT ![r] = step]
    /\ UNCHANGED <<poolVars, model, attempted, preferred, account, kind, refusal, answer, slot>>

\* The next attempt, or the end of the loop.
Continue(r) == pc' = [pc EXCEPT ![r] = "prefer"]

Refreshed(r) ==
    /\ pc[r] = "refreshing"
    /\ pc' = [pc EXCEPT ![r] = "cred"]
    /\ UNCHANGED <<poolVars, model, attempted, preferred, account, kind, refusal, answer, slot>>

\* markCooldown overwrites whatever cooldown the account had.
markCooldown(a, ticks) == cool' = [cool EXCEPT ![a] = ticks]
disableAccount(a) ==
    /\ disabled' = [disabled EXCEPT ![a] = TRUE]
    /\ cool' = [cool EXCEPT ![a] = 0]

\* A failed refresh rests the account for a minute, unless it was the failure
\* that disabled it or somebody else has.
RefreshFailed(r) ==
    /\ pc[r] = "refreshing"
    /\ \/ ~disabled[account[r]] /\ markCooldown(account[r], 1) /\ UNCHANGED disabled
       \/ disableAccount(account[r])
    /\ Slots!GiveBack(r)
    /\ Continue(r)
    /\ UNCHANGED <<rrIndex, exhausted, ledger, outsideVars, model, attempted,
                   preferred, account, kind, refusal, answer>>

CancelledAtLock(r) ==
    /\ pc[r] = "cred"
    /\ Slots!GiveBack(r)
    /\ Fail(r, "concurrent_wait_canceled")
    /\ UNCHANGED <<poolVars, model, attempted, preferred, account, kind, refusal>>

\* Mutant: what was true when the account was picked is taken to be true still.
NoSecondLook(r) ==
    /\ pc[r] = "cred"
    /\ NoMaintenance(account[r])
    /\ pc' = [pc EXCEPT ![r] = "checked"]
    /\ UNCHANGED <<poolVars, model, attempted, preferred, account, kind, refusal, answer, slot>>

\* Under the credential lock, shared with other requests, the account is looked
\* at once more: it may have been disabled since it was picked.
SecondLook(r) ==
    /\ pc[r] = "cred"
    /\ NoMaintenance(account[r])
    /\ ~disabled[account[r]]
    /\ pc' = [pc EXCEPT ![r] = "checked"]
    /\ UNCHANGED <<poolVars, model, attempted, preferred, account, kind, refusal, answer, slot>>

\* accountMu is given back in between: what the look saw may be over by now.
Send(r) ==
    /\ pc[r] = "checked"
    /\ pc' = [pc EXCEPT ![r] = "sent"]
    /\ late' = IF disabled[account[r]] THEN [late EXCEPT ![account[r]] = @ + 1] ELSE late
    /\ UNCHANGED <<rrIndex, ledgerVars, allowed, hasCredit, probing, outside, model, attempted,
                   preferred, account, kind, refusal, answer, slot>>

\* Mutant: the early return that forgets the slot.
SkipDisabledKeepsSlot(r) ==
    /\ pc[r] = "cred"
    /\ NoMaintenance(account[r])
    /\ disabled[account[r]]
    /\ Continue(r)
    /\ UNCHANGED <<poolVars, model, attempted, preferred, account, kind, refusal, answer, slot>>

SkipDisabled(r) ==
    /\ pc[r] = "cred"
    /\ NoMaintenance(account[r])
    /\ disabled[account[r]]
    /\ Slots!GiveBack(r)
    /\ Continue(r)
    /\ UNCHANGED <<poolVars, model, attempted, preferred, account, kind, refusal, answer>>

\* Headers of a refusal are in and its body is drained, which frees the slot.
\* An account with credit is not refused for its quota.
Refused(r, why) ==
    /\ pc[r] = "sent"
    /\ why = "quota" => ~hasCredit[account[r]]
    /\ refusal' = [refusal EXCEPT ![r] = why]
    /\ Slots!GiveBack(r)
    /\ pc' = [pc EXCEPT ![r] = "reply"]
    /\ UNCHANGED <<poolVars, model, attempted, preferred, account, kind, answer>>

Accepted(r) ==
    /\ pc[r] = "sent"
    /\ pc' = [pc EXCEPT ![r] = "stream"]
    /\ answer' = [answer EXCEPT ![r] = "ok"]
    /\ UNCHANGED <<poolVars, model, attempted, preferred, account, kind, refusal, slot>>

\* The body is read to its end, closed or abandoned.
StreamEnds(r) ==
    /\ pc[r] = "stream"
    /\ Slots!GiveBack(r)
    /\ pc' = [pc EXCEPT ![r] = "usage"]
    /\ UNCHANGED <<poolVars, model, attempted, preferred, account, kind, refusal, answer>>

\* A usage worth believing teaches the ledger what the model costs here.
observeModelCredit(a, m, class) ==
    ledger' = [ledger EXCEPT ![a][m].cost = class,
                             ![a][m].blocked = @ /\ class # "free"]

UsageSeen(r) ==
    /\ pc[r] = "usage"
    /\ \/ \E class \in {"free", "paid"} : observeModelCredit(account[r], model[r], class)
       \/ UNCHANGED ledger
    /\ pc' = [pc EXCEPT ![r] = "done"]
    /\ UNCHANGED <<rrIndex, disabled, exhausted, cool, outsideVars, model,
                   attempted, preferred, account, kind, refusal, answer, slot>>

-----------------------------------------------------------------------------
(* What a refusal does, after the account lock and the slot are given back *)

\* A controlled probe that is refused ends the request, anything else goes on.
GiveUpProbe(r, why) ==
    IF kind[r] = "probeExhausted" THEN Fail(r, why) ELSE Continue(r) /\ UNCHANGED answer

\* 14018: the account cannot serve the model; its cost class is left alone.
markModelQuotaBlocked(a, m) == ledger' = [ledger EXCEPT ![a][m].blocked = TRUE]

\* 6004, until the parsed reset time or for a minute.
markModelCooldown(a, m) ==
    /\ \E ticks \in 1 .. MaxCool : ledger' = [ledger EXCEPT ![a][m].cool = ticks]
    /\ UNCHANGED cool

QuotaRefused(r) ==
    /\ pc[r] = "reply" /\ refusal[r] = "quota"
    /\ markModelQuotaBlocked(account[r], model[r])
    /\ GiveUpProbe(r, "model_requires_quota")
    /\ UNCHANGED <<rrIndex, disabled, exhausted, cool, outsideVars, model,
                   attempted, preferred, account, kind, refusal, slot>>

ModelRateLimited(r) ==
    /\ pc[r] = "reply" /\ refusal[r] = "modelRate"
    /\ markModelCooldown(account[r], model[r])
    /\ GiveUpProbe(r, "model_rate_limited")
    /\ UNCHANGED <<rrIndex, disabled, exhausted, outsideVars, model,
                   attempted, preferred, account, kind, refusal, slot>>

RateLimited(r) ==
    /\ pc[r] = "reply" /\ refusal[r] = "rate"
    /\ \E ticks \in 1 .. MaxCool : markCooldown(account[r], ticks)
    /\ Continue(r)
    /\ UNCHANGED <<rrIndex, disabled, exhausted, ledger, outsideVars, model,
                   attempted, preferred, account, kind, refusal, answer, slot>>

AuthFailed(r) ==
    /\ pc[r] = "reply" /\ refusal[r] = "auth"
    /\ disableAccount(account[r])
    /\ Continue(r)
    /\ UNCHANGED <<rrIndex, exhausted, ledger, outsideVars, model,
                   attempted, preferred, account, kind, refusal, answer, slot>>

\* No response at all, or an error no other account would answer differently.
PassedOn(r) ==
    /\ pc[r] = "reply" /\ refusal[r] \in {"network", "other"}
    /\ Fail(r, IF refusal[r] = "network" THEN "upstream_network_error" ELSE "upstream_error")
    /\ UNCHANGED <<poolVars, model, attempted, preferred, account, kind, refusal, slot>>

-----------------------------------------------------------------------------
(* The rest of the gateway, at any moment *)

\* Mutant: blocks are lifted on the way out of exhaustion only.
applyQuotaOnRecovery(a) ==
    /\ exhausted' = [exhausted EXCEPT ![a] = ~hasCredit[a]]
    /\ ledger' = IF hasCredit[a] /\ exhausted[a]
                 THEN [ledger EXCEPT ![a] = [m \in Models |->
                          [ledger[a][m] EXCEPT !.blocked = FALSE, !.probe = 0]]]
                 ELSE ledger
    /\ UNCHANGED <<rrIndex, disabled, cool, outsideVars, requestVars>>

\* The quota scan.  Credit found again lifts every quota block and probe delay.
applyQuotaObservation(a) ==
    /\ exhausted' = [exhausted EXCEPT ![a] = ~hasCredit[a]]
    /\ ledger' = IF hasCredit[a]
                 THEN [ledger EXCEPT ![a] = [m \in Models |->
                          [ledger[a][m] EXCEPT !.blocked = FALSE, !.probe = 0]]]
                 ELSE ledger
    /\ UNCHANGED <<rrIndex, disabled, cool, outsideVars, requestVars>>

Less(n) == IF n = 0 THEN 0 ELSE n - 1
TimePasses ==
    /\ cool' = [a \in Accounts |-> Less(cool[a])]
    /\ ledger' = [a \in Accounts |-> [m \in Models |->
                     [ledger[a][m] EXCEPT !.cool = Less(@), !.probe = Less(@)]]]
    /\ <<cool, ledger>>' # <<cool, ledger>>
    /\ UNCHANGED <<rrIndex, disabled, exhausted, outsideVars, requestVars>>

\* One of the outside events the bound allows.
Outside == outside > 0 /\ outside' = outside - 1

\* A new credential file of the account (login, edit): all is forgotten.
reloadAccount(a) ==
    /\ Outside
    /\ disabled' = [disabled EXCEPT ![a] = FALSE]
    /\ exhausted' = [exhausted EXCEPT ![a] = FALSE]
    /\ cool' = [cool EXCEPT ![a] = 0]
    /\ ledger' = [ledger EXCEPT ![a] = [m \in Models |-> NewState]]
    /\ late' = [late EXCEPT ![a] = 0]
    /\ UNCHANGED <<rrIndex, allowed, hasCredit, probing, requestVars>>

\* A hot reload of models.accounts.
setModelAccountFilter(m, set) ==
    /\ Outside
    /\ allowed' = [allowed EXCEPT ![m] = set]
    /\ UNCHANGED <<rrIndex, ledgerVars, hasCredit, probing, late, requestVars>>

\* Credit is used up, or bought.
CreditChanges(a) ==
    /\ Outside
    /\ hasCredit' = [hasCredit EXCEPT ![a] = ~@]
    /\ UNCHANGED <<rrIndex, ledgerVars, allowed, probing, late, requestVars>>

\* POST /admin/probe holds the credential lock from its checks to its verdict.
ProbeStarts(a, m) ==
    /\ Outside
    /\ Unlocked(a) /\ ~disabled[a] /\ a \in allowed[m]
    /\ probing' = [probing EXCEPT ![a] = m]
    /\ UNCHANGED <<rrIndex, ledgerVars, allowed, hasCredit, late, requestVars>>

\* Unlike a request, a probe disables nobody and rests no whole account.
ProbeEnds(a) ==
    /\ probing[a] # NoModel
    /\ \/ ~hasCredit[a] /\ markModelQuotaBlocked(a, probing[a]) /\ UNCHANGED cool
       \/ markModelCooldown(a, probing[a])
       \/ (\E class \in {"free", "paid"} : observeModelCredit(a, probing[a], class))
          /\ UNCHANGED cool
       \/ UNCHANGED <<ledger, cool>>
    /\ probing' = [probing EXCEPT ![a] = NoModel]
    /\ UNCHANGED <<rrIndex, disabled, exhausted, allowed, hasCredit, outside, late, requestVars>>

-----------------------------------------------------------------------------

Handle(r) ==
    \/ QuotaRefused(r) \/ ModelRateLimited(r) \/ RateLimited(r)
    \/ AuthFailed(r) \/ PassedOn(r)

Answer(r) == Accepted(r) \/ \E why \in Refusals : Refused(r, why)

\* What upstreamChat and the handler that called it do with request r.
upstreamChat(r) ==
    \/ preferredFreeSites(r) \/ AllAttempted(r) \/ nextAccountForModel(r) \/ NoAccountLeft(r)
    \/ acquireModelConcurrency(r) \/ ensureValidTokenFor(r)
    \/ Refreshed(r) \/ RefreshFailed(r) \/ SkipDisabled(r) \/ SecondLook(r) \/ Send(r)
    \/ Answer(r) \/ Handle(r) \/ StreamEnds(r) \/ UsageSeen(r)

Background ==
    \/ \E a \in Accounts :
        \/ applyQuotaObservation(a) \/ reloadAccount(a) \/ CreditChanges(a) \/ ProbeEnds(a)
        \/ \E m \in Models : ProbeStarts(a, m)
    \/ \E m \in Models, set \in SUBSET Accounts : setModelAccountFilter(m, set)
    \/ TimePasses

Next ==
    \/ \E r \in Requests :
        Start(r) \/ upstreamChat(r) \/ CancelledInQueue(r) \/ CancelledAtLock(r)
    \/ Background

Spec == Init /\ [][Next]_vars

\* Goroutines run; the upstream answers or its header timeout fires; a stream
\* ends or its idle watchdog ends it; a probe ends within its minute; the quota
\* scan comes round every five minutes.  Nothing is assumed of the outside.
FairSpec ==
    /\ Spec
    /\ \A r \in Requests : WF_vars(upstreamChat(r))
    /\ \A a \in Accounts : WF_vars(applyQuotaObservation(a)) /\ WF_vars(ProbeEnds(a))

-----------------------------------------------------------------------------
(* Properties *)

Places == {"idle", "prefer", "select", "slot", "reply", "usage", "done"} \cup InAttempt

\* Every variable keeps its type (Account, modelRuntimeState, the locals of
\* upstreamChat).
TypeOK ==
    /\ rrIndex \in Accounts
    /\ disabled \in [Accounts -> BOOLEAN] /\ exhausted \in [Accounts -> BOOLEAN]
    /\ hasCredit \in [Accounts -> BOOLEAN]
    /\ cool \in [Accounts -> 0 .. MaxCool]
    /\ ledger \in [Accounts -> [Models -> ModelStates]]
    /\ allowed \in [Models -> SUBSET Accounts]
    /\ probing \in [Accounts -> Models \cup {NoModel}] /\ outside \in 0 .. MaxOutside
    /\ late \in [Accounts -> Nat]
    /\ pc \in [Requests -> Places] /\ model \in [Requests -> Models]
    /\ attempted \in [Requests -> SUBSET Accounts]
    /\ preferred \in [Requests -> SUBSET Sites]
    /\ account \in [Requests -> Accounts \cup {NoAccount}]
    /\ kind \in [Requests -> Kinds] /\ refusal \in [Requests -> Refusals]
    /\ answer \in [Requests -> Answers]
    /\ slot \in [Requests -> Accounts \cup {NoAccount}]

\* Every one of the early returns and continues of upstreamChat has given the
\* slot back: a request holds the slot of the account it is trying, from the
\* admission to the end of the attempt, and no other slot ever.
SlotOnlyInAttempt ==
    \A r \in Requests : slot[r] = IF pc[r] \in InAttempt THEN account[r] ELSE NoAccount

\* Together with the types: a request beyond the choice of an account has one.
HasAccount ==
    \A r \in Requests :
        pc[r] \in {"slot", "reply", "usage"} \cup InAttempt => account[r] \in Accounts

\* A request about to walk the pool prefers the sites the catalogue has free, if
\* it prefers any site to another.
PrefersFree ==
    \A r \in Requests :
        /\ pc[r] = "select"
        /\ \E s \in Sites : <<s, model[r]>> \in CatalogPaid
        => {s \in Sites : <<s, model[r]>> \in CatalogFree} \subseteq preferred[r]

\* No account has more requests in its slots than it has slots.
SlotsLimited == \A a \in Accounts : Cardinality(Slots!HoldersOf(a)) <= MaxAcc

\* Requests between their second look at account a and the send.
Checked(a) == {r \in Requests : pc[r] = "checked" /\ account[r] = a}

\* A request that may still be sent on a disabled account has one of its slots;
\* an account that is not disabled has nothing on its account.
LateAccounted ==
    \A a \in Accounts :
        IF disabled[a] THEN late[a] + Cardinality(Checked(a)) <= MaxAcc ELSE late[a] = 0

\* The inductive invariant.
IInv ==
    /\ TypeOK /\ SlotOnlyInAttempt /\ HasAccount /\ PrefersFree
    /\ SlotsLimited /\ LateAccounted

\* The slots of the requests are taken and given back as Admission says.
TakesSlots == Slots!Spec

\* What the user guide calls usable, said without the three passes.
Serves(a, m) ==
    /\ ~disabled[a] /\ cool[a] = 0 /\ ledger[a][m].cool = 0 /\ ~ledger[a][m].blocked
    /\ exhausted[a] => \/ ledger[a][m].cost = "free"
                       \/ ledger[a][m].cost = "unknown" /\ ledger[a][m].probe = 0

\* A request is turned away as unservable only while no account it has not
\* tried, on any site, could serve it: the three passes, the site preference
\* and the lists together lose nobody (nextAccountForModel).
TurnedAwayOnlyIfUnservable ==
    [][\A r \in Requests :
        answer'[r] = "no_available_account" /\ answer[r] = "none" =>
            \A a \in allowed[model[r]] \ attempted[r] : ~Serves(a, model[r])]_vars

Picks(r, a) == pc[r] = "select" /\ pc'[r] = "slot" /\ account'[r] = a

\* Round-robin over the whole gateway, requests of all clients together: the
\* account served last is served again only when no other account would have
\* been picked for the same reason (rrIndex in nextAccountForModel).
RoundRobinSpread ==
    [][\A r \in Requests, a \in Accounts :
        Picks(r, a) /\ a = (rrIndex - 1) % N =>
            Candidates(r, SitesTried(r), kind'[r]) = {a}]_vars

\* user-guide: a model the catalogue knows as free on one site and paid on
\* another is served by a site not known as free only while no untried account
\* of the free one could (preferredFreeSites, then two walks of the pool).
PaidSiteIsLastResort ==
    [][\A r \in Requests, a \in Accounts :
        Picks(r, a) /\ SiteOf[a] \notin preferred[r]
        /\ (\E s \in Sites : <<s, model[r]>> \in CatalogPaid) =>
            \A b \in allowed[model[r]] \ attempted[r] :
                <<SiteOf[b], model[r]>> \in CatalogFree => ~Serves(b, model[r])]_vars

\* However many requests queue for an account when it is disabled, at most as many
\* as it has slots are still sent on it: those that had taken their second look.
\* The gap between the look (main.go:3598) and the send (3618) lets nobody else by.
FewSentOnDisabled == \A a \in Accounts : late[a] <= MaxAcc

\* Every request is answered: what one attempt learns from a refusal never
\* sends it round the pool for ever.
Answered == \A r \in Requests : pc[r] = "prefer" ~> pc[r] = "done"

\* Credit that came back to stay lifts every quota block to stay, also the one
\* written late, by a 14018 still being handled when the scan saw the credit.
QuotaBlockClears ==
    \A a \in Accounts, m \in Models :
        <>[]hasCredit[a] => <>[]~ledger[a][m].blocked

\* main.go:3716 says the code after the loop of upstreamChat cannot be reached.
TailUnreachable == \A r \in Requests : answer[r] # "all_accounts_cooldown"

\* main.go:1489 says markCooldown keeps the account out until the given time: a
\* cooldown runs down tick by tick, or goes with the old credential file.
CooldownRunsItsCourse ==
    [][\A a \in Accounts : cool'[a] = 0 \/ cool'[a] >= cool[a] - 1]_vars

\* user-guide:988 says a 14018 records the model as paid on that account.
QuotaAnswerMeansPaid ==
    \A a \in Accounts, m \in Models :
        ledger[a][m].blocked => ledger[a][m].cost = "paid"
=============================================================================
