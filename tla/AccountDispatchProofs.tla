------------------------- MODULE AccountDispatchProofs -------------------------
(***************************************************************************)
(* For every pool, every set of requests, sites and models: no way out of  *)
(* an attempt keeps a slot or gives back another's, few requests are sent  *)
(* on an account after it was disabled, a request is turned away only when *)
(* nobody could serve it, a site that charges is a last resort, and the    *)
(* walk spreads over the pool.                                             *)
(*                                                                         *)
(* IInv adds what they need: a request beyond the choice of an account has *)
(* one, the preference of sites outlives the time between                  *)
(* preferredFreeSites and the walk, and a request that has taken its       *)
(* second look is in one of the account's slots, which are limited.        *)
(***************************************************************************)
EXTENDS AccountDispatch, FiniteSetTheorems, TLAPS

-----------------------------------------------------------------------------
(* The ring of the pool. *)

\* NextIndex stays on the ring.
LEMMA ModInRange ==
    ASSUME NEW n \in Nat \ {0}, NEW x \in Int PROVE x % n \in 0 .. n - 1
OBVIOUS

\* A number of the ring is its own remainder, one a round below it a round less.
LEMMA ModOnRing ==
    ASSUME NEW n \in Nat \ {0}, NEW x \in Int
    PROVE  /\ x \in 0 .. n - 1 => x % n = x
           /\ x \in -n .. -1 => x % n = x + n
OBVIOUS

\* The account just before the round-robin index is the last the walk comes to.
LEMMA LastOfTheWalk ==
    ASSUME rrIndex \in Accounts, NEW a \in Accounts, NEW b \in Accounts,
           a = (rrIndex - 1) % N, Offset(a) <= Offset(b)
    PROVE  a = b
<1> USE PoolAssumption DEF Accounts
<1>1. ASSUME NEW x \in Accounts
      PROVE  Offset(x) = IF x >= rrIndex THEN x - rrIndex ELSE x - rrIndex + N
  <2> DEFINE d == x - rrIndex
  <2>1. d \in Int /\ IF x >= rrIndex THEN d \in 0 .. N - 1 ELSE d \in -N .. -1
    OBVIOUS
  <2>2. Offset(x) = d % N
    BY DEF Offset
  <2> HIDE DEF d
  <2>3. d % N = IF x >= rrIndex THEN d ELSE d + N
    BY <2>1, ModOnRing
  <2>4. QED
    BY <2>2, <2>3 DEF d
<1>2. a = IF rrIndex = 0 THEN N - 1 ELSE rrIndex - 1
  <2> DEFINE d == rrIndex - 1
  <2>1. d \in Int /\ IF rrIndex # 0 THEN d \in 0 .. N - 1 ELSE d \in -N .. -1
    OBVIOUS
  <2>2. a = d % N
    OBVIOUS
  <2> HIDE DEF d
  <2>3. d % N = IF rrIndex # 0 THEN d ELSE d + N
    BY <2>1, ModOnRing
  <2>4. QED
    BY <2>2, <2>3 DEF d
<1>3. Offset(a) = N - 1
  BY <1>1, <1>2
<1>4. Offset(b) \in 0 .. N - 1 /\ (Offset(b) = N - 1 => b = a)
  BY <1>1, <1>2
<1>5. QED
  BY <1>3, <1>4

-----------------------------------------------------------------------------
(* The inductive invariant. *)

\* Nobody has an account or a slot before the first request.
LEMMA InitIInv == Init => IInv
<1> SUFFICES ASSUME Init PROVE IInv
  OBVIOUS
<1> USE PoolAssumption, BoundsAssumption DEF Init
<1>1. TypeOK
  <2>1. late \in [Accounts -> Nat]
    OBVIOUS
  <2>2. ledger \in [Accounts -> [Models -> ModelStates]]
    BY DEF ModelStates, NewState
  <2>3. rrIndex \in Accounts /\ cool \in [Accounts -> 0 .. MaxCool]
    BY DEF Accounts
  <2>4. /\ pc \in [Requests -> Places] /\ account \in [Requests -> Accounts \cup {NoAccount}]
        /\ attempted \in [Requests -> SUBSET Accounts]
        /\ preferred \in [Requests -> SUBSET Sites]
        /\ kind \in [Requests -> Kinds] /\ refusal \in [Requests -> Refusals]
        /\ answer \in [Requests -> Answers] /\ slot \in [Requests -> Accounts \cup {NoAccount}]
    BY DEF Places, InAttempt, Kinds, Refusals, Answers
  <2>5. /\ disabled \in [Accounts -> BOOLEAN] /\ exhausted \in [Accounts -> BOOLEAN]
        /\ hasCredit \in [Accounts -> BOOLEAN] /\ allowed \in [Models -> SUBSET Accounts]
        /\ probing \in [Accounts -> Models \cup {NoModel}] /\ outside \in 0 .. MaxOutside
        /\ model \in [Requests -> Models]
    OBVIOUS
  <2>6. QED
    BY <2>1, <2>2, <2>3, <2>4, <2>5, Zenon DEF TypeOK
<1>2. SlotOnlyInAttempt /\ HasAccount /\ PrefersFree
  BY DEF SlotOnlyInAttempt, HasAccount, PrefersFree, InAttempt
<1>3. SlotsLimited
  <2>1. \A a \in Accounts : Slots!HoldersOf(a) = {}
    BY NoAccountAssumption DEF Slots!HoldersOf
  <2>2. QED
    <3>1. Cardinality({}) <= MaxAcc
      BY FS_EmptySet, MaxAccAssumption
    <3>2. QED
      BY <2>1, <3>1, Zenon DEF SlotsLimited
<1>4. LateAccounted
  BY DEF LateAccounted
<1>5. QED
  BY <1>1, <1>2, <1>3, <1>4 DEF IInv

\* What the ledger may hold.
Ledgers == [Accounts -> [Models -> ModelStates]]

\* The ledger with a new state of one model.
LEMMA WriteState ==
    ASSUME ledger \in Ledgers, NEW a \in Accounts, NEW m \in Models, NEW e \in ModelStates
    PROVE  [ledger EXCEPT ![a][m] = e] \in Ledgers
BY DEF Ledgers

\* What credit found again does to a state.
LEMMA StateReset ==
    ASSUME NEW e \in ModelStates
    PROVE  [e EXCEPT !.blocked = FALSE, !.probe = 0] \in ModelStates
<1>1. 0 \in 0 .. MaxCool
  BY BoundsAssumption
<1>2. QED
  BY <1>1 DEF ModelStates

\* The steps of the ledger: what is written is a state of a model.
LEMMA LedgerType ==
    ASSUME ledger \in Ledgers, NEW a \in Accounts, NEW m \in Models
    PROVE  /\ \A x \in {"free", "paid"} : observeModelCredit(a, m, x) => ledger' \in Ledgers
           /\ markModelQuotaBlocked(a, m) => ledger' \in Ledgers
           /\ markModelCooldown(a, m) => ledger' \in Ledgers
           /\ [ledger EXCEPT ![a][m].probe = MaxCool] \in Ledgers
           /\ [ledger EXCEPT ![a] = [x \in Models |->
                 [ledger[a][x] EXCEPT !.blocked = FALSE, !.probe = 0]]] \in Ledgers
<1>0. \A x \in Models : ledger[a][x] \in ModelStates /\ ledger[a][x].blocked \in BOOLEAN
  BY DEF Ledgers, ModelStates
<1>1. ASSUME NEW x \in {"free", "paid"}, observeModelCredit(a, m, x) PROVE ledger' \in Ledgers
  <2>1. ledger' = [ledger EXCEPT ![a][m] = [ledger[a][m] EXCEPT !.cost = x,
                     !.blocked = ledger[a][m].blocked /\ x # "free"]]
    BY <1>0, <1>1 DEF observeModelCredit, Ledgers, ModelStates
  <2>2. [ledger[a][m] EXCEPT !.cost = x, !.blocked = ledger[a][m].blocked /\ x # "free"]
          \in ModelStates
    BY <1>0 DEF ModelStates
  <2>3. QED
    BY <2>1, <2>2, WriteState
<1>2. ASSUME markModelQuotaBlocked(a, m) PROVE ledger' \in Ledgers
  <2>1. [ledger[a][m] EXCEPT !.blocked = TRUE] \in ModelStates
    BY <1>0 DEF ModelStates
  <2>2. QED
    BY <1>2, <2>1, WriteState DEF markModelQuotaBlocked
<1>3. ASSUME markModelCooldown(a, m) PROVE ledger' \in Ledgers
  <2>1. PICK ticks \in 1 .. MaxCool : ledger' = [ledger EXCEPT ![a][m].cool = ticks]
    BY <1>3 DEF markModelCooldown
  <2>2. [ledger[a][m] EXCEPT !.cool = ticks] \in ModelStates
    BY <1>0, BoundsAssumption DEF ModelStates
  <2>3. QED
    BY <2>1, <2>2, WriteState
<1>4. [ledger EXCEPT ![a][m].probe = MaxCool] \in Ledgers
  <2>1. [ledger[a][m] EXCEPT !.probe = MaxCool] \in ModelStates
    BY <1>0, BoundsAssumption DEF ModelStates
  <2>2. QED
    BY <2>1, WriteState
<1>5. [ledger EXCEPT ![a] = [x \in Models |->
          [ledger[a][x] EXCEPT !.blocked = FALSE, !.probe = 0]]] \in Ledgers
  <2>1. [x \in Models |-> [ledger[a][x] EXCEPT !.blocked = FALSE, !.probe = 0]]
          \in [Models -> ModelStates]
    BY <1>0, StateReset
  <2>2. QED
    BY <2>1 DEF Ledgers
<1>6. QED
  BY <1>1, <1>2, <1>3, <1>4, <1>5
-----------------------------------------------------------------------------
(* One lemma per part of IInv; each goes through the actions. *)

\* Every action keeps the types; the refusals write a state the ledger may hold.
LEMMA TypeStep == TypeOK /\ HasAccount /\ [Next]_vars => TypeOK'
<1> SUFFICES ASSUME TypeOK, HasAccount, [Next]_vars PROVE TypeOK'
  OBVIOUS
<1> USE DEF TypeOK, HasAccount, poolVars, ledgerVars, outsideVars, requestVars, Fail, Continue,
            Slots!Grant, Slots!GiveBack, InAttempt, Places, Answers
<1>1. ASSUME NEW r \in Requests, Start(r) PROVE TypeOK'
  BY <1>1 DEF Start
<1>2. ASSUME NEW r \in Requests, CancelledInQueue(r) PROVE TypeOK'
  BY <1>2 DEF CancelledInQueue
<1>3. ASSUME NEW r \in Requests, CancelledAtLock(r) PROVE TypeOK'
  BY <1>3 DEF CancelledAtLock
<1>4. ASSUME NEW r \in Requests, preferredFreeSites(r) PROVE TypeOK'
  <2>1. FreeSites(model[r]) \in SUBSET Sites
    BY DEF FreeSites
  <2>2. QED
    BY <1>4, <2>1 DEF preferredFreeSites
<1>5. ASSUME NEW r \in Requests, AllAttempted(r) PROVE TypeOK'
  BY <1>5 DEF AllAttempted
<1>6. ASSUME NEW r \in Requests, nextAccountForModel(r) PROVE TypeOK'
  <2>1. PICK a \in Accounts, k \in Kinds :
          /\ account' = [account EXCEPT ![r] = a]
          /\ kind' = [kind EXCEPT ![r] = k]
          /\ attempted' = [attempted EXCEPT ![r] = Tried(r, a)]
          /\ rrIndex' = NextIndex(a)
          /\ ledger' = IF k = "probeExhausted"
                       THEN [ledger EXCEPT ![a][model[r]].probe = MaxCool] ELSE ledger
    BY <1>6 DEF nextAccountForModel
  <2>2. NextIndex(a) \in Accounts
    BY PoolAssumption, ModInRange DEF NextIndex, Accounts
  <2>3. ledger' \in Ledgers
    <3>1. ledger \in Ledgers /\ model[r] \in Models
      BY DEF Ledgers
    <3>2. [ledger EXCEPT ![a][model[r]].probe = MaxCool] \in Ledgers
      BY <3>1, LedgerType
    <3>3. QED
      BY <2>1, <3>1, <3>2
  <2>4. attempted' \in [Requests -> SUBSET Accounts]
    BY <2>1 DEF Tried
  <2>5. QED
    BY <1>6, <2>1, <2>2, <2>3, <2>4 DEF nextAccountForModel, Ledgers
<1>7. ASSUME NEW r \in Requests, NoAccountLeft(r) PROVE TypeOK'
  BY <1>7 DEF NoAccountLeft
<1>8. ASSUME NEW r \in Requests, acquireModelConcurrency(r) PROVE TypeOK'
  BY <1>8 DEF acquireModelConcurrency
<1>9. ASSUME NEW r \in Requests, ensureValidTokenFor(r) PROVE TypeOK'
  BY <1>9 DEF ensureValidTokenFor
<1>10. ASSUME NEW r \in Requests, Refreshed(r) PROVE TypeOK'
  BY <1>10 DEF Refreshed
<1>11. ASSUME NEW r \in Requests, RefreshFailed(r) PROVE TypeOK'
  <2>1. account[r] \in Accounts /\ model[r] \in Models
    BY <1>11 DEF RefreshFailed
  <2>2. cool' \in [Accounts -> 0 .. MaxCool]
    <3>1. CASE markCooldown(account[r], 1)
      BY <2>1, <3>1, BoundsAssumption DEF markCooldown
    <3>2. CASE disableAccount(account[r])
      BY <2>1, <3>2, BoundsAssumption DEF disableAccount
    <3>3. QED
      BY <1>11, <3>1, <3>2 DEF RefreshFailed
  <2>3. disabled' \in [Accounts -> BOOLEAN]
    BY <1>11, <2>1 DEF RefreshFailed, disableAccount
  <2>4. QED
    BY <1>11, <2>2, <2>3 DEF RefreshFailed
<1>12. ASSUME NEW r \in Requests, Send(r) PROVE TypeOK'
  BY <1>12 DEF Send
<1>32. ASSUME NEW r \in Requests, SecondLook(r) PROVE TypeOK'
  BY <1>32 DEF SecondLook
<1>13. ASSUME NEW r \in Requests, SkipDisabled(r) PROVE TypeOK'
  BY <1>13 DEF SkipDisabled
<1>14. ASSUME NEW r \in Requests, Accepted(r) PROVE TypeOK'
  BY <1>14 DEF Accepted
<1>15. ASSUME NEW r \in Requests, QuotaRefused(r) PROVE TypeOK'
  <2>1. account[r] \in Accounts /\ model[r] \in Models
    BY <1>15 DEF QuotaRefused
  <2>2. ledger' \in Ledgers
    BY <1>15, <2>1, LedgerType DEF QuotaRefused, Ledgers
  <2>3. QED
    BY <1>15, <2>1, <2>2 DEF QuotaRefused, GiveUpProbe, Ledgers
<1>16. ASSUME NEW r \in Requests, ModelRateLimited(r) PROVE TypeOK'
  <2>1. account[r] \in Accounts /\ model[r] \in Models
    BY <1>16 DEF ModelRateLimited
  <2>2. ledger' \in Ledgers
    BY <1>16, <2>1, LedgerType DEF ModelRateLimited, Ledgers
  <2>3. QED
    BY <1>16, <2>1, <2>2 DEF ModelRateLimited, markModelCooldown, GiveUpProbe, Ledgers
<1>17. ASSUME NEW r \in Requests, RateLimited(r) PROVE TypeOK'
  <2>1. account[r] \in Accounts /\ model[r] \in Models
    BY <1>17 DEF RateLimited
  <2>2. cool' \in [Accounts -> 0 .. MaxCool]
    BY <1>17, <2>1, BoundsAssumption DEF RateLimited, markCooldown
  <2>3. QED
    BY <1>17, <2>2 DEF RateLimited
<1>18. ASSUME NEW r \in Requests, AuthFailed(r) PROVE TypeOK'
  <2>1. account[r] \in Accounts /\ model[r] \in Models
    BY <1>18 DEF AuthFailed
  <2>2. disabled' \in [Accounts -> BOOLEAN] /\ cool' \in [Accounts -> 0 .. MaxCool]
    BY <1>18, <2>1, BoundsAssumption DEF AuthFailed, disableAccount
  <2>3. QED
    BY <1>18, <2>2 DEF AuthFailed
<1>19. ASSUME NEW r \in Requests, PassedOn(r) PROVE TypeOK'
  BY <1>19 DEF PassedOn
<1>20. ASSUME NEW r \in Requests, StreamEnds(r) PROVE TypeOK'
  BY <1>20 DEF StreamEnds
<1>21. ASSUME NEW r \in Requests, UsageSeen(r) PROVE TypeOK'
  <2>1. account[r] \in Accounts /\ model[r] \in Models
    BY <1>21 DEF UsageSeen
  <2>2. ledger' \in Ledgers
    <3>1. ledger \in Ledgers
      BY DEF Ledgers
    <3>2. ASSUME NEW x \in {"free", "paid"}, observeModelCredit(account[r], model[r], x)
          PROVE  ledger' \in Ledgers
      <4>1. \A c \in {"free", "paid"} : observeModelCredit(account[r], model[r], c) => ledger' \in Ledgers
        BY <2>1, <3>1, LedgerType
      <4>2. QED
        BY <3>2, <4>1
    <3>3. CASE UNCHANGED ledger
      BY <3>1, <3>3
    <3>4. UNCHANGED ledger \/ \E x \in {"free", "paid"} : observeModelCredit(account[r], model[r], x)
      BY <1>21, Zenon DEF UsageSeen, ledgerVars
    <3>5. QED
      BY <3>2, <3>3, <3>4
  <2>3. QED
    BY <1>21, <2>2 DEF UsageSeen, Ledgers
<1>22. ASSUME NEW r \in Requests, NEW why \in Refusals, Refused(r, why) PROVE TypeOK'
  BY <1>22 DEF Refused
<1>23. ASSUME NEW a \in Accounts, applyQuotaObservation(a) PROVE TypeOK'
  <2>1. ledger' \in Ledgers
    BY <1>23, LedgerType DEF applyQuotaObservation, Ledgers
  <2>2. exhausted' \in [Accounts -> BOOLEAN]
    BY <1>23 DEF applyQuotaObservation
  <2>3. QED
    BY <1>23, <2>1, <2>2 DEF applyQuotaObservation, Ledgers
<1>24. ASSUME NEW a \in Accounts, reloadAccount(a) PROVE TypeOK'
  <2>1. ledger' \in Ledgers
    <3>1. [m \in Models |-> NewState] \in [Models -> ModelStates]
      BY BoundsAssumption DEF NewState, ModelStates
    <3>2. QED
      BY <1>24, <3>1 DEF reloadAccount, Ledgers
  <2>2. cool' \in [Accounts -> 0 .. MaxCool]
    BY <1>24, BoundsAssumption DEF reloadAccount
  <2>3. outside' \in 0 .. MaxOutside
    BY <1>24, BoundsAssumption DEF reloadAccount, Outside
  <2>4. QED
    BY <1>24, <2>1, <2>2, <2>3 DEF reloadAccount, Ledgers
<1>25. ASSUME NEW a \in Accounts, CreditChanges(a) PROVE TypeOK'
  <2>1. outside' \in 0 .. MaxOutside
    BY <1>25, BoundsAssumption DEF CreditChanges, Outside
  <2>2. QED
    BY <1>25, <2>1 DEF CreditChanges
<1>26. ASSUME NEW a \in Accounts, ProbeEnds(a) PROVE TypeOK'
  <2>1. probing[a] \in Models
    BY <1>26 DEF ProbeEnds
  <2>2. ledger \in Ledgers
    BY DEF Ledgers
  <2>3. ledger' \in Ledgers
    <3>1. CASE markModelQuotaBlocked(a, probing[a])
      BY <2>1, <2>2, <3>1, LedgerType
    <3>2. CASE markModelCooldown(a, probing[a])
      BY <2>1, <2>2, <3>2, LedgerType
    <3>3. ASSUME NEW x \in {"free", "paid"}, observeModelCredit(a, probing[a], x)
          PROVE  ledger' \in Ledgers
      <4>1. \A c \in {"free", "paid"} : observeModelCredit(a, probing[a], c) => ledger' \in Ledgers
        BY <2>1, <2>2, LedgerType
      <4>2. QED
        BY <3>3, <4>1
    <3>4. CASE UNCHANGED ledger
      BY <2>2, <3>4
    <3>5. QED
      BY <1>26, <3>1, <3>2, <3>3, <3>4 DEF ProbeEnds
  <2>4. cool' = cool
    BY <1>26 DEF ProbeEnds, markModelCooldown
  <2>5. QED
    BY <1>26, <2>3, <2>4 DEF ProbeEnds, Ledgers
<1>27. ASSUME NEW a \in Accounts, NEW m \in Models, ProbeStarts(a, m) PROVE TypeOK'
  <2>1. outside' \in 0 .. MaxOutside
    BY <1>27, BoundsAssumption DEF ProbeStarts, Outside
  <2>2. QED
    BY <1>27, <2>1 DEF ProbeStarts
<1>28. ASSUME NEW m \in Models, NEW set \in SUBSET Accounts, setModelAccountFilter(m, set) PROVE TypeOK'
  <2>1. outside' \in 0 .. MaxOutside
    BY <1>28, BoundsAssumption DEF setModelAccountFilter, Outside
  <2>2. QED
    BY <1>28, <2>1 DEF setModelAccountFilter
<1>29. ASSUME TimePasses PROVE TypeOK'
  <2>1. \A n \in 0 .. MaxCool : Less(n) \in 0 .. MaxCool
    BY BoundsAssumption DEF Less
  <2>2. cool' \in [Accounts -> 0 .. MaxCool]
    BY <1>29, <2>1 DEF TimePasses
  <2>3. ASSUME NEW e \in ModelStates
        PROVE  [e EXCEPT !.cool = Less(e.cool), !.probe = Less(e.probe)] \in ModelStates
    BY <2>1 DEF ModelStates
  <2>4. ledger' \in Ledgers
    <3>1. \A a \in Accounts, m \in Models : ledger[a][m] \in ModelStates
      OBVIOUS
    <3>2. ASSUME NEW a \in Accounts, NEW m \in Models
          PROVE  [ledger[a][m] EXCEPT !.cool = Less(ledger[a][m].cool),
                                      !.probe = Less(ledger[a][m].probe)] \in ModelStates
      BY <2>3, <3>1
    <3>3. ledger' = [a \in Accounts |-> [m \in Models |->
                       [ledger[a][m] EXCEPT !.cool = Less(ledger[a][m].cool),
                                            !.probe = Less(ledger[a][m].probe)]]]
      BY <1>29 DEF TimePasses
    <3>4. QED
      BY <3>2, <3>3 DEF Ledgers
  <2>5. QED
    BY <1>29, <2>2, <2>4 DEF TimePasses, Ledgers
<1>30. CASE UNCHANGED vars
  BY <1>30 DEF vars
<1>31. QED
  BY <1>1, <1>2, <1>3, <1>4, <1>5, <1>6, <1>7, <1>8, <1>9, <1>10, <1>11,
     <1>12, <1>13, <1>14, <1>15, <1>16, <1>17, <1>18, <1>19, <1>20, <1>21,
     <1>22, <1>23, <1>24, <1>25, <1>26, <1>27, <1>28, <1>29, <1>30, <1>32
  DEF Next, upstreamChat, Answer, Handle, Background

\* Every way out of an attempt gives the slot back, and nobody gets one elsewhere.
LEMMA SlotStep ==
    TypeOK /\ SlotOnlyInAttempt /\ HasAccount /\ [Next]_vars => (SlotOnlyInAttempt /\ HasAccount)'
<1> SUFFICES ASSUME TypeOK, SlotOnlyInAttempt, HasAccount, [Next]_vars
             PROVE  (SlotOnlyInAttempt /\ HasAccount)'
  OBVIOUS
<1> USE DEF TypeOK, SlotOnlyInAttempt, HasAccount, poolVars, ledgerVars, outsideVars, requestVars,
            Fail, Continue, Slots!Grant, Slots!GiveBack, InAttempt, Places
<1>1. ASSUME NEW r \in Requests, Start(r) PROVE (SlotOnlyInAttempt /\ HasAccount)'
  BY <1>1 DEF Start
<1>2. ASSUME NEW r \in Requests, CancelledInQueue(r) PROVE (SlotOnlyInAttempt /\ HasAccount)'
  BY <1>2 DEF CancelledInQueue
<1>3. ASSUME NEW r \in Requests, CancelledAtLock(r) PROVE (SlotOnlyInAttempt /\ HasAccount)'
  BY <1>3 DEF CancelledAtLock
<1>4. ASSUME NEW r \in Requests, preferredFreeSites(r) PROVE (SlotOnlyInAttempt /\ HasAccount)'
  BY <1>4 DEF preferredFreeSites
<1>5. ASSUME NEW r \in Requests, AllAttempted(r) PROVE (SlotOnlyInAttempt /\ HasAccount)'
  BY <1>5 DEF AllAttempted
<1>6. ASSUME NEW r \in Requests, nextAccountForModel(r) PROVE (SlotOnlyInAttempt /\ HasAccount)'
  BY <1>6 DEF nextAccountForModel
<1>7. ASSUME NEW r \in Requests, NoAccountLeft(r) PROVE (SlotOnlyInAttempt /\ HasAccount)'
  BY <1>7 DEF NoAccountLeft
<1>8. ASSUME NEW r \in Requests, acquireModelConcurrency(r) PROVE (SlotOnlyInAttempt /\ HasAccount)'
  BY <1>8 DEF acquireModelConcurrency
<1>9. ASSUME NEW r \in Requests, ensureValidTokenFor(r) PROVE (SlotOnlyInAttempt /\ HasAccount)'
  BY <1>9 DEF ensureValidTokenFor
<1>10. ASSUME NEW r \in Requests, Refreshed(r) PROVE (SlotOnlyInAttempt /\ HasAccount)'
  BY <1>10 DEF Refreshed
<1>11. ASSUME NEW r \in Requests, RefreshFailed(r) PROVE (SlotOnlyInAttempt /\ HasAccount)'
  BY <1>11 DEF RefreshFailed
<1>12. ASSUME NEW r \in Requests, Send(r) PROVE (SlotOnlyInAttempt /\ HasAccount)'
  BY <1>12 DEF Send
<1>32. ASSUME NEW r \in Requests, SecondLook(r) PROVE (SlotOnlyInAttempt /\ HasAccount)'
  BY <1>32 DEF SecondLook
<1>13. ASSUME NEW r \in Requests, SkipDisabled(r) PROVE (SlotOnlyInAttempt /\ HasAccount)'
  BY <1>13 DEF SkipDisabled
<1>14. ASSUME NEW r \in Requests, Accepted(r) PROVE (SlotOnlyInAttempt /\ HasAccount)'
  BY <1>14 DEF Accepted
<1>15. ASSUME NEW r \in Requests, QuotaRefused(r) PROVE (SlotOnlyInAttempt /\ HasAccount)'
  <2>1. /\ pc[r] = "reply" /\ UNCHANGED <<model, account, slot>>
        /\ \E x \in {"done", "prefer"} : pc' = [pc EXCEPT ![r] = x]
    BY <1>15 DEF QuotaRefused, GiveUpProbe
  <2>2. QED
    BY <2>1
<1>16. ASSUME NEW r \in Requests, ModelRateLimited(r) PROVE (SlotOnlyInAttempt /\ HasAccount)'
  <2>1. /\ pc[r] = "reply" /\ UNCHANGED <<model, account, slot>>
        /\ \E x \in {"done", "prefer"} : pc' = [pc EXCEPT ![r] = x]
    BY <1>16 DEF ModelRateLimited, GiveUpProbe
  <2>2. QED
    BY <2>1
<1>17. ASSUME NEW r \in Requests, RateLimited(r) PROVE (SlotOnlyInAttempt /\ HasAccount)'
  BY <1>17 DEF RateLimited
<1>18. ASSUME NEW r \in Requests, AuthFailed(r) PROVE (SlotOnlyInAttempt /\ HasAccount)'
  BY <1>18 DEF AuthFailed
<1>19. ASSUME NEW r \in Requests, PassedOn(r) PROVE (SlotOnlyInAttempt /\ HasAccount)'
  BY <1>19 DEF PassedOn
<1>20. ASSUME NEW r \in Requests, StreamEnds(r) PROVE (SlotOnlyInAttempt /\ HasAccount)'
  BY <1>20 DEF StreamEnds
<1>21. ASSUME NEW r \in Requests, UsageSeen(r) PROVE (SlotOnlyInAttempt /\ HasAccount)'
  BY <1>21 DEF UsageSeen
<1>22. ASSUME NEW r \in Requests, NEW why \in Refusals, Refused(r, why) PROVE (SlotOnlyInAttempt /\ HasAccount)'
  BY <1>22 DEF Refused
<1>23. ASSUME NEW a \in Accounts, applyQuotaObservation(a) PROVE (SlotOnlyInAttempt /\ HasAccount)'
  BY <1>23 DEF applyQuotaObservation
<1>24. ASSUME NEW a \in Accounts, reloadAccount(a) PROVE (SlotOnlyInAttempt /\ HasAccount)'
  BY <1>24 DEF reloadAccount
<1>25. ASSUME NEW a \in Accounts, CreditChanges(a) PROVE (SlotOnlyInAttempt /\ HasAccount)'
  BY <1>25 DEF CreditChanges
<1>26. ASSUME NEW a \in Accounts, ProbeEnds(a) PROVE (SlotOnlyInAttempt /\ HasAccount)'
  BY <1>26 DEF ProbeEnds
<1>27. ASSUME NEW a \in Accounts, NEW m \in Models, ProbeStarts(a, m) PROVE (SlotOnlyInAttempt /\ HasAccount)'
  BY <1>27 DEF ProbeStarts
<1>28. ASSUME NEW m \in Models, NEW set \in SUBSET Accounts, setModelAccountFilter(m, set) PROVE (SlotOnlyInAttempt /\ HasAccount)'
  BY <1>28 DEF setModelAccountFilter
<1>29. ASSUME TimePasses PROVE (SlotOnlyInAttempt /\ HasAccount)'
  BY <1>29 DEF TimePasses
<1>30. CASE UNCHANGED vars
  BY <1>30 DEF vars
<1>31. QED
  BY <1>1, <1>2, <1>3, <1>4, <1>5, <1>6, <1>7, <1>8, <1>9, <1>10, <1>11,
     <1>12, <1>13, <1>14, <1>15, <1>16, <1>17, <1>18, <1>19, <1>20, <1>21,
     <1>22, <1>23, <1>24, <1>25, <1>26, <1>27, <1>28, <1>29, <1>30, <1>32
  DEF Next, upstreamChat, Answer, Handle, Background

\* The catalogue stays as it is while a request goes from the preference to the walk.
LEMMA PrefersStep == TypeOK /\ PrefersFree /\ [Next]_vars => PrefersFree'
<1> SUFFICES ASSUME TypeOK, PrefersFree, [Next]_vars PROVE PrefersFree'
  OBVIOUS
<1> USE DEF TypeOK, PrefersFree, poolVars, ledgerVars, outsideVars, requestVars,
            Fail, Continue, InAttempt, Places
<1>1. ASSUME NEW r \in Requests, Start(r) PROVE PrefersFree'
  BY <1>1 DEF Start
<1>2. ASSUME NEW r \in Requests, CancelledInQueue(r) PROVE PrefersFree'
  BY <1>2 DEF CancelledInQueue
<1>3. ASSUME NEW r \in Requests, CancelledAtLock(r) PROVE PrefersFree'
  BY <1>3 DEF CancelledAtLock
<1>4. ASSUME NEW r \in Requests, preferredFreeSites(r) PROVE PrefersFree'
  <2>1. {s \in Sites : <<s, model[r]>> \in CatalogFree} \subseteq FreeSites(model[r])
          \/ ~\E s \in Sites : <<s, model[r]>> \in CatalogPaid
    BY DEF FreeSites, siteKnownFree
  <2>2. QED
    BY <1>4, <2>1 DEF preferredFreeSites
<1>5. ASSUME NEW r \in Requests, AllAttempted(r) PROVE PrefersFree'
  BY <1>5 DEF AllAttempted
<1>6. ASSUME NEW r \in Requests, nextAccountForModel(r) PROVE PrefersFree'
  BY <1>6 DEF nextAccountForModel
<1>7. ASSUME NEW r \in Requests, NoAccountLeft(r) PROVE PrefersFree'
  BY <1>7 DEF NoAccountLeft
<1>8. ASSUME NEW r \in Requests, acquireModelConcurrency(r) PROVE PrefersFree'
  BY <1>8 DEF acquireModelConcurrency
<1>9. ASSUME NEW r \in Requests, ensureValidTokenFor(r) PROVE PrefersFree'
  BY <1>9 DEF ensureValidTokenFor
<1>10. ASSUME NEW r \in Requests, Refreshed(r) PROVE PrefersFree'
  BY <1>10 DEF Refreshed
<1>11. ASSUME NEW r \in Requests, RefreshFailed(r) PROVE PrefersFree'
  BY <1>11 DEF RefreshFailed
<1>12. ASSUME NEW r \in Requests, Send(r) PROVE PrefersFree'
  BY <1>12 DEF Send
<1>32. ASSUME NEW r \in Requests, SecondLook(r) PROVE PrefersFree'
  BY <1>32 DEF SecondLook
<1>13. ASSUME NEW r \in Requests, SkipDisabled(r) PROVE PrefersFree'
  BY <1>13 DEF SkipDisabled
<1>14. ASSUME NEW r \in Requests, Accepted(r) PROVE PrefersFree'
  BY <1>14 DEF Accepted
<1>15. ASSUME NEW r \in Requests, QuotaRefused(r) PROVE PrefersFree'
  BY <1>15 DEF QuotaRefused, GiveUpProbe
<1>16. ASSUME NEW r \in Requests, ModelRateLimited(r) PROVE PrefersFree'
  BY <1>16 DEF ModelRateLimited, GiveUpProbe
<1>17. ASSUME NEW r \in Requests, RateLimited(r) PROVE PrefersFree'
  BY <1>17 DEF RateLimited
<1>18. ASSUME NEW r \in Requests, AuthFailed(r) PROVE PrefersFree'
  BY <1>18 DEF AuthFailed
<1>19. ASSUME NEW r \in Requests, PassedOn(r) PROVE PrefersFree'
  BY <1>19 DEF PassedOn
<1>20. ASSUME NEW r \in Requests, StreamEnds(r) PROVE PrefersFree'
  BY <1>20 DEF StreamEnds
<1>21. ASSUME NEW r \in Requests, UsageSeen(r) PROVE PrefersFree'
  BY <1>21 DEF UsageSeen
<1>22. ASSUME NEW r \in Requests, NEW why \in Refusals, Refused(r, why) PROVE PrefersFree'
  BY <1>22 DEF Refused
<1>23. ASSUME NEW a \in Accounts, applyQuotaObservation(a) PROVE PrefersFree'
  BY <1>23 DEF applyQuotaObservation
<1>24. ASSUME NEW a \in Accounts, reloadAccount(a) PROVE PrefersFree'
  BY <1>24 DEF reloadAccount
<1>25. ASSUME NEW a \in Accounts, CreditChanges(a) PROVE PrefersFree'
  BY <1>25 DEF CreditChanges
<1>26. ASSUME NEW a \in Accounts, ProbeEnds(a) PROVE PrefersFree'
  BY <1>26 DEF ProbeEnds
<1>27. ASSUME NEW a \in Accounts, NEW m \in Models, ProbeStarts(a, m) PROVE PrefersFree'
  BY <1>27 DEF ProbeStarts
<1>28. ASSUME NEW m \in Models, NEW set \in SUBSET Accounts, setModelAccountFilter(m, set) PROVE PrefersFree'
  BY <1>28 DEF setModelAccountFilter
<1>29. ASSUME TimePasses PROVE PrefersFree'
  BY <1>29 DEF TimePasses
<1>30. CASE UNCHANGED vars
  BY <1>30 DEF vars
<1>31. QED
  BY <1>1, <1>2, <1>3, <1>4, <1>5, <1>6, <1>7, <1>8, <1>9, <1>10, <1>11,
     <1>12, <1>13, <1>14, <1>15, <1>16, <1>17, <1>18, <1>19, <1>20, <1>21,
     <1>22, <1>23, <1>24, <1>25, <1>26, <1>27, <1>28, <1>29, <1>30, <1>32
  DEF Next, upstreamChat, Answer, Handle, Background

\* A step takes the slot of the chosen account, gives one back, or leaves the
\* slots alone.
LEMMA SlotsStep ==
    ASSUME HasAccount, Next
    PROVE  \/ UNCHANGED slot
           \/ \E r \in Requests, a \in Accounts : Slots!Grant(r, a)
           \/ \E r \in Requests : Slots!GiveBack(r)
<1>1. ASSUME NEW r \in Requests, acquireModelConcurrency(r)
      PROVE  \E a \in Accounts : Slots!Grant(r, a)
  BY <1>1 DEF acquireModelConcurrency, HasAccount
<1>2. ASSUME NEW r \in Requests,
             \/ RefreshFailed(r) \/ SkipDisabled(r) \/ CancelledAtLock(r) \/ StreamEnds(r)
             \/ \E why \in Refusals : Refused(r, why)
      PROVE  Slots!GiveBack(r)
  BY <1>2 DEF RefreshFailed, SkipDisabled, CancelledAtLock, StreamEnds, Refused
<1>3. ASSUME NEW r \in Requests,
             \/ Start(r) \/ preferredFreeSites(r) \/ AllAttempted(r) \/ nextAccountForModel(r)
             \/ NoAccountLeft(r) \/ CancelledInQueue(r) \/ ensureValidTokenFor(r)
             \/ Refreshed(r) \/ SecondLook(r) \/ Send(r) \/ Accepted(r) \/ UsageSeen(r) \/ Handle(r)
      PROVE  UNCHANGED slot
  BY <1>3 DEF Start, preferredFreeSites, AllAttempted, nextAccountForModel, NoAccountLeft,
              CancelledInQueue, ensureValidTokenFor, Refreshed, SecondLook, Send, Accepted, UsageSeen,
              Handle, QuotaRefused, ModelRateLimited, RateLimited, AuthFailed, PassedOn
<1>4. ASSUME Background PROVE UNCHANGED slot
  BY <1>4 DEF Background, applyQuotaObservation, reloadAccount, CreditChanges, ProbeEnds,
              ProbeStarts, setModelAccountFilter, TimePasses, requestVars
<1>5. QED
  BY <1>1, <1>2, <1>3, <1>4 DEF Next, upstreamChat, Answer

\* A set of requests is finite, and a part of it is not larger.
LEMMA PartCounted ==
    ASSUME NEW S \in SUBSET Requests, NEW T \in SUBSET S
    PROVE  /\ Cardinality(S) \in Nat /\ Cardinality(T) \in Nat
           /\ Cardinality(T) <= Cardinality(S)
<1>1. IsFiniteSet(S)
  BY RequestsAssumption, FS_Subset
<1>2. IsFiniteSet(T) /\ Cardinality(T) <= Cardinality(S)
  BY <1>1, FS_Subset
<1>3. QED
  BY <1>1, <1>2, FS_CardinalityType

\* One more, one less.
LEMMA OneAdded ==
    ASSUME NEW S \in SUBSET Requests, NEW r \in Requests, r \notin S
    PROVE  Cardinality(S \cup {r}) = Cardinality(S) + 1
BY RequestsAssumption, FS_Subset, FS_AddElement

LEMMA OneRemoved ==
    ASSUME NEW S \in SUBSET Requests, NEW r \in S
    PROVE  Cardinality(S \ {r}) = Cardinality(S) - 1
BY RequestsAssumption, FS_Subset, FS_RemoveElement

\* A slot is taken only while there is one.
LEMMA LimitStep ==
    ASSUME TypeOK, HasAccount, SlotsLimited, Next PROVE SlotsLimited'
<1> USE MaxAccAssumption
<1>1. CASE UNCHANGED slot
  BY <1>1 DEF SlotsLimited, Slots!HoldersOf
<1>2. ASSUME NEW r \in Requests, NEW a \in Accounts, Slots!Grant(r, a) PROVE SlotsLimited'
  <2>1. /\ slot \in [Requests -> Accounts \cup {NoAccount}] /\ slot[r] = NoAccount
        /\ slot' = [slot EXCEPT ![r] = a]
    BY <1>2 DEF TypeOK, Slots!Grant
  <2>2. Cardinality(Slots!HoldersOf(a)) < MaxAcc
    BY <1>2 DEF Slots!Grant, Cardinality, Slots!Cardinality
  <2>3. /\ Slots!HoldersOf(a)' = Slots!HoldersOf(a) \cup {r} /\ r \notin Slots!HoldersOf(a)
        /\ \A b \in Accounts \ {a} : Slots!HoldersOf(b)' = Slots!HoldersOf(b)
    BY <2>1, NoAccountAssumption DEF Slots!HoldersOf
  <2>4. Slots!HoldersOf(a) \in SUBSET Requests
    BY DEF Slots!HoldersOf
  <2>5. Cardinality(Slots!HoldersOf(a)') = Cardinality(Slots!HoldersOf(a)) + 1
        /\ Cardinality(Slots!HoldersOf(a)) \in Nat
    BY <2>3, <2>4, OneAdded, PartCounted
  <2>6. QED
    BY <2>2, <2>3, <2>5 DEF SlotsLimited
<1>3. ASSUME NEW r \in Requests, Slots!GiveBack(r) PROVE SlotsLimited'
  <2>1. slot' = [slot EXCEPT ![r] = NoAccount]
    BY <1>3 DEF Slots!GiveBack
  <2>2. ASSUME NEW a \in Accounts
        PROVE  /\ Slots!HoldersOf(a) \in SUBSET Requests
               /\ Slots!HoldersOf(a)' \in SUBSET Slots!HoldersOf(a)
    BY <2>1, NoAccountAssumption DEF TypeOK, Slots!HoldersOf
  <2>3. ASSUME NEW a \in Accounts
        PROVE  /\ Cardinality(Slots!HoldersOf(a)') <= Cardinality(Slots!HoldersOf(a))
               /\ Cardinality(Slots!HoldersOf(a)) \in Nat
               /\ Cardinality(Slots!HoldersOf(a)') \in Nat
    BY <2>2, PartCounted
  <2>4. QED
    BY <2>3 DEF SlotsLimited
<1>4. QED
  BY <1>1, <1>2, <1>3, SlotsStep

\* What a step may do to the accounting of late sends.
LateSame == disabled' = disabled /\ late' = late /\ \A b \in Accounts : Checked(b)' = Checked(b)
Disables(a) ==
    /\ disabled' = [disabled EXCEPT ![a] = TRUE] /\ late' = late
    /\ \A b \in Accounts : Checked(b)' = Checked(b)
Enables(a) ==
    /\ disabled' = [disabled EXCEPT ![a] = FALSE] /\ late' = [late EXCEPT ![a] = 0]
    /\ \A b \in Accounts : Checked(b)' = Checked(b)

LEMMA LateKinds ==
    ASSUME TypeOK, HasAccount, Next
    PROVE  \/ LateSame
           \/ \E a \in Accounts : Disables(a) \/ Enables(a)
           \/ \E r \in Requests : SecondLook(r) \/ Send(r)
<1> USE DEF TypeOK, poolVars, ledgerVars, outsideVars, requestVars, Checked
<1>1. ASSUME NEW r \in Requests, RefreshFailed(r) \/ AuthFailed(r)
      PROVE  LateSame \/ \E a \in Accounts : Disables(a)
  <2>1. account[r] \in Accounts
    BY <1>1 DEF RefreshFailed, AuthFailed, HasAccount, InAttempt
  <2>2. late' = late /\ \A b \in Accounts : Checked(b)' = Checked(b)
    BY <1>1 DEF RefreshFailed, AuthFailed, Continue
  <2>3. disabled' = disabled \/ disabled' = [disabled EXCEPT ![account[r]] = TRUE]
    BY <1>1 DEF RefreshFailed, AuthFailed, disableAccount
  <2>4. QED
    BY <2>1, <2>2, <2>3 DEF LateSame, Disables
<1>2. ASSUME NEW a \in Accounts, reloadAccount(a) PROVE Enables(a)
  BY <1>2 DEF reloadAccount, Enables
<1>3. ASSUME NEW r \in Requests,
             \/ Start(r) \/ preferredFreeSites(r) \/ AllAttempted(r)
             \/ NoAccountLeft(r) \/ CancelledInQueue(r) \/ CancelledAtLock(r)
             \/ ensureValidTokenFor(r) \/ Refreshed(r) \/ SkipDisabled(r)
             \/ acquireModelConcurrency(r)
      PROVE  LateSame
  BY <1>3 DEF LateSame, Start, preferredFreeSites, AllAttempted, NoAccountLeft,
     CancelledInQueue, CancelledAtLock, ensureValidTokenFor, Refreshed, SkipDisabled,
     acquireModelConcurrency, Fail, Continue
<1>4. ASSUME NEW r \in Requests, nextAccountForModel(r) PROVE LateSame
  <2>1. /\ pc[r] = "select" /\ pc' = [pc EXCEPT ![r] = "slot"]
        /\ \E a \in Accounts : account' = [account EXCEPT ![r] = a]
        /\ disabled' = disabled /\ late' = late
    BY <1>4 DEF nextAccountForModel
  <2>2. QED
    BY <2>1 DEF LateSame
<1>5. ASSUME NEW r \in Requests,
             \/ Accepted(r) \/ StreamEnds(r) \/ UsageSeen(r)
             \/ \E why \in Refusals : Refused(r, why)
      PROVE  LateSame
  BY <1>5 DEF LateSame, Accepted, StreamEnds, UsageSeen, Refused
<1>6. ASSUME NEW r \in Requests,
             QuotaRefused(r) \/ ModelRateLimited(r) \/ RateLimited(r) \/ PassedOn(r)
      PROVE  LateSame
  <2>1. /\ pc[r] = "reply" /\ UNCHANGED <<account, disabled, late>>
        /\ \E x \in {"done", "prefer"} : pc' = [pc EXCEPT ![r] = x]
    BY <1>6 DEF QuotaRefused, ModelRateLimited, RateLimited, PassedOn, GiveUpProbe, Fail, Continue
  <2>2. QED
    BY <2>1 DEF LateSame
<1>7. CASE \/ TimePasses
           \/ \E a \in Accounts :
                 \/ applyQuotaObservation(a) \/ CreditChanges(a) \/ ProbeEnds(a)
                 \/ \E m \in Models : ProbeStarts(a, m)
           \/ \E m \in Models, set \in SUBSET Accounts : setModelAccountFilter(m, set)
  BY <1>7 DEF LateSame, TimePasses, applyQuotaObservation, CreditChanges, ProbeEnds,
              ProbeStarts, setModelAccountFilter
<1>8. QED
  BY <1>1, <1>2, <1>3, <1>4, <1>5, <1>6, <1>7 DEF Next, Background, upstreamChat, Answer, Handle

\* A request that has looked counts among the slots of the account; after the
\* account was disabled nobody looks and goes on.
LEMMA LateStep ==
    ASSUME TypeOK, HasAccount, SlotOnlyInAttempt, SlotsLimited, LateAccounted, Next
    PROVE  LateAccounted'
<1> USE MaxAccAssumption DEF TypeOK
<1>1. ASSUME NEW a \in Accounts
      PROVE  /\ Checked(a) \in SUBSET Requests /\ Cardinality(Checked(a)) \in Nat
             /\ Cardinality(Checked(a)) <= MaxAcc
  <2>1. /\ Slots!HoldersOf(a) \in SUBSET Requests
        /\ Checked(a) \in SUBSET Slots!HoldersOf(a)
    BY DEF Checked, Slots!HoldersOf, SlotOnlyInAttempt, InAttempt
  <2>2. /\ Cardinality(Slots!HoldersOf(a)) \in Nat /\ Cardinality(Checked(a)) \in Nat
        /\ Cardinality(Checked(a)) <= Cardinality(Slots!HoldersOf(a))
    BY <2>1, PartCounted
  <2>3. QED
    BY <2>1, <2>2 DEF SlotsLimited
<1>2. CASE LateSame
  BY <1>2 DEF LateSame, LateAccounted
<1>3. ASSUME NEW a \in Accounts, Disables(a) PROVE LateAccounted'
  BY <1>1, <1>3 DEF Disables, LateAccounted
<1>4. ASSUME NEW a \in Accounts, Enables(a) PROVE LateAccounted'
  BY <1>4 DEF Enables, LateAccounted
<1>5. ASSUME NEW r \in Requests, SecondLook(r) PROVE LateAccounted'
  <2>1. \A b \in Accounts : disabled[b] => Checked(b)' = Checked(b)
    BY <1>5 DEF SecondLook, Checked
  <2>2. disabled' = disabled /\ late' = late
    BY <1>5 DEF SecondLook, poolVars, ledgerVars, outsideVars
  <2>3. QED
    BY <2>1, <2>2 DEF LateAccounted
<1>6. ASSUME NEW r \in Requests, Send(r) PROVE LateAccounted'
  <2>0. PICK a \in Accounts : a = account[r]
    BY <1>6 DEF Send, HasAccount, InAttempt
  <2>1. r \in Checked(a)
    BY <1>6, <2>0 DEF Send, Checked
  <2>2. /\ Checked(a)' = Checked(a) \ {r}
        /\ \A b \in Accounts \ {a} : Checked(b)' = Checked(b)
    BY <1>6, <2>0 DEF Send, Checked
  <2>3. /\ disabled' = disabled
        /\ late' = IF disabled[a] THEN [late EXCEPT ![a] = late[a] + 1] ELSE late
    BY <1>6, <2>0 DEF Send, ledgerVars
  <2>4. Cardinality(Checked(a)') = Cardinality(Checked(a)) - 1
    BY <1>1, <2>1, <2>2, OneRemoved
  <2>5. ASSUME NEW b \in Accounts, b # a
        PROVE  IF disabled'[b] THEN late'[b] + Cardinality(Checked(b)') <= MaxAcc
                               ELSE late'[b] = 0
    BY <2>1, <2>2, <2>3, <2>5 DEF LateAccounted
  <2>6. IF disabled'[a] THEN late'[a] + Cardinality(Checked(a)') <= MaxAcc ELSE late'[a] = 0
    <3>1. /\ late[a] \in Nat /\ Cardinality(Checked(a)) \in Nat
          /\ disabled'[a] = disabled[a]
          /\ disabled[a] => late'[a] = late[a] + 1
          /\ ~disabled[a] => late'[a] = late[a]
      BY <1>1, <2>1, <2>3
    <3>2. CASE disabled[a]
      <4>1. late[a] + Cardinality(Checked(a)) <= MaxAcc
        BY <2>1, <3>2 DEF LateAccounted
      <4> DEFINE was == Cardinality(Checked(a))
                 is == Cardinality(Checked(a)')
      <4>2. was \in Nat /\ is = was - 1 /\ late[a] + was <= MaxAcc
        BY <2>4, <3>1, <4>1
      <4> HIDE DEF was, is
      <4>3. late'[a] + is <= MaxAcc
        BY <3>1, <3>2, <4>2
      <4>4. QED
        BY <3>1, <3>2, <4>3 DEF is
    <3>3. CASE ~disabled[a]
      BY <2>1, <3>1, <3>3 DEF LateAccounted
    <3>4. QED
      BY <3>2, <3>3
  <2>7. ASSUME NEW b \in Accounts
        PROVE  IF disabled'[b] THEN late'[b] + Cardinality(Checked(b)') <= MaxAcc
                               ELSE late'[b] = 0
    <3>1. CASE b = a
      <4>1. Checked(b)' = Checked(a)'
        BY <3>1 DEF Checked
      <4>2. QED
        BY <2>6, <3>1, <4>1
    <3>2. CASE b # a
      BY <2>5, <3>2
    <3>3. QED
      BY <3>1, <3>2
  <2>8. QED
    BY <2>7, Zenon DEF LateAccounted
<1>7. QED
  BY <1>2, <1>3, <1>4, <1>5, <1>6, LateKinds

\* Together.
LEMMA Invariance == Spec => []IInv
<1>1. IInv /\ [Next]_vars => IInv'
  <2> SUFFICES ASSUME IInv, [Next]_vars PROVE IInv'
    OBVIOUS
  <2>1. (TypeOK /\ SlotOnlyInAttempt /\ HasAccount /\ PrefersFree)'
    BY TypeStep, SlotStep, PrefersStep DEF IInv
  <2>2. CASE Next
    BY <2>1, <2>2, LimitStep, LateStep DEF IInv
  <2>3. CASE UNCHANGED vars
    <3>1. (SlotsLimited /\ LateAccounted)'
      BY <2>3 DEF IInv, SlotsLimited, LateAccounted, Checked, Slots!HoldersOf,
                  vars, poolVars, ledgerVars, outsideVars, requestVars
    <3>2. QED
      BY <2>1, <3>1 DEF IInv
  <2>4. QED
    BY <2>2, <2>3
<1>2. QED
  BY InitIInv, <1>1, PTL DEF Spec

-----------------------------------------------------------------------------
(* The theorems. *)

\* The pool, the ledger and every request keep their types, for every pool,
\* every set of models and whatever the catalogue says.
THEOREM TypeCorrect == Spec => []TypeOK
BY Invariance, PTL DEF IInv

\* No early return and no continue of upstreamChat keeps a slot, or gives back
\* another request's.
THEOREM SlotKept == Spec => []SlotOnlyInAttempt
BY Invariance, PTL DEF IInv

\* Dispatch uses the slots as the limiter promises them: a request that is
\* refused, cancelled, retried or streamed takes one slot at a time, of the
\* account it is trying, and only while that account has room.
THEOREM SlotsTaken == Spec => TakesSlots
<1>1. Init => Slots!Init
  BY DEF Init, Slots!Init
<1>2. IInv /\ [Next]_vars => [Slots!Next]_<<[MaxAcc |-> MaxAcc, MaxGlobal |-> 0], slot>>
  BY SlotsStep DEF IInv, Slots!Next, vars, requestVars
<1>3. QED
  BY Invariance, <1>1, <1>2, PTL DEF Spec, TakesSlots, Slots!Spec

\* The race between the second look and the send is no wider than the slots of the
\* account, whatever number of requests had picked it, and over any number of logins.
THEOREM LateSendsBounded == Spec => []FewSentOnDisabled
<1>1. ASSUME IInv, NEW a \in Accounts PROVE late[a] <= MaxAcc
  <2>1. late[a] \in Nat /\ Checked(a) \in SUBSET Requests
    BY <1>1 DEF IInv, TypeOK, Checked
  <2>2. Cardinality(Checked(a)) \in Nat
    BY <2>1, PartCounted
  <2>3. QED
    BY <1>1, <2>1, <2>2, MaxAccAssumption DEF IInv, LateAccounted
<1>2. IInv => FewSentOnDisabled
  BY <1>1 DEF FewSentOnDisabled
<1>3. QED
  BY Invariance, <1>2, PTL

\* What happens to a request is done by a step of its own.
LEMMA OwnStep ==
    ASSUME TypeOK, [Next]_vars, NEW r \in Requests,
           pc'[r] # pc[r] \/ answer'[r] # answer[r]
    PROVE  Start(r) \/ upstreamChat(r) \/ CancelledInQueue(r) \/ CancelledAtLock(r)
<1>1. ASSUME NEW q \in Requests,
             Start(q) \/ upstreamChat(q) \/ CancelledInQueue(q) \/ CancelledAtLock(q)
      PROVE  \A p \in Requests \ {q} : pc'[p] = pc[p] /\ answer'[p] = answer[p]
  BY <1>1 DEF TypeOK, Start, upstreamChat, CancelledInQueue, CancelledAtLock,
    preferredFreeSites, AllAttempted, nextAccountForModel, NoAccountLeft,
    acquireModelConcurrency, ensureValidTokenFor, Refreshed, RefreshFailed, SecondLook, Send,
    SkipDisabled,
    Answer, Accepted, Refused, Handle, QuotaRefused, ModelRateLimited, RateLimited,
    AuthFailed, PassedOn, StreamEnds, UsageSeen, GiveUpProbe, Fail, Continue
<1>2. Background \/ UNCHANGED vars => pc' = pc /\ answer' = answer
  BY DEF Background, applyQuotaObservation, reloadAccount, CreditChanges, ProbeEnds,
         ProbeStarts, setModelAccountFilter, TimePasses, requestVars, vars
<1>3. QED
  BY <1>1, <1>2 DEF Next

\* Only the walk of the pool leads from "select" to an account.
LEMMA PickedByTheWalk ==
    ASSUME TypeOK, [Next]_vars, NEW r \in Requests, pc[r] = "select", pc'[r] = "slot"
    PROVE  nextAccountForModel(r)
BY OwnStep DEF TypeOK, Start, upstreamChat, CancelledInQueue, CancelledAtLock,
    preferredFreeSites, AllAttempted, NoAccountLeft,
    acquireModelConcurrency, ensureValidTokenFor, Refreshed, RefreshFailed, SecondLook, Send,
    SkipDisabled,
    Answer, Accepted, Refused, Handle, QuotaRefused, ModelRateLimited, RateLimited,
    AuthFailed, PassedOn, StreamEnds, UsageSeen, Fail

\* Only the walk that finds nobody turns a request away as unservable.
LEMMA TurnedAwayByTheWalk ==
    ASSUME TypeOK, [Next]_vars, NEW r \in Requests,
           answer[r] = "none", answer'[r] = "no_available_account"
    PROVE  NoAccountLeft(r)
BY OwnStep DEF TypeOK, Start, upstreamChat, CancelledInQueue, CancelledAtLock,
    preferredFreeSites, AllAttempted, nextAccountForModel,
    acquireModelConcurrency, ensureValidTokenFor, Refreshed, RefreshFailed, SecondLook, Send,
    SkipDisabled,
    Answer, Accepted, Refused, Handle, QuotaRefused, ModelRateLimited, RateLimited,
    AuthFailed, PassedOn, StreamEnds, UsageSeen, GiveUpProbe, Fail

\* The three passes over the pool together miss no account that serves.
LEMMA ServesIsReachable ==
    ASSUME TypeOK, NEW r \in Requests, NEW sites \in SUBSET Sites,
           NEW a \in allowed[model[r]] \ attempted[r], SiteOf[a] \in sites, Serves(a, model[r])
    PROVE  Reachable(r, sites)
<1>1. a \in Accounts
  BY DEF TypeOK
<1>2. PICK k \in Kinds : k \in SelectionKinds(a, model[r])
  <2>1. usableForModel(a, model[r]) /\ exhausted[a] \in BOOLEAN
    BY <1>1 DEF Serves, usableForModel, TypeOK
  <2>2. CASE ~exhausted[a]
    BY <2>1, <2>2 DEF SelectionKinds, Kinds
  <2>3. CASE exhausted[a] /\ ledger[a][model[r]].cost = "free"
    BY <2>1, <2>3 DEF SelectionKinds, Kinds
  <2>4. CASE exhausted[a] /\ ledger[a][model[r]].cost = "unknown" /\ ledger[a][model[r]].probe = 0
    BY <2>1, <2>4 DEF SelectionKinds, Kinds
  <2>5. QED
    BY <2>1, <2>2, <2>3, <2>4 DEF Serves
<1>3. QED
  BY <1>1, <1>2 DEF Candidates, Reachable

\* The three passes, the preference of sites and the lists lose nobody.
THEOREM NobodyOverlooked == Spec => TurnedAwayOnlyIfUnservable
<1>1. ASSUME IInv, [Next]_vars, NEW r \in Requests,
             answer'[r] = "no_available_account", answer[r] = "none",
             NEW a \in allowed[model[r]] \ attempted[r]
      PROVE  ~Serves(a, model[r])
  <2>1. TypeOK
    BY <1>1 DEF IInv
  <2>2. ~Reachable(r, Sites)
    BY <1>1, <2>1, TurnedAwayByTheWalk DEF NoAccountLeft, SitesTried
  <2>3. SiteOf[a] \in Sites
    BY <2>1, PoolAssumption DEF TypeOK
  <2>4. QED
    BY <2>1, <2>2, <2>3, ServesIsReachable
<1>2. IInv /\ [Next]_vars =>
        [\A r \in Requests :
            answer'[r] = "no_available_account" /\ answer[r] = "none" =>
                \A a \in allowed[model[r]] \ attempted[r] : ~Serves(a, model[r])]_vars
  BY <1>1
<1>3. QED
  BY Invariance, <1>2, PTL DEF Spec, TurnedAwayOnlyIfUnservable

\* Whatever the requests of other clients do in between, the account served last
\* is served again only when it is the only candidate of its kind.
THEOREM WalkSpreads == Spec => RoundRobinSpread
<1>1. ASSUME IInv, [Next]_vars, NEW r \in Requests, NEW a \in Accounts,
             Picks(r, a), a = (rrIndex - 1) % N
      PROVE  Candidates(r, SitesTried(r), kind'[r]) = {a}
  <2>1. TypeOK /\ nextAccountForModel(r)
    BY <1>1, PickedByTheWalk DEF IInv, Picks
  <2>2. FirstOn(r, SitesTried(r), a, kind'[r])
    BY <1>1, <2>1 DEF nextAccountForModel, Picks, TypeOK
  <2>3. ASSUME NEW b \in Candidates(r, SitesTried(r), kind'[r]) PROVE a = b
    <3>1. b \in Accounts /\ Offset(a) <= Offset(b) /\ rrIndex \in Accounts
      BY <2>1, <2>2, <2>3 DEF FirstOn, Candidates, TypeOK
    <3>2. QED
      BY <1>1, <3>1, LastOfTheWalk
  <2>4. QED
    BY <2>2, <2>3 DEF FirstOn
<1>2. IInv /\ [Next]_vars =>
        [\A r \in Requests, a \in Accounts :
            Picks(r, a) /\ a = (rrIndex - 1) % N =>
                Candidates(r, SitesTried(r), kind'[r]) = {a}]_vars
  BY <1>1
<1>3. QED
  BY Invariance, <1>2, PTL DEF Spec, RoundRobinSpread

\* Charging is a last resort, also for a request that was sent round the pool
\* while accounts were disabled, rested, blocked or bought credit.
THEOREM ChargedLast == Spec => PaidSiteIsLastResort
<1>1. ASSUME IInv, [Next]_vars, NEW r \in Requests, NEW a \in Accounts,
             Picks(r, a), SiteOf[a] \notin preferred[r],
             \E s \in Sites : <<s, model[r]>> \in CatalogPaid,
             NEW b \in allowed[model[r]] \ attempted[r], <<SiteOf[b], model[r]>> \in CatalogFree
      PROVE  ~Serves(b, model[r])
  <2>1. TypeOK /\ PrefersFree /\ nextAccountForModel(r)
    BY <1>1, PickedByTheWalk DEF IInv, Picks
  <2>2. PICK k \in Kinds : FirstOn(r, SitesTried(r), a, k)
    BY <1>1, <2>1 DEF nextAccountForModel, Picks, TypeOK
  <2>3. SiteOf[a] \in SitesTried(r)
    BY <2>2 DEF FirstOn, Candidates
  <2>4. ~Reachable(r, preferred[r])
    BY <1>1, <2>3 DEF SitesTried
  <2>5. b \in Accounts /\ SiteOf[b] \in Sites
    BY <2>1, PoolAssumption DEF TypeOK
  <2>6. SiteOf[b] \in preferred[r] /\ preferred[r] \in SUBSET Sites
    BY <1>1, <2>1, <2>5 DEF PrefersFree, Picks, TypeOK
  <2>7. QED
    BY <2>1, <2>4, <2>6, ServesIsReachable
<1>2. IInv /\ [Next]_vars =>
        [\A r \in Requests, a \in Accounts :
            Picks(r, a) /\ SiteOf[a] \notin preferred[r]
            /\ (\E s \in Sites : <<s, model[r]>> \in CatalogPaid) =>
                \A b \in allowed[model[r]] \ attempted[r] :
                    <<SiteOf[b], model[r]>> \in CatalogFree => ~Serves(b, model[r])]_vars
  BY <1>1
<1>3. QED
  BY Invariance, <1>2, PTL DEF Spec, PaidSiteIsLastResort
=============================================================================
