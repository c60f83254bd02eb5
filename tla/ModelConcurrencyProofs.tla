------------------------ MODULE ModelConcurrencyProofs ------------------------
(***************************************************************************)
(* For every set of requests, accounts and configurations: the counters of *)
(* the limiter are the slots held, no request sleeps beside a free slot,   *)
(* and the limiter implements Admission.                                   *)
(*                                                                         *)
(* Neither invariant is inductive alone.  IInv adds who may sleep and who  *)
(* may still call a release (Bookkeeping); it is checked by TLC too.       *)
(***************************************************************************)
EXTENDS ModelConcurrency, FiniteSetTheorems, TLAPS

-----------------------------------------------------------------------------
(* Counting sets of requests. *)

LEMMA AddOne ==
    ASSUME NEW S \in SUBSET Requests, NEW r \in Requests, r \notin S
    PROVE  Cardinality(S \cup {r}) = Cardinality(S) + 1
BY RequestsAssumption, FS_Subset, FS_AddElement

LEMMA RemoveOne ==
    ASSUME NEW S \in SUBSET Requests, NEW r \in Requests, r \in S
    PROVE  Cardinality(S \ {r}) = Cardinality(S) - 1
BY RequestsAssumption, FS_Subset, FS_RemoveElement

-----------------------------------------------------------------------------
(* The inductive invariant. *)

\* held is a function of accounts as long as a slot's account is known.
LEMMA HeldType == TypeOK /\ Bookkeeping => held \in [Requests -> Keys \cup {NoKey}]
BY DEF TypeOK, Bookkeeping, held

LEMMA LimitsType == \A c \in Configs : normalizeConcurrentConfig(c) \in Promise!Limits
BY ConfigsAssumption, DefaultAssumption
   DEF normalizeConcurrentConfig, Promise!normalizeConcurrentConfig, Promise!Limits

\* Counters, held slots and sleeping requests all start from nothing.
LEMMA InitIInv == Init => IInv
<1> SUFFICES ASSUME Init PROVE IInv
  OBVIOUS
<1>1. TypeOK
  BY DefaultAssumption DEF Init, TypeOK, Promise!Limits, States
<1>2. Bookkeeping
  BY DEF Init, Bookkeeping
<1>3. NoLostWakeup
  BY DEF Init, NoLostWakeup
<1>4. CountersMatchHolders
  <2>1. held = [r \in Requests |-> NoKey]
    BY DEF Init, held
  <2>2. Promise!Holders = {} /\ \A k \in Keys : Promise!HoldersOf(k) = {}
    BY <2>1, NoKeyAssumption DEF Promise!Holders, Promise!HoldersOf
  <2>3. QED
    BY <2>2, FS_EmptySet DEF Init, CountersMatchHolders
<1>5. QED
  BY <1>1, <1>2, <1>3, <1>4 DEF IInv

\* A step that changes neither the slots held nor the counters keeps them equal.
LEMMA SameSlots ==
    ASSUME CountersMatchHolders, held' = held, total' = total, accounts' = accounts
    PROVE  CountersMatchHolders'
BY DEF CountersMatchHolders, Promise!Holders, Promise!HoldersOf

\* A step that wakes everyone leaves nobody asleep beside a free slot.
LEMMA NobodyParked == parked' = {} => NoLostWakeup'
BY DEF NoLostWakeup

\* A step that frees no room and puts nobody to sleep keeps NoLostWakeup.
LEMMA StillNoRoom ==
    ASSUME NoLostWakeup, parked' \subseteq parked, limits' = limits, total' = total,
           accounts' = accounts, \A r \in parked' : key'[r] = key[r]
    PROVE  NoLostWakeup'
BY DEF NoLostWakeup, HasRoom

-----------------------------------------------------------------------------
(* One lemma per part of IInv; each goes through the actions. *)

LEMMA TypeStep == TypeOK /\ Bookkeeping /\ [Next]_vars => TypeOK'
<1> SUFFICES ASSUME TypeOK, Bookkeeping, [Next]_vars PROVE TypeOK'
  OBVIOUS
<1> USE DEF TypeOK, slotVars, bindVars, notifyLocked, Leave, States
<1>1. ASSUME NEW c \in Configs, configure(c) PROVE TypeOK'
  BY <1>1, LimitsType DEF configure
<1>2. ASSUME NEW r \in Requests, NEW k \in Keys, StartAcquire(r, k) PROVE TypeOK'
  BY <1>2 DEF StartAcquire
<1>3. ASSUME NEW r \in Requests, RefuseCancelled(r) PROVE TypeOK'
  BY <1>3 DEF RefuseCancelled
<1>4. ASSUME NEW r \in Requests, Admit(r) PROVE TypeOK'
  BY <1>4 DEF Admit, Bookkeeping
<1>5. ASSUME NEW r \in Requests, Park(r) PROVE TypeOK'
  BY <1>5 DEF Park
<1>6. ASSUME NEW r \in Requests, Wake(r) PROVE TypeOK'
  BY <1>6 DEF Wake
<1>7. ASSUME NEW r \in Requests, GiveUp(r) PROVE TypeOK'
  BY <1>7 DEF GiveUp
<1>8. ASSUME NEW r \in Requests, bindModelConcurrency(r) PROVE TypeOK'
  BY <1>8 DEF bindModelConcurrency
<1>9. ASSUME NEW r \in Requests, DirectRelease(r) PROVE TypeOK'
  BY <1>9 DEF DirectRelease, Triggers
<1>10. ASSUME NEW r \in Requests, NEW t \in BodyTriggers, finish(r, t) PROVE TypeOK'
  BY <1>10 DEF finish, Triggers
<1>11. ASSUME NEW r \in Requests, AfterFunc(r) PROVE TypeOK'
  BY <1>11 DEF AfterFunc, Triggers
<1>12. ASSUME NEW r \in Requests, NEW t \in Triggers, release(r, t) PROVE TypeOK'
  <2>1. key[r] \in Keys
    BY <1>12 DEF release, Bookkeeping
  <2>2. CASE released[r]
    BY <1>12, <2>2 DEF release
  <2>3. CASE ~released[r]
    BY <1>12, <2>1, <2>3 DEF release
  <2>4. QED
    BY <2>2, <2>3
<1>13. ASSUME NEW r \in Requests, Finished(r) PROVE TypeOK'
  BY <1>13 DEF Finished
<1>14. ASSUME NEW r \in Requests, CancelContext(r) PROVE TypeOK'
  BY <1>14 DEF CancelContext
<1>15. CASE UNCHANGED vars
  BY <1>15 DEF vars
<1>16. QED
  BY <1>1, <1>2, <1>3, <1>4, <1>5, <1>6, <1>7, <1>8, <1>9, <1>10, <1>11, <1>12,
     <1>13, <1>14, <1>15
  DEF Next, Runs, Chooses, acquire

LEMMA BookkeepingStep == TypeOK /\ Bookkeeping /\ [Next]_vars => Bookkeeping'
<1> SUFFICES ASSUME TypeOK, Bookkeeping, [Next]_vars PROVE Bookkeeping'
  OBVIOUS
<1> USE DEF TypeOK, Bookkeeping, slotVars, bindVars, notifyLocked, Leave, States
<1>1. ASSUME NEW c \in Configs, configure(c) PROVE Bookkeeping'
  BY <1>1 DEF configure
<1>2. ASSUME NEW r \in Requests, NEW k \in Keys, StartAcquire(r, k) PROVE Bookkeeping'
  BY <1>2 DEF StartAcquire
<1>3. ASSUME NEW r \in Requests, RefuseCancelled(r) PROVE Bookkeeping'
  BY <1>3 DEF RefuseCancelled
<1>4. ASSUME NEW r \in Requests, Admit(r) PROVE Bookkeeping'
  BY <1>4 DEF Admit
<1>5. ASSUME NEW r \in Requests, Park(r) PROVE Bookkeeping'
  BY <1>5 DEF Park
<1>6. ASSUME NEW r \in Requests, Wake(r) PROVE Bookkeeping'
  BY <1>6 DEF Wake
<1>7. ASSUME NEW r \in Requests, GiveUp(r) PROVE Bookkeeping'
  BY <1>7 DEF GiveUp
<1>8. ASSUME NEW r \in Requests, bindModelConcurrency(r) PROVE Bookkeeping'
  BY <1>8 DEF bindModelConcurrency
<1>9. ASSUME NEW r \in Requests, DirectRelease(r) PROVE Bookkeeping'
  BY <1>9 DEF DirectRelease
<1>10. ASSUME NEW r \in Requests, NEW t \in BodyTriggers, finish(r, t) PROVE Bookkeeping'
  BY <1>10 DEF finish
<1>11. ASSUME NEW r \in Requests, AfterFunc(r) PROVE Bookkeeping'
  BY <1>11 DEF AfterFunc
<1>12. ASSUME NEW r \in Requests, NEW t \in Triggers, release(r, t) PROVE Bookkeeping'
  <2>1. parked' \subseteq parked
    BY <1>12 DEF release
  <2>2. pc[r] \in {"admitted", "bound"}
    BY <1>12 DEF release
  <2>3. QED
    BY <1>12, <2>1, <2>2 DEF release
<1>13. ASSUME NEW r \in Requests, Finished(r) PROVE Bookkeeping'
  BY <1>13 DEF Finished
<1>14. ASSUME NEW r \in Requests, CancelContext(r) PROVE Bookkeeping'
  BY <1>14 DEF CancelContext
<1>15. CASE UNCHANGED vars
  BY <1>15 DEF vars
<1>16. QED
  BY <1>1, <1>2, <1>3, <1>4, <1>5, <1>6, <1>7, <1>8, <1>9, <1>10, <1>11, <1>12,
     <1>13, <1>14, <1>15
  DEF Next, Runs, Chooses, acquire

-----------------------------------------------------------------------------
(* What a step can do to the slots: nothing, take one, or give one back. *)

SlotsUnchanged == held' = held /\ total' = total /\ accounts' = accounts

\* Only a change of configuration changes the limits, and it wakes everyone.
LimitsChange ==
    \/ limits' = limits
    \/ parked' = {} /\ \E c \in Configs : limits' = normalizeConcurrentConfig(c)

SlotGained(r, k) ==
    /\ held[r] = NoKey /\ held' = [held EXCEPT ![r] = k]
    /\ HasRoom(k)
    /\ total' = total + 1
    /\ accounts' = [accounts EXCEPT ![k] = @ + 1]
    /\ UNCHANGED <<limits, parked, key>>

SlotLost(r, k) ==
    /\ held[r] = k /\ held' = [held EXCEPT ![r] = NoKey]
    /\ total' = total - 1
    /\ accounts' = [accounts EXCEPT ![k] = @ - 1]
    /\ parked' = {}
    /\ UNCHANGED limits

LEMMA SlotStep ==
    ASSUME TypeOK, Bookkeeping, [Next]_vars
    PROVE  \/ SlotsUnchanged /\ LimitsChange
           \/ \E r \in Requests, k \in Keys : SlotGained(r, k) \/ SlotLost(r, k)
<1> DEFINE Goal == \/ SlotsUnchanged /\ LimitsChange
                   \/ \E r \in Requests, k \in Keys : SlotGained(r, k) \/ SlotLost(r, k)
<1> USE DEF slotVars, bindVars, notifyLocked, Leave
<1>1. ASSUME NEW c \in Configs, configure(c) PROVE Goal
  BY <1>1 DEF configure, SlotsUnchanged, LimitsChange, held
<1>2. ASSUME NEW r \in Requests, NEW k \in Keys, StartAcquire(r, k) PROVE Goal
  <2>1. held' = held
    BY <1>2 DEF StartAcquire, held, TypeOK
  <2>2. QED
    BY <1>2, <2>1 DEF StartAcquire, SlotsUnchanged, LimitsChange
<1>3. ASSUME NEW r \in Requests, RefuseCancelled(r) PROVE Goal
  <2>1. held' = held
    BY <1>3 DEF RefuseCancelled, held, TypeOK
  <2>2. QED
    BY <1>3, <2>1 DEF RefuseCancelled, SlotsUnchanged, LimitsChange
<1>4. ASSUME NEW r \in Requests, Admit(r) PROVE Goal
  <2>1. key[r] \in Keys /\ ~released[r]
    BY <1>4 DEF Admit, Bookkeeping, TypeOK
  <2>2. held[r] = NoKey
    BY <1>4 DEF Admit, held
  <2>3. held' = [held EXCEPT ![r] = key[r]]
    BY <1>4, <2>1 DEF Admit, held, TypeOK
  <2>4. SlotGained(r, key[r])
    BY <1>4, <2>2, <2>3 DEF Admit, SlotGained
  <2>5. QED
    BY <2>1, <2>4
<1>5. ASSUME NEW r \in Requests, Park(r) PROVE Goal
  <2>1. held' = held
    BY <1>5 DEF Park, held, TypeOK
  <2>2. QED
    BY <1>5, <2>1 DEF Park, SlotsUnchanged, LimitsChange
<1>6. ASSUME NEW r \in Requests, Wake(r) PROVE Goal
  <2>1. held' = held
    BY <1>6 DEF Wake, held, TypeOK
  <2>2. QED
    BY <1>6, <2>1 DEF Wake, SlotsUnchanged, LimitsChange
<1>7. ASSUME NEW r \in Requests, GiveUp(r) PROVE Goal
  <2>1. held' = held
    BY <1>7 DEF GiveUp, held, TypeOK
  <2>2. QED
    BY <1>7, <2>1 DEF GiveUp, SlotsUnchanged, LimitsChange
<1>8. ASSUME NEW r \in Requests, bindModelConcurrency(r) PROVE Goal
  <2>1. held' = held
    BY <1>8 DEF bindModelConcurrency, held, TypeOK
  <2>2. QED
    BY <1>8, <2>1 DEF bindModelConcurrency, SlotsUnchanged, LimitsChange
<1>9. ASSUME NEW r \in Requests, DirectRelease(r) PROVE Goal
  BY <1>9 DEF DirectRelease, SlotsUnchanged, LimitsChange, held
<1>10. ASSUME NEW r \in Requests, NEW t \in BodyTriggers, finish(r, t) PROVE Goal
  BY <1>10 DEF finish, SlotsUnchanged, LimitsChange, held
<1>11. ASSUME NEW r \in Requests, AfterFunc(r) PROVE Goal
  BY <1>11 DEF AfterFunc, SlotsUnchanged, LimitsChange, held
<1>12. ASSUME NEW r \in Requests, NEW t \in Triggers, release(r, t) PROVE Goal
  <2>1. key[r] \in Keys /\ pc[r] \in {"admitted", "bound"}
    BY <1>12 DEF release, Bookkeeping
  <2>2. CASE released[r]
    <3>1. held' = held
      BY <1>12, <2>2 DEF release, held, TypeOK
    <3>2. QED
      BY <1>12, <2>2, <3>1 DEF release, SlotsUnchanged, LimitsChange
  <2>3. CASE ~released[r]
    <3>1. held[r] = key[r]
      BY <2>1, <2>3 DEF held
    <3>2. held' = [held EXCEPT ![r] = NoKey]
      BY <1>12, <2>3 DEF release, held, TypeOK
    <3>3. SlotLost(r, key[r])
      BY <1>12, <2>3, <3>1, <3>2 DEF release, SlotLost
    <3>4. QED
      BY <2>1, <3>3
  <2>4. QED
    BY <2>2, <2>3
<1>13. ASSUME NEW r \in Requests, Finished(r) PROVE Goal
  <2>1. held' = held
    BY <1>13 DEF Finished, held, TypeOK
  <2>2. QED
    BY <1>13, <2>1 DEF Finished, SlotsUnchanged, LimitsChange
<1>14. ASSUME NEW r \in Requests, CancelContext(r) PROVE Goal
  BY <1>14 DEF CancelContext, SlotsUnchanged, LimitsChange, held
<1>15. CASE UNCHANGED vars
  BY <1>15 DEF vars, SlotsUnchanged, LimitsChange, held
<1>16. QED
  BY <1>1, <1>2, <1>3, <1>4, <1>5, <1>6, <1>7, <1>8, <1>9, <1>10, <1>11, <1>12,
     <1>13, <1>14, <1>15
  DEF Next, Runs, Chooses, acquire

LEMMA CountersStep ==
    ASSUME TypeOK, Bookkeeping, CountersMatchHolders, [Next]_vars
    PROVE  CountersMatchHolders'
<1>1. CASE SlotsUnchanged /\ LimitsChange
  BY <1>1, SameSlots DEF SlotsUnchanged
<1>2. ASSUME NEW r \in Requests, NEW k \in Keys, SlotGained(r, k)
      PROVE  CountersMatchHolders'
  <2> USE DEF Promise!Holders, Promise!HoldersOf
  <2>1. /\ held \in [Requests -> Keys \cup {NoKey}]
        /\ held[r] = NoKey /\ held' = [held EXCEPT ![r] = k] /\ k # NoKey
    BY <1>2, HeldType, NoKeyAssumption DEF SlotGained
  <2>2. Cardinality(Promise!Holders)' = Cardinality(Promise!Holders) + 1
    <3>1. Promise!Holders' = Promise!Holders \cup {r}
      BY <2>1
    <3>2. QED
      BY <2>1, <3>1, AddOne
  <2>3. Cardinality(Promise!HoldersOf(k))' = Cardinality(Promise!HoldersOf(k)) + 1
    <3>1. Promise!HoldersOf(k)' = Promise!HoldersOf(k) \cup {r}
      BY <2>1
    <3>2. QED
      BY <2>1, <3>1, AddOne
  <2>4. \A j \in Keys \ {k} : Promise!HoldersOf(j)' = Promise!HoldersOf(j)
    BY <2>1, NoKeyAssumption
  <2> HIDE DEF Promise!Holders, Promise!HoldersOf
  <2>5. QED
    BY <1>2, <2>2, <2>3, <2>4 DEF SlotGained, CountersMatchHolders, TypeOK
<1>3. ASSUME NEW r \in Requests, NEW k \in Keys, SlotLost(r, k)
      PROVE  CountersMatchHolders'
  <2> USE DEF Promise!Holders, Promise!HoldersOf
  <2>1. /\ held \in [Requests -> Keys \cup {NoKey}]
        /\ held[r] = k /\ held' = [held EXCEPT ![r] = NoKey] /\ k # NoKey
    BY <1>3, HeldType, NoKeyAssumption DEF SlotLost
  <2>2. Cardinality(Promise!Holders)' = Cardinality(Promise!Holders) - 1
    <3>1. Promise!Holders' = Promise!Holders \ {r}
      BY <2>1
    <3>2. QED
      BY <2>1, <3>1, RemoveOne
  <2>3. Cardinality(Promise!HoldersOf(k))' = Cardinality(Promise!HoldersOf(k)) - 1
    <3>1. Promise!HoldersOf(k)' = Promise!HoldersOf(k) \ {r}
      BY <2>1
    <3>2. QED
      BY <2>1, <3>1, RemoveOne
  <2>4. \A j \in Keys \ {k} : Promise!HoldersOf(j)' = Promise!HoldersOf(j)
    BY <2>1, NoKeyAssumption
  <2> HIDE DEF Promise!Holders, Promise!HoldersOf
  <2>5. QED
    BY <1>3, <2>2, <2>3, <2>4 DEF SlotLost, CountersMatchHolders, TypeOK
<1>4. QED
  BY <1>1, <1>2, <1>3, SlotStep

LEMMA WakeupStep ==
    ASSUME TypeOK, Bookkeeping, NoLostWakeup, [Next]_vars
    PROVE  NoLostWakeup'
<1>1. CASE parked' = {}
  BY <1>1, NobodyParked
<1>2. CASE parked' # {}
  <2>1. ASSUME NEW r \in Requests, NEW k \in Keys, SlotGained(r, k)
        PROVE  NoLostWakeup'
    BY <2>1 DEF SlotGained, NoLostWakeup, HasRoom, TypeOK, Bookkeeping, Promise!Limits
  <2>2. ASSUME SlotsUnchanged, limits' = limits
        PROVE  NoLostWakeup'
    <3> USE DEF slotVars, bindVars, Leave
    <3>1. ASSUME NEW r \in parked' PROVE ~HasRoom(key'[r])
      <4>1. CASE r \in parked /\ key'[r] = key[r]
        BY <4>1 DEF NoLostWakeup
      <4>2. CASE r \in parked /\ key'[r] # key[r]
        <5>1. pc[r] = "waiting"
          BY <4>2 DEF TypeOK, Bookkeeping
        <5>2. QED
          BY <4>2, <5>1, <3>1
          DEF TypeOK, Next, Runs, Chooses, acquire, vars, notifyLocked, configure,
              StartAcquire, RefuseCancelled, Admit, Park, Wake, GiveUp,
              bindModelConcurrency, DirectRelease, finish, AfterFunc, release,
              Finished, CancelContext
      <4>3. CASE r \notin parked
        BY <4>3, <3>1
        DEF Next, Runs, Chooses, acquire, vars, notifyLocked, configure,
            StartAcquire, RefuseCancelled, Admit, Park, Wake, GiveUp,
            bindModelConcurrency, DirectRelease, finish, AfterFunc, release,
            Finished, CancelContext
      <4>4. QED
        BY <4>1, <4>2, <4>3
    <3>2. QED
      BY <2>2, <3>1 DEF SlotsUnchanged, NoLostWakeup, HasRoom
  <2>3. QED
    BY <1>2, <2>1, <2>2, SlotStep DEF LimitsChange, SlotLost
<1>3. QED
  BY <1>1, <1>2

LEMMA StepIInv == IInv /\ [Next]_vars => IInv'
BY TypeStep, BookkeepingStep, CountersStep, WakeupStep DEF IInv

-----------------------------------------------------------------------------

THEOREM Invariance == Spec => []IInv
BY InitIInv, StepIInv, PTL DEF Spec

\* The limiter's state keeps its types, and the limits in force are always ones
\* that admit somebody: a positive limit per account, no negative global one.
THEOREM TypeCorrect == Spec => []TypeOK
BY Invariance, PTL DEF IInv

\* The counters of concurrent.go are the slots held, however body, cancel
\* function, AfterFunc and early returns compete for the release.
THEOREM CountersCorrect == Spec => []CountersMatchHolders
BY Invariance, PTL DEF IInv

\* No request of any number of them sleeps on the channel beside a free slot.
THEOREM NoWakeupLost == Spec => []NoLostWakeup
BY Invariance, PTL DEF IInv

\* An account over its limit after a shrink only drains.
THEOREM OverLimitDrains == Spec => OverLimitOnlyDrains
<1>1. IInv /\ [Next]_vars
        => [\A k \in Keys : accounts[k] >= limits.MaxAcc => accounts'[k] <= accounts[k]]_vars
  <2> SUFFICES ASSUME IInv, [Next]_vars, NEW k \in Keys, accounts[k] >= limits.MaxAcc
               PROVE  accounts'[k] <= accounts[k]
    OBVIOUS
  <2>1. /\ TypeOK /\ Bookkeeping
        /\ accounts \in [Keys -> Int] /\ limits.MaxAcc \in Nat
    BY DEF IInv, TypeOK, Promise!Limits
  <2>2. CASE SlotsUnchanged
    BY <2>1, <2>2 DEF SlotsUnchanged
  <2>3. ASSUME NEW r \in Requests, NEW j \in Keys, SlotGained(r, j) \/ SlotLost(r, j)
        PROVE  accounts'[k] <= accounts[k]
    BY <2>1, <2>3 DEF SlotGained, SlotLost, HasRoom
  <2>4. QED
    BY <2>1, <2>2, <2>3, SlotStep
<1>2. QED
  BY Invariance, <1>1, PTL DEF Spec, OverLimitOnlyDrains

\* The limiter implements the promise of Admission.
THEOREM Refinement == Spec => Implements
<1>1. Init => Promise!Init
  BY DEF Init, Promise!Init, held
<1>2. IInv /\ [Next]_vars => [Promise!Next]_<<limits, held>>
  <2> SUFFICES ASSUME IInv, [Next]_vars PROVE [Promise!Next]_<<limits, held>>
    OBVIOUS
  <2>1. TypeOK /\ Bookkeeping /\ CountersMatchHolders
    BY DEF IInv
  <2>2. CASE SlotsUnchanged /\ LimitsChange
    BY <2>2 DEF SlotsUnchanged, LimitsChange, Promise!Next, Promise!Reconfigure,
                normalizeConcurrentConfig
  <2>3. ASSUME NEW r \in Requests, NEW k \in Keys, SlotGained(r, k)
        PROVE  Promise!Grant(r, k)
    BY <2>1, <2>3 DEF SlotGained, HasRoom, Promise!Grant, CountersMatchHolders,
                Cardinality, Promise!Cardinality
  <2>4. ASSUME NEW r \in Requests, NEW k \in Keys, SlotLost(r, k)
        PROVE  Promise!GiveBack(r)
    BY <2>4, NoKeyAssumption DEF SlotLost, Promise!GiveBack
  <2>5. QED
    BY <2>1, <2>2, <2>3, <2>4, SlotStep DEF Promise!Next
<1>3. QED
  BY Invariance, <1>1, <1>2, PTL DEF Spec, Implements, Promise!Spec
=============================================================================
