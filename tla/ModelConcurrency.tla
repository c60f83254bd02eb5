--------------------------- MODULE ModelConcurrency ---------------------------
(***************************************************************************)
(* The limiter in front of every model request (concurrent.go): two        *)
(* counters under one mutex, a channel that is closed and replaced         *)
(* whenever room may have appeared, and a release that up to four          *)
(* goroutines may call for the same slot.                                  *)
(*                                                                         *)
(* A request is one call of acquireModelConcurrency: upstreamChat makes    *)
(* one per account it tries.  Its way through the code:                    *)
(*                                                                         *)
(*   idle -> check -> (waiting -> check)* -> admitted -> bound -> idle     *)
(*                                       \-> idle (context error)          *)
(***************************************************************************)
EXTENDS Integers, FiniteSets

CONSTANTS Requests, Keys, NoKey, Configs, DefaultMaxAcc    \* see Admission

ASSUME RequestsAssumption == IsFiniteSet(Requests)
ASSUME NoKeyAssumption == NoKey \notin Keys
ASSUME ConfigsAssumption == Configs \subseteq [MaxAcc : Int, MaxGlobal : Int]
ASSUME DefaultAssumption == DefaultMaxAcc \in Nat \ {0}

\* Who may call the release of a slot: upstreamChat itself before the response
\* is bound (direct); after it the body, read to its end, failed or closed, the
\* returned cancel function, and the AfterFunc on the client's context.
BodyTriggers == {"body", "cancel"}
Triggers == BodyTriggers \cup {"direct", "ctx"}

VARIABLES
    limits,     \* l.limits
    total,      \* l.total
    accounts,   \* l.accounts, a missing key reading as 0
    parked,     \* requests whose snapshot of l.changed is the open channel
    pc,         \* where each request stands
    key,        \* the account it asks a slot of
    cancelled,  \* its context is done
    armed,      \* the AfterFunc of bindModelConcurrency is registered
    calling,    \* callers inside finish that have not reached the release yet
    fired,      \* the body triggers already used for this slot
    released    \* the once of the release has run

vars == <<limits, total, accounts, parked, pc, key, cancelled, armed, calling,
          fired, released>>
slotVars == <<limits, total, accounts>>
bindVars == <<armed, calling, fired, released>>

\* What the limiter promises; the slots really held are those of requests past
\* acquire whose release has not run.
held == [r \in Requests |->
            IF pc[r] \in {"admitted", "bound"} /\ ~released[r] THEN key[r] ELSE NoKey]
Promise == INSTANCE Admission WITH holds <- held

normalizeConcurrentConfig(c) == Promise!normalizeConcurrentConfig(c)

-----------------------------------------------------------------------------

Init ==
    /\ limits = [MaxAcc |-> DefaultMaxAcc, MaxGlobal |-> 0]
    /\ total = 0
    /\ accounts = [k \in Keys |-> 0]
    /\ parked = {}
    /\ pc = [r \in Requests |-> "idle"]
    /\ key = [r \in Requests |-> NoKey]
    /\ cancelled = [r \in Requests |-> FALSE]
    /\ armed = [r \in Requests |-> FALSE]
    /\ calling = [r \in Requests |-> {}]
    /\ fired = [r \in Requests |-> {}]
    /\ released = [r \in Requests |-> FALSE]

\* MUTANT: the global limit forgotten.
HasRoomPerAccountOnly(k) == accounts[k] < limits.MaxAcc

HasRoom(k) ==
    /\ accounts[k] < limits.MaxAcc
    /\ limits.MaxGlobal = 0 \/ total < limits.MaxGlobal

\* notifyLocked closes the channel every parked request selects on and opens a
\* new one nobody holds yet.
notifyLocked == parked' = {}

configure(c) ==
    /\ limits' = normalizeConcurrentConfig(c)
    /\ notifyLocked
    /\ UNCHANGED <<total, accounts, pc, key, cancelled, bindVars>>

-----------------------------------------------------------------------------
(* acquire *)

\* upstreamChat picked account k and calls acquireModelConcurrency.  Another
\* attempt of the same request keeps its context, a new request has a live one.
StartAcquire(r, k) ==
    /\ pc[r] = "idle"
    /\ pc' = [pc EXCEPT ![r] = "check"]
    /\ key' = [key EXCEPT ![r] = k]
    /\ \E dead \in {FALSE, cancelled[r]} : cancelled' = [cancelled EXCEPT ![r] = dead]
    /\ UNCHANGED <<slotVars, parked, bindVars>>

Leave(r) ==
    /\ pc' = [pc EXCEPT ![r] = "idle"]
    /\ key' = [key EXCEPT ![r] = NoKey]

\* Under the mutex: the context is looked at before the limits.
RefuseCancelled(r) ==
    /\ pc[r] = "check"
    /\ cancelled[r]
    /\ Leave(r)
    /\ UNCHANGED <<slotVars, parked, cancelled, bindVars>>

\* Both counters move in one critical section, or none does.
Admit(r) ==
    /\ pc[r] = "check"
    /\ ~cancelled[r]
    /\ HasRoom(key[r])
    /\ total' = total + 1
    /\ accounts' = [accounts EXCEPT ![key[r]] = @ + 1]
    /\ pc' = [pc EXCEPT ![r] = "admitted"]
    /\ UNCHANGED <<limits, parked, key, cancelled, bindVars>>

\* No room: keep the channel that was open while the mutex was held, and wait
\* on it without the mutex.
Park(r) ==
    /\ pc[r] = "check"
    /\ ~cancelled[r]
    /\ ~HasRoom(key[r])
    /\ parked' = parked \cup {r}
    /\ pc' = [pc EXCEPT ![r] = "waiting"]
    /\ UNCHANGED <<slotVars, key, cancelled, bindVars>>

\* The select: either arm, when both are ready.
Wake(r) ==
    /\ pc[r] = "waiting"
    /\ r \notin parked
    /\ pc' = [pc EXCEPT ![r] = "check"]
    /\ UNCHANGED <<slotVars, parked, key, cancelled, bindVars>>

GiveUp(r) ==
    /\ pc[r] = "waiting"
    /\ cancelled[r]
    /\ parked' = parked \ {r}
    /\ Leave(r)
    /\ UNCHANGED <<slotVars, cancelled, bindVars>>

-----------------------------------------------------------------------------
(* release *)

\* MUTANT: no AfterFunc, the slot follows the body only.
bindWithoutAfterFunc(r) ==
    /\ pc[r] = "admitted"
    /\ "direct" \notin calling[r] /\ ~released[r]
    /\ pc' = [pc EXCEPT ![r] = "bound"]
    /\ UNCHANGED <<slotVars, parked, key, cancelled, bindVars>>

\* The upstream answered: from here the slot follows the response body.
bindModelConcurrency(r) ==
    /\ pc[r] = "admitted"
    /\ "direct" \notin calling[r] /\ ~released[r]
    /\ pc' = [pc EXCEPT ![r] = "bound"]
    /\ armed' = [armed EXCEPT ![r] = TRUE]
    /\ UNCHANGED <<slotVars, parked, key, cancelled, calling, fired, released>>

\* upstreamChat leaves before binding: the token could not be refreshed, the
\* credential lock was not obtained, the account got disabled, no response.
DirectRelease(r) ==
    /\ pc[r] = "admitted"
    /\ "direct" \notin calling[r] /\ ~released[r]
    /\ calling' = [calling EXCEPT ![r] = @ \cup {"direct"}]
    /\ UNCHANGED <<slotVars, parked, pc, key, cancelled, armed, fired, released>>

\* finish of bindModelConcurrency unregisters the AfterFunc, then releases.
finish(r, t) ==
    /\ pc[r] = "bound"
    /\ t \notin fired[r]
    /\ fired' = [fired EXCEPT ![r] = @ \cup {t}]
    /\ armed' = [armed EXCEPT ![r] = FALSE]
    /\ calling' = [calling EXCEPT ![r] = @ \cup {t}]
    /\ UNCHANGED <<slotVars, parked, pc, key, cancelled, released>>

\* The AfterFunc starts in a goroutine of its own, unless it was stopped first.
AfterFunc(r) ==
    /\ armed[r]
    /\ cancelled[r]
    /\ armed' = [armed EXCEPT ![r] = FALSE]
    /\ calling' = [calling EXCEPT ![r] = @ \cup {"ctx"}]
    /\ UNCHANGED <<slotVars, parked, pc, key, cancelled, fired, released>>

\* MUTANT: a release without the once.
releaseEveryTime(r, t) ==
    /\ t \in calling[r]
    /\ calling' = [calling EXCEPT ![r] = @ \ {t}]
    /\ released' = [released EXCEPT ![r] = TRUE]
    /\ total' = total - 1
    /\ accounts' = [accounts EXCEPT ![key[r]] = @ - 1]
    /\ notifyLocked
    /\ UNCHANGED <<limits, pc, key, cancelled, armed, fired>>

\* MUTANT: a release that wakes nobody.
releaseSilently(r, t) ==
    /\ t \in calling[r]
    /\ calling' = [calling EXCEPT ![r] = @ \ {t}]
    /\ released' = [released EXCEPT ![r] = TRUE]
    /\ IF released[r]
       THEN UNCHANGED <<total, accounts>>
       ELSE /\ total' = total - 1
            /\ accounts' = [accounts EXCEPT ![key[r]] = @ - 1]
    /\ UNCHANGED <<limits, parked, pc, key, cancelled, armed, fired>>

\* One caller runs the release; whoever comes second finds the once done.
release(r, t) ==
    /\ t \in calling[r]
    /\ calling' = [calling EXCEPT ![r] = @ \ {t}]
    /\ released' = [released EXCEPT ![r] = TRUE]
    /\ IF released[r]
       THEN UNCHANGED <<total, accounts, parked>>
       ELSE /\ total' = total - 1
            /\ accounts' = [accounts EXCEPT ![key[r]] = @ - 1]
            /\ notifyLocked
    /\ UNCHANGED <<limits, pc, key, cancelled, armed, fired>>

\* The handler is done with this slot: no call of the release is under way.
Finished(r) ==
    /\ pc[r] \in {"admitted", "bound"}
    /\ released[r] /\ calling[r] = {} /\ ~armed[r]
    /\ Leave(r)
    /\ released' = [released EXCEPT ![r] = FALSE]
    /\ fired' = [fired EXCEPT ![r] = {}]
    /\ UNCHANGED <<slotVars, parked, cancelled, armed, calling>>

\* The client goes away, or its deadline passes, at any time.
CancelContext(r) ==
    /\ pc[r] # "idle"
    /\ ~cancelled[r]
    /\ cancelled' = [cancelled EXCEPT ![r] = TRUE]
    /\ UNCHANGED <<slotVars, parked, pc, key, bindVars>>

-----------------------------------------------------------------------------

acquire(r) == RefuseCancelled(r) \/ Admit(r) \/ Park(r) \/ Wake(r) \/ GiveUp(r)

\* The steps of the request's own goroutines: the Go scheduler runs them.
Runs(r) ==
    \/ acquire(r)
    \/ AfterFunc(r)
    \/ \E t \in Triggers : release(r, t)
    \/ Finished(r)

\* What the client, the upstream and the operator may do, or never do.
Chooses(r) ==
    \/ \E k \in Keys : StartAcquire(r, k)
    \/ bindModelConcurrency(r)
    \/ DirectRelease(r)
    \/ \E t \in BodyTriggers : finish(r, t)
    \/ CancelContext(r)

Next ==
    \/ \E r \in Requests : Runs(r) \/ Chooses(r)
    \/ \E c \in Configs : configure(c)

Spec == Init /\ [][Next]_vars

\* A goroutine that can run is run.  Nothing makes an upstream answer, a client
\* give up or an operator change the limits.
FairSpec ==
    /\ Spec
    /\ \A r \in Requests :
        /\ WF_vars(acquire(r))
        /\ WF_vars(AfterFunc(r))
        /\ \A t \in Triggers : WF_vars(release(r, t))

-----------------------------------------------------------------------------

States == {"idle", "check", "waiting", "admitted", "bound"}

\* Every variable keeps its type, and the limits in force always admit somebody
\* (modelConcurrencyLimiter, normalizeConcurrentConfig).
TypeOK ==
    /\ limits \in Promise!Limits
    /\ total \in Int
    /\ accounts \in [Keys -> Int]
    /\ parked \subseteq Requests
    /\ pc \in [Requests -> States]
    /\ key \in [Requests -> Keys \cup {NoKey}]
    /\ cancelled \in [Requests -> BOOLEAN]
    /\ armed \in [Requests -> BOOLEAN]
    /\ calling \in [Requests -> SUBSET Triggers]
    /\ fired \in [Requests -> SUBSET BodyTriggers]
    /\ released \in [Requests -> BOOLEAN]

\* The counters are the slots really held, whatever the order in which body,
\* cancel function and AfterFunc release them and however often the limits
\* change: a slot released twice lets one request too many in, a slot never
\* released is lost for the life of the process.
CountersMatchHolders ==
    /\ total = Cardinality(Promise!Holders)
    /\ \A k \in Keys : accounts[k] = Cardinality(Promise!HoldersOf(k))

\* No lost wake-up: a request asleep on the open channel has no room.  The
\* channel is snapshotted under the mutex and waited on without it; a release
\* or a configure in between must not leave the request asleep beside a free
\* slot.
NoLostWakeup == \A r \in parked : ~HasRoom(key[r])

\* What the two invariants need to be inductive: who may be asleep, who may be
\* calling a release, and that the account of a slot is known while it matters.
Bookkeeping ==
    \A r \in Requests :
        /\ pc[r] # "idle" => key[r] \in Keys
        /\ r \in parked => pc[r] = "waiting"
        /\ calling[r] # {} \/ released[r] => pc[r] \in {"admitted", "bound"}
        /\ armed[r] => pc[r] = "bound"

IInv == TypeOK /\ CountersMatchHolders /\ NoLostWakeup /\ Bookkeeping

\* Shrinking the limits takes no slot away and lets nobody in: an account over
\* its limit only drains until it is under it again.
OverLimitOnlyDrains ==
    [][\A k \in Keys : accounts[k] >= limits.MaxAcc => accounts'[k] <= accounts[k]]_vars

\* The counters, the channel and the once together are the promise of Admission:
\* every step grants one free slot, gives one back, sets the limits, or changes
\* nothing a caller can see.
Implements == Promise!Spec

\* A client that goes away gives its slot back even when nobody reads or closes
\* the body: that is what the AfterFunc is for.
CancelFreesSlot ==
    \A r \in Requests : (pc[r] = "bound" /\ cancelled[r]) ~> (pc[r] # "bound" \/ released[r])
=============================================================================
