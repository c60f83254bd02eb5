-------------------------- MODULE DailyCheckinProofs --------------------------
(***************************************************************************)
(* Proofs about DailyCheckin, for every set of accounts, every placing of  *)
(* the windows and every number of crashes and of clocks set back.         *)
(*                                                                         *)
(* AttemptSentOnce rests on the order in which the scheduler works: an     *)
(* attempt is in the file before its job exists (JobsOnDisk), the file     *)
(* only moves on (Onward), and a look reserves only attempts that are not  *)
(* in the file yet (Claims).  So the request of a new job is neither among *)
(* those sent nor among those of other jobs (Unsent, OneJob).              *)
(*                                                                         *)
(* The second invariant, QInv, is about documents and the clock: what is   *)
(* written can be read again (Sound), one plan of the start-up queue runs  *)
(* at a time (OneBusy) and its job is where the plan says (JobsBusy).      *)
(* While nobody sets the clock, a document is of no later day than the     *)
(* clock, a job is of an hour that has come (Begun), and the file knows    *)
(* when the last request of the queue ended, or has it as running (Knows). *)
(***************************************************************************)
EXTENDS DailyCheckin, TLAPS

Reserved(d, r) == \/ d.date > r.day
                  \/ d.date = r.day /\ d.plans[r.key].attempts >= r.attempt

\* The scheduler that has not given up holds what is on disk.
Synced == up /\ ~blocked => doc = file
JobsOnDisk == \A j \in jobs : Reserved(file, Request(j))
Unsent == \A j \in jobs : j.phase = "claimed" => Request(j) \notin sent
Bare(p) == p.status = "none" => p.attempts = 0
NoneYet == \A k \in Accounts : Bare(file.plans[k])
OneJob == \A i, j \in jobs : Request(i) = Request(j) => i = j
SentKnown == sent \subseteq [key : Accounts, day : 1 .. MaxDay, attempt : 1 .. 2]

IInv == /\ TypeOK /\ Synced /\ SentKnown /\ NoneYet
        /\ SentIsOnDisk /\ JobsOnDisk /\ Unsent /\ OneJob

USE DEF Statuses

\* q prepares p for the claims: it has every attempt p has, and no more.
Prepares(p, q) == Bare(p) =>
    /\ q.attempts = p.attempts /\ Bare(q)
    /\ p.status \in {"success", "missed"} => q = p

\* e goes on from d: a later day, or the same one with nothing taken back.
Kept(p, q) == /\ q.attempts >= p.attempts
              /\ p.status \in {"success", "missed"} => q = p
Onward(d, e) ==
    /\ e.date >= d.date
    /\ e.date = d.date => \A k \in Accounts : Kept(d.plans[k], e.plans[k])

NowType == [day : 1 .. MaxDay, time : 0 .. (DayEnd - 1)]

-----------------------------------------------------------------------------
(* The stages of a look *)

\* A day without plans is a document.
LEMMA BlankType ==
    ASSUME NEW day \in 0 .. MaxDay
    PROVE  Blank(day) \in DocType
BY WindowsAssumption DEF Blank, DocType, PlanType, NoPlan

\* The roll gives a document of today, which is d if d is of today.
LEMMA RolledType ==
    ASSUME NEW d \in DocType, now \in NowType
    PROVE  /\ Rolled(d) \in DocType /\ Rolled(d).date = now.day
           /\ d.date = now.day => Rolled(d) = d
BY BlankType, BoundsAssumption DEF Rolled, Blank, NowType, DocType

\* A document keeps its type when its plans and its last request do.
LEMMA PartsType ==
    ASSUME NEW d \in DocType, NEW f \in [Accounts -> PlanType], NEW l \in 0 .. (DayEnd - 1)
    PROVE  /\ [d EXCEPT !.plans = f, !.last = l] \in DocType
           /\ [d EXCEPT !.plans = f, !.last = l].plans = f
           /\ [d EXCEPT !.plans = f, !.last = l].date = d.date
           /\ [d EXCEPT !.plans = f] = [d EXCEPT !.plans = f, !.last = d.last]
<1> HIDE DEF Statuses
<1> QED BY DEF DocType

\* What a start does with a plan that was running.
LEMMA InterruptedType ==
    ASSUME NEW p \in PlanType, p.status = "running"
    PROVE  Interrupted(p) \in PlanType /\ Prepares(p, Interrupted(p))
BY DEF Interrupted, PlanType, Prepares, Bare

\* A plan is reviewed: it may end, unless it has.
LEMMA ReviewedType ==
    ASSUME NEW p \in PlanType, NEW d, NEW boot
    PROVE  Reviewed(d, p, boot) \in PlanType /\ Prepares(p, Reviewed(d, p, boot))
<1> DEFINE r == IF RetryOver(d, p, boot) THEN TRUE ELSE p.retryEnd
           s == IF FirstOver(d, p, boot) THEN "missed" ELSE p.status
<1>1. r \in BOOLEAN /\ s \in Statuses /\ (s = "none" => p.status = "none")
  BY DEF PlanType
<1>2. p.status \in {"success", "missed"} => r = p.retryEnd /\ s = p.status
  BY DEF RetryOver, FirstOver
<1>3. Reviewed(d, p, boot) = [p EXCEPT !.retryEnd = r, !.status = s]
  BY DEF Reviewed, PlanType
<1> HIDE DEF r, s
<1>4. /\ [p EXCEPT !.retryEnd = r, !.status = s] \in PlanType
      /\ [p EXCEPT !.retryEnd = r, !.status = s].attempts = p.attempts
      /\ [p EXCEPT !.retryEnd = r, !.status = s].status = s
  BY <1>1 DEF PlanType
<1>5. r = p.retryEnd /\ s = p.status => [p EXCEPT !.retryEnd = r, !.status = s] = p
  BY DEF PlanType
<1> QED BY <1>1, <1>2, <1>3, <1>4, <1>5 DEF Prepares, Bare

\* The recovery of a start changes only plans that were running.
LEMMA RecoveredType ==
    ASSUME NEW d \in DocType, now \in NowType, NEW boot
    PROVE  /\ Recovered(d, boot) \in DocType /\ Recovered(d, boot).date = d.date
           /\ \A k \in Accounts :
                /\ Prepares(d.plans[k], Recovered(d, boot).plans[k])
                /\ Recovered(d, boot).plans[k].status = "none" <=> d.plans[k].status = "none"
<1> DEFINE cut == {k \in Accounts : boot /\ d.plans[k].status = "running"}
           f == [k \in Accounts |-> IF k \in cut THEN Interrupted(d.plans[k]) ELSE d.plans[k]]
           l == IF now.time >= Start /\ \E k \in cut : d.plans[k].startup # 0
                THEN Later(d.last, now.time) ELSE d.last
<1>1. Recovered(d, boot) = [d EXCEPT !.plans = f, !.last = l]
  BY DEF Recovered, DocType
<1>2. l \in 0 .. (DayEnd - 1)
  BY DEF DocType, NowType, Later
<1>3. ASSUME NEW k \in Accounts
      PROVE  f[k] \in PlanType /\ Prepares(d.plans[k], f[k])
  <2>1. d.plans[k] \in PlanType
    BY DEF DocType
  <2>2. k \in cut => d.plans[k].status = "running"
    OBVIOUS
  <2> HIDE DEF cut
  <2> QED BY <2>1, <2>2, InterruptedType DEF Prepares
<1>4. f \in [Accounts -> PlanType]
  <2>1. f = [k \in Accounts |-> f[k]]
    OBVIOUS
  <2>2. \A k \in Accounts : f[k] \in PlanType
    BY <1>3
  <2> HIDE DEF f
  <2> QED BY <2>1, <2>2
<1>5. \A k \in Accounts : Prepares(d.plans[k], f[k])
  BY <1>3
<1>6. ASSUME NEW k \in Accounts
      PROVE  f[k].status = "none" <=> d.plans[k].status = "none"
  <2>1. d.plans[k] \in PlanType
    BY DEF DocType
  <2>2. k \in cut => d.plans[k].status = "running"
    OBVIOUS
  <2>3. f[k] = IF k \in cut THEN Interrupted(d.plans[k]) ELSE d.plans[k]
    OBVIOUS
  <2> HIDE DEF cut, f
  <2> QED BY <2>1, <2>2, <2>3 DEF Interrupted, PlanType
<1> DEFINE e == [d EXCEPT !.plans = f, !.last = l]
<1> HIDE DEF cut, f, l
<1>7. e \in DocType /\ e.plans = f /\ e.date = d.date
  BY <1>2, <1>4, PartsType DEF DocType
<1>8. Recovered(d, boot) = e
  BY <1>1
<1> HIDE DEF e
<1> QED BY <1>5, <1>6, <1>7, <1>8

\* Planning adds plans and ends those whose time has passed.
LEMMA PlannedType ==
    ASSUME NEW d \in DocType, now \in NowType, NEW boot,
           NEW first \in [Fresh(d) -> FirstTimes], NEW retry \in [Fresh(d) -> RetryTimes]
    PROVE  /\ Planned(d, first, retry, boot) \in DocType
           /\ Planned(d, first, retry, boot).date = d.date
           /\ \A k \in Accounts :
                Prepares(d.plans[k], Planned(d, first, retry, boot).plans[k])
<1> DEFINE f == [k \in Accounts |->
                IF k \notin targets THEN d.plans[k]
                ELSE IF k \notin Fresh(d) THEN Reviewed(d, d.plans[k], boot)
                ELSE Reviewed(d, NewPlan(first[k], retry[k], boot), boot)]
<1>1. Planned(d, first, retry, boot) = [d EXCEPT !.plans = f]
  BY DEF Planned
<1>2. ASSUME NEW k \in Accounts
      PROVE  f[k] \in PlanType /\ Prepares(d.plans[k], f[k])
  <2>1. d.plans[k] \in PlanType
    BY DEF DocType
  <2>2. CASE k \notin targets
    BY <2>1, <2>2 DEF Prepares
  <2>3. CASE k \in targets /\ k \notin Fresh(d)
    BY <2>1, <2>3, ReviewedType
  <2>4. CASE k \in Fresh(d)
    <3>1. d.plans[k].status = "none" /\ k \in targets
      BY <2>4 DEF Fresh
    <3> DEFINE new == NewPlan(first[k], retry[k], boot)
    <3>2. new \in PlanType /\ new.attempts = 0
      <4> DEFINE a == first[k]
                 b == retry[k]
                 s == IF a <= now.time /\ ~(boot /\ now.time >= Start)
                      THEN "missed" ELSE "pending"
      <4>1. a \in 0 .. DayEnd /\ b \in 0 .. DayEnd
        <5>1. a \in FirstTimes /\ b \in RetryTimes
          BY <2>4
        <5> HIDE DEF a, b
        <5> QED BY <5>1, WindowsAssumption DEF FirstTimes, RetryTimes
      <4>2. s \in {"missed", "pending"}
        OBVIOUS
      <4>3. new = [NoPlan EXCEPT !.first = a, !.retry = b, !.status = s]
        BY DEF NewPlan
      <4>4. new = [status |-> s, attempts |-> 0, first |-> a, retry |-> b,
                   startup |-> 0, retryEnd |-> FALSE]
        BY <4>3 DEF NoPlan
      <4> HIDE DEF a, b, s, new
      <4> QED BY <4>1, <4>2, <4>4, WindowsAssumption DEF PlanType
    <3>3. f[k] = Reviewed(d, new, boot)
      BY <2>4, <3>1
    <3> HIDE DEF new, f
    <3> QED BY <3>1, <3>2, <3>3, ReviewedType DEF Prepares, Bare
  <2> QED BY <2>2, <2>3, <2>4
<1>3. f \in [Accounts -> PlanType]
  <2>1. f = [k \in Accounts |-> f[k]]
    OBVIOUS
  <2> HIDE DEF f
  <2> QED BY <1>2, <2>1
<1> HIDE DEF f
<1> QED BY <1>1, <1>2, <1>3, PartsType DEF DocType

\* The start-up queue gives waiting plans a time of the day, or ends them.
LEMMA QueuedType ==
    ASSUME NEW d \in DocType, now \in NowType
    PROVE  /\ queueStartup(d) \in DocType /\ queueStartup(d).date = d.date
           /\ \A k \in Accounts : Prepares(d.plans[k], queueStartup(d).plans[k])
<1> DEFINE f == [k \in Accounts |->
                IF k \notin Waiting(d) THEN d.plans[k]
                ELSE IF QueueTime(d, k) \in Start .. (DayEnd - 1)
                THEN [d.plans[k] EXCEPT !.startup = QueueTime(d, k)]
                ELSE [d.plans[k] EXCEPT !.status = "missed"]]
<1>1. queueStartup(d) = [d EXCEPT !.plans = f]
  BY DEF queueStartup
<1>2. ASSUME NEW k \in Accounts
      PROVE  f[k] \in PlanType /\ Prepares(d.plans[k], f[k])
  <2> DEFINE q == QueueTime(d, k)
  <2>1. d.plans[k] \in PlanType
    BY DEF DocType
  <2>2. k \in Waiting(d) => d.plans[k].status = "pending"
    BY DEF Waiting
  <2>3. q \in Start .. (DayEnd - 1) => q \in 0 .. (DayEnd - 1)
    <3> HIDE DEF q
    <3> QED BY WindowsAssumption
  <2>4. f[k] = IF k \notin Waiting(d) THEN d.plans[k]
               ELSE IF q \in Start .. (DayEnd - 1)
               THEN [d.plans[k] EXCEPT !.startup = q]
               ELSE [d.plans[k] EXCEPT !.status = "missed"]
    OBVIOUS
  <2> HIDE DEF q, f
  <2> QED BY <2>1, <2>2, <2>3, <2>4 DEF PlanType, Prepares, Bare
<1>3. f \in [Accounts -> PlanType]
  <2>1. f = [k \in Accounts |-> f[k]]
    OBVIOUS
  <2>2. \A k \in Accounts : f[k] \in PlanType
    BY <1>2
  <2> HIDE DEF f
  <2> QED BY <2>1, <2>2
<1>4. \A k \in Accounts : Prepares(d.plans[k], f[k])
  BY <1>2
<1> HIDE DEF f
<1> QED BY <1>1, <1>3, <1>4, PartsType DEF DocType

\* The document before the claims is one of today, and from one of today it has
\* taken nothing back and added no attempt.
LEMMA PreparedType ==
    ASSUME NEW d \in DocType, now \in NowType, NEW boot,
           targets \subseteq Accounts,
           NEW first \in [Fresh(Rolled(d)) -> FirstTimes],
           NEW retry \in [Fresh(Rolled(d)) -> RetryTimes]
    PROVE  /\ Prepared(d, first, retry, boot) \in DocType
           /\ Prepared(d, first, retry, boot).date = now.day
           /\ \A k \in Accounts :
                Prepares(Rolled(d).plans[k], Prepared(d, first, retry, boot).plans[k])
<1> DEFINE a == Rolled(d)
           b == Recovered(a, boot)
           c == Planned(b, first, retry, boot)
<1>1. a \in DocType /\ a.date = now.day
  BY RolledType
<1>2. /\ b \in DocType /\ b.date = now.day
      /\ \A k \in Accounts :
            /\ Prepares(a.plans[k], b.plans[k])
            /\ b.plans[k].status = "none" <=> a.plans[k].status = "none"
  <2> HIDE DEF a
  <2> QED BY <1>1, RecoveredType
<1>3. Fresh(b) = Fresh(a)
  <2> HIDE DEF a, b
  <2> QED BY <1>2 DEF Fresh
<1>4. /\ c \in DocType /\ c.date = now.day
      /\ \A k \in Accounts : Prepares(b.plans[k], c.plans[k])
  <2>1. first \in [Fresh(b) -> FirstTimes] /\ retry \in [Fresh(b) -> RetryTimes]
    BY <1>3
  <2> HIDE DEF a, b
  <2> QED BY <1>2, <2>1, PlannedType
<1>5. /\ queueStartup(c) \in DocType /\ queueStartup(c).date = now.day
      /\ \A k \in Accounts : Prepares(c.plans[k], queueStartup(c).plans[k])
  <2> HIDE DEF c
  <2> QED BY <1>4, QueuedType
<1>6. \/ Prepared(d, first, retry, boot) = c
      \/ Prepared(d, first, retry, boot) = queueStartup(c)
  BY DEF Prepared
<1> DEFINE e == Prepared(d, first, retry, boot)
<1>7. /\ e \in DocType /\ e.date = now.day
      /\ \A k \in Accounts : Prepares(b.plans[k], e.plans[k])
  <2> HIDE DEF b, c, e
  <2>1. CASE e = c
    BY <1>4, <2>1
  <2>2. CASE e = queueStartup(c)
    BY <1>4, <1>5, <2>2 DEF Prepares
  <2> QED BY <1>6, <2>1, <2>2 DEF e
<1>8. ASSUME NEW k \in Accounts
      PROVE  Prepares(a.plans[k], e.plans[k])
  <2> HIDE DEF a, b, e
  <2> QED BY <1>2, <1>7 DEF Prepares
<1> QED BY <1>7, <1>8

-----------------------------------------------------------------------------
(* What a look reserves *)

\* Only the next attempt of a plan is reserved.
LEMMA NextAttempt ==
    ASSUME NEW d \in DocType, NEW boot, NEW k \in Claimed(d, boot),
           targets \subseteq Accounts
    PROVE  /\ k \in Accounts
           /\ d.plans[k].status \in {"pending", "failed"}
           /\ d.plans[k].attempts \in 0 .. 1
           /\ AttemptOf(d.plans[k]) = d.plans[k].attempts + 1
<1>1. /\ k \in targets
      /\ \/ StartupDue(d, d.plans[k])
         \/ FirstDue(d.plans[k], boot)
         \/ RetryDue(d, d.plans[k], boot)
  BY DEF Claimed
<1> DEFINE p == d.plans[k]
<1>2. \/ p.status = "pending" /\ p.attempts = 0
      \/ p.status = "failed" /\ p.attempts = 1
  <2> HIDE DEF p
  <2>1. StartupDue(d, p) \/ FirstDue(p, boot) \/ RetryDue(d, p, boot)
    BY <1>1 DEF p
  <2>2. CASE StartupDue(d, p)
    BY <2>2 DEF StartupDue
  <2>3. CASE FirstDue(p, boot)
    BY <2>3 DEF FirstDue
  <2>4. CASE RetryDue(d, p, boot)
    BY <2>4 DEF RetryDue
  <2> QED BY <2>1, <2>2, <2>3, <2>4
<1>3. p.status \in {"pending", "failed"} /\ p.attempts \in 0 .. 1
      /\ AttemptOf(p) = p.attempts + 1
  <2> HIDE DEF p
  <2> QED BY <1>2 DEF AttemptOf
<1>4. k \in Accounts
  BY <1>1
<1> HIDE DEF p
<1> QED BY <1>3, <1>4 DEF p

\* Reserving uses up the next attempt of the claimed plans and nothing else.
LEMMA ClaimType ==
    ASSUME NEW d \in DocType, now \in NowType, NEW claimed \in SUBSET Accounts,
           \A k \in claimed : /\ d.plans[k].status \in {"pending", "failed"}
                              /\ d.plans[k].attempts \in 0 .. 1
                              /\ AttemptOf(d.plans[k]) = d.plans[k].attempts + 1
    PROVE  /\ Claim(d, claimed) \in DocType /\ Claim(d, claimed).date = d.date
           /\ \A k \in Accounts :
                /\ Kept(d.plans[k], Claim(d, claimed).plans[k])
                /\ Bare(d.plans[k]) => Bare(Claim(d, claimed).plans[k])
           /\ \A k \in claimed : Claim(d, claimed).plans[k].attempts = d.plans[k].attempts + 1
<1> DEFINE f == [k \in Accounts |->
                IF k \in claimed
                THEN [d.plans[k] EXCEPT !.attempts = AttemptOf(d.plans[k]), !.status = "running"]
                ELSE d.plans[k]]
           l == IF \E k \in claimed : d.plans[k].startup # 0 THEN now.time ELSE d.last
           e == [d EXCEPT !.plans = f, !.last = l]
<1>1. Claim(d, claimed) = e
  BY DEF Claim, DocType
<1>2. l \in 0 .. (DayEnd - 1)
  BY DEF DocType, NowType
<1>3. ASSUME NEW k \in Accounts
      PROVE  /\ f[k] \in PlanType /\ Kept(d.plans[k], f[k])
             /\ Bare(d.plans[k]) => Bare(f[k])
             /\ k \in claimed => f[k].attempts = d.plans[k].attempts + 1
  <2> DEFINE p == d.plans[k]
             a == AttemptOf(p)
  <2>1. p \in PlanType
    BY DEF DocType
  <2>2. CASE k \notin claimed
    BY <2>1, <2>2 DEF Kept, PlanType
  <2>3. CASE k \in claimed
    <3>1. /\ p.status \in {"pending", "failed"}
          /\ p.attempts \in 0 .. 1 /\ a = p.attempts + 1
      BY <2>3
    <3>2. f[k] = [p EXCEPT !.attempts = a, !.status = "running"]
      BY <2>3
    <3>3. f[k] = [status |-> "running", attempts |-> a, first |-> p.first, retry |-> p.retry,
                  startup |-> p.startup, retryEnd |-> p.retryEnd]
      <4> HIDE DEF p, a, f
      <4> QED BY <2>1, <3>2 DEF PlanType
    <3> HIDE DEF a, f
    <3>4. /\ f[k] \in PlanType /\ Kept(p, f[k]) /\ Bare(f[k])
          /\ f[k].attempts = p.attempts + 1
      <4> HIDE DEF p
      <4> QED BY <2>1, <3>1, <3>3 DEF PlanType, Kept, Bare
    <3> QED BY <3>4
  <2> QED BY <2>2, <2>3
<1>4. f \in [Accounts -> PlanType]
  <2>1. f = [k \in Accounts |-> f[k]]
    OBVIOUS
  <2>2. \A k \in Accounts : f[k] \in PlanType
    BY <1>3
  <2> HIDE DEF f
  <2> QED BY <2>1, <2>2
<1>5. e \in DocType /\ e.plans = f /\ e.date = d.date
  <2> HIDE DEF f, l
  <2> QED BY <1>2, <1>4, PartsType DEF DocType
<1> HIDE DEF e, f
<1> QED BY <1>1, <1>3, <1>5

\* What a look takes over (from), writes (to) and lets go (new) fit together.
JobType == [key : Accounts, day : 1 .. MaxDay, attempt : 1 .. 2, queued : BOOLEAN,
            phase : {"claimed", "sent", "ok", "failed", "skipped"}]
Clean(d) == d \in DocType /\ \A k \in Accounts : Bare(d.plans[k])
Reserves(from, to, new) ==
    /\ Clean(to) /\ Onward(from, to) /\ new \subseteq JobType
    /\ \A j \in new : /\ j.phase = "claimed"
                      /\ Reserved(to, Request(j)) /\ ~Reserved(from, Request(j))
    /\ \A i, j \in new : Request(i) = Request(j) => i = j

\* A look reserves attempts that were not reserved, each once.
LEMMA LookReserves ==
    ASSUME NEW from, Clean(from), from.date <= now.day, now \in NowType,
           targets \subseteq Accounts, NEW boot,
           NEW first \in [Fresh(Rolled(from)) -> FirstTimes],
           NEW retry \in [Fresh(Rolled(from)) -> RetryTimes]
    PROVE  LET d == Prepared(from, first, retry, boot)
               claimed == Claimed(d, boot)
           IN  Reserves(from, Claim(d, claimed), {Job(d, k) : k \in claimed})
<1> DEFINE d == Prepared(from, first, retry, boot)
           claimed == Claimed(d, boot)
           to == Claim(d, claimed)
           new == {Job(d, k) : k \in claimed}
<1>1. from \in DocType /\ \A k \in Accounts : Bare(from.plans[k])
  BY DEF Clean
<1>2. /\ d \in DocType /\ d.date = now.day
      /\ \A k \in Accounts : Prepares(Rolled(from).plans[k], d.plans[k])
  BY <1>1, PreparedType
<1>3. \A k \in Accounts : Bare(d.plans[k])
  <2>1. \A k \in Accounts : Bare(Rolled(from).plans[k])
    BY <1>1 DEF Rolled, Blank, Bare, NoPlan
  <2> HIDE DEF d
  <2> QED BY <1>2, <2>1 DEF Prepares
<1>4. \A k \in claimed :
         /\ k \in Accounts
         /\ d.plans[k].status \in {"pending", "failed"}
         /\ d.plans[k].attempts \in 0 .. 1
         /\ AttemptOf(d.plans[k]) = d.plans[k].attempts + 1
  <2> HIDE DEF d
  <2> QED BY <1>2, NextAttempt
<1>5. /\ to \in DocType /\ to.date = now.day
      /\ \A k \in Accounts : Kept(d.plans[k], to.plans[k]) /\ Bare(to.plans[k])
      /\ \A k \in claimed : to.plans[k].attempts = d.plans[k].attempts + 1
  <2> HIDE DEF d, claimed
  <2>1. claimed \in SUBSET Accounts
    BY <1>4
  <2> QED BY <1>2, <1>3, <1>4, <2>1, ClaimType
<1>6. from.date = now.day => \A k \in Accounts :
         /\ d.plans[k].attempts = from.plans[k].attempts
         /\ from.plans[k].status \in {"success", "missed"} => d.plans[k] = from.plans[k]
  <2>1. from.date = now.day => Rolled(from) = from
    BY <1>1, RolledType
  <2> HIDE DEF d
  <2> QED BY <1>1, <1>2, <2>1 DEF Prepares
<1> HIDE DEF to
<1>7. Onward(from, to)
  <2> SUFFICES ASSUME to.date = from.date, NEW k \in Accounts
               PROVE  Kept(from.plans[k], to.plans[k])
    BY <1>5 DEF Onward, NowType, DocType
  <2>1. Kept(d.plans[k], to.plans[k])
    BY <1>5
  <2>2. /\ d.plans[k].attempts = from.plans[k].attempts
        /\ from.plans[k].status \in {"success", "missed"} => d.plans[k] = from.plans[k]
    BY <1>5, <1>6
  <2> HIDE DEF d
  <2> QED BY <2>1, <2>2 DEF Kept
<1>8. ASSUME NEW k \in claimed
      PROVE  /\ Job(d, k) \in JobType /\ Job(d, k).phase = "claimed"
             /\ Request(Job(d, k)).key = k
             /\ Reserved(to, Request(Job(d, k)))
             /\ ~Reserved(from, Request(Job(d, k)))
  <2> DEFINE n == d.plans[k].attempts + 1
  <2>1. n \in 1 .. 2 /\ k \in Accounts
    <3> HIDE DEF d, claimed
    <3> QED BY <1>4
  <2>2. (d.plans[k].startup # 0) \in BOOLEAN
    OBVIOUS
  <2> DEFINE q == d.plans[k].startup # 0
  <2>3. Job(d, k) = [key |-> k, day |-> now.day, attempt |-> n, queued |-> q,
                     phase |-> "claimed"]
    <3>1. d.date = now.day /\ AttemptOf(d.plans[k]) = n
      BY <1>2, <1>4
    <3> HIDE DEF d, n
    <3> QED BY <3>1 DEF Job
  <2>4. q \in BOOLEAN
    OBVIOUS
  <2>5. Request(Job(d, k)) = [key |-> k, day |-> now.day, attempt |-> n]
    <3> HIDE DEF d, n, q
    <3> QED BY <2>3 DEF Request
  <2>6. Reserved(to, Request(Job(d, k)))
    <3>1. to.plans[k].attempts = n /\ to.date = now.day
      BY <1>5
    <3> HIDE DEF d, n
    <3> QED BY <2>1, <2>5, <3>1 DEF Reserved
  <2>7. ~Reserved(from, Request(Job(d, k)))
    <3>1. from.date = now.day => n = from.plans[k].attempts + 1
      BY <1>6, <2>1
    <3>2. from.date <= now.day /\ from.date \in Nat /\ now.day \in Nat
      BY <1>1 DEF DocType, NowType
    <3>3. from.plans[k].attempts \in 0 .. 2
      BY <1>1, <2>1 DEF DocType, PlanType
    <3> HIDE DEF d, n
    <3> QED BY <2>1, <2>5, <3>1, <3>2, <3>3 DEF Reserved
  <2>8. Job(d, k) \in JobType /\ Job(d, k).phase = "claimed"
    <3> HIDE DEF d, n, q
    <3> QED BY <2>1, <2>3, <2>4 DEF JobType, NowType
  <2> HIDE DEF d, n, q
  <2> QED BY <2>5, <2>6, <2>7, <2>8
<1>9. /\ new \subseteq JobType
      /\ \A j \in new : /\ j.phase = "claimed"
                        /\ Reserved(to, Request(j)) /\ ~Reserved(from, Request(j))
  <2> HIDE DEF d, claimed
  <2> QED BY <1>8
<1>10. \A i, j \in new : Request(i) = Request(j) => i = j
  <2> HIDE DEF d, claimed
  <2> QED BY <1>8
<1>11. Clean(to)
  BY <1>5 DEF Clean
<1> HIDE DEF d, claimed, new
<1>12. Reserves(from, to, new)
  BY <1>7, <1>9, <1>10, <1>11 DEF Reserves
<1> QED BY <1>12 DEF to, new, claimed, d

-----------------------------------------------------------------------------
(* The steps *)

\* What is reserved stays reserved while the document moves on.
LEMMA ReservedStays ==
    ASSUME NEW d, Clean(d), NEW e, Clean(e), Onward(d, e),
           NEW r \in [key : Accounts, day : 1 .. MaxDay, attempt : 1 .. 2], Reserved(d, r)
    PROVE  Reserved(e, r)
<1>1. d.date \in Nat /\ e.date \in Nat /\ r.day \in Nat /\ r.key \in Accounts
  BY DEF Clean, DocType
<1>2. /\ d.plans[r.key].attempts \in 0 .. 2
      /\ e.plans[r.key].attempts \in 0 .. 2
      /\ r.attempt \in 1 .. 2
  BY <1>1 DEF Clean, DocType, PlanType
<1> QED BY <1>1, <1>2 DEF Reserved, Onward, Kept

\* A document goes on from itself.
LEMMA OnwardSelf ==
    ASSUME NEW d, Clean(d)
    PROVE  Onward(d, d)
<1>1. d.date \in Nat
  BY DEF Clean, DocType
<1>2. \A k \in Accounts : d.plans[k].attempts \in 0 .. 2
  BY DEF Clean, DocType, PlanType
<1> QED BY <1>1, <1>2 DEF Onward, Kept

\* The request of a job.
LEMMA RequestType ==
    ASSUME NEW j \in JobType
    PROVE  Request(j) \in [key : Accounts, day : 1 .. MaxDay, attempt : 1 .. 2]
BY DEF JobType, Request

\* What a look does to the file and to the jobs, whatever becomes of the save.
LEMMA LookStep ==
    ASSUME NEW from, Clean(from), from = file, now \in NowType, targets \subseteq Accounts,
           late \subseteq Accounts, blocked = FALSE, NEW boot, planAndClaim(from, boot)
    PROVE  /\ Clean(file') /\ Onward(file, file') /\ doc' \in DocType
           /\ blocked' \in BOOLEAN /\ late' \subseteq Accounts
           /\ ~blocked' => doc' = file'
           /\ \/ jobs' = jobs
              \/ \E new : jobs' = jobs \cup new /\ Reserves(file, file', new)
<1>1. CASE /\ from.date > now.day
           /\ blocked' = TRUE /\ doc' = from /\ UNCHANGED <<file, jobs, late>>
  BY <1>1, OnwardSelf DEF Clean
<1>2. CASE /\ blocked' = TRUE /\ doc' = Recovered(Rolled(from), boot)
           /\ UNCHANGED <<file, jobs, late>>
  <2>1. from \in DocType
    BY DEF Clean
  <2>2. doc' \in DocType
    <3>1. Rolled(from) \in DocType
      BY <2>1, RolledType
    <3> QED BY <1>2, <3>1, RecoveredType
  <2> QED BY <1>2, <2>2, OnwardSelf
<1>3. ASSUME from.date <= now.day,
             NEW first \in [Fresh(Rolled(from)) -> FirstTimes],
             NEW retry \in [Fresh(Rolled(from)) -> RetryTimes],
             LET d == Prepared(from, first, retry, boot)
                 claimed == Claimed(d, boot)
             IN /\ doc' = Claim(d, claimed)
                /\ Reserve(from, doc', {Job(d, k) : k \in claimed})
                /\ late' = (IF from.date = now.day THEN late ELSE {}) \cup StillLate(d)
      PROVE  /\ Clean(file') /\ Onward(file, file') /\ doc' \in DocType
             /\ blocked' \in BOOLEAN /\ late' \subseteq Accounts
             /\ ~blocked' => doc' = file'
             /\ \/ jobs' = jobs
                \/ \E new : jobs' = jobs \cup new /\ Reserves(file, file', new)
  <2> DEFINE d == Prepared(from, first, retry, boot)
             claimed == Claimed(d, boot)
             new == {Job(d, k) : k \in claimed}
  <2>1. /\ doc' = Claim(d, claimed) /\ Reserve(from, doc', new)
        /\ late' = (IF from.date = now.day THEN late ELSE {}) \cup StillLate(d)
    BY <1>3
  <2>2. Reserves(from, doc', new)
    BY <1>3, <2>1, LookReserves
  <2> HIDE DEF d, claimed, new
  <2>3. late' \subseteq Accounts
    BY <2>1 DEF StillLate
  <2>4. Clean(doc') /\ doc' \in DocType
    BY <2>2 DEF Reserves, Clean
  <2>5. CASE doc' = from /\ UNCHANGED <<file, blocked, jobs>>
    BY <2>3, <2>4, <2>5, OnwardSelf
  <2>6. CASE file' = doc' /\ jobs' = jobs \cup new /\ UNCHANGED blocked
    <3>1. Onward(file, file')
      BY <2>2, <2>6 DEF Reserves
    <3>2. Reserves(file, file', new)
      BY <2>2, <2>6
    <3> QED BY <2>3, <2>4, <2>6, <3>1, <3>2
  <2>7. CASE blocked' = TRUE /\ UNCHANGED <<file, jobs>>
    BY <2>3, <2>4, <2>7, OnwardSelf
  <2> QED BY <2>1, <2>5, <2>6, <2>7 DEF Reserve
<1> QED BY <1>1, <1>2, <1>3, Zenon DEF planAndClaim

\* The documents and jobs of a state of the invariant.
LEMMA Parts ==
    ASSUME IInv
    PROVE  /\ Clean(file) /\ doc \in DocType /\ now \in NowType /\ jobs \subseteq JobType
           /\ targets \subseteq Accounts /\ late \subseteq Accounts
           /\ {up, blocked} \subseteq BOOLEAN
           /\ ~up => jobs = {} /\ doc = Blank(0) /\ ~blocked
BY DEF IInv, TypeOK, NoneYet, Clean, NowType, JobType

\* The file moves on and everything that was reserved in it stays so.
LEMMA FileMoves ==
    ASSUME IInv, Clean(file'), Onward(file, file'), sent' = sent
    PROVE  /\ SentIsOnDisk' /\ NoneYet'
           /\ \A j \in jobs : Reserved(file', Request(j))
<1>1. ASSUME NEW r \in sent
      PROVE  Reserved(file', r)
  <2>1. Reserved(file, r)
    BY DEF IInv, SentIsOnDisk, Reserved
  <2> QED BY <2>1, ReservedStays, Parts DEF IInv, SentKnown
<1>2. ASSUME NEW j \in jobs
      PROVE  Reserved(file', Request(j))
  <2>1. Reserved(file, Request(j))
    BY DEF IInv, JobsOnDisk
  <2>2. Request(j) \in [key : Accounts, day : 1 .. MaxDay, attempt : 1 .. 2]
    BY Parts, RequestType
  <2> QED BY <2>1, <2>2, ReservedStays, Parts
<1> QED BY <1>1, <1>2 DEF SentIsOnDisk, Reserved, NoneYet, Clean

\* A look or a start: the new jobs carry requests nobody has made or will make.
LEMMA LookKeeps ==
    ASSUME IInv, Clean(file'), Onward(file, file'), doc' \in DocType,
           blocked' \in BOOLEAN, late' \subseteq Accounts, ~blocked' => doc' = file',
           \/ jobs' = jobs
           \/ \E new : jobs' = jobs \cup new /\ Reserves(file, file', new),
           up' = TRUE, UNCHANGED <<now, targets, sent>>
    PROVE  IInv'
<1>1. /\ SentIsOnDisk' /\ NoneYet'
      /\ \A j \in jobs : Reserved(file', Request(j))
  BY FileMoves
<1>2. PICK new : /\ jobs' = jobs \cup new /\ new \subseteq JobType
                 /\ \A j \in new : /\ j.phase = "claimed"
                                   /\ Reserved(file', Request(j))
                                   /\ ~Reserved(file, Request(j))
                 /\ \A i, j \in new : Request(i) = Request(j) => i = j
  <2>1. CASE jobs' = jobs
    <3> SUFFICES \A new : new = {} =>
                    /\ jobs' = jobs \cup new /\ new \subseteq JobType
                    /\ \A j \in new : FALSE
      OBVIOUS
    <3> QED BY <2>1
  <2>2. CASE \E new : jobs' = jobs \cup new /\ Reserves(file, file', new)
    BY <2>2 DEF Reserves
  <2> QED BY <2>1, <2>2
<1>3. jobs' \subseteq JobType
  BY <1>2, Parts
<1>4. TypeOK'
  BY <1>1, <1>3, Parts DEF TypeOK, JobType, NowType, Clean
<1>5. JobsOnDisk'
  BY <1>1, <1>2 DEF JobsOnDisk
<1>6. Unsent'
  <2>1. \A j \in new : Request(j) \notin sent
    BY <1>2 DEF IInv, SentIsOnDisk, Reserved
  <2> QED BY <1>2, <2>1 DEF IInv, Unsent
<1>7. OneJob'
  BY <1>2 DEF IInv, OneJob, JobsOnDisk
<1> QED BY <1>1, <1>4, <1>5, <1>6, <1>7 DEF IInv, Synced, SentKnown

\* A job moves to another phase and keeps its request.
LEMMA JobMoves ==
    ASSUME IInv, NEW j \in jobs,
           NEW phase \in {"claimed", "sent", "ok", "failed", "skipped"},
           jobs' = Moved(j, phase), UNCHANGED file
    PROVE  /\ jobs' \subseteq JobType /\ JobsOnDisk' /\ OneJob'
           /\ \A i \in jobs' : (i \in jobs /\ i # j) \/ i.phase = phase
           /\ \A i \in jobs' : i \in jobs /\ i # j => Request(i) # Request(j)
<1> DEFINE n == [j EXCEPT !.phase = phase]
<1>1. j \in JobType /\ jobs \subseteq JobType
  BY Parts
<1>2. n \in JobType /\ n.phase = phase /\ Request(n) = Request(j)
  BY <1>1 DEF JobType, Request
<1>3. jobs' = (jobs \ {j}) \cup {n}
  BY DEF Moved
<1> HIDE DEF n
<1> QED BY <1>1, <1>2, <1>3 DEF IInv, JobsOnDisk, OneJob

\* A job that moves on without sending keeps the invariant.
LEMMA QuietMove ==
    ASSUME IInv, NEW j \in jobs, NEW phase \in {"ok", "failed", "skipped"},
           jobs' = Moved(j, phase),
           UNCHANGED <<now, targets, file, up, doc, blocked, sent, late>>
    PROVE  IInv'
<1>1. /\ jobs' \subseteq JobType /\ JobsOnDisk' /\ OneJob'
      /\ \A i \in jobs' : (i \in jobs /\ i # j) \/ i.phase = phase
  BY JobMoves
<1>2. up
  BY Parts
<1>3. TypeOK'
  BY <1>1, <1>2 DEF IInv, TypeOK, JobType
<1>4. Unsent'
  BY <1>1 DEF IInv, Unsent
<1> QED BY <1>1, <1>3, <1>4 DEF IInv, Synced, SentKnown, NoneYet, SentIsOnDisk

\* The end of a job settles a running plan: nothing is taken back.
LEMMA SettledMoves ==
    ASSUME IInv, NEW j \in jobs, doc.plans[j.key].status = "running"
    PROVE  /\ Settled(j) \in DocType /\ Onward(doc, Settled(j))
           /\ Clean(doc) => Clean(Settled(j))
<1> DEFINE k == j.key
           p == doc.plans[k]
           r == IF j.phase # "ok" /\ (j.attempt = 2 \/ now.time >= End)
                THEN TRUE ELSE p.retryEnd
           s == IF j.phase = "ok" THEN "success" ELSE "failed"
           q == Ended(j, p)
           f == [doc.plans EXCEPT ![k] = q]
           l == IF doc.plans[j.key].startup # 0 /\ now.day = j.day
                THEN Later(doc.last, now.time) ELSE doc.last
           e == [doc EXCEPT !.plans = f, !.last = l]
<1>1. /\ doc \in DocType /\ now \in NowType /\ k \in Accounts
      /\ doc.plans \in [Accounts -> PlanType]
  BY Parts DEF JobType, DocType
<1>2. p \in PlanType /\ r \in BOOLEAN
  BY <1>1 DEF PlanType
<1>3. q \in PlanType /\ q.attempts = p.attempts /\ q.status # "none"
  <2>1. s \in {"success", "failed"}
    OBVIOUS
  <2>2. q = [p EXCEPT !.status = s, !.retryEnd = r]
    BY Zenon DEF Ended
  <2> HIDE DEF p, r, s, q
  <2>3. q = [status |-> s, attempts |-> p.attempts, first |-> p.first, retry |-> p.retry,
             startup |-> p.startup, retryEnd |-> r]
    BY <1>2, <2>2 DEF PlanType
  <2> QED BY <1>2, <2>1, <2>3 DEF PlanType
<1>4. Settled(j) = e
  BY DEF Settled
<1>5. l \in 0 .. (DayEnd - 1)
  BY <1>1 DEF DocType, NowType, Later
<1>6. f \in [Accounts -> PlanType] /\ f[k] = q /\ \A i \in Accounts \ {k} : f[i] = doc.plans[i]
  <2> HIDE DEF q
  <2> QED BY <1>1, <1>3
<1>7. e \in DocType /\ e.plans = f /\ e.date = doc.date
  <2> HIDE DEF f, l
  <2> QED BY <1>1, <1>5, <1>6, PartsType DEF DocType
<1>8. p.status = "running"
  OBVIOUS
<1>9. ASSUME NEW i \in Accounts
      PROVE  Kept(doc.plans[i], f[i]) /\ (Bare(doc.plans[i]) => Bare(f[i]))
  <2>1. doc.plans[i].attempts \in 0 .. 2
    BY <1>1 DEF PlanType
  <2>2. CASE i = k
    <3>1. doc.plans[i] = p /\ f[i] = q
      BY <1>6, <2>2
    <3> HIDE DEF p, q, f
    <3> QED BY <1>2, <1>3, <1>8, <3>1 DEF Kept, Bare, PlanType
  <2>3. CASE i # k
    <3>1. f[i] = doc.plans[i]
      BY <1>6, <2>3
    <3> HIDE DEF f
    <3> QED BY <2>1, <3>1 DEF Kept
  <2> QED BY <2>2, <2>3
<1>10. doc.date \in Nat
  BY <1>1 DEF DocType
<1> HIDE DEF e, f
<1> QED BY <1>4, <1>7, <1>9, <1>10 DEF Onward, Clean

-----------------------------------------------------------------------------
(* The invariant *)

LEMMA Initially ==
    Init => IInv
<1> SUFFICES ASSUME Init PROVE IInv
  OBVIOUS
<1> USE DEF Init
<1>1. file \in DocType /\ doc \in DocType
  BY BlankType, BoundsAssumption
<1>2. now \in [day : 1 .. MaxDay, time : 0 .. (DayEnd - 1)]
  BY BoundsAssumption, WindowsAssumption
<1>3. TypeOK
  BY <1>1, <1>2 DEF TypeOK
<1>4. NoneYet
  BY DEF NoneYet, Bare, Blank, NoPlan
<1> QED BY <1>3, <1>4 DEF IInv, Synced, SentKnown, SentIsOnDisk, JobsOnDisk, Unsent, OneJob

\* The ends of a look are those of planAndClaim, with the file it started from.
LEMMA LookInv ==
    ASSUME IInv, Look \/ Boot
    PROVE  IInv' /\ Onward(file, file')
<1>1. CASE Look
  <2>1. up /\ blocked = FALSE /\ doc = file /\ planAndClaim(doc, FALSE)
    BY <1>1, Parts DEF Look, IInv, Synced
  <2>2. /\ Clean(file') /\ Onward(file, file') /\ doc' \in DocType
        /\ blocked' \in BOOLEAN /\ late' \subseteq Accounts
        /\ ~blocked' => doc' = file'
        /\ \/ jobs' = jobs
           \/ \E new : jobs' = jobs \cup new /\ Reserves(file, file', new)
    BY <2>1, Parts, LookStep
  <2>3. up' = TRUE /\ UNCHANGED <<now, targets, sent>>
    BY <1>1, Parts DEF Look, history
  <2> QED BY <2>2, <2>3, LookKeeps
<1>2. CASE Boot /\ planAndClaim(file, TRUE)
  <2>1. blocked = FALSE /\ up' = TRUE /\ UNCHANGED <<now, targets, sent>>
    BY <1>2, Parts DEF Boot, history
  <2>2. /\ Clean(file') /\ Onward(file, file') /\ doc' \in DocType
        /\ blocked' \in BOOLEAN /\ late' \subseteq Accounts
        /\ ~blocked' => doc' = file'
        /\ \/ jobs' = jobs
           \/ \E new : jobs' = jobs \cup new /\ Reserves(file, file', new)
    BY <1>2, <2>1, Parts, LookStep
  <2> QED BY <2>1, <2>2, LookKeeps
<1>3. CASE Boot /\ blocked' = TRUE /\ UNCHANGED <<doc, file, jobs, late>>
  <2>1. up' = TRUE /\ UNCHANGED <<now, targets, sent>>
    BY <1>3 DEF Boot, history
  <2>2. Clean(file') /\ Onward(file, file')
    BY <1>3, Parts, OnwardSelf
  <2> QED BY <1>3, <2>1, <2>2, Parts, LookKeeps
<1> QED BY <1>1, <1>2, <1>3 DEF Boot

\* The only request that leaves is that of the job.
LEMMA SendInv ==
    ASSUME IInv, NEW j \in jobs, Send(j)
    PROVE  IInv'
<1> USE DEF Send
<1>1. /\ jobs' \subseteq JobType /\ JobsOnDisk' /\ OneJob'
      /\ \A i \in jobs' : (i \in jobs /\ i # j) \/ i.phase = "sent"
      /\ \A i \in jobs' : i \in jobs /\ i # j => Request(i) # Request(j)
  BY JobMoves
<1>2. up
  BY Parts
<1>3. TypeOK'
  BY <1>1, <1>2 DEF IInv, TypeOK, JobType
<1>4. Unsent'
  <2> SUFFICES ASSUME NEW i \in jobs', i.phase = "claimed"
               PROVE  Request(i) \notin sent \cup {Request(j)}
    BY DEF Unsent
  <2>1. i \in jobs /\ i # j
    BY <1>1
  <2> QED BY <1>1, <2>1 DEF IInv, Unsent
<1>5. SentKnown' /\ SentIsOnDisk'
  <2>1. Request(j) \in [key : Accounts, day : 1 .. MaxDay, attempt : 1 .. 2]
    BY Parts, RequestType
  <2>2. Reserved(file, Request(j))
    BY DEF IInv, JobsOnDisk
  <2> QED BY <2>1, <2>2 DEF IInv, SentKnown, SentIsOnDisk, Reserved
<1> QED BY <1>1, <1>3, <1>4, <1>5 DEF IInv, Synced, NoneYet

\* A job that ends writes the document, or finds that the plan is another's.
LEMMA FinishInv ==
    ASSUME IInv, NEW j \in jobs, Finish(j)
    PROVE  IInv' /\ Onward(file, file')
<1>1. /\ up = TRUE /\ jobs' = jobs \ {j}
      /\ UNCHANGED <<now, targets, up, sent, late>>
  BY Parts DEF Finish, history
<1>2. /\ doc' \in DocType /\ Clean(file') /\ Onward(file, file')
      /\ blocked' \in BOOLEAN
      /\ ~blocked' => doc' = file'
  <2>1. CASE UNCHANGED <<doc, file, blocked>>
    BY <1>1, <2>1, Parts, OnwardSelf DEF IInv, Synced
  <2>2. CASE /\ doc.plans[j.key].status = "running"
             /\ doc' = Settled(j) /\ saveLocked
    <3>1. /\ doc' \in DocType /\ Onward(doc, doc')
          /\ Clean(doc) => Clean(doc')
      BY <2>2, SettledMoves
    <3>2. CASE blocked /\ UNCHANGED <<file, blocked>>
      BY <3>1, <3>2, Parts, OnwardSelf
    <3>3. CASE ~blocked /\ file' = doc' /\ UNCHANGED blocked
      <4>1. doc = file
        BY <1>1, <3>3 DEF IInv, Synced
      <4> QED BY <3>1, <3>3, <4>1, Parts
    <3>4. CASE blocked' = TRUE /\ UNCHANGED file
      BY <3>1, <3>4, Parts, OnwardSelf
    <3> QED BY <2>2, <3>2, <3>3, <3>4, Parts DEF saveLocked
  <2> QED BY <2>1, <2>2 DEF Finish
<1>3. /\ SentIsOnDisk' /\ NoneYet'
      /\ \A i \in jobs : Reserved(file', Request(i))
  BY <1>1, <1>2, FileMoves
<1>4. TypeOK'
  BY <1>1, <1>2, <1>3, Parts DEF TypeOK, JobType, NowType, Clean
<1>5. JobsOnDisk' /\ Unsent' /\ OneJob'
  BY <1>1, <1>3 DEF IInv, JobsOnDisk, Unsent, OneJob
<1> QED BY <1>1, <1>2, <1>3, <1>4, <1>5 DEF IInv, Synced, SentKnown

\* The clock, the pool and the end of the process touch no document on disk.
LEMMA WorldInv ==
    ASSUME IInv, Tick \/ SetClockBack \/ AccountEvent \/ Crash
    PROVE  IInv' /\ file' = file
<1>1. now \in NowType /\ MaxDay \in Nat
  BY Parts, BoundsAssumption
<1>2. CASE Tick
  <2>1. now' \in NowType
    <3>1. CASE now.time + 1 < DayEnd
      <4>1. now' = [day |-> now.day, time |-> now.time + 1]
        BY <1>1, <1>2, <3>1 DEF Tick, NowType
      <4> QED BY <1>1, <3>1, <4>1, WindowsAssumption DEF NowType
    <3>2. CASE ~(now.time + 1 < DayEnd)
      <4>1. now.day < MaxDay
        BY <1>1, <1>2, <3>2, BoundsAssumption, WindowsAssumption DEF Tick, NowType
      <4>2. now' = [day |-> now.day + 1, time |-> 0]
        BY <1>2, <3>2 DEF Tick
      <4> QED BY <1>1, <4>1, <4>2, WindowsAssumption DEF NowType
    <3> QED BY <3>1, <3>2
  <2> QED BY <1>2, <2>1 DEF Tick, history, IInv, TypeOK, NowType, Synced, SentKnown, NoneYet,
                           SentIsOnDisk, JobsOnDisk, Unsent, OneJob
<1>3. CASE SetClockBack
  <2>1. now' \in NowType
    BY <1>1, <1>3 DEF SetClockBack, NowType
  <2> QED BY <1>3, <2>1 DEF SetClockBack, IInv, TypeOK, NowType, Synced, SentKnown, NoneYet,
                           SentIsOnDisk, JobsOnDisk, Unsent, OneJob
<1>4. CASE AccountEvent
  BY <1>4 DEF AccountEvent, history, IInv, TypeOK, Synced, SentKnown, NoneYet,
              SentIsOnDisk, JobsOnDisk, Unsent, OneJob
<1>5. CASE Crash
  <2>1. /\ up' = FALSE /\ jobs' = {} /\ doc' = Blank(0) /\ blocked' = FALSE
        /\ UNCHANGED <<now, targets, file, sent, late>>
    BY <1>5 DEF Crash
  <2>2. TypeOK'
    <3>1. doc' \in DocType
      BY <2>1, BlankType, BoundsAssumption
    <3> QED BY <2>1, <3>1 DEF IInv, TypeOK
  <2> QED BY <2>1, <2>2 DEF IInv, Synced, SentKnown, NoneYet,
                            SentIsOnDisk, JobsOnDisk, Unsent, OneJob
<1> QED BY <1>2, <1>3, <1>4, <1>5

\* Every step keeps the invariant and lets the file only move on.
LEMMA Steps ==
    ASSUME IInv, [Next]_vars
    PROVE  IInv' /\ Onward(file, file')
<1> USE Parts, OnwardSelf
<1>1. CASE Look \/ Boot
  BY <1>1, LookInv
<1>2. CASE Tick \/ SetClockBack \/ AccountEvent \/ Crash
  BY <1>2, WorldInv
<1>3. ASSUME NEW j \in jobs, runJob(j)
      PROVE  IInv' /\ Onward(file, file')
  <2>1. CASE Send(j)
    BY <2>1, SendInv DEF Send
  <2>2. CASE Skip(j)
    BY <2>2, QuietMove DEF Skip, history
  <2>3. CASE Expire(j)
    BY <2>3, QuietMove DEF Expire, history
  <2>4. CASE Answer(j)
    BY <2>4, QuietMove DEF Answer
  <2>5. CASE Finish(j)
    BY <2>5, FinishInv
  <2> QED BY <1>3, <2>1, <2>2, <2>3, <2>4, <2>5 DEF runJob
<1>4. CASE UNCHANGED vars
  BY <1>4 DEF vars, history, IInv, TypeOK, Synced, SentKnown, NoneYet,
              SentIsOnDisk, JobsOnDisk, Unsent, OneJob
<1> QED BY <1>1, <1>2, <1>3, <1>4 DEF Next

-----------------------------------------------------------------------------
(* What goes out, and what is on disk *)

LEMMA Inductive ==
    Spec => []IInv
<1>1. Init => IInv
  BY Initially
<1>2. IInv /\ [Next]_vars => IInv'
  BY Steps
<1> QED BY <1>1, <1>2, PTL DEF Spec

\* The documents, the jobs and the clock keep their types, and a process that
\* is not there holds nothing.
THEOREM TypeCorrect ==
    Spec => []TypeOK
<1>1. IInv => TypeOK
  BY DEF IInv
<1> QED BY <1>1, Inductive, PTL

\* Whatever was sent is on disk as used up, through crashes and failed saves.
THEOREM WriteAhead ==
    Spec => []SentIsOnDisk
<1>1. IInv => SentIsOnDisk
  BY DEF IInv
<1> QED BY <1>1, Inductive, PTL

\* No attempt of a day goes out twice, whatever the clock does.
THEOREM AtMostOnce ==
    Spec => AttemptSentOnce
<1>1. IInv /\ [Next]_vars => [\A j \in jobs : Leaving(j) => Request(j) \notin sent]_vars
  BY DEF Leaving, IInv, Unsent
<1> QED BY <1>1, Inductive, PTL DEF Spec, AttemptSentOnce

\* Neither restarts nor account events give attempts back or reopen a day.
THEOREM TakenBackNever ==
    Spec => NothingTakenBack
<1>1. IInv /\ [Next]_vars =>
        [/\ file'.date >= file.date
         /\ \A k \in Accounts : file'.date = file.date =>
              /\ file'.plans[k].attempts >= file.plans[k].attempts
              /\ file.plans[k].status \in {"success", "missed"} =>
                      file'.plans[k] = file.plans[k]]_vars
  BY Steps DEF Onward, Kept
<1> QED BY <1>1, Inductive, PTL DEF Spec, NothingTakenBack

HIDE DEF Statuses

-----------------------------------------------------------------------------
(* What loadLocked accepts, and the start-up queue *)

\* A document whose parts loadLocked accepts; a plan of the start-up queue that runs
\* has left its time.
SoundPlan(p) == p.status # "none" => ValidPlan(p)
Sound(d) ==
    /\ d.last # 0 => d.last \in Start .. (DayEnd - 1)
    /\ \A k \in Accounts : SoundPlan(d.plans[k])
    /\ startupBusy(d) => d.last # 0

\* An account of the start-up queue whose attempt is under way; there is one at most.
QueuedOn(d, k) == d.plans[k].startup # 0 /\ d.plans[k].status = "running"
OneBusy(d) == \A k, l \in Accounts : QueuedOn(d, k) /\ QueuedOn(d, l) => k = l

\* From d to e nothing starts to run, and what runs goes on.
GoesOn(d, e) ==
    /\ e.last = d.last
    /\ \A k \in Accounts :
            \/ e.plans[k] = d.plans[k]
            \/ d.plans[k].status # "running" /\ e.plans[k].status # "running"

LEMMA SoundIsValid ==
    ASSUME NEW d, Sound(d)
    PROVE  ValidDoc(d)
BY DEF Sound, SoundPlan, ValidDoc

\* What is running in the queue is a matter of the plans that run.
LEMMA SameBusy ==
    ASSUME NEW d, NEW e, GoesOn(d, e)
    PROVE  /\ \A k \in Accounts : QueuedOn(e, k) <=> QueuedOn(d, k)
           /\ startupBusy(e) <=> startupBusy(d)
<1>1. \A k \in Accounts : QueuedOn(e, k) <=> QueuedOn(d, k)
  BY DEF GoesOn, QueuedOn
<1>2. QED
  BY <1>1 DEF startupBusy, QueuedOn

\* A day without plans is accepted, and nothing runs.
LEMMA BlankSound ==
    ASSUME NEW day
    PROVE  /\ Sound(Blank(day)) /\ ~startupBusy(Blank(day)) /\ Blank(day).last = 0
           /\ \A k \in Accounts : Blank(day).plans[k].status = "none"
BY DEF Blank, NoPlan, Sound, SoundPlan, startupBusy

LEMMA RolledSound ==
    ASSUME NEW d \in DocType, Sound(d)
    PROVE  Sound(Rolled(d))
BY BlankSound DEF Rolled

\* What a start makes of a document, field by field.
LEMMA RecoveredFields ==
    ASSUME NEW d \in DocType, NEW boot
    PROVE  LET e == Recovered(d, boot) IN
           /\ \A k \in Accounts : e.plans[k] = IF boot /\ d.plans[k].status = "running"
                                               THEN Interrupted(d.plans[k]) ELSE d.plans[k]
           /\ e.last = IF now.time >= Start /\ boot /\ startupBusy(d)
                       THEN Later(d.last, now.time) ELSE d.last
<1> DEFINE cut == {k \in Accounts : boot /\ d.plans[k].status = "running"}
           f == [k \in Accounts |-> IF k \in cut THEN Interrupted(d.plans[k]) ELSE d.plans[k]]
           l == IF now.time >= Start /\ \E k \in cut : d.plans[k].startup # 0
                THEN Later(d.last, now.time) ELSE d.last
<1>1. Recovered(d, boot) = [d EXCEPT !.plans = f, !.last = l]
  BY DEF Recovered, DocType
<1>2. (\E k \in cut : d.plans[k].startup # 0) <=> (boot /\ startupBusy(d))
  BY DEF startupBusy
<1>3. \A k \in Accounts : f[k] = IF boot /\ d.plans[k].status = "running"
                                 THEN Interrupted(d.plans[k]) ELSE d.plans[k]
  OBVIOUS
<1>4. l = IF now.time >= Start /\ boot /\ startupBusy(d)
          THEN Later(d.last, now.time) ELSE d.last
  BY <1>2
<1> HIDE DEF cut, f, l
<1> DEFINE e == [d EXCEPT !.plans = f, !.last = l]
<1>5. e.plans = f /\ e.last = l
  BY DEF DocType
<1> HIDE DEF e
<1> QED BY <1>1, <1>3, <1>4, <1>5 DEF e

LEMMA InterruptedSound ==
    ASSUME NEW p \in PlanType, SoundPlan(p), p.status = "running"
    PROVE  SoundPlan(Interrupted(p)) /\ Interrupted(p).status = "failed"
<1> DEFINE q == Interrupted(p)
<1>1. /\ q.status = "failed" /\ q.attempts = p.attempts /\ q.first = p.first
      /\ q.retry = p.retry /\ q.startup = p.startup
  BY DEF Interrupted, PlanType
<1> HIDE DEF q
<1> QED BY <1>1 DEF SoundPlan, ValidPlan, q

\* The recovery of a start: nothing runs, and the last request of the queue is not
\* earlier than it can have been.
LEMMA RecoveredSound ==
    ASSUME NEW d \in DocType, now \in NowType, NEW boot \in BOOLEAN, Sound(d)
    PROVE  LET e == Recovered(d, boot) IN
           /\ Sound(e)
           /\ ~boot => GoesOn(d, e)
           /\ boot => /\ \A k \in Accounts : e.plans[k].status # "running"
                      /\ e.last >= d.last
                      /\ startupBusy(d) /\ now.time >= Start => e.last >= now.time
<1> DEFINE e == Recovered(d, boot)
<1>1. /\ \A k \in Accounts : e.plans[k] = IF boot /\ d.plans[k].status = "running"
                                          THEN Interrupted(d.plans[k]) ELSE d.plans[k]
      /\ e.last = IF now.time >= Start /\ boot /\ startupBusy(d)
                  THEN Later(d.last, now.time) ELSE d.last
  BY RecoveredFields
<1>2. /\ d.last \in 0 .. (DayEnd - 1) /\ now.time \in 0 .. (DayEnd - 1)
      /\ \A k \in Accounts : d.plans[k] \in PlanType
  BY DEF DocType, NowType
<1>3. ASSUME NEW k \in Accounts
      PROVE  /\ SoundPlan(e.plans[k])
             /\ ~boot => e.plans[k] = d.plans[k]
             /\ boot => e.plans[k].status # "running"
  <2> HIDE DEF e
  <2> QED BY <1>1, <1>2, InterruptedSound DEF Sound
<1> HIDE DEF e
<1>4. e.last # 0 => e.last \in Start .. (DayEnd - 1)
  BY <1>1, <1>2, WindowsAssumption DEF Sound, Later
<1>5. CASE ~boot
  <2>1. GoesOn(d, e)
    BY <1>1, <1>3, <1>5 DEF GoesOn
  <2>2. startupBusy(e) => e.last # 0
    BY <2>1, SameBusy DEF Sound, GoesOn
  <2> QED BY <1>3, <1>4, <1>5, <2>1, <2>2 DEF Sound, e
<1>6. CASE boot
  <2>1. ~startupBusy(e)
    BY <1>3, <1>6 DEF startupBusy
  <2>2. Sound(e)
    BY <1>3, <1>4, <2>1 DEF Sound
  <2>3. e.last >= d.last /\ (startupBusy(d) /\ now.time >= Start => e.last >= now.time)
    BY <1>1, <1>2, <1>6 DEF Later
  <2> QED BY <1>3, <1>6, <2>2, <2>3 DEF e
<1> QED BY <1>5, <1>6

\* A review ends plans that wait or have failed, and changes nothing else.
LEMMA ReviewedSound ==
    ASSUME NEW p \in PlanType, SoundPlan(p), NEW d, NEW boot
    PROVE  LET q == Reviewed(d, p, boot) IN
           /\ SoundPlan(q)
           /\ q = p \/ (p.status # "running" /\ q.status # "running")
<1> DEFINE r == IF RetryOver(d, p, boot) THEN TRUE ELSE p.retryEnd
           s == IF FirstOver(d, p, boot) THEN "missed" ELSE p.status
           q == [p EXCEPT !.retryEnd = r, !.status = s]
<1>1. Reviewed(d, p, boot) = q
  BY DEF Reviewed, PlanType
<1>2. /\ r # p.retryEnd => p.status = "failed"
      /\ s # p.status => p.status = "pending" /\ s = "missed"
  BY DEF RetryOver, FirstOver, PlanType
<1>3. s = "none" => p.status = "none"
  BY DEF PlanType
<1> HIDE DEF r, s
<1>4. /\ q.status = s /\ q.attempts = p.attempts /\ q.first = p.first
      /\ q.retry = p.retry /\ q.startup = p.startup
      /\ r = p.retryEnd /\ s = p.status => q = p
  BY DEF PlanType
<1> HIDE DEF q
<1>5. SoundPlan(q)
  <2>1. CASE s = p.status
    BY <1>4, <2>1 DEF SoundPlan, ValidPlan
  <2>2. CASE s # p.status
    BY <1>2, <1>4, <2>2 DEF SoundPlan, ValidPlan
  <2> QED BY <2>1, <2>2
<1>6. q = p \/ (p.status # "running" /\ q.status # "running")
  BY <1>2, <1>4
<1> QED BY <1>1, <1>5, <1>6

\* A plan that is new has both its times in their windows and does not run.
LEMMA NewPlanSound ==
    ASSUME NEW a \in FirstTimes, NEW b \in RetryTimes, NEW boot
    PROVE  LET p == NewPlan(a, b, boot) IN
           p \in PlanType /\ SoundPlan(p) /\ p.status # "running"
<1> DEFINE s == IF a <= now.time /\ ~(boot /\ now.time >= Start)
                THEN "missed" ELSE "pending"
           p == [status |-> s, attempts |-> 0, first |-> a, retry |-> b,
                 startup |-> 0, retryEnd |-> FALSE]
<1>1. /\ a \in Start .. (Retry - 1) /\ b \in Retry .. (End - 1)
      /\ a \in 0 .. DayEnd /\ b \in 0 .. DayEnd
  BY WindowsAssumption DEF FirstTimes, RetryTimes
<1>2. s \in {"missed", "pending"}
  OBVIOUS
<1>3. NewPlan(a, b, boot) = p
  <2>1. NewPlan(a, b, boot) = [NoPlan EXCEPT !.first = a, !.retry = b, !.status = s]
    BY DEF NewPlan
  <2> HIDE DEF s
  <2> QED BY <2>1 DEF NoPlan
<1> HIDE DEF s
<1>4. p \in PlanType
  BY <1>1, <1>2, WindowsAssumption DEF PlanType, Statuses
<1>5. SoundPlan(p) /\ p.status # "running"
  BY <1>1, <1>2, WindowsAssumption DEF SoundPlan, ValidPlan
<1> HIDE DEF p
<1> QED BY <1>3, <1>4, <1>5

\* A document whose plans are others: the parts that remain to be looked at.
LEMMA GoesOnSound ==
    ASSUME NEW d, Sound(d), NEW e, GoesOn(d, e),
           \A k \in Accounts : SoundPlan(e.plans[k])
    PROVE  Sound(e)
BY SameBusy DEF Sound, GoesOn

\* Planning lets what runs alone.
LEMMA PlannedSound ==
    ASSUME NEW d \in DocType, NEW boot, Sound(d),
           NEW first \in [Fresh(d) -> FirstTimes], NEW retry \in [Fresh(d) -> RetryTimes]
    PROVE  LET e == Planned(d, first, retry, boot) IN Sound(e) /\ GoesOn(d, e)
<1> DEFINE e == Planned(d, first, retry, boot)
           f == [k \in Accounts |->
                IF k \notin targets THEN d.plans[k]
                ELSE IF k \notin Fresh(d) THEN Reviewed(d, d.plans[k], boot)
                ELSE Reviewed(d, NewPlan(first[k], retry[k], boot), boot)]
<1>1. e.plans = f /\ e.last = d.last
  <2>1. e = [d EXCEPT !.plans = f]
    BY DEF Planned
  <2> HIDE DEF e, f
  <2> QED BY <2>1 DEF DocType
<1>2. ASSUME NEW k \in Accounts
      PROVE  /\ SoundPlan(f[k])
             /\ \/ f[k] = d.plans[k]
                \/ d.plans[k].status # "running" /\ f[k].status # "running"
  <2>1. d.plans[k] \in PlanType /\ SoundPlan(d.plans[k])
    BY DEF DocType, Sound
  <2>2. CASE k \notin targets
    BY <2>1, <2>2
  <2>3. CASE k \in targets /\ k \notin Fresh(d)
    <3>1. f[k] = Reviewed(d, d.plans[k], boot)
      BY <2>3
    <3> HIDE DEF f
    <3> QED BY <2>1, <3>1, ReviewedSound
  <2>4. CASE k \in Fresh(d)
    <3> DEFINE new == NewPlan(first[k], retry[k], boot)
    <3>1. d.plans[k].status = "none" /\ k \in targets
      BY <2>4 DEF Fresh
    <3>2. first[k] \in FirstTimes /\ retry[k] \in RetryTimes
      BY <2>4
    <3>3. new \in PlanType /\ SoundPlan(new) /\ new.status # "running"
      BY <3>2, NewPlanSound
    <3>4. f[k] = Reviewed(d, new, boot)
      BY <2>4, <3>1
    <3> HIDE DEF f, new
    <3>5. SoundPlan(f[k]) /\ f[k].status # "running"
      BY <3>3, <3>4, ReviewedSound
    <3> QED BY <3>1, <3>5
  <2> QED BY <2>2, <2>3, <2>4
<1> HIDE DEF e, f
<1>3. GoesOn(d, e)
  BY <1>1, <1>2 DEF GoesOn
<1>4. Sound(e)
  BY <1>1, <1>2, <1>3, GoesOnSound
<1> QED BY <1>3, <1>4 DEF e

\* The start-up queue is made of plans that wait.
LEMMA QueuedSound ==
    ASSUME NEW d \in DocType, Sound(d)
    PROVE  LET e == queueStartup(d) IN Sound(e) /\ GoesOn(d, e)
<1> DEFINE e == queueStartup(d)
           f == [k \in Accounts |->
                IF k \notin Waiting(d) THEN d.plans[k]
                ELSE IF QueueTime(d, k) \in Start .. (DayEnd - 1)
                THEN [d.plans[k] EXCEPT !.startup = QueueTime(d, k)]
                ELSE [d.plans[k] EXCEPT !.status = "missed"]]
<1>1. e.plans = f /\ e.last = d.last
  <2>1. e = [d EXCEPT !.plans = f]
    BY DEF queueStartup
  <2> HIDE DEF e, f
  <2> QED BY <2>1 DEF DocType
<1>2. ASSUME NEW k \in Accounts
      PROVE  /\ SoundPlan(f[k])
             /\ \/ f[k] = d.plans[k]
                \/ d.plans[k].status # "running" /\ f[k].status # "running"
  <2> DEFINE q == QueueTime(d, k)
             p == d.plans[k]
  <2>1. p \in PlanType /\ SoundPlan(p)
    BY DEF DocType, Sound
  <2>2. k \in Waiting(d) => p.status = "pending"
    BY DEF Waiting
  <2>3. f[k] = IF k \notin Waiting(d) THEN p
               ELSE IF q \in Start .. (DayEnd - 1)
               THEN [p EXCEPT !.startup = q]
               ELSE [p EXCEPT !.status = "missed"]
    OBVIOUS
  <2> HIDE DEF q, f, p
  <2>4. CASE k \notin Waiting(d)
    BY <2>1, <2>3, <2>4 DEF p
  <2>5. CASE k \in Waiting(d) /\ q \in Start .. (DayEnd - 1)
    <3>1. /\ f[k].status = "pending" /\ f[k].attempts = p.attempts /\ f[k].first = p.first
          /\ f[k].retry = p.retry /\ f[k].startup = q
      BY <2>1, <2>2, <2>3, <2>5 DEF PlanType
    <3> QED BY <2>1, <2>2, <2>5, <3>1 DEF SoundPlan, ValidPlan, p
  <2>6. CASE k \in Waiting(d) /\ q \notin Start .. (DayEnd - 1)
    <3>1. /\ f[k].status = "missed" /\ f[k].attempts = p.attempts /\ f[k].first = p.first
          /\ f[k].retry = p.retry /\ f[k].startup = p.startup
      BY <2>1, <2>3, <2>6 DEF PlanType
    <3> QED BY <2>1, <2>2, <2>6, <3>1 DEF SoundPlan, ValidPlan, p
  <2> QED BY <2>4, <2>5, <2>6
<1> HIDE DEF e, f
<1>3. GoesOn(d, e)
  BY <1>1, <1>2 DEF GoesOn
<1>4. Sound(e)
  BY <1>1, <1>2, <1>3, GoesOnSound
<1> QED BY <1>3, <1>4 DEF e

LEMMA GoesOnTwice ==
    ASSUME NEW d, NEW e, NEW f, GoesOn(d, e), GoesOn(e, f)
    PROVE  GoesOn(d, f)
BY DEF GoesOn

\* The document before the claims: what ran goes on, unless the process has just
\* started; then nothing runs.
LEMMA PreparedSound ==
    ASSUME NEW d \in DocType, now \in NowType, NEW boot \in BOOLEAN, Sound(d),
           targets \subseteq Accounts,
           NEW first \in [Fresh(Rolled(d)) -> FirstTimes],
           NEW retry \in [Fresh(Rolled(d)) -> RetryTimes]
    PROVE  LET a == Rolled(d)
               e == Prepared(d, first, retry, boot)
           IN  /\ Sound(e)
               /\ ~boot => GoesOn(a, e)
               /\ boot => /\ ~startupBusy(e) /\ e.last >= a.last
                          /\ startupBusy(a) /\ now.time >= Start => e.last >= now.time
<1> DEFINE a == Rolled(d)
           b == Recovered(a, boot)
           c == Planned(b, first, retry, boot)
           e == Prepared(d, first, retry, boot)
<1>1. a \in DocType /\ a.date = now.day /\ Sound(a)
  BY RolledType, RolledSound
<1>2. /\ b \in DocType /\ Sound(b) /\ Fresh(b) = Fresh(a)
      /\ ~boot => GoesOn(a, b)
      /\ boot => /\ \A k \in Accounts : b.plans[k].status # "running"
                 /\ b.last >= a.last
                 /\ startupBusy(a) /\ now.time >= Start => b.last >= now.time
  <2> HIDE DEF a
  <2>1. /\ b \in DocType
        /\ \A k \in Accounts : b.plans[k].status = "none" <=> a.plans[k].status = "none"
    BY <1>1, RecoveredType
  <2>2. Fresh(b) = Fresh(a)
    <3> HIDE DEF b
    <3> QED BY <2>1 DEF Fresh
  <2> QED BY <1>1, <2>1, <2>2, RecoveredSound
<1>3. /\ c \in DocType /\ Sound(c) /\ GoesOn(b, c)
  <2>1. first \in [Fresh(b) -> FirstTimes] /\ retry \in [Fresh(b) -> RetryTimes]
    BY <1>2
  <2> HIDE DEF a, b
  <2> QED BY <1>2, <2>1, PlannedType, PlannedSound
<1>4. Sound(queueStartup(c)) /\ GoesOn(c, queueStartup(c))
  <2> HIDE DEF c
  <2> QED BY <1>3, QueuedSound
<1>5. e = c \/ e = queueStartup(c)
  BY DEF Prepared
<1> HIDE DEF a, b, c, e
<1>6. Sound(e) /\ GoesOn(b, e)
  <2>1. CASE e = c
    BY <1>3, <2>1
  <2>2. CASE e = queueStartup(c)
    BY <1>3, <1>4, <2>2, GoesOnTwice
  <2> QED BY <1>5, <2>1, <2>2
<1>7. CASE ~boot
  <2>1. GoesOn(a, e)
    BY <1>2, <1>6, <1>7, GoesOnTwice
  <2> QED BY <1>6, <1>7, <2>1 DEF a, e
<1>8. CASE boot
  <2>1. e.last = b.last /\ ~startupBusy(e)
    <3>1. ~startupBusy(b)
      BY <1>2, <1>8 DEF startupBusy
    <3> QED BY <1>6, <3>1, SameBusy DEF GoesOn
  <2> QED BY <1>2, <1>6, <1>8, <2>1 DEF a, e
<1> QED BY <1>7, <1>8

\* The opening of the window an attempt is made in.
Opens(attempt) == IF attempt = 2 THEN Retry ELSE Start

\* What is due: the next attempt of a plan, in its window; and of the start-up queue
\* one alone, a minute after the last.
LEMMA ClaimedFacts ==
    ASSUME NEW d \in DocType, now \in NowType, NEW boot, targets \subseteq Accounts,
           NEW k \in Claimed(d, boot)
    PROVE  LET p == d.plans[k] IN
           /\ k \in Accounts
           /\ \/ p.status = "pending" /\ p.attempts = 0
              \/ p.status = "failed" /\ p.attempts = 1
           /\ AttemptOf(p) \in 1 .. 2 /\ AttemptOf(p) = p.attempts + 1
           /\ now.time >= Opens(AttemptOf(p))
           /\ p.startup # 0 =>
                /\ ~startupBusy(d) /\ d.last + Gap <= now.time
                /\ \A j \in Claimed(d, boot) : d.plans[j].startup # 0 => j = k
<1> DEFINE p == d.plans[k]
<1>1. k \in targets /\ (StartupDue(d, p) \/ FirstDue(p, boot) \/ RetryDue(d, p, boot))
  BY DEF Claimed
<1>2. k \in Accounts /\ p \in PlanType
  BY <1>1 DEF DocType
<1>3. p.startup # 0 => ~startupBusy(d)
  BY DEF Claimed
<1>4. ASSUME p.startup # 0, NEW j \in Claimed(d, boot), d.plans[j].startup # 0
      PROVE  j = k
  <2>1. k <= j /\ j <= k
    BY <1>4 DEF Claimed
  <2>2. j \in Nat /\ k \in Nat
    <3>1. j \in Accounts
      BY DEF Claimed
    <3> QED BY <1>2, <3>1, AccountsAssumption
  <2> QED BY <2>1, <2>2
<1> HIDE DEF p
<1>5. /\ \/ p.status = "pending" /\ p.attempts = 0 /\ now.time >= Start
         \/ p.status = "failed" /\ p.attempts = 1 /\ now.time >= Retry
      /\ p.startup # 0 => startupDue(d, p) <= now.time
  BY <1>1 DEF StartupDue, FirstDue, RetryDue
<1>6. p.startup # 0 => d.last + Gap <= now.time
  <2>1. p.startup \in Nat /\ d.last \in Nat /\ now.time \in Nat /\ Gap \in Nat
    BY <1>2, WindowsAssumption DEF DocType, NowType, PlanType
  <2> QED BY <1>5, <2>1 DEF startupDue, Later
<1>7. /\ AttemptOf(p) \in 1 .. 2 /\ AttemptOf(p) = p.attempts + 1
      /\ now.time >= Opens(AttemptOf(p))
  BY <1>5 DEF AttemptOf, Opens
<1> QED BY <1>2, <1>3, <1>4, <1>5, <1>6, <1>7 DEF p

\* What a claim makes of a document, field by field.
LEMMA ClaimFields ==
    ASSUME NEW d \in DocType, NEW claimed \in SUBSET Accounts
    PROVE  LET e == Claim(d, claimed) IN
           /\ \A k \in Accounts \ claimed : e.plans[k] = d.plans[k]
           /\ \A k \in claimed :
                /\ e.plans[k].status = "running"
                /\ e.plans[k].attempts = AttemptOf(d.plans[k])
                /\ e.plans[k].first = d.plans[k].first /\ e.plans[k].retry = d.plans[k].retry
                /\ e.plans[k].startup = d.plans[k].startup
           /\ e.last = IF \E k \in claimed : d.plans[k].startup # 0 THEN now.time ELSE d.last
           /\ e.date = d.date
<1> DEFINE f == [k \in Accounts |->
                IF k \in claimed
                THEN [d.plans[k] EXCEPT !.attempts = AttemptOf(d.plans[k]), !.status = "running"]
                ELSE d.plans[k]]
           l == IF \E k \in claimed : d.plans[k].startup # 0 THEN now.time ELSE d.last
           e == [d EXCEPT !.plans = f, !.last = l]
<1>1. Claim(d, claimed) = e
  BY DEF Claim, DocType
<1>2. ASSUME NEW k \in claimed
      PROVE  /\ f[k].status = "running" /\ f[k].attempts = AttemptOf(d.plans[k])
             /\ f[k].first = d.plans[k].first /\ f[k].retry = d.plans[k].retry
             /\ f[k].startup = d.plans[k].startup
  <2> DEFINE p == d.plans[k]
             n == AttemptOf(p)
  <2>1. p \in PlanType
    BY DEF DocType
  <2>2. f[k] = [p EXCEPT !.attempts = n, !.status = "running"]
    OBVIOUS
  <2> HIDE DEF p, n, f
  <2> QED BY <2>1, <2>2 DEF PlanType, p, n
<1>3. \A k \in Accounts \ claimed : f[k] = d.plans[k]
  OBVIOUS
<1>4. l = IF \E k \in claimed : d.plans[k].startup # 0 THEN now.time ELSE d.last
  OBVIOUS
<1> HIDE DEF f, l
<1>5. e.plans = f /\ e.last = l /\ e.date = d.date
  BY DEF DocType
<1> HIDE DEF e
<1> QED BY <1>1, <1>2, <1>3, <1>4, <1>5

\* A claim leaves a document that is accepted, and at most one of the queue runs in it.
LEMMA ClaimSound ==
    ASSUME NEW d \in DocType, now \in NowType, NEW boot, targets \subseteq Accounts,
           Sound(d), OneBusy(d)
    PROVE  LET e == Claim(d, Claimed(d, boot)) IN Sound(e) /\ OneBusy(e)
<1> DEFINE claimed == Claimed(d, boot)
           e == Claim(d, claimed)
<1>1. claimed \in SUBSET Accounts
  BY DEF Claimed
<1>2. \A k \in claimed :
        /\ d.plans[k].status # "none"
        /\ AttemptOf(d.plans[k]) \in 1 .. 2 /\ now.time >= Opens(AttemptOf(d.plans[k]))
        /\ d.plans[k].startup # 0 =>
             /\ ~startupBusy(d)
             /\ \A j \in claimed : d.plans[j].startup # 0 => j = k
  BY ClaimedFacts
<1>3. /\ \A k \in Accounts \ claimed : e.plans[k] = d.plans[k]
      /\ \A k \in claimed :
            /\ e.plans[k].status = "running"
            /\ e.plans[k].attempts = AttemptOf(d.plans[k])
            /\ e.plans[k].first = d.plans[k].first /\ e.plans[k].retry = d.plans[k].retry
            /\ e.plans[k].startup = d.plans[k].startup
      /\ e.last = IF \E k \in claimed : d.plans[k].startup # 0 THEN now.time ELSE d.last
  <2> HIDE DEF claimed
  <2> QED BY <1>1, ClaimFields
<1> HIDE DEF claimed, e
<1>4. \A k \in claimed : now.time \in Start .. (DayEnd - 1)
  BY <1>2, WindowsAssumption DEF NowType, Opens
<1>5. \A k \in Accounts : SoundPlan(e.plans[k])
  <2>1. ASSUME NEW k \in claimed PROVE SoundPlan(e.plans[k])
    <3>1. ValidPlan(d.plans[k])
      BY <1>1, <1>2 DEF Sound, SoundPlan
    <3> QED BY <1>2, <1>3, <3>1 DEF SoundPlan, ValidPlan
  <2>2. ASSUME NEW k \in Accounts \ claimed PROVE SoundPlan(e.plans[k])
    BY <1>3 DEF Sound
  <2> QED BY <2>1, <2>2
<1>6. e.last # 0 => e.last \in Start .. (DayEnd - 1)
  BY <1>3, <1>4 DEF Sound
<1>7. startupBusy(e) => e.last # 0
  <2>1. SUFFICES ASSUME NEW k \in Accounts, e.plans[k].startup # 0,
                        e.plans[k].status = "running"
                 PROVE  e.last # 0
    BY DEF startupBusy
  <2>2. CASE \E i \in claimed : d.plans[i].startup # 0
    BY <1>3, <1>4, <2>2, WindowsAssumption
  <2>3. CASE ~\E i \in claimed : d.plans[i].startup # 0
    <3>1. k \notin claimed
      BY <1>3, <2>1, <2>3
    <3>2. startupBusy(d)
      BY <1>3, <2>1, <3>1 DEF startupBusy
    <3> QED BY <1>3, <2>3, <3>2 DEF Sound
  <2> QED BY <2>2, <2>3
<1>8. OneBusy(e)
  <2> SUFFICES ASSUME NEW k \in Accounts, NEW i \in Accounts,
                      QueuedOn(e, k), QueuedOn(e, i)
               PROVE  k = i
    BY DEF OneBusy
  <2>1. \A n \in Accounts : QueuedOn(e, n) =>
            \/ n \in claimed /\ d.plans[n].startup # 0
            \/ n \notin claimed /\ QueuedOn(d, n) /\ startupBusy(d)
    BY <1>3 DEF QueuedOn, startupBusy
  <2> QED BY <1>2, <2>1 DEF OneBusy
<1> QED BY <1>5, <1>6, <1>7, <1>8 DEF Sound, e, claimed

-----------------------------------------------------------------------------
(* The minute between two requests of the queue *)

NoSets == sets = 0
LastType == lastQueued \in [day : 0 .. MaxDay, time : 0 .. (DayEnd - 1)]

\* The last request of the queue that ended is in the past: in the hours of the queue,
\* or it began the day before.
Past ==
    /\ lastQueued.day <= now.day
    /\ lastQueued.day = now.day => /\ lastQueued.time <= now.time
                                   /\ lastQueued.time = 0 \/ lastQueued.time >= Start

\* A document of today knows of it, or still has its plan as running.
Knows(d) == lastQueued.day = now.day => lastQueued.time <= d.last \/ startupBusy(d)

\* A request of the queue may leave.
MinuteOver == lastQueued.day = now.day => lastQueued.time + Gap <= now.time

\* What a look makes of a document: a start lets nothing run on, a later look lets
\* everything, and what it reserves is in its window and apart from the others.
LEMMA LookClaims ==
    ASSUME NEW from, Clean(from), Sound(from), OneBusy(from), from.date <= now.day,
           now \in NowType, targets \subseteq Accounts, NEW boot \in BOOLEAN,
           NEW first \in [Fresh(Rolled(from)) -> FirstTimes],
           NEW retry \in [Fresh(Rolled(from)) -> RetryTimes]
    PROVE  LET d == Prepared(from, first, retry, boot)
               claimed == Claimed(d, boot)
               to == Claim(d, claimed)
           IN  /\ Sound(to) /\ OneBusy(to) /\ to.date = now.day
               /\ (~boot /\ from.date = now.day) =>
                    \A k \in Accounts : from.plans[k].status = "running"
                                        => to.plans[k] = from.plans[k]
               /\ \A k \in claimed :
                    /\ Job(d, k).day = now.day /\ Job(d, k).key = k
                    /\ Job(d, k).phase = "claimed" /\ k \in Accounts
                    /\ now.time >= Opens(Job(d, k).attempt)
                    /\ to.plans[k].attempts = Job(d, k).attempt
                    /\ Job(d, k).queued => QueuedOn(to, k)
               /\ (LastType /\ Past /\ Knows(Rolled(from))) =>
                    /\ Knows(to)
                    /\ \A k \in claimed : Job(d, k).queued => MinuteOver
<1> DEFINE a == Rolled(from)
           d == Prepared(from, first, retry, boot)
           claimed == Claimed(d, boot)
           to == Claim(d, claimed)
<1>1. /\ from \in DocType /\ a \in DocType /\ (from.date = now.day => a = from)
      /\ now.time \in Nat
  BY RolledType DEF Clean, NowType
<1>2. d \in DocType /\ d.date = now.day
  BY <1>1, PreparedType
<1>3. /\ Sound(d)
      /\ ~boot => GoesOn(a, d)
      /\ boot => /\ ~startupBusy(d) /\ d.last >= a.last
                 /\ startupBusy(a) /\ now.time >= Start => d.last >= now.time
  BY <1>1, PreparedSound
<1>4. OneBusy(d)
  <2>1. OneBusy(a)
    BY <1>1, BlankSound DEF Rolled, OneBusy, QueuedOn
  <2>2. CASE ~boot
    <3> HIDE DEF a, d
    <3> QED BY <1>3, <2>1, <2>2, SameBusy DEF OneBusy
  <2>3. CASE boot
    <3> HIDE DEF a, d
    <3> QED BY <1>3, <2>3 DEF startupBusy, OneBusy, QueuedOn
  <2> QED BY <2>2, <2>3
<1> HIDE DEF a, d
<1>5. claimed \in SUBSET Accounts
  BY DEF Claimed
<1>6. Sound(to) /\ OneBusy(to)
  BY <1>2, <1>3, <1>4, ClaimSound
<1>7. \A k \in claimed :
        LET p == d.plans[k] IN
        /\ k \in Accounts
        /\ p.status \in {"pending", "failed"}
        /\ now.time >= Opens(AttemptOf(p))
        /\ p.startup # 0 => ~startupBusy(d) /\ d.last + Gap <= now.time
  BY <1>2, ClaimedFacts
<1> HIDE DEF claimed
<1>8. /\ \A k \in Accounts \ claimed : to.plans[k] = d.plans[k]
      /\ \A k \in claimed :
            /\ to.plans[k].status = "running"
            /\ to.plans[k].attempts = AttemptOf(d.plans[k])
            /\ to.plans[k].startup = d.plans[k].startup
      /\ to.last = IF \E k \in claimed : d.plans[k].startup # 0 THEN now.time ELSE d.last
      /\ to.date = d.date
  BY <1>2, <1>5, ClaimFields
<1> HIDE DEF to
<1>9. ASSUME ~boot, from.date = now.day, NEW k \in Accounts, from.plans[k].status = "running"
      PROVE  to.plans[k] = from.plans[k]
  <2>1. d.plans[k] = from.plans[k]
    BY <1>1, <1>3, <1>9 DEF GoesOn
  <2>2. k \notin claimed
    BY <1>7, <1>9, <2>1
  <2> QED BY <1>8, <2>1, <2>2
<1>10. ASSUME NEW k \in claimed
       PROVE  /\ Job(d, k).day = now.day /\ Job(d, k).key = k
              /\ Job(d, k).phase = "claimed" /\ k \in Accounts
              /\ now.time >= Opens(Job(d, k).attempt)
              /\ to.plans[k].attempts = Job(d, k).attempt
              /\ Job(d, k).queued => QueuedOn(to, k)
              /\ Job(d, k).queued <=> d.plans[k].startup # 0
  BY <1>2, <1>7, <1>8 DEF Job, QueuedOn
<1>11. ASSUME LastType, Past, Knows(a)
       PROVE  Knows(to) /\ \A k \in claimed : Job(d, k).queued => MinuteOver
  <2>1. /\ lastQueued.time \in Nat /\ a.last \in Nat /\ d.last \in Nat
        /\ Gap \in Nat /\ Start \in Nat
    BY <1>1, <1>2, <1>11, WindowsAssumption DEF LastType, DocType
  <2>2. Knows(d)
    <3>1. CASE ~boot
      BY <1>3, <1>11, <3>1, SameBusy DEF Knows, GoesOn
    <3>2. CASE boot
      BY <1>1, <1>3, <1>11, <2>1, <3>2 DEF Knows, Past
    <3> QED BY <3>1, <3>2
  <2>3. Knows(to)
    <3>1. CASE \E k \in claimed : d.plans[k].startup # 0
      <4>1. startupBusy(to)
        BY <1>7, <1>8, <3>1 DEF startupBusy
      <4> QED BY <4>1 DEF Knows
    <3>2. CASE ~\E k \in claimed : d.plans[k].startup # 0
      <4>1. to.last = d.last
        BY <1>8, <3>2
      <4>2. startupBusy(d) => startupBusy(to)
        <5>1. ASSUME NEW k \in Accounts, d.plans[k].startup # 0,
                     d.plans[k].status = "running"
              PROVE  to.plans[k] = d.plans[k]
          BY <1>8, <3>2, <5>1
        <5> QED BY <5>1 DEF startupBusy
      <4> QED BY <2>2, <4>1, <4>2 DEF Knows
    <3> QED BY <3>1, <3>2
  <2>4. ASSUME NEW k \in claimed, Job(d, k).queued
        PROVE  MinuteOver
    <3>1. ~startupBusy(d) /\ d.last + Gap <= now.time
      BY <1>7, <1>10, <2>4
    <3> QED BY <1>1, <2>1, <2>2, <3>1 DEF Knows, MinuteOver
  <2> QED BY <2>3, <2>4
<1> QED BY <1>2, <1>6, <1>8, <1>9, <1>10, <1>11 DEF to, claimed, d, a

\* A job of the queue has its plan in the file, running.
JobsBusy == \A j \in jobs : j.queued /\ j.day = file.date =>
                QueuedOn(file, j.key) /\ file.plans[j.key].attempts = j.attempt

\* A job is of a day that has come, and on that day of an hour that has come.
Begun == \A j \in jobs : /\ j.day <= now.day
                         /\ j.day = now.day => now.time >= Opens(j.attempt)

\* A request under way is of today, or ends at midnight.
SentTimely == \A j \in jobs : j.phase = "sent" => j.day = now.day \/ now.time = 0

\* A reserved request of the queue may leave.
Apart == \A j \in jobs : j.queued /\ j.phase = "claimed" /\ j.day = now.day => MinuteOver

\* What holds as long as the clock is not set back.
Ordered == /\ file.date <= now.day /\ Past /\ Begun /\ SentTimely
           /\ Knows(Rolled(file)) /\ Apart

QInv == /\ Sound(file) /\ Sound(doc) /\ OneBusy(file) /\ JobsBusy
        /\ sets \in Nat /\ LastType
        /\ NoSets => Ordered

\* The types a step of the queue is about.
LEMMA QueueParts ==
    ASSUME IInv
    PROVE  /\ file \in DocType /\ file.date \in Nat /\ file.last \in Nat
           /\ now.day \in Nat /\ now.time \in Nat /\ now \in NowType
           /\ {Start, Retry, End, DayEnd, Gap} \subseteq Nat \ {0} /\ Start < Retry
           /\ \A j \in jobs :
                /\ j.key \in Accounts /\ j.day \in Nat /\ j.attempt \in 1 .. 2
                /\ now.time >= Opens(j.attempt) => now.time >= Start /\ now.time # 0
<1>1. Clean(file) /\ now \in NowType /\ jobs \subseteq JobType
  BY Parts
<1>2. /\ file \in DocType /\ file.date \in Nat /\ file.last \in Nat
      /\ now.day \in Nat /\ now.time \in Nat
  BY <1>1 DEF Clean, DocType, NowType
<1>3. {Start, Retry, End, DayEnd, Gap} \subseteq Nat \ {0} /\ Start < Retry
  BY WindowsAssumption
<1>4. \A j \in jobs : j.key \in Accounts /\ j.day \in Nat /\ j.attempt \in 1 .. 2
  BY <1>1 DEF JobType
<1>5. \A j \in jobs : now.time >= Opens(j.attempt) => now.time >= Start /\ now.time # 0
  BY <1>2, <1>3 DEF Opens
<1> QED BY <1>1, <1>2, <1>3, <1>4, <1>5

\* The plan of a job of today is in the file.
LEMMA FileOfToday ==
    ASSUME IInv, file.date <= now.day, NEW j \in jobs, j.day = now.day
    PROVE  file.date = now.day /\ Rolled(file) = file
<1>1. Reserved(file, Request(j)) /\ Request(j).day = j.day
  BY DEF IInv, JobsOnDisk, Request
<1>2. file.date = now.day
  BY <1>1, QueueParts DEF Reserved
<1> QED BY <1>2, QueueParts, RolledType

\* Of the queue one job at most is of the day of the file.
LEMMA AloneInQueue ==
    ASSUME IInv, QInv, NEW i \in jobs, NEW j \in jobs, i.queued, j.queued,
           i.day = file.date, j.day = file.date
    PROVE  i = j
<1>1. /\ QueuedOn(file, i.key) /\ QueuedOn(file, j.key)
      /\ file.plans[i.key].attempts = i.attempt /\ file.plans[j.key].attempts = j.attempt
  BY DEF QInv, JobsBusy
<1>2. i.key = j.key /\ i.attempt = j.attempt
  BY <1>1, QueueParts DEF QInv, OneBusy
<1> QED BY <1>2 DEF IInv, OneJob, Request

\* A request of the queue ends: what is known then.
LEMMA EndsNow ==
    ASSUME IInv, QInv, NoSets, NEW j \in jobs, j.queued, j.phase = "sent"
    PROVE  /\ now.time = 0 \/ now.time >= Start
           /\ now.time <= Rolled(file).last \/ startupBusy(Rolled(file))
<1>1. Ordered
  BY DEF QInv
<1>2. CASE now.time = 0
  <2>1. Rolled(file).last \in Nat
    BY QueueParts, RolledType DEF DocType
  <2> QED BY <1>2, <2>1, QueueParts
<1>3. CASE j.day = now.day
  <2>1. now.time >= Start
    BY <1>1, <1>3, QueueParts DEF Ordered, Begun
  <2>2. file.date = now.day /\ Rolled(file) = file
    BY <1>1, <1>3, FileOfToday DEF Ordered
  <2>3. startupBusy(file)
    BY <1>3, <2>2, QueueParts DEF QInv, JobsBusy, QueuedOn, startupBusy
  <2> QED BY <2>1, <2>2, <2>3
<1> QED BY <1>1, <1>2, <1>3 DEF Ordered, SentTimely

\* Nothing of the queue changes.
LEMMA QueueStays ==
    ASSUME QInv, Sound(doc'), UNCHANGED <<file, jobs, now, lastQueued, sets>>
    PROVE  QInv'
<1>1. NoSets' => Ordered'
  BY DEF QInv, NoSets, Ordered, Past, Begun, SentTimely, Knows, Rolled, startupBusy, Apart,
         MinuteOver
<1> QED BY <1>1 DEF QInv, OneBusy, QueuedOn, JobsBusy, Sound, SoundPlan, ValidPlan,
                    startupBusy, LastType

\* A look and a start keep the queue in order.
LEMMA LookQueue ==
    ASSUME IInv, QInv, NEW boot \in BOOLEAN, boot => jobs = {}, blocked = FALSE,
           planAndClaim(file, boot), UNCHANGED <<now, targets, lastQueued, sets>>
    PROVE  QInv'
<1>1. Clean(file) /\ file \in DocType /\ now \in NowType /\ targets \subseteq Accounts
  BY Parts, QueueParts
<1>2. CASE doc' = file /\ UNCHANGED <<file, jobs, late>>
  BY <1>2, QueueStays DEF QInv
<1>3. CASE doc' = Recovered(Rolled(file), boot) /\ UNCHANGED <<file, jobs, late>>
  <2>1. Sound(doc')
    BY <1>1, <1>3, RolledType, RolledSound, RecoveredSound DEF QInv
  <2> QED BY <1>3, <2>1, QueueStays
<1>4. ASSUME file.date <= now.day,
             NEW first \in [Fresh(Rolled(file)) -> FirstTimes],
             NEW retry \in [Fresh(Rolled(file)) -> RetryTimes],
             LET d == Prepared(file, first, retry, boot)
                 claimed == Claimed(d, boot)
             IN /\ doc' = Claim(d, claimed)
                /\ Reserve(file, doc', {Job(d, k) : k \in claimed})
      PROVE  QInv'
  <2> DEFINE d == Prepared(file, first, retry, boot)
             claimed == Claimed(d, boot)
             to == Claim(d, claimed)
             new == {Job(d, k) : k \in claimed}
  <2>1. doc' = to /\ Reserve(file, doc', new)
    BY <1>4
  <2>2. /\ Sound(to) /\ OneBusy(to) /\ to.date = now.day
        /\ (~boot /\ file.date = now.day) =>
             \A k \in Accounts : file.plans[k].status = "running"
                                 => to.plans[k] = file.plans[k]
        /\ \A k \in claimed :
             /\ Job(d, k).day = now.day /\ Job(d, k).key = k
             /\ Job(d, k).phase = "claimed" /\ k \in Accounts
             /\ now.time >= Opens(Job(d, k).attempt)
             /\ to.plans[k].attempts = Job(d, k).attempt
             /\ Job(d, k).queued => QueuedOn(to, k)
        /\ (LastType /\ Past /\ Knows(Rolled(file))) =>
             /\ Knows(to)
             /\ \A k \in claimed : Job(d, k).queued => MinuteOver
    BY <1>1, <1>4, LookClaims DEF QInv
  <2>3. to \in DocType
    <3>1. Clean(to)
      BY <1>1, <1>4, LookReserves DEF Reserves
    <3> QED BY <3>1 DEF Clean
  <2> HIDE DEF to
  <2>4. \A j \in new :
             /\ j.day = now.day /\ j.key \in Accounts /\ j.phase = "claimed"
             /\ now.time >= Opens(j.attempt)
             /\ to.plans[j.key].attempts = j.attempt
             /\ j.queued => QueuedOn(to, j.key)
    <3> HIDE DEF d, claimed
    <3> QED BY <2>2
  <2>5. NoSets => Knows(to) /\ \A j \in new : j.queued => MinuteOver
    <3>1. NoSets => LastType /\ Past /\ Knows(Rolled(file))
      BY DEF QInv, Ordered
    <3> HIDE DEF d, claimed
    <3> QED BY <2>2, <3>1
  <2> HIDE DEF d, claimed, new
  <2>6. CASE UNCHANGED <<file, jobs>>
    BY <2>1, <2>2, <2>6, QueueStays
  <2>7. CASE file' = to /\ jobs' = jobs \cup new
    <3>1. \A j \in jobs : j.day = now.day => ~boot /\ file.date = now.day
      BY <1>4, FileOfToday
    <3>2. JobsBusy'
      <4> SUFFICES ASSUME NEW j \in jobs \cup new, j.queued, j.day = now.day
                   PROVE  QueuedOn(to, j.key) /\ to.plans[j.key].attempts = j.attempt
        BY <2>2, <2>7 DEF JobsBusy, QueuedOn
      <4>1. CASE j \in new
        BY <2>4, <4>1
      <4>2. CASE j \in jobs
        <5>1. ~boot /\ file.date = now.day
          BY <3>1, <4>2
        <5>2. QueuedOn(file, j.key) /\ file.plans[j.key].attempts = j.attempt
          BY <4>2, <5>1 DEF QInv, JobsBusy
        <5>3. to.plans[j.key] = file.plans[j.key]
          BY <2>2, <4>2, <5>1, <5>2, QueueParts DEF QueuedOn
        <5> QED BY <5>2, <5>3 DEF QueuedOn
      <4> QED BY <4>1, <4>2
    <3>3. ASSUME NoSets PROVE Ordered'
      <4>1. Ordered
        BY <3>3 DEF QInv
      <4>2. Rolled(to) = to
        BY <1>1, <2>2, <2>3, RolledType
      <4>3. file'.date <= now'.day
        BY <2>2, <2>7, QueueParts
      <4>4. Past'
        BY <4>1 DEF Ordered, Past
      <4>5. Begun'
        BY <2>4, <2>7, <4>1, QueueParts DEF Ordered, Begun
      <4>6. SentTimely'
        BY <2>4, <2>7, <4>1 DEF Ordered, SentTimely
      <4>7. Knows(Rolled(file))'
        <5>1. Knows(to) /\ Rolled(to) = to
          BY <2>5, <3>3, <4>2
        <5> QED BY <2>7, <5>1 DEF Knows, Rolled, startupBusy
      <4>8. Apart'
        BY <2>5, <2>7, <3>3, <4>1 DEF Ordered, Apart, MinuteOver
      <4> QED BY <4>3, <4>4, <4>5, <4>6, <4>7, <4>8 DEF Ordered
    <3>4. Sound(file)' /\ Sound(doc)' /\ OneBusy(file)'
      BY <2>1, <2>2, <2>7 DEF Sound, SoundPlan, ValidPlan, startupBusy, OneBusy, QueuedOn
    <3> QED BY <3>2, <3>3, <3>4 DEF QInv, NoSets, LastType
  <2> QED BY <2>1, <2>6, <2>7 DEF Reserve
<1> QED BY <1>2, <1>3, <1>4, Zenon DEF planAndClaim

\* The jobs after one has moved: the others, and the same one in another phase.
LEMMA MovedJobs ==
    ASSUME IInv, NEW j \in jobs,
           NEW phase \in {"sent", "ok", "failed", "skipped"}, jobs' = Moved(j, phase)
    PROVE  \A i \in jobs' :
              \/ i \in jobs /\ i # j
              \/ /\ i.key = j.key /\ i.day = j.day /\ i.attempt = j.attempt
                 /\ i.queued = j.queued /\ i.phase = phase
<1> DEFINE n == [j EXCEPT !.phase = phase]
<1>1. j \in JobType
  BY Parts
<1>2. /\ n.key = j.key /\ n.day = j.day /\ n.attempt = j.attempt
      /\ n.queued = j.queued /\ n.phase = phase
  BY <1>1 DEF JobType
<1>3. jobs' = (jobs \ {j}) \cup {n}
  BY DEF Moved
<1> HIDE DEF n
<1> QED BY <1>2, <1>3

\* A job moves on; if it ends a request of the queue, that is noted.
LEMMA MoveQueue ==
    ASSUME IInv, QInv, NEW j \in jobs,
           NEW phase \in {"sent", "ok", "failed", "skipped"}, jobs' = Moved(j, phase),
           UNCHANGED <<now, file, doc, sets>>,
           (NoSets /\ phase = "sent") => j.day = now.day,
           \/ lastQueued' = lastQueued
           \/ lastQueued' = now /\ j.queued /\ j.phase = "sent"
    PROVE  QInv'
<1>1. \A i \in jobs' :
          \/ i \in jobs /\ i # j
          \/ /\ i.key = j.key /\ i.day = j.day /\ i.attempt = j.attempt
             /\ i.queued = j.queued /\ i.phase = phase
  BY MovedJobs
<1>2. JobsBusy'
  BY <1>1 DEF QInv, JobsBusy, QueuedOn
<1>3. LastType'
  BY QueueParts DEF QInv, LastType, NowType
<1>4. ASSUME NoSets PROVE Ordered'
  <2>1. Ordered
    BY <1>4 DEF QInv
  <2>2. file'.date <= now'.day
    BY <2>1 DEF Ordered
  <2>3. Begun'
    BY <1>1, <2>1 DEF Ordered, Begun
  <2>4. SentTimely'
    BY <1>1, <1>4, <2>1 DEF Ordered, SentTimely
  <2>5. CASE lastQueued' = lastQueued
    <3>1. Past' /\ Knows(Rolled(file))'
      BY <2>1, <2>5 DEF Ordered, Past, Knows, Rolled, startupBusy
    <3>2. Apart'
      BY <1>1, <2>1, <2>5 DEF Ordered, Apart, MinuteOver
    <3> QED BY <2>2, <2>3, <2>4, <3>1, <3>2 DEF Ordered
  <2>6. CASE lastQueued' = now /\ j.queued /\ j.phase = "sent"
    <3>1. /\ now.time = 0 \/ now.time >= Start
          /\ now.time <= Rolled(file).last \/ startupBusy(Rolled(file))
      BY <1>4, <2>6, EndsNow
    <3>2. Past'
      BY <2>6, <3>1, QueueParts DEF Past
    <3>3. Knows(Rolled(file))'
      BY <2>6, <3>1 DEF Knows, Rolled, startupBusy
    <3>4. Apart'
      <4> SUFFICES ASSUME NEW i \in jobs', i.queued, i.phase = "claimed", i.day = now.day
                   PROVE  FALSE
        BY DEF Apart
      <4>1. i \in jobs /\ i # j
        BY <1>1
      <4>2. now.time # 0
        BY <2>1, <4>1, QueueParts DEF Ordered, Begun
      <4>3. j.day = now.day
        BY <2>1, <2>6, <4>2 DEF Ordered, SentTimely
      <4>4. file.date = now.day
        BY <2>1, <4>3, FileOfToday DEF Ordered
      <4> QED BY <2>6, <4>1, <4>3, <4>4, AloneInQueue
    <3> QED BY <2>2, <2>3, <2>4, <3>2, <3>3, <3>4 DEF Ordered
  <2> QED BY <2>5, <2>6
<1> QED BY <1>2, <1>3, <1>4 DEF QInv, NoSets, Sound, SoundPlan, ValidPlan, startupBusy,
                                OneBusy, QueuedOn

\* What the end of a job makes of the document, field by field.
LEMMA SettledFields ==
    ASSUME IInv, NEW j \in jobs
    PROVE  LET e == Settled(j)
               p == doc.plans[j.key]
           IN  /\ \A k \in Accounts \ {j.key} : e.plans[k] = doc.plans[k]
               /\ e.plans[j.key].status \in {"success", "failed"}
               /\ e.plans[j.key].attempts = p.attempts
               /\ e.plans[j.key].first = p.first /\ e.plans[j.key].retry = p.retry
               /\ e.plans[j.key].startup = p.startup
               /\ e.last = IF p.startup # 0 /\ now.day = j.day
                           THEN Later(doc.last, now.time) ELSE doc.last
               /\ e.date = doc.date
<1> DEFINE k == j.key
           p == doc.plans[k]
           r == IF j.phase # "ok" /\ (j.attempt = 2 \/ now.time >= End)
                THEN TRUE ELSE p.retryEnd
           s == IF j.phase = "ok" THEN "success" ELSE "failed"
           q == Ended(j, p)
           f == [doc.plans EXCEPT ![k] = q]
           l == IF p.startup # 0 /\ now.day = j.day
                THEN Later(doc.last, now.time) ELSE doc.last
           e == [doc EXCEPT !.plans = f, !.last = l]
<1>1. /\ doc \in DocType /\ k \in Accounts
      /\ doc.plans \in [Accounts -> PlanType]
  BY Parts, QueueParts DEF DocType
<1>2. p \in PlanType
  BY <1>1
<1>3. /\ q.status = s /\ q.attempts = p.attempts /\ q.first = p.first
      /\ q.retry = p.retry /\ q.startup = p.startup
  <2>1. q = [p EXCEPT !.status = s, !.retryEnd = r]
    BY Zenon DEF Ended
  <2> HIDE DEF p, r, s, q
  <2> QED BY <1>2, <2>1 DEF PlanType
<1>4. s \in {"success", "failed"}
  OBVIOUS
<1>5. Settled(j) = e
  BY DEF Settled
<1>6. f[k] = q /\ \A i \in Accounts \ {k} : f[i] = doc.plans[i]
  <2> HIDE DEF q
  <2> QED BY <1>1
<1>7. e.plans = f /\ e.last = l /\ e.date = doc.date
  <2> HIDE DEF f, l
  <2> QED BY <1>1 DEF DocType
<1> HIDE DEF e, f, q, s
<1> QED BY <1>3, <1>4, <1>5, <1>6, <1>7

\* The end of a job leaves a document that is accepted: an attempt that succeeded was
\* made.
LEMMA SettledSound ==
    ASSUME IInv, NEW j \in jobs, Sound(doc), doc.plans[j.key].status = "running",
           doc.plans[j.key].attempts = j.attempt
    PROVE  Sound(Settled(j))
<1> DEFINE e == Settled(j)
           p == doc.plans[j.key]
<1>1. /\ \A k \in Accounts \ {j.key} : e.plans[k] = doc.plans[k]
      /\ e.plans[j.key].status \in {"success", "failed"}
      /\ e.plans[j.key].attempts = p.attempts
      /\ e.plans[j.key].first = p.first /\ e.plans[j.key].retry = p.retry
      /\ e.plans[j.key].startup = p.startup
      /\ e.last = IF p.startup # 0 /\ now.day = j.day
                  THEN Later(doc.last, now.time) ELSE doc.last
  BY SettledFields
<1> HIDE DEF e
<1>2. /\ j.key \in Accounts /\ j.attempt # 0
      /\ doc.last \in 0 .. (DayEnd - 1) /\ now.time \in 0 .. (DayEnd - 1)
  BY QueueParts, Parts DEF DocType, NowType
<1>3. \A k \in Accounts : SoundPlan(e.plans[k])
  <2>1. SoundPlan(e.plans[j.key])
    <3>1. ValidPlan(p)
      BY <1>2 DEF Sound, SoundPlan
    <3> QED BY <1>1, <1>2, <3>1 DEF SoundPlan, ValidPlan
  <2> QED BY <1>1, <2>1 DEF Sound
<1>4. p.startup # 0 => doc.last # 0
  BY <1>2 DEF Sound, startupBusy
<1>5. e.last # 0 => e.last \in Start .. (DayEnd - 1)
  BY <1>1, <1>2, <1>4, WindowsAssumption DEF Sound, Later
<1>6. startupBusy(e) => e.last # 0
  <2>1. startupBusy(e) => startupBusy(doc)
    BY <1>1, <1>2 DEF startupBusy
  <2> QED BY <1>1, <1>2, <2>1 DEF Sound, Later
<1> QED BY <1>3, <1>5, <1>6 DEF Sound, e

\* The end of a job is noted in the file with its time, or not at all.
LEMMA FinishQueue ==
    ASSUME IInv, QInv, NEW j \in jobs, Finish(j)
    PROVE  QInv'
<1>1. up /\ jobs' = jobs \ {j} /\ UNCHANGED <<now, lastQueued, sets>>
  BY Parts DEF Finish, history
<1>2. CASE file' = file /\ Sound(doc')
  <2>1. NoSets => Ordered'
    BY <1>1, <1>2 DEF QInv, NoSets, Ordered, Past, Begun, SentTimely, Knows, Rolled,
                      startupBusy, Apart, MinuteOver
  <2> QED BY <1>1, <1>2, <2>1
       DEF QInv, NoSets, OneBusy, QueuedOn, JobsBusy, Sound, SoundPlan, ValidPlan,
           startupBusy, LastType
<1>3. CASE /\ doc.date = j.day /\ doc.plans[j.key].attempts = j.attempt
           /\ doc.plans[j.key].status = "running"
           /\ doc = file /\ file' = Settled(j) /\ doc' = Settled(j)
  <2> DEFINE e == Settled(j)
             p == file.plans[j.key]
  <2>1. /\ \A k \in Accounts \ {j.key} : e.plans[k] = file.plans[k]
        /\ e.plans[j.key].status \in {"success", "failed"}
        /\ e.last = IF p.startup # 0 /\ now.day = j.day
                    THEN Later(file.last, now.time) ELSE file.last
        /\ e.date = file.date
    BY <1>3, SettledFields
  <2>2. Sound(e)
    BY <1>3, SettledSound DEF QInv
  <2>3. e \in DocType
    BY <1>3, SettledMoves
  <2> HIDE DEF e
  <2>4. file' = e /\ doc' = e
    BY <1>3 DEF e
  <2>5. \A k \in Accounts : QueuedOn(e, k) <=> k # j.key /\ QueuedOn(file, k)
    BY <2>1 DEF QueuedOn
  <2>6. JobsBusy'
    <3> SUFFICES ASSUME NEW i \in jobs, i # j, i.queued, i.day = e.date
                 PROVE  QueuedOn(e, i.key) /\ e.plans[i.key].attempts = i.attempt
      BY <1>1, <2>4 DEF JobsBusy, QueuedOn
    <3>1. QueuedOn(file, i.key) /\ file.plans[i.key].attempts = i.attempt
      BY <2>1 DEF QInv, JobsBusy
    <3>2. i.key # j.key
      <4>1. i.day = j.day
        BY <1>3, <2>1
      <4>2. Request(i) # Request(j)
        BY DEF IInv, OneJob
      <4> QED BY <1>3, <3>1, <4>1, <4>2 DEF Request
    <3> QED BY <2>1, <2>5, <3>1, <3>2, QueueParts
  <2>7. ASSUME NoSets PROVE Ordered'
    <3>1. Ordered
      BY <2>7 DEF QInv
    <3>2. file'.date <= now'.day /\ Past' /\ Begun' /\ SentTimely' /\ Apart'
      BY <1>1, <2>1, <2>4, <3>1 DEF Ordered, Past, Begun, SentTimely, Apart, MinuteOver
    <3>3. Knows(Rolled(e))
      <4>1. CASE file.date # now.day
        <5>1. Rolled(e) = Rolled(file)
          BY <2>1, <4>1 DEF Rolled
        <5> QED BY <3>1, <5>1 DEF Ordered
      <4>2. CASE file.date = now.day
        <5> SUFFICES ASSUME lastQueued.day = now.day
                     PROVE  lastQueued.time <= e.last \/ startupBusy(e)
          BY <2>1, <4>2 DEF Knows, Rolled
        <5>1. /\ lastQueued.time \in Nat /\ lastQueued.time <= now.time
              /\ file.last <= e.last /\ e.last \in Nat
          BY <2>1, <2>3, <3>1, QueueParts
             DEF QInv, LastType, Ordered, Past, Later, DocType
        <5>2. lastQueued.time <= file.last \/ startupBusy(file)
          BY <3>1, <4>2 DEF Ordered, Knows, Rolled
        <5>3. CASE lastQueued.time <= file.last
          BY <5>1, <5>3, QueueParts
        <5>4. CASE startupBusy(file) /\ p.startup # 0
          <6>1. e.last = Later(file.last, now.time)
            BY <1>3, <2>1, <4>2, <5>4
          <6> QED BY <5>1, <6>1, QueueParts DEF Later
        <5>5. CASE startupBusy(file) /\ p.startup = 0
          <6>1. \E k \in Accounts : QueuedOn(file, k) /\ k # j.key
            BY <5>5 DEF startupBusy, QueuedOn
          <6> QED BY <2>5, <6>1 DEF startupBusy, QueuedOn
        <5> QED BY <5>2, <5>3, <5>4, <5>5
      <4> QED BY <4>1, <4>2
    <3>4. Knows(Rolled(file))'
      BY <1>1, <2>4, <3>3 DEF Knows, Rolled, startupBusy
    <3> QED BY <3>2, <3>4 DEF Ordered
  <2>8. Sound(file)' /\ Sound(doc)' /\ OneBusy(file)'
    <3>1. OneBusy(e)
      BY <2>5 DEF QInv, OneBusy
    <3> QED BY <2>2, <2>4, <3>1 DEF Sound, SoundPlan, ValidPlan, startupBusy, OneBusy,
                                    QueuedOn
  <2> QED BY <1>1, <2>6, <2>7, <2>8 DEF QInv, NoSets, LastType
<1>4. CASE UNCHANGED <<doc, file, blocked>>
  <2>1. Sound(doc')
    BY <1>4 DEF QInv, Sound, SoundPlan, ValidPlan, startupBusy
  <2> QED BY <1>2, <1>4, <2>1
<1>5. CASE /\ doc.date = j.day /\ doc.plans[j.key].attempts = j.attempt
           /\ doc.plans[j.key].status = "running"
           /\ doc' = Settled(j) /\ saveLocked
  <2>1. Sound(doc')
    BY <1>5, SettledSound DEF QInv
  <2>2. CASE UNCHANGED file
    BY <1>2, <2>1, <2>2
  <2>3. CASE ~blocked /\ file' = doc'
    <3>1. doc = file
      BY <1>1, <2>3 DEF IInv, Synced
    <3> QED BY <1>3, <1>5, <2>3, <3>1
  <2> QED BY <1>5, <2>2, <2>3 DEF saveLocked
<1> QED BY <1>4, <1>5 DEF Finish

\* An hour goes by: at midnight all that was of today is of yesterday.
LEMMA TickQueue ==
    ASSUME IInv, QInv, Tick
    PROVE  QInv'
<1>1. UNCHANGED <<file, doc, jobs, lastQueued, sets>>
  BY DEF Tick, history
<1>2. /\ \/ now'.day = now.day /\ now'.time = now.time + 1
         \/ now'.day = now.day + 1 /\ now'.time = 0
      /\ now.day \in Nat /\ now.time \in Nat
  <2>1. now \in NowType /\ now.time \in Nat /\ now.day \in Nat
    BY QueueParts
  <2>2. CASE now.time + 1 < DayEnd
    <3>1. now' = [now EXCEPT !.time = @ + 1]
      BY <2>2 DEF Tick
    <3> QED BY <2>1, <3>1 DEF NowType
  <2>3. CASE ~(now.time + 1 < DayEnd)
    <3>1. now' = [day |-> now.day + 1, time |-> 0]
      BY <2>3 DEF Tick
    <3> QED BY <2>1, <3>1
  <2> QED BY <2>1, <2>2, <2>3
<1>3. ASSUME NoSets PROVE Ordered'
  <2>1. Ordered /\ lastQueued.day \in Nat /\ lastQueued.time \in Nat
        /\ Gap \in Nat /\ Start \in Nat /\ Retry \in Nat
    BY <1>3, QueueParts DEF QInv, LastType
  <2>2. \A j \in jobs : j.day \in Nat /\ j.day <= now.day
    BY <2>1, QueueParts DEF Ordered, Begun
  <2>3. \A j \in jobs : j.phase = "sent" => j.day = now.day
    <3>1. \A j \in jobs : j.phase = "sent" => now.day <= j.day
      BY <1>2, <2>2 DEF Tick, InTime
    <3> QED BY <1>2, <2>2, <3>1
  <2>4. CASE now'.day = now.day /\ now'.time = now.time + 1
    <3>1. file'.date <= now'.day /\ Past'
      BY <1>1, <1>2, <2>1, <2>4 DEF Ordered, Past
    <3>2. Begun'
      BY <1>1, <1>2, <2>1, <2>4 DEF Ordered, Begun, Opens
    <3>3. SentTimely'
      BY <1>1, <2>3, <2>4 DEF SentTimely
    <3>4. Knows(Rolled(file))'
      BY <1>1, <2>1, <2>4 DEF Ordered, Knows, Rolled, startupBusy
    <3>5. Apart'
      BY <1>1, <1>2, <2>1, <2>4 DEF Ordered, Apart, MinuteOver
    <3> QED BY <3>1, <3>2, <3>3, <3>4, <3>5 DEF Ordered
  <2>5. CASE now'.day = now.day + 1 /\ now'.time = 0
    <3>1. lastQueued.day # now'.day /\ \A j \in jobs : j.day < now'.day
      BY <1>2, <2>1, <2>2, <2>5 DEF Ordered, Past
    <3>2. file'.date <= now'.day /\ Past'
      BY <1>1, <1>2, <2>1, <2>5, <3>1, QueueParts DEF Ordered, Past
    <3>3. Begun'
      BY <1>1, <1>2, <2>2, <2>5, <3>1 DEF Begun
    <3>4. SentTimely'
      BY <1>1, <2>5 DEF SentTimely
    <3>5. Knows(Rolled(file))'
      BY <1>1, <3>1 DEF Knows
    <3>6. Apart'
      BY <1>1, <1>2, <2>2, <2>5, <3>1 DEF Apart
    <3> QED BY <3>2, <3>3, <3>4, <3>5, <3>6 DEF Ordered
  <2> QED BY <1>2, <2>4, <2>5
<1> QED BY <1>1, <1>3 DEF QInv, NoSets, OneBusy, QueuedOn, JobsBusy, Sound, SoundPlan,
                          ValidPlan, startupBusy, LastType

\* The end of the process ends its requests; a clock set back ends all that is said of
\* the order.
LEMMA WorldQueue ==
    ASSUME IInv, QInv, SetClockBack \/ AccountEvent \/ Crash
    PROVE  QInv'
<1>1. CASE AccountEvent
  <2>1. Sound(doc') /\ UNCHANGED <<file, jobs, now, lastQueued, sets>>
    BY <1>1 DEF AccountEvent, history, QInv, Sound, SoundPlan, ValidPlan, startupBusy
  <2> QED BY <2>1, QueueStays
<1>2. CASE SetClockBack
  <2>1. /\ UNCHANGED <<file, doc, jobs>> /\ sets' = sets + 1
        /\ lastQueued' \in {now', lastQueued}
    BY <1>2 DEF SetClockBack
  <2>2. now' \in NowType
    BY <1>2, WorldInv DEF IInv, TypeOK, NowType
  <2>3. LastType'
    BY <2>1, <2>2 DEF QInv, LastType, NowType
  <2>4. sets' \in Nat /\ ~NoSets'
    BY <2>1 DEF QInv, NoSets
  <2> QED BY <2>1, <2>3, <2>4 DEF QInv, OneBusy, QueuedOn, JobsBusy, Sound, SoundPlan,
                                  ValidPlan, startupBusy
<1>3. CASE Crash
  <2>1. /\ jobs' = {} /\ doc' = Blank(0) /\ UNCHANGED <<now, file, sets>>
        /\ \/ lastQueued' = lastQueued
           \/ lastQueued' = now /\ \E j \in jobs : j.phase = "sent" /\ j.queued
    BY <1>3 DEF Crash
  <2>2. Sound(doc')
    BY <2>1, BlankSound
  <2>3. LastType'
    BY <2>1, QueueParts DEF QInv, LastType, NowType
  <2>4. ASSUME NoSets PROVE Ordered'
    <3>1. Ordered
      BY <2>4 DEF QInv
    <3>2. file'.date <= now'.day /\ Begun' /\ SentTimely' /\ Apart'
      BY <2>1, <3>1 DEF Ordered, Begun, SentTimely, Apart
    <3>3. Past' /\ Knows(Rolled(file))'
      <4>1. CASE lastQueued' = lastQueued
        BY <2>1, <3>1, <4>1 DEF Ordered, Past, Knows, Rolled, startupBusy
      <4>2. CASE lastQueued' = now /\ \E j \in jobs : j.phase = "sent" /\ j.queued
        <5>1. /\ now.time = 0 \/ now.time >= Start
              /\ now.time <= Rolled(file).last \/ startupBusy(Rolled(file))
          BY <2>4, <4>2, EndsNow
        <5>2. Past'
          BY <2>1, <4>2, <5>1, QueueParts DEF Past
        <5>3. Knows(Rolled(file))'
          BY <2>1, <4>2, <5>1 DEF Knows, Rolled, startupBusy
        <5> QED BY <5>2, <5>3
      <4> QED BY <2>1, <4>1, <4>2
    <3> QED BY <3>2, <3>3 DEF Ordered
  <2> QED BY <2>1, <2>2, <2>3, <2>4
       DEF QInv, NoSets, OneBusy, QueuedOn, JobsBusy, Sound, SoundPlan, ValidPlan, startupBusy
<1> QED BY <1>1, <1>2, <1>3

LEMMA InitQueue ==
    Init => QInv
<1> SUFFICES ASSUME Init PROVE QInv
  OBVIOUS
<1>1. /\ file = Blank(0) /\ doc = Blank(0) /\ jobs = {} /\ sets = 0
      /\ lastQueued = [day |-> 0, time |-> 0] /\ now = [day |-> 1, time |-> 0]
  BY DEF Init
<1>2. Sound(file) /\ Sound(doc) /\ OneBusy(file)
  BY <1>1, BlankSound DEF OneBusy, QueuedOn
<1>3. LastType
  BY <1>1, BoundsAssumption, WindowsAssumption DEF LastType
<1>4. Ordered
  BY <1>1 DEF Ordered, Past, Begun, SentTimely, Knows, Apart, Blank
<1> QED BY <1>1, <1>2, <1>3, <1>4 DEF QInv, JobsBusy

\* Every step keeps the queue in order.
LEMMA QueueSteps ==
    ASSUME IInv, QInv, [Next]_vars
    PROVE  QInv'
<1>1. CASE Look
  <2>1. /\ blocked = FALSE /\ doc = file /\ planAndClaim(file, FALSE)
        /\ UNCHANGED <<now, targets, lastQueued, sets>>
    BY <1>1, Parts DEF Look, history, IInv, Synced
  <2> QED BY <2>1, LookQueue
<1>2. CASE Boot
  <2>1. blocked = FALSE /\ jobs = {} /\ UNCHANGED <<now, targets, lastQueued, sets>>
    BY <1>2, Parts DEF Boot, history
  <2>2. CASE planAndClaim(file, TRUE)
    BY <2>1, <2>2, LookQueue
  <2>3. CASE UNCHANGED <<doc, file, jobs, late>>
    <3>1. Sound(doc')
      BY <2>3 DEF QInv, Sound, SoundPlan, ValidPlan, startupBusy
    <3> QED BY <2>1, <2>3, <3>1, QueueStays
  <2> QED BY <1>2, <2>2, <2>3 DEF Boot
<1>3. CASE Tick \/ SetClockBack \/ AccountEvent \/ Crash
  BY <1>3, TickQueue, WorldQueue
<1>4. ASSUME NEW j \in jobs, runJob(j)
      PROVE  QInv'
  <2>1. CASE Send(j)
    <3>1. /\ jobs' = Moved(j, "sent") /\ InTime(j)
          /\ UNCHANGED <<now, file, doc, lastQueued, sets>>
      BY <2>1 DEF Send
    <3>2. NoSets => j.day = now.day
      <4>1. NoSets => j.day <= now.day
        BY DEF QInv, Ordered, Begun
      <4> QED BY <3>1, <4>1, QueueParts DEF InTime
    <3> QED BY <3>1, <3>2, MoveQueue
  <2>2. CASE Skip(j) \/ Expire(j)
    <3>1. /\ jobs' = Moved(j, "skipped") \/ jobs' = Moved(j, "failed")
          /\ UNCHANGED <<now, file, doc, lastQueued, sets>>
      BY <2>2 DEF Skip, Expire, history
    <3> QED BY <3>1, MoveQueue
  <2>3. CASE Answer(j)
    <3>1. PICK phase \in {"ok", "failed"} : jobs' = Moved(j, phase)
      BY <2>3 DEF Answer
    <3>2. /\ UNCHANGED <<now, file, doc, sets>>
          /\ \/ lastQueued' = lastQueued
             \/ lastQueued' = now /\ j.queued /\ j.phase = "sent"
      BY <2>3 DEF Answer
    <3> QED BY <3>1, <3>2, MoveQueue
  <2>4. CASE Finish(j)
    BY <2>4, FinishQueue
  <2> QED BY <1>4, <2>1, <2>2, <2>3, <2>4 DEF runJob
<1>5. CASE UNCHANGED vars
  <2>1. Sound(doc') /\ UNCHANGED <<file, jobs, now, lastQueued, sets>>
    BY <1>5 DEF vars, history, QInv, Sound, SoundPlan, ValidPlan, startupBusy
  <2> QED BY <2>1, QueueStays
<1> QED BY <1>1, <1>2, <1>3, <1>4, <1>5 DEF Next

\* Only its own goroutine lets a request go.
LEMMA LeavingSends ==
    ASSUME IInv, [Next]_vars, NEW j \in jobs, Leaving(j)
    PROVE  Send(j) /\ j.phase = "claimed"
<1> DEFINE n == [j EXCEPT !.phase = "sent"]
<1>1. j \in JobType /\ jobs \subseteq JobType
  BY Parts
<1>2. n.phase = "sent" /\ Request(n) = Request(j)
  BY <1>1 DEF JobType, Request
<1>3. n \in jobs' /\ j.phase = "claimed"
  BY DEF Leaving
<1> HIDE DEF n
<1>4. n \notin jobs
  BY <1>2, <1>3 DEF IInv, OneJob
<1>5. CASE Look \/ Boot
  <2>1. CASE jobs' = jobs
    BY <1>3, <1>4, <2>1
  <2>2. CASE \E new : jobs' = jobs \cup new /\ Reserves(file, file', new)
    BY <1>2, <1>3, <1>4, <2>2 DEF Reserves
  <2>3. CASE Look /\ ~(jobs' = jobs)
    <3>1. blocked = FALSE /\ doc = file /\ planAndClaim(doc, FALSE)
      BY <2>3, Parts DEF Look, IInv, Synced
    <3> QED BY <2>1, <2>2, <3>1, Parts, LookStep
  <2>4. CASE Boot /\ ~(jobs' = jobs)
    <3>1. blocked = FALSE /\ planAndClaim(file, TRUE)
      BY <2>4, Parts DEF Boot
    <3> QED BY <2>1, <2>2, <3>1, Parts, LookStep
  <2> QED BY <1>5, <2>1, <2>3, <2>4
<1>6. CASE Tick \/ SetClockBack \/ AccountEvent \/ Crash
  BY <1>3, <1>4, <1>6 DEF Tick, SetClockBack, AccountEvent, Crash
<1>7. CASE UNCHANGED vars
  BY <1>3, <1>4, <1>7 DEF vars
<1>8. ASSUME NEW i \in jobs, runJob(i)
      PROVE  Send(j)
  <2>1. ASSUME NEW phase \in {"sent", "ok", "failed", "skipped"}, jobs' = Moved(i, phase)
        PROVE  i = j /\ phase = "sent"
    <3>1. \/ n \in jobs
          \/ /\ n.key = i.key /\ n.day = i.day /\ n.attempt = i.attempt
             /\ n.phase = phase
      BY <1>3, <2>1, MovedJobs
    <3>2. phase = "sent" /\ Request(i) = Request(n)
      BY <1>2, <1>4, <3>1 DEF Request
    <3> QED BY <1>2, <3>2 DEF IInv, OneJob
  <2>2. CASE Send(i)
    BY <2>1, <2>2 DEF Send
  <2>3. CASE Skip(i) \/ Expire(i) \/ Answer(i)
    <3>1. \E phase \in {"ok", "failed", "skipped"} : jobs' = Moved(i, phase)
      BY <2>3 DEF Skip, Expire, Answer
    <3> QED BY <2>1, <3>1
  <2>4. CASE Finish(i)
    BY <1>3, <1>4, <2>4 DEF Finish
  <2> QED BY <1>8, <2>2, <2>3, <2>4 DEF runJob
<1> QED BY <1>3, <1>5, <1>6, <1>7, <1>8 DEF Next

LEMMA QueueInductive ==
    Spec => [](IInv /\ QInv)
<1>1. Init => IInv /\ QInv
  BY Initially, InitQueue
<1>2. (IInv /\ QInv) /\ [Next]_vars => (IInv /\ QInv)'
  BY Steps, QueueSteps
<1> QED BY <1>1, <1>2, PTL DEF Spec

-----------------------------------------------------------------------------
(* What a start can read, and when requests leave *)

\* What the scheduler writes, the next start can read: through recoveries, claims,
\* ends of jobs, at any reading of the clock.
THEOREM StateLoads ==
    Spec => []SavedStateLoads
<1>1. QInv => SavedStateLoads
  BY SoundIsValid DEF QInv, SavedStateLoads
<1> QED BY <1>1, QueueInductive, PTL

\* A request of the start-up queue leaves alone, and a minute after the one before, in
\* this process or in one that died.
THEOREM SpacedApart ==
    Spec => SpacedOut
<1>1. (IInv /\ QInv) /\ [Next]_vars =>
        [\A j \in jobs : sets = 0 /\ Leaving(j) /\ j.queued =>
            /\ \A i \in jobs : ~(i.queued /\ i.phase = "sent")
            /\ lastQueued.day = now.day => lastQueued.time + Gap <= now.time]_vars
  <2> SUFFICES ASSUME IInv, QInv, [Next]_vars, NEW j \in jobs, sets = 0, Leaving(j), j.queued
               PROVE  /\ \A i \in jobs : ~(i.queued /\ i.phase = "sent")
                      /\ lastQueued.day = now.day => lastQueued.time + Gap <= now.time
    OBVIOUS
  <2>1. Ordered
    BY DEF QInv, NoSets
  <2>2. InTime(j) /\ j.phase = "claimed"
    BY LeavingSends DEF Send
  <2>3. j.day = now.day
    BY <2>1, <2>2, QueueParts DEF Ordered, Begun, InTime
  <2>4. MinuteOver
    BY <2>1, <2>2, <2>3 DEF Ordered, Apart
  <2>5. now.time # 0 /\ file.date = now.day
    BY <2>1, <2>3, QueueParts, FileOfToday DEF Ordered, Begun
  <2>6. ASSUME NEW i \in jobs, i.queued, i.phase = "sent" PROVE FALSE
    <3>1. i.day = now.day
      BY <2>1, <2>5, <2>6 DEF Ordered, SentTimely
    <3>2. i = j
      BY <2>3, <2>5, <2>6, <3>1, AloneInQueue
    <3> QED BY <2>2, <2>6, <3>2
  <2> QED BY <2>4, <2>6 DEF MinuteOver
<1> QED BY <1>1, QueueInductive, PTL DEF Spec, SpacedOut

\* A request leaves on its day and inside its window, however long its goroutine waited.
THEOREM WindowsHold ==
    Spec => WindowsKept
<1>1. (IInv /\ QInv) /\ [Next]_vars =>
        [\A j \in jobs : sets = 0 /\ Leaving(j) =>
            /\ now.day = j.day
            /\ now.time \in IF j.attempt = 2 THEN Retry .. (End - 1)
                            ELSE IF j.queued THEN Start .. (DayEnd - 1)
                            ELSE Start .. (Retry - 1)]_vars
  <2> SUFFICES ASSUME IInv, QInv, [Next]_vars, NEW j \in jobs, sets = 0, Leaving(j)
               PROVE  /\ now.day = j.day
                      /\ now.time \in IF j.attempt = 2 THEN Retry .. (End - 1)
                                      ELSE IF j.queued THEN Start .. (DayEnd - 1)
                                      ELSE Start .. (Retry - 1)
    OBVIOUS
  <2>1. Ordered
    BY DEF QInv, NoSets
  <2>2. InTime(j)
    BY LeavingSends DEF Send
  <2>3. j.day = now.day /\ now.time < Until(j)
    BY <2>1, <2>2, QueueParts DEF Ordered, Begun, InTime
  <2>4. now.time >= Opens(j.attempt)
    BY <2>1, <2>3 DEF Ordered, Begun
  <2> QED BY <2>3, <2>4, QueueParts DEF Opens, Until
<1> QED BY <1>1, QueueInductive, PTL DEF Spec, WindowsKept
=============================================================================
