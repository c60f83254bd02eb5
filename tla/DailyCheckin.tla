----------------------------- MODULE DailyCheckin -----------------------------
(***************************************************************************)
(* The daily check-in (checkin.go): one document per day, kept on disk,    *)
(* with a plan for every account; a scheduler that looks at it every       *)
(* second, reserves the attempts that are due, saves, and only then lets   *)
(* the requests go; and the requests, each in a goroutine of its own.  The *)
(* process may die at any step and start again, any save may fail, and the *)
(* clock may be set back.                                                  *)
(*                                                                         *)
(* The clock reads [day, time].  Every time in the document is a time of   *)
(* the document's day, 0 where the code has none.  An account is the       *)
(* hashed identity its plan is filed under; of a pool that holds it twice  *)
(* the first entry counts.  Accounts are numbered in the pool's order.     *)
(***************************************************************************)
EXTENDS Integers, FiniteSets

CONSTANTS
    Accounts,       \* a finite set of numbers
    Start, Retry, End, DayEnd,  \* 08:00, 09:30, 10:00 and 24:00
    Gap,            \* one minute
    MaxDay, MaxTime,            \* bound: where the clock stops
    MaxCrashes,     \* bound: deaths of the process
    MaxSets         \* bound: times the clock is set back

ASSUME AccountsAssumption == Accounts \subseteq Nat /\ IsFiniteSet(Accounts)
ASSUME WindowsAssumption ==
    /\ {Start, Retry, End, DayEnd, Gap} \subseteq Nat \ {0}
    /\ Gap <= Start /\ Start < Retry /\ Retry < End /\ End < DayEnd
ASSUME BoundsAssumption ==
    /\ {MaxDay, MaxTime, MaxCrashes, MaxSets} \subseteq Nat
    /\ MaxDay > 0 /\ MaxTime < DayEnd

VARIABLES
    now,            \* the clock
    targets,        \* the eligible accounts of the pool
    file,           \* checkin-state.json; day 0: there is none
    up,             \* the process runs
    doc, blocked,   \* the scheduler's document, and whether it has given up
    jobs,           \* the goroutines of runJob
    sent,           \* history: [key, day, attempt] of every request sent
    lastQueued,     \* history: when the last start-up request ended
    late,           \* history: accounts out of the pool at a look past their time
    crashes, sets   \* counters of the bounds

history == <<sent, lastQueued>>
vars == <<now, targets, file, up, doc, blocked, jobs, history, late, crashes, sets>>

Later(a, b) == IF a < b THEN b ELSE a
Latest(S) == CHOOSE a \in S : \A b \in S : b <= a

Statuses == {"none", "pending", "running", "success", "failed", "missed"}
NoPlan == [status |-> "none", attempts |-> 0, first |-> 0, retry |-> 0,
           startup |-> 0, retryEnd |-> FALSE]
Blank(day) == [date |-> day, plans |-> [k \in Accounts |-> NoPlan], last |-> 0]

FirstTimesInclusive == Start .. Retry               \* Mutant: both ends included
FirstTimes == Start .. (Retry - 1)

RetryTimes == Retry .. (End - 1)

\* What loadLocked accepts.
ValidPlan(p) ==
    /\ p.attempts \in 0 .. 2
    /\ p.first >= Start /\ p.first < Retry /\ p.retry >= Retry /\ p.retry < End
    /\ p.startup # 0 => p.startup \in Start .. (DayEnd - 1)
    /\ p.status = "success" => p.attempts # 0
ValidDoc(d) ==
    d.date # 0 =>
        /\ d.last # 0 => d.last \in Start .. (DayEnd - 1)
        /\ \A k \in Accounts : d.plans[k].status # "none" => ValidPlan(d.plans[k])

Init ==
    /\ now = [day |-> 1, time |-> 0] /\ targets = Accounts
    /\ file = Blank(0) /\ up = FALSE /\ doc = Blank(0) /\ blocked = FALSE
    /\ jobs = {} /\ sent = {} /\ lastQueued = [day |-> 0, time |-> 0]
    /\ late = {} /\ crashes = 0 /\ sets = 0

-----------------------------------------------------------------------------
(* planAndClaim, step by step *)

Rolled(d) == IF d.date = now.day THEN d ELSE Blank(now.day)

Interrupted(p) == [p EXCEPT !.status = "failed",
                            !.retryEnd = IF p.attempts = 2 THEN TRUE ELSE @]

\* Mutant: only the accounts in the pool are recovered.
RecoveredInPool(d, boot) ==
    [d EXCEPT !.plans = [k \in Accounts |->
        IF k \in targets /\ boot /\ d.plans[k].status = "running"
        THEN Interrupted(d.plans[k]) ELSE d.plans[k]]]

\* A start finds what the last process was doing: nobody knows how it ended.
Recovered(d, boot) ==
    LET cut == {k \in Accounts : boot /\ d.plans[k].status = "running"}
    IN [d EXCEPT
        !.plans = [k \in Accounts |->
            IF k \in cut THEN Interrupted(d.plans[k]) ELSE d.plans[k]],
        !.last = IF now.time >= Start /\ \E k \in cut : d.plans[k].startup # 0
                 THEN Later(@, now.time) ELSE @]

startupDue(d, p) == Later(p.startup, d.last + Gap)

NewPlan(first, retry, boot) ==
    [NoPlan EXCEPT !.first = first, !.retry = retry,
                   !.status = IF first <= now.time /\ ~(boot /\ now.time >= Start)
                              THEN "missed" ELSE "pending"]

RetryOver(d, p, boot) ==
    /\ p.status = "failed" /\ p.attempts = 1
    /\ \/ now.time >= End
       \/ boot /\ p.retry <= now.time
       \/ p.startup # 0 /\ Later(p.retry, startupDue(d, p)) >= End

FirstOver(d, p, boot) ==
    /\ p.status = "pending"
    /\ \/ p.startup = 0 /\ now.time >= Retry /\ ~boot
       \/ p.startup # 0 /\ startupDue(d, p) >= DayEnd

Reviewed(d, p, boot) ==
    [p EXCEPT !.retryEnd = IF RetryOver(d, p, boot) THEN TRUE ELSE @,
              !.status = IF FirstOver(d, p, boot) THEN "missed" ELSE @]

Fresh(d) == {k \in targets : d.plans[k].status = "none"}

Planned(d, first, retry, boot) ==
    [d EXCEPT !.plans = [k \in Accounts |->
        IF k \notin targets THEN d.plans[k]
        ELSE IF k \notin Fresh(d) THEN Reviewed(d, d.plans[k], boot)
        ELSE Reviewed(d, NewPlan(first[k], retry[k], boot), boot)]]

Waiting(d) == {k \in targets : d.plans[k].status = "pending" /\ d.plans[k].attempts = 0}

\* Who is ahead of k in the queue: those queued by an earlier start in their
\* order, then the others in the pool's.
Ahead(d, k) ==
    LET Less(i, j) == /\ d.plans[i].startup # 0
                      /\ d.plans[j].startup = 0 \/ d.plans[i].startup < d.plans[j].startup
    IN {j \in Waiting(d) : Less(j, k) \/ (~Less(k, j) /\ j < k)}

\* Each gets the first slot a minute after the one ahead, and never an earlier
\* one than it had.
QueueTime(d, k) ==
    LET place(j) == Cardinality(Ahead(d, j)) IN
    Latest({Later(now.time, d.last + Gap) + Gap * place(k)} \cup
           {d.plans[j].startup + Gap * (place(k) - place(j)) : j \in Ahead(d, k) \cup {k}})

queueStartup(d) ==
    [d EXCEPT !.plans = [k \in Accounts |->
        IF k \notin Waiting(d) THEN d.plans[k]
        ELSE IF QueueTime(d, k) \in Start .. (DayEnd - 1)
        THEN [d.plans[k] EXCEPT !.startup = QueueTime(d, k)]
        ELSE [d.plans[k] EXCEPT !.status = "missed"]]]

\* The document before anything is claimed.
Prepared(d, first, retry, boot) ==
    LET p == Planned(Recovered(Rolled(d), boot), first, retry, boot)
    IN IF boot /\ now.time >= Start THEN queueStartup(p) ELSE p

StartupDue(d, p) ==
    /\ p.status = "pending" /\ p.attempts = 0 /\ p.startup # 0
    /\ now.time >= Start /\ now.time < DayEnd /\ startupDue(d, p) <= now.time
FirstDue(p, boot) ==
    /\ ~boot /\ p.status = "pending" /\ p.attempts = 0 /\ p.startup = 0
    /\ now.time >= Start /\ now.time < Retry /\ p.first <= now.time
\* Mutant: whatever became of the first attempt, there is a second.
RetryDueAnyway(d, p, boot) ==
    /\ ~boot /\ p.attempts = 1 /\ ~p.retryEnd
    /\ now.time >= Retry /\ now.time < End /\ p.retry <= now.time
    /\ p.startup # 0 => startupDue(d, p) <= now.time

RetryDue(d, p, boot) ==
    /\ ~boot /\ p.status = "failed" /\ p.attempts = 1 /\ ~p.retryEnd
    /\ now.time >= Retry /\ now.time < End /\ p.retry <= now.time
    /\ p.startup # 0 => startupDue(d, p) <= now.time

startupBusy(d) ==
    \E k \in Accounts : d.plans[k].startup # 0 /\ d.plans[k].status = "running"

\* The attempts reserved by one look: all that are due, but of the start-up
\* queue only the first, and none while one is under way.
Claimed(d, boot) ==
    LET due == {k \in targets : \/ StartupDue(d, d.plans[k])
                                \/ FirstDue(d.plans[k], boot)
                                \/ RetryDue(d, d.plans[k], boot)}
        queued == {k \in due : d.plans[k].startup # 0}
    IN {k \in due : k \in queued => ~startupBusy(d) /\ \A j \in queued : k <= j}

AttemptOf(p) == IF p.status = "pending" THEN 1 ELSE 2

Claim(d, claimed) ==
    [d EXCEPT
        !.plans = [k \in Accounts |->
            IF k \in claimed
            THEN [d.plans[k] EXCEPT !.attempts = AttemptOf(d.plans[k]), !.status = "running"]
            ELSE d.plans[k]],
        !.last = IF \E k \in claimed : d.plans[k].startup # 0 THEN now.time ELSE @]

Job(d, k) == [key |-> k, day |-> d.date, attempt |-> AttemptOf(d.plans[k]),
              queued |-> d.plans[k].startup # 0, phase |-> "claimed"]

\* Mutant: the requests go although the save failed.
ReserveUnsaved(from, to, new) ==
    \/ to = from /\ UNCHANGED <<file, blocked, jobs>>
    \/ to # from /\ file' = to /\ jobs' = jobs \cup new /\ UNCHANGED blocked
    \/ to # from /\ blocked' = TRUE /\ jobs' = jobs \cup new /\ UNCHANGED file

\* Nothing changed, saved, or not saved: then nothing is let go, ever again.
Reserve(from, to, new) ==
    \/ to = from /\ UNCHANGED <<file, blocked, jobs>>
    \/ to # from /\ file' = to /\ jobs' = jobs \cup new /\ UNCHANGED blocked
    \/ to # from /\ blocked' = TRUE /\ UNCHANGED <<file, jobs>>

StillLate(d) ==
    {k \in Accounts \ targets : /\ d.plans[k].status = "pending" /\ d.plans[k].startup = 0
                                /\ d.plans[k].first <= now.time}

planAndClaim(from, boot) ==
    \/ /\ from.date > now.day
       /\ blocked' = TRUE /\ doc' = from /\ UNCHANGED <<file, jobs, late>>
    \/ /\ from.date <= now.day /\ Fresh(Rolled(from)) # {}      \* s.random fails
       /\ blocked' = TRUE /\ doc' = Recovered(Rolled(from), boot)
       /\ UNCHANGED <<file, jobs, late>>
    \/ /\ from.date <= now.day
       /\ \E first \in [Fresh(Rolled(from)) -> FirstTimes],
             retry \in [Fresh(Rolled(from)) -> RetryTimes] :
            LET d == Prepared(from, first, retry, boot)
                claimed == Claimed(d, boot)
            IN /\ doc' = Claim(d, claimed)
               /\ Reserve(from, doc', {Job(d, k) : k \in claimed})
               /\ late' = (IF from.date = now.day THEN late ELSE {}) \cup StillLate(d)

\* The tick of run, once a second.
Look ==
    /\ up /\ ~blocked
    /\ planAndClaim(doc, FALSE)
    /\ UNCHANGED <<now, targets, up, history, crashes, sets>>

\* loadLocked, then the first look.
Boot ==
    /\ ~up /\ up' = TRUE
    /\ \/ blocked' = TRUE /\ UNCHANGED <<doc, file, jobs, late>>    \* unreadable, or refused
       \/ ValidDoc(file) /\ planAndClaim(file, TRUE)
    /\ UNCHANGED <<now, targets, history, crashes, sets>>

-----------------------------------------------------------------------------
(* runJob *)

Until(j) == IF j.attempt = 2 THEN End ELSE IF j.queued THEN DayEnd ELSE Retry
InTime(j) == now.day < j.day \/ (now.day = j.day /\ now.time < Until(j))
Moved(j, phase) == (jobs \ {j}) \cup {[j EXCEPT !.phase = phase]}
Request(j) == [key |-> j.key, day |-> j.day, attempt |-> j.attempt]

\* Mutant: the deadline is not looked at again.
SendLate(j) ==
    /\ j.phase = "claimed" /\ j.key \in targets
    /\ jobs' = Moved(j, "sent") /\ sent' = sent \cup {Request(j)}
    /\ UNCHANGED <<now, targets, file, up, doc, blocked, lastQueued, late, crashes, sets>>

\* checkinAccountWithTrace sends, once.
Send(j) ==
    /\ j.phase = "claimed" /\ InTime(j) /\ j.key \in targets
    /\ jobs' = Moved(j, "sent") /\ sent' = sent \cup {Request(j)}
    /\ UNCHANGED <<now, targets, file, up, doc, blocked, lastQueued, late, crashes, sets>>

\* The account is no longer eligible, or its credential is another person's.
Skip(j) ==
    /\ j.phase = "claimed" /\ InTime(j) /\ jobs' = Moved(j, "skipped")
    /\ UNCHANGED <<now, targets, file, up, doc, blocked, history, late, crashes, sets>>

\* The deadline has passed, the credential stayed locked, or the process stops.
Expire(j) ==
    /\ j.phase = "claimed" /\ jobs' = Moved(j, "failed")
    /\ UNCHANGED <<now, targets, file, up, doc, blocked, history, late, crashes, sets>>

\* The answer, or none before the deadline.
Answer(j) ==
    /\ j.phase = "sent"
    /\ \E phase \in {"ok", "failed"} : jobs' = Moved(j, phase)
    /\ lastQueued' = IF j.queued THEN now ELSE lastQueued
    /\ UNCHANGED <<now, targets, file, up, doc, blocked, sent, late, crashes, sets>>

Ended(j, p) ==
    [p EXCEPT !.status = IF j.phase = "ok" THEN "success" ELSE "failed",
              !.retryEnd = IF j.phase # "ok" /\ (j.attempt = 2 \/ now.time >= End)
                           THEN TRUE ELSE @]

\* Mutant: the minute runs from the claim, not from the end.
SettledUntimed(j) == [doc EXCEPT !.plans = [doc.plans EXCEPT ![j.key] = Ended(j, @)]]

Settled(j) ==
    [doc EXCEPT
        !.plans = [doc.plans EXCEPT ![j.key] = Ended(j, @)],
        !.last = IF doc.plans[j.key].startup # 0 /\ now.day = j.day
                 THEN Later(@, now.time) ELSE @]

saveLocked ==
    \/ file' = (IF blocked THEN file ELSE doc') /\ UNCHANGED blocked
    \/ ~blocked /\ blocked' = TRUE /\ UNCHANGED file

Finish(j) ==
    /\ j.phase \in {"ok", "failed", "skipped"} /\ jobs' = jobs \ {j}
    /\ IF /\ doc.date = j.day /\ doc.plans[j.key].attempts = j.attempt
          /\ doc.plans[j.key].status = "running"
       THEN doc' = Settled(j) /\ saveLocked
       ELSE UNCHANGED <<doc, file, blocked>>
    /\ UNCHANGED <<now, targets, up, history, late, crashes, sets>>

runJob(j) == Send(j) \/ Skip(j) \/ Expire(j) \/ Answer(j) \/ Finish(j)

-----------------------------------------------------------------------------
(* The world *)

\* A request ends at its deadline, when its context does.
Tick ==
    /\ now.day < MaxDay \/ now.time < MaxTime
    /\ \A j \in jobs : j.phase = "sent" => InTime(j)
    /\ now' = IF now.time + 1 < DayEnd THEN [now EXCEPT !.time = @ + 1]
              ELSE [day |-> now.day + 1, time |-> 0]
    /\ UNCHANGED <<targets, file, up, doc, blocked, jobs, history, late, crashes, sets>>

\* What was over stays over: the history is kept in the new reading.
SetClockBack ==
    /\ sets < MaxSets /\ sets' = sets + 1
    /\ \E d \in 1 .. now.day, t \in 0 .. (DayEnd - 1) :
        /\ d < now.day \/ t < now.time
        /\ now' = [day |-> d, time |-> t]
    /\ lastQueued' = IF \/ lastQueued.day > now'.day
                        \/ lastQueued.day = now'.day /\ lastQueued.time > now'.time
                     THEN now' ELSE lastQueued
    /\ UNCHANGED <<targets, file, up, doc, blocked, jobs, sent, late, crashes>>

\* Accounts are added, removed, disabled, enabled, logged in.
AccountEvent ==
    /\ targets' \in SUBSET Accounts
    /\ UNCHANGED <<now, file, up, doc, blocked, jobs, history, late, crashes, sets>>

Crash ==
    /\ up /\ crashes < MaxCrashes /\ crashes' = crashes + 1
    /\ up' = FALSE /\ jobs' = {} /\ doc' = Blank(0) /\ blocked' = FALSE
    /\ lastQueued' = IF \E j \in jobs : j.phase = "sent" /\ j.queued THEN now ELSE lastQueued
    /\ UNCHANGED <<now, targets, file, sent, late, sets>>

Next ==
    \/ Look \/ Boot \/ Tick \/ SetClockBack \/ AccountEvent \/ Crash
    \/ \E j \in jobs : runJob(j)

Spec == Init /\ [][Next]_vars

\* Goroutines run, and every request ends.
FairSpec ==
    Spec /\ \A k \in Accounts : WF_vars(\E j \in jobs : j.key = k /\ runJob(j))

-----------------------------------------------------------------------------
(* Properties *)

PlanType == [status : Statuses, attempts : 0 .. 2, first : 0 .. DayEnd, retry : 0 .. DayEnd,
             startup : 0 .. (DayEnd - 1), retryEnd : BOOLEAN]
DocType == [date : 0 .. MaxDay, plans : [Accounts -> PlanType], last : 0 .. (DayEnd - 1)]

\* The documents (checkinDocument), the jobs (checkinJob) and the clock keep
\* their types, and a process that is not there holds nothing.
TypeOK ==
    /\ now \in [day : 1 .. MaxDay, time : 0 .. (DayEnd - 1)]
    /\ targets \subseteq Accounts /\ late \subseteq Accounts
    /\ file \in DocType /\ doc \in DocType /\ {up, blocked} \subseteq BOOLEAN
    /\ jobs \subseteq [key : Accounts, day : 1 .. MaxDay, attempt : 1 .. 2, queued : BOOLEAN,
                       phase : {"claimed", "sent", "ok", "failed", "skipped"}]
    /\ ~up => jobs = {} /\ doc = Blank(0) /\ ~blocked

Leaving(j) == j.phase = "claimed" /\ j \in jobs /\ [j EXCEPT !.phase = "sent"] \in jobs'

\* user-guide:801-807: an attempt is used up when it is reserved, so no crash,
\* failed save, clock set back or account event makes the same attempt of a day
\* go out twice: two requests a day at most.
AttemptSentOnce == [][\A j \in jobs : Leaving(j) => Request(j) \notin sent]_vars

\* user-guide:803: whatever was sent is on disk as used up, in the document of
\* its day or under a later one.
SentIsOnDisk ==
    \A r \in sent : \/ file.date > r.day
                    \/ file.date = r.day /\ file.plans[r.key].attempts >= r.attempt

\* user-guide:801-802: neither a restart nor an account event gives an attempt
\* back, and an account that is done for the day, or has missed it, stays so.
NothingTakenBack ==
    [][/\ file'.date >= file.date
       /\ \A k \in Accounts : file'.date = file.date =>
            /\ file'.plans[k].attempts >= file.plans[k].attempts
            /\ file.plans[k].status \in {"success", "missed"} =>
                    file'.plans[k] = file.plans[k]]_vars

\* user-guide:804-806: a request of the start-up queue goes out alone, and at
\* least a minute after the end of the one before, whatever restarts lie between.
\* (As long as the clock is not set back.)
SpacedOut ==
    [][\A j \in jobs : sets = 0 /\ Leaving(j) /\ j.queued =>
        /\ \A i \in jobs : ~(i.queued /\ i.phase = "sent")
        /\ lastQueued.day = now.day => lastQueued.time + Gap <= now.time]_vars

\* user-guide:88: requests leave on their day and inside their window, however
\* long the goroutine waited for the credential.  (As long as the clock
\* is not set back.)
WindowsKept ==
    [][\A j \in jobs : sets = 0 /\ Leaving(j) =>
        /\ now.day = j.day
        /\ now.time \in IF j.attempt = 2 THEN Retry .. (End - 1)
                        ELSE IF j.queued THEN Start .. (DayEnd - 1)
                        ELSE Start .. (Retry - 1)]_vars

\* The scheduler never writes a document that loadLocked refuses: that would
\* stop the check-in until someone mends the file by hand.
SavedStateLoads == ValidDoc(file)

\* No plan stays "running": not after a crash, not for an account that has left
\* the pool, where it would also hold up the start-up queue (startupBusyLocked).
\* A scheduler that has given up shows no plan at all.
RunningSettles ==
    \A k \in Accounts :
        up /\ ~blocked /\ doc.plans[k].status = "running" ~>
            blocked \/ doc.plans[k].status # "running"

\* checkin.go:301 and the log of run: account events do not trigger a request
\* for a planned time that has passed.
NoCatchUpByEvent ==
    [][\A j \in jobs' \ jobs :
        j.phase = "claimed" /\ j.attempt = 1 /\ ~j.queued => j.key \notin late]_vars

\* user-guide:802: what was not executed is not shown as a failed check-in.
SkippedIsNotFailed ==
    [][\A j \in jobs : j.phase = "skipped" /\ j \notin jobs' =>
        (up' /\ doc'.date = j.day => doc'.plans[j.key].status # "failed")]_vars
=============================================================================
