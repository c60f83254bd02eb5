------------------------------ MODULE Statistics ------------------------------
(***************************************************************************)
(* The optional statistics (stats.go, modelstats.go): one row for every    *)
(* upstream call of an account and, per account, what is known of the      *)
(* model; both in one document in memory that a loop writes to stats.json  *)
(* every five seconds and once more when the process stops.  The rows are  *)
(* filled from the attempt that travels with a request; the ledgers are    *)
(* filed under a digest of file, site, user and enterprise, and are also   *)
(* in the status snapshot, there under the file alone.                     *)
(*                                                                         *)
(* One model; an identity is an account of the pool and the user in its    *)
(* file.  A request is used once.  Tokens, credits and durations are left  *)
(* out of a row; its time is an hour, for the queries of the console.      *)
(***************************************************************************)
EXTENDS Integers, Sequences, FiniteSets, SequencesExt

CONSTANTS
    Requests, Accounts, Users,
    NoCall, NoLedger, NoFile, BadFile,
    HoursPerDay, DaysPerWeek, Monday,   \* Monday: the number of one
    MonthStarts,    \* the days that begin a month
    Credits,        \* what a call may say it cost: none, zero, some
    ShownDays,      \* the days a range of the console begins and ends on
    MaxBuckets,     \* 800
    MaxRows,        \* 64 MiB
    FirstHour, MaxHour,     \* bound: where the clock starts and stops
    MaxLogins,      \* bound: accounts replaced by another
    MaxStops        \* bound: ends of the process

ASSUME CalendarAssumption ==
    /\ {HoursPerDay, DaysPerWeek, MaxBuckets, MaxRows} \subseteq Nat \ {0}
    /\ MonthStarts \subseteq Int /\ ShownDays \subseteq Int /\ Monday \in Int
    /\ \A day \in ShownDays : \E m, next \in MonthStarts : m <= day /\ day < next

Identities == Accounts \X Users

\* What is known of a model on an account (acc.ModelStates).
Ledgers == [class : {"unknown", "free", "paid"}, blocked : BOOLEAN]

ASSUME DataAssumption ==
    /\ IsFiniteSet(Accounts) /\ IsFiniteSet(Users) /\ Users # {}
    /\ NoCall \notin Requests \X Nat /\ NoLedger \notin Ledgers
    /\ FirstHour \in Int /\ Credits \subseteq {"none", "zero", "some"}

VARIABLES
    clock,
    user,       \* whose credential an account's file holds
    ledger,     \* acc.ModelStates of the model
    snapshot,   \* the ledgers in the status snapshot
    up,         \* the process: down, up, draining, stopping
    pc, locals, \* where a request's handler is, and its local variables
    attempt,    \* *statsAttempt of a request
    document, revision, saved, mode, blocked,           \* requestStats
    flusher,    \* the call of flushOptionalStats under way
    file,       \* stats.json
    calls,      \* history: the upstream calls of a request, in order
    refused,    \* history: identities refused for their quota
    logins, stops   \* counters of the bounds

handler == <<pc, locals>>
stats == <<document, revision, saved, mode, blocked>>
history == <<calls, refused>>
bounds == <<logins, stops>>
vars == <<clock, user, ledger, snapshot, up, handler, attempt, stats, flusher,
          file, history, bounds>>

statsAccountID(a) == <<a, user[a]>>

NewLedger == [class |-> "unknown", blocked |-> FALSE]
NewDocument == [accounts |-> [id \in Identities |-> NoLedger], requests |-> <<>>]
NoFlush == [step |-> "idle", raw |-> NewDocument, revision |-> 0, final |-> FALSE]
NoLocals == [tried |-> {}, chosen |-> NoCall, replayed |-> FALSE, firstToken |-> FALSE,
             status |-> "ok"]
NoAttempt == [call |-> NoCall, account |-> NoCall, complete |-> FALSE, ttft |-> FALSE]

-----------------------------------------------------------------------------
(* The document. *)

\* Mutant: the account is taken for granted.
addRowOnly(row) ==
    /\ document' = [document EXCEPT !.requests = Append(@, row)]
    /\ revision' = revision + 1

addRow(row) ==
    /\ document' = [accounts |-> IF document.accounts[row.account] = NoLedger
                                 THEN [document.accounts EXCEPT ![row.account] = NewLedger]
                                 ELSE document.accounts,
                    requests |-> Append(document.requests, row)]
    /\ revision' = revision + 1

\* Mutant: the attempt stays on the request.
statsFinishAttemptKept(r, code) ==
    IF attempt[r].call = NoCall
    THEN UNCHANGED <<document, revision, attempt>>
    ELSE /\ addRow([call |-> attempt[r].call, account |-> attempt[r].account,
                    at |-> clock, status |-> code,
                    complete |-> attempt[r].complete /\ code = "ok",
                    ttft |-> attempt[r].ttft])
         /\ UNCHANGED attempt

statsFinishAttempt(r, code) ==
    IF attempt[r].call = NoCall
    THEN UNCHANGED <<document, revision, attempt>>
    ELSE /\ addRow([call |-> attempt[r].call, account |-> attempt[r].account,
                    at |-> clock, status |-> code,
                    complete |-> attempt[r].complete /\ code = "ok",
                    ttft |-> attempt[r].ttft])
         /\ attempt' = [attempt EXCEPT ![r] = NoAttempt]

\* What the document would say of the pool, and how many entries that changes.
Captured(l) ==
    [id \in Identities |->
        IF user[id[1]] = id[2] THEN l[id[1]] ELSE document.accounts[id]]
captureAccountStats(l) ==
    LET new == Captured(l) IN
    /\ document' = [document EXCEPT !.accounts = new]
    /\ revision' = revision
           + Cardinality({id \in Identities : new[id] # document.accounts[id]})

\* The snapshot is written from one look at the pool, and the document with it.
writeStatusSnapshot(l) ==
    /\ ledger' = l
    /\ snapshot' = l
    /\ captureAccountStats(l)

validStatsDocument(doc) ==
    \A i \in DOMAIN doc.requests : doc.accounts[doc.requests[i].account] # NoLedger

-----------------------------------------------------------------------------
(* The process, its files and its pool. *)

\* A block for quota with a price learnt from usage.credit looks like what an
\* old version wrote: the price is forgotten.
sanitizeRestoredModelState(l) ==
    IF l.blocked /\ l.class = "paid" THEN [l EXCEPT !.class = "unknown"] ELSE l

Init ==
    /\ clock = FirstHour
    /\ user = [a \in Accounts |-> CHOOSE u \in Users : TRUE]
    /\ ledger = [a \in Accounts |-> NewLedger]
    /\ snapshot = [a \in Accounts |-> NoLedger]
    /\ up = "down"
    /\ pc = [r \in Requests |-> "new"]
    /\ locals = [r \in Requests |-> NoLocals]
    /\ attempt = [r \in Requests |-> NoAttempt]
    /\ document = NewDocument /\ revision = 0 /\ saved = 0
    /\ mode = "pending" /\ blocked = FALSE
    /\ flusher = NoFlush
    /\ file \in {NoFile, BadFile}
    /\ calls = [r \in Requests |-> <<>>]
    /\ refused = {}
    /\ logins = 0 /\ stops = 0

\* A file that is there and cannot be used is left as it is, for good.
loadOptionalStats(f) ==
    LET usable == f \notin {NoFile, BadFile} /\ validStatsDocument(f) IN
    /\ document' = IF usable THEN f ELSE NewDocument
    /\ blocked' = (f # NoFile /\ ~usable)
    /\ mode' = IF usable THEN "file" ELSE IF f = NoFile THEN "pending" ELSE "memory"
    /\ revision' = 0
    /\ saved' = 0

\* The snapshot first, by file; then the document, by identity.
loadAccounts(doc) ==
    ledger' = [a \in Accounts |->
        LET known == doc.accounts[statsAccountID(a)] IN
        IF known # NoLedger THEN sanitizeRestoredModelState(known)
        ELSE IF snapshot[a] # NoLedger THEN sanitizeRestoredModelState(snapshot[a])
        ELSE NewLedger]

Start ==
    /\ up = "down"
    /\ up' = "up"
    /\ loadOptionalStats(file)
    /\ loadAccounts(document')
    /\ UNCHANGED <<clock, user, snapshot, handler, attempt, flusher, file, history, bounds>>

Running == up # "down"

\* The process dies: what is not in a file is gone.
Die ==
    /\ up' = "down"
    /\ stops' = stops + 1
    /\ pc' = [r \in Requests |-> IF pc[r] = "new" THEN "new" ELSE "gone"]
    /\ attempt' = [r \in Requests |-> NoAttempt]
    /\ locals' = [r \in Requests |-> NoLocals]
    /\ calls' = [r \in Requests |-> <<>>]
    /\ flusher' = NoFlush
    /\ document' = NewDocument /\ revision' = 0 /\ saved' = 0
    /\ mode' = "pending" /\ blocked' = FALSE
    /\ ledger' = [a \in Accounts |-> NewLedger]
    /\ UNCHANGED <<clock, user, snapshot, file, refused, logins>>

Crash ==
    /\ Running
    /\ stops < MaxStops
    /\ Die

\* A signal: the listeners drain; a handler that does not end in five seconds is
\* left running beside the last flush and dies with the process.
Signal ==
    /\ up = "up"
    /\ stops < MaxStops
    /\ up' = "draining"
    /\ UNCHANGED <<clock, user, ledger, snapshot, handler, attempt, stats, flusher,
                   file, history, bounds>>

Drained ==
    /\ up = "draining"
    /\ up' = "stopping"
    /\ UNCHANGED <<clock, user, ledger, snapshot, handler, attempt, stats, flusher,
                   file, history, bounds>>

Exit ==
    /\ up = "stopping"
    /\ flusher.step = "ended"
    /\ Die

\* Another user logs in under the same file; a running gateway reloads it.
Login(a, u) ==
    /\ logins < MaxLogins
    /\ user[a] # u
    /\ user' = [user EXCEPT ![a] = u]
    /\ ledger' = [ledger EXCEPT ![a] = NewLedger]
    /\ logins' = logins + 1
    /\ UNCHANGED <<clock, snapshot, up, handler, attempt, stats, flusher, file,
                   history, stops>>

\* The console's snapshot, every three seconds.
Snapshot ==
    /\ Running
    /\ writeStatusSnapshot(ledger)
    /\ UNCHANGED <<clock, user, up, handler, attempt, saved, mode, blocked, flusher,
                   file, history, bounds>>

\* A quota refresh found the account's quota again.
QuotaBack(a) ==
    /\ Running
    /\ ledger[a].blocked
    /\ ledger' = [ledger EXCEPT ![a].blocked = FALSE]
    /\ UNCHANGED <<clock, user, snapshot, up, handler, attempt, stats, flusher, file,
                   history, bounds>>

Tick ==
    /\ clock < MaxHour
    /\ clock' = clock + 1
    /\ UNCHANGED <<user, ledger, snapshot, up, handler, attempt, stats, flusher, file,
                   history, bounds>>

-----------------------------------------------------------------------------
(* A request: upstreamChat and the handler of the answer. *)

Fate(r, f) == calls' = [calls EXCEPT ![r][Len(calls[r])].fate = f]

Begin(r) ==
    /\ up = "up"
    /\ pc[r] = "new"
    /\ pc' = [pc EXCEPT ![r] = "choose"]
    /\ UNCHANGED <<clock, user, ledger, snapshot, up, locals, attempt, stats,
                   flusher, file, history, bounds>>

\* The attempt is written over, whatever it held.
statsSelectAccount(r, a) ==
    attempt' = [attempt EXCEPT ![r] =
        [call |-> <<r, Len(calls[r]) + 1>>, account |-> statsAccountID(a),
         complete |-> FALSE, ttft |-> FALSE]]

Call(r, a) ==
    /\ Running
    /\ pc[r] = "choose"
    /\ a \notin locals[r].tried
    /\ ~ledger[a].blocked
    /\ statsSelectAccount(r, a)
    /\ locals' = [locals EXCEPT ![r].tried = @ \cup {a}, ![r].chosen = a]
    /\ pc' = [pc EXCEPT ![r] = "calling"]
    /\ calls' = [calls EXCEPT ![r] =
                    Append(@, [account |-> statsAccountID(a), fate |-> "open"])]
    /\ UNCHANGED <<clock, user, ledger, snapshot, up, stats, flusher, file,
                   refused, bounds>>

\* The error goes to the client as a status, and after a replay as a datum of the
\* stream that has begun.
Fail(r) ==
    /\ pc' = [pc EXCEPT ![r] = "end"]
    /\ locals' = [locals EXCEPT ![r].status = IF locals[r].replayed THEN "ok" ELSE "error"]

NoAccountLeft(r) ==
    /\ Running
    /\ pc[r] = "choose"
    /\ \A a \in Accounts : a \in locals[r].tried \/ ledger[a].blocked
    /\ Fail(r)
    /\ UNCHANGED <<clock, user, ledger, snapshot, up, attempt, stats, flusher,
                   file, history, bounds>>

NetworkError(r) ==
    /\ Running
    /\ pc[r] = "calling"
    /\ Fate(r, "failed")
    /\ Fail(r)
    /\ UNCHANGED <<clock, user, ledger, snapshot, up, attempt, stats, flusher,
                   file, refused, bounds>>

\* An answer of 400 and above is a row at once.
Refused(r) ==
    /\ Running
    /\ pc[r] = "calling"
    /\ statsFinishAttempt(r, "error")
    /\ pc' = [pc EXCEPT ![r] = "refused"]
    /\ Fate(r, "refused")
    /\ UNCHANGED <<clock, user, ledger, snapshot, up, locals, saved, mode, blocked,
                   flusher, file, refused, bounds>>

\* For the quota the account is blocked for the model, and the next one is asked.
markModelQuotaBlocked(r) ==
    /\ Running
    /\ pc[r] = "refused"
    /\ pc' = [pc EXCEPT ![r] = "choose"]
    /\ writeStatusSnapshot([ledger EXCEPT ![locals[r].chosen].blocked = TRUE])
    /\ refused' = refused \cup {Last(calls[r]).account}
    /\ UNCHANGED <<clock, user, up, locals, attempt, saved, mode, blocked, flusher,
                   file, calls, bounds>>

\* For a limit or its credential the next one is asked; for another reason none.
RefusedOtherwise(r) ==
    /\ Running
    /\ pc[r] = "refused"
    /\ \/ pc' = [pc EXCEPT ![r] = "choose"] /\ UNCHANGED locals
       \/ Fail(r)
    /\ UNCHANGED <<clock, user, ledger, snapshot, up, attempt, stats, flusher,
                   file, history, bounds>>

Answered(r) ==
    /\ Running
    /\ pc[r] = "calling"
    /\ pc' = [pc EXCEPT ![r] = "stream"]
    /\ locals' = [locals EXCEPT ![r].firstToken = FALSE]
    /\ UNCHANGED <<clock, user, ledger, snapshot, up, attempt, stats, flusher,
                   file, history, bounds>>

\* A delta with text is read; what a restorer keeps back has not been sent.
observeFirstToken(r) ==
    /\ Running
    /\ pc[r] = "stream"
    /\ ~locals[r].firstToken
    /\ locals' = [locals EXCEPT ![r].firstToken = TRUE]
    /\ UNCHANGED <<clock, user, ledger, snapshot, up, pc, attempt, stats, flusher,
                   file, history, bounds>>

\* Nothing was sent and the stream breaks: upstreamChat begins again.
Replay(r) ==
    /\ Running
    /\ pc[r] = "stream"
    /\ ~locals[r].replayed
    /\ locals' = [locals EXCEPT ![r] = [NoLocals EXCEPT !.replayed = TRUE]]
    /\ pc' = [pc EXCEPT ![r] = "choose"]
    /\ Fate(r, "broken")
    /\ UNCHANGED <<clock, user, ledger, snapshot, up, attempt, stats, flusher,
                   file, refused, bounds>>

\* statsObserveUsage and the deferred finishFirstToken.
finishFirstToken(r, complete) ==
    attempt' = [attempt EXCEPT ![r].complete = complete,
                               ![r].ttft = complete /\ locals[r].firstToken]

\* The answer is cut: a stream has said "ok" long ago, a whole answer fails.
CutOff(r) ==
    /\ Running
    /\ pc[r] = "stream"
    /\ Fate(r, "broken")
    /\ finishFirstToken(r, FALSE)
    /\ pc' = [pc EXCEPT ![r] = "end"]
    /\ \/ UNCHANGED locals
       \/ ~locals[r].replayed /\ locals' = [locals EXCEPT ![r].status = "error"]
    /\ UNCHANGED <<clock, user, ledger, snapshot, up, stats, flusher, file,
                   refused, bounds>>

\* observeModelCredit: a call with a price teaches one, a large one without a
\* price that the model is free, which lifts the block.
Learn(r, credit) ==
    CASE credit = "none" -> ledger
      [] credit = "zero" -> [ledger EXCEPT ![locals[r].chosen] = [class |-> "free", blocked |-> FALSE]]
      [] credit = "some" -> [ledger EXCEPT ![locals[r].chosen].class = "paid"]

Complete(r, credit) ==
    /\ Running
    /\ pc[r] = "stream"
    /\ Fate(r, "complete")
    /\ finishFirstToken(r, TRUE)
    /\ pc' = [pc EXCEPT ![r] = "end"]
    /\ IF credit = "none" THEN UNCHANGED <<ledger, snapshot, document, revision>>
       ELSE writeStatusSnapshot(Learn(r, credit))
    /\ UNCHANGED <<clock, user, up, saved, mode, locals, blocked, flusher, file,
                   refused, bounds>>

\* requestAuditMiddleware, after the handler.
Return(r) ==
    /\ Running
    /\ pc[r] = "end"
    /\ statsFinishAttempt(r, locals[r].status)
    /\ pc' = [pc EXCEPT ![r] = "done"]
    /\ locals' = [locals EXCEPT ![r] = NoLocals]
    /\ UNCHANGED <<clock, user, ledger, snapshot, up, saved, mode, blocked,
                   flusher, file, history, bounds>>

-----------------------------------------------------------------------------
(* flushOptionalStats, one at a time under statsWriteMu. *)

AfterFlush(f) == IF f.final THEN [NoFlush EXCEPT !.step = "ended"] ELSE NoFlush

\* Mutant: after a failed write the statistics stay in memory.
nothingToWriteGivingUp(rev) == blocked \/ mode = "memory" \/ rev = saved
nothingToWrite(rev) == blocked \/ rev = saved

\* A tick, or the end of the process: then it is the last.  The pool is captured
\* and the document marshalled; nothing is written when all of it is on disk.
Flush ==
    /\ Running
    /\ flusher.step = "idle"
    /\ captureAccountStats(ledger)
    /\ LET call == [step |-> "write", raw |-> document', revision |-> revision',
                    final |-> up = "stopping"]
       IN  flusher' = IF nothingToWrite(revision') THEN AfterFlush(call) ELSE call
    /\ UNCHANGED <<clock, user, ledger, snapshot, up, handler, attempt, saved, mode,
                   blocked, file, history, bounds>>

TooLarge(doc) == Len(doc.requests) > MaxRows

\* A temporary file, renamed when it is whole.
writeOptionalStatsFile ==
    /\ flusher.step = "write"
    /\ ~TooLarge(flusher.raw)
    /\ file' = flusher.raw
    /\ flusher' = [flusher EXCEPT !.step = "written"]
    /\ UNCHANGED <<clock, user, ledger, snapshot, up, handler, attempt, stats,
                   history, bounds>>

WriteFails ==
    /\ flusher.step = "write"
    /\ mode' = "memory"
    /\ flusher' = AfterFlush(flusher)
    /\ UNCHANGED <<clock, user, ledger, snapshot, up, handler, attempt, document,
                   revision, saved, blocked, file, history, bounds>>

\* Mutant: everything up to now counts as saved.
publishLatest == saved' = revision /\ mode' = "file"
publish == saved' = flusher.revision /\ mode' = "file"

Publish ==
    /\ flusher.step = "written"
    /\ publish
    /\ flusher' = AfterFlush(flusher)
    /\ UNCHANGED <<clock, user, ledger, snapshot, up, handler, attempt, document,
                   revision, blocked, file, history, bounds>>

FlushStep == writeOptionalStatsFile \/ WriteFails \/ Publish

Next ==
    \/ Start \/ Crash \/ Signal \/ Drained \/ Exit
    \/ \E a \in Accounts : QuotaBack(a) \/ \E u \in Users : Login(a, u)
    \/ Snapshot \/ Tick \/ Flush \/ FlushStep
    \/ \E r \in Requests :
        \/ Begin(r) \/ NoAccountLeft(r) \/ NetworkError(r) \/ Refused(r)
        \/ \E a \in Accounts : Call(r, a)
        \/ markModelQuotaBlocked(r) \/ RefusedOtherwise(r) \/ Answered(r)
        \/ observeFirstToken(r) \/ Replay(r) \/ CutOff(r)
        \/ \E credit \in Credits : Complete(r, credit)
        \/ Return(r)

Spec == Init /\ [][Next]_vars

\* The loop ticks and its steps end; a disk that fails does not fail for ever.
\* A process that was told to stop does, and one that is down is started again.
FairSpec ==
    /\ Spec
    /\ WF_vars(Start) /\ WF_vars(Drained) /\ WF_vars(Exit)
    /\ WF_vars(Flush) /\ WF_vars(Publish)
    /\ SF_vars(writeOptionalStatsFile)

-----------------------------------------------------------------------------
(* What the console asks (handleWebUIStats and the model list): hours are    *)
(* UTC+8, a range is from one midnight to another.                           *)

Periods == {"hour", "day", "week", "month"}
Midnight(day) == day * HoursPerDay
DayOf(hour) == hour \div HoursPerDay

statsBucketStart(hour, period) ==
    CASE period = "hour"  -> hour
      [] period = "day"   -> Midnight(DayOf(hour))
      [] period = "week"  -> Midnight(DayOf(hour) - ((DayOf(hour) - Monday) % DaysPerWeek))
      [] period = "month" -> Midnight(Max({m \in MonthStarts : m <= DayOf(hour)}))

statsNextBucket(hour, period) ==
    CASE period = "hour"  -> hour + 1
      [] period = "day"   -> hour + HoursPerDay
      [] period = "week"  -> hour + DaysPerWeek * HoursPerDay
      [] period = "month" -> Midnight(Min({m \in MonthStarts : m > DayOf(hour)}))

\* The bucket that begins at first and those after it that begin before to.
BucketsFrom(first, to, period) ==
    LET start[n \in 0 .. MaxBuckets] ==
            IF n = 0 THEN first
            ELSE IF start[n - 1] < to THEN statsNextBucket(start[n - 1], period)
                                      ELSE start[n - 1]
    IN  [n \in {m \in 0 .. MaxBuckets : start[m] < to} |-> start[n]]

\* Mutant: the first bucket begins where the range does.
BucketStartsUnaligned(from, to, period) == BucketsFrom(from, to, period)

\* The axis of the chart; a range with more than MaxBuckets is refused.
BucketStarts(from, to, period) == BucketsFrom(statsBucketStart(from, period), to, period)

\* The ranges asked for, each with its axis for every period.
Ranges == {range \in ShownDays \X ShownDays : range[1] <= range[2]}
Queries == {[range |-> range, period |-> period,
             axis |-> BucketStarts(Midnight(range[1]), Midnight(range[2] + 1), period)] :
                range \in Ranges, period \in Periods}

\* A bucket that is not on the axis is looked up as the first one.
BucketOf(starts, hour, period) ==
    LET start == statsBucketStart(hour, period) IN
    IF \E n \in DOMAIN starts : starts[n] = start
    THEN CHOOSE n \in DOMAIN starts : starts[n] = start ELSE 0

RowsIn(range) ==
    {i \in DOMAIN document.requests :
        /\ Midnight(range[1]) <= document.requests[i].at
        /\ document.requests[i].at < Midnight(range[2] + 1)}

\* statsTotals.add over a set of rows.
Totals(rows) ==
    LET complete == {i \in rows : document.requests[i].complete} IN
    [requests |-> Cardinality(rows),
     success |-> Cardinality(complete),
     failed |-> Cardinality(rows \ complete),
     ttftSamples |-> Cardinality({i \in complete : /\ document.requests[i].ttft
                                                   /\ document.requests[i].status = "ok"})]

Chart(query) ==
    LET rows == RowsIn(query.range)
        bucket == [i \in rows |-> BucketOf(query.axis, document.requests[i].at, query.period)]
    IN  [n \in DOMAIN query.axis |-> Totals({i \in rows : bucket[i] = n})]

-----------------------------------------------------------------------------
(* Properties. *)

Rows(doc, c) == {i \in DOMAIN doc.requests : doc.requests[i].call = c}
\* A call's request goes on to another account without its row.
Overtaken(r, n) == calls[r][n].fate = "broken" /\ n < Len(calls[r])

\* Every call of an account has one row and no more, with the account that was
\* called and complete exactly when its stream was: a call that was refused at
\* once, the last one when its request is over, none for a request that found no
\* account.  (The one a replay follows has none: see EveryCallIsRecorded.)
CallRecordedOnce ==
    \A r \in Requests : \A n \in DOMAIN calls[r] :
        LET rows == Rows(document, <<r, n>>)
            over == calls[r][n].fate = "refused" \/ pc[r] = "done"
        IN  /\ Cardinality(rows) <= 1
            /\ over /\ ~Overtaken(r, n) => rows # {}
            /\ \A i \in rows : LET row == document.requests[i] IN
                /\ row.account = calls[r][n].account
                /\ row.complete <=> calls[r][n].fate = "complete"
                /\ row.ttft => row.complete

\* What user-guide.md:1172 says of a request that calls several accounts.
EveryCallIsRecorded ==
    \A r \in Requests : \A n \in DOMAIN calls[r] :
        pc[r] = "done" => Rows(document, <<r, n>>) # {}

\* When nothing is left to save, stats.json says what the memory says, also when
\* rows were added while the file was written.
SavedIsOnDisk ==
    mode = "file" /\ revision = saved /\ flusher.step = "idle" /\ up # "down"
        => file = document

\* A file the gateway wrote is one it will read at its next start.
WrittenFileLoads == file \notin {NoFile, BadFile} => validStatsDocument(file)

\* What is recorded gets to the disk, over failed writes, as long as the process
\* is not stopped and the document has room.
EventuallySaved ==
    []<>(revision = saved \/ blocked \/ TooLarge(document) \/ up = "down")

\* Whatever the range, the granularity and the day the range begins on, every call
\* of the range is counted in the bucket of its own hour, day, week or month, and
\* none is looked up in vain and drawn in the first bucket.
ChartIsTrue ==
    document.requests # <<>> => \A query \in Queries :
        LET chart == Chart(query)
            start == [i \in RowsIn(query.range) |->
                        statsBucketStart(document.requests[i].at, query.period)]
        IN  MaxBuckets \notin DOMAIN query.axis =>
              \A n \in DOMAIN query.axis :
                  chart[n] = Totals({i \in DOMAIN start : start[i] = query.axis[n]})

\* A comment says so of new versions (main.go:1143).
NeverLooksLegacy == \A a \in Accounts : ~(ledger[a].blocked /\ ledger[a].class = "paid")

\* stats.go:25: an account never inherits the block of the one whose file it took.
BlockIsItsOwn == \A a \in Accounts : ledger[a].blocked => statsAccountID(a) \in refused
=============================================================================
