# workbuddy-gateway: TLA+ models, checks and proofs

workbuddy-gateway is a single Go process that offers the OpenAI Chat
Completions, OpenAI Responses and Anthropic Messages APIs on top of a pool of
upstream accounts, each a credential file. This directory models the parts of it
whose correctness depends on order, interleaving, failure or time.

- *Model checking*: `tlc -config X.cfg M` for every run of section 3 (all are in
  `PROJECT.json`); the longest takes under two minutes with two workers. Section 3
  also names larger instances, section 5 the counterexamples.
- *Proofs*: `tlapm ModelConcurrencyProofs.tla` and the other `...Proofs` modules.
- *Mutants*: operators commented `Mutant:` stand beside the definition they
  would replace. Each is a plausible bug; put in place of the definition it must
  make the property named in `PROJECT.json` fail. They are no part of any
  specification.

Source lines are given as `file.go:line` of the repository.

## 1. Inventory

| Component (files) | State | Operations | Hard because | Correct when | Module |
|---|---|---|---|---|---|
| Concurrency limiter (`concurrent.go`) | limits, total, per-account counts, one wake-up channel | acquire, release, configure, bind to a response body | goroutines park on a channel snapshotted under a lock; five callers of one release; hot reconfiguration | counters equal slots held; nobody sleeps beside a free slot; a lowered limit only drains | `ModelConcurrency` |
| Account dispatch (`main.go` 1333-1526, 2102-2284, 3505-3725, `models.go` 1131-1198, `probe.go`) | pool, round-robin index, per-account cooldown and quota, per-model ledger | pick an account, attempt, classify the refusal, quota scan, probe | the ledger is read and written in short critical sections with the network in between | slots returned on every way out; no usable account lost; blocks clear; every request answered | `AccountDispatch` |
| Credential lifecycle (`main.go` 1057-1331, 1528-1680, 1777-1936, `credverify.go`, `keepalive.go`, `accountlogin.go`, `credentialedit.go`) | credential files, `.disabled` markers, pool entries, failure counts | load, reload, refresh, disable (verify, then delete), login, edit, delete | file and pool change separately; the network stands between check and use | no credential destroyed that was not verified dead; no file brought back | `CredentialLifecycle` |
| Streaming to the client (`main.go` 847-901, 3823-4110, `stream_resilience.go`) | bytes shown, finish reason, replay budget, heartbeat goroutine | relay, heartbeat, replay, idle watchdog | upstream breaks mid-stream; a heartbeat goroutine writes to the same connection | no replay after visible data, `[DONE]` only for a finished answer, nothing written out of order | `ChatStream` |
| Daily check-in (`checkin.go`, `checkin` parts of `webui.go`) | persisted plan per account and day | plan, claim, run, retry, start-up queue | write-ahead persistence, restart in mid-request, day change | at most two requests a day, never resent after a restart | `DailyCheckin` |
| Runtime configuration (`runtimeconfig.go`, `gatewayconfig.go`, `configedit.go`, the saves of `webpolicy.go`, `logmanagement.go`, `adminoperations.go`) | config file, hash of the text in force, settings in force | watch, parse, apply, save in place, put back | file and process change each other, an operator edits beside both; applying may fail half way | a refused change changes nothing; hash and settings agree; a good file is in force at last | `RuntimeConfig` |
| Listeners (`servers.go`) | live listeners per role, retired ones | prepare, register, apply, shut down | bind the new before closing the old, with one of two failing | never without a listener; no port leaked | `RuntimeConfig` |
| Answers of other protocols (`messages.go`, `responses.go`, `responses_tools.go`, aggregates of `main.go`) | blocks and items opened, what each has said, tool slots | convert a chunk stream to typed events, or to one object | items must nest and close on every way out; calls arrive in pieces by index | complete answers hold all that was said; start and stop events match; one end | `AnswerStreams`, `EventStream` |
| Identity restoring (`identity_restore.go`) | carry-over buffer across chunks, inside an address or not | restore a name, flush | a name split over chunks; what was let out cannot be taken back | the stream restores what the whole text would | `IdentityRestore` |
| Statistics (`stats.go`, `modelstats.go`) | rows and ledgers in memory, `stats.json`, revision counters | record an attempt, capture, flush, restart, chart | rows come while the document is written; an attempt is overwritten by replays and retries | each call counted once, saved means on disk, the chart counts a row in its bucket | `Statistics` |
| Model catalogue, prices, probes (`models.go`, `rate_resolution.go`, `probe.go`) | catalogue entry, verdicts, samples, cache on disk, the account's ledger | refresh, probe, sample, resolve a price from evidence, restart | sources of different age and trust; promotions between two refreshes | the price shown is the price charged; what is not saved is warned of | `Catalogue` |
| Request conversion (`conversation.go`, `maxtokens.go`, `systemprompt.go`, `identity.go`, `identity_messages.go`, `outboundcompat.go`) | none | convert and rewrite one request | free-form JSON | | |
| Repairs (`toolrepair.go`, `reasoningrepair.go`) | per request; reasoning by conversation | fill in missing tool results and reasoning | pure text over JSON | no tool call without a result | |
| Web tools (`websearch.go`) | per-request search rounds | execute the model's search and fetch calls | bounded rounds, cancellation | ends within the bound | |
| Web console (`webui.go`, `websecurity.go`, `web/`) | sessions, failure counters, task list | login, settings, tasks, status | pure HTTP and DOM | | |
| Health, plans and alerts (`accounthealth.go`, `accountalerts.go`, `plans.go`) | last result per account | checks, notifications | | one check at a time | |
| Logging (`logmanagement.go`, `logtail.go`, `logredact.go`, `debug.go`, `debugrequest.go`, `weblogfocus.go`) | log files, rotation state | write, rotate, prune, tail, redact | pure I/O | | |
| Reset (`reset.go`) | files on disk | delete local data except credentials | pure I/O | | |

How they interact: an API handler prepares a request (identity rewriting,
repairs, conversion), `upstreamChat` picks an account, takes a **slot** of the
limiter, makes sure of its **token** (credential lifecycle), takes the account's
credential lock for reading and sends; refusals go to the **ledger**; a response
is handed to one of the three **streaming** loops, whose end gives the slot back
and teaches the ledger what the model costs. Around it run the credential
reloader (5 s), the keep-alive refresh, the quota scan (5 min), the price probes,
the check-in scheduler, the configuration watcher (1 s) and the web console, all
sharing `accountMu` (pool and ledger), `acc.lock` (one account's credential) and
`runtimeConfigMu`.
## 2. Modules

| Module | Extends / uses | Models |
|---|---|---|
| `Admission` | | what the limiter promises, without lock, counter or channel |
| `ModelConcurrency` | `Admission` (refinement) | `concurrent.go` |
| `AccountDispatch` | `Admission` (the slots) | `upstreamChat`, `nextAccountForModel`, the ledger, quota scan, probes |
| `CredentialLifecycle` | | one credential file, its marker and its account objects |
| `ChatStream` | | one streamed chat answer |
| `DailyCheckin` | | the check-in scheduler and its document |
| `RuntimeConfig` | | `config.json`, what is in force of it, the listeners |
| `EventStream` | | what a streamed Messages or Responses answer promises its reader |
| `IdentityRestore` | | restoring a name in a text that comes in pieces |
| `AnswerStreams` | `IdentityRestore`, `EventStream` (refinement) | chunks to Messages, Responses or chat answers, streamed or whole |
| `Statistics` | | rows, ledgers, `stats.json` and the chart |
| `Catalogue` | | the price of one model: catalogue, package, samples, probes, cache |
| `MC...` | the module of the same name | small instances for TLC |
| `...Proofs` | the module, `TLAPS` | theorems; those about `IdentityRestore` are in `ChatStreamProofs` |

The components meet in few places, and each module has the others there as one
step or one value: `AccountDispatch` counts slots as `ModelConcurrency` has been
shown to hand them out and takes a token refresh as succeeding or failing; the
replay of `ChatStream` is all of `AccountDispatch` once more; the requests of
`CredentialLifecycle` are the attempts of `AccountDispatch` seen from the
credential file; `Statistics` follows the same attempts with everything but their
outcomes taken away; `Catalogue` sees of a call the price it reports.
`AnswerStreams` composes three components: the restorer runs inside the converter,
and both together must keep the protocol.

### 2.1 ModelConcurrency

`limits`, `total`, `accounts` are the fields of `modelConcurrencyLimiter`.
`parked` stands for the channel: the requests whose snapshot of `l.changed` is
the channel that is still open; `notifyLocked` (close and replace) empties it.
The steps are the stretches between two lock operations: `StartAcquire`,
`Admit` / `Park` / `RefuseCancelled` (one pass of the loop under the mutex),
`Wake`, `GiveUp`. A slot is released through `Triggers`: the direct call of
`upstreamChat`, the body at its end, error or close, the cancel function, and the
`AfterFunc` of the client's context. `finish` is entered at most once per
trigger, `release` is the `sync.Once` with what it guards; a caller may be
between the two (`calling`). The JSON section is abstracted to its two integers,
negative ones included; `Configs` lists those an operator may write.

### 2.2 AccountDispatch

One `pc` value per stretch of `upstreamChat` between two network calls or lock
waits; `accountMu` is held within a step only, so the look at `Disabled` under the
credential lock (`SecondLook`) and the send (`Send`) are two steps; `late` is a history
variable that counts what is sent on an account since it was disabled. `ledger[a][m]` is
`acc.ModelStates[m]`: a cooldown, the quota block, the cost class and the probe
delay; instants are what is left of them, in ticks. `SelectionKinds` is
`usableForModelLocked` with the pass it is usable in, `FirstOn` the walk from
`rrIndex`, `SitesTried` the site preference with its fallback. `Answer` draws
any outcome `doUpstreamRequest` can have, `Handle` has one disjunct per branch of
the code after it. `Background` is the quota scan (`applyQuotaObservation`), the
reload of a file (`reloadAccount`), the lists of the console, a probe of the
admin API from start to end, and the billing service (external). Abstracted: how
an error text is classified, the credit number (has any or has none), the retry
of a connection before headers, and a pool whose size changes under a request.
`preferredFreeSites` reads the ledger in one step and the walk in another, as in
the code; within `preferredFreeSites` the two looks at the catalogue are one.

### 2.3 CredentialLifecycle

A credential is a version number; every write of the file and every credential
the token service issues is a new one, which is what the fingerprint (time and
size) tells apart. `acct[e]` is an `Account` object, `pool` the slice; an object
lives on while a goroutine holds it (`on[p]`), which is where much of the
difficulty comes from. `marker` is the `.disabled` file: whom it names and
whether it is older than the credential. Each process has the steps of its code
between two system calls, network calls or locks: refresh (`Choose`, `Skip` /
`Lock`, `RefreshSucceeds` / `RefreshFails`, `Reject`, `Save`,
`clearDisabledMarker`, `Publish`), disabling (`Disable`, `Mark`, `Condemn` /
`Keep`, `Remove`), request, login, editor, deletion. `Reload` is
`reloadAccountsResult` in one step (it runs under `accountMu`), `Restart` a new
process with `loadAccounts` and `loadDisabledMarkers`. A write of the file is one
step, and the pool is one file: the files of a pool share only `accountMu`.

### 2.4 ChatStream

`pc` is the handler, `wire` the lines sent and not read, `buf` those in the
scanner, `out` the frames written. `Read` and `Stamp` are the two halves of
`idleReadCloser.Read` (the read, then the time), `check` the watchdog,
`writeHeartbeat` the goroutine of `startStreamHeartbeat`; `StopHeartbeat` and
`CloseBody` are the deferred calls. A line is its kind: comment, metadata,
data, a chunk with a finish reason, `[DONE]`. `held` is text a restorer keeps
back; where names are restored, the chunk with the finish reason becomes its
content, what was kept back, and a frame with the reason alone (`Finished`). An
answer has one choice (`n` = 1); what a chunk says is left out. `client` is
`stalled` while it does not read: its writes may still find room on the way, so
no step is forbidden, but none is fair (section 3).
`silent`, `offered` and `sent` are history for the properties.

### 2.5 DailyCheckin

`doc` is the scheduler's document, `file` the one on disk, `jobs` the goroutines
of `runJob`. `planAndClaim` is one step, as it runs under `s.mu`: `Prepared`
composes its stages in the code's order (`Rolled`, `Recovered`, `Planned`,
`queueStartup`), `Claimed` and `Claim` reserve, `Reserve` saves or gives up. A
request goes `claimed` -> `sent` -> `ok` / `failed` (or `skipped`), then `Finish`
writes the result when the plan is still its own. Random times are drawn with
`\E` from the whole windows. The clock is a day and a time of day, so a time of
the document needs no date of its own; the five constants place 08:00, 09:30,
10:00, midnight and the minute. `Crash` loses everything but `file`; any save may
fail; `SetClockBack` covers a clock that is corrected.

### 2.6 RuntimeConfig

A document is the admin key, the two ports, the debug switch and the rest of the
sections as one value; any text that does not parse is `Torn`. Whoever reads and
writes the file inside the process holds `runtimeConfigMu` from the read to the
end, so `op` is the one operation under way, and its `pc` is where the file, a
port or the log file may let it down: `BeginWrite` opens the file and
overwrites its beginning, `EndWrite` ends with the new text or a fault,
`applyRuntimeConfig` binds (`Binds`, `prepareApply`), swaps (`Commit`) and publishes
(`Publish`), `Restore` puts the old text back. The operator (`Edit`), the ports of
other processes (`Others`), a fault of the disk and the death of the process come
between any two of these. A listener is its port; the swap of the handlers of a
retired server is left out, so is what a section says.

### 2.7 AnswerStreams, EventStream, IdentityRestore

`h` is what the handler keeps in local variables: the slots of the open reasoning
and text, the two restorers, the tool slots by index and in order of arrival.
`messages` reads one chunk and writes its events, `streamResponsesResponse` likewise;
`ScanEnds` is the end of the scan, with or without a finish reason, or an error;
then the finishing events. `AnswerWhole` is the answer that is not streamed: the
same chunks aggregated and converted in one step. `wire` is what is written and not
read; `ClientReads` applies one event to `items`, the reader's copy, and exactly
these steps are those of `EventStream`. `Each` is a
loop of a handler over a slice, with the state it leaves after each element (a
recursive function, so that the refinement can be proved, section 4).
`customToolInputFromArguments` marks that the arguments of a custom tool were converted;
what stands for arguments that are not the object expected (responses_tools.go:218) is
not told apart. `said` is what the upstream said, in runs
of reasoning, text and calls: `CompleteIsWhole` compares with it. Texts are short
sequences of letters, since the restorer looks at letters; everywhere else they
are only put together. `IdentityRestore` is a pure module (its operators keep the
names of the Go functions) and its reference definition is the restoring of the
whole text at once. The loop over the matches is a pass over the offsets (`Pass`,
`Meet`), a recursive function as `advance` is, so that it can be proved about
(section 4); letters are ASCII, where runes begin is left out.

### 2.8 Statistics

`attempt[r]` is the `*statsAttempt` in a request's context, `document` the
`statsDocument` in memory, `flusher` the one call of `flushOptionalStats` under
`statsWriteMu`, between its capture, write and `publish`. The handler follows
`upstreamChat` and the three loops as far as they touch the attempt: `Begin`,
`Call`, the ends of a call (`NetworkError`, `Refused`, `RefusedOtherwise`,
`Answered`), `observeFirstToken`, `Replay`, `CutOff`, `Complete`, `Return`. The
process starts (`Start`), is told to stop (`Signal`), drains, writes once more and
ends, or dies. An identity is an account of the pool with the user in its file:
`Login` puts another user's credential into the same file. The chart is the pure
operator behind `ChartIsTrue`, with a calendar whose day, week and month lengths
are constants.

### 2.9 Catalogue

A rule is what the vendor says of the model (`credits`), what it charges without a
promotion (`real`), and its promotions in the order it lists them; it may change between
two hours (`Tick`).
`Real` is the charge: of the promotions in force the lowest counts. `hit` is the one
promotion of a model that `parseLiveCatalog` keeps. `refreshModelsOnce` fetches, merges
(`mergeCatalogs`), stamps (`stampCatalogRates`) and persists in one step, since
nobody else writes the catalogue while it runs. A call is charged by the rule of
the hour it ends in and is recorded in two steps (`observeModelCredit` and
`recordRateUsage`), so two calls may overtake each other. `persistModelsLocked` may
fail, and then says so. A start reads the cache and, for a sample the cache does
not have, the ledger of the account (`restoreRateUsage`); that the ledger itself may
lag is in `Statistics`. `resolveRateEvidence` is what the console shows. A refresh
that fetches nothing for any site writes nothing (models.go:1318) and is no step; the
two lists of the interface (models.go:299) are one, in which the first that has the model
counts. `history`
(the rule of every hour) and an entry's `missed` (another rule came and went between
two readings of its price) are history variables.

## 3. Runs

| Run | Instance | Shows |
|---|---|---|
| `limiter` | 3 requests, 1 account, limits that fall back, shrink and grow, fair | `CountersMatchHolders`, `NoLostWakeup`, refinement of `Admission`; a cancelled client's slot returns |
| `dispatch` | 3 requests, 2 accounts with one slot | slots on every way out, few sent on a disabled account, the spread of round-robin |
| `dispatch_mixed` | 1 request, 2 accounts on 2 sites, 2 models, one outside event, fair | no usable account lost, free before paid, answered, blocks clear |
| `credential_refresh` | 2 refreshers, an editor, 1 restart, fair reload | one refresh of a token at a time, newest wins, the pool follows the file |
| `credential_login` | request, login, editor, deleter, 1 restart | the marker survives |
| `stream` | 2 lines a response, 1 tick of timeout, 1 heartbeat, fair | one answer, truthful end, order, one body, the handler returns |
| `checkin` | 1 account, 2 days, 1 crash, 1 clock set back, fair | the file can be read, write-ahead, nothing taken back, spacing and windows, no plan stays running |
| `config` | 4 ports, 1 edit, 1 save, 1 fault, 1 crash, fair | hash, settings and listeners agree; a refusal changes nothing; a good file is in force at last |
| `answers` | answers up to five letters in one run, fewer in several; three protocols | a complete answer is whole, nothing invented, refinement of `EventStream` |
| `answer_whole` | the same | *violation*, section 5 |
| `statistics` | 1 account, 2 users, 1 request, 1 end of the process, 2 hours, fair | each call has its row, saved is on disk, a written file loads, the chart, saved at last |
| `catalogue` | 1 model, 2 callers, 3 rules with up to two promotions, 2 versions, 3 hours, 1 failed write, 1 crash | the price shown is charged, unsaved is warned of, the newest sample stays |

Deadlock is checked in every run but the answers', which end when the answer is
read. Where another component may come to rest the model names the step that then
remains (`Returned` in ChatStream, the clock and the outside events elsewhere), so a
state with no step at all is an error.

Larger instances, with the same modules and no error; they check what the runs
leave to them:

| Configuration | Instance | Checks |
|---|---|---|
| `MCModelConcurrencyTwoKeys` | 3 requests, 2 accounts, 3 configurations | `TypeOK`, `OverLimitOnlyDrains` and the safety of `limiter` |
| `MCDailyCheckinTwoAccounts` | 2 accounts that queue, 1 crash, wide windows | `TypeOK`, `SpacedOut`, `WindowsKept` and the rest of the safety |
| `MCCatalogueRules` | 1 caller, a plain price beside the three rules, 4 hours, probes due sooner | `ShownIsCharged`, `CheckedWhenRead` |
| `MCCatalogueVersions` | 2 callers, 2 rules, 3 versions | `ShownIsCharged`, `SavedOrWarned`, `NewestSampleStays` |

### Why the bounds are enough

- *Limiter.* A lost wake-up needs a holder, a waiter and one that overtakes: three
  requests. A second account tells the two limits apart (`MCModelConcurrencyTwoKeys`).
  The proofs lift this to any number.
- *Dispatch.* Slots and stale picks need two requests on one account with one
  slot; for a send on an account disabled meanwhile the queue needs a third: one sent
  and refused, one that slips through, and one that must not. The spread of round-robin
  needs two accounts. The `VIEW` of this instance leaves out what nobody reads again: the
  locals a request has used, and what only the choice of an account reads once nobody can
  choose it. The passes and the site preference need one account on either side of
  each choice, hence two sites and, for the scope of a refusal, two models. One
  outside event between any two steps is what makes a read stale; a second one
  would have to undo the first.
- *Credentials.* A token used twice, a lost result and a late write need two
  processes on one file; three versions let each of them write and one stay; three
  objects are two entries of the pool and one held from outside.
- *Streaming.* The second line decides everything a later one would (datum before
  or after the finish reason, a break between them); the timeout of one tick is
  the shortest that can lie between a read and its stamp. Bounds are proved away
  for the safety properties.
- *Check-in.* The scaled day keeps every window non-empty: one time for a first
  request, one for a retry, one after it, then midnight. One crash separates two
  processes; a third repeats the second. Two accounts make a queue
  (`MCDailyCheckinTwoAccounts`). The proofs cover all windows, accounts and crashes.
- *Configuration.* The drafts change both ports, change one port with everything
  else and a section missing, take the key away, and collide; port 4 may be taken
  by others at any time. One edit and one save are the two writers; a fault at each
  of the places a save passes is one fault.
- *Answers.* The name is two letters, so that it can be cut; beside it stand the end
  of a sentence, a path, a space and a quotation mark, one for each case of the code.
  Two calls open at once, one of them without a name at first, and text that comes
  back after them, are the cases of the slots.
- *Statistics.* A midnight that also begins a week and a month puts a row at the
  edge of every kind of bucket; one row is
  enough to be in the right one; the limit on the document's size (`MaxRows`) is not
  reached; one request may be
  refused, sent again, replayed and cut.
- *Catalogue.* Two versions of the vendor's rule make the entry old once; a third
  (`MCCatalogueVersions`) lets a price come back before a refresh has seen it go. In three
  hours a promotion can begin and end between two refreshes, or end, leave a gap and
  another begin; the fourth hour and the shorter interval of `MCCatalogueRules` let probes
  become due in between. A rule with promotions one after the other and one with
  promotions one within the other are the two ways in which the kept one may not be the
  one that counts; the third rule has the promotion's price in its credits. `SYMMETRY`
  exchanges the callers, which are alike. The `VIEW` leaves the ledger out once the cache
  on disk has a sample: from then on no start reads it, and the cache never loses a
  sample; `lastProbe`, which nothing reads, it leaves out altogether. The proofs cover
  all rules.

### Fairness

- `limiter`: goroutines run (`acquire`, `AfterFunc`, a release under way).
  Nothing makes an upstream answer or an operator change limits.
- `dispatch_mixed`: a request goes on (the HTTP client's header timeout and the
  idle watchdog end every wait on the upstream), a probe ends within its minute,
  the quota scan comes round (main.go:2139, a ticker).
- `credential_refresh`: only `Reload`, the 5 s ticker of `accountReloaderLoop`.
- `stream`: the goroutines of the handler and the watchdog, and the clock; not the
  upstream and not the client. `WriteTimeout` is 0 (servers.go:43, 98), so a step
  that writes to the client, or needs the mutex a heartbeat may hold while it
  writes, is fair only while the client reads (`Served`). A replay may wait for a
  slot as long as its client does (user-guide.md:1082), so it is fair only once the
  client has left (`ReplayEnds`). `HandlerReturns` says so: the handler returns, or
  the client keeps ceasing to read, or the replay waits for ever.
- `checkin`: the goroutines of `runJob`, whose request ends at its deadline
  at the latest (`context.WithTimeout`); not the scheduler's tick, not the clock.
- `config`: the goroutine that holds `runtimeConfigMu` (`Operation`) and the watcher's
  tick of a second (`reload`, runtimeconfig.go:492); not the console, not the
  operator, not the start of the process.
- `statistics`: the flush loop (its ticker of 5 s), a flush under way, and a process
  that is told to stop and drains; one that is down is started again. The write of
  the file is strongly fair: a disk may fail any number of times, not every time for
  ever. Requests need not end.

## 4. Proofs

Checked by `tlapm` for every value of the constants that satisfies the named
assumption of the module; no bound of section 3 is used except as a constant.

| Module | Theorems | Inductive invariant |
|---|---|---|
| `ModelConcurrencyProofs` | `TypeCorrect`, `CountersCorrect`, `NoWakeupLost`, `OverLimitDrains`, `Refinement` | `IInv` adds `Bookkeeping` to the two invariants: where in the code a request may be parked, calling its release, or have a hook armed |
| `AccountDispatchProofs` | `TypeCorrect`, `SlotKept`, `SlotsTaken`, `LateSendsBounded`, `NobodyOverlooked`, `WalkSpreads`, `ChargedLast` | `IInv` adds `HasAccount` (between the pick and the end of an attempt a request has an account) and `PrefersFree` (about to walk, it prefers every site the catalogue has free), `SlotsLimited` (as `Admission` has it) and `LateAccounted` (what was sent on a disabled account and what has looked and not been sent share its slots) |
| `CredentialLifecycleProofs` | `TypeCorrect`, `MarkerOutlivesProcess`; without requests, logins and deletions `RefreshesTakeTurns`, `NothingIsLost` | `GInv`: `HandsOK` (what a process has in its hands at each place), `NamesOK` (an object in use or on the marker has the name of a file). `RInv` adds, for refreshes and edits alone, `Excluded` (one holder of a lock), `OneObject`, `LockOK` (holder, object and file agree), `AgesOK` (versions only grow) |
| `ChatStreamProofs` | `TypeCorrect`, `OneAnswerShown`, `OrderKept`, `BodiesClosed`, `EndsTruthfully`; of `IdentityRestore` `PiecesAsWhole`, `NothingTakenBack`, `LittleKeptBack`; of `AnswerStreams` the refinement `AnswersKeepProtocol` | `FramesOK` says of the frames written which attempt they are of, that only comments come before the first datum, nothing after the end; `Bookkeeping` which body is open where, and what has been seen by then; `Balance` that what was shown and what is still in the buffer and on the wire are together what was offered. For a restorer: `Kept` (it is on, and its carry is short) and `Foreseen` (what it has told, and the restoring of its carry with anything behind it, is what the whole gives). For an answer: `Standing` (reading all that is on its way leads in order to a view that `Agrees` with the handler's state, or to an end) |
| `DailyCheckinProofs` | `TypeCorrect`, `WriteAhead`, `AtMostOnce`, `TakenBackNever`, `StateLoads`, `SpacedApart`, `WindowsHold` | `IInv`: `Synced` (a scheduler that has not given up holds what is on disk), `JobsOnDisk` (every goroutine's attempt is reserved there), `Unsent` (a claimed one has not been sent), `OneJob` (an attempt has one goroutine), `NoneYet`, `SentKnown`. `QInv`: `Sound` (what loadLocked accepts), `OneBusy` and `JobsBusy` (one plan of the queue runs, and a job of the queue has it), and while nobody sets the clock `Ordered` (documents, jobs and the last request of the queue are not ahead of the clock; `Knows`, `Apart`) |
| `RuntimeConfigProofs` | `AlwaysCoherent`, `RefusalIsHarmless` | `OpOK` (an operation works on a document with two ports), `LifeOK` (a listener in every role from start to shutdown), `PortsOK` (which listeners it has opened and not installed), `HashOK` (what of its document is in force already), `BeforeOK` (until it commits nothing else has changed) |
| `StatisticsProofs` | `RecordedOnce`, `SavedAgrees`, `FileLoads`, `ChartHolds` | `MemInv`: `StoreOK`, `ValidOK` (every document that may be loaded again knows the accounts of its rows), `FlushOK` (a flush and the memory, by their revisions). `RowInv`: `HandlersOK`, `RowsOK` (a row is of a call that was made, and of no other row's), `AttemptOK` (an open attempt is the last call, which has no row yet), `CallsOK` (a row says of its call what happened) |
| `CatalogueProofs` | `TypeCorrect`, `CheckedIsRead`, `UnsavedIsKnown`, `NewestStays`, `ShownCharged` | `HistoryInv` (versions are in order, a rule that came later came before its promotion ended), `EntryInv` (a live entry is what the rule of its hour says, and since its last change calls were charged by that rule: `HoldsSinceChange`), `SampleInv`, `VerdictInv` (an observed class is the class of the charge of an hour that is not older than its time), the same of what is on disk, in the ledger and under way |

How the arguments go:

- *Limiter.* The counters are cardinalities of the sets of holders, so each admit
  and each release moves one element. No wake-up is lost because a request parks
  on the channel in the step that found no room, and every step that makes room
  empties `parked`. `Refinement` maps the holders to `Admission`: every step is an
  admission, a return, a change of limits or a stutter.
- *Dispatch.* One lemma for each group of actions shows that a request changes its
  own place only (`OwnStep`). `SlotsTaken` is a second refinement of `Admission`,
  now by its user. Round-robin and the three passes rest on three lemmas about the
  walk: an account that could serve is a candidate of some pass
  (`ServesIsReachable`), the walk finds a candidate when there is one, and the
  account served last stands at the end of the ring (`LastOfTheWalk`), which needs
  arithmetic modulo the size of the pool. `ChargedLast` must relate a walk to a
  preference computed some steps before it, from a ledger that has changed since:
  `PrefersFree` holds because the catalogue part of it does not change.
  `LateSendsBounded` is an argument about cardinalities: a request between its look
  and its send has a slot of the account (`LateKinds` sorts the steps), a send moves one
  of them from `Checked` to `late`, and nobody joins them while the account is disabled.
  That nothing at all is sent on a disabled account would be false: `accountMu` is
  given back between the two (main.go:3601).
- *Credentials.* `GInv` holds under every mixture of processes, and what a restart
  makes of the marker follows from it alone (`SurvivesStep`). For refreshes and edits
  the argument is that the holder of the lock is the only one at work and the pool is
  its object (`Sole`): both writers of the file take `acc.lock`, and the reload
  replaces an object under a holder only after that holder has written the file
  (`KindsReload`, by `LockOK`). With a login, a deletion or a refused request `OneObject`
  is false, and so are the theorems (section 5).
- *Streaming.* The order of frames is an invariant about sequences: appending a
  frame preserves it because the handler's place says what was written last. That an
  answer is whole needs no induction over lines: `Balance` counts them, and taking a
  line from the buffer is a bijection between what is owed before and after
  (`OwedTaken`). What follows a [DONE] in the buffer is owed to nobody, neither there
  nor in `offered`, so the sum holds when a whole wire is read at once.
- *Restoring.* `AnswerStreams` checks the restorers with a few letters; the theorems
  are about every text, every way of cutting it and every name, and about
  `identity_restore.go:319-320`: a stream gives what restoring the whole would. One
  cut is enough (`Cut`), for the cuts of an answer follow one another (`Throughout`,
  whose invariant is `Foreseen`). Up to what is let out, the pass over the pending text
  and the pass over the whole meet the same names and decide them alike, because
  nothing before the limit depends on a letter that has not come (`OccursInFirst`,
  `OccursInWhole`, `AlikeToTheCut`). Behind it the pass over the whole is the pass over
  the carry, moved (`MovedToTheEnd`), provided that the carry begins in the address
  the text was left in (`AdvanceFromCut`) and that a name at its very start lost no
  letter of an identifier before it (`CutBoundary`). The recursions along a text are
  recursive functions, and what holds along them is again shown by the least offset
  at which it would not.
  `CutBoundary` needs `Plain`. A name that is one letter repeated, of a letter that
  identifiers do not hold, can be followed by itself: of `a++`, heard letter by
  letter, `a` is let out and `++` is kept when the name is `+`, and the first `+` no longer shows
  the `a` that forbids its restoring; the stream restores it, the whole leaves it
  alone. The default name is `WorkBuddy`, and any name with two different letters is
  plain, so this limits the comment at lines 319-320 for odd values of
  `identity.target` only. The comment at line 325 is too small in general: it gives the
  carry the name, a letter and a point; `LittleKeptBack` gives it twice the name
  and a letter, and for the name `+a+` all seven letters of `+a++a+.` are kept: the second
  name waits for what follows the point, together with the letter before it, and that
  is the end of the first.
- *Answers.* `AnswersKeepProtocol` says that every behaviour of `AnswerStreams` is one of
  `EventStream`, for any chunks, declared tools and length. It is proved in the same
  module because it needs what is known of the restorers, through
  `Answers == INSTANCE AnswerStreams WITH wire <- events`. The handler is ahead of its
  client by a whole chunk, so the mapping is not step by step: the invariant speaks
  of a reader who has taken all that is written (`Plays`: every event one after
  the other, each allowed by the protocol), and his view must agree with the slots
  and calls the handler keeps (`Agrees`: items numbered up to the next index, an open
  text where its slot says, every other text closed, each call in an item of its own
  that is open). Taking one event is then a step of `EventStream` by `PlaysFirst`; all
  the work is in what the handler writes. Each operation has one lemma that
  ends in `Good` (types and agreement kept); the loops over fragments and calls are
  functions on `0 .. n` (`Each`), with the least number again. For the calls of a
  Responses chunk the agreement holds for a part of them in between: all are
  merged, then the new ones get an item one by one (`AddedAllGood`), and only then
  are arguments said (`SaidAllGood`). At the end it shrinks: each call closed leaves
  the set of open ones (`ToolsClosedGood`, `ToolItemsEndedGood`) until nothing is open and
  the answer may be complete. The theorem has the assumption of the module,
  `ChunksOK`, as its hypothesis, because assumptions of an instantiated module are not
  known to the prover: a chunk is texts, and fragments with an index that is any
  integer, which is what the decoding of the handlers leaves of any JSON.
- *Check-in.* `SentIsOnDisk` is not inductive: a goroutine's attempt must be known
  to be on disk before it is sent (`JobsOnDisk`), which rests on memory and disk being
  equal unless the scheduler has given up (`Synced`). `AtMostOnce` follows from `Unsent`
  and `OneJob`; that nothing is taken back from each stage of a look going `Onward`.
  `StateLoads` takes each stage of the planner through the validation of a whole
  document: recovery, review, planning, the queue, the claims, the end of a job. Its
  difficult part is the start-up queue: a document with a plan of it running must
  have the time of a request. The minute between two requests has to survive a crash
  with one under way: then the file has its plan as running, and the recovery takes
  its own time for the end of it; otherwise the file has the end of the last one
  (`Knows`). A look claims of the queue only when nothing of it runs and a minute has
  passed, and what it has claimed leaves on that day or never (`Apart`, `SentTimely`).
  A clock that is set back breaks all of that, so the two theorems about time are
  about behaviours in which nobody does (`sets = 0`); `StateLoads` is not.
- *Configuration.* Every step of an operation falls into one of five kinds, each with
  one lemma: it begins (`BeginStep`), writes the file (`FileStepKeeps`), is refused
  (`RefusedStep`), goes on with one more listener (`GoesOnKeeps`), or commits. That the
  new ports are two different ones is not a fact about documents alone: the defaults
  may collide with a port of the command line, and then it is `Swaps` that refuses
  them, because the API listener already has that port (`WantedPorts`).
- *Statistics.* `CallRecordedOnce` is about a call; what carries it is the attempt, which
  is written over by the next call and by a replay. `AttemptOK` says for each place
  of the handler whether the attempt is open: open after a cut stream, closed after
  a refusal. A row of a process before this one cannot be of a call still to come,
  because a request belongs to one process (`RowsOf`). For the file a revision is
  enough: every change of the document raises it (`PoolCaptured`), so equal
  revisions are equal documents. The chart is a statement about all ranges, periods
  and hours: `Days` and `Buckets` show that hours are cut into buckets (division with
  remainder for days and weeks, the table of months for months), `AxisInOrder` that
  the loop of the handler puts them on the axis one after the other, `AxisCovers`
  that an hour lies in the last bucket that begins up to it, on the axis and there
  once. That the recursive axis is a function, and what holds along it, is shown by
  the least number for which it would not (`LeastOf`). `CalendarAssumption` asks that
  the table of months reaches from before to after every day shown.
- *Catalogue.* A price is shown from several sources of different age, so the
  invariant speaks of the hours: what each source says was true of an hour, and its
  time is not later than that hour. `NoBoundarySince` and `HoldsSinceChange` then carry
  what was charged in any hour since the last change of the entry to now, and evidence
  from before it is outranked. The step that needs work is a refresh that repeats a
  price under a new version of the rule (`StampedLiveIsTrue`): the time of the change
  does not move, and calls in between must have been charged alike
  (`SameRateSameCharge`). That is false if yet another rule came and went in between,
  which an entry called `missed` remembers: the code keeps the older evidence there on
  purpose (rate_resolution.go:170). No assumption is made of
  what the vendor may say. What an entry cannot tell is a condition of the property
  itself (`Tells`, `Settled`): it has room for one promotion, so a charge is known from it
  while the one it keeps is the lowest in force, and after that the credits must be what
  is charged without one. `LeastOf` and `LowestInForce` give the lowest of a list of any
  length, `HitFacts` that an entry keeps it, `RateIsReal` that the price of such an entry
  is the charge.

Only model-checked: `CompleteIsWhole` and `NothingInvented` of `AnswerStreams`. What they need
of the restorers (`PiecesAsWhole`, `NothingTakenBack`) and of the items (`AnswersKeepProtocol`) is
proved; the two join it with the answer as it should be, `Answer`, which flattens and
sorts the runs that were said: folds over sequences of any length, whose laws are
proved by induction over data, out of this prover's reach. Liveness
under fairness is out of its reach as well and rests on TLC alone: `CancelFreesSlot`,
`Answered`, `QuotaBlockClears`, `HandlerReturns`, `FileGetsInForce` and the other
temporal properties of section 3.

## 5. Where code and documentation disagree

Checked as a run with the one property that must fail:

| Run | Property | What happens |
|---|---|---|
| `answer_whole` | `AggregateIsWhole` | `appendText` and `appendThinking` (messages.go:746, 717) replace the slot of a block that was closed before, and `aggregate` reads the slots: of a text that comes back after reasoning or a call only the last block is in an answer that is not streamed, though messages.go:875 and 559 say it holds the complete message. |

Further counterexamples, kept as properties and configurations; run them with
`tlc -config <cfg> <module>`:

| Configuration | Property | What happens |
|---|---|---|
| `MCAccountDispatchClaims` | `TailUnreachable` | main.go:3716 calls the code after the attempt loop unreachable; a refusal in the last attempt continues out of the loop, and the client gets 429 `all_accounts_cooldown` without the reasons `no_available_account` collects. |
| the same, with `-continue` | `QuotaAnswerMeansPaid` | user-guide.md:988 says a 14018 records the model as paid; `markModelQuotaBlocked` blocks it and leaves the cost class unknown (as user-guide.md:1116 says). |
| the same, with `-continue` | `CooldownRunsItsCourse` | `markCooldown` (main.go:1489) replaces a cooldown of hours by the 60 s of a later 429 without a reset time, or by the minute of a failed token refresh (main.go:1492). |
| `MCCredentialVerify` | `DeletesOnlyWhatWasVerified` | `disableAccount` verifies the credential it saw and then removes the file, which a refresh may have replaced in between (main.go:1567, 1574). |
| `MCCredentialStrikes` | `OneFailureDoesNotDisable` | The reload that loads a new login keeps `RefreshFailCount` of the old credential (main.go:1257): one failure may then be the third (keepalive.go:30). |
| the same, with the first property taken out | `RefusalOfAnOldTokenIsHarmless` | A 401 for the old token handled after a new login was loaded disables the new login (main.go:3694; user-guide.md:1054). |
| `MCCredentialDeleted` | `OnlyLoginCreates` | A refresh under way writes back the file the console has just deleted (main.go:1901; user-guide.md:885). |
| `MCCredentialTwice` | `OneEntryPerFile` | The console's login appends under an absolute path the file the scan has loaded under a relative one: two entries until the next reload (accountlogin.go:300). |
| `MCCredentialUncovered` | `ScanOrNotItStays` | The entry a login appends for a file the scan does not list is dropped by the next reload (main.go:1280; accountlogin.go:283). |
| `MCChatStreamCut` | `CutOnlyWhenSilent` | The watchdog measures the time since the handler last read: a client slow to take a frame makes it cut an upstream that goes on sending (main.go:886, 3710). |
| `MCDailyCheckinClaims` | `NoCatchUpByEvent` | An account re-enabled inside the window after its planned time is sent at the next tick, though account events are said to trigger no catch-up (checkin.go:301, 335). |
| the same, with `-continue` | `SkippedIsNotFailed` | An account no longer eligible at its turn is recorded as failed with an attempt used, though nothing was sent (checkin.go:507, 693; user-guide.md:802). |
| `MCRuntimeConfigAbsent` | `RestoreBringsBackTheFile` | A save that fails puts back the old text, but where there was no file it leaves an empty one, which does not parse (user-guide.md:487). |
| `MCStatisticsClaims` | `EveryCallIsRecorded` | A replay that begins before the first datum overwrites the attempt: the broken call of the first account has no row (user-guide.md:1172; stats.go:348). |
| the same, with the first invariant taken out | `NeverLooksLegacy` | main.go:1143 says this version never writes a model that is paid, blocked and refused by a 14018. It does: a model learned as paid from a call is blocked later, and the next start takes the verdict back (`sanitizeRestoredModelState`). |
| `MCStatisticsOtherUser` | `BlockIsItsOwn` | stats.go:27 keys the ledgers by a digest of the user so that another account in the same file does not inherit a block; the status snapshot restores them by the path of the file (main.go:1099), and it does. |
| `MCCatalogueFollowing` | `PromotionIsShown` | `parseLiveCatalog` keeps one promotion of a model and drops the rest (models.go:427-437). One that begins between two refreshes, after the kept one or within it, is not applied: until the next refresh the higher price is shown, though user-guide.md:1102 says credits times the factor is the price while a promotion is in force, and user-guide.md:903 that its beginning is checked when the price is read. With one promotion in a rule, of any kind the instances have, the property holds. |
| `MCCatalogueClaims` | `RestoredAtItsTime` | `markModelQuotaBlocked` overwrites `ObservedAt` (main.go:1521), which a start without a cache takes for the time of the price sample: it is restored under a later time than it was observed at (user-guide.md:902). |
| the same, with the invariant taken out | `ExpiredIsUnknown` | user-guide.md:1103 does not trust the credits of a model whose promotion is over, since the vendor often leaves the promotion's price in them, and asks for `-` until it was probed. `catalogRateAt` (rate_resolution.go:237) shows them when they are positive, as user-guide.md:903 has it; a promotional price that is not zero then stays on show. |
| the same, with both invariants taken out | `ProbedOncePerInterval` | A refresh that finds the model at 0.00x again deletes its whole probe record (models.go:1334), the time of the last probe with it: the next round probes it within the interval (user-guide.md:621, 1125). |

Limits of the properties that follow from such behaviour, and from the code:

- `RefreshedByOneAtATime` and `NewestWins` are checked, and proved, without requests,
  logins and deletions. With them both are false: a deletion takes an object out of the
  pool while a refresh waits for its lock (main.go:1853), a refresh that was under way
  writes the file again, the reload loads it into a new object, and the two objects have
  a lock each (`MCCredentialDeleted` with `-continue` shows two refreshes with one token);
  a login writes the file without `acc.lock`. `PoolFollowsFile` is checked
  with refreshes and an editor, not with a login that writes between a refresh's
  `saveAuthTo` and its `os.Stat` (main.go:1906).
- `SpacedOut` and `WindowsKept` are about readings of the clock: they are claimed as
  long as the clock was not set back.
- `EventuallySaved` and the rest of `Statistics` are about the process that recorded the
  row: handlers that outlive the drain of 5 s add rows after the last write, which
  are lost; and after a crash an older `stats.json` overrides the newer ledger of the
  credential snapshot.
- `ShownIsCharged` assumes that a call is charged by the rule of the hour it ends in.
  It leaves out, each as a condition of its own: an entry that could not tell the charge
  (`Tells`: a promotion it did not keep is in force, see `PromotionIsShown`, or the
  credits are not what is charged without one, see `ExpiredIsUnknown`); an entry without
  a price whose promotion has not ended (`Settled`); a sample restored under a later time
  (`RestoredAtItsTime`); and a price that came and went between two refreshes: what was
  learnt of it outranks the catalogue, which did not change (`missed`).

## 6. Plan

Done: the limiter, dispatch, credentials, chat streaming,
check-in, the run-time configuration with its listeners, the answers of the other
protocols, the restoring of names, statistics, the price of a model. Left, in the
order of what they would add:

1. The rest of the catalogue: capabilities and aliases of models, the choice of the
   probing account, the batches of a round, the evidence of old counters.
2. The counters of a model in memory (modelstats.go 55-213), the sums of tokens,
   credits and durations, the tables of the console.
3. The rounds of the web tools (`websearch.go`) with their bound and cancellation,
   the lock-out of the console's login (`websecurity.go`), rotation and deletion of
   logs (`logmanagement.go`).
4. Proofs: `CompleteIsWhole` and `NothingInvented` of `AnswerStreams` on top of
   `PiecesAsWhole`.

## 7. Not modelled

- Conversions of one request's free-form JSON: identity rewriting, system prompts,
  token limits, tool-call and reasoning repair. They keep no state another
  component depends on.
- Views: pages and status of the console, health, plans and alerts, log text,
  redaction, debug bundles.
- The command line apart from its effects on files (`LoginElsewhere`, `Restart` in
  `CredentialLifecycle`), and `reset`.
- Of `Statistics` and `Catalogue` what section 6 lists; they are `partly` in
  `PROJECT.json`, which names every component with its status.
- Transport: a retry of a connection before headers are written, TLS, proxies; and
  what an error text of the upstream looks like.
