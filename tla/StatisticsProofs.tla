---------------------------- MODULE StatisticsProofs ----------------------------
(***************************************************************************)
(* Proofs about Statistics, for every number of requests, accounts, users, *)
(* logins, failed writes and ends of the process.                          *)
(*                                                                         *)
(* A row is written once because the attempt of a request is open exactly  *)
(* while its last call has no row (AttemptOK), and a call that has a row   *)
(* has its fate (CallsOK).  The file agrees with the memory because every  *)
(* change of the document has a revision of its own (FlushOK).             *)
(*                                                                         *)
(* The chart is true because its axis cuts the range into buckets: each    *)
(* begins where the one before it ends (AxisInOrder), by induction on a    *)
(* least counterexample (LeastOf), so an hour of the range is in one of    *)
(* them and its bucket is the one that begins there (AxisCovers).          *)
(***************************************************************************)
EXTENDS Statistics, FiniteSetTheorems, WellFoundedInduction, TLAPS

Fates == {"open", "failed", "refused", "broken", "complete"}
CallNumbers == Requests \X (Nat \ {0})
RowSet == [call : CallNumbers, account : Identities, at : Int, status : {"ok", "error"},
           complete : BOOLEAN, ttft : BOOLEAN]
Documents == [accounts : [Identities -> Ledgers \cup {NoLedger}], requests : Seq(RowSet)]
Attempts == [call : CallNumbers \cup {NoCall}, account : Identities \cup {NoCall},
             complete : BOOLEAN, ttft : BOOLEAN]
Places == {"new", "choose", "calling", "refused", "stream", "end", "done", "gone"}

StoreOK ==
    /\ clock \in Int
    /\ user \in [Accounts -> Users]
    /\ ledger \in [Accounts -> Ledgers] /\ snapshot \in [Accounts -> Ledgers \cup {NoLedger}]
    /\ document \in Documents /\ revision \in Nat /\ saved \in Nat
    /\ file \in Documents \cup {NoFile, BadFile}
    /\ flusher \in [step : {"idle", "write", "written", "ended"}, raw : Documents,
                    revision : Nat, final : BOOLEAN]

CallSet == [account : Identities, fate : Fates]
LocalSet == [tried : SUBSET Accounts, chosen : Accounts \cup {NoCall}, replayed : BOOLEAN,
             firstToken : BOOLEAN, status : {"ok", "error"}]
ShapesOK ==
    /\ pc \in [Requests -> Places] /\ attempt \in [Requests -> Attempts]
    /\ calls \in [Requests -> Seq(CallSet)] /\ locals \in [Requests -> LocalSet]

HandlersOK ==
    /\ ShapesOK
    /\ \A r \in Requests :
        /\ attempt[r].call # NoCall => attempt[r].account \in Identities
        /\ pc[r] \in {"new", "gone"} => calls[r] = <<>> /\ attempt[r].call = NoCall
        /\ pc[r] \in {"calling", "refused", "stream"} => locals[r].chosen \in Accounts
        /\ pc[r] \in {"new", "choose", "calling", "stream", "refused"} => locals[r].status = "ok"
        /\ up = "down" => pc[r] \in {"new", "gone"}

Stored == {document, flusher.raw} \cup ({file} \ {NoFile, BadFile})

\* Whatever may be loaded again knows the accounts of its rows.
ValidOK == \A doc \in Stored : validStatsDocument(doc)

\* The document and its revision, from the flush over the write to its end.
FlushOK ==
    /\ saved <= revision
    /\ flusher.step \in {"write", "written"} =>
        /\ saved < flusher.revision /\ flusher.revision <= revision
        /\ flusher.revision = revision => flusher.raw = document
    /\ flusher.step = "written" => file = flusher.raw
    /\ flusher.step \in {"idle", "ended"} /\ mode = "file" /\ revision = saved => file = document
    /\ up = "down" => mode = "pending" /\ flusher.step = "idle"

\* Rows are of calls that were made, in this process or in one before it, and of
\* different ones.
RowsOf(doc) ==
    \A i \in DOMAIN doc.requests :
        LET call == doc.requests[i].call IN
        /\ pc[call[1]] # "new"
        /\ pc[call[1]] # "gone" => call[2] \in DOMAIN calls[call[1]]
        /\ \A j \in DOMAIN doc.requests : doc.requests[j].call = call => j = i
RowsOK == \A doc \in Stored : RowsOf(doc)

\* The attempt of a request is its last call, which has no row yet.
Open(r) == attempt[r].call # NoCall
AttemptOf(r) ==
    /\ Open(r) => /\ calls[r] # <<>>
                  /\ attempt[r].call = <<r, Len(calls[r])>>
                  /\ attempt[r].account = Last(calls[r]).account
                  /\ attempt[r].ttft => attempt[r].complete
                  /\ attempt[r].complete <=> Last(calls[r]).fate = "complete"
                  /\ Last(calls[r]).fate # "refused"
                  /\ Last(calls[r]).fate = "complete" => locals[r].status = "ok"
                  /\ Rows(document, <<r, Len(calls[r])>>) = {}
    /\ Open(r) => pc[r] \in {"choose", "calling", "stream", "end"}
    /\ pc[r] \in {"calling", "stream"} => Open(r) /\ Last(calls[r]).fate = "open"
    /\ pc[r] = "choose" /\ Open(r) => Last(calls[r]).fate = "broken"
    /\ pc[r] \in {"choose", "refused"} /\ ~Open(r) /\ calls[r] # <<>> => Last(calls[r]).fate = "refused"
    /\ pc[r] = "refused" => calls[r] # <<>>
    /\ calls[r] # <<>> /\ ~Open(r) => Rows(document, <<r, Len(calls[r])>>) # {}
AttemptOK == \A r \in Requests : AttemptOf(r)

\* A call that has a row has its fate, and a request that goes on has one for the
\* call before.
CallsOf(r) ==
    \A n \in DOMAIN calls[r] :
        /\ n < Len(calls[r]) => calls[r][n].fate \in {"refused", "broken"}
        /\ calls[r][n].fate = "refused" => Rows(document, <<r, n>>) # {}
        /\ \A i \in Rows(document, <<r, n>>) :
            LET row == document.requests[i] IN
            /\ row.account = calls[r][n].account
            /\ row.complete <=> calls[r][n].fate = "complete"
            /\ row.ttft => row.complete
CallsOK == \A r \in Requests : CallsOf(r)

IInv == StoreOK /\ HandlersOK /\ ValidOK /\ FlushOK /\ RowsOK /\ AttemptOK /\ CallsOK

-----------------------------------------------------------------------------
(* The document. *)

LEMMA NewDocuments ==
    /\ NewDocument \in Documents /\ NewDocument.requests = <<>>
    /\ validStatsDocument(NewDocument) /\ RowsOf(NewDocument)
<1>1. NewDocument \in Documents
  BY DEF NewDocument, Documents
<1>2. NewDocument.requests = <<>>
  BY DEF NewDocument
<1>3. QED
  BY <1>1, <1>2 DEF validStatsDocument, RowsOf

LEMMA DocumentShape ==
    ASSUME NEW doc \in Documents
    PROVE  /\ doc = [accounts |-> doc.accounts, requests |-> doc.requests]
           /\ doc.accounts \in [Identities -> Ledgers \cup {NoLedger}]
           /\ doc.requests \in Seq(RowSet)
BY DEF Documents

LEMMA RowAdded ==
    ASSUME StoreOK, NEW row \in RowSet, addRow(row)
    PROVE  /\ document' \in Documents /\ revision' = revision + 1
           /\ document'.requests = Append(document.requests, row)
           /\ validStatsDocument(document) => validStatsDocument(document')
<1>1. NewLedger \in Ledgers /\ NewLedger # NoLedger /\ row.account \in Identities
  <2>1. NewLedger \in Ledgers
    BY DEF NewLedger, Ledgers
  <2>2. row.account \in Identities
    BY DEF RowSet
  <2>3. QED
    BY <2>1, <2>2, DataAssumption
<1>2. document.accounts \in [Identities -> Ledgers \cup {NoLedger}] /\ document.requests \in Seq(RowSet)
  BY DocumentShape DEF StoreOK
<1> DEFINE accounts == IF document.accounts[row.account] = NoLedger
                       THEN [document.accounts EXCEPT ![row.account] = NewLedger]
                       ELSE document.accounts
<1>3. document' = [accounts |-> accounts, requests |-> Append(document.requests, row)]
  BY DEF addRow
<1>4. accounts \in [Identities -> Ledgers \cup {NoLedger}] /\ accounts[row.account] # NoLedger
  BY <1>1, <1>2
<1>5. \A id \in Identities : document.accounts[id] # NoLedger => accounts[id] # NoLedger
  BY <1>1, <1>2
<1> HIDE DEF accounts
<1>6. Append(document.requests, row) \in Seq(RowSet)
  BY <1>2
<1>7. document' \in Documents /\ document'.requests = Append(document.requests, row)
      /\ document'.accounts = accounts
  BY <1>3, <1>4, <1>6 DEF Documents
<1>8. ASSUME validStatsDocument(document) PROVE validStatsDocument(document')
  <2> SUFFICES ASSUME NEW i \in DOMAIN document'.requests
               PROVE  accounts[document'.requests[i].account] # NoLedger
    BY <1>7 DEF validStatsDocument
  <2>1. CASE i \in DOMAIN document.requests
    <3>1. document'.requests[i] = document.requests[i] /\ document.requests[i] \in RowSet
      BY <1>2, <1>7, <2>1
    <3>2. QED
      BY <1>5, <1>8, <2>1, <3>1 DEF validStatsDocument, RowSet
  <2>2. CASE i = Len(document.requests) + 1
    BY <1>2, <1>4, <1>7, <2>2
  <2>3. QED
    BY <1>2, <1>7, <2>1, <2>2
<1>9. revision' = revision + 1
  BY DEF addRow
<1>10. QED
  BY <1>7, <1>8, <1>9

\* A capture raises the revision when it changes the document.
LEMMA PoolCaptured ==
    ASSUME StoreOK, NEW l \in [Accounts -> Ledgers], captureAccountStats(l)
    PROVE  /\ document' \in Documents /\ revision' \in Nat /\ revision' >= revision
           /\ document'.requests = document.requests
           /\ revision' = revision => document' = document
           /\ validStatsDocument(document) => validStatsDocument(document')
<1> DEFINE changed == {id \in Identities : Captured(l)[id] # document.accounts[id]}
<1>1. /\ document.accounts \in [Identities -> Ledgers \cup {NoLedger}]
      /\ document.requests \in Seq(RowSet)
      /\ document = [accounts |-> document.accounts, requests |-> document.requests]
  BY DocumentShape DEF StoreOK
<1>2. Captured(l) \in [Identities -> Ledgers \cup {NoLedger}]
  BY <1>1 DEF Captured, Identities
<1>3. \A id \in Identities : document.accounts[id] # NoLedger => Captured(l)[id] # NoLedger
  BY <1>1, DataAssumption DEF Captured, Identities
<1>4. IsFiniteSet(changed) /\ Cardinality(changed) \in Nat /\ (Cardinality(changed) = 0 <=> changed = {})
  <2>1. IsFiniteSet(Identities)
    BY DataAssumption, FS_Product DEF Identities
  <2>2. IsFiniteSet(changed)
    BY <2>1, FS_Subset
  <2>3. QED
    BY <2>2, FS_CardinalityType, FS_EmptySet
<1>5. document' = [document EXCEPT !.accounts = Captured(l)] /\ revision' = revision + Cardinality(changed)
  BY DEF captureAccountStats
<1>6. document' = [accounts |-> Captured(l), requests |-> document.requests]
  BY <1>1, <1>5
<1>7. document' \in Documents /\ document'.requests = document.requests /\ document'.accounts = Captured(l)
  BY <1>1, <1>2, <1>6 DEF Documents
<1>8. revision' \in Nat /\ revision' >= revision /\ (revision' = revision => changed = {})
  <2> HIDE DEF changed
  <2>1. revision \in Nat
    BY DEF StoreOK
  <2>2. QED
    BY <1>4, <1>5, <2>1
<1>9. changed = {} => Captured(l) = document.accounts
  BY <1>1, <1>2
<1>10. ASSUME validStatsDocument(document) PROVE validStatsDocument(document')
  <2>1. \A i \in DOMAIN document.requests : document.requests[i].account \in Identities
    <3>1. \A i \in DOMAIN document.requests : document.requests[i] \in RowSet
      BY <1>1
    <3>2. QED
      BY <3>1 DEF RowSet
  <2>2. QED
    BY <1>3, <1>7, <1>10, <2>1 DEF validStatsDocument
<1>11. QED
  BY <1>1, <1>6, <1>7, <1>8, <1>9, <1>10

-----------------------------------------------------------------------------
(* Memory and file. *)

MemInv == StoreOK /\ ValidOK /\ FlushOK

LEMMA Flushers ==
    \A f \in [step : {"idle", "write", "written", "ended"}, raw : Documents,
              revision : Nat, final : BOOLEAN] :
        /\ f.raw \in Documents /\ f.revision \in Nat
        /\ [f EXCEPT !.step = "written"] \in [step : {"idle", "write", "written", "ended"},
                                raw : Documents, revision : Nat, final : BOOLEAN]
        /\ [f EXCEPT !.step = "written"].raw = f.raw
        /\ [f EXCEPT !.step = "written"].revision = f.revision
        /\ [f EXCEPT !.step = "written"].step = "written"
OBVIOUS

LEMMA FlushEnds ==
    ASSUME NEW f
    PROVE  /\ AfterFlush(f) \in [step : {"idle", "write", "written", "ended"},
                                 raw : Documents, revision : Nat, final : BOOLEAN]
           /\ AfterFlush(f).raw = NewDocument /\ AfterFlush(f).step \in {"idle", "ended"}
<1>1. NoFlush \in [step : {"idle", "write", "written", "ended"},
                   raw : Documents, revision : Nat, final : BOOLEAN]
      /\ NoFlush.raw = NewDocument /\ NoFlush.step = "idle"
  BY NewDocuments DEF NoFlush
<1>2. [NoFlush EXCEPT !.step = "ended"] \in [step : {"idle", "write", "written", "ended"},
                   raw : Documents, revision : Nat, final : BOOLEAN]
      /\ [NoFlush EXCEPT !.step = "ended"].raw = NewDocument
      /\ [NoFlush EXCEPT !.step = "ended"].step = "ended"
  BY NewDocuments DEF NoFlush
<1>3. QED
  BY <1>1, <1>2 DEF AfterFlush

\* The document moves on while a flush, if there is one, stays where it is.
LEMMA MemoryMoves ==
    ASSUME MemInv, document' \in Documents, revision' \in Nat, revision' >= revision,
           revision' = revision => document' = document,
           validStatsDocument(document) => validStatsDocument(document'),
           UNCHANGED <<flusher, file, saved, mode>>, up' = "down" => up = "down",
           clock' \in Int, user' \in [Accounts -> Users],
           ledger' \in [Accounts -> Ledgers],
           snapshot' \in [Accounts -> Ledgers \cup {NoLedger}]
    PROVE  MemInv'
<1> USE DEF MemInv
<1>1. StoreOK'
  BY DEF StoreOK
<1>2. ValidOK'
  BY DEF ValidOK, Stored
<1>3. FlushOK'
  <2>1. \A f \in [step : {"idle", "write", "written", "ended"}, raw : Documents,
                  revision : Nat, final : BOOLEAN] : f.revision \in Nat
    OBVIOUS
  <2>2. flusher.revision \in Nat /\ saved \in Nat /\ revision \in Nat
    BY <2>1 DEF StoreOK
  <2>3. QED
    BY <2>2 DEF FlushOK
<1>4. QED
  BY <1>1, <1>2, <1>3

LEMMA LedgersMade ==
    /\ NewLedger \in Ledgers
    /\ \A l \in Ledgers : /\ sanitizeRestoredModelState(l) \in Ledgers
                          /\ [l EXCEPT !.blocked = FALSE] \in Ledgers
                          /\ [l EXCEPT !.blocked = TRUE] \in Ledgers
                          /\ [l EXCEPT !.class = "paid"] \in Ledgers
    /\ [class |-> "free", blocked |-> FALSE] \in Ledgers
BY DEF NewLedger, Ledgers, sanitizeRestoredModelState

\* The pool is captured with its ledgers as they are or as a call has left them.
LEMMA SnapshotWritten ==
    ASSUME MemInv, NEW l \in [Accounts -> Ledgers], writeStatusSnapshot(l),
           UNCHANGED <<clock, user, flusher, file, saved, mode, up>>
    PROVE  MemInv'
<1>1. StoreOK
  BY DEF MemInv
<1>2. captureAccountStats(l) /\ ledger' = l /\ snapshot' = l
  BY DEF writeStatusSnapshot
<1>3. /\ document' \in Documents /\ revision' \in Nat /\ revision' >= revision
      /\ revision' = revision => document' = document
      /\ validStatsDocument(document) => validStatsDocument(document')
  BY <1>1, <1>2, PoolCaptured
<1>4. clock \in Int /\ user \in [Accounts -> Users]
  BY <1>1 DEF StoreOK
<1>5. QED
  BY <1>2, <1>3, <1>4, MemoryMoves

\* The ledger of the account a request has called.
LEMMA LedgerOfCall ==
    ASSUME StoreOK, HandlersOK, NEW r \in Requests, pc[r] \in {"refused", "stream"}
    PROVE  /\ [ledger EXCEPT ![locals[r].chosen].blocked = TRUE] \in [Accounts -> Ledgers]
           /\ \A credit \in {"none", "zero", "some"} : Learn(r, credit) \in [Accounts -> Ledgers]
<1>1. locals[r].chosen \in Accounts /\ ledger \in [Accounts -> Ledgers]
  BY DEF HandlersOK, StoreOK
<1>2. [ledger EXCEPT ![locals[r].chosen].blocked = TRUE] \in [Accounts -> Ledgers]
  BY <1>1, LedgersMade
<1>3. Learn(r, "none") \in [Accounts -> Ledgers]
  BY <1>1 DEF Learn
<1>4. Learn(r, "zero") \in [Accounts -> Ledgers]
  BY <1>1, LedgersMade DEF Learn
<1>5. Learn(r, "some") \in [Accounts -> Ledgers]
  BY <1>1, LedgersMade DEF Learn
<1>6. QED
  BY <1>2, <1>3, <1>4, <1>5

\* A row is added, or there was no attempt.
LEMMA RowWritten ==
    ASSUME MemInv, HandlersOK, NEW r \in Requests, NEW code \in {"ok", "error"},
           statsFinishAttempt(r, code)
    PROVE  /\ document' \in Documents /\ revision' \in Nat /\ revision' >= revision
           /\ revision' = revision => document' = document
           /\ validStatsDocument(document) => validStatsDocument(document')
<1>1. StoreOK
  BY DEF MemInv
<1>2. CASE attempt[r].call = NoCall
  BY <1>1, <1>2 DEF statsFinishAttempt, StoreOK
<1>3. CASE attempt[r].call # NoCall
  <2> DEFINE row == [call |-> attempt[r].call, account |-> attempt[r].account,
                     at |-> clock, status |-> code,
                     complete |-> attempt[r].complete /\ code = "ok",
                     ttft |-> attempt[r].ttft]
  <2>1. row \in RowSet
    <3>1. /\ attempt[r].call \in CallNumbers /\ attempt[r].account \in Identities
          /\ attempt[r].complete \in BOOLEAN /\ attempt[r].ttft \in BOOLEAN
      BY <1>3 DEF HandlersOK, ShapesOK, Attempts
    <3>2. clock \in Int
      BY <1>1 DEF StoreOK
    <3>3. QED
      BY <3>1, <3>2 DEF RowSet
  <2>2. addRow(row)
    BY <1>3 DEF statsFinishAttempt
  <2> HIDE DEF row
  <2>3. QED
    BY <1>1, <2>1, <2>2, RowAdded DEF StoreOK
<1>4. QED
  BY <1>2, <1>3

LEMMA MemStep == MemInv /\ HandlersOK /\ [Next]_vars => MemInv'
<1> SUFFICES ASSUME MemInv, HandlersOK, [Next]_vars PROVE MemInv'
  OBVIOUS
<1>0. /\ clock \in Int /\ user \in [Accounts -> Users] /\ revision \in Nat /\ document \in Documents
      /\ ledger \in [Accounts -> Ledgers] /\ snapshot \in [Accounts -> Ledgers \cup {NoLedger}]
  BY DEF MemInv, StoreOK
\* What leaves document, flush and file alone.
<1>1. ASSUME UNCHANGED <<document, revision, flusher, file, saved, mode>>, up' = "down" => up = "down",
             clock' \in Int, user' \in [Accounts -> Users], ledger' \in [Accounts -> Ledgers],
             snapshot' = snapshot
      PROVE  MemInv'
  BY <1>0, <1>1, MemoryMoves
<1>2. CASE Signal \/ Drained \/ Tick
  BY <1>0, <1>1, <1>2 DEF Signal, Drained, Tick, stats
<1>3. CASE \E a \in Accounts : QuotaBack(a)
  <2>1. PICK a \in Accounts : QuotaBack(a)
    BY <1>3
  <2>2. ledger' \in [Accounts -> Ledgers]
    BY <1>0, <2>1, LedgersMade DEF QuotaBack
  <2>3. QED
    BY <1>0, <1>1, <2>1, <2>2 DEF QuotaBack, stats
<1>4. CASE \E a \in Accounts, u \in Users : Login(a, u)
  <2>1. PICK a \in Accounts, u \in Users : Login(a, u)
    BY <1>4
  <2>2. ledger' \in [Accounts -> Ledgers] /\ user' \in [Accounts -> Users]
    BY <1>0, <2>1, LedgersMade DEF Login
  <2>3. QED
    BY <1>0, <1>1, <2>1, <2>2 DEF Login, stats
<1>5. CASE \E r \in Requests :
             \/ Begin(r) \/ NoAccountLeft(r) \/ NetworkError(r) \/ RefusedOtherwise(r)
             \/ Answered(r) \/ observeFirstToken(r) \/ Replay(r) \/ CutOff(r)
             \/ \E a \in Accounts : Call(r, a)
  <2>1. ASSUME UNCHANGED <<clock, user, ledger, snapshot, document, revision, saved, mode,
                           flusher, file, up>>
        PROVE  MemInv'
    BY <1>0, <1>1, <2>1
  <2>2. ASSUME NEW r \in Requests, Begin(r) \/ NoAccountLeft(r) \/ NetworkError(r) \/ RefusedOtherwise(r)
        PROVE  MemInv'
    BY <2>1, <2>2 DEF Begin, NoAccountLeft, NetworkError, RefusedOtherwise, stats
  <2>3. ASSUME NEW r \in Requests, Answered(r) \/ observeFirstToken(r) \/ Replay(r) \/ CutOff(r)
        PROVE  MemInv'
    BY <2>1, <2>3 DEF Answered, observeFirstToken, Replay, CutOff, stats
  <2>4. ASSUME NEW r \in Requests, NEW a \in Accounts, Call(r, a) PROVE MemInv'
    BY <2>1, <2>4 DEF Call, stats
  <2>5. QED
    BY <1>5, <2>2, <2>3, <2>4
<1>6. CASE Snapshot
  BY <1>0, <1>6, SnapshotWritten DEF Snapshot
<1>7. CASE \E r \in Requests : markModelQuotaBlocked(r)
  <2>1. PICK r \in Requests : markModelQuotaBlocked(r)
    BY <1>7
  <2>2. [ledger EXCEPT ![locals[r].chosen].blocked = TRUE] \in [Accounts -> Ledgers]
    BY <2>1, LedgerOfCall DEF markModelQuotaBlocked, MemInv
  <2>3. writeStatusSnapshot([ledger EXCEPT ![locals[r].chosen].blocked = TRUE])
    BY <2>1 DEF markModelQuotaBlocked
  <2>4. UNCHANGED <<clock, user, flusher, file, saved, mode, up>>
    BY <2>1 DEF markModelQuotaBlocked
  <2>5. QED
    BY <2>2, <2>3, <2>4, SnapshotWritten
<1>8. CASE \E r \in Requests, credit \in Credits : Complete(r, credit)
  <2>1. PICK r \in Requests, credit \in Credits : Complete(r, credit)
    BY <1>8
  <2>2. UNCHANGED <<clock, user, flusher, file, saved, mode, up>>
    BY <2>1 DEF Complete
  <2>3. CASE credit = "none"
    BY <1>0, <1>1, <2>1, <2>2, <2>3 DEF Complete
  <2>4. CASE credit # "none"
    <3>1. Learn(r, credit) \in [Accounts -> Ledgers]
      BY <2>1, LedgerOfCall, DataAssumption DEF Complete, MemInv
    <3>2. writeStatusSnapshot(Learn(r, credit))
      BY <2>1, <2>4 DEF Complete
    <3>3. QED
      BY <2>2, <3>1, <3>2, SnapshotWritten
  <2>5. QED
    BY <2>3, <2>4
<1>9. CASE \E r \in Requests : Refused(r) \/ Return(r)
  <2>1. PICK r \in Requests : Refused(r) \/ Return(r)
    BY <1>9
  <2>2. PICK code \in {"ok", "error"} : statsFinishAttempt(r, code)
    BY <2>1 DEF Refused, Return, HandlersOK, ShapesOK, LocalSet
  <2>3. UNCHANGED <<clock, user, ledger, snapshot, flusher, file, saved, mode, up>>
    BY <2>1 DEF Refused, Return
  <2>4. /\ document' \in Documents /\ revision' \in Nat /\ revision' >= revision
        /\ revision' = revision => document' = document
        /\ validStatsDocument(document) => validStatsDocument(document')
    BY <2>2, RowWritten
  <2>5. QED
    BY <1>0, <2>3, <2>4, MemoryMoves
<1>10. CASE Start
  <2>1. /\ document' \in {file, NewDocument} /\ revision' = 0 /\ saved' = 0
        /\ document' = NewDocument \/ (file \in Documents /\ validStatsDocument(file))
        /\ mode' = "file" => document' = file
    BY <1>10 DEF Start, loadOptionalStats, MemInv, StoreOK
  <2>2. document' \in Documents /\ validStatsDocument(document')
    BY <2>1, NewDocuments
  <2>3. \A a \in Accounts : statsAccountID(a) \in Identities
    BY <1>0 DEF statsAccountID, Identities
  <2>4. \A a \in Accounts : document'.accounts[statsAccountID(a)] \in Ledgers \cup {NoLedger}
    BY <2>2, <2>3, DocumentShape
  <2>5. ledger' \in [Accounts -> Ledgers]
    BY <1>0, <1>10, <2>4, LedgersMade DEF Start, loadAccounts
  <2>6. UNCHANGED <<clock, user, snapshot, flusher, file>>
    BY <1>10 DEF Start
  <2>7. StoreOK'
    BY <1>0, <2>1, <2>2, <2>5, <2>6 DEF MemInv, StoreOK
  <2>8. ValidOK'
    BY <2>2, <2>6 DEF MemInv, ValidOK, Stored
  <2>9. FlushOK'
    BY <1>10, <2>1, <2>6 DEF MemInv, FlushOK, Start
  <2>10. QED
    BY <2>7, <2>8, <2>9 DEF MemInv
<1>11. CASE Crash \/ Exit
  <2>1. Die
    BY <1>11 DEF Crash, Exit
  <2>2. /\ document' = NewDocument /\ flusher' = NoFlush /\ revision' = 0 /\ saved' = 0
        /\ mode' = "pending" /\ UNCHANGED <<clock, user, snapshot, file>>
        /\ ledger' = [a \in Accounts |-> NewLedger]
    BY <2>1 DEF Die
  <2>3. /\ NoFlush \in [step : {"idle", "write", "written", "ended"}, raw : Documents,
                        revision : Nat, final : BOOLEAN]
        /\ NoFlush.raw = NewDocument /\ NoFlush.step = "idle"
    BY NewDocuments DEF NoFlush
  <2>4. StoreOK'
    BY <1>0, <2>2, <2>3, NewDocuments, LedgersMade DEF MemInv, StoreOK
  <2>5. ValidOK'
    BY <2>2, <2>3, NewDocuments DEF MemInv, ValidOK, Stored
  <2>6. FlushOK'
    BY <2>2, <2>3 DEF FlushOK
  <2>7. QED
    BY <2>4, <2>5, <2>6 DEF MemInv
<1>12. CASE Flush
  <2>1. /\ document' \in Documents /\ revision' \in Nat /\ revision' >= revision
        /\ revision' = revision => document' = document
        /\ validStatsDocument(document) => validStatsDocument(document')
    BY <1>0, <1>12, PoolCaptured DEF Flush, MemInv
  <2>2. UNCHANGED <<clock, user, ledger, snapshot, saved, mode, file, up>>
    BY <1>12 DEF Flush
  <2> DEFINE call == [step |-> "write", raw |-> document', revision |-> revision',
                      final |-> up = "stopping"]
  <2>3. flusher' = IF nothingToWrite(revision') THEN AfterFlush(call) ELSE call
    BY <1>12 DEF Flush
  <2>4. /\ call \in [step : {"idle", "write", "written", "ended"}, raw : Documents,
                     revision : Nat, final : BOOLEAN]
        /\ call.raw = document' /\ call.revision = revision' /\ call.step = "write"
    BY <2>1
  <2> HIDE DEF call
  <2>5. StoreOK'
    BY <1>0, <2>1, <2>2, <2>3, <2>4, FlushEnds DEF MemInv, StoreOK
  <2>6. ValidOK'
    BY <2>1, <2>2, <2>3, <2>4, FlushEnds, NewDocuments DEF MemInv, ValidOK, Stored
  <2>7. saved \in Nat /\ saved <= revision
    BY DEF MemInv, StoreOK, FlushOK
  <2>8. flusher.step = "idle" /\ up # "down"
    BY <1>12 DEF Flush, Running
  <2>9. FlushOK'
    <3>1. CASE nothingToWrite(revision')
      <4>1. flusher'.step \in {"idle", "ended"}
        BY <2>3, <3>1, FlushEnds
      <4>2. revision' = saved => revision' = revision
        BY <1>0, <2>1, <2>7
      <4>3. QED
        BY <1>0, <2>1, <2>2, <2>7, <2>8, <4>1, <4>2 DEF MemInv, FlushOK
    <3>2. CASE ~nothingToWrite(revision')
      <4>1. flusher' = call /\ revision' # saved
        BY <2>3, <3>2 DEF nothingToWrite
      <4>2. QED
        BY <1>0, <2>1, <2>2, <2>4, <2>7, <2>8, <4>1 DEF MemInv, FlushOK
    <3>3. QED
      BY <3>1, <3>2
  <2>10. QED
    BY <2>5, <2>6, <2>9 DEF MemInv
<1>13. CASE FlushStep
  <2>1. UNCHANGED <<clock, user, ledger, snapshot, document, revision, up>>
    BY <1>13 DEF FlushStep, writeOptionalStatsFile, WriteFails, Publish, stats
  <2>2. /\ flusher.raw \in Documents /\ flusher.revision \in Nat /\ saved \in Nat
    BY Flushers DEF MemInv, StoreOK
  <2>3. CASE writeOptionalStatsFile
    <3>1. /\ file' = flusher.raw /\ flusher' = [flusher EXCEPT !.step = "written"]
          /\ UNCHANGED <<saved, mode>> /\ flusher.step = "write"
      BY <2>3 DEF writeOptionalStatsFile, stats
    <3>2. /\ flusher' \in [step : {"idle", "write", "written", "ended"}, raw : Documents,
                           revision : Nat, final : BOOLEAN]
          /\ flusher'.raw = flusher.raw /\ flusher'.revision = flusher.revision
          /\ flusher'.step = "written"
      BY <3>1, Flushers DEF MemInv, StoreOK
    <3>3. StoreOK'
      BY <1>0, <2>1, <2>2, <3>1, <3>2 DEF StoreOK
    <3>4. ValidOK'
      BY <2>1, <3>1, <3>2 DEF MemInv, ValidOK, Stored
    <3>5. FlushOK'
      BY <2>1, <3>1, <3>2 DEF MemInv, FlushOK
    <3>6. QED
      BY <3>3, <3>4, <3>5 DEF MemInv
  <2>4. CASE WriteFails \/ Publish
    <3>1. flusher' = AfterFlush(flusher) /\ file' = file
      BY <2>4 DEF WriteFails, Publish
    <3>2. saved' \in Nat
      BY <2>2, <2>4 DEF WriteFails, Publish, publish
    <3>3. StoreOK'
      BY <1>0, <2>1, <3>1, <3>2, FlushEnds DEF MemInv, StoreOK
    <3>4. ValidOK'
      BY <2>1, <3>1, FlushEnds, NewDocuments DEF MemInv, ValidOK, Stored
    <3>5. FlushOK'
      <4>1. CASE WriteFails
        BY <2>1, <3>1, <4>1, FlushEnds DEF MemInv, FlushOK, WriteFails
      <4>2. CASE Publish
        BY <1>0, <2>1, <2>2, <3>1, <4>2, FlushEnds DEF MemInv, FlushOK, Publish, publish
      <4>3. QED
        BY <2>4, <4>1, <4>2
    <3>6. QED
      BY <3>3, <3>4, <3>5 DEF MemInv
  <2>5. QED
    BY <1>13, <2>3, <2>4 DEF FlushStep
<1>14. CASE UNCHANGED vars
  BY <1>0, <1>1, <1>14 DEF vars, stats
<1>15. QED
  BY <1>2, <1>3, <1>4, <1>5, <1>6, <1>7, <1>8, <1>9, <1>10, <1>11, <1>12, <1>13, <1>14 DEF Next

-----------------------------------------------------------------------------
(* The rows and the calls. *)

RowInv == HandlersOK /\ RowsOK /\ AttemptOK /\ CallsOK

\* A step of one request.
Own(r) ==
    /\ ShapesOK'
    /\ \A q \in Requests \ {r} : /\ pc'[q] = pc[q] /\ attempt'[q] = attempt[q]
                                 /\ calls'[q] = calls[q] /\ locals'[q] = locals[q]

\* Rows stay of calls that were made, while requests go on and the documents are
\* those that were there.
LEMMA RowsCarry ==
    ASSUME StoreOK, RowsOK,
           \A doc \in Stored' : doc.requests = <<>> \/ \E old \in Stored : doc.requests = old.requests,
           \A q \in Requests : /\ pc'[q] = "new" => pc[q] = "new"
                               /\ pc'[q] \notin {"new", "gone"} =>
                                    pc[q] # "gone" /\ DOMAIN calls[q] \subseteq DOMAIN calls'[q]
    PROVE  RowsOK'
<1> SUFFICES ASSUME NEW doc \in Stored' PROVE RowsOf(doc)'
  BY DEF RowsOK
<1>1. CASE doc.requests = <<>>
  BY <1>1 DEF RowsOf
<1>2. CASE \E old \in Stored : doc.requests = old.requests
  <2>1. PICK old \in Stored : doc.requests = old.requests
    BY <1>2
  <2>2. old \in Documents
    BY Flushers DEF Stored, StoreOK
  <2>3. \A i \in DOMAIN old.requests : old.requests[i] \in RowSet
    BY <2>2, DocumentShape
  <2>4. \A i \in DOMAIN old.requests : old.requests[i].call[1] \in Requests
    BY <2>3 DEF RowSet, CallNumbers
  <2>5. RowsOf(old)
    BY DEF RowsOK
  <2>6. QED
    BY <2>1, <2>4, <2>5 DEF RowsOf
<1>3. QED
  BY <1>1, <1>2

\* The other requests do not see the step.
LEMMA OthersKept ==
    ASSUME AttemptOK, CallsOK, NEW r, Own(r), NEW q \in Requests \ {r},
           \A n \in Nat : /\ Rows(document', <<q, n>>) = Rows(document, <<q, n>>)
                          /\ \A i \in Rows(document, <<q, n>>) :
                                document'.requests[i] = document.requests[i]
    PROVE  AttemptOf(q)' /\ CallsOf(q)'
<1>1. /\ pc'[q] = pc[q] /\ attempt'[q] = attempt[q]
      /\ calls'[q] = calls[q] /\ locals'[q] = locals[q]
  BY DEF Own
<1>2. AttemptOf(q) /\ CallsOf(q)
  BY DEF AttemptOK, CallsOK
<1>3. calls[q] \in Seq(CallSet)
  BY <1>1 DEF Own, ShapesOK
<1>4. AttemptOf(q)'
  <2>1. Rows(document', <<q, Len(calls[q])>>) = Rows(document, <<q, Len(calls[q])>>)
    BY <1>3
  <2>2. QED
    BY <1>1, <1>2, <2>1, Zenon DEF AttemptOf, Open
<1>5. CallsOf(q)'
  BY <1>1, <1>2, <1>3 DEF CallsOf
<1>6. QED
  BY <1>4, <1>5

\* A step of a request that leaves the rows alone.
LEMMA QuietStep ==
    ASSUME StoreOK, RowInv, NEW r \in Requests, Own(r), HandlersOK',
           document'.requests = document.requests, UNCHANGED <<flusher, file>>,
           pc[r] # "gone", pc'[r] # "new", DOMAIN calls[r] \subseteq DOMAIN calls'[r],
           AttemptOf(r)', CallsOf(r)'
    PROVE  RowInv'
<1>1. \A c : Rows(document', c) = Rows(document, c)
  BY DEF Rows
<1>2. \A q \in Requests \ {r} : AttemptOf(q)' /\ CallsOf(q)'
  BY <1>1, OthersKept DEF RowInv
<1>3. \A doc \in Stored' : doc.requests = <<>> \/ \E old \in Stored : doc.requests = old.requests
  BY DEF Stored
<1>4. \A q \in Requests : /\ pc'[q] = "new" => pc[q] = "new"
                          /\ pc'[q] # "gone" => pc[q] # "gone" /\ DOMAIN calls[q] \subseteq DOMAIN calls'[q]
  BY DEF Own
<1>5. RowsOK'
  BY <1>3, <1>4, RowsCarry DEF RowInv
<1>6. AttemptOK' /\ CallsOK'
  BY <1>2 DEF AttemptOK, CallsOK
<1>7. QED
  BY <1>5, <1>6 DEF RowInv

\* A step of nobody.
LEMMA RowsRest ==
    ASSUME StoreOK, RowInv, UNCHANGED <<pc, locals, attempt, calls>>, up' = "down" => up = "down",
           document'.requests = document.requests,
           \A doc \in Stored' : doc.requests = <<>> \/ \E old \in Stored : doc.requests = old.requests
    PROVE  RowInv'
<1>1. \A c : Rows(document', c) = Rows(document, c)
  BY DEF Rows
<1>2. HandlersOK'
  BY DEF RowInv, HandlersOK, ShapesOK
<1>3. RowsOK'
  BY RowsCarry DEF RowInv
<1>4. AttemptOK'
  <2> SUFFICES ASSUME NEW r \in Requests PROVE AttemptOf(r)'
    BY DEF AttemptOK
  <2>1. /\ pc'[r] = pc[r] /\ attempt'[r] = attempt[r] /\ calls'[r] = calls[r] /\ locals'[r] = locals[r]
        /\ Rows(document', <<r, Len(calls[r])>>) = Rows(document, <<r, Len(calls[r])>>)
    BY <1>1
  <2>2. AttemptOf(r)
    BY DEF RowInv, AttemptOK
  <2>3. QED
    BY <2>1, <2>2, Zenon DEF AttemptOf, Open
<1>5. CallsOK'
  BY <1>1 DEF RowInv, CallsOK, CallsOf
<1>6. QED
  BY <1>2, <1>3, <1>4, <1>5 DEF RowInv

LEMMA RowsAfter ==
    ASSUME document \in Documents, NEW row \in RowSet,
           document'.requests = Append(document.requests, row)
    PROVE  LET new == Len(document.requests) + 1 IN
           /\ \A c : c # row.call => Rows(document', c) = Rows(document, c)
           /\ Rows(document', row.call) = Rows(document, row.call) \cup {new}
           /\ \A i \in DOMAIN document.requests : document'.requests[i] = document.requests[i]
           /\ document'.requests[new] = row
           /\ DOMAIN document'.requests = DOMAIN document.requests \cup {new}
           /\ new \notin DOMAIN document.requests
<1>1. document.requests \in Seq(RowSet)
  BY DocumentShape
<1> DEFINE new == Len(document.requests) + 1
<1>2. /\ \A i \in DOMAIN document.requests : document'.requests[i] = document.requests[i]
      /\ document'.requests[new] = row
      /\ DOMAIN document'.requests = DOMAIN document.requests \cup {new}
      /\ new \notin DOMAIN document.requests
  BY <1>1
<1> HIDE DEF new
<1>3. \A c : c # row.call => Rows(document', c) = Rows(document, c)
  BY <1>2 DEF Rows
<1>4. Rows(document', row.call) = Rows(document, row.call) \cup {new}
  BY <1>2 DEF Rows
<1>5. QED
  BY <1>2, <1>3, <1>4 DEF new

LEMMA FateSet ==
    ASSUME ShapesOK, NEW r \in Requests, NEW f \in Fates, Fate(r, f), calls[r] # <<>>
    PROVE  /\ calls' \in [Requests -> Seq(CallSet)]
           /\ \A q \in Requests \ {r} : calls'[q] = calls[q]
           /\ Len(calls'[r]) = Len(calls[r]) /\ DOMAIN calls'[r] = DOMAIN calls[r]
           /\ calls'[r] # <<>>
           /\ \A n \in DOMAIN calls[r] : n < Len(calls[r]) => calls'[r][n] = calls[r][n]
           /\ calls'[r][Len(calls[r])].fate = f
           /\ calls'[r][Len(calls[r])].account = calls[r][Len(calls[r])].account
<1> DEFINE k == Len(calls[r])
           c == [calls[r][k] EXCEPT !.fate = f]
           s == [calls[r] EXCEPT ![k] = c]
<1>1. calls[r] \in Seq(CallSet) /\ k \in DOMAIN calls[r] /\ k \in Nat \ {0}
  BY DEF ShapesOK
<1>2. calls[r][k] \in CallSet
  BY <1>1
<1>3. c \in CallSet /\ c.fate = f /\ c.account = calls[r][k].account
  BY <1>2 DEF CallSet
<1>4. calls' = [calls EXCEPT ![r] = s]
  BY DEF Fate
<1> HIDE DEF c
<1>5. s \in Seq(CallSet) /\ Len(s) = k /\ DOMAIN s = DOMAIN calls[r]
      /\ s[k] = c /\ \A n \in DOMAIN calls[r] : n # k => s[n] = calls[r][n]
  BY <1>1, <1>3
<1> HIDE DEF s, k
<1>6. calls' \in [Requests -> Seq(CallSet)] /\ calls'[r] = s /\ \A q \in Requests \ {r} : calls'[q] = calls[q]
  BY <1>4, <1>5 DEF ShapesOK
<1>7. s # <<>> /\ \A n \in DOMAIN calls[r] : n < k => n # k
  BY <1>1, <1>5
<1>8. QED
  BY <1>3, <1>5, <1>6, <1>7 DEF k

\* The last call of a request under way has no row.
LEMMA UnderWay ==
    ASSUME RowInv, NEW r \in Requests, pc[r] \in {"calling", "stream"}
    PROVE  /\ calls[r] # <<>> /\ calls[r] \in Seq(CallSet) /\ Open(r)
           /\ Len(calls[r]) \in DOMAIN calls[r] /\ Len(calls[r]) \in Nat \ {0}
           /\ attempt[r].call = <<r, Len(calls[r])>>
           /\ attempt[r].account = calls[r][Len(calls[r])].account
           /\ ~attempt[r].complete /\ ~attempt[r].ttft
           /\ Rows(document, <<r, Len(calls[r])>>) = {}
           /\ locals[r].status = "ok" /\ up # "down"
<1>1. AttemptOf(r) /\ calls[r] \in Seq(CallSet) /\ attempt[r] \in Attempts
      /\ locals[r].status = "ok" /\ up # "down"
  BY DEF RowInv, AttemptOK, HandlersOK, ShapesOK
<1>2. Open(r) /\ Last(calls[r]).fate = "open"
  BY <1>1 DEF AttemptOf
<1>3. /\ calls[r] # <<>> /\ attempt[r].call = <<r, Len(calls[r])>>
      /\ attempt[r].account = Last(calls[r]).account
      /\ Rows(document, <<r, Len(calls[r])>>) = {}
  BY <1>1, <1>2 DEF AttemptOf
<1>4. ~attempt[r].complete /\ ~attempt[r].ttft
  <2>1. /\ attempt[r].complete <=> Last(calls[r]).fate = "complete"
        /\ attempt[r].ttft => attempt[r].complete
    BY <1>1, <1>2 DEF AttemptOf
  <2>2. QED
    BY <1>2, <2>1
<1>5. Last(calls[r]) = calls[r][Len(calls[r])]
  BY DEF Last
<1>6. Len(calls[r]) \in DOMAIN calls[r] /\ Len(calls[r]) \in Nat \ {0}
  BY <1>1, <1>3
<1>7. QED
  BY <1>1, <1>2, <1>3, <1>4, <1>5, <1>6

\* A call comes to its end and leaves the row to the end of the request, or to none.
LEMMA FateQuiet ==
    ASSUME StoreOK, RowInv, NEW r \in Requests, NEW f \in {"failed", "broken", "complete"},
           NEW x \in {"choose", "end"}, x = "choose" => f = "broken",
           pc[r] \in {"calling", "stream"}, pc' = [pc EXCEPT ![r] = x], Fate(r, f),
           document'.requests = document.requests, UNCHANGED <<flusher, file, up>>,
           locals' \in [Requests -> LocalSet], attempt' \in [Requests -> Attempts],
           \A q \in Requests \ {r} : locals'[q] = locals[q] /\ attempt'[q] = attempt[q],
           attempt'[r].call = attempt[r].call, attempt'[r].account = attempt[r].account,
           attempt'[r].ttft => attempt'[r].complete, attempt'[r].complete <=> f = "complete",
           f = "complete" \/ x = "choose" => locals'[r].status = "ok"
    PROVE  RowInv'
<1> DEFINE k == Len(calls[r])
<1>1. ShapesOK
  BY DEF RowInv, HandlersOK
<1>2. /\ calls[r] # <<>> /\ calls[r] \in Seq(CallSet) /\ Open(r)
      /\ Len(calls[r]) \in DOMAIN calls[r] /\ Len(calls[r]) \in Nat \ {0}
      /\ attempt[r].call = <<r, Len(calls[r])>>
      /\ attempt[r].account = calls[r][Len(calls[r])].account
      /\ Rows(document, <<r, Len(calls[r])>>) = {}
      /\ up # "down"
  BY UnderWay
<1>3. /\ calls' \in [Requests -> Seq(CallSet)]
      /\ \A q \in Requests \ {r} : calls'[q] = calls[q]
      /\ Len(calls'[r]) = Len(calls[r]) /\ DOMAIN calls'[r] = DOMAIN calls[r]
      /\ calls'[r] # <<>>
      /\ \A n \in DOMAIN calls[r] : n < Len(calls[r]) => calls'[r][n] = calls[r][n]
      /\ calls'[r][Len(calls[r])].fate = f
      /\ calls'[r][Len(calls[r])].account = calls[r][Len(calls[r])].account
  <2>1. f \in Fates
    BY DEF Fates
  <2>2. QED
    BY <1>1, <1>2, <2>1, FateSet
<1>4. pc' \in [Requests -> Places] /\ pc'[r] = x /\ \A q \in Requests \ {r} : pc'[q] = pc[q]
  BY <1>1 DEF ShapesOK, Places
<1>5. Own(r)
  BY <1>3, <1>4 DEF Own, ShapesOK
<1>0. /\ k \in DOMAIN calls[r] /\ k \in Nat \ {0}
      /\ \A n \in DOMAIN calls[r] : n \in Nat /\ (n < k \/ n = k) /\ ~(k < k)
  BY <1>2
<1>6. HandlersOK'
  <2>1. attempt'[r].call # NoCall /\ attempt'[r].account \in Identities
    BY <1>2 DEF RowInv, HandlersOK, Open
  <2>2. up' # "down" /\ pc'[r] \in {"choose", "end"}
    BY <1>2, <1>4
  <2>3. pc'[r] = "choose" => locals'[r].status = "ok"
    BY <1>4
  <2>4. \A q \in Requests \ {r} :
          /\ attempt'[q].call # NoCall => attempt'[q].account \in Identities
          /\ pc'[q] \in {"new", "gone"} => calls'[q] = <<>> /\ attempt'[q].call = NoCall
          /\ pc'[q] \in {"calling", "refused", "stream"} => locals'[q].chosen \in Accounts
          /\ pc'[q] \in {"new", "choose", "calling", "stream", "refused"} => locals'[q].status = "ok"
    <3> SUFFICES ASSUME NEW q \in Requests \ {r}
                 PROVE  /\ attempt'[q].call # NoCall => attempt'[q].account \in Identities
                        /\ pc'[q] \in {"new", "gone"} => calls'[q] = <<>> /\ attempt'[q].call = NoCall
                        /\ pc'[q] \in {"calling", "refused", "stream"} => locals'[q].chosen \in Accounts
                        /\ pc'[q] \in {"new", "choose", "calling", "stream", "refused"} => locals'[q].status = "ok"
      OBVIOUS
    <3>1. pc'[q] = pc[q] /\ attempt'[q] = attempt[q] /\ calls'[q] = calls[q] /\ locals'[q] = locals[q]
      BY <1>5 DEF Own
    <3>2. QED
      BY <3>1 DEF RowInv, HandlersOK
  <2>5. ShapesOK'
    BY <1>5 DEF Own
  <2>6. QED
    BY <2>1, <2>2, <2>3, <2>4, <2>5 DEF HandlersOK
<1>7. \A c : Rows(document', c) = Rows(document, c)
  BY DEF Rows
<1>8. AttemptOf(r)'
  <2>1. Last(calls'[r]) = calls'[r][k] /\ Len(calls'[r]) = k
    BY <1>3 DEF Last
  <2>2. /\ Last(calls'[r]).fate = f /\ Last(calls'[r]).account = attempt'[r].account
        /\ attempt'[r].call = <<r, k>> /\ attempt'[r].call # NoCall
        /\ Rows(document', <<r, Len(calls'[r])>>) = {}
    <3>1. Last(calls'[r]).fate = f /\ Last(calls'[r]).account = attempt'[r].account
      BY <1>2, <1>3, <2>1
    <3>2. attempt'[r].call = <<r, k>> /\ attempt'[r].call # NoCall
      BY <1>2 DEF Open
    <3>3. Rows(document', <<r, Len(calls'[r])>>) = {}
      <4>1. Len(calls'[r]) = Len(calls[r]) /\ Rows(document, <<r, Len(calls[r])>>) = {}
        BY <1>2, <1>3
      <4>2. QED
        BY <1>7, <4>1, Zenon
    <3>4. QED
      BY <3>1, <3>2, <3>3
  <2>3. pc'[r] = x
    BY <1>4
  <2> HIDE DEF k
  <2>4. QED
    BY <1>3, <2>1, <2>2, <2>3 DEF AttemptOf, Open
<1>9. CallsOf(r)'
  <2>1. CallsOf(r)
    BY DEF RowInv, CallsOK
  <2>2. calls'[r][k].fate = f /\ Rows(document, <<r, k>>) = {} /\ Len(calls'[r]) = k
        /\ \A n \in DOMAIN calls[r] : n < k => calls'[r][n] = calls[r][n]
    BY <1>2, <1>3
  <2>3. \A n \in DOMAIN calls[r] : n < k =>
          /\ calls[r][n].fate \in {"refused", "broken"}
          /\ calls[r][n].fate = "refused" => Rows(document, <<r, n>>) # {}
          /\ \A i \in Rows(document, <<r, n>>) :
              LET row == document.requests[i] IN
              /\ row.account = calls[r][n].account
              /\ row.complete <=> calls[r][n].fate = "complete"
              /\ row.ttft => row.complete
    BY <2>1 DEF CallsOf
  <2>4. DOMAIN calls'[r] = DOMAIN calls[r]
    BY <1>3
  <2> HIDE DEF k
  <2>5. ASSUME NEW n \in DOMAIN calls'[r]
        PROVE  /\ n < k => calls'[r][n].fate \in {"refused", "broken"}
               /\ calls'[r][n].fate = "refused" => Rows(document, <<r, n>>) # {}
               /\ \A i \in Rows(document, <<r, n>>) :
                    /\ document.requests[i].account = calls'[r][n].account
                    /\ document.requests[i].complete <=> calls'[r][n].fate = "complete"
                    /\ document.requests[i].ttft => document.requests[i].complete
    <3>1. CASE n < k
      BY <2>2, <2>3, <2>4, <2>5, <3>1
    <3>2. CASE n = k
      BY <1>0, <2>2, <3>2
    <3>3. QED
      BY <1>0, <2>4, <2>5, <3>1, <3>2
  <2>6. QED
    BY <1>7, <2>2, <2>5 DEF CallsOf
<1>10. pc[r] # "gone" /\ pc'[r] # "new" /\ DOMAIN calls[r] \subseteq DOMAIN calls'[r]
  BY <1>3, <1>4
<1>11. QED
  BY <1>5, <1>6, <1>8, <1>9, <1>10, QuietStep

\* A request goes on, its calls as they were.
LEMMA Onward ==
    ASSUME StoreOK, RowInv, NEW r \in Requests, NEW x \in Places \ {"new", "gone"},
           pc[r] # "gone", up # "down", pc' = [pc EXCEPT ![r] = x],
           UNCHANGED <<calls, attempt, flusher, file, up>>,
           document'.requests = document.requests,
           locals' \in [Requests -> LocalSet], \A q \in Requests \ {r} : locals'[q] = locals[q],
           x \in {"calling", "refused", "stream"} => locals'[r].chosen \in Accounts,
           x \in {"new", "choose", "calling", "stream", "refused"} => locals'[r].status = "ok",
           pc'[r] = x => AttemptOf(r)'
    PROVE  RowInv'
<1>1. ShapesOK /\ HandlersOK
  BY DEF RowInv, HandlersOK
<1>2. pc' \in [Requests -> Places] /\ pc'[r] = x /\ \A q \in Requests \ {r} : pc'[q] = pc[q]
  BY <1>1 DEF ShapesOK
<1>3. Own(r)
  BY <1>1, <1>2 DEF Own, ShapesOK
<1>4. HandlersOK'
  <2>1. \A q \in Requests \ {r} : pc'[q] = pc[q] /\ locals'[q] = locals[q]
    BY <1>2
  <2>2. ShapesOK'
    BY <1>3 DEF Own
  <2> SUFFICES ASSUME NEW q \in Requests
               PROVE  /\ attempt'[q].call # NoCall => attempt'[q].account \in Identities
                      /\ pc'[q] \in {"new", "gone"} => calls'[q] = <<>> /\ attempt'[q].call = NoCall
                      /\ pc'[q] \in {"calling", "refused", "stream"} => locals'[q].chosen \in Accounts
                      /\ pc'[q] \in {"new", "choose", "calling", "stream", "refused"} => locals'[q].status = "ok"
                      /\ up' = "down" => pc'[q] \in {"new", "gone"}
    BY <2>2 DEF HandlersOK
  <2>3. CASE q = r
    BY <1>1, <1>2, <2>3 DEF HandlersOK
  <2>4. CASE q # r
    BY <1>1, <2>1, <2>4 DEF HandlersOK
  <2>5. QED
    BY <2>3, <2>4
<1>5. CallsOf(r)'
  <2>1. \A c : Rows(document', c) = Rows(document, c)
    BY DEF Rows
  <2>2. CallsOf(r)
    BY DEF RowInv, CallsOK
  <2>3. QED
    BY <2>1, <2>2 DEF CallsOf
<1>6. QED
  BY <1>2, <1>3, <1>4, <1>5, QuietStep

\* The rows of one call, while the document keeps its rows.
LEMMA RowsKept ==
    ASSUME document'.requests = document.requests
    PROVE  \A c : Rows(document', c) = Rows(document, c)
BY DEF Rows

LEMMA SnapshotRows ==
    ASSUME StoreOK, NEW l, captureAccountStats(l)
    PROVE  document'.requests = document.requests
<1>1. document = [accounts |-> document.accounts, requests |-> document.requests]
  BY DocumentShape DEF StoreOK
<1>2. QED
  BY <1>1 DEF captureAccountStats

\* A call is made: the one before has come to its end and there is no row of this one.
LEMMA CallMade ==
    ASSUME StoreOK, RowInv, NEW r \in Requests, NEW a \in Accounts, Call(r, a)
    PROVE  RowInv'
<1> DEFINE k == Len(calls[r]) + 1
           c == [account |-> statsAccountID(a), fate |-> "open"]
<1>1. ShapesOK /\ HandlersOK /\ AttemptOf(r) /\ CallsOf(r) /\ RowsOf(document)
  BY DEF RowInv, HandlersOK, AttemptOK, CallsOK, RowsOK, Stored
<1>2. /\ pc[r] = "choose" /\ up # "down" /\ locals[r].status = "ok"
      /\ calls[r] \in Seq(CallSet) /\ locals[r] \in LocalSet
  BY <1>1 DEF Call, Running, HandlersOK, ShapesOK
<1>3. statsAccountID(a) \in Identities /\ c \in CallSet
  BY DEF statsAccountID, Identities, StoreOK, CallSet, Fates
<1>4. /\ pc' = [pc EXCEPT ![r] = "calling"]
      /\ calls' = [calls EXCEPT ![r] = Append(calls[r], c)]
      /\ attempt' = [attempt EXCEPT ![r] = [call |-> <<r, k>>, account |-> statsAccountID(a),
                                            complete |-> FALSE, ttft |-> FALSE]]
      /\ locals' = [locals EXCEPT ![r].tried = locals[r].tried \cup {a}, ![r].chosen = a]
      /\ UNCHANGED <<document, flusher, file, up>>
  BY DEF Call, statsSelectAccount, stats
<1>5. k \in Nat \ {0} /\ <<r, k>> \in CallNumbers /\ <<r, k>> # NoCall
  <2>1. k \in Nat \ {0}
    BY <1>2
  <2> HIDE DEF k
  <2>2. QED
    BY <2>1, DataAssumption DEF CallNumbers
<1>6. /\ calls' \in [Requests -> Seq(CallSet)] /\ calls'[r] = Append(calls[r], c)
      /\ \A q \in Requests \ {r} : calls'[q] = calls[q]
  <2>1. Append(calls[r], c) \in Seq(CallSet)
    BY <1>2, <1>3
  <2> HIDE DEF c
  <2>2. QED
    BY <1>1, <1>4, <2>1 DEF ShapesOK
<1>7. /\ DOMAIN calls'[r] = DOMAIN calls[r] \cup {k} /\ Len(calls'[r]) = k /\ calls'[r] # <<>>
      /\ calls'[r][k] = c /\ \A n \in DOMAIN calls[r] : calls'[r][n] = calls[r][n] /\ n \in Nat /\ n < k
  BY <1>2, <1>3, <1>6
<1>8. /\ pc' \in [Requests -> Places] /\ pc'[r] = "calling"
      /\ \A q \in Requests \ {r} : pc'[q] = pc[q]
  BY <1>1, <1>4 DEF ShapesOK, Places
<1>9. /\ attempt' \in [Requests -> Attempts] /\ attempt'[r].call = <<r, k>>
      /\ attempt'[r].account = statsAccountID(a) /\ ~attempt'[r].complete /\ ~attempt'[r].ttft
      /\ \A q \in Requests \ {r} : attempt'[q] = attempt[q]
  <2> DEFINE new == [call |-> <<r, k>>, account |-> statsAccountID(a),
                     complete |-> FALSE, ttft |-> FALSE]
  <2> HIDE DEF k
  <2>1. /\ new \in Attempts /\ new.call = <<r, k>> /\ new.account = statsAccountID(a)
        /\ ~new.complete /\ ~new.ttft
    BY <1>3, <1>5 DEF Attempts
  <2>2. attempt' = [attempt EXCEPT ![r] = new]
    BY <1>4
  <2> HIDE DEF new
  <2>3. QED
    BY <1>1, <2>1, <2>2 DEF ShapesOK
<1>10. /\ locals' \in [Requests -> LocalSet] /\ locals'[r].status = "ok" /\ locals'[r].chosen \in Accounts
       /\ \A q \in Requests \ {r} : locals'[q] = locals[q]
  <2> DEFINE new == [locals[r] EXCEPT !.tried = locals[r].tried \cup {a}, !.chosen = a]
  <2>1. new \in LocalSet /\ new.status = "ok" /\ new.chosen \in Accounts
    BY <1>2 DEF LocalSet
  <2>2. locals' = [locals EXCEPT ![r] = new]
    BY <1>1, <1>4 DEF ShapesOK
  <2> HIDE DEF new
  <2>3. QED
    BY <1>1, <2>1, <2>2 DEF ShapesOK
<1>11. Own(r)
  BY <1>6, <1>8, <1>9, <1>10 DEF Own, ShapesOK
<1>12. HandlersOK'
  <2>1. ShapesOK'
    BY <1>11 DEF Own
  <2> SUFFICES ASSUME NEW q \in Requests
               PROVE  /\ attempt'[q].call # NoCall => attempt'[q].account \in Identities
                      /\ pc'[q] \in {"new", "gone"} => calls'[q] = <<>> /\ attempt'[q].call = NoCall
                      /\ pc'[q] \in {"calling", "refused", "stream"} => locals'[q].chosen \in Accounts
                      /\ pc'[q] \in {"new", "choose", "calling", "stream", "refused"} => locals'[q].status = "ok"
                      /\ up' = "down" => pc'[q] \in {"new", "gone"}
    BY <2>1 DEF HandlersOK
  <2>2. CASE q = r
    BY <1>2, <1>3, <1>4, <1>8, <1>9, <1>10, <2>2
  <2>3. CASE q # r
    <3>1. pc'[q] = pc[q] /\ attempt'[q] = attempt[q] /\ calls'[q] = calls[q] /\ locals'[q] = locals[q]
      BY <1>11, <2>3 DEF Own
    <3>2. QED
      BY <1>1, <1>4, <3>1 DEF HandlersOK
  <2>4. QED
    BY <2>2, <2>3
<1>13. Rows(document, <<r, k>>) = {}
  <2> SUFFICES ASSUME NEW i \in DOMAIN document.requests, document.requests[i].call = <<r, k>>
               PROVE  FALSE
    BY DEF Rows
  <2> HIDE DEF k
  <2>1. k \in DOMAIN calls[r]
    <3>1. pc[r] # "gone" => k \in DOMAIN calls[r]
      BY <1>1 DEF RowsOf
    <3>2. QED
      BY <1>2, <3>1
  <2>2. QED
    BY <1>5, <1>7, <2>1
<1>14. document'.requests = document.requests /\ \A d : Rows(document', d) = Rows(document, d)
  BY <1>4, RowsKept
<1>15. AttemptOf(r)'
  <2>1. Last(calls'[r]) = c
    BY <1>7 DEF Last
  <2>2. Last(calls'[r]).fate = "open" /\ Last(calls'[r]).account = statsAccountID(a)
    BY <2>1
  <2> HIDE DEF k, c
  <2>3. QED
    BY <1>5, <1>7, <1>8, <1>9, <1>13, <1>14, <2>2 DEF AttemptOf, Open
<1>16. CallsOf(r)'
  <2>1. \A n \in DOMAIN calls[r] : calls[r][n].fate \in {"refused", "broken"}
    <3> SUFFICES ASSUME NEW n \in DOMAIN calls[r] PROVE calls[r][n].fate \in {"refused", "broken"}
      OBVIOUS
    <3>1. CASE n < Len(calls[r])
      BY <1>1, <3>1 DEF CallsOf
    <3>2. CASE n = Len(calls[r])
      <4>1. Last(calls[r]) = calls[r][n] /\ calls[r] # <<>>
        BY <1>2, <3>2 DEF Last
      <4>2. QED
        BY <1>1, <1>2, <4>1 DEF AttemptOf
    <3>3. QED
      BY <1>2, <3>1, <3>2
  <2>2. c.fate = "open"
    OBVIOUS
  <2> HIDE DEF k, c
  <2>3. ASSUME NEW n \in DOMAIN calls'[r]
        PROVE  /\ n < k => calls'[r][n].fate \in {"refused", "broken"}
               /\ calls'[r][n].fate = "refused" => Rows(document, <<r, n>>) # {}
               /\ \A i \in Rows(document, <<r, n>>) :
                    /\ document.requests[i].account = calls'[r][n].account
                    /\ document.requests[i].complete <=> calls'[r][n].fate = "complete"
                    /\ document.requests[i].ttft => document.requests[i].complete
    <3>1. CASE n \in DOMAIN calls[r]
      <4>1. calls'[r][n] = calls[r][n]
        BY <1>7, <3>1
      <4>2. QED
        BY <1>1, <2>1, <3>1, <4>1 DEF CallsOf
    <3>2. CASE n = k
      BY <1>5, <1>7, <1>13, <2>2, <3>2
    <3>3. QED
      BY <1>7, <2>3, <3>1, <3>2
  <2>4. QED
    BY <1>7, <1>14, <2>3 DEF CallsOf
<1>17. pc[r] # "gone" /\ pc'[r] # "new" /\ DOMAIN calls[r] \subseteq DOMAIN calls'[r]
  BY <1>2, <1>7, <1>8
<1>18. QED
  BY <1>4, <1>11, <1>12, <1>14, <1>15, <1>16, <1>17, QuietStep

\* The attempt of a request becomes the row of its last call.
LEMMA RowFinished ==
    ASSUME StoreOK, RowInv, NEW r \in Requests, NEW code \in {"ok", "error"}, NEW f,
           Open(r), statsFinishAttempt(r, code), Own(r), HandlersOK',
           UNCHANGED <<flusher, file>>, pc[r] # "gone",
           pc'[r] \in {"refused", "done"}, pc'[r] = "refused" => f = "refused",
           calls'[r] # <<>>, Len(calls'[r]) = Len(calls[r]), DOMAIN calls'[r] = DOMAIN calls[r],
           \A n \in DOMAIN calls[r] : n < Len(calls[r]) => calls'[r][n] = calls[r][n],
           calls'[r][Len(calls[r])].fate = f,
           calls'[r][Len(calls[r])].account = calls[r][Len(calls[r])].account,
           (attempt[r].complete /\ code = "ok") <=> f = "complete",
           attempt[r].ttft => f = "complete"
    PROVE  RowInv'
<1> DEFINE k == Len(calls[r])
           row == [call |-> <<r, k>>, account |-> attempt[r].account,
                   at |-> clock, status |-> code,
                   complete |-> attempt[r].complete /\ code = "ok", ttft |-> attempt[r].ttft]
           new == Len(document.requests) + 1
<1>1. ShapesOK /\ HandlersOK /\ AttemptOf(r) /\ CallsOf(r) /\ RowsOK /\ document \in Documents
  BY DEF RowInv, HandlersOK, AttemptOK, CallsOK, StoreOK
<1>2. /\ calls[r] # <<>> /\ calls[r] \in Seq(CallSet) /\ attempt[r] \in Attempts
      /\ attempt[r].call = <<r, k>> /\ attempt[r].call # NoCall
      /\ attempt[r].account = Last(calls[r]).account /\ Last(calls[r]) = calls[r][k]
      /\ Rows(document, <<r, k>>) = {}
  BY <1>1 DEF AttemptOf, Open, ShapesOK, Last
<1>3. k \in Nat \ {0} /\ k \in DOMAIN calls[r]
      /\ \A n \in DOMAIN calls[r] : n \in Nat /\ (n < k \/ n = k) /\ ~(k < k)
  BY <1>2
<1>4. row \in RowSet
  <2>1. /\ attempt[r].account \in Identities /\ <<r, k>> \in CallNumbers
        /\ attempt[r].complete \in BOOLEAN /\ attempt[r].ttft \in BOOLEAN
    BY <1>1, <1>2, <1>3 DEF HandlersOK, Attempts, CallNumbers
  <2>2. clock \in Int
    BY DEF StoreOK
  <2> HIDE DEF k
  <2>3. QED
    BY <2>1, <2>2 DEF RowSet
<1>5. addRow(row) /\ attempt' = [attempt EXCEPT ![r] = NoAttempt]
  BY <1>2 DEF statsFinishAttempt
<1>6. /\ row.call = <<r, k>> /\ row.account = calls'[r][k].account
      /\ row.complete <=> f = "complete"
      /\ row.ttft => f = "complete"
  BY <1>2
<1> HIDE DEF row
<1>7. document'.requests = Append(document.requests, row)
  BY <1>4, <1>5, RowAdded
<1>8. /\ \A c : c # row.call => Rows(document', c) = Rows(document, c)
      /\ Rows(document', row.call) = Rows(document, row.call) \cup {new}
      /\ \A i \in DOMAIN document.requests : document'.requests[i] = document.requests[i]
      /\ document'.requests[new] = row
      /\ DOMAIN document'.requests = DOMAIN document.requests \cup {new}
      /\ new \notin DOMAIN document.requests
  BY <1>1, <1>4, <1>7, RowsAfter
<1> HIDE DEF new
<1>9. Rows(document', <<r, k>>) = {new}
  BY <1>2, <1>6, <1>8
<1>10. attempt'[r].call = NoCall
  BY <1>1, <1>5 DEF ShapesOK, NoAttempt
\* The rows of the new document.
<1>11. RowsOf(document)'
  <2> HIDE DEF k
  <2> SUFFICES ASSUME NEW i \in DOMAIN document'.requests
               PROVE  LET call == document'.requests[i].call IN
                      /\ pc'[call[1]] # "new"
                      /\ pc'[call[1]] # "gone" => call[2] \in DOMAIN calls'[call[1]]
                      /\ \A j \in DOMAIN document'.requests : document'.requests[j].call = call => j = i
    BY DEF RowsOf
  <2>1. CASE i = new
    <3>1. document'.requests[i].call = <<r, k>>
      BY <1>6, <1>8, <2>1
    <3>2. \A j \in DOMAIN document'.requests : document'.requests[j].call = <<r, k>> => j = i
      BY <1>9, <2>1 DEF Rows
    <3>3. QED
      BY <1>3, <3>1, <3>2
  <2>2. CASE i \in DOMAIN document.requests
    <3> DEFINE call == document.requests[i].call
    <3>1. document'.requests[i].call = call /\ document.requests[i] \in RowSet
      BY <1>1, <1>8, <2>2, DocumentShape
    <3>2. call[1] \in Requests
      BY <3>1 DEF RowSet, CallNumbers
    <3>3. /\ pc[call[1]] # "new"
          /\ pc[call[1]] # "gone" => call[2] \in DOMAIN calls[call[1]]
          /\ \A j \in DOMAIN document.requests : document.requests[j].call = call => j = i
      BY <1>1, <2>2 DEF RowsOK, RowsOf, Stored
    <3>4. call # row.call
      BY <1>2, <1>6, <2>2 DEF Rows
    <3>5. \A j \in DOMAIN document'.requests : document'.requests[j].call = call => j = i
      BY <1>8, <3>3, <3>4
    <3> HIDE DEF call
    <3>6. /\ pc'[call[1]] # "new"
          /\ pc'[call[1]] # "gone" => call[2] \in DOMAIN calls'[call[1]]
      BY <3>2, <3>3 DEF Own
    <3>7. QED
      BY <3>1, <3>5, <3>6
  <2>3. QED
    BY <1>8, <2>1, <2>2
\* Those of the others.
<1>12. ASSUME NEW doc \in Stored', doc # document' PROVE RowsOf(doc)'
  <2>1. doc \in Stored
    BY <1>12 DEF Stored
  <2>2. RowsOf(doc) /\ doc \in Documents
    BY <2>1, Flushers DEF Stored, StoreOK, RowInv, RowsOK
  <2>3. \A i \in DOMAIN doc.requests : doc.requests[i] \in RowSet
    BY <2>2, DocumentShape
  <2>4. \A i \in DOMAIN doc.requests : doc.requests[i].call[1] \in Requests
    BY <2>3 DEF RowSet, CallNumbers
  <2>5. \A q \in Requests : /\ pc'[q] = "new" => pc[q] = "new"
                            /\ pc'[q] # "gone" => pc[q] # "gone" /\ DOMAIN calls[q] \subseteq DOMAIN calls'[q]
    BY DEF Own
  <2>6. QED
    BY <2>2, <2>4, <2>5 DEF RowsOf
<1>13. RowsOK'
  BY <1>11, <1>12 DEF RowsOK
<1>14. AttemptOf(r)'
  <2>1. Last(calls'[r]).fate = f
    BY DEF Last
  <2>2. Rows(document', <<r, Len(calls'[r])>>) # {}
    BY <1>9
  <2>3. QED
    BY <1>10, <2>1, <2>2 DEF AttemptOf, Open
<1>15. CallsOf(r)'
  <2> HIDE DEF k
  <2>1. ASSUME NEW n \in DOMAIN calls'[r]
        PROVE  /\ n < k => calls'[r][n].fate \in {"refused", "broken"}
               /\ calls'[r][n].fate = "refused" => Rows(document', <<r, n>>) # {}
               /\ \A i \in Rows(document', <<r, n>>) :
                    /\ document'.requests[i].account = calls'[r][n].account
                    /\ document'.requests[i].complete <=> calls'[r][n].fate = "complete"
                    /\ document'.requests[i].ttft => document'.requests[i].complete
    <3>1. CASE n = k
      <4>1. calls'[r][k].fate = f
        BY DEF k
      <4>2. QED
        BY <1>3, <1>6, <1>8, <1>9, <3>1, <4>1
    <3>2. CASE n < k /\ n # k
      <4>1. <<r, n>> # row.call
        BY <1>6, <3>2
      <4>2. Rows(document', <<r, n>>) = Rows(document, <<r, n>>)
        BY <1>8, <4>1
      <4>3. \A i \in Rows(document, <<r, n>>) : document'.requests[i] = document.requests[i]
        BY <1>8 DEF Rows
      <4>4. calls'[r][n] = calls[r][n] /\ n \in DOMAIN calls[r] /\ n < Len(calls[r])
        BY <2>1, <3>2 DEF k
      <4>5. QED
        BY <1>1, <4>2, <4>3, <4>4 DEF CallsOf
    <3>3. QED
      BY <1>3, <2>1, <3>1, <3>2
  <2>2. QED
    BY <2>1 DEF CallsOf, k
<1>16. ASSUME NEW q \in Requests \ {r} PROVE AttemptOf(q)' /\ CallsOf(q)'
  <2>1. \A n \in Nat : <<q, n>> # row.call
    BY <1>6
  <2>2. \A n \in Nat : /\ Rows(document', <<q, n>>) = Rows(document, <<q, n>>)
                       /\ \A i \in Rows(document, <<q, n>>) :
                             document'.requests[i] = document.requests[i]
    BY <1>8, <2>1 DEF Rows
  <2>3. QED
    BY <2>2, OthersKept DEF RowInv
<1>17. QED
  BY <1>13, <1>14, <1>15, <1>16 DEF RowInv, AttemptOK, CallsOK

\* The process is down: no request is under way.
LEMMA NobodyRuns ==
    ASSUME StoreOK, RowInv, ShapesOK',
           \A doc \in Stored' : doc.requests = <<>> \/ \E old \in Stored : doc.requests = old.requests,
           \A q \in Requests : /\ pc'[q] \in {"new", "gone"} /\ (pc'[q] = "new" => pc[q] = "new")
                               /\ calls'[q] = <<>> /\ attempt'[q].call = NoCall
                               /\ pc'[q] = "new" => locals'[q].status = "ok"
    PROVE  RowInv'
<1>1. HandlersOK'
  BY DEF HandlersOK
<1>2. RowsOK'
  BY RowsCarry DEF RowInv
<1>3. AttemptOK' /\ CallsOK'
  BY DEF AttemptOK, AttemptOf, Open, CallsOK, CallsOf
<1>4. QED
  BY <1>1, <1>2, <1>3 DEF RowInv

\* The handlers after a step of one request that has left its attempt behind.
LEMMA OthersHandled ==
    ASSUME HandlersOK, NEW r \in Requests, Own(r), up' = up, up # "down",
           attempt'[r].call = NoCall, pc'[r] \in {"refused", "done"},
           pc'[r] = "refused" => locals'[r].chosen \in Accounts /\ locals'[r].status = "ok"
    PROVE  HandlersOK'
<1>1. ShapesOK'
  BY DEF Own
<1> SUFFICES ASSUME NEW q \in Requests
             PROVE  /\ attempt'[q].call # NoCall => attempt'[q].account \in Identities
                    /\ pc'[q] \in {"new", "gone"} => calls'[q] = <<>> /\ attempt'[q].call = NoCall
                    /\ pc'[q] \in {"calling", "refused", "stream"} => locals'[q].chosen \in Accounts
                    /\ pc'[q] \in {"new", "choose", "calling", "stream", "refused"} => locals'[q].status = "ok"
                    /\ up' = "down" => pc'[q] \in {"new", "gone"}
  BY <1>1 DEF HandlersOK
<1>2. CASE q = r
  BY <1>2
<1>3. CASE q # r
  <2>1. pc'[q] = pc[q] /\ attempt'[q] = attempt[q] /\ calls'[q] = calls[q] /\ locals'[q] = locals[q]
    BY <1>3 DEF Own
  <2>2. QED
    BY <2>1 DEF HandlersOK
<1>4. QED
  BY <1>2, <1>3

-----------------------------------------------------------------------------
(* The invariant. *)

LEMMA RowStep == MemInv /\ RowInv /\ [Next]_vars => RowInv'
<1> SUFFICES ASSUME MemInv, RowInv, [Next]_vars PROVE RowInv'
  OBVIOUS
<1>0. StoreOK /\ HandlersOK /\ ShapesOK
  BY DEF MemInv, RowInv, HandlersOK
\* What no request does.
<1>1. CASE Signal \/ Drained \/ Tick \/ Snapshot \/ Flush \/ FlushStep \/ UNCHANGED vars
           \/ \E a \in Accounts : QuotaBack(a) \/ \E u \in Users : Login(a, u)
  <2>1. UNCHANGED <<pc, locals, attempt, calls>> /\ (up' = "down" => up = "down")
    BY <1>1 DEF Signal, Drained, Tick, Snapshot, Flush, FlushStep, writeOptionalStatsFile,
       WriteFails, Publish, QuotaBack, Login, vars, handler, history
  <2>2. document'.requests = document.requests
    <3>1. CASE Snapshot \/ Flush
      BY <1>0, <3>1, SnapshotRows DEF Snapshot, Flush, writeStatusSnapshot
    <3>2. CASE document' = document
      BY <3>2
    <3>3. QED
      BY <1>1, <3>1, <3>2 DEF Signal, Drained, Tick, FlushStep, writeOptionalStatsFile,
         WriteFails, Publish, QuotaBack, Login, vars, stats
  <2>3. /\ flusher' = flusher \/ flusher'.raw \in {document', flusher.raw, NewDocument}
        /\ file' \in {file, flusher.raw}
    <3>1. CASE Flush
      <4> DEFINE call == [step |-> "write", raw |-> document', revision |-> revision',
                          final |-> up = "stopping"]
      <4>1. flusher' \in {AfterFlush(call), call} /\ file' = file
        BY <3>1 DEF Flush
      <4>2. call.raw = document'
        OBVIOUS
      <4>3. QED
        BY <4>1, <4>2, FlushEnds
    <3>2. CASE writeOptionalStatsFile
      BY <1>0, <3>2, Flushers DEF writeOptionalStatsFile, StoreOK
    <3>3. CASE WriteFails \/ Publish
      <4>1. flusher' = AfterFlush(flusher) /\ file' = file
        BY <3>3 DEF WriteFails, Publish
      <4>2. QED
        BY <4>1, FlushEnds
    <3>4. CASE UNCHANGED <<flusher, file>>
      BY <3>4
    <3>5. QED
      BY <1>1, <3>1, <3>2, <3>3, <3>4 DEF Signal, Drained, Tick, Snapshot, FlushStep,
         QuotaBack, Login, vars
  <2>4. \A doc \in Stored' : doc.requests = <<>> \/ \E old \in Stored : doc.requests = old.requests
    BY <2>2, <2>3, NewDocuments DEF Stored
  <2>5. QED
    BY <1>0, <2>1, <2>2, <2>4, RowsRest
\* Start and end of the process.
<1>2. CASE Start
  <2>1. /\ UNCHANGED <<pc, locals, attempt, calls, flusher, file>> /\ up = "down"
        /\ document' = NewDocument \/ (document' = file /\ file \notin {NoFile, BadFile})
    BY <1>2 DEF Start, loadOptionalStats, handler, history
  <2>2. \A doc \in Stored' : doc.requests = <<>> \/ \E old \in Stored : doc.requests = old.requests
    BY <2>1, NewDocuments DEF Stored
  <2>3. ShapesOK'
    BY <1>0, <2>1 DEF ShapesOK
  <2>4. \A q \in Requests : /\ pc'[q] \in {"new", "gone"} /\ (pc'[q] = "new" => pc[q] = "new")
                            /\ calls'[q] = <<>> /\ attempt'[q].call = NoCall
                            /\ pc'[q] = "new" => locals'[q].status = "ok"
    BY <1>0, <2>1 DEF HandlersOK
  <2>5. QED
    BY <1>0, <2>2, <2>3, <2>4, NobodyRuns
<1>3. CASE Crash \/ Exit
  <2>1. Die
    BY <1>3 DEF Crash, Exit
  <2>2. /\ document' = NewDocument /\ flusher' = NoFlush /\ file' = file
        /\ pc' = [q \in Requests |-> IF pc[q] = "new" THEN "new" ELSE "gone"]
        /\ attempt' = [q \in Requests |-> NoAttempt] /\ locals' = [q \in Requests |-> NoLocals]
        /\ calls' = [q \in Requests |-> <<>>]
    BY <2>1 DEF Die
  <2>3. \A doc \in Stored' : doc.requests = <<>> \/ \E old \in Stored : doc.requests = old.requests
    BY <2>2, NewDocuments DEF Stored, NoFlush
  <2>4. NoAttempt \in Attempts /\ NoAttempt.call = NoCall
        /\ NoLocals \in LocalSet /\ NoLocals.status = "ok"
    BY DEF NoAttempt, Attempts, NoLocals, LocalSet
  <2>5. ShapesOK'
    BY <2>2, <2>4 DEF ShapesOK, Places
  <2>6. \A q \in Requests : /\ pc'[q] \in {"new", "gone"} /\ (pc'[q] = "new" => pc[q] = "new")
                            /\ calls'[q] = <<>> /\ attempt'[q].call = NoCall
                            /\ pc'[q] = "new" => locals'[q].status = "ok"
    BY <2>2, <2>4
  <2>7. QED
    BY <1>0, <2>3, <2>5, <2>6, NobodyRuns
\* The steps of a request.
<1>4. ASSUME NEW r \in Requests, NEW a \in Accounts, Call(r, a) PROVE RowInv'
  BY <1>0, <1>4, CallMade
<1>5. ASSUME NEW r \in Requests, Begin(r) PROVE RowInv'
  <2>1. AttemptOf(r) /\ calls[r] = <<>> /\ attempt[r].call = NoCall /\ locals[r].status = "ok"
    BY <1>0, <1>5 DEF RowInv, AttemptOK, HandlersOK, Begin
  <2>2. /\ pc[r] = "new" /\ up # "down" /\ pc' = [pc EXCEPT ![r] = "choose"]
        /\ UNCHANGED <<calls, attempt, locals, flusher, file, up, document>>
    BY <1>5 DEF Begin, stats, history
  <2>3. pc'[r] = "choose" => AttemptOf(r)'
    BY <2>1, <2>2 DEF AttemptOf, Open
  <2>4. "choose" \in Places
    BY DEF Places
  <2>5. QED
    BY <1>0, <2>1, <2>2, <2>3, <2>4, Onward DEF ShapesOK
<1>6. ASSUME NEW r \in Requests, Answered(r) \/ observeFirstToken(r) PROVE RowInv'
  <2>1. /\ pc[r] \in {"calling", "stream"} /\ up # "down" /\ pc' = [pc EXCEPT ![r] = "stream"]
        /\ \E b \in BOOLEAN : locals' = [locals EXCEPT ![r].firstToken = b]
        /\ UNCHANGED <<calls, attempt, flusher, file, up, document>>
    BY <1>0, <1>6 DEF Answered, observeFirstToken, Running, stats, history, ShapesOK
  <2>2. /\ locals[r] \in LocalSet /\ locals[r].status = "ok" /\ locals[r].chosen \in Accounts
        /\ AttemptOf(r)
    BY <1>0, <2>1 DEF RowInv, AttemptOK, HandlersOK, ShapesOK
  <2>3. PICK b \in BOOLEAN : locals' = [locals EXCEPT ![r].firstToken = b]
    BY <2>1
  <2> DEFINE new == [locals[r] EXCEPT !.firstToken = b]
  <2>4. new \in LocalSet /\ new.status = "ok" /\ new.chosen = locals[r].chosen
    BY <2>2 DEF LocalSet
  <2>5. locals' = [locals EXCEPT ![r] = new]
    BY <1>0, <2>3 DEF ShapesOK
  <2> HIDE DEF new
  <2>6. /\ locals' \in [Requests -> LocalSet] /\ locals'[r] = new
        /\ \A q \in Requests \ {r} : locals'[q] = locals[q]
    BY <1>0, <2>4, <2>5 DEF ShapesOK
  <2>7. pc'[r] = "stream" => AttemptOf(r)'
    BY <2>1, <2>2, <2>4, <2>6 DEF AttemptOf, Open
  <2>8. "stream" \in Places
    BY DEF Places
  <2>9. QED
    BY <1>0, <2>1, <2>2, <2>4, <2>6, <2>7, <2>8, Onward
<1>7. ASSUME NEW r \in Requests, markModelQuotaBlocked(r) \/ RefusedOtherwise(r) \/ NoAccountLeft(r)
      PROVE  RowInv'
  <2>1. PICK x \in {"choose", "end"} :
          /\ pc[r] \in {"choose", "refused"} /\ up # "down" /\ pc' = [pc EXCEPT ![r] = x]
          /\ x = "choose" => pc[r] = "refused" /\ locals' = locals
          /\ locals' = locals \/ \E s \in {"ok", "error"} : locals' = [locals EXCEPT ![r].status = s]
          /\ UNCHANGED <<calls, attempt, flusher, file, up>>
    BY <1>7 DEF markModelQuotaBlocked, RefusedOtherwise, NoAccountLeft, Fail, Running, history
  <2>2. locals[r] \in LocalSet /\ locals[r].status = "ok" /\ AttemptOf(r)
    BY <1>0, <2>1 DEF RowInv, AttemptOK, HandlersOK, ShapesOK
  <2>3. document'.requests = document.requests
    BY <1>0, <1>7, SnapshotRows DEF markModelQuotaBlocked, writeStatusSnapshot,
       RefusedOtherwise, NoAccountLeft, stats
  <2>4. /\ locals' \in [Requests -> LocalSet]
        /\ \A q \in Requests \ {r} : locals'[q] = locals[q]
    <3>1. CASE locals' = locals
      BY <1>0, <3>1 DEF ShapesOK
    <3>2. ASSUME NEW s \in {"ok", "error"}, locals' = [locals EXCEPT ![r].status = s]
          PROVE  /\ locals' \in [Requests -> LocalSet]
                 /\ \A q \in Requests \ {r} : locals'[q] = locals[q]
      <4> DEFINE new == [locals[r] EXCEPT !.status = s]
      <4>1. new \in LocalSet
        BY <2>2 DEF LocalSet
      <4>2. locals' = [locals EXCEPT ![r] = new]
        BY <1>0, <3>2 DEF ShapesOK
      <4> HIDE DEF new
      <4>3. QED
        BY <1>0, <4>1, <4>2 DEF ShapesOK
    <3>3. QED
      BY <2>1, <3>1, <3>2
  <2>5. pc'[r] = x => AttemptOf(r)'
    <3>1. \A c : Rows(document', c) = Rows(document, c)
      BY <2>3, RowsKept
    <3>2. x = "choose" => ~Open(r)
      BY <2>1, <2>2 DEF AttemptOf
    <3>3. Open(r) => Last(calls[r]).fate = "broken"
      BY <2>1, <2>2 DEF AttemptOf
    <3>4. QED
      BY <2>1, <2>2, <3>1, <3>2, <3>3 DEF AttemptOf, Open
  <2>6. x \in Places \ {"new", "gone"}
    BY DEF Places
  <2>7. QED
    BY <1>0, <2>1, <2>2, <2>3, <2>4, <2>5, <2>6, Onward
<1>8. ASSUME NEW r \in Requests, NetworkError(r) PROVE RowInv'
  <2>1. /\ pc[r] = "calling" /\ pc' = [pc EXCEPT ![r] = "end"] /\ Fate(r, "failed")
        /\ \E s \in {"ok", "error"} : locals' = [locals EXCEPT ![r].status = s]
        /\ UNCHANGED <<document, attempt, flusher, file, up>>
    BY <1>8 DEF NetworkError, Fail, stats
  <2>2. PICK s \in {"ok", "error"} : locals' = [locals EXCEPT ![r].status = s]
    BY <2>1
  <2> DEFINE new == [locals[r] EXCEPT !.status = s]
  <2>3. new \in LocalSet
    BY <1>0 DEF ShapesOK, LocalSet
  <2>4. locals' = [locals EXCEPT ![r] = new]
    BY <1>0, <2>2 DEF ShapesOK
  <2> HIDE DEF new
  <2>5. /\ locals' \in [Requests -> LocalSet]
        /\ \A q \in Requests \ {r} : locals'[q] = locals[q]
    BY <1>0, <2>3, <2>4 DEF ShapesOK
  <2>6. ~attempt[r].complete /\ ~attempt[r].ttft
    BY <2>1, UnderWay
  <2>7. attempt' \in [Requests -> Attempts]
    BY <1>0, <2>1 DEF ShapesOK
  <2>8. QED
    BY <1>0, <2>1, <2>5, <2>6, <2>7, FateQuiet
<1>9. ASSUME NEW r \in Requests, Replay(r) PROVE RowInv'
  <2> DEFINE new == [NoLocals EXCEPT !.replayed = TRUE]
  <2>1. /\ pc[r] = "stream" /\ pc' = [pc EXCEPT ![r] = "choose"] /\ Fate(r, "broken")
        /\ locals' = [locals EXCEPT ![r] = new]
        /\ UNCHANGED <<document, attempt, flusher, file, up>>
    BY <1>9 DEF Replay, stats
  <2>2. new \in LocalSet /\ new.status = "ok"
    BY DEF NoLocals, LocalSet
  <2> HIDE DEF new
  <2>3. /\ locals' \in [Requests -> LocalSet] /\ locals'[r].status = "ok"
        /\ \A q \in Requests \ {r} : locals'[q] = locals[q]
    BY <1>0, <2>1, <2>2 DEF ShapesOK
  <2>4. ~attempt[r].complete /\ ~attempt[r].ttft
    BY <2>1, UnderWay
  <2>5. attempt' \in [Requests -> Attempts]
    BY <1>0, <2>1 DEF ShapesOK
  <2>6. QED
    BY <1>0, <2>1, <2>3, <2>4, <2>5, FateQuiet
<1>10. ASSUME NEW r \in Requests, NEW whole \in BOOLEAN, finishFirstToken(r, whole),
              pc[r] = "stream"
       PROVE  /\ attempt' \in [Requests -> Attempts]
              /\ \A q \in Requests \ {r} : attempt'[q] = attempt[q]
              /\ attempt'[r].call = attempt[r].call /\ attempt'[r].account = attempt[r].account
              /\ attempt'[r].complete = whole /\ (attempt'[r].ttft => whole)
  <2> DEFINE first == whole /\ locals[r].firstToken
             new == [attempt[r] EXCEPT !.complete = whole, !.ttft = first]
  <2>1. first \in BOOLEAN /\ (first => whole)
    OBVIOUS
  <2>2. attempt' = [attempt EXCEPT ![r] = new]
    BY <1>0, <1>10 DEF finishFirstToken, ShapesOK
  <2> HIDE DEF first
  <2>3. /\ new \in Attempts /\ new.call = attempt[r].call /\ new.account = attempt[r].account
        /\ new.complete = whole /\ new.ttft = first
    <3>1. attempt[r] \in Attempts
      BY <1>0 DEF ShapesOK
    <3>2. QED
      BY <2>1, <3>1 DEF Attempts
  <2> HIDE DEF new
  <2>4. QED
    BY <1>0, <2>1, <2>2, <2>3 DEF ShapesOK
<1>11. ASSUME NEW r \in Requests, CutOff(r) PROVE RowInv'
  <2>1. /\ pc[r] = "stream" /\ pc' = [pc EXCEPT ![r] = "end"] /\ Fate(r, "broken")
        /\ finishFirstToken(r, FALSE)
        /\ locals' = locals \/ locals' = [locals EXCEPT ![r].status = "error"]
        /\ UNCHANGED <<document, flusher, file, up>>
    BY <1>11 DEF CutOff, stats
  <2>2. /\ locals' \in [Requests -> LocalSet]
        /\ \A q \in Requests \ {r} : locals'[q] = locals[q]
    <3>1. CASE locals' = locals
      BY <1>0, <3>1 DEF ShapesOK
    <3>2. CASE locals' = [locals EXCEPT ![r].status = "error"]
      <4> DEFINE new == [locals[r] EXCEPT !.status = "error"]
      <4>1. new \in LocalSet
        BY <1>0 DEF ShapesOK, LocalSet
      <4>2. locals' = [locals EXCEPT ![r] = new]
        BY <1>0, <3>2 DEF ShapesOK
      <4> HIDE DEF new
      <4>3. QED
        BY <1>0, <4>1, <4>2 DEF ShapesOK
    <3>3. QED
      BY <2>1, <3>1, <3>2
  <2>3. /\ attempt' \in [Requests -> Attempts]
        /\ \A q \in Requests \ {r} : attempt'[q] = attempt[q]
        /\ attempt'[r].call = attempt[r].call /\ attempt'[r].account = attempt[r].account
        /\ attempt'[r].complete = FALSE /\ (attempt'[r].ttft => FALSE)
    BY <1>10, <2>1
  <2>4. QED
    BY <1>0, <2>1, <2>2, <2>3, FateQuiet
<1>12. ASSUME NEW r \in Requests, NEW credit \in Credits, Complete(r, credit) PROVE RowInv'
  <2>1. /\ pc[r] = "stream" /\ pc' = [pc EXCEPT ![r] = "end"] /\ Fate(r, "complete")
        /\ finishFirstToken(r, TRUE)
        /\ UNCHANGED <<locals, flusher, file, up>>
        /\ document' = document \/ captureAccountStats(Learn(r, credit))
    BY <1>12 DEF Complete, writeStatusSnapshot
  <2>2. document'.requests = document.requests
    BY <1>0, <2>1, SnapshotRows
  <2>3. locals' \in [Requests -> LocalSet] /\ locals'[r].status = "ok"
    BY <1>0, <2>1 DEF ShapesOK, HandlersOK
  <2>4. /\ attempt' \in [Requests -> Attempts]
        /\ \A q \in Requests \ {r} : attempt'[q] = attempt[q]
        /\ attempt'[r].call = attempt[r].call /\ attempt'[r].account = attempt[r].account
        /\ attempt'[r].complete = TRUE
    BY <1>10, <2>1
  <2>5. QED
    BY <1>0, <2>1, <2>2, <2>3, <2>4, FateQuiet
\* The attempt ends with a row, if there is one.
<1>13. ASSUME NEW r \in Requests, NEW code, statsFinishAttempt(r, code)
       PROVE  /\ attempt' \in [Requests -> Attempts] /\ attempt'[r].call = NoCall
              /\ \A q \in Requests \ {r} : attempt'[q] = attempt[q]
  <2>1. NoAttempt \in Attempts /\ NoAttempt.call = NoCall
    BY DEF NoAttempt, Attempts
  <2>2. \/ attempt' = attempt /\ attempt[r].call = NoCall
        \/ attempt' = [attempt EXCEPT ![r] = NoAttempt]
    BY <1>13 DEF statsFinishAttempt
  <2>3. QED
    BY <1>0, <2>1, <2>2 DEF ShapesOK
<1>14. ASSUME NEW r \in Requests, Refused(r) PROVE RowInv'
  <2>1. /\ pc[r] = "calling" /\ pc' = [pc EXCEPT ![r] = "refused"] /\ Fate(r, "refused")
        /\ statsFinishAttempt(r, "error") /\ UNCHANGED <<locals, flusher, file, up>>
    BY <1>14 DEF Refused
  <2>2. /\ calls[r] # <<>> /\ Open(r) /\ ~attempt[r].complete /\ ~attempt[r].ttft /\ up # "down"
    BY <2>1, UnderWay
  <2>3. /\ calls' \in [Requests -> Seq(CallSet)]
        /\ \A q \in Requests \ {r} : calls'[q] = calls[q]
        /\ Len(calls'[r]) = Len(calls[r]) /\ DOMAIN calls'[r] = DOMAIN calls[r]
        /\ calls'[r] # <<>>
        /\ \A n \in DOMAIN calls[r] : n < Len(calls[r]) => calls'[r][n] = calls[r][n]
        /\ calls'[r][Len(calls[r])].fate = "refused"
        /\ calls'[r][Len(calls[r])].account = calls[r][Len(calls[r])].account
    <3>1. "refused" \in Fates
      BY DEF Fates
    <3>2. QED
      BY <1>0, <2>1, <2>2, <3>1, FateSet
  <2>4. /\ attempt' \in [Requests -> Attempts] /\ attempt'[r].call = NoCall
        /\ \A q \in Requests \ {r} : attempt'[q] = attempt[q]
    BY <1>13, <2>1
  <2>5. pc' \in [Requests -> Places] /\ pc'[r] = "refused" /\ \A q \in Requests \ {r} : pc'[q] = pc[q]
    BY <1>0, <2>1 DEF ShapesOK, Places
  <2>6. Own(r)
    BY <1>0, <2>1, <2>3, <2>4, <2>5 DEF Own, ShapesOK
  <2>7. locals'[r].chosen \in Accounts /\ locals'[r].status = "ok"
    BY <1>0, <2>1 DEF HandlersOK
  <2>8. HandlersOK'
    BY <1>0, <2>1, <2>2, <2>4, <2>5, <2>6, <2>7, OthersHandled
  <2>9. QED
    BY <1>0, <2>1, <2>2, <2>3, <2>5, <2>6, <2>8, RowFinished
<1>15. ASSUME NEW r \in Requests, Return(r) PROVE RowInv'
  <2>1. /\ pc[r] = "end" /\ pc' = [pc EXCEPT ![r] = "done"] /\ up # "down"
        /\ statsFinishAttempt(r, locals[r].status) /\ locals' = [locals EXCEPT ![r] = NoLocals]
        /\ UNCHANGED <<calls, flusher, file, up>>
    BY <1>15 DEF Return, Running, history
  <2>2. /\ locals' \in [Requests -> LocalSet] /\ \A q \in Requests \ {r} : locals'[q] = locals[q]
    <3>1. NoLocals \in LocalSet
      BY DEF NoLocals, LocalSet
    <3>2. QED
      BY <1>0, <2>1, <3>1 DEF ShapesOK
  <2>3. /\ attempt' \in [Requests -> Attempts] /\ attempt'[r].call = NoCall
        /\ \A q \in Requests \ {r} : attempt'[q] = attempt[q]
    BY <1>13, <2>1
  <2>4. pc' \in [Requests -> Places] /\ pc'[r] = "done" /\ \A q \in Requests \ {r} : pc'[q] = pc[q]
    BY <1>0, <2>1 DEF ShapesOK, Places
  <2>5. Own(r)
    BY <1>0, <2>1, <2>2, <2>3, <2>4 DEF Own, ShapesOK
  <2>6. HandlersOK'
    BY <1>0, <2>1, <2>3, <2>4, <2>5, OthersHandled
  <2>7. AttemptOf(r) /\ CallsOf(r) /\ locals[r].status \in {"ok", "error"} /\ calls[r] \in Seq(CallSet)
    BY <1>0 DEF RowInv, AttemptOK, CallsOK, ShapesOK, LocalSet
  <2>8. CASE ~Open(r)
    <3>1. document' = document /\ \A c : Rows(document', c) = Rows(document, c)
      BY <2>1, <2>8 DEF statsFinishAttempt, Open
    <3>2. AttemptOf(r)' /\ CallsOf(r)'
      BY <2>1, <2>3, <2>4, <2>7, <2>8, <3>1 DEF AttemptOf, CallsOf, Open
    <3>3. QED
      BY <1>0, <2>1, <2>4, <2>5, <2>6, <3>1, <3>2, QuietStep
  <2>9. CASE Open(r)
    <3> DEFINE f == calls[r][Len(calls[r])].fate
    <3>1. f = Last(calls[r]).fate
      BY DEF Last
    <3>2. /\ calls[r] # <<>>
          /\ attempt[r].complete <=> f = "complete"
          /\ f = "complete" => locals[r].status = "ok"
          /\ attempt[r].ttft => attempt[r].complete
      BY <2>7, <2>9, <3>1 DEF AttemptOf
    <3> HIDE DEF f
    <3>3. (attempt[r].complete /\ locals[r].status = "ok") <=> f = "complete"
      BY <3>2
    <3>4. calls'[r] = calls[r] /\ calls'[r][Len(calls[r])].fate = f
      BY <2>1 DEF f
    <3>5. QED
      BY <1>0, <2>1, <2>4, <2>5, <2>6, <2>7, <2>9, <3>2, <3>3, <3>4, RowFinished
  <2>10. QED
    BY <2>8, <2>9
<1>16. QED
  BY <1>1, <1>2, <1>3, <1>4, <1>5, <1>6, <1>7, <1>8, <1>9, <1>11, <1>12, <1>14, <1>15 DEF Next

LEMMA InitIInv == Init => IInv
<1> SUFFICES ASSUME Init PROVE IInv
  OBVIOUS
<1>1. NewLedger \in Ledgers /\ (CHOOSE u \in Users : TRUE) \in Users
  <2>1. \E u \in Users : TRUE
    BY DataAssumption
  <2>2. QED
    BY <2>1, LedgersMade
<1>2. /\ NoFlush \in [step : {"idle", "write", "written", "ended"}, raw : Documents,
                      revision : Nat, final : BOOLEAN]
      /\ NoFlush.raw = NewDocument /\ NoFlush.step = "idle"
  BY NewDocuments DEF NoFlush
<1>3. StoreOK
  BY <1>1, <1>2, NewDocuments, DataAssumption DEF Init, StoreOK
<1>4. Stored = {NewDocument}
  BY <1>2 DEF Init, Stored
<1>5. NoAttempt \in Attempts /\ NoAttempt.call = NoCall /\ NoLocals \in LocalSet /\ NoLocals.status = "ok"
  BY DEF NoAttempt, Attempts, NoLocals, LocalSet
<1>6. ShapesOK
  BY <1>5 DEF Init, ShapesOK, Places
<1>7. HandlersOK
  BY <1>5, <1>6 DEF Init, HandlersOK
<1>8. ValidOK /\ RowsOK
  BY <1>4, NewDocuments DEF ValidOK, RowsOK
<1>9. FlushOK
  BY <1>2 DEF Init, FlushOK
<1>10. AttemptOK /\ CallsOK
  BY <1>5 DEF Init, AttemptOK, AttemptOf, Open, CallsOK, CallsOf
<1>11. QED
  BY <1>3, <1>7, <1>8, <1>9, <1>10 DEF IInv

LEMMA Invariance == Spec => []IInv
<1>1. IInv /\ [Next]_vars => IInv'
  BY MemStep, RowStep DEF IInv, MemInv, RowInv
<1>2. QED
  BY <1>1, InitIInv, PTL DEF Spec

-----------------------------------------------------------------------------

\* When nothing is left to save, stats.json says what the memory says, also when
\* rows were added while the file was written, a write failed or the process died
\* between the rename and the end of the flush (flushOptionalStats).
THEOREM SavedAgrees == Spec => []SavedIsOnDisk
<1>1. IInv => SavedIsOnDisk
  BY DEF IInv, FlushOK, SavedIsOnDisk
<1>2. QED
  BY <1>1, Invariance, PTL

\* Every account a row names has its entry in the document, so that
\* loadOptionalStats takes whatever flushOptionalStats has written.
THEOREM FileLoads == Spec => []WrittenFileLoads
<1>1. IInv => WrittenFileLoads
  BY DEF IInv, ValidOK, Stored, WrittenFileLoads
<1>2. QED
  BY <1>1, Invariance, PTL

\* A call has at most one row, over answers refused, streams cut and replayed,
\* processes that stop and files that are loaded again; a call that is over has
\* one unless its request went on to another account after a stream was cut.
THEOREM RecordedOnce == Spec => []CallRecordedOnce
<1>1. ASSUME IInv, NEW r \in Requests, NEW n \in DOMAIN calls[r]
      PROVE  LET rows == Rows(document, <<r, n>>)
                 over == calls[r][n].fate = "refused" \/ pc[r] = "done"
             IN  /\ Cardinality(rows) <= 1
                 /\ over /\ ~Overtaken(r, n) => rows # {}
                 /\ \A i \in rows : LET row == document.requests[i] IN
                     /\ row.account = calls[r][n].account
                     /\ row.complete <=> calls[r][n].fate = "complete"
                     /\ row.ttft => row.complete
  <2> DEFINE rows == Rows(document, <<r, n>>)
  <2>1. AttemptOf(r) /\ CallsOf(r) /\ RowsOf(document) /\ calls[r] \in Seq(CallSet)
    BY <1>1 DEF IInv, AttemptOK, CallsOK, RowsOK, Stored, HandlersOK, ShapesOK
  <2>2. Cardinality(rows) <= 1
    <3>1. CASE rows = {}
      BY <3>1, FS_EmptySet
    <3>2. CASE rows # {}
      <4>1. PICK i \in rows : TRUE
        BY <3>2
      <4>2. rows = {i}
        BY <2>1, <4>1 DEF Rows, RowsOf
      <4>3. Cardinality({i}) = 1
        BY FS_Singleton
      <4>4. QED
        BY <4>2, <4>3
    <3>3. QED
      BY <3>1, <3>2
  <2>3. ASSUME calls[r][n].fate = "refused" \/ pc[r] = "done", ~Overtaken(r, n) PROVE rows # {}
    <3>1. CASE calls[r][n].fate = "refused"
      BY <2>1, <3>1 DEF CallsOf
    <3>2. CASE calls[r][n].fate # "refused"
      <4>1. n = Len(calls[r]) /\ calls[r] # <<>>
        <5>1. ~(n < Len(calls[r]))
          BY <2>1, <2>3, <3>2 DEF CallsOf, Overtaken
        <5>2. QED
          BY <2>1, <5>1
      <4>2. ~Open(r)
        BY <2>1, <2>3, <3>2 DEF AttemptOf
      <4>3. QED
        BY <2>1, <4>1, <4>2 DEF AttemptOf
    <3>3. QED
      BY <3>1, <3>2
  <2>4. QED
    BY <2>1, <2>2, <2>3 DEF CallsOf
<1>2. IInv => CallRecordedOnce
  BY <1>1 DEF CallRecordedOnce
<1>3. QED
  BY <1>2, Invariance, PTL

-----------------------------------------------------------------------------
(* The calendar of the chart *)

\* A set of naturals that is not empty has a least one: induction, without an operator.
LEMMA LeastOf ==
    ASSUME NEW S, S \subseteq Nat, S # {}
    PROVE  \E x \in S : \A y \in S : x <= y
<1>1. PICK x \in S : \A y \in S : <<y, x>> \notin OpToRel(<, Nat)
  BY NatLessThanWellFounded, WFMin
<1>2. \A y \in S : ~(y < x)
  BY <1>1 DEF OpToRel
<1> QED BY <1>2

\* The last of the days up to one, and the first of those after it.
LEMMA LastUpTo ==
    ASSUME NEW S, S \subseteq Int, NEW d \in Int, NEW m \in S, m <= d
    PROVE  LET T == {x \in S : x <= d} IN Max(T) \in T /\ \A y \in T : y <= Max(T)
<1> DEFINE T == {x \in S : x <= d}
           D == {n \in Nat : d - n \in T}
<1>1. D \subseteq Nat /\ D # {}
  <2>1. d - m \in Nat /\ d - (d - m) = m
    OBVIOUS
  <2>2. d - m \in D
    BY <2>1
  <2> QED BY <2>2
<1>2. PICK n \in D : \A y \in D : n <= y
  BY <1>1, LeastOf
<1>3. d - n \in T
  BY <1>2
<1>4. ASSUME NEW y \in T PROVE d - n >= y
  <2>1. y \in Int /\ d - y \in Nat /\ d - (d - y) = y
    OBVIOUS
  <2>2. d - y \in D
    BY <2>1
  <2> QED BY <1>2, <2>1, <2>2
<1>5. T \subseteq Int
  OBVIOUS
<1> HIDE DEF T, D
<1>6. Max(T) \in T /\ \A y \in T : Max(T) >= y
  BY <1>3, <1>4 DEF Max
<1>7. \A y \in T : y <= Max(T)
  BY <1>5, <1>6
<1> QED BY <1>6, <1>7 DEF T

LEMMA FirstAfter ==
    ASSUME NEW S, S \subseteq Int, NEW d \in Int, NEW m \in S, d < m
    PROVE  LET T == {x \in S : x > d} IN Min(T) \in T /\ \A y \in T : Min(T) <= y
<1> DEFINE T == {x \in S : x > d}
           D == {n \in Nat : d + n \in T}
<1>1. D \subseteq Nat /\ D # {}
  <2>1. m - d \in Nat /\ d + (m - d) = m
    OBVIOUS
  <2>2. m - d \in D
    BY <2>1
  <2> QED BY <2>2
<1>2. PICK n \in D : \A y \in D : n <= y
  BY <1>1, LeastOf
<1>3. d + n \in T
  BY <1>2
<1>4. ASSUME NEW y \in T PROVE d + n <= y
  <2>1. y \in Int /\ y - d \in Nat /\ d + (y - d) = y
    OBVIOUS
  <2>2. y - d \in D
    BY <2>1
  <2> QED BY <1>2, <2>1, <2>2
<1> HIDE DEF T, D
<1>5. Min(T) \in T /\ \A y \in T : Min(T) <= y
  BY <1>3, <1>4 DEF Min
<1> QED BY <1>5 DEF T

LEMMA Divided ==
    ASSUME NEW h \in Int, NEW n \in Nat \ {0}
    PROVE  /\ h \div n \in Int /\ h % n \in 0 .. (n - 1)
           /\ h = n * (h \div n) + (h % n)
           /\ n * (h \div n) <= h /\ h < n * (h \div n) + n
OBVIOUS

LEMMA DividedOnce ==
    ASSUME NEW h \in Int, NEW n \in Nat \ {0}, NEW d \in Int, n * d <= h, h < n * d + n
    PROVE  h \div n = d /\ h % n = h - n * d
<1> DEFINE q == h \div n
<1>1. /\ q \in Int /\ n * q <= h /\ h < n * q + n /\ h = n * q + (h % n) /\ h % n \in Int
  BY Divided
<1> HIDE DEF q
<1>2. ~(q < d)
  <2> SUFFICES ASSUME q + 1 <= d PROVE FALSE
    BY <1>1
  <2>1. n * (q + 1) <= n * d
    BY <1>1
  <2>2. n * (q + 1) = n * q + n
    BY <1>1
  <2> QED BY <2>1, <2>2, <1>1
<1>3. ~(d < q)
  <2> SUFFICES ASSUME d + 1 <= q PROVE FALSE
    BY <1>1
  <2>1. n * (d + 1) <= n * q
    BY <1>1
  <2>2. n * (d + 1) = n * d + n
    BY <1>1
  <2> QED BY <2>1, <2>2, <1>1
<1>4. q = d
  BY <1>1, <1>2, <1>3
<1> QED BY <1>1, <1>4 DEF q

\* The first day of the bucket of a day, and of the one after a bucket that begins there.
FirstDay(day, period) ==
    CASE period = "day"   -> day
      [] period = "week"  -> day - ((day - Monday) % DaysPerWeek)
      [] period = "month" -> Max({m \in MonthStarts : m <= day})
NextDay(day, period) ==
    CASE period = "day"   -> day + 1
      [] period = "week"  -> day + DaysPerWeek
      [] period = "month" -> Min({m \in MonthStarts : m > day})
Known(day, period) ==
    period = "month" => \E m, next \in MonthStarts : m <= day /\ day < next

\* The days are cut into buckets.
LEMMA Days ==
    ASSUME NEW p \in {"day", "week", "month"}, NEW d \in Int, Known(d, p)
    PROVE  LET f == FirstDay(d, p)
               g == NextDay(f, p)
           IN /\ f \in Int /\ g \in Int /\ f <= d /\ d < g /\ Known(f, p)
              /\ \A e \in Int : f <= e /\ e < g => FirstDay(e, p) = f
              /\ Known(g, p) => FirstDay(g, p) = g
<1> DEFINE f == FirstDay(d, p)
           g == NextDay(f, p)
<1>1. CASE p = "day"
  <2>1. \A e : FirstDay(e, p) = e /\ NextDay(e, p) = e + 1
    BY <1>1 DEF FirstDay, NextDay
  <2>2. f = d /\ g = d + 1
    BY <2>1
  <2> HIDE DEF f, g
  <2>3. \A e \in Int : f <= e /\ e < g => FirstDay(e, p) = f
    BY <2>1, <2>2
  <2>4. FirstDay(g, p) = g
    BY <2>1
  <2> QED BY <1>1, <2>2, <2>3, <2>4 DEF f, g, Known
<1>2. CASE p = "week"
  <2> DEFINE W == DaysPerWeek
             q == (d - Monday) \div W
             r == (d - Monday) % W
             s == W * q
  <2>0. W \in Nat \ {0} /\ Monday \in Int
    BY CalendarAssumption
  <2> HIDE DEF W
  <2>1. \A e \in Int : FirstDay(e, p) = e - ((e - Monday) % W) /\ NextDay(e, p) = e + W
    BY <1>2 DEF FirstDay, NextDay, W
  <2>2. q \in Int /\ r \in 0 .. W - 1 /\ d - Monday = s + r
    BY <2>0, Divided
  <2>3. s \in Int /\ FirstDay(d, p) = d - r
    BY <2>0, <2>1, <2>2
  <2> HIDE DEF q, r
  <2>4. s + W = W * (q + 1) /\ s + W \in Int
    BY <2>0, <2>2
  <2> HIDE DEF s
  <2>5. f = Monday + s /\ f \in Int
    BY <2>0, <2>2, <2>3
  <2> HIDE DEF f
  <2>6. g = f + W /\ g \in Int /\ f <= d /\ d < g
    BY <2>0, <2>1, <2>2, <2>3, <2>5
  <2> HIDE DEF g
  <2>7. ASSUME NEW e \in Int, f <= e, e < g PROVE FirstDay(e, p) = f
    <3>1. e - Monday \in Int /\ s <= e - Monday /\ e - Monday < s + W
      BY <2>0, <2>3, <2>5, <2>6, <2>7
    <3>2. (e - Monday) % W = (e - Monday) - s
      BY <2>0, <2>2, <3>1, DividedOnce DEF s
    <3>3. FirstDay(e, p) = e - ((e - Monday) - s)
      BY <2>1, <3>2
    <3> QED BY <2>0, <2>3, <2>5, <3>3
  <2>8. FirstDay(g, p) = g
    <3>1. g - Monday = s + W
      BY <2>0, <2>3, <2>5, <2>6
    <3>2. W * (q + 1) \in Int /\ W * (q + 1) <= s + W /\ s + W < W * (q + 1) + W
          /\ q + 1 \in Int
      BY <2>0, <2>2, <2>3, <2>4
    <3>3. (s + W) % W = (s + W) - W * (q + 1)
      BY <2>0, <2>4, <3>2, DividedOnce
    <3>4. (g - Monday) % W = 0
      BY <2>4, <3>1, <3>3
    <3> QED BY <2>1, <2>6, <3>4
  <2> QED BY <1>2, <2>5, <2>6, <2>7, <2>8 DEF f, g, Known
<1>3. CASE p = "month"
  <2> DEFINE Upto(e) == {m \in MonthStarts : m <= e}
             After(e) == {m \in MonthStarts : m > e}
  <2>0. MonthStarts \subseteq Int
    BY CalendarAssumption
  <2>1. \A e : FirstDay(e, p) = Max(Upto(e)) /\ NextDay(e, p) = Min(After(e))
    BY <1>3 DEF FirstDay, NextDay
  <2>2. ASSUME NEW e \in Int, NEW m \in MonthStarts, m <= e
        PROVE  FirstDay(e, p) \in Upto(e) /\ \A y \in Upto(e) : y <= FirstDay(e, p)
    <3>1. Max(Upto(e)) \in Upto(e) /\ \A y \in Upto(e) : y <= Max(Upto(e))
      BY <2>0, <2>2, LastUpTo, Zenon
    <3> QED BY <2>1, <3>1, Zenon
  <2>3. PICK m \in MonthStarts, next \in MonthStarts : m <= d /\ d < next
    BY <1>3 DEF Known
  <2>4. /\ f \in MonthStarts /\ f \in Int /\ f <= d
        /\ \A y \in MonthStarts : y <= d => y <= f
    BY <2>0, <2>2, <2>3
  <2>5. next \in MonthStarts /\ f < next
    BY <2>0, <2>3, <2>4
  <2>6. g \in After(f) /\ \A y \in After(f) : g <= y
    <3>1. Min(After(f)) \in After(f) /\ \A y \in After(f) : Min(After(f)) <= y
      BY <2>0, <2>4, <2>5, FirstAfter, Zenon
    <3> QED BY <2>1, <3>1, Zenon
  <2> HIDE DEF f, g
  <2>7. /\ g \in MonthStarts /\ g \in Int /\ f < g
        /\ \A y \in MonthStarts : y > f => g <= y
    BY <2>0, <2>6
  <2>8. d < g
    BY <2>0, <2>4, <2>7
  <2>9. ASSUME NEW e \in Int, f <= e, e < g PROVE FirstDay(e, p) = f
    <3>1. FirstDay(e, p) \in Upto(e) /\ f <= FirstDay(e, p)
      BY <2>2, <2>4, <2>9
    <3>2. FirstDay(e, p) \in MonthStarts /\ FirstDay(e, p) \in Int /\ FirstDay(e, p) <= e
      BY <2>0, <3>1
    <3> QED BY <2>4, <2>7, <2>9, <3>1, <3>2
  <2>10. FirstDay(g, p) = g
    <3>1. FirstDay(g, p) \in Upto(g) /\ g <= FirstDay(g, p)
      BY <2>2, <2>7
    <3>2. FirstDay(g, p) \in MonthStarts /\ FirstDay(g, p) \in Int /\ FirstDay(g, p) <= g
      BY <2>0, <3>1
    <3> QED BY <2>7, <3>1, <3>2
  <2>11. Known(f, p)
    BY <2>4, <2>7 DEF Known
  <2> QED BY <2>4, <2>7, <2>8, <2>9, <2>10, <2>11 DEF f, g
<1> QED BY <1>1, <1>2, <1>3

\* The hours are cut into buckets; Known(day, "month") is all that is asked of the
\* calendar.
LEMMA Buckets ==
    ASSUME NEW p \in Periods, NEW h \in Int, Known(DayOf(h), p)
    PROVE  LET s == statsBucketStart(h, p)
               n == statsNextBucket(s, p)
           IN /\ s \in Int /\ n \in Int /\ s <= h /\ h < n /\ Known(DayOf(s), p)
              /\ \A e \in Int : s <= e /\ e < n => statsBucketStart(e, p) = s
              /\ Known(DayOf(n), p) => statsBucketStart(n, p) = n
<1> DEFINE s == statsBucketStart(h, p)
           n == statsNextBucket(s, p)
           H == HoursPerDay
<1>0. H \in Nat \ {0} /\ DaysPerWeek \in Nat \ {0}
  BY CalendarAssumption
<1>1. CASE p = "hour"
  <2>1. \A e : statsBucketStart(e, p) = e /\ statsNextBucket(e, p) = e + 1
    BY <1>1 DEF statsBucketStart, statsNextBucket
  <2>2. s = h /\ n = h + 1
    BY <2>1
  <2> HIDE DEF s, n
  <2>3. \A e \in Int : s <= e /\ e < n => statsBucketStart(e, p) = s
    BY <2>1, <2>2
  <2>4. statsBucketStart(n, p) = n
    BY <2>1
  <2> QED BY <2>2, <2>3, <2>4 DEF s, n
<1>2. CASE p \in {"day", "week", "month"}
  <2> DEFINE f == FirstDay(DayOf(h), p)
             g == NextDay(f, p)
  <2>1. \A e \in Int : /\ DayOf(e) \in Int
                       /\ H * DayOf(e) \in Int
                       /\ H * DayOf(e) <= e /\ e < H * DayOf(e) + H
    <3> SUFFICES ASSUME NEW e \in Int
                 PROVE /\ DayOf(e) \in Int /\ H * DayOf(e) \in Int
                       /\ H * DayOf(e) <= e /\ e < H * DayOf(e) + H
      OBVIOUS
    <3>1. DayOf(e) = e \div H
      BY DEF DayOf
    <3>2. e \div H \in Int /\ H * (e \div H) <= e /\ e < H * (e \div H) + H
      BY <1>0, Divided
    <3> QED BY <1>0, <3>1, <3>2
  <2>2. \A d \in Int : Midnight(d) = H * d /\ Midnight(d) \in Int /\ DayOf(Midnight(d)) = d
    <3> SUFFICES ASSUME NEW d \in Int
                 PROVE  Midnight(d) = H * d /\ Midnight(d) \in Int /\ DayOf(Midnight(d)) = d
      OBVIOUS
    <3>1. Midnight(d) = H * d /\ H * d \in Int
      BY <1>0 DEF Midnight
    <3>2. (H * d) \div H = d
      BY <1>0, <3>1, DividedOnce
    <3> QED BY <3>1, <3>2 DEF DayOf
  <2>3. /\ f \in Int /\ g \in Int /\ f <= DayOf(h) /\ DayOf(h) < g /\ Known(f, p)
        /\ \A e \in Int : f <= e /\ e < g => FirstDay(e, p) = f
        /\ Known(g, p) => FirstDay(g, p) = g
    BY <1>2, <2>1, Days
  <2>4. \A e : statsBucketStart(e, p) = Midnight(FirstDay(DayOf(e), p))
    BY <1>2 DEF statsBucketStart, FirstDay
  <2>5. s = Midnight(f)
    BY <2>4
  <2> HIDE DEF s, f
  <2>6. DayOf(s) = f /\ s = H * f /\ s \in Int
    BY <2>2, <2>3, <2>5
  <2>7. n = Midnight(g)
    <3>1. CASE p = "day"
      <4>1. n = s + H /\ g = f + 1
        BY <3>1 DEF statsNextBucket, NextDay
      <4>2. H * (f + 1) = H * f + H
        BY <1>0, <2>3
      <4> QED BY <2>2, <2>3, <2>6, <4>1, <4>2
    <3>2. CASE p = "week"
      <4>1. n = s + DaysPerWeek * H /\ g = f + DaysPerWeek
        BY <3>2 DEF statsNextBucket, NextDay
      <4>2. H * (f + DaysPerWeek) = H * f + DaysPerWeek * H
        BY <1>0, <2>3
      <4> QED BY <2>2, <2>3, <2>6, <4>1, <4>2
    <3>3. CASE p = "month"
      BY <2>6, <3>3 DEF statsNextBucket, NextDay
    <3> QED BY <1>2, <3>1, <3>2, <3>3
  <2> HIDE DEF n, g
  <2>8. DayOf(n) = g /\ n = H * g /\ n \in Int
    BY <2>2, <2>3, <2>7
  <2>9. \A a, b \in Int : a <= b => H * a <= H * b /\ H * a \in Int /\ H * b \in Int
    BY <1>0
  <2>10. \A d \in Int : H * (d + 1) = H * d + H /\ H * d \in Int
    BY <1>0
  <2>11. s <= h
    <3>1. H * f <= H * DayOf(h)
      BY <2>1, <2>3, <2>9
    <3> QED BY <2>1, <2>6, <3>1
  <2>12. h < n
    <3>1. DayOf(h) + 1 <= g
      BY <2>1, <2>3
    <3>2. H * (DayOf(h) + 1) <= H * g
      BY <2>1, <2>3, <2>9, <3>1
    <3>3. H * (DayOf(h) + 1) = H * DayOf(h) + H
      BY <2>1, <2>10
    <3> QED BY <1>0, <2>1, <2>8, <3>2, <3>3
  <2>13. ASSUME NEW e \in Int, s <= e, e < n PROVE statsBucketStart(e, p) = s
    <3>1. f <= DayOf(e)
      <4> SUFFICES ASSUME DayOf(e) + 1 <= f PROVE FALSE
        BY <2>1, <2>3
      <4>1. H * (DayOf(e) + 1) <= H * f
        BY <2>1, <2>3, <2>9
      <4>2. H * (DayOf(e) + 1) = H * DayOf(e) + H
        BY <2>1, <2>10
      <4> QED BY <1>0, <2>1, <2>6, <2>13, <4>1, <4>2
    <3>2. DayOf(e) < g
      <4> SUFFICES ASSUME g <= DayOf(e) PROVE FALSE
        BY <2>1, <2>3
      <4>1. H * g <= H * DayOf(e)
        BY <2>1, <2>3, <2>9
      <4> QED BY <1>0, <2>1, <2>8, <2>13, <4>1
    <3> QED BY <2>1, <2>3, <2>4, <2>5, <3>1, <3>2
  <2>14. Known(DayOf(n), p) => statsBucketStart(n, p) = n
    BY <2>3, <2>4, <2>7, <2>8
  <2> QED BY <2>3, <2>6, <2>8, <2>11, <2>12, <2>13, <2>14 DEF s, n
<1> QED BY <1>1, <1>2 DEF Periods

\* The days of a range and those its first bucket reaches back to are in the calendar.
LEMMA DaysInOrder ==
    ASSUME NEW a \in Int, NEW b \in Int, a <= b
    PROVE  DayOf(a) \in Int /\ DayOf(b) \in Int /\ DayOf(a) <= DayOf(b)
<1> DEFINE H == HoursPerDay
           x == a \div H
           y == b \div H
<1>0. H \in Nat \ {0}
  BY CalendarAssumption
<1>1. /\ x \in Int /\ H * x <= a /\ a < H * x + H
      /\ y \in Int /\ H * y <= b /\ b < H * y + H
  BY <1>0, Divided
<1> HIDE DEF x, y, H
<1>2. x <= y
  <2> SUFFICES ASSUME y + 1 <= x PROVE FALSE
    BY <1>1
  <2>1. H * (y + 1) <= H * x
    BY <1>0, <1>1
  <2>2. H * (y + 1) = H * y + H /\ H * y \in Int /\ H * x \in Int
    BY <1>0, <1>1
  <2> QED BY <1>0, <1>1, <2>1, <2>2
<1> QED BY <1>1, <1>2 DEF DayOf, x, y, H

\* The recursive definition of the axis defines a function.
Following(s, to, period) == IF s < to THEN statsNextBucket(s, period) ELSE s
Runs(f, k, first, to, period) ==
    f = [n \in 0 .. k |-> IF n = 0 THEN first ELSE Following(f[n - 1], to, period)]
AxisOf(f, to) == [n \in {m \in 0 .. MaxBuckets : f[m] < to} |-> f[n]]

LEMMA RunExists ==
    ASSUME NEW first, NEW to, NEW p, NEW k \in Nat
    PROVE  \E f : Runs(f, k, first, to, p)
<1> DEFINE S == {m \in Nat : ~ \E f : Runs(f, m, first, to, p)}
<1> SUFFICES ASSUME S # {} PROVE FALSE
  OBVIOUS
<1>1. PICK m \in S : \A y \in S : m <= y
  BY LeastOf
<1>2. CASE m = 0
  <2> DEFINE f == [n \in 0 .. 0 |-> first]
  <2>1. f = [n \in 0 .. 0 |-> IF n = 0 THEN first ELSE Following(f[n - 1], to, p)]
    OBVIOUS
  <2> QED BY <1>1, <1>2, <2>1 DEF Runs
<1>3. CASE m # 0
  <2>1. m - 1 \in Nat /\ m - 1 \notin S
    BY <1>1, <1>3
  <2>2. PICK f : Runs(f, m - 1, first, to, p)
    BY <2>1
  <2> DEFINE g == [n \in 0 .. m |-> IF n = m THEN Following(f[m - 1], to, p) ELSE f[n]]
  <2>3. \A n \in 0 .. m - 1 : /\ g[n] = f[n]
                              /\ f[n] = IF n = 0 THEN first ELSE Following(f[n - 1], to, p)
    BY <2>1, <2>2 DEF Runs
  <2>4. \A n \in 0 .. m : g[n] = IF n = 0 THEN first ELSE Following(g[n - 1], to, p)
    <3> SUFFICES ASSUME NEW n \in 0 .. m
                 PROVE  g[n] = IF n = 0 THEN first ELSE Following(g[n - 1], to, p)
      OBVIOUS
    <3>1. CASE n = m
      <4>1. g[n] = Following(f[m - 1], to, p) /\ m - 1 \in 0 .. m - 1
        BY <2>1, <3>1
      <4> HIDE DEF g
      <4> QED BY <1>3, <2>3, <3>1, <4>1
    <3>2. CASE n # m
      <4>1. n \in 0 .. m - 1 /\ (n # 0 => n - 1 \in 0 .. m - 1)
        BY <3>2
      <4> HIDE DEF g
      <4> QED BY <2>3, <4>1
    <3> QED BY <3>1, <3>2
  <2>5. g = [n \in 0 .. m |-> IF n = 0 THEN first ELSE Following(g[n - 1], to, p)]
    BY <2>4
  <2> QED BY <1>1, <2>5 DEF Runs
<1> QED BY <1>2, <1>3

LEMMA AxisRuns ==
    ASSUME NEW first, NEW to, NEW p
    PROVE  \E f : /\ Runs(f, MaxBuckets, first, to, p)
                  /\ BucketsFrom(first, to, p) = AxisOf(f, to)
<1> DEFINE start == CHOOSE start : start =
              [n \in 0 .. MaxBuckets |->
                 IF n = 0 THEN first
                 ELSE IF start[n - 1] < to THEN statsNextBucket(start[n - 1], p)
                                           ELSE start[n - 1]]
<1>1. BucketsFrom(first, to, p) = AxisOf(start, to)
  BY DEF BucketsFrom, AxisOf
<1>2. PICK f : Runs(f, MaxBuckets, first, to, p)
  BY RunExists, CalendarAssumption
<1>3. f = [n \in 0 .. MaxBuckets |->
                 IF n = 0 THEN first
                 ELSE IF f[n - 1] < to THEN statsNextBucket(f[n - 1], p)
                                       ELSE f[n - 1]]
  BY <1>2 DEF Runs, Following
<1>4. start = [n \in 0 .. MaxBuckets |->
                 IF n = 0 THEN first
                 ELSE IF start[n - 1] < to THEN statsNextBucket(start[n - 1], p)
                                           ELSE start[n - 1]]
  BY <1>3
<1> HIDE DEF start
<1>5. Runs(start, MaxBuckets, first, to, p)
  BY <1>4 DEF Runs, Following
<1> QED BY <1>1, <1>5

\* The buckets of an axis begin one after the other and each of them is whole.
LEMMA AxisInOrder ==
    ASSUME NEW p \in Periods, NEW lo \in Int, NEW hi \in Int, lo <= hi,
           Known(lo, p), Known(hi, p), NEW f,
           Runs(f, MaxBuckets, statsBucketStart(Midnight(lo), p), Midnight(hi + 1), p)
    PROVE  LET to == Midnight(hi + 1) IN
           /\ to \in Int /\ f[0] \in Int /\ f[0] <= Midnight(lo) /\ f[0] < to
           /\ \A n \in 0 .. MaxBuckets :
                /\ f[n] \in Int
                /\ f[n] < to => /\ statsBucketStart(f[n], p) = f[n]
                                /\ Known(DayOf(f[n]), p)
           /\ \A n \in 1 .. MaxBuckets : /\ f[n - 1] <= f[n]
                                         /\ f[n - 1] < to => f[n - 1] < f[n]
                                         /\ f[n] = Following(f[n - 1], to, p)
<1> DEFINE to == Midnight(hi + 1)
           from == Midnight(lo)
           first == statsBucketStart(from, p)
<1>0. MaxBuckets \in Nat \ {0} /\ HoursPerDay \in Nat \ {0}
  BY CalendarAssumption
<1>1. \A d \in Int : Midnight(d) \in Int /\ DayOf(Midnight(d)) = d
  <2> SUFFICES ASSUME NEW d \in Int PROVE Midnight(d) \in Int /\ DayOf(Midnight(d)) = d
    OBVIOUS
  <2>1. Midnight(d) = HoursPerDay * d /\ HoursPerDay * d \in Int
    BY <1>0 DEF Midnight
  <2>2. (HoursPerDay * d) \div HoursPerDay = d
    BY <1>0, <2>1, DividedOnce
  <2> QED BY <2>1, <2>2 DEF DayOf
<1>2. from \in Int /\ to \in Int /\ from < to /\ DayOf(from) = lo
  <2>1. HoursPerDay * lo <= HoursPerDay * hi /\ HoursPerDay * (hi + 1) = HoursPerDay * hi + HoursPerDay
    BY <1>0
  <2>2. from = HoursPerDay * lo /\ to = HoursPerDay * (hi + 1) /\ HoursPerDay * hi \in Int
    BY <1>0 DEF Midnight
  <2> QED BY <1>0, <1>1, <2>1, <2>2
<1>3. \A x \in Int : x < to => DayOf(x) <= hi
  <2> SUFFICES ASSUME NEW x \in Int, x < to PROVE DayOf(x) <= hi
    OBVIOUS
  <2>1. x < HoursPerDay * (hi + 1) /\ HoursPerDay * (hi + 1) = HoursPerDay * hi + HoursPerDay
    BY <1>0 DEF Midnight
  <2>2. /\ x \div HoursPerDay \in Int /\ HoursPerDay * (x \div HoursPerDay) <= x
    BY <1>0, Divided
  <2> DEFINE y == x \div HoursPerDay
  <2>3. y \in Int /\ HoursPerDay * y <= x
    BY <2>2
  <2> HIDE DEF y
  <2>4. ~(hi + 1 <= y)
    <3> SUFFICES ASSUME hi + 1 <= y PROVE FALSE
      OBVIOUS
    <3>1. HoursPerDay * (hi + 1) <= HoursPerDay * y
      BY <1>0, <2>3
    <3>2. HoursPerDay * (hi + 1) \in Int /\ HoursPerDay * y \in Int
      BY <1>0, <2>3
    <3> QED BY <2>1, <2>3, <3>1, <3>2
  <2> QED BY <2>3, <2>4 DEF DayOf, y
<1>4. /\ first \in Int /\ first <= from /\ Known(DayOf(first), p)
      /\ statsBucketStart(first, p) = first
  <2>1. LET s == first
            n == statsNextBucket(s, p)
        IN /\ s \in Int /\ n \in Int /\ s <= from /\ from < n /\ Known(DayOf(s), p)
           /\ \A e \in Int : s <= e /\ e < n => statsBucketStart(e, p) = s
    BY <1>2, Buckets
  <2> HIDE DEF from
  <2>2. /\ first \in Int /\ first <= from /\ Known(DayOf(first), p)
        /\ statsNextBucket(first, p) \in Int /\ from < statsNextBucket(first, p)
        /\ \A e \in Int : first <= e /\ e < statsNextBucket(first, p) => statsBucketStart(e, p) = first
    BY <2>1
  <2> HIDE DEF first
  <2>3. first < statsNextBucket(first, p)
    BY <1>2, <2>2
  <2> QED BY <2>2, <2>3
<1> HIDE DEF from, first, to
\* The month of an hour of the axis is in the calendar.
<1>5. ASSUME NEW x \in Int, first <= x, x < to PROVE Known(DayOf(x), p)
  <2> SUFFICES ASSUME p = "month" PROVE \E m, next \in MonthStarts : m <= DayOf(x) /\ DayOf(x) < next
    BY DEF Known
  <2>1. PICK m \in MonthStarts : m <= DayOf(first)
    BY <1>4 DEF Known
  <2>2. PICK next \in MonthStarts : hi < next
    BY DEF Known
  <2>3. DayOf(first) \in Int /\ DayOf(x) \in Int /\ DayOf(first) <= DayOf(x) /\ DayOf(x) <= hi
    BY <1>3, <1>4, <1>5, DaysInOrder
  <2>4. m \in Int /\ next \in Int
    BY CalendarAssumption
  <2> QED BY <2>1, <2>2, <2>3, <2>4
<1>6. /\ f[0] = first
      /\ \A n \in 1 .. MaxBuckets : f[n] = Following(f[n - 1], to, p)
  BY <1>0 DEF Runs, first, from, to
<1> DEFINE Fine(n) == /\ f[n] \in Int /\ first <= f[n]
                      /\ f[n] < to => statsBucketStart(f[n], p) = f[n]
\* One bucket from the one before it.
<1>7. ASSUME NEW n \in 1 .. MaxBuckets, Fine(n - 1)
      PROVE  Fine(n) /\ f[n - 1] <= f[n] /\ (f[n - 1] < to => f[n - 1] < f[n])
  <2> DEFINE x == f[n - 1]
  <2>1. CASE x < to
    <3>1. Known(DayOf(x), p) /\ statsBucketStart(x, p) = x /\ x \in Int /\ first <= x
      BY <1>5, <1>7, <2>1
    <3>2. f[n] = statsNextBucket(x, p)
      BY <1>6, <2>1 DEF Following
    <3>3. LET s == statsBucketStart(x, p)
              y == statsNextBucket(s, p)
          IN y \in Int /\ x < y /\ (Known(DayOf(y), p) => statsBucketStart(y, p) = y)
      BY <3>1, Buckets
    <3>4. f[n] \in Int /\ x < f[n] /\ (Known(DayOf(f[n]), p) => statsBucketStart(f[n], p) = f[n])
      BY <3>1, <3>2, <3>3
    <3> HIDE DEF x
    <3>5. first <= f[n]
      BY <1>4, <3>1, <3>4
    <3>6. f[n] < to => statsBucketStart(f[n], p) = f[n]
      BY <1>5, <3>4, <3>5
    <3> QED BY <3>1, <3>4, <3>5, <3>6 DEF x
  <2>2. CASE ~(x < to)
    <3>1. f[n] = x
      BY <1>6, <2>2 DEF Following
    <3> QED BY <1>7, <2>2, <3>1
  <2> QED BY <2>1, <2>2
<1>8. ASSUME NEW n \in 0 .. MaxBuckets PROVE Fine(n)
  <2> DEFINE S == {m \in 0 .. MaxBuckets : ~Fine(m)}
  <2> SUFFICES ASSUME S # {} PROVE FALSE
    OBVIOUS
  <2>1. S \subseteq Nat
    OBVIOUS
  <2>2. PICK m \in S : \A y \in S : m <= y
    BY <2>1, LeastOf
  <2>3. m # 0
    <3>1. Fine(0)
      BY <1>4, <1>6
    <3> HIDE DEF Fine
    <3> QED BY <2>2, <3>1
  <2> HIDE DEF Fine
  <2>4. m \in 1 .. MaxBuckets /\ m - 1 \in 0 .. MaxBuckets /\ m - 1 \notin S
    BY <1>0, <2>2, <2>3
  <2> QED BY <1>7, <2>2, <2>4
<1>9. \A n \in 1 .. MaxBuckets : /\ f[n - 1] <= f[n] /\ (f[n - 1] < to => f[n - 1] < f[n])
  <2> SUFFICES ASSUME NEW n \in 1 .. MaxBuckets
               PROVE  f[n - 1] <= f[n] /\ (f[n - 1] < to => f[n - 1] < f[n])
    OBVIOUS
  <2>1. n - 1 \in 0 .. MaxBuckets
    BY <1>0
  <2> HIDE DEF Fine
  <2> QED BY <1>7, <1>8, <2>1
<1>10. \A n \in 0 .. MaxBuckets : f[n] < to => Known(DayOf(f[n]), p)
  BY <1>5, <1>8
<1>11. f[0] \in Int /\ f[0] <= from /\ f[0] < to
  BY <1>2, <1>4, <1>6
<1>12. \A n \in 0 .. MaxBuckets : f[n] \in Int /\ (f[n] < to => statsBucketStart(f[n], p) = f[n])
  BY <1>8
<1> QED BY <1>2, <1>6, <1>9, <1>10, <1>11, <1>12 DEF to, from

\* Every hour of a range has its bucket on the axis, and no bucket is there twice.
LEMMA AxisCovers ==
    ASSUME NEW p \in Periods, NEW lo \in Int, NEW hi \in Int, lo <= hi,
           Known(lo, p), Known(hi, p),
           MaxBuckets \notin DOMAIN BucketStarts(Midnight(lo), Midnight(hi + 1), p)
    PROVE  LET axis == BucketStarts(Midnight(lo), Midnight(hi + 1), p) IN
           /\ \A e \in Int : Midnight(lo) <= e /\ e < Midnight(hi + 1) =>
                \E n \in DOMAIN axis : axis[n] = statsBucketStart(e, p)
           /\ \A m, n \in DOMAIN axis : axis[m] = axis[n] => m = n
<1> DEFINE to == Midnight(hi + 1)
           from == Midnight(lo)
           axis == BucketStarts(from, to, p)
<1>0. MaxBuckets \in Nat \ {0}
  BY CalendarAssumption
<1>1. PICK f : /\ Runs(f, MaxBuckets, statsBucketStart(from, p), to, p)
               /\ axis = AxisOf(f, to)
  BY AxisRuns DEF BucketStarts
<1>2. /\ to \in Int /\ f[0] \in Int /\ f[0] <= from /\ f[0] < to
      /\ \A n \in 0 .. MaxBuckets :
                /\ f[n] \in Int
                /\ f[n] < to => /\ statsBucketStart(f[n], p) = f[n]
                                /\ Known(DayOf(f[n]), p)
      /\ \A n \in 1 .. MaxBuckets : /\ f[n - 1] <= f[n]
                                    /\ f[n - 1] < to => f[n - 1] < f[n]
                                    /\ f[n] = Following(f[n - 1], to, p)
  BY <1>1, AxisInOrder
<1>3. from \in Int
  BY CalendarAssumption DEF Midnight
<1>4. ~(f[MaxBuckets] < to)
  BY <1>0, <1>1 DEF AxisOf
<1> HIDE DEF to, from, axis
<1>5. \A n \in DOMAIN axis : n \in 0 .. MaxBuckets /\ f[n] < to /\ axis[n] = f[n]
  BY <1>1 DEF AxisOf
<1>6. \A n \in 0 .. MaxBuckets : f[n] < to => n \in DOMAIN axis
  BY <1>1 DEF AxisOf
<1>7. ASSUME NEW e \in Int, from <= e, e < to
      PROVE  \E n \in DOMAIN axis : axis[n] = statsBucketStart(e, p)
  <2> DEFINE S == {n \in 0 .. MaxBuckets : e < f[n]}
  <2>1. S \subseteq Nat /\ MaxBuckets \in S
    BY <1>0, <1>2, <1>4, <1>7
  <2>2. PICK n \in S : \A m \in S : n <= m
    BY <2>1, LeastOf
  <2>3. n # 0
    BY <1>2, <1>3, <1>7, <2>2
  <2>4. n \in 1 .. MaxBuckets /\ n - 1 \in 0 .. MaxBuckets /\ n - 1 \notin S /\ e < f[n]
    BY <1>0, <2>2, <2>3
  <2> DEFINE s == f[n - 1]
  <2>5. s <= e /\ s \in Int /\ s < to
    BY <1>2, <1>7, <2>4
  <2>6. statsBucketStart(s, p) = s /\ Known(DayOf(s), p) /\ f[n] = statsNextBucket(s, p)
    BY <1>2, <2>4, <2>5 DEF Following
  <2>7. \A x \in Int : statsBucketStart(s, p) <= x /\ x < statsNextBucket(statsBucketStart(s, p), p)
                          => statsBucketStart(x, p) = statsBucketStart(s, p)
    BY <2>5, <2>6, Buckets
  <2> HIDE DEF s
  <2>8. statsBucketStart(e, p) = s
    BY <2>4, <2>5, <2>6, <2>7
  <2>9. n - 1 \in DOMAIN axis /\ axis[n - 1] = s
    BY <1>5, <1>6, <2>4, <2>5 DEF s
  <2> QED BY <2>8, <2>9
<1>8. \A m, n \in 0 .. MaxBuckets : m < n /\ f[m] < to => f[m] < f[n]
  <2> DEFINE S == {n \in 0 .. MaxBuckets :
                     \E m \in 0 .. MaxBuckets : m < n /\ f[m] < to /\ ~(f[m] < f[n])}
  <2> SUFFICES ASSUME S # {} PROVE FALSE
    OBVIOUS
  <2>1. S \subseteq Nat
    OBVIOUS
  <2>2. PICK n \in S : \A x \in S : n <= x
    BY <2>1, LeastOf
  <2>3. PICK m \in 0 .. MaxBuckets : m < n /\ f[m] < to /\ ~(f[m] < f[n])
    BY <2>2
  <2>4. n \in 1 .. MaxBuckets /\ n - 1 \in 0 .. MaxBuckets /\ n - 1 \notin S
    BY <1>0, <2>2, <2>3
  <2>5. CASE m = n - 1
    BY <1>2, <2>3, <2>4, <2>5
  <2>6. CASE m # n - 1
    <3>1. f[m] < f[n - 1]
      BY <2>3, <2>4, <2>6
    <3> HIDE DEF S
    <3> QED BY <1>2, <2>3, <2>4, <3>1
  <2> QED BY <2>5, <2>6
<1>9. ASSUME NEW m \in DOMAIN axis, NEW n \in DOMAIN axis, axis[m] = axis[n] PROVE m = n
  <2>1. /\ m \in 0 .. MaxBuckets /\ n \in 0 .. MaxBuckets /\ f[m] = f[n]
        /\ f[m] < to /\ f[n] < to /\ f[m] \in Int
    BY <1>2, <1>5, <1>9
  <2> QED BY <1>8, <2>1
<1> QED BY <1>7, <1>9 DEF axis, from, to

\* The chart of every range and period counts every call of the range in the bucket of
\* its own time.
THEOREM ChartHolds == Spec => []ChartIsTrue
<1>1. IInv => ChartIsTrue
  <2> SUFFICES ASSUME IInv, NEW query \in Queries, MaxBuckets \notin DOMAIN query.axis,
                      NEW n \in DOMAIN query.axis
               PROVE  LET start == [i \in RowsIn(query.range) |->
                                      statsBucketStart(document.requests[i].at, query.period)]
                      IN  Chart(query)[n] = Totals({i \in DOMAIN start : start[i] = query.axis[n]})
    BY DEF ChartIsTrue
  <2> DEFINE axis == query.axis
             p == query.period
             rows == RowsIn(query.range)
             at(i) == document.requests[i].at
             start == [i \in rows |-> statsBucketStart(at(i), p)]
             bucket == [i \in rows |-> BucketOf(axis, at(i), p)]
  <2>1. PICK lo \in ShownDays, hi \in ShownDays :
          /\ lo <= hi /\ query.range = <<lo, hi>> /\ p \in Periods
          /\ axis = BucketStarts(Midnight(lo), Midnight(hi + 1), p)
    <3>1. PICK range \in Ranges, period \in Periods :
            query = [range |-> range, period |-> period,
                     axis |-> BucketStarts(Midnight(range[1]), Midnight(range[2] + 1), period)]
      BY DEF Queries
    <3>2. PICK lo \in ShownDays, hi \in ShownDays : range = <<lo, hi>> /\ lo <= hi
      BY DEF Ranges
    <3> QED BY <3>1, <3>2
  <2>2. lo \in Int /\ hi \in Int /\ Known(lo, p) /\ Known(hi, p)
    BY CalendarAssumption DEF Known
  <2>3. \A i \in rows : at(i) \in Int /\ Midnight(lo) <= at(i) /\ at(i) < Midnight(hi + 1)
    <3>1. \A i \in rows : /\ i \in DOMAIN document.requests
                          /\ Midnight(lo) <= at(i) /\ at(i) < Midnight(hi + 1)
      BY <2>1 DEF RowsIn
    <3>2. document.requests \in Seq(RowSet)
      BY DEF IInv, MemInv, StoreOK, Documents
    <3>3. \A i \in DOMAIN document.requests : document.requests[i] \in RowSet
      BY <3>2
    <3> QED BY <3>1, <3>3 DEF RowSet
  <2>4. /\ \A e \in Int : Midnight(lo) <= e /\ e < Midnight(hi + 1) =>
             \E m \in DOMAIN axis : axis[m] = statsBucketStart(e, p)
        /\ \A a, b \in DOMAIN axis : axis[a] = axis[b] => a = b
    BY <2>1, <2>2, AxisCovers
  <2> HIDE DEF axis, p, rows
  <2>5. ASSUME NEW i \in rows PROVE bucket[i] = n <=> start[i] = axis[n]
    <3>1. PICK m \in DOMAIN axis : axis[m] = statsBucketStart(at(i), p)
      BY <2>3, <2>4
    <3>2. BucketOf(axis, at(i), p) = CHOOSE x \in DOMAIN axis : axis[x] = statsBucketStart(at(i), p)
      BY <3>1 DEF BucketOf
    <3>3. /\ BucketOf(axis, at(i), p) \in DOMAIN axis
          /\ axis[BucketOf(axis, at(i), p)] = statsBucketStart(at(i), p)
      BY <3>1, <3>2
    <3>4. bucket[i] = BucketOf(axis, at(i), p) /\ start[i] = statsBucketStart(at(i), p)
      OBVIOUS
    <3>5. n \in DOMAIN axis
      BY DEF axis
    <3> QED BY <2>4, <3>3, <3>4, <3>5
  <2>6. DOMAIN start = rows
    OBVIOUS
  <2> HIDE DEF start, bucket
  <2>7. {i \in rows : bucket[i] = n} = {i \in DOMAIN start : start[i] = axis[n]}
    BY <2>5, <2>6
  <2>8. Chart(query)[n] = Totals({i \in rows : bucket[i] = n})
    BY DEF Chart, rows, bucket, axis, p
  <2> QED BY <2>7, <2>8 DEF start, rows, axis, p
<1>2. QED
  BY Invariance, <1>1, PTL
=============================================================================
