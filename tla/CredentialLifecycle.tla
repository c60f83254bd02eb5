-------------------------- MODULE CredentialLifecycle --------------------------
(***************************************************************************)
(* One credential file, its .disabled marker and the Account objects the   *)
(* pool holds for it, under everything that touches them: the 5 s reload,  *)
(* token refreshes, requests refused with 401, logins, edits and deletions *)
(* from the console, and a restart (main.go, credverify.go,                *)
(* accountlogin.go, credentialedit.go).  The files of a pool share nothing *)
(* but accountMu, so one is enough.                                        *)
(*                                                                         *)
(* A credential is a version: every write of the file is a new one, which  *)
(* is what the fingerprint (mtime and size) tells apart.  accountMu and    *)
(* acc.lock do not cover the file, and every network call runs outside     *)
(* accountMu: those are the steps.                                         *)
(***************************************************************************)
EXTENDS Integers, FiniteSets

CONSTANTS
    Refreshers,     \* callers of refreshAccountToken: requests, keep-alive, tasks
    Requests,       \* model requests under way
    Logins,         \* login sessions of the console and of the command line
    Editors,        \* console users who edit the file
    Deleters,       \* console users who delete it
    Entries,        \* Account objects; one is reused when nothing points to it
    NoEntry,
    ScanName,       \* the path under which the scan lists the file, or NoName
    LoginName,      \* the path under which a login writes it
    NoName,
    Threshold,      \* refreshDisableThreshold, 3 in the code
    MaxVersion,     \* bound: credentials ever written or issued
    MaxRestarts     \* bound: restarts of the process

Procs == Refreshers \cup Requests \cup Logins \cup Editors \cup Deleters
Versions == 1 .. MaxVersion
None == 0                           \* no file, no credential, no fingerprint

ASSUME ProcsAssumption == IsFiniteSet(Procs) /\ IsFiniteSet(Entries)
ASSUME NoEntryAssumption == NoEntry \notin Entries
ASSUME NameAssumption == LoginName # NoName
ASSUME BoundsAssumption == /\ Threshold \in Nat \ {0}
                           /\ MaxVersion \in Nat \ {0} /\ MaxRestarts \in Nat

VARIABLES
    file,       \* the version in the file
    marker,     \* the .disabled file: whom it names, and whether the file is newer
    issued,     \* versions used so far
    alive,      \* versions the upstream accepts
    pool,       \* the accounts slice
    acct,       \* acct[e]: the fields of Account object e
    pc, on,     \* where process p is, and with which object
    snap,       \* the credential p works with: a copy, a refusal's or an editor's
    new,        \* the credential p is about to store
    strikes,    \* history: failed refreshes of each version
    restarts

diskVars == <<file, marker>>
upVars == <<issued, alive>>
procVars == <<pc, on, snap, new>>
vars == <<diskVars, upVars, pool, acct, procVars, strikes, restarts>>

NoMarker == [age |-> "none", name |-> NoName]
NewAccount(n, v, f) == [name |-> n, auth |-> v, fp |-> f, disabled |-> FALSE, fails |-> 0]
Phantom(n) == [name |-> n, auth |-> None, fp |-> None, disabled |-> TRUE, fails |-> 0]

\* An object nobody points to.
Free(e) == e \notin pool /\ \A p \in Procs : on[p] # e

\* The gateway has loaded the file, or there is none yet.
Init ==
    /\ file \in IF ScanName = NoName THEN {None} ELSE {None, 1}
    /\ marker = NoMarker
    /\ issued = 1 /\ alive = {1}
    /\ acct = [e \in Entries |-> NewAccount(ScanName, file, file)]
    /\ IF file = None THEN pool = {} ELSE \E e \in Entries : pool = {e}
    /\ pc = [p \in Procs |-> "idle"]
    /\ on = [p \in Procs |-> NoEntry]
    /\ snap = [p \in Procs |-> None]
    /\ new = [p \in Procs |-> None]
    /\ strikes = [v \in Versions |-> 0]
    /\ restarts = 0

Goto(p, l) == pc' = [pc EXCEPT ![p] = l]
Finish(p) ==
    /\ Goto(p, "idle")
    /\ on' = [on EXCEPT ![p] = NoEntry]
    /\ snap' = [snap EXCEPT ![p] = None]
    /\ new' = [new EXCEPT ![p] = None]

\* A version the upstream issues now.
Issue ==
    /\ issued < MaxVersion
    /\ issued' = issued + 1

\* saveAuthTo and writeFile: the file is newer than a marker that was there.
WriteFile(v) ==
    /\ file' = v
    /\ marker' = IF marker = NoMarker THEN NoMarker ELSE [marker EXCEPT !.age = "older"]

\* acc.lock: a refresh holds it to its end, a request until the answer is in.
Writes(p, e) == p \in Refreshers /\ on[p] = e /\ pc[p] \notin {"idle", "chosen"}
Reads(p, e) == p \in Requests /\ on[p] = e /\ pc[p] = "sent"
Unlocked(e) == \A p \in Procs : ~Writes(p, e) /\ ~Reads(p, e)

-----------------------------------------------------------------------------
(* disableAccount: by a refresh, which holds the lock, or by a request *)

Disable(p) ==
    /\ pc[p] = "disable"
    /\ acct' = [acct EXCEPT ![on[p]].disabled = TRUE]
    /\ snap' = [snap EXCEPT ![p] = acct[on[p]].auth]
    /\ Goto(p, "mark")
    /\ UNCHANGED <<diskVars, upVars, pool, on, new, strikes, restarts>>

Mark(p) ==
    /\ pc[p] = "mark"
    /\ marker' = [age |-> "newer", name |-> acct[on[p]].name]
    /\ Goto(p, "verify")
    /\ UNCHANGED <<file, upVars, pool, acct, on, snap, new, strikes, restarts>>

\* credentialStillUsableForDelete: only a clear refusal lets the file go.
Keep(p) ==
    /\ pc[p] = "verify"
    /\ snap[p] # None
    /\ Finish(p)
    /\ UNCHANGED <<diskVars, upVars, pool, acct, strikes, restarts>>

Condemn(p) ==
    /\ pc[p] = "verify"
    /\ snap[p] \notin alive
    /\ Goto(p, "remove")
    /\ UNCHANGED <<diskVars, upVars, pool, acct, on, snap, new, strikes, restarts>>

Remove(p) ==
    /\ pc[p] = "remove"
    /\ file' = None
    /\ Finish(p)
    /\ UNCHANGED <<marker, upVars, pool, acct, strikes, restarts>>

disableAccount(p) == Disable(p) \/ Mark(p) \/ Keep(p) \/ Condemn(p) \/ Remove(p)

-----------------------------------------------------------------------------
(* refreshAccountToken *)

\* An object is taken from the pool and may have left it when its lock is held.
Choose(p, e) ==
    /\ pc[p] = "idle" /\ e \in pool
    /\ on' = [on EXCEPT ![p] = e]
    /\ Goto(p, "chosen")
    /\ UNCHANGED <<diskVars, upVars, pool, acct, snap, new, strikes, restarts>>

\* Nothing to refresh with, or another refresh was faster.
Skip(p) ==
    /\ pc[p] = "chosen"
    /\ Unlocked(on[p])
    /\ Finish(p)
    /\ UNCHANGED <<diskVars, upVars, pool, acct, strikes, restarts>>

\* Mutant: the lock is forgotten.
LockForgotten(p) ==
    /\ pc[p] = "chosen"
    /\ ~acct[on[p]].disabled /\ acct[on[p]].auth # None
    /\ snap' = [snap EXCEPT ![p] = acct[on[p]].auth]
    /\ Goto(p, "refresh")
    /\ UNCHANGED <<diskVars, upVars, pool, acct, on, new, strikes, restarts>>

Lock(p) ==
    /\ pc[p] = "chosen"
    /\ Unlocked(on[p])
    /\ ~acct[on[p]].disabled /\ acct[on[p]].auth # None
    /\ snap' = [snap EXCEPT ![p] = acct[on[p]].auth]
    /\ Goto(p, "refresh")
    /\ UNCHANGED <<diskVars, upVars, pool, acct, on, new, strikes, restarts>>

CountFailure(n) == IF n < Threshold THEN n + 1 ELSE n

RefreshFails(p) ==
    LET count == acct[on[p]].fails + 1 IN
    /\ pc[p] = "refresh"
    /\ acct' = [acct EXCEPT ![on[p]].fails = CountFailure(@)]
    /\ strikes' = [strikes EXCEPT ![snap[p]] = CountFailure(@)]
    /\ IF count >= Threshold
       THEN Goto(p, "disable") /\ UNCHANGED <<on, snap, new>>
       ELSE Finish(p)
    /\ UNCHANGED <<diskVars, upVars, pool, restarts>>

\* The upstream issues a credential and may revoke the one it replaces.
RefreshSucceeds(p) ==
    /\ pc[p] = "refresh"
    /\ Issue
    /\ alive' \in {alive \cup {issued'}, (alive \ {snap[p]}) \cup {issued'}}
    /\ new' = [new EXCEPT ![p] = issued']
    /\ Goto(p, "validate")
    /\ UNCHANGED <<diskVars, pool, acct, on, snap, strikes, restarts>>

\* validateRefreshedCredential: another account's, or not accepted.
Reject(p) ==
    /\ pc[p] = "validate"
    /\ Finish(p)
    /\ UNCHANGED <<diskVars, upVars, pool, acct, strikes, restarts>>

Save(p) ==
    /\ pc[p] \in {"validate", "login"}
    /\ WriteFile(new[p])
    /\ Goto(p, IF p \in Refreshers THEN "clear" ELSE "loginClear")
    /\ UNCHANGED <<upVars, pool, acct, on, snap, new, strikes, restarts>>

clearDisabledMarker(p) ==
    /\ pc[p] \in {"clear", "loginClear"}
    /\ marker' = NoMarker
    /\ Goto(p, IF p \in Refreshers THEN "publish" ELSE "load")
    /\ UNCHANGED <<file, upVars, pool, acct, on, snap, new, strikes, restarts>>

\* The fingerprint is that of the file as it is by now.
Publish(p) ==
    /\ pc[p] = "publish"
    /\ acct' = IF acct[on[p]].disabled THEN acct
               ELSE [acct EXCEPT ![on[p]] =
                        [@ EXCEPT !.auth = new[p], !.fp = file, !.fails = 0]]
    /\ Finish(p)
    /\ UNCHANGED <<diskVars, upVars, pool, strikes, restarts>>

refreshAccountToken(p) ==
    \/ \E e \in Entries : Choose(p, e)
    \/ Skip(p) \/ Lock(p) \/ RefreshFails(p) \/ RefreshSucceeds(p) \/ Reject(p)
    \/ Save(p) \/ clearDisabledMarker(p) \/ Publish(p) \/ disableAccount(p)

-----------------------------------------------------------------------------
(* A model request: sent with the credential of the moment, and refused *)

Send(p, e) ==
    /\ pc[p] = "idle"
    /\ e \in pool /\ ~acct[e].disabled
    /\ \A r \in Refreshers : ~Writes(r, e)
    /\ on' = [on EXCEPT ![p] = e]
    /\ snap' = [snap EXCEPT ![p] = acct[e].auth]
    /\ Goto(p, "sent")
    /\ UNCHANGED <<diskVars, upVars, pool, acct, new, strikes, restarts>>

Answered(p) ==
    /\ pc[p] = "sent"
    /\ Finish(p)
    /\ UNCHANGED <<diskVars, upVars, pool, acct, strikes, restarts>>

\* 401 or 403.  The lock is given back before the account is disabled.
Refused(p) ==
    /\ pc[p] = "sent"
    /\ Goto(p, "disable")
    /\ UNCHANGED <<diskVars, upVars, pool, acct, on, snap, new, strikes, restarts>>

request(p) ==
    \/ \E e \in Entries : Send(p, e)
    \/ Answered(p) \/ Refused(p) \/ disableAccount(p)

-----------------------------------------------------------------------------
(* reloadAccountsResult, under accountMu from beginning to end *)

Named(n) == {e \in pool : acct[e].name = n}
Scanned == ScanName # NoName /\ file # None

\* Entries whose file the scan did not see leave the pool, disabled ones stay.
Kept(entries) ==
    {e \in entries : acct[e].disabled \/ (Scanned /\ acct[e].name = ScanName)}

\* Mutant: the fingerprint is taken before the file is read, which may fail.
ReloadNotesOnly(e) ==
    /\ acct[e].fp # file
    /\ acct' = [acct EXCEPT ![e] = [@ EXCEPT !.fp = file, !.disabled = FALSE]]
    /\ marker' = NoMarker

\* The failure count is left as it is.
Replace(e) ==
    /\ acct[e].fp # file
    /\ acct' = [acct EXCEPT ![e] = [@ EXCEPT !.auth = file, !.fp = file, !.disabled = FALSE]]
    /\ marker' = NoMarker

reloadAccountsResult ==
    /\ \/ \E e \in Entries :
            /\ Scanned /\ Named(ScanName) = {} /\ Free(e)
            /\ acct' = [acct EXCEPT ![e] = NewAccount(ScanName, file, file)]
            /\ pool' = Kept(pool) \cup {e}
            /\ UNCHANGED marker
       \/ \E e \in Named(ScanName) : Scanned /\ Replace(e) /\ pool' = Kept(pool) \cup {e}
       \/ /\ Scanned => \E e \in Named(ScanName) : acct[e].fp = file
          /\ pool' = Kept(pool)
          /\ UNCHANGED <<acct, marker>>
    /\ UNCHANGED file

Reload ==
    /\ reloadAccountsResult
    /\ UNCHANGED <<upVars, procVars, strikes, restarts>>

-----------------------------------------------------------------------------
(* A login: loginSession.run and ensureAccountLoaded *)

\* Scanned with the phone.  That the name was free was looked at minutes ago,
\* by the console; the command line does not look.
Authorised(p) ==
    /\ pc[p] = "idle"
    /\ Issue
    /\ alive' = alive \cup {issued'}
    /\ new' = [new EXCEPT ![p] = issued']
    /\ Goto(p, "login")
    /\ UNCHANGED <<diskVars, pool, acct, on, snap, strikes, restarts>>

\* The command line is another process: the pool here hears of it by the reload.
LoginElsewhere(p) ==
    /\ pc[p] = "load"
    /\ Finish(p)
    /\ UNCHANGED <<diskVars, upVars, pool, acct, strikes, restarts>>

LoginReloads(p) ==
    /\ pc[p] = "load"
    /\ reloadAccountsResult
    /\ Goto(p, "loaded")
    /\ UNCHANGED <<upVars, on, snap, new, strikes, restarts>>

\* The pool is looked at, and the file read, before the entry is appended.
LookForEntry(p) ==
    /\ pc[p] = "loaded"
    /\ IF Named(LoginName) # {} \/ file = None
       THEN Finish(p)
       ELSE /\ snap' = [snap EXCEPT ![p] = file]
            /\ Goto(p, "append")
            /\ UNCHANGED <<on, new>>
    /\ UNCHANGED <<diskVars, upVars, pool, acct, strikes, restarts>>

Append(p, e) ==
    /\ pc[p] = "append" /\ Free(e)
    /\ pool' = pool \cup {e}
    /\ acct' = [acct EXCEPT ![e] = NewAccount(LoginName, snap[p], None)]
    /\ Finish(p)
    /\ UNCHANGED <<diskVars, upVars, strikes, restarts>>

login(p) ==
    \/ Authorised(p) \/ Save(p) \/ clearDisabledMarker(p)
    \/ LoginElsewhere(p) \/ LoginReloads(p) \/ LookForEntry(p)
    \/ \E e \in Entries : Append(p, e)

-----------------------------------------------------------------------------
(* The console's editor *)

Open(p) ==
    /\ pc[p] = "idle"
    /\ Scanned
    /\ snap' = [snap EXCEPT ![p] = file]
    /\ Goto(p, "editing")
    /\ UNCHANGED <<diskVars, upVars, pool, acct, on, new, strikes, restarts>>

Conflict(p) ==
    /\ pc[p] = "editing" /\ file # snap[p]
    /\ Finish(p)
    /\ UNCHANGED <<diskVars, upVars, pool, acct, strikes, restarts>>

\* saveEditedCredential, under both locks; what was typed may not be accepted.
SaveEdit(p) ==
    /\ pc[p] = "editing" /\ file = snap[p]
    /\ Issue
    /\ alive' \in {alive, alive \cup {issued'}}
    /\ file' = issued' /\ marker' = NoMarker
    /\ \E e \in Entries :
        \/ /\ e \in Named(ScanName) /\ Unlocked(e)
           /\ acct' = [acct EXCEPT ![e] =
                          [@ EXCEPT !.auth = issued', !.fp = issued', !.disabled = FALSE]]
           /\ UNCHANGED pool
        \/ /\ Named(ScanName) = {} /\ Free(e)
           /\ acct' = [acct EXCEPT ![e] = NewAccount(ScanName, issued', issued')]
           /\ pool' = pool \cup {e}
    /\ Finish(p)
    /\ UNCHANGED <<strikes, restarts>>

edit(p) == Open(p) \/ Conflict(p) \/ SaveEdit(p)

-----------------------------------------------------------------------------
(* deleteAccountCredential, which takes no account lock *)

DeleteFile(p) ==
    /\ pc[p] = "idle"
    /\ Cardinality(pool) = 1
    /\ file' = None
    /\ on' = [on EXCEPT ![p] = CHOOSE e \in pool : TRUE]
    /\ Goto(p, "deleteMarker")
    /\ UNCHANGED <<marker, upVars, pool, acct, snap, new, strikes, restarts>>

DeleteMarker(p) ==
    /\ pc[p] = "deleteMarker"
    /\ marker' = NoMarker
    /\ Goto(p, "deleteEntry")
    /\ UNCHANGED <<file, upVars, pool, acct, on, snap, new, strikes, restarts>>

DeleteEntry(p) ==
    /\ pc[p] = "deleteEntry"
    /\ pool' = pool \ Named(acct[on[p]].name)
    /\ Goto(p, "deleteReload")
    /\ on' = [on EXCEPT ![p] = NoEntry]
    /\ UNCHANGED <<diskVars, upVars, acct, snap, new, strikes, restarts>>

DeleteReloads(p) ==
    /\ pc[p] = "deleteReload"
    /\ reloadAccountsResult
    /\ Finish(p)
    /\ UNCHANGED <<upVars, strikes, restarts>>

delete(p) == DeleteFile(p) \/ DeleteMarker(p) \/ DeleteEntry(p) \/ DeleteReloads(p)

-----------------------------------------------------------------------------

\* The upstream revokes a credential.
Revoke(v) ==
    /\ v \in alive
    /\ alive' = alive \ {v}
    /\ UNCHANGED <<diskVars, issued, pool, acct, procVars, strikes, restarts>>

\* loadAccounts with loadDisabledMarkers: a marker older than the file is void,
\* any other disables the account, or stands for it when the file is gone.
FromFile == IF Scanned THEN {NewAccount(ScanName, file, file)} ELSE {}
\* Mutant: the marker is only needed once the file is gone.
LoadedIgnoringMarker ==
    IF marker = NoMarker \/ file # None THEN FromFile ELSE {Phantom(marker.name)}
Loaded ==
    IF marker = NoMarker \/ (marker.age = "older" /\ file # None) THEN FromFile
    ELSE {[a EXCEPT !.disabled = TRUE] : a \in {b \in FromFile : b.name = marker.name}}
         \cup {b \in FromFile : b.name # marker.name}
         \cup {a \in {Phantom(marker.name)} : \A b \in FromFile : b.name # a.name}

Restart ==
    /\ restarts < MaxRestarts
    /\ restarts' = restarts + 1
    /\ \E f \in [Loaded -> Entries] :
        /\ \A a, b \in Loaded : f[a] = f[b] => a = b
        /\ pool' = {f[a] : a \in Loaded}
        /\ acct' = [e \in Entries |->
                       IF e \in pool' THEN CHOOSE a \in Loaded : f[a] = e ELSE acct[e]]
    /\ marker' = IF marker.age = "older" /\ file # None THEN NoMarker ELSE marker
    /\ pc' = [p \in Procs |-> "idle"]
    /\ on' = [p \in Procs |-> NoEntry]
    /\ snap' = [p \in Procs |-> None]
    /\ new' = [p \in Procs |-> None]
    /\ UNCHANGED <<file, upVars, strikes>>

Next ==
    \/ \E p \in Refreshers : refreshAccountToken(p)
    \/ \E p \in Requests : request(p)
    \/ \E p \in Logins : login(p)
    \/ \E p \in Editors : edit(p)
    \/ \E p \in Deleters : delete(p)
    \/ \E v \in Versions : Revoke(v)
    \/ Reload \/ Restart

Spec == Init /\ [][Next]_vars
FairSpec == Spec /\ WF_vars(Reload)

-----------------------------------------------------------------------------
(* Properties *)

AccountFields ==
    [name : {ScanName, LoginName}, auth : Versions \cup {None}, fp : Versions \cup {None},
     disabled : BOOLEAN, fails : 0 .. Threshold]

\* Every variable keeps its type, and an account that is scheduled has a
\* credential: only a disabled one may be a name without a file (Account).
TypeOK ==
    /\ file \in Versions \cup {None} /\ issued \in Versions /\ alive \subseteq 1 .. issued
    /\ marker = NoMarker \/ (marker.age \in {"older", "newer"} /\ marker.name # NoName)
    /\ pool \subseteq Entries /\ acct \in [Entries -> AccountFields]
    /\ \A e \in pool : acct[e].disabled \/ acct[e].auth # None
    /\ on \in [Procs -> Entries \cup {NoEntry}]
    /\ {snap, new} \subseteq [Procs -> Versions \cup {None}]
    /\ strikes \in [Versions -> 0 .. Threshold] /\ restarts \in 0 .. MaxRestarts

\* Among refreshes and edits a refresh token is used once: no two refreshes are at the
\* upstream with the same credential, over any reload, restart and edit that falls
\* between the choice of the object and its lock (acc.lock, main.go:1853).  It is not
\* claimed where a deletion takes an object from under a refresh that waits for its
\* lock: README, section 5.
RefreshedByOneAtATime ==
    \A p, q \in Refreshers :
        p # q /\ pc[p] = "refresh" /\ pc[q] = "refresh" => snap[p] # snap[q]

\* Refreshes and edits, which take acc.lock, are not lost to each other: the
\* file never returns to a credential older than the one it had, nor does an
\* account while the process runs.  Logins and deletions, which do not take the lock,
\* are not among them: README, section 5.
NewestWins ==
    [][/\ file # None /\ file' # None => file' >= file
       /\ restarts' = restarts =>
            \A e \in pool \cap pool' : acct'[e].auth >= acct[e].auth]_vars

\* An account disabled and marked stays disabled over a restart, unless its
\* credential file has changed since (the marker, loadDisabledMarkers).
DisabledSurvivesRestart ==
    [][restarts' # restarts =>
        \A e \in pool :
            /\ acct[e].disabled /\ acct[e].fp = file /\ marker.name = acct[e].name
            /\ marker.age = "newer"
            => \A d \in pool' : acct'[d].name = acct[e].name => acct'[d].disabled]_vars

\* A credential file that stays as it is is in the pool in the end, as it is,
\* whatever was under way when it was written (fingerprint, reloadAccountsResult).
PoolFollowsFile ==
    \A v \in Versions :
        <>[](file = v) => <>[](\E e \in pool : acct[e].auth = v)

\* main.go:1567 says a credential is only destroyed after a check of it.
DeletesOnlyWhatWasVerified ==
    [][\A p \in Procs : pc[p] = "remove" /\ pc'[p] = "idle" /\ restarts' = restarts =>
        file \in {None, snap[p]}]_vars

\* keepalive.go:30 says Threshold failed refreshes in a row, not one, cost a
\* login its credential.
OneFailureDoesNotDisable ==
    [][\A p \in Refreshers : pc[p] = "refresh" /\ pc'[p] = "disable" =>
        strikes'[snap[p]] >= Threshold]_vars

\* user-guide:885 says a deleted credential is gone: only a login brings a file
\* back where there is none.
OnlyLoginCreates ==
    [][file = None /\ file' # None => \E p \in Logins : pc[p] = "login"]_vars

\* accountlogin.go:304 says the entry is appended only where the scan does not
\* cover the file: no file has two entries.
OneEntryPerFile == Cardinality(pool) <= 1

\* accountlogin.go:283 says a new credential is in the pool whether the scan
\* covers its file or not: a reload does not take it out again.
ScanOrNotItStays ==
    [][\A e \in pool :
        ~acct[e].disabled /\ acct[e].auth = file /\ file' = file
            => (e \in pool' \/ \E p \in Deleters : pc[p] = "deleteEntry")]_vars

\* user-guide:1055 says a new login ends the disabled state: what disables an
\* account afterwards is a refusal of that login's credential.
RefusalOfAnOldTokenIsHarmless ==
    [][\A p \in Requests : pc[p] = "disable" /\ pc'[p] = "mark" =>
        snap[p] = acct[on[p]].auth]_vars
=============================================================================
