---------------------- MODULE CredentialLifecycleProofs ----------------------
(***************************************************************************)
(* For every number of processes, entries and versions: the types, and     *)
(* that a disabled credential stays disabled over a restart.  With         *)
(* refreshes and edits alone, which take acc.lock, also that no refresh    *)
(* token is used twice at a time and that the newest credential wins; with *)
(* requests, logins and deletions the code does not keep that (README,     *)
(* section 5).                                                             *)
(***************************************************************************)
EXTENDS CredentialLifecycle, TLAPS, FiniteSetTheorems

Places == {"idle", "chosen", "refresh", "validate", "clear", "publish", "disable", "mark",
           "verify", "remove", "sent", "login", "loginClear", "load", "loaded", "append",
           "editing", "deleteMarker", "deleteEntry", "deleteReload"}
Names == {ScanName, LoginName}

\* What a process has in its hands at each place.
HandsOK ==
    /\ pc \in [Procs -> Places]
    /\ \A p \in Procs :
        /\ pc[p] \in {"chosen", "refresh", "sent", "disable", "mark"} => on[p] \in Entries
        /\ pc[p] \in {"validate", "login", "clear", "loginClear", "publish"} => new[p] # None
        /\ pc[p] = "append" => snap[p] # None
        /\ pc[p] = "editing" => ScanName # NoName /\ snap[p] # None

\* Whatever is in the pool, in use or on the marker has the name of a file.
NamesOK ==
    /\ marker \in [age : {"none", "older", "newer"}, name : Names \cup {NoName}]
    /\ marker # NoMarker => marker.name # NoName /\ marker.age # "none"
    /\ \A e \in Entries : ~Free(e) => acct[e].name # NoName

GInv == TypeOK /\ HandsOK /\ NamesOK

\* The places at which a refresh holds acc.lock.
Holding == {"refresh", "validate", "clear", "publish", "disable", "mark", "verify", "remove"}

\* One refresh at most holds the lock of an object.
Excluded ==
    \A p, q \in Refreshers :
        pc[p] \in Holding /\ pc[q] \in Holding /\ on[p] = on[q] => p = q

\* With refreshes and edits alone there is one object: it stays in the pool as
\* long as a refresh has it.
OneObject ==
    /\ \A e, d \in pool : e = d
    /\ \A e \in pool : acct[e].name = ScanName
    /\ marker # NoMarker => marker.name = ScanName
    /\ \A p \in Procs :
        /\ pc[p] \in Holding \cup {"idle", "chosen", "editing"}
        /\ pc[p] \in Holding \cup {"chosen"} => p \in Refreshers /\ on[p] \in pool

\* The holder of the lock and the object agree about what is going on, and only
\* a refresh that has written the file leaves object and file apart.
LockOK ==
    /\ \A p \in Procs :
        /\ pc[p] \in {"refresh", "validate", "clear", "publish", "disable"} =>
            ~acct[on[p]].disabled
        /\ pc[p] \in {"mark", "verify", "remove"} => acct[on[p]].disabled
    /\ file = None => \A e \in pool : acct[e].disabled
    /\ \A e \in pool : file # None /\ acct[e].fp # file =>
        \E p \in Procs : pc[p] \in {"clear", "publish"}

\* Versions only grow, from the object over the file to what is being stored.
AgesOK ==
    /\ file <= issued
    /\ file # None => \A e \in pool : acct[e].auth <= file
    /\ \A p \in Procs :
        /\ pc[p] = "validate" => file <= new[p] /\ new[p] <= issued
        /\ pc[p] \in {"clear", "publish"} => file = new[p]

RInv == GInv /\ Excluded /\ OneObject /\ LockOK /\ AgesOK

-----------------------------------------------------------------------------
(* The types, for all processes together. *)

USE DEF None

\* Accounts as they are made.
LEMMA AccountsMade ==
    /\ \A v \in Versions \cup {None}, n \in Names :
        NewAccount(n, v, v) \in AccountFields /\ NewAccount(n, v, None) \in AccountFields
    /\ \A n \in Names : Phantom(n) \in AccountFields
BY BoundsAssumption DEF NewAccount, Phantom, AccountFields, Names

\* One field of an account is set.
LEMMA AccountsSet ==
    ASSUME NEW a \in AccountFields, NEW v \in Versions \cup {None}, NEW f \in Versions \cup {None}
    PROVE  /\ [a EXCEPT !.disabled = TRUE] \in AccountFields
           /\ [a EXCEPT !.auth = v, !.fp = f, !.disabled = FALSE] \in AccountFields
           /\ [a EXCEPT !.auth = v, !.fp = f, !.fails = 0] \in AccountFields
           /\ [a EXCEPT !.disabled = TRUE].name = a.name
           /\ \A n \in 0 .. Threshold : [a EXCEPT !.fails = n] \in AccountFields
                                      /\ [a EXCEPT !.fails = n].name = a.name
           /\ [a EXCEPT !.auth = v, !.fp = f, !.disabled = FALSE].name = a.name
           /\ [a EXCEPT !.auth = v, !.fp = f, !.fails = 0].name = a.name
<1>1. [a EXCEPT !.disabled = TRUE] \in AccountFields /\ [a EXCEPT !.disabled = TRUE].name = a.name
  BY DEF AccountFields
<1>2. \A n \in 0 .. Threshold : [a EXCEPT !.fails = n] \in AccountFields
                             /\ [a EXCEPT !.fails = n].name = a.name
  BY DEF AccountFields
<1>3. [a EXCEPT !.auth = v, !.fp = f, !.disabled = FALSE] \in AccountFields
  BY DEF AccountFields
<1>4. [a EXCEPT !.auth = v, !.fp = f, !.disabled = FALSE].name = a.name
  BY DEF AccountFields
<1>5. [a EXCEPT !.auth = v, !.fp = f, !.fails = 0] \in AccountFields
  <2>1. 0 \in 0 .. Threshold
    BY BoundsAssumption
  <2>2. QED
    BY <2>1 DEF AccountFields
<1>6. [a EXCEPT !.auth = v, !.fp = f, !.fails = 0].name = a.name
  BY DEF AccountFields
<1>7. QED
  BY <1>1, <1>2, <1>3, <1>4, <1>5, <1>6

LEMMA InitGInv == Init => GInv
<1> SUFFICES ASSUME Init PROVE GInv
  OBVIOUS
<1> USE BoundsAssumption, NameAssumption DEF Init
<1>1. file \in Versions \cup {None} /\ ScanName \in Names
  BY DEF Versions, Names
<1>2. NewAccount(ScanName, file, file) \in AccountFields
  BY <1>1, AccountsMade
<1>3. TypeOK
  <2>1. pool \subseteq Entries /\ \A e \in pool : acct[e].disabled \/ acct[e].auth # None
    BY DEF NewAccount
  <2>2. acct \in [Entries -> AccountFields]
    BY <1>2
  <2>3. strikes \in [Versions -> 0 .. Threshold] /\ issued \in Versions /\ alive \subseteq 1 .. issued
    BY DEF Versions
  <2>4. QED
    BY <1>1, <2>1, <2>2, <2>3 DEF TypeOK
<1>4. HandsOK
  BY DEF HandsOK, Places
<1>5. NamesOK
  <2>1. \A e \in Entries : ~Free(e) => file # None
    BY NoEntryAssumption DEF Free
  <2>2. QED
    BY <2>1 DEF NamesOK, NoMarker, NewAccount
<1>6. QED
  BY <1>3, <1>4, <1>5 DEF GInv

\* Every action of a process ends with it at a place with the right things.
LEMMA HandsStep == GInv /\ [Next]_vars => HandsOK'
<1> SUFFICES ASSUME GInv, [Next]_vars PROVE HandsOK'
  OBVIOUS
<1> USE DEF GInv, TypeOK, HandsOK, Places, Goto, Finish
<1>1. ASSUME NEW p \in Procs, disableAccount(p) PROVE HandsOK'
  BY <1>1 DEF disableAccount, Disable, Mark, Keep, Condemn, Remove
<1>2. ASSUME NEW p \in Procs, (\E e \in Entries : Choose(p, e)) \/ Skip(p) \/ Lock(p)
             \/ RefreshFails(p) \/ Reject(p) \/ Publish(p)
      PROVE  HandsOK'
  BY <1>2 DEF Choose, Skip, Lock, RefreshFails, Reject, Publish
<1>3. ASSUME NEW p \in Procs, RefreshSucceeds(p) \/ Authorised(p) PROVE HandsOK'
  <2>1. issued' \in Versions /\ issued' # None
    BY <1>3, BoundsAssumption DEF RefreshSucceeds, Authorised, Issue, Versions
  <2>2. QED
    BY <1>3, <2>1 DEF RefreshSucceeds, Authorised
<1>4. ASSUME NEW p \in Procs, Save(p) \/ clearDisabledMarker(p) PROVE HandsOK'
  BY <1>4 DEF Save, clearDisabledMarker
<1>5. ASSUME NEW p \in Procs, (\E e \in Entries : Send(p, e)) \/ Answered(p) \/ Refused(p)
      PROVE  HandsOK'
  BY <1>5 DEF Send, Answered, Refused
<1>6. ASSUME NEW p \in Procs, LoginElsewhere(p) \/ LoginReloads(p) \/ LookForEntry(p)
             \/ (\E e \in Entries : Append(p, e))
      PROVE  HandsOK'
  BY <1>6 DEF LoginElsewhere, LoginReloads, LookForEntry, Append
<1>7. ASSUME NEW p \in Procs, edit(p) PROVE HandsOK'
  <2>1. CASE Open(p) \/ Conflict(p)
    BY <2>1 DEF Open, Conflict, Scanned
  <2>2. CASE SaveEdit(p)
    BY <2>2 DEF SaveEdit
  <2>3. QED
    BY <1>7, <2>1, <2>2 DEF edit
<1>8. ASSUME NEW p \in Procs, delete(p) PROVE HandsOK'
  <2>1. CASE DeleteFile(p)
    BY <1>8, <2>1 DEF DeleteFile
  <2>2. CASE DeleteMarker(p) \/ DeleteEntry(p) \/ DeleteReloads(p)
    BY <1>8, <2>2 DEF DeleteMarker, DeleteEntry, DeleteReloads
  <2>3. QED
    BY <1>8, <2>1, <2>2 DEF delete
<1>9. CASE (\E v \in Versions : Revoke(v)) \/ Reload \/ UNCHANGED vars
  BY <1>9 DEF Revoke, Reload, vars, procVars
<1>10. CASE Restart
  BY <1>10 DEF Restart
<1>11. QED
  BY <1>1, <1>2, <1>3, <1>4, <1>5, <1>6, <1>7, <1>8, <1>9, <1>10
     DEF Next, Procs, refreshAccountToken, request, login

\* The upstream issues the next version.
LEMMA Issued ==
    ASSUME TypeOK, Issue
    PROVE  /\ issued' \in Versions /\ issued' # None
           /\ 1 .. issued \subseteq 1 .. issued' /\ issued' \in 1 .. issued'
BY BoundsAssumption DEF TypeOK, Issue, Versions

\* What a reload makes of the pool.
LEMMA ReloadEffect ==
    ASSUME GInv, reloadAccountsResult
    PROVE  /\ acct' \in [Entries -> AccountFields] /\ pool' \subseteq Entries
           /\ \A e \in pool' : acct'[e].disabled \/ acct'[e].auth # None
           /\ marker' \in {marker, NoMarker} /\ file' = file
           /\ \A e \in Entries : acct'[e].name # acct[e].name =>
                  acct'[e].name = ScanName /\ ScanName # NoName
           /\ \A e \in pool' : e \in pool \/ acct'[e].name # NoName
<1> USE DEF GInv, TypeOK
<1>1. \A v \in Versions \cup {None} : NewAccount(ScanName, v, v) \in AccountFields
  BY AccountsMade DEF Names
<1>2. CASE \E e \in Entries :
             /\ Scanned /\ Named(ScanName) = {} /\ Free(e)
             /\ acct' = [acct EXCEPT ![e] = NewAccount(ScanName, file, file)]
             /\ pool' = Kept(pool) \cup {e}
             /\ UNCHANGED marker
  BY <1>1, <1>2 DEF reloadAccountsResult, Scanned, NewAccount, Kept
<1>3. CASE \E e \in Named(ScanName) : Scanned /\ Replace(e) /\ pool' = Kept(pool) \cup {e}
  <2>1. PICK e \in pool : Scanned /\ Replace(e) /\ pool' = Kept(pool) \cup {e}
    BY <1>3 DEF Named
  <2> DEFINE b == [acct[e] EXCEPT !.auth = file, !.fp = file, !.disabled = FALSE]
  <2>2. acct' = [acct EXCEPT ![e] = b] /\ marker' = NoMarker
    BY <2>1 DEF Replace
  <2>3. acct[e] \in AccountFields
    OBVIOUS
  <2>4. b \in AccountFields /\ b.name = acct[e].name
    <3>1. file \in Versions \cup {None}
      OBVIOUS
    <3>2. QED
      BY <2>3, <3>1 DEF AccountFields
  <2>5. b.auth = file
    BY <2>3 DEF AccountFields
  <2> HIDE DEF b
  <2>6. QED
    BY <2>1, <2>2, <2>4, <2>5 DEF reloadAccountsResult, Scanned, Kept
<1>4. CASE pool' = Kept(pool) /\ UNCHANGED <<acct, marker>>
  BY <1>4 DEF reloadAccountsResult, Kept
<1>5. QED
  BY <1>2, <1>3, <1>4 DEF reloadAccountsResult

\* What a restart loads.
LEMMA LoadedAccounts ==
    ASSUME GInv
    PROVE  \A a \in Loaded : /\ a \in AccountFields /\ a.name # NoName
                             /\ a.disabled \/ a.auth # None
<1> USE DEF GInv, TypeOK
<1>1. \A a \in FromFile : a \in AccountFields /\ a.name # NoName /\ a.auth # None
  <2> SUFFICES ASSUME Scanned
               PROVE  LET a == NewAccount(ScanName, file, file)
                      IN  a \in AccountFields /\ a.name # NoName /\ a.auth # None
    BY DEF FromFile
  <2>1. NewAccount(ScanName, file, file) \in AccountFields
    BY AccountsMade DEF Names
  <2>2. QED
    BY <2>1 DEF Scanned, NewAccount
<1>2. \A a \in FromFile : /\ [a EXCEPT !.disabled = TRUE] \in AccountFields
                          /\ [a EXCEPT !.disabled = TRUE].name = a.name
                          /\ [a EXCEPT !.disabled = TRUE].disabled
  BY <1>1 DEF AccountFields
<1>3. marker # NoMarker => /\ Phantom(marker.name) \in AccountFields
                           /\ marker.name # NoName
  BY AccountsMade DEF NamesOK
<1>4. Phantom(marker.name).disabled /\ Phantom(marker.name).name = marker.name
  BY DEF Phantom
<1>5. QED
  <2>1. CASE marker = NoMarker \/ (marker.age = "older" /\ file # None)
    BY <1>1, <2>1 DEF Loaded
  <2>2. CASE marker # NoMarker /\ ~(marker.age = "older" /\ file # None)
    <3>1. \A a \in {[b EXCEPT !.disabled = TRUE] : b \in {b \in FromFile : b.name = marker.name}} :
             a \in AccountFields /\ a.name # NoName /\ a.disabled
      BY <1>1, <1>2
    <3>2. \A a \in Loaded :
             \/ a \in {[b EXCEPT !.disabled = TRUE] : b \in {b \in FromFile : b.name = marker.name}}
             \/ a \in FromFile
             \/ a = Phantom(marker.name)
      BY <2>2 DEF Loaded
    <3>3. QED
      BY <1>1, <1>3, <1>4, <2>2, <3>1, <3>2
  <2>3. QED
    BY <2>1, <2>2


\* The processes' variables when one of them is done.
LEMMA Finished ==
    ASSUME TypeOK, NEW p \in Procs, Finish(p)
    PROVE  on' \in [Procs -> Entries \cup {NoEntry}] /\ {snap', new'} \subseteq [Procs -> Versions \cup {None}]
BY DEF TypeOK, Finish

\* An object in use has the name of a file.
LEMMA InUseHasName ==
    ASSUME GInv, NEW p \in Procs, on[p] \in Entries
    PROVE  acct[on[p]] \in AccountFields /\ acct[on[p]].name # NoName /\ acct[on[p]].auth \in Versions \cup {None}
BY DEF GInv, TypeOK, NamesOK, Free, AccountFields

LEMMA TypeDisable ==
    ASSUME GInv, NEW p \in Procs, disableAccount(p)
    PROVE  TypeOK'
<1> USE DEF GInv
<1>1. CASE Disable(p)
  <2> DEFINE e == on[p]
  <2>1. e \in Entries /\ acct[e] \in AccountFields /\ acct[e].auth \in Versions \cup {None}
    BY <1>1, InUseHasName DEF Disable, HandsOK
  <2>2. [acct[e] EXCEPT !.disabled = TRUE] \in AccountFields /\ [acct[e] EXCEPT !.disabled = TRUE].disabled
    BY <2>1 DEF AccountFields
  <2>3. acct' = [acct EXCEPT ![e] = [acct[e] EXCEPT !.disabled = TRUE]]
    BY <1>1 DEF Disable
  <2>4. acct' \in [Entries -> AccountFields] /\ \A d \in pool' : acct'[d].disabled \/ acct'[d].auth # None
    BY <1>1, <2>1, <2>2, <2>3 DEF TypeOK, Disable
  <2>5. snap' \in [Procs -> Versions \cup {None}]
    BY <1>1, <2>1 DEF TypeOK, Disable
  <2>6. QED
    BY <1>1, <2>4, <2>5 DEF TypeOK, Disable, diskVars, upVars
<1>2. CASE Mark(p)
  <2>1. acct[on[p]].name # NoName
    BY <1>2, InUseHasName DEF Mark, HandsOK
  <2>2. QED
    BY <1>2, <2>1 DEF TypeOK, Mark, upVars
<1>3. CASE Keep(p) \/ Condemn(p)
  BY <1>3, Finished DEF TypeOK, Keep, Condemn, diskVars, upVars
<1>4. CASE Remove(p)
  BY <1>4, Finished DEF TypeOK, Remove, upVars
<1>5. QED
  BY <1>1, <1>2, <1>3, <1>4 DEF disableAccount

LEMMA TypeRefresh ==
    ASSUME GInv, NEW p \in Procs, refreshAccountToken(p) \/ request(p)
    PROVE  TypeOK'
<1> USE DEF GInv
<1>1. CASE (\E e \in Entries : Choose(p, e) \/ Send(p, e)) \/ Skip(p) \/ Reject(p)
           \/ Answered(p) \/ Refused(p)
  <2>1. CASE Skip(p) \/ Reject(p) \/ Answered(p) \/ Refused(p)
    BY <2>1, Finished DEF TypeOK, Skip, Reject, Answered, Refused, diskVars, upVars
  <2>2. CASE \E e \in Entries : Choose(p, e)
    BY <2>2 DEF TypeOK, Choose, diskVars, upVars
  <2>3. CASE \E e \in Entries : Send(p, e)
    BY <2>3 DEF TypeOK, Send, diskVars, upVars, AccountFields
  <2>4. QED
    BY <1>1, <2>1, <2>2, <2>3
<1>2. CASE Lock(p)
  <2>1. acct[on[p]].auth \in Versions \cup {None}
    BY <1>2, InUseHasName DEF Lock, HandsOK
  <2>2. QED
    BY <1>2, <2>1 DEF TypeOK, Lock, diskVars, upVars
<1>3. CASE RefreshFails(p)
  <2> DEFINE e == on[p]
             n == CountFailure(acct[e].fails)
  <2>1. e \in Entries /\ acct[e] \in AccountFields
    BY <1>3, InUseHasName DEF RefreshFails, HandsOK
  <2>2. \A k \in 0 .. Threshold : CountFailure(k) \in 0 .. Threshold
    BY BoundsAssumption DEF CountFailure
  <2>3. n \in 0 .. Threshold
    BY <2>1, <2>2 DEF AccountFields
  <2>4. acct' = [acct EXCEPT ![e] = [acct[e] EXCEPT !.fails = n]]
    BY <1>3 DEF RefreshFails
  <2>5. /\ [acct[e] EXCEPT !.fails = n] \in AccountFields
        /\ [acct[e] EXCEPT !.fails = n].disabled = acct[e].disabled
        /\ [acct[e] EXCEPT !.fails = n].auth = acct[e].auth
    BY <2>1, <2>3 DEF AccountFields
  <2>6. acct' \in [Entries -> AccountFields] /\ \A d \in pool : acct'[d].disabled \/ acct'[d].auth # None
    BY <2>1, <2>4, <2>5 DEF TypeOK
  <2>7. strikes' \in [Versions -> 0 .. Threshold]
    BY <1>3, <2>2 DEF RefreshFails, TypeOK
  <2>8. on' \in [Procs -> Entries \cup {NoEntry}] /\ {snap', new'} \subseteq [Procs -> Versions \cup {None}]
    BY <1>3, Finished DEF RefreshFails, TypeOK
  <2>9. QED
    BY <1>3, <2>6, <2>7, <2>8 DEF TypeOK, RefreshFails, diskVars, upVars
<1>4. CASE RefreshSucceeds(p)
  <2>1. issued' \in Versions /\ 1 .. issued \subseteq 1 .. issued' /\ issued' \in 1 .. issued'
    BY <1>4, Issued DEF RefreshSucceeds
  <2>2. alive' \subseteq 1 .. issued'
    BY <1>4, <2>1 DEF RefreshSucceeds, TypeOK
  <2>3. QED
    BY <1>4, <2>1, <2>2 DEF TypeOK, RefreshSucceeds, diskVars
<1>5. CASE Save(p) \/ clearDisabledMarker(p)
  <2>1. CASE Save(p)
    <3>1. new[p] \in Versions
      BY <2>1 DEF Save, HandsOK, TypeOK
    <3>2. marker' = NoMarker \/ (marker'.age \in {"older", "newer"} /\ marker'.name # NoName)
      BY <2>1 DEF Save, WriteFile, TypeOK, NamesOK
    <3>3. QED
      BY <2>1, <3>1, <3>2 DEF TypeOK, Save, WriteFile, upVars
  <2>2. CASE clearDisabledMarker(p)
    BY <2>2 DEF TypeOK, clearDisabledMarker, upVars
  <2>3. QED
    BY <1>5, <2>1, <2>2
<1>6. CASE Publish(p)
  <2>1. CASE acct[on[p]].disabled
    BY <1>6, <2>1, Finished DEF TypeOK, Publish, diskVars, upVars
  <2>2. CASE ~acct[on[p]].disabled
    <3> DEFINE e == on[p]
               a == [acct[e] EXCEPT !.auth = new[p], !.fp = file, !.fails = 0]
    <3>1. acct' = [acct EXCEPT ![e] = a]
      BY <1>6, <2>2 DEF Publish
    <3>2. new[p] \in Versions
      BY <1>6 DEF Publish, HandsOK, TypeOK
    <3>3. e \in Entries => a \in AccountFields /\ a.auth # None
      <4>1. 0 \in 0 .. Threshold
        BY BoundsAssumption
      <4>2. new[p] # None /\ file \in Versions \cup {None}
        BY <1>6 DEF Publish, HandsOK, TypeOK
      <4>3. e \in Entries => acct[e] \in AccountFields
        BY DEF TypeOK
      <4>4. e \in Entries => a \in AccountFields
        BY <3>2, <4>1, <4>2, <4>3 DEF AccountFields
      <4>5. e \in Entries => a.auth = new[p]
        BY <4>3 DEF AccountFields
      <4>6. QED
        BY <4>2, <4>4, <4>5
    <3> HIDE DEF a
    <3>4. acct' \in [Entries -> AccountFields] /\ \A d \in pool : acct'[d].disabled \/ acct'[d].auth # None
      BY <3>1, <3>3 DEF TypeOK
    <3>5. QED
      BY <1>6, <3>4, Finished DEF TypeOK, Publish, diskVars, upVars
  <2>3. QED
    BY <2>1, <2>2
<1>7. QED
  BY <1>1, <1>2, <1>3, <1>4, <1>5, <1>6, TypeDisable DEF refreshAccountToken, request

\* reloadAccountsResult within the reload, a login or a deletion.
LEMMA TypeReload ==
    ASSUME GInv, reloadAccountsResult, UNCHANGED <<upVars, strikes, restarts>>,
           on' \in [Procs -> Entries \cup {NoEntry}],
           {snap', new'} \subseteq [Procs -> Versions \cup {None}]
    PROVE  TypeOK'
<1>1. /\ acct' \in [Entries -> AccountFields] /\ pool' \subseteq Entries
      /\ \A e \in pool' : acct'[e].disabled \/ acct'[e].auth # None
      /\ marker' \in {marker, NoMarker} /\ file' = file
  BY ReloadEffect
<1>2. QED
  BY <1>1 DEF GInv, TypeOK, upVars

LEMMA TypeConsole ==
    ASSUME GInv, NEW p \in Procs, login(p) \/ edit(p) \/ delete(p)
    PROVE  TypeOK'
<1> USE DEF GInv
<1>1. CASE Authorised(p)
  <2>1. issued' \in Versions /\ 1 .. issued \subseteq 1 .. issued' /\ issued' \in 1 .. issued'
    BY <1>1, Issued DEF Authorised
  <2>2. QED
    BY <1>1, <2>1 DEF TypeOK, Authorised, diskVars
<1>2. CASE Save(p) \/ clearDisabledMarker(p)
  BY <1>2, TypeRefresh DEF refreshAccountToken
<1>3. CASE LoginElsewhere(p) \/ Conflict(p)
  BY <1>3, Finished DEF TypeOK, LoginElsewhere, Conflict, diskVars, upVars
<1>4. CASE LoginReloads(p)
  BY <1>4, TypeReload DEF TypeOK, LoginReloads
<1>5. CASE LookForEntry(p)
  <2>1. on' \in [Procs -> Entries \cup {NoEntry}] /\ {snap', new'} \subseteq [Procs -> Versions \cup {None}]
    BY <1>5, Finished DEF TypeOK, LookForEntry
  <2>2. QED
    BY <1>5, <2>1 DEF TypeOK, LookForEntry, diskVars, upVars
<1>6. CASE \E e \in Entries : Append(p, e)
  <2>1. PICK e \in Entries : Append(p, e)
    BY <1>6
  <2>2. snap[p] \in Versions \cup {None} /\ snap[p] # None
    BY <2>1 DEF Append, HandsOK, TypeOK
  <2>3. NewAccount(LoginName, snap[p], None) \in AccountFields
    BY <2>2, BoundsAssumption DEF NewAccount, AccountFields
  <2>4. NewAccount(LoginName, snap[p], None).auth # None
    BY <2>2 DEF NewAccount
  <2>5. /\ acct' \in [Entries -> AccountFields] /\ pool' \subseteq Entries
        /\ \A d \in pool' : acct'[d].disabled \/ acct'[d].auth # None
    BY <2>1, <2>3, <2>4 DEF Append, TypeOK
  <2>6. QED
    BY <2>1, <2>5, Finished DEF TypeOK, Append, diskVars, upVars
<1>7. CASE Open(p)
  BY <1>7 DEF TypeOK, Open, diskVars, upVars
<1>8. CASE SaveEdit(p)
  <2>1. /\ issued' \in Versions /\ issued' # None
        /\ 1 .. issued \subseteq 1 .. issued' /\ issued' \in 1 .. issued'
    BY <1>8, Issued DEF SaveEdit
  <2>2. alive' \subseteq 1 .. issued'
    BY <1>8, <2>1 DEF SaveEdit, TypeOK
  <2>3. /\ acct' \in [Entries -> AccountFields] /\ pool' \subseteq Entries
        /\ \A d \in pool' : acct'[d].disabled \/ acct'[d].auth # None
    <3>1. CASE \E e \in Entries :
                 /\ e \in Named(ScanName)
                 /\ acct' = [acct EXCEPT ![e] =
                                [@ EXCEPT !.auth = issued', !.fp = issued', !.disabled = FALSE]]
                 /\ UNCHANGED pool
      <4>1. PICK e \in pool :
              acct' = [acct EXCEPT ![e] =
                          [acct[e] EXCEPT !.auth = issued', !.fp = issued', !.disabled = FALSE]]
        BY <3>1 DEF Named
      <4> DEFINE a == [acct[e] EXCEPT !.auth = issued', !.fp = issued', !.disabled = FALSE]
      <4>2. acct[e] \in AccountFields
        BY DEF TypeOK
      <4>3. a \in AccountFields
        BY <2>1, <4>2 DEF AccountFields
      <4>4. a.auth = issued'
        BY <4>2 DEF AccountFields
      <4>5. acct' = [acct EXCEPT ![e] = a]
        BY <4>1
      <4> HIDE DEF a
      <4>6. QED
        BY <2>1, <3>1, <4>3, <4>4, <4>5 DEF TypeOK
    <3>2. CASE \E e \in Entries :
                 /\ acct' = [acct EXCEPT ![e] = NewAccount(ScanName, issued', issued')]
                 /\ pool' = pool \cup {e}
      <4>1. NewAccount(ScanName, issued', issued') \in AccountFields
        BY <2>1, AccountsMade DEF Names
      <4>2. NewAccount(ScanName, issued', issued').auth # None
        BY <2>1 DEF NewAccount
      <4>3. QED
        BY <3>2, <4>1, <4>2 DEF TypeOK
    <3>3. QED
      BY <1>8, <3>1, <3>2 DEF SaveEdit
  <2>4. QED
    BY <1>8, <2>1, <2>2, <2>3, Finished DEF TypeOK, SaveEdit
<1>9. CASE DeleteFile(p)
  <2>1. (CHOOSE e \in pool : TRUE) \in pool
    <3>1. IsFiniteSet(pool)
      BY ProcsAssumption, FS_Subset DEF TypeOK
    <3>2. pool # {}
      BY <1>9, <3>1, FS_EmptySet DEF DeleteFile
    <3>3. QED
      BY <3>2
  <2>2. QED
    BY <1>9, <2>1 DEF TypeOK, DeleteFile, upVars
<1>10. CASE DeleteMarker(p)
  BY <1>10 DEF TypeOK, DeleteMarker, upVars
<1>11. CASE DeleteEntry(p)
  BY <1>11 DEF TypeOK, DeleteEntry, diskVars, upVars
<1>12. CASE DeleteReloads(p)
  BY <1>12, Finished, TypeReload DEF DeleteReloads
<1>13. QED
  BY <1>1, <1>2, <1>3, <1>4, <1>5, <1>6, <1>7, <1>8, <1>9, <1>10, <1>11, <1>12
     DEF login, edit, delete

LEMMA TypeRestart == GInv /\ Restart => TypeOK'
<1> SUFFICES ASSUME GInv, Restart PROVE TypeOK'
  OBVIOUS
<1> USE DEF GInv
<1>1. PICK f \in [Loaded -> Entries] :
        /\ \A a, b \in Loaded : f[a] = f[b] => a = b
        /\ pool' = {f[a] : a \in Loaded}
        /\ acct' = [e \in Entries |->
                       IF e \in pool' THEN CHOOSE a \in Loaded : f[a] = e ELSE acct[e]]
  BY DEF Restart
<1>2. \A e \in pool' : /\ e \in Entries /\ acct'[e] \in AccountFields
                       /\ acct'[e].disabled \/ acct'[e].auth # None
  <2> SUFFICES ASSUME NEW e \in pool'
               PROVE  /\ e \in Entries /\ acct'[e] \in AccountFields
                      /\ acct'[e].disabled \/ acct'[e].auth # None
    OBVIOUS
  <2>1. PICK a \in Loaded : f[a] = e
    BY <1>1
  <2>2. e \in Entries /\ acct'[e] = CHOOSE b \in Loaded : f[b] = e
    BY <1>1, <2>1
  <2>3. acct'[e] \in Loaded
    BY <2>1, <2>2
  <2>4. QED
    BY <2>2, <2>3, LoadedAccounts
<1>3. acct' \in [Entries -> AccountFields] /\ pool' \subseteq Entries
  BY <1>1, <1>2 DEF TypeOK
<1>4. restarts' \in 0 .. MaxRestarts
  BY BoundsAssumption DEF TypeOK, Restart
<1>5. marker' \in {marker, NoMarker}
  BY DEF Restart
<1>6. on' \in [Procs -> Entries \cup {NoEntry}] /\ {snap', new'} \subseteq [Procs -> Versions \cup {None}]
  BY DEF Restart
<1>7. file' = file /\ issued' = issued /\ alive' = alive /\ strikes' = strikes
  BY DEF Restart, upVars
<1>8. marker' = NoMarker \/ (marker'.age \in {"older", "newer"} /\ marker'.name # NoName)
  BY <1>5 DEF TypeOK
<1>9. QED
  BY <1>2, <1>3, <1>4, <1>6, <1>7, <1>8 DEF TypeOK

LEMMA TypeStep == GInv /\ [Next]_vars => TypeOK'
<1>1. GInv /\ (\E v \in Versions : Revoke(v)) => TypeOK'
  BY DEF GInv, TypeOK, Revoke, diskVars, procVars
<1>2. GInv /\ Reload => TypeOK'
  <2> SUFFICES ASSUME GInv, Reload PROVE TypeOK'
    OBVIOUS
  <2>1. on' = on /\ snap' = snap /\ new' = new
    BY DEF Reload, procVars
  <2>2. on \in [Procs -> Entries \cup {NoEntry}] /\ {snap, new} \subseteq [Procs -> Versions \cup {None}]
    BY DEF GInv, TypeOK
  <2>3. QED
    BY <2>1, <2>2, TypeReload DEF Reload
<1>3. GInv /\ UNCHANGED vars => TypeOK'
  BY DEF GInv, TypeOK, vars, diskVars, upVars, procVars
<1>4. QED
  BY <1>1, <1>2, <1>3, TypeRefresh, TypeConsole, TypeRestart DEF Next, Procs

\* Objects nobody points to stay so while nobody takes one, and a name that is
\* not given anew is one that was there.
LEMMA NamesKept ==
    ASSUME GInv,
           marker' \in {marker, NoMarker} \/ marker' = [marker EXCEPT !.age = "older"],
           marker' # NoMarker => marker # NoMarker,
           \A e \in Entries : ~Free(e)' => \/ ~Free(e) /\ acct'[e].name = acct[e].name
                                           \/ acct'[e].name # NoName
    PROVE  NamesOK'
<1> USE DEF GInv, NamesOK
<1>1. NoMarker \in [age : {"none", "older", "newer"}, name : Names \cup {NoName}]
  BY DEF NoMarker
<1>2. [marker EXCEPT !.age = "older"] \in [age : {"none", "older", "newer"}, name : Names \cup {NoName}]
      /\ [marker EXCEPT !.age = "older"].name = marker.name
      /\ [marker EXCEPT !.age = "older"].age = "older"
  OBVIOUS
<1>3. QED
  BY <1>1, <1>2

\* The processes point to objects they had, or to one of the pool.
LEMMA NamesMoved ==
    ASSUME GInv, \A p \in Procs : on'[p] \in pool \cup {on[p], NoEntry},
           pool' \subseteq pool, marker' \in {marker, NoMarker},
           \A e \in Entries : acct'[e].name = acct[e].name
    PROVE  NamesOK'
<1>1. \A e \in Entries : ~Free(e)' => ~Free(e)
  BY NoEntryAssumption DEF Free
<1>2. QED
  BY <1>1, NamesKept

LEMMA NamesRefresh ==
    ASSUME GInv, NEW p \in Procs, refreshAccountToken(p) \/ request(p)
    PROVE  NamesOK'
<1> USE DEF GInv
<1>0. on \in [Procs -> Entries \cup {NoEntry}]
  BY DEF TypeOK
<1>1. CASE Finish(p) /\ UNCHANGED <<marker, pool, acct>>
  BY <1>0, <1>1, NamesMoved DEF Finish
<1>2. CASE UNCHANGED <<pool, acct, on>> /\ marker' \in {marker, NoMarker}
  BY <1>0, <1>2, NamesMoved
<1>3. CASE \E e \in Entries : Choose(p, e) \/ Send(p, e)
  BY <1>0, <1>3, NamesMoved DEF Choose, Send, diskVars
<1>4. CASE Disable(p)
  <2>1. \A e \in Entries : acct[e] \in AccountFields
    BY DEF TypeOK
  <2>2. \A e \in Entries : acct'[e].name = acct[e].name
    BY <1>4, <2>1 DEF Disable, TypeOK, AccountFields
  <2>3. QED
    BY <1>0, <1>4, <2>2, NamesMoved DEF Disable, diskVars
<1>5. CASE Mark(p)
  <2>1. acct[on[p]].name \in Names /\ acct[on[p]].name # NoName
    BY <1>5, InUseHasName DEF Mark, HandsOK, AccountFields, Names
  <2>2. marker' \in [age : {"none", "older", "newer"}, name : Names \cup {NoName}]
        /\ marker'.name # NoName /\ marker'.age # "none"
    BY <1>5, <2>1 DEF Mark
  <2>3. UNCHANGED <<pool, acct, on>>
    BY <1>5 DEF Mark
  <2>4. QED
    BY <2>2, <2>3 DEF NamesOK, Free
<1>6. CASE RefreshFails(p)
  <2>1. \A e \in Entries : acct[e] \in AccountFields
    BY DEF TypeOK
  <2>2. acct' = [acct EXCEPT ![on[p]] = [acct[on[p]] EXCEPT !.fails = CountFailure(acct[on[p]].fails)]]
    BY <1>6 DEF RefreshFails
  <2>3. \A e \in Entries : [acct[e] EXCEPT !.fails = CountFailure(acct[e].fails)].name = acct[e].name
    BY <2>1 DEF AccountFields
  <2>4. \A e \in Entries : acct'[e].name = acct[e].name
    BY <2>2, <2>3 DEF TypeOK
  <2>5. QED
    BY <1>0, <1>6, <2>4, NamesMoved DEF RefreshFails, Finish, diskVars
<1>7. CASE Save(p)
  <2>1. marker' = NoMarker \/ (marker # NoMarker /\ marker' = [marker EXCEPT !.age = "older"])
    BY <1>7 DEF Save, WriteFile
  <2>2. UNCHANGED <<pool, acct, on>>
    BY <1>7 DEF Save
  <2>3. \A e \in Entries : ~Free(e)' => ~Free(e)
    BY <2>2 DEF Free
  <2>4. QED
    BY <2>1, <2>2, <2>3, NamesKept
<1>8. CASE Publish(p)
  <2>1. \A e \in Entries : acct[e] \in AccountFields
    BY DEF TypeOK
  <2>2. \A e \in Entries : [acct[e] EXCEPT !.auth = new[p], !.fp = file, !.fails = 0].name = acct[e].name
    BY <2>1 DEF AccountFields
  <2>3. acct' = acct \/ acct' = [acct EXCEPT ![on[p]] =
                                   [acct[on[p]] EXCEPT !.auth = new[p], !.fp = file, !.fails = 0]]
    BY <1>8 DEF Publish
  <2>4. \A e \in Entries : acct'[e].name = acct[e].name
    BY <2>2, <2>3 DEF TypeOK
  <2>5. QED
    BY <1>0, <1>8, <2>4, NamesMoved DEF Publish, Finish, diskVars
<1>9. QED
  BY <1>1, <1>2, <1>3, <1>4, <1>5, <1>6, <1>7, <1>8
     DEF refreshAccountToken, request, disableAccount, Keep, Condemn, Remove, Skip, Lock,
         RefreshSucceeds, Reject, clearDisabledMarker, Answered, Refused, diskVars

LEMMA NamesReload ==
    ASSUME GInv, reloadAccountsResult, \A p \in Procs : on'[p] \in {on[p], NoEntry}
    PROVE  NamesOK'
<1>1. /\ marker' \in {marker, NoMarker}
      /\ \A e \in Entries : acct'[e].name # acct[e].name =>
             acct'[e].name = ScanName /\ ScanName # NoName
      /\ \A e \in pool' : e \in pool \/ acct'[e].name # NoName
  BY ReloadEffect
<1>2. \A e \in Entries : ~Free(e)' => \/ ~Free(e) /\ acct'[e].name = acct[e].name
                                      \/ acct'[e].name # NoName
  BY <1>1, NoEntryAssumption DEF Free
<1>3. QED
  BY <1>1, <1>2, NamesKept

LEMMA NamesConsole ==
    ASSUME GInv, NEW p \in Procs, login(p) \/ edit(p) \/ delete(p)
    PROVE  NamesOK'
<1> USE DEF GInv
<1>0. on \in [Procs -> Entries \cup {NoEntry}]
  BY DEF TypeOK
<1>1. CASE Save(p) \/ clearDisabledMarker(p)
  BY <1>1, NamesRefresh DEF refreshAccountToken
<1>2. CASE LoginReloads(p) \/ DeleteReloads(p)
  BY <1>0, <1>2, NamesReload DEF LoginReloads, DeleteReloads, Finish
<1>3. CASE \E e \in Entries : Append(p, e)
  <2>1. PICK e \in Entries : Append(p, e)
    BY <1>3
  <2>2. NewAccount(LoginName, snap[p], None).name # NoName
    BY NameAssumption DEF NewAccount
  <2>3. \A d \in Entries : ~Free(d)' => \/ ~Free(d) /\ acct'[d].name = acct[d].name
                                        \/ acct'[d].name # NoName
    BY <1>0, <2>1, <2>2, NoEntryAssumption DEF Append, Free, Finish, TypeOK
  <2>4. QED
    BY <2>1, <2>3, NamesKept DEF Append, diskVars
<1>4. CASE SaveEdit(p)
  <2>1. marker' = NoMarker
    BY <1>4 DEF SaveEdit
  <2>2. ScanName # NoName
    BY <1>4 DEF SaveEdit, HandsOK
  <2>3. \A d \in Procs : on'[d] \in {on[d], NoEntry}
    BY <1>0, <1>4 DEF SaveEdit, Finish
  <2>4. CASE \E e \in Entries :
               /\ e \in Named(ScanName)
               /\ acct' = [acct EXCEPT ![e] =
                              [@ EXCEPT !.auth = issued', !.fp = issued', !.disabled = FALSE]]
               /\ UNCHANGED pool
    <3>1. PICK e \in pool :
            acct' = [acct EXCEPT ![e] =
                        [acct[e] EXCEPT !.auth = issued', !.fp = issued', !.disabled = FALSE]]
      BY <2>4 DEF Named
    <3>2. [acct[e] EXCEPT !.auth = issued', !.fp = issued', !.disabled = FALSE].name = acct[e].name
      BY DEF TypeOK, AccountFields
    <3>3. \A d \in Entries : acct'[d].name = acct[d].name
      BY <3>1, <3>2 DEF TypeOK
    <3>4. QED
      BY <2>1, <2>3, <2>4, <3>3, NamesMoved
  <2>5. CASE \E e \in Entries :
               /\ acct' = [acct EXCEPT ![e] = NewAccount(ScanName, issued', issued')]
               /\ pool' = pool \cup {e}
    <3>1. PICK e \in Entries : /\ acct' = [acct EXCEPT ![e] = NewAccount(ScanName, issued', issued')]
                               /\ pool' = pool \cup {e}
      BY <2>5
    <3>2. NewAccount(ScanName, issued', issued').name # NoName
      BY <2>2 DEF NewAccount
    <3>3. \A d \in Entries : ~Free(d)' => \/ ~Free(d) /\ acct'[d].name = acct[d].name
                                          \/ acct'[d].name # NoName
      BY <2>3, <3>1, <3>2, NoEntryAssumption DEF Free, TypeOK
    <3>4. QED
      BY <2>1, <3>3, NamesKept
  <2>6. QED
    BY <1>4, <2>4, <2>5 DEF SaveEdit
<1>5. CASE DeleteFile(p)
  <2>1. (CHOOSE e \in pool : TRUE) \in pool
    <3>1. IsFiniteSet(pool)
      BY ProcsAssumption, FS_Subset DEF TypeOK
    <3>2. pool # {}
      BY <1>5, <3>1, FS_EmptySet DEF DeleteFile
    <3>3. QED
      BY <3>2
  <2>2. QED
    BY <1>0, <1>5, <2>1, NamesMoved DEF DeleteFile
<1>6. CASE DeleteMarker(p) \/ DeleteEntry(p)
  BY <1>0, <1>6, NamesMoved DEF DeleteMarker, DeleteEntry, diskVars
<1>7. CASE Authorised(p) \/ LoginElsewhere(p) \/ LookForEntry(p) \/ Open(p) \/ Conflict(p)
  BY <1>0, <1>7, NamesMoved
     DEF Authorised, LoginElsewhere, LookForEntry, Open, Conflict, Finish, diskVars
<1>8. QED
  BY <1>1, <1>2, <1>3, <1>4, <1>5, <1>6, <1>7 DEF login, edit, delete

LEMMA NamesRestart == GInv /\ Restart => NamesOK'
<1> SUFFICES ASSUME GInv, Restart PROVE NamesOK'
  OBVIOUS
<1>1. PICK f \in [Loaded -> Entries] :
        /\ \A a, b \in Loaded : f[a] = f[b] => a = b
        /\ pool' = {f[a] : a \in Loaded}
        /\ acct' = [e \in Entries |->
                       IF e \in pool' THEN CHOOSE a \in Loaded : f[a] = e ELSE acct[e]]
  BY DEF Restart
<1>2. \A e \in Entries : e \in pool' => acct'[e].name # NoName
  <2> SUFFICES ASSUME NEW e \in Entries, e \in pool' PROVE acct'[e].name # NoName
    OBVIOUS
  <2>1. PICK a \in Loaded : f[a] = e
    BY <1>1
  <2>2. acct'[e] = CHOOSE b \in Loaded : f[b] = e
    BY <1>1, <2>1
  <2>3. acct'[e] \in Loaded
    BY <2>1, <2>2
  <2>4. QED
    BY <2>3, LoadedAccounts
<1>3. \A e \in Entries : ~Free(e)' => e \in pool'
  BY NoEntryAssumption DEF Free, Restart
<1>4. marker' \in {marker, NoMarker}
  BY DEF Restart
<1>5. QED
  BY <1>2, <1>3, <1>4, NamesKept

LEMMA NamesStep == GInv /\ [Next]_vars => NamesOK'
<1> SUFFICES ASSUME GInv, [Next]_vars PROVE NamesOK'
  OBVIOUS
<1>1. CASE (\E v \in Versions : Revoke(v)) \/ UNCHANGED vars
  <2>1. UNCHANGED <<marker, pool, acct, on>>
    BY <1>1 DEF Revoke, vars, diskVars, procVars
  <2>2. QED
    BY <2>1, NamesMoved
<1>2. CASE Reload
  BY <1>2, NamesReload DEF Reload, procVars
<1>3. QED
  BY <1>1, <1>2, NamesRefresh, NamesConsole, NamesRestart DEF Next, Procs

LEMMA GStep == GInv /\ [Next]_vars => GInv'
BY TypeStep, HandsStep, NamesStep DEF GInv

\* The invariant of every mixture of processes.
LEMMA Types == Spec => []GInv
<1>1. Init => GInv
  BY InitGInv
<1>2. GInv /\ [Next]_vars => GInv'
  BY GStep
<1>3. QED
  BY <1>1, <1>2, PTL DEF Spec

\* Every variable keeps its type, and an account that is scheduled has a
\* credential, whoever reloads, refreshes, logs in, edits and deletes.
THEOREM TypeCorrect == Spec => []TypeOK
<1>1. GInv => TypeOK
  BY DEF GInv
<1>2. QED
  BY <1>1, Types, PTL

LEMMA OnlyRestartCounts == [Next]_vars /\ restarts' # restarts => Restart
<1>1. ASSUME NEW p, refreshAccountToken(p) \/ request(p) PROVE restarts' = restarts
  BY <1>1 DEF refreshAccountToken, request, disableAccount, Disable, Mark, Keep, Condemn, Remove,
              Choose, Skip, Lock, RefreshFails, RefreshSucceeds, Reject, Save, clearDisabledMarker,
              Publish, Send, Answered, Refused
<1>2. ASSUME NEW p, login(p) \/ edit(p) \/ delete(p) PROVE restarts' = restarts
  BY <1>2 DEF login, edit, delete, Authorised, Save, clearDisabledMarker, LoginElsewhere,
              LoginReloads, LookForEntry, Append, Open, Conflict, SaveEdit, DeleteFile,
              DeleteMarker, DeleteEntry, DeleteReloads
<1>3. QED
  BY <1>1, <1>2 DEF Next, Revoke, Reload, vars

\* The marker is read with the file and disables the account that has its name.
LEMMA SurvivesStep ==
    ASSUME GInv, [Next]_vars, restarts' # restarts, NEW e \in pool,
           marker.name = acct[e].name, marker.age = "newer"
    PROVE  \A d \in pool' : acct'[d].name = acct[e].name => acct'[d].disabled
<1>1. PICK f \in [Loaded -> Entries] :
        /\ \A a, b \in Loaded : f[a] = f[b] => a = b
        /\ pool' = {f[a] : a \in Loaded}
        /\ acct' = [d \in Entries |->
                       IF d \in pool' THEN CHOOSE a \in Loaded : f[a] = d ELSE acct[d]]
  BY OnlyRestartCounts DEF Restart
<1>2. marker # NoMarker /\ marker.age # "older"
  BY DEF NoMarker
<1>3. \A a \in FromFile : a \in AccountFields
  BY AccountsMade DEF FromFile, Names, GInv, TypeOK
<1>4. \A a \in Loaded : a.name = marker.name => a.disabled
  <2>1. \A a \in FromFile : [a EXCEPT !.disabled = TRUE].disabled
    BY <1>3 DEF AccountFields
  <2>2. Phantom(marker.name).disabled
    BY DEF Phantom
  <2>3. QED
    BY <1>2, <2>1, <2>2 DEF Loaded
<1>5. ASSUME NEW d \in pool' PROVE acct'[d] \in Loaded
  <2>1. PICK a \in Loaded : f[a] = d
    BY <1>1
  <2>2. acct'[d] = CHOOSE b \in Loaded : f[b] = d
    BY <1>1, <2>1
  <2>3. QED
    BY <2>1, <2>2
<1>6. QED
  BY <1>4, <1>5

\* An account disabled and marked stays disabled over a restart, unless its
\* credential file has changed since: by whatever steps that state was reached.
THEOREM MarkerOutlivesProcess == Spec => DisabledSurvivesRestart
<1>1. GInv /\ [Next]_vars =>
        [restarts' # restarts =>
            \A e \in pool :
                /\ acct[e].disabled /\ acct[e].fp = file /\ marker.name = acct[e].name
                /\ marker.age = "newer"
                => \A d \in pool' : acct'[d].name = acct[e].name => acct'[d].disabled]_vars
  BY SurvivesStep
<1>2. QED
  BY <1>1, Types, PTL DEF Spec, DisabledSurvivesRestart

-----------------------------------------------------------------------------
(* Refreshes and edits alone.  Both write the file under acc.lock, so that who *)
(* has the lock is the only one at work, and the pool keeps its one object.    *)

Alone == Requests = {} /\ Logins = {} /\ Deleters = {}
Kinds == Excluded /\ OneObject /\ LockOK /\ AgesOK

LEMMA InitRInv == Alone /\ Init => RInv
<1> SUFFICES ASSUME Alone, Init PROVE RInv
  OBVIOUS
<1>1. GInv
  BY InitGInv
<1>2. Excluded
  BY DEF Init, Excluded, Holding, Procs
<1>3. OneObject
  BY DEF Init, OneObject, Holding, NewAccount
<1>4. LockOK
  BY DEF Init, LockOK, NewAccount
<1>5. AgesOK
  BY BoundsAssumption DEF Init, AgesOK, NewAccount, Versions
<1>6. QED
  BY <1>1, <1>2, <1>3, <1>4, <1>5 DEF RInv

\* Whoever holds the lock is the only one, and the pool is its object.
LEMMA Sole ==
    ASSUME RInv, NEW p \in Procs, pc[p] \in Holding
    PROVE  /\ p \in Refreshers /\ on[p] \in pool /\ pool = {on[p]} /\ acct[on[p]].name = ScanName
           /\ \A q \in Procs : pc[q] \in Holding => q = p
<1>1. p \in Refreshers /\ on[p] \in pool /\ pool = {on[p]} /\ acct[on[p]].name = ScanName
  BY DEF RInv, OneObject
<1>2. ASSUME NEW q \in Procs, pc[q] \in Holding PROVE q = p
  <2>1. q \in Refreshers /\ on[q] \in pool
    BY <1>2 DEF RInv, OneObject
  <2>2. QED
    BY <1>1, <1>2, <2>1 DEF RInv, Excluded
<1>3. QED
  BY <1>1, <1>2

\* The numbers of an account.
LEMMA Numbers ==
    ASSUME GInv
    PROVE  /\ file \in Nat /\ issued \in Nat
           /\ \A p \in Procs : snap[p] \in Nat /\ new[p] \in Nat
           /\ \A e \in Entries : acct[e].auth \in Nat /\ acct[e].fp \in Nat
<1> DEFINE Numbered == Versions \cup {None}
<1>1. Numbered \subseteq Nat /\ Versions \subseteq Nat
  BY BoundsAssumption DEF Versions, None
<1>2. file \in Numbered /\ issued \in Versions
  BY DEF GInv, TypeOK
<1>3. \A p \in Procs : snap[p] \in Numbered /\ new[p] \in Numbered
  BY DEF GInv, TypeOK
<1>4. \A e \in Entries : acct[e].auth \in Numbered /\ acct[e].fp \in Numbered
  BY DEF GInv, TypeOK, AccountFields
<1> HIDE DEF Numbered
<1>5. QED
  BY <1>1, <1>2, <1>3, <1>4

\* A process that is done has given the lock back.
LEMMA Released ==
    ASSUME RInv, NEW p \in Procs, Finish(p), UNCHANGED <<file, marker, issued, pool, acct>>,
           pc[p] \notin {"clear", "publish"}
    PROVE  Kinds'
<1> USE DEF RInv, GInv, TypeOK, HandsOK, Finish, Goto
<1>1. Excluded'
  BY DEF Excluded, Holding, Procs
<1>2. OneObject'
  BY DEF OneObject, Holding
<1>3. LockOK'
  BY DEF LockOK
<1>4. AgesOK'
  BY DEF AgesOK
<1>5. QED
  BY <1>1, <1>2, <1>3, <1>4 DEF Kinds

LEMMA KindsDisable ==
    ASSUME RInv, NEW p \in Refreshers, disableAccount(p)
    PROVE  Kinds'
<1> p \in Procs
  BY DEF Procs
<1> USE DEF RInv, GInv, TypeOK, HandsOK, Goto, Holding
<1>1. CASE Disable(p)
  <2>1. pool = {on[p]} /\ on[p] \in Entries /\ \A q \in Procs : pc[q] \in Holding => q = p
    BY <1>1, Sole DEF Disable
  <2>2. acct' = [acct EXCEPT ![on[p]] = [acct[on[p]] EXCEPT !.disabled = TRUE]]
    BY <1>1 DEF Disable
  <2>3. /\ [acct[on[p]] EXCEPT !.disabled = TRUE].disabled
        /\ [acct[on[p]] EXCEPT !.disabled = TRUE].auth = acct[on[p]].auth
        /\ [acct[on[p]] EXCEPT !.disabled = TRUE].fp = acct[on[p]].fp
        /\ [acct[on[p]] EXCEPT !.disabled = TRUE].name = acct[on[p]].name
    BY <2>1 DEF AccountFields
  <2>4. /\ acct'[on[p]].disabled /\ acct'[on[p]].auth = acct[on[p]].auth
        /\ acct'[on[p]].fp = acct[on[p]].fp /\ acct'[on[p]].name = acct[on[p]].name
    BY <2>1, <2>2, <2>3
  <2>5. pc' = [pc EXCEPT ![p] = "mark"] /\ UNCHANGED <<file, marker, issued, pool, on, new>>
    BY <1>1 DEF Disable, diskVars, upVars
  <2>6. Excluded'
    BY <2>1, <2>5 DEF Excluded, Procs
  <2>7. OneObject'
    BY <1>1, <2>1, <2>4, <2>5 DEF OneObject, Disable
  <2>8. LockOK'
    BY <1>1, <2>1, <2>4, <2>5 DEF LockOK, Disable
  <2>9. AgesOK'
    BY <2>1, <2>4, <2>5 DEF AgesOK
  <2>10. QED
    BY <2>6, <2>7, <2>8, <2>9 DEF Kinds
<1>2. CASE Mark(p)
  <2>1. acct[on[p]].name = ScanName
    BY <1>2, Sole DEF Mark
  <2>2. /\ marker'.name = ScanName /\ pc[p] = "mark" /\ pc' = [pc EXCEPT ![p] = "verify"]
        /\ UNCHANGED <<file, issued, pool, acct, on, new>>
    BY <1>2, <2>1 DEF Mark, upVars
  <2>3. Excluded'
    BY <2>2 DEF Excluded, Procs
  <2>4. OneObject'
    BY <2>2 DEF OneObject
  <2>5. LockOK'
    BY <2>2 DEF LockOK
  <2>6. AgesOK'
    BY <2>2 DEF AgesOK
  <2>7. QED
    BY <2>3, <2>4, <2>5, <2>6 DEF Kinds
<1>3. CASE Keep(p)
  BY <1>3, Released DEF Keep, diskVars, upVars
<1>4. CASE Condemn(p)
  <2>1. /\ pc[p] = "verify" /\ pc' = [pc EXCEPT ![p] = "remove"]
        /\ UNCHANGED <<file, marker, issued, pool, acct, on, new>>
    BY <1>4 DEF Condemn, diskVars, upVars
  <2>2. Excluded'
    BY <2>1 DEF Excluded, Procs
  <2>3. OneObject' /\ LockOK' /\ AgesOK'
    BY <2>1 DEF OneObject, LockOK, AgesOK
  <2>4. QED
    BY <2>2, <2>3 DEF Kinds
<1>5. CASE Remove(p)
  <2>1. pool = {on[p]} /\ acct[on[p]].disabled /\ \A q \in Procs : pc[q] \in Holding => q = p
    BY <1>5, Sole DEF Remove, LockOK
  <2>2. /\ file' = None /\ pc' = [pc EXCEPT ![p] = "idle"] /\ on' = [on EXCEPT ![p] = NoEntry]
        /\ new' = [new EXCEPT ![p] = None] /\ UNCHANGED <<marker, issued, pool, acct>>
    BY <1>5 DEF Remove, Finish, upVars
  <2>3. Excluded'
    BY <2>1, <2>2 DEF Excluded, Procs
  <2>4. OneObject'
    BY <2>2 DEF OneObject
  <2>5. LockOK'
    BY <2>1, <2>2 DEF LockOK
  <2>6. AgesOK'
    BY <2>1, <2>2, Numbers DEF AgesOK
  <2>7. QED
    BY <2>3, <2>4, <2>5, <2>6 DEF Kinds
<1>6. QED
  BY <1>1, <1>2, <1>3, <1>4, <1>5 DEF disableAccount

LEMMA KindsRefresh ==
    ASSUME RInv, NEW p \in Refreshers, refreshAccountToken(p)
    PROVE  Kinds'
<1> p \in Procs
  BY DEF Procs
<1> USE DEF RInv, GInv, TypeOK, HandsOK, Goto, Holding
<1>1. CASE \E e \in Entries : Choose(p, e)
  <2>1. PICK e \in pool : Choose(p, e)
    BY <1>1 DEF Choose
  <2>2. /\ pc[p] = "idle" /\ pc' = [pc EXCEPT ![p] = "chosen"] /\ on' = [on EXCEPT ![p] = e]
        /\ UNCHANGED <<file, marker, issued, pool, acct, new>>
    BY <2>1 DEF Choose, diskVars, upVars
  <2>3. Excluded'
    BY <2>2 DEF Excluded, Procs
  <2>4. OneObject'
    BY <2>2 DEF OneObject
  <2>5. LockOK' /\ AgesOK'
    BY <2>2 DEF LockOK, AgesOK
  <2>6. QED
    BY <2>3, <2>4, <2>5 DEF Kinds
<1>2. CASE Skip(p) \/ Reject(p)
  BY <1>2, Released DEF Skip, Reject, diskVars, upVars
<1>3. CASE Lock(p)
  <2>1. /\ pc[p] = "chosen" /\ pc' = [pc EXCEPT ![p] = "refresh"] /\ ~acct[on[p]].disabled
        /\ UNCHANGED <<file, marker, issued, pool, acct, on, new>>
    BY <1>3 DEF Lock, diskVars, upVars
  <2>2. \A q \in Refreshers : pc[q] \in Holding => on[q] # on[p]
    BY <1>3 DEF Lock, Unlocked, Writes, Procs
  <2>3. Excluded'
    BY <2>1, <2>2 DEF Excluded, Procs
  <2>4. OneObject'
    BY <2>1 DEF OneObject
  <2>5. LockOK' /\ AgesOK'
    BY <2>1 DEF LockOK, AgesOK
  <2>6. QED
    BY <2>3, <2>4, <2>5 DEF Kinds
<1>4. CASE RefreshFails(p)
  <2>1. pool = {on[p]} /\ on[p] \in Entries /\ \A q \in Procs : pc[q] \in Holding => q = p
    BY <1>4, Sole DEF RefreshFails
  <2> DEFINE a == [acct[on[p]] EXCEPT !.fails = CountFailure(acct[on[p]].fails)]
  <2>2. acct' = [acct EXCEPT ![on[p]] = a]
    BY <1>4 DEF RefreshFails
  <2>3. /\ a.disabled = acct[on[p]].disabled /\ a.auth = acct[on[p]].auth
        /\ a.fp = acct[on[p]].fp /\ a.name = acct[on[p]].name
    BY <2>1 DEF AccountFields
  <2> HIDE DEF a
  <2>4. /\ acct'[on[p]].disabled = acct[on[p]].disabled /\ acct'[on[p]].auth = acct[on[p]].auth
        /\ acct'[on[p]].fp = acct[on[p]].fp /\ acct'[on[p]].name = acct[on[p]].name
    BY <2>1, <2>2, <2>3
  <2>5. /\ pc[p] = "refresh" /\ UNCHANGED <<file, marker, issued, pool>>
        /\ \/ pc' = [pc EXCEPT ![p] = "disable"] /\ UNCHANGED <<on, new>>
           \/ /\ pc' = [pc EXCEPT ![p] = "idle"] /\ on' = [on EXCEPT ![p] = NoEntry]
              /\ new' = [new EXCEPT ![p] = None]
    BY <1>4 DEF RefreshFails, Finish, diskVars, upVars
  <2>6. Excluded'
    BY <2>1, <2>5 DEF Excluded, Procs
  <2>7. OneObject'
    BY <2>1, <2>4, <2>5 DEF OneObject
  <2>8. LockOK'
    BY <2>1, <2>4, <2>5 DEF LockOK
  <2>9. AgesOK'
    BY <2>1, <2>4, <2>5 DEF AgesOK
  <2>10. QED
    BY <2>6, <2>7, <2>8, <2>9 DEF Kinds
<1>5. CASE RefreshSucceeds(p)
  <2>1. pool = {on[p]} /\ \A q \in Procs : pc[q] \in Holding => q = p
    BY <1>5, Sole DEF RefreshSucceeds
  <2>2. /\ pc[p] = "refresh" /\ pc' = [pc EXCEPT ![p] = "validate"] /\ issued' = issued + 1
        /\ new' = [new EXCEPT ![p] = issued'] /\ UNCHANGED <<file, marker, pool, acct, on>>
    BY <1>5 DEF RefreshSucceeds, Issue, diskVars
  <2>3. Excluded'
    BY <2>1, <2>2 DEF Excluded, Procs
  <2>4. OneObject' /\ LockOK'
    BY <2>1, <2>2 DEF OneObject, LockOK
  <2>5. AgesOK'
    BY <2>1, <2>2, Numbers DEF AgesOK
  <2>6. QED
    BY <2>3, <2>4, <2>5 DEF Kinds
<1>6. CASE Save(p)
  <2>1. pc[p] = "validate"
    BY <1>6, Numbers DEF Save, OneObject, HandsOK
  <2>2. pool = {on[p]} /\ \A q \in Procs : pc[q] \in Holding => q = p
    BY <2>1, Sole
  <2>3. /\ file' = new[p] /\ pc' = [pc EXCEPT ![p] = "clear"] /\ UNCHANGED <<issued, pool, acct, on, new>>
        /\ (marker' # NoMarker => marker # NoMarker /\ marker'.name = marker.name)
    <3>1. marker' = NoMarker \/ (marker # NoMarker /\ marker' = [marker EXCEPT !.age = "older"])
      BY <1>6 DEF Save, WriteFile
    <3>2. [marker EXCEPT !.age = "older"].name = marker.name
      BY DEF NamesOK
    <3>3. pc' = [pc EXCEPT ![p] = "clear"]
      BY <1>6 DEF Save
    <3>4. file' = new[p] /\ UNCHANGED <<issued, pool, acct, on, new>>
      BY <1>6 DEF Save, WriteFile, upVars
    <3>5. QED
      BY <3>1, <3>2, <3>3, <3>4
  <2>4. Excluded'
    BY <2>2, <2>3 DEF Excluded, Procs
  <2>5. OneObject'
    BY <2>1, <2>2, <2>3 DEF OneObject
  <2>6. LockOK'
    BY <2>1, <2>2, <2>3 DEF LockOK
  <2>7. AgesOK'
    <3>1. ~acct[on[p]].disabled /\ file # None
      BY <2>1, <2>2 DEF LockOK
    <3>2. file <= new[p] /\ new[p] <= issued /\ \A e \in pool : acct[e].auth <= file
      BY <2>1, <3>1 DEF AgesOK
    <3>3. \A e \in pool : acct[e].auth <= new[p]
      BY <3>2, Numbers
    <3>4. QED
      BY <2>2, <2>3, <3>2, <3>3 DEF AgesOK
  <2>8. QED
    BY <2>4, <2>5, <2>6, <2>7 DEF Kinds
<1>7. CASE clearDisabledMarker(p)
  <2>1. pc[p] = "clear"
    BY <1>7 DEF clearDisabledMarker, OneObject
  <2>2. \A q \in Procs : pc[q] \in Holding => q = p
    BY <2>1, Sole
  <2>3. marker' = NoMarker /\ pc' = [pc EXCEPT ![p] = "publish"] /\ UNCHANGED <<file, issued, pool, acct, on, new>>
    BY <1>7 DEF clearDisabledMarker, upVars
  <2>4. Excluded'
    BY <2>2, <2>3 DEF Excluded, Procs
  <2>5. OneObject' /\ LockOK' /\ AgesOK'
    BY <2>1, <2>2, <2>3 DEF OneObject, LockOK, AgesOK
  <2>6. QED
    BY <2>4, <2>5 DEF Kinds
<1>8. CASE Publish(p)
  <2>1. pc[p] = "publish"
    BY <1>8 DEF Publish
  <2>2. pool = {on[p]} /\ on[p] \in Entries /\ \A q \in Procs : pc[q] \in Holding => q = p
    BY <2>1, Sole
  <2>3. ~acct[on[p]].disabled /\ file = new[p]
    BY <2>1 DEF LockOK, AgesOK
  <2> DEFINE a == [acct[on[p]] EXCEPT !.auth = new[p], !.fp = file, !.fails = 0]
  <2>4. acct' = [acct EXCEPT ![on[p]] = a]
    BY <1>8, <2>3 DEF Publish
  <2>5. /\ a.disabled = acct[on[p]].disabled /\ a.auth = file
        /\ a.fp = file /\ a.name = acct[on[p]].name
    BY <2>2, <2>3 DEF AccountFields
  <2> HIDE DEF a
  <2>6. /\ acct'[on[p]].disabled = acct[on[p]].disabled /\ acct'[on[p]].auth = file
        /\ acct'[on[p]].fp = file /\ acct'[on[p]].name = acct[on[p]].name
    BY <2>2, <2>4, <2>5
  <2>7. /\ pc' = [pc EXCEPT ![p] = "idle"] /\ on' = [on EXCEPT ![p] = NoEntry]
        /\ new' = [new EXCEPT ![p] = None] /\ UNCHANGED <<file, marker, issued, pool>>
    BY <1>8 DEF Publish, Finish, diskVars, upVars
  <2>8. Excluded'
    BY <2>2, <2>7 DEF Excluded, Procs
  <2>9. OneObject'
    BY <2>2, <2>6, <2>7 DEF OneObject
  <2>10. LockOK'
    BY <2>2, <2>6, <2>7 DEF LockOK
  <2>11. AgesOK'
    BY <2>2, <2>6, <2>7, Numbers DEF AgesOK
  <2>12. QED
    BY <2>8, <2>9, <2>10, <2>11 DEF Kinds
<1>9. QED
  BY <1>1, <1>2, <1>3, <1>4, <1>5, <1>6, <1>7, <1>8, KindsDisable DEF refreshAccountToken

\* The pool has its object or is empty, and whatever is in it has the scan's name.
LEMMA OneNamed ==
    ASSUME RInv
    PROVE  /\ Named(ScanName) = pool
           /\ \A e \in pool : pool = {e} /\ ScanName # NoName
BY DEF RInv, GInv, OneObject, NamesOK, TypeOK, Named, Free

LEMMA KindsEdit ==
    ASSUME RInv, NEW p \in Procs, edit(p)
    PROVE  Kinds'
<1> USE DEF RInv, GInv, TypeOK, HandsOK, Goto, Holding
<1>1. CASE Open(p)
  <2>1. /\ pc[p] = "idle" /\ pc' = [pc EXCEPT ![p] = "editing"]
        /\ UNCHANGED <<file, marker, issued, pool, acct, on, new>>
    BY <1>1 DEF Open, diskVars, upVars
  <2>2. Excluded'
    BY <2>1 DEF Excluded, Procs
  <2>3. OneObject' /\ LockOK' /\ AgesOK'
    BY <2>1 DEF OneObject, LockOK, AgesOK
  <2>4. QED
    BY <2>2, <2>3 DEF Kinds
<1>2. CASE Conflict(p)
  BY <1>2, Released DEF Conflict, diskVars, upVars
<1>3. CASE SaveEdit(p)
  <2>1. /\ pc[p] = "editing" /\ pc' = [pc EXCEPT ![p] = "idle"] /\ on' = [on EXCEPT ![p] = NoEntry]
        /\ new' = [new EXCEPT ![p] = None] /\ issued' = issued + 1
        /\ file' = issued' /\ marker' = NoMarker
    BY <1>3 DEF SaveEdit, Finish, Issue
  <2>2. issued' \in Nat /\ issued' # None
    BY <2>1, Numbers
  <2>3. PICK e \in Entries :
          \/ /\ e \in Named(ScanName) /\ Unlocked(e)
             /\ acct' = [acct EXCEPT ![e] =
                            [@ EXCEPT !.auth = issued', !.fp = issued', !.disabled = FALSE]]
             /\ UNCHANGED pool
          \/ /\ Named(ScanName) = {} /\ Free(e)
             /\ acct' = [acct EXCEPT ![e] = NewAccount(ScanName, issued', issued')]
             /\ pool' = pool \cup {e}
    BY <1>3 DEF SaveEdit
  <2>4. /\ pool' = {e} /\ acct'[e].auth = issued' /\ acct'[e].fp = issued'
        /\ acct'[e].name = ScanName /\ ~acct'[e].disabled
        /\ pool = {e} \/ pool = {}
    <3>1. CASE e \in Named(ScanName) /\ acct' = [acct EXCEPT ![e] =
                      [acct[e] EXCEPT !.auth = issued', !.fp = issued', !.disabled = FALSE]]
                  /\ UNCHANGED pool
      <4> DEFINE a == [acct[e] EXCEPT !.auth = issued', !.fp = issued', !.disabled = FALSE]
      <4>1. a.auth = issued' /\ a.fp = issued' /\ ~a.disabled /\ a.name = acct[e].name
        BY DEF AccountFields
      <4>2. acct' = [acct EXCEPT ![e] = a]
        BY <3>1
      <4> HIDE DEF a
      <4>3. acct'[e] = a /\ pool' = pool /\ e \in pool /\ acct[e].name = ScanName
        BY <3>1, <4>2 DEF Named
      <4>4. QED
        BY <4>1, <4>3, OneNamed
    <3>2. CASE /\ Named(ScanName) = {} /\ acct' = [acct EXCEPT ![e] = NewAccount(ScanName, issued', issued')]
               /\ pool' = pool \cup {e}
      BY <3>2, OneNamed DEF NewAccount
    <3>3. QED
      BY <2>3, <3>1, <3>2
  <2>5. \A q \in Procs : pc[q] \notin Holding
    <3>1. CASE e \in Named(ScanName) /\ Unlocked(e)
      BY <3>1, Sole, OneNamed DEF Unlocked, Writes
    <3>2. CASE Named(ScanName) = {}
      BY <3>2, Sole, OneNamed
    <3>3. QED
      BY <2>3, <3>1, <3>2
  <2>6. Excluded'
    BY <2>1, <2>5 DEF Excluded, Procs
  <2>7. OneObject'
    BY <2>1, <2>4, <2>5 DEF OneObject
  <2>8. LockOK'
    BY <2>1, <2>2, <2>4, <2>5 DEF LockOK
  <2>9. AgesOK'
    BY <2>1, <2>2, <2>4, <2>5 DEF AgesOK
  <2>10. QED
    BY <2>6, <2>7, <2>8, <2>9 DEF Kinds
<1>4. QED
  BY <1>1, <1>2, <1>3 DEF edit

\* A reload finds the pool as the file says, or one refresh is about to make it
\* so, and does that first.
LEMMA KindsReload ==
    ASSUME RInv, Reload
    PROVE  Kinds'
<1> USE DEF RInv, GInv, TypeOK, HandsOK, Holding
<1>1. UNCHANGED <<file, issued, pc, on, new>>
  BY DEF Reload, reloadAccountsResult, upVars, procVars
<1>2. CASE \E e \in Entries :
             /\ Scanned /\ Named(ScanName) = {} /\ Free(e)
             /\ acct' = [acct EXCEPT ![e] = NewAccount(ScanName, file, file)]
             /\ pool' = Kept(pool) \cup {e}
             /\ UNCHANGED marker
  <2>1. PICK e \in Entries :
          /\ acct' = [acct EXCEPT ![e] = NewAccount(ScanName, file, file)]
          /\ pool' = Kept(pool) \cup {e}
    BY <1>2
  <2>2. pool = {} /\ file # None /\ marker' = marker
    BY <1>2, OneNamed DEF Scanned
  <2>3. /\ pool' = {e} /\ acct'[e].auth = file /\ acct'[e].fp = file
        /\ acct'[e].name = ScanName /\ ~acct'[e].disabled
    BY <2>1, <2>2 DEF Kept, NewAccount
  <2>4. \A q \in Procs : pc[q] \notin Holding \cup {"chosen"}
    BY <2>2 DEF OneObject
  <2>5. Excluded' /\ OneObject'
    BY <1>1, <2>2, <2>3, <2>4 DEF Excluded, OneObject, Procs
  <2>6. LockOK' /\ AgesOK'
    BY <1>1, <2>2, <2>3, <2>4, Numbers DEF LockOK, AgesOK
  <2>7. QED
    BY <2>5, <2>6 DEF Kinds
<1>3. CASE \E e \in Named(ScanName) : Scanned /\ Replace(e) /\ pool' = Kept(pool) \cup {e}
  <2>1. PICK e \in Named(ScanName) : Scanned /\ Replace(e) /\ pool' = Kept(pool) \cup {e}
    BY <1>3
  <2>2. pool = {e} /\ e \in Entries /\ acct[e].name = ScanName /\ file # None /\ acct[e].fp # file
    BY <2>1, OneNamed DEF Named, Scanned, Replace
  <2> DEFINE a == [acct[e] EXCEPT !.auth = file, !.fp = file, !.disabled = FALSE]
  <2>3. acct' = [acct EXCEPT ![e] = a] /\ marker' = NoMarker
    BY <2>1 DEF Replace
  <2>4. a.auth = file /\ a.fp = file /\ ~a.disabled /\ a.name = acct[e].name
    BY <2>2 DEF AccountFields
  <2> HIDE DEF a
  <2>5. /\ pool' = {e} /\ acct'[e].auth = file /\ acct'[e].fp = file
        /\ acct'[e].name = ScanName /\ ~acct'[e].disabled
    BY <2>1, <2>2, <2>3, <2>4 DEF Kept
  <2>6. PICK h \in Procs : pc[h] \in {"clear", "publish"}
    BY <2>2 DEF LockOK
  <2>7. \A q \in Procs : pc[q] \in Holding => q = h
    BY <2>6, Sole
  <2>8. Excluded' /\ OneObject'
    BY <1>1, <2>2, <2>3, <2>5 DEF Excluded, OneObject, Procs
  <2>9. LockOK'
    BY <1>1, <2>2, <2>5, <2>6, <2>7 DEF LockOK, OneObject
  <2>10. AgesOK'
    BY <1>1, <2>2, <2>5, Numbers DEF AgesOK
  <2>11. QED
    BY <2>8, <2>9, <2>10 DEF Kinds
<1>4. CASE pool' = Kept(pool) /\ UNCHANGED <<acct, marker>>
  <2>1. pool' = pool
    BY <1>4, OneNamed DEF Kept, Scanned, OneObject, LockOK
  <2>2. QED
    BY <1>1, <1>4, <2>1 DEF Kinds, Excluded, OneObject, LockOK, AgesOK
<1>5. QED
  BY <1>2, <1>3, <1>4 DEF Reload, reloadAccountsResult

LEMMA KindsRestart ==
    ASSUME RInv, Restart
    PROVE  Kinds'
<1> USE DEF RInv, GInv, TypeOK, HandsOK, Holding
<1>1. PICK f \in [Loaded -> Entries] :
        /\ \A a, b \in Loaded : f[a] = f[b] => a = b
        /\ pool' = {f[a] : a \in Loaded}
        /\ acct' = [e \in Entries |->
                       IF e \in pool' THEN CHOOSE a \in Loaded : f[a] = e ELSE acct[e]]
  BY DEF Restart
<1>2. /\ pc' = [p \in Procs |-> "idle"] /\ UNCHANGED <<file, issued>>
      /\ marker' \in {marker, NoMarker}
  BY DEF Restart, upVars
<1>3. \A a \in FromFile : /\ a \in AccountFields /\ a.name = ScanName /\ a.auth = file /\ a.fp = file
                          /\ file # None
  <2>1. NewAccount(ScanName, file, file) \in AccountFields
    BY AccountsMade DEF Names
  <2>2. \A a \in FromFile : a = NewAccount(ScanName, file, file) /\ file # None
    BY DEF FromFile, Scanned
  <2>3. LET a == NewAccount(ScanName, file, file)
        IN  a.name = ScanName /\ a.auth = file /\ a.fp = file
    BY DEF NewAccount
  <2>4. QED
    BY <2>1, <2>2, <2>3
<1>4. \A a \in FromFile : LET d == [a EXCEPT !.disabled = TRUE]
                          IN  d.name = ScanName /\ d.auth = file /\ d.fp = file
  BY <1>3 DEF AccountFields
<1>5. \A a, b \in FromFile : a = b
  BY DEF FromFile
<1>6. marker # NoMarker => /\ marker.name = ScanName /\ ScanName # NoName
                           /\ Phantom(marker.name).name = ScanName
                           /\ Phantom(marker.name).disabled /\ Phantom(marker.name).auth = None
  BY DEF OneObject, NamesOK, Phantom
<1>7. FromFile = {} => file = None \/ ScanName = NoName
  BY DEF FromFile, Scanned
<1>8. \A a, b \in Loaded : a = b
  <2>1. CASE marker = NoMarker \/ (marker.age = "older" /\ file # None)
    BY <1>5, <2>1 DEF Loaded
  <2>2. CASE marker # NoMarker /\ ~(marker.age = "older" /\ file # None)
    <3>1. CASE FromFile = {}
      <4>1. \A a \in Loaded : a = Phantom(marker.name)
        BY <2>2, <3>1 DEF Loaded
      <4>2. QED
        BY <4>1
    <3>2. CASE FromFile # {}
      <4>1. PICK b \in FromFile : FromFile = {b}
        BY <1>5, <3>2
      <4>2. b.name = marker.name /\ Phantom(marker.name).name = b.name
        BY <1>3, <1>6, <2>2
      <4>3. \A a \in Loaded : a = [b EXCEPT !.disabled = TRUE]
        BY <2>2, <4>1, <4>2 DEF Loaded
      <4>4. QED
        BY <4>3
    <3>3. QED
      BY <3>1, <3>2
  <2>3. QED
    BY <2>1, <2>2
<1>9. \A a \in Loaded : /\ a.name = ScanName
                        /\ file = None => a.disabled
                        /\ file # None => a.auth = file /\ a.fp = file
  <2>1. CASE marker = NoMarker \/ (marker.age = "older" /\ file # None)
    BY <1>3, <2>1 DEF Loaded
  <2>2. CASE marker # NoMarker /\ ~(marker.age = "older" /\ file # None)
    <3>1. \A a \in {[b EXCEPT !.disabled = TRUE] : b \in {b \in FromFile : b.name = marker.name}} :
             a.name = ScanName /\ a.auth = file /\ a.fp = file /\ file # None
      BY <1>3, <1>4
    <3>2. \A a \in {b \in FromFile : b.name # marker.name} : FALSE
      BY <1>3, <1>6, <2>2
    <3>3. \A a \in {a \in {Phantom(marker.name)} : \A b \in FromFile : b.name # a.name} :
             a.name = ScanName /\ a.disabled /\ file = None
      BY <1>3, <1>6, <1>7, <2>2 DEF FromFile
    <3>4. QED
      BY <2>2, <3>1, <3>2, <3>3 DEF Loaded
  <2>3. QED
    BY <2>1, <2>2
<1>10. \A e \in pool' : acct'[e] \in Loaded
  <2> SUFFICES ASSUME NEW e \in pool' PROVE acct'[e] \in Loaded
    OBVIOUS
  <2>1. PICK a \in Loaded : f[a] = e
    BY <1>1
  <2>2. acct'[e] = CHOOSE b \in Loaded : f[b] = e
    BY <1>1, <2>1
  <2>3. QED
    BY <2>1, <2>2
<1>11. \A e, d \in pool' : e = d
  BY <1>1, <1>8
<1>12. Excluded'
  BY <1>2 DEF Excluded, Procs
<1>13. OneObject'
  BY <1>2, <1>9, <1>10, <1>11 DEF OneObject
<1>14. LockOK'
  BY <1>2, <1>9, <1>10 DEF LockOK
<1>15. AgesOK'
  <2>1. \A e \in pool' : file # None => acct'[e].auth <= file
    BY <1>9, <1>10, Numbers
  <2>2. QED
    BY <1>2, <2>1 DEF AgesOK
<1>16. QED
  BY <1>12, <1>13, <1>14, <1>15 DEF Kinds

LEMMA RStep == Alone /\ RInv /\ [Next]_vars => RInv'
<1> SUFFICES ASSUME Alone, RInv, [Next]_vars PROVE RInv'
  OBVIOUS
<1>1. GInv'
  BY GStep DEF RInv
<1>2. Kinds'
  <2>1. CASE \E p \in Refreshers : refreshAccountToken(p)
    BY <2>1, KindsRefresh
  <2>2. CASE \E p \in Editors : edit(p)
    BY <2>2, KindsEdit DEF Procs
  <2>3. CASE (\E v \in Versions : Revoke(v)) \/ UNCHANGED vars
    <3>1. UNCHANGED <<file, marker, issued, pool, acct, pc, on, new>>
      BY <2>3 DEF Revoke, vars, diskVars, upVars, procVars
    <3>2. QED
      BY <3>1 DEF RInv, Kinds, Excluded, OneObject, LockOK, AgesOK
  <2>4. CASE Reload \/ Restart
    BY <2>4, KindsReload, KindsRestart
  <2>5. QED
    BY <2>1, <2>2, <2>3, <2>4 DEF Next, Alone
<1>3. QED
  BY <1>1, <1>2 DEF RInv, Kinds

LEMMA Refreshing == Alone /\ Spec => []RInv
<1> SUFFICES ASSUME Alone PROVE Spec => []RInv
  OBVIOUS
<1>1. Init => RInv
  BY InitRInv
<1>2. RInv /\ [Next]_vars => RInv'
  BY RStep
<1>3. QED
  BY <1>1, <1>2, PTL DEF Spec

\* Where only refreshes and edits are at work, any number of them, no two refreshes are
\* at the upstream with the same token: the file then keeps one object in the pool
\* (OneObject), whose lock one of them would not have.  Where the hypothesis fails,
\* the conclusion does: MCCredentialDeleted.
THEOREM RefreshesTakeTurns ==
    ASSUME Requests = {}, Logins = {}, Deleters = {}
    PROVE  Spec => []RefreshedByOneAtATime
<1>1. RInv => RefreshedByOneAtATime
  <2> SUFFICES ASSUME RInv, NEW p \in Refreshers, NEW q \in Refreshers,
                      pc[p] = "refresh", pc[q] = "refresh"
               PROVE  p = q
    BY DEF RefreshedByOneAtATime
  <2>1. QED
    BY Sole DEF Procs, Holding
<1>2. Spec => []RInv
  BY Refreshing DEF Alone
<1>3. QED
  BY <1>1, <1>2, PTL

\* What a step of a refresh writes is newer than what it writes over.
LEMMA NewestRefresh ==
    ASSUME RInv, NEW p \in Refreshers, refreshAccountToken(p)
    PROVE  /\ file # None /\ file' # None => file' >= file
           /\ \A e \in pool \cap pool' : acct'[e].auth >= acct[e].auth
<1> p \in Procs
  BY DEF Procs
<1> USE DEF RInv, GInv, TypeOK, Holding
<1>1. CASE Save(p)
  <2>1. pc[p] = "validate"
    BY <1>1 DEF Save, OneObject, HandsOK
  <2>2. file <= new[p]
    BY <2>1 DEF AgesOK
  <2>3. QED
    BY <1>1, <2>2, Numbers DEF Save, WriteFile
<1>2. CASE Publish(p)
  <2>1. pool = {on[p]} /\ on[p] \in Entries
    BY <1>2, Sole DEF Publish
  <2>2. ~acct[on[p]].disabled /\ file = new[p] /\ UNCHANGED <<file, pool>>
    BY <1>2 DEF Publish, LockOK, AgesOK, diskVars
  <2>3. acct[on[p]].auth <= file
    BY <2>1, <2>2 DEF LockOK, AgesOK
  <2> DEFINE a == [acct[on[p]] EXCEPT !.auth = new[p], !.fp = file, !.fails = 0]
  <2>4. acct' = [acct EXCEPT ![on[p]] = a]
    BY <1>2, <2>2 DEF Publish
  <2>5. a.auth = file
    BY <2>1, <2>2 DEF AccountFields
  <2> HIDE DEF a
  <2>6. acct'[on[p]].auth = file
    BY <2>1, <2>4, <2>5
  <2>7. QED
    BY <2>1, <2>2, <2>3, <2>6, Numbers
<1>3. CASE Disable(p)
  <2>1. pool = {on[p]} /\ on[p] \in Entries
    BY <1>3, Sole DEF Disable
  <2>2. acct' = [acct EXCEPT ![on[p]] = [acct[on[p]] EXCEPT !.disabled = TRUE]]
    BY <1>3 DEF Disable
  <2>3. [acct[on[p]] EXCEPT !.disabled = TRUE].auth = acct[on[p]].auth
    BY <2>1 DEF AccountFields
  <2>4. acct'[on[p]].auth = acct[on[p]].auth
    BY <2>1, <2>2, <2>3
  <2>5. QED
    BY <1>3, <2>1, <2>4, Numbers DEF Disable, diskVars
<1>4. CASE RefreshFails(p)
  <2>1. pool = {on[p]} /\ on[p] \in Entries
    BY <1>4, Sole DEF RefreshFails
  <2> DEFINE a == [acct[on[p]] EXCEPT !.fails = CountFailure(acct[on[p]].fails)]
  <2>2. acct' = [acct EXCEPT ![on[p]] = a]
    BY <1>4 DEF RefreshFails
  <2>3. a.auth = acct[on[p]].auth
    BY <2>1 DEF AccountFields
  <2> HIDE DEF a
  <2>4. acct'[on[p]].auth = acct[on[p]].auth
    BY <2>1, <2>2, <2>3
  <2>5. QED
    BY <1>4, <2>1, <2>4, Numbers DEF RefreshFails, diskVars
<1>5. CASE UNCHANGED acct /\ (file' = file \/ file' = None)
  BY <1>5, Numbers
<1>6. QED
  BY <1>1, <1>2, <1>3, <1>4, <1>5
     DEF refreshAccountToken, disableAccount, Mark, Keep, Condemn, Remove, Choose, Skip, Lock,
         RefreshSucceeds, Reject, clearDisabledMarker, diskVars

LEMMA NewestEdit ==
    ASSUME RInv, NEW p \in Procs, edit(p)
    PROVE  /\ file # None /\ file' # None => file' >= file
           /\ \A e \in pool \cap pool' : acct'[e].auth >= acct[e].auth
<1> USE DEF RInv, GInv, TypeOK
<1>1. CASE SaveEdit(p)
  <2>1. file = snap[p] /\ snap[p] # None /\ issued' = issued + 1 /\ file' = issued'
    BY <1>1 DEF SaveEdit, Issue, HandsOK
  <2>2. file <= issued /\ \A e \in pool : acct[e].auth <= file
    BY <2>1 DEF AgesOK
  <2>3. \A e \in pool : acct[e].auth <= issued'
    BY <2>1, <2>2, Numbers
  <2>4. ASSUME NEW e \in Entries, e \in pool \cap pool'
        PROVE  acct'[e].auth >= acct[e].auth
    <3>1. pool = {e}
      BY <2>4, OneNamed
    <3>2. acct' = [acct EXCEPT ![e] =
                      [acct[e] EXCEPT !.auth = issued', !.fp = issued', !.disabled = FALSE]]
      BY <1>1, <3>1, OneNamed DEF SaveEdit
    <3> DEFINE a == [acct[e] EXCEPT !.auth = issued', !.fp = issued', !.disabled = FALSE]
    <3>3. a.auth = issued'
      BY DEF AccountFields
    <3>4. acct' = [acct EXCEPT ![e] = a]
      BY <3>2
    <3> HIDE DEF a
    <3>5. acct'[e].auth = issued'
      BY <3>3, <3>4
    <3>6. QED
      BY <2>1, <2>3, <2>4, <3>5, Numbers
  <2>5. QED
    BY <2>1, <2>2, <2>4, Numbers
<1>2. CASE UNCHANGED <<acct, file>>
  BY <1>2, Numbers
<1>3. QED
  BY <1>1, <1>2 DEF edit, Open, Conflict, diskVars

LEMMA NewestReload ==
    ASSUME RInv, Reload
    PROVE  file' = file /\ \A e \in pool \cap pool' : acct'[e].auth >= acct[e].auth
<1> USE DEF RInv, GInv, TypeOK
<1>1. file' = file
  BY DEF Reload, reloadAccountsResult
<1>2. CASE \E e \in Entries :
             /\ Scanned /\ Named(ScanName) = {} /\ Free(e)
             /\ acct' = [acct EXCEPT ![e] = NewAccount(ScanName, file, file)]
             /\ pool' = Kept(pool) \cup {e}
             /\ UNCHANGED marker
  BY <1>1, <1>2, OneNamed
<1>3. CASE \E e \in Named(ScanName) : Scanned /\ Replace(e) /\ pool' = Kept(pool) \cup {e}
  <2>1. PICK e \in pool : Scanned /\ Replace(e) /\ pool' = Kept(pool) \cup {e}
    BY <1>3 DEF Named
  <2>2. pool = {e} /\ acct[e].auth <= file
    BY <2>1, OneNamed DEF AgesOK, Scanned
  <2> DEFINE a == [acct[e] EXCEPT !.auth = file, !.fp = file, !.disabled = FALSE]
  <2>3. acct' = [acct EXCEPT ![e] = a]
    BY <2>1 DEF Replace
  <2>4. a.auth = file
    BY <2>1 DEF AccountFields
  <2> HIDE DEF a
  <2>5. acct'[e].auth = file
    BY <2>1, <2>3, <2>4
  <2>6. QED
    BY <1>1, <2>1, <2>2, <2>5, Numbers
<1>4. CASE UNCHANGED acct
  BY <1>1, <1>4, Numbers
<1>5. QED
  BY <1>2, <1>3, <1>4 DEF Reload, reloadAccountsResult

LEMMA NewestStep ==
    ASSUME Alone, RInv, [Next]_vars
    PROVE  /\ file # None /\ file' # None => file' >= file
           /\ restarts' = restarts => \A e \in pool \cap pool' : acct'[e].auth >= acct[e].auth
<1>1. CASE \E p \in Refreshers : refreshAccountToken(p)
  BY <1>1, NewestRefresh
<1>2. CASE \E p \in Editors : edit(p)
  BY <1>2, NewestEdit DEF Procs
<1>3. CASE (\E v \in Versions : Revoke(v)) \/ UNCHANGED vars
  <2>1. UNCHANGED <<file, pool, acct>>
    BY <1>3 DEF Revoke, vars, diskVars
  <2>2. QED
    BY <2>1, Numbers DEF RInv, GInv, TypeOK
<1>4. CASE Reload
  BY <1>4, NewestReload, Numbers DEF RInv
<1>5. CASE Restart
  <2>1. file' = file /\ restarts' = restarts + 1 /\ restarts \in Nat
    BY <1>5, BoundsAssumption DEF Restart, RInv, GInv, TypeOK
  <2>2. QED
    BY <2>1, Numbers DEF RInv
<1>6. QED
  BY <1>1, <1>2, <1>3, <1>4, <1>5 DEF Next, Alone

\* Where only refreshes and edits are at work, none of them is lost to another: file
\* and accounts never go back to an older credential.
THEOREM NothingIsLost ==
    ASSUME Requests = {}, Logins = {}, Deleters = {}
    PROVE  Spec => NewestWins
<1>1. RInv /\ [Next]_vars =>
        [/\ file # None /\ file' # None => file' >= file
         /\ restarts' = restarts =>
              \A e \in pool \cap pool' : acct'[e].auth >= acct[e].auth]_vars
  BY NewestStep DEF Alone
<1>2. Spec => []RInv
  BY Refreshing DEF Alone
<1>3. QED
  BY <1>1, <1>2, PTL DEF Spec, NewestWins
=============================================================================
