------------------------- MODULE MCCredentialLifecycle -------------------------
(* Small instances of CredentialLifecycle for TLC. *)
EXTENDS CredentialLifecycle, TLC

CONSTANTS f1, f2, q1, l1, l2, d1, x1, e1, e2, e3, scan, web

Nobody == {}
OneRefresher == {f1}
TwoRefreshers == {f1, f2}
OneRequest == {q1}
OneLogin == {l1}
TwoLogins == {l1, l2}
OneEditor == {d1}
OneDeleter == {x1}
TwoEntries == {e1, e2}
ThreeEntries == {e1, e2, e3}

Symmetric == Permutations(TwoRefreshers) \cup Permutations(ThreeEntries)
=============================================================================
