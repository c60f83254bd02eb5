--------------------------- MODULE MCAccountDispatch ---------------------------
(* Small instances of AccountDispatch for TLC. *)
EXTENDS AccountDispatch, TLC

CONSTANTS r1, r2, r3, m1, m2, domestic, international

OneRequest == {r1}
TwoRequests == {r1, r2}
ThreeRequests == {r1, r2, r3}
OneModel == {m1}
TwoModels == {m1, m2}
BothSites == {domestic, international}

\* Account 0 is domestic, the others international.
MCSiteOf == [a \in Accounts |-> IF a = 0 THEN domestic ELSE international]

\* m1 is free on one site and paid for on the other.
FreeHere == {<<domestic, m1>>}
PaidThere == {<<international, m1>>}
Nothing == {}

Symmetric == Permutations(ThreeRequests)
\* For one model at one price, with nothing from outside: the view leaves out what
\* nobody reads again, the locals of a request that it has used, and of an account
\* that is disabled, or that every request has tried or no longer needs, what only
\* choosing it reads.
Tries(r) == IF pc[r] \in {"stream", "usage", "done"} THEN Accounts ELSE attempted[r]
Choosable(a) == ~disabled[a] /\ \E r \in Requests : Tries(r) # Accounts /\ a \notin Tries(r)
Local(r) ==
    CASE pc[r] \in {"idle", "prefer", "select"} -> <<pc[r], slot[r], attempted[r]>>
      [] pc[r] \in {"stream", "usage"} -> <<pc[r], slot[r], account[r]>>
      [] pc[r] = "done" -> <<pc[r], slot[r]>>
      [] pc[r] = "reply" -> <<pc[r], slot[r], attempted[r], account[r], kind[r], refusal[r]>>
      [] OTHER -> <<pc[r], slot[r], attempted[r], account[r], kind[r]>>
StillRead ==
    <<rrIndex, disabled, exhausted, late, [r \in Requests |-> Local(r)],
      [a \in Accounts |-> IF Choosable(a) THEN <<cool[a], ledger[a]>> ELSE <<>>]>>
=============================================================================
