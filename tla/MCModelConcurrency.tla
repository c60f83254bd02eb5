-------------------------- MODULE MCModelConcurrency --------------------------
(* Small instances of ModelConcurrency for TLC. *)
EXTENDS ModelConcurrency, TLC

CONSTANTS r1, r2, r3, k1, k2

MCRequests == {r1, r2, r3}
MCKeys == {k1, k2}
\* A section left empty or wrong (0 and -1 fall back), a global limit below the
\* sum of the accounts', and a limit that shrinks an account already in use.
MCConfigs == {[MaxAcc |-> 0, MaxGlobal |-> -1],
              [MaxAcc |-> 2, MaxGlobal |-> 2],
              [MaxAcc |-> 1, MaxGlobal |-> 0]}

OneKey == {k1}
\* The account's limit falls back to the default and nothing is limited globally;
\* or the global limit is below the account's, and below what may be in use.
TwoConfigs == {[MaxAcc |-> 0, MaxGlobal |-> 0], [MaxAcc |-> 2, MaxGlobal |-> 1]}

Symmetric == Permutations(MCRequests) \cup Permutations(MCKeys)
=============================================================================
