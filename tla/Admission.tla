------------------------------ MODULE Admission ------------------------------
(***************************************************************************)
(* What the model-concurrency limiter of concurrent.go promises, with no   *)
(* lock, counter or channel: a request either holds one slot of one        *)
(* account or none, a slot is granted only while both limits in force      *)
(* leave room for it, a slot is given back once, and a new configuration   *)
(* changes the limits and takes no slot away from anyone.                  *)
(***************************************************************************)
EXTENDS Integers, FiniteSets

CONSTANTS
    Requests,       \* calls of acquire that may be under way at one time
    Keys,           \* the accounts, by absolute path of the credential file
    NoKey,          \* no account: a request that holds no slot
    Configs,        \* the "concurrent" sections config.json may hold
    DefaultMaxAcc   \* defaultMaxAcc, 4 in the code

\* A limit on the slots of one account is positive; 0 means no global limit.
Limits == [MaxAcc : Nat \ {0}, MaxGlobal : Nat]

normalizeConcurrentConfig(c) ==
    [MaxAcc    |-> IF c.MaxAcc <= 0 THEN DefaultMaxAcc ELSE c.MaxAcc,
     MaxGlobal |-> IF c.MaxGlobal < 0 THEN 0 ELSE c.MaxGlobal]

-----------------------------------------------------------------------------

VARIABLES
    limits,     \* the limits in force
    holds       \* holds[r]: the account r holds a slot of, or NoKey

HoldersOf(k) == {r \in Requests : holds[r] = k}
Holders == {r \in Requests : holds[r] # NoKey}

Init ==
    /\ limits = [MaxAcc |-> DefaultMaxAcc, MaxGlobal |-> 0]
    /\ holds = [r \in Requests |-> NoKey]

Grant(r, k) ==
    /\ holds[r] = NoKey
    /\ Cardinality(HoldersOf(k)) < limits.MaxAcc
    /\ limits.MaxGlobal = 0 \/ Cardinality(Holders) < limits.MaxGlobal
    /\ holds' = [holds EXCEPT ![r] = k]
    /\ UNCHANGED limits

GiveBack(r) ==
    /\ holds[r] # NoKey
    /\ holds' = [holds EXCEPT ![r] = NoKey]
    /\ UNCHANGED limits

Reconfigure(c) ==
    /\ limits' = normalizeConcurrentConfig(c)
    /\ UNCHANGED holds

Next ==
    \/ \E r \in Requests, k \in Keys : Grant(r, k)
    \/ \E r \in Requests : GiveBack(r)
    \/ \E c \in Configs : Reconfigure(c)

Spec == Init /\ [][Next]_<<limits, holds>>
=============================================================================
