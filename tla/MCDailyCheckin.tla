---------------------------- MODULE MCDailyCheckin ----------------------------
(* Small instances of DailyCheckin for TLC. *)
EXTENDS DailyCheckin

OneAccount == {1}
TwoAccounts == {1, 2}
=============================================================================
