------------------------------ MODULE MCStatistics ------------------------------
(* A small instance of Statistics for TLC: one account whose file another    *)
(* user may take over, one request, one end of the process, and two hours    *)
(* with a midnight between them that also begins a week and a month.         *)
EXTENDS Statistics

CONSTANTS r1, r2, a1, u1, u2

MCMonthStarts == {-4, -1, 1, 3, 5, 8, 9, 11, 13}
=============================================================================
