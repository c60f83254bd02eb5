--------------------------- MODULE MCRuntimeConfig ---------------------------
(* Small instances of RuntimeConfig for TLC. *)
EXTENDS RuntimeConfig

CONSTANT k1

OneKey == {k1}
Plain == [key |-> k1, api |-> 1, web |-> 2, debug |-> FALSE, rest |-> "default"]
\* What the operator writes: a change of both ports, a change of everything
\* with a section missing, no key, and two roles on one port.
MCDrafts == {Plain,
             [Plain EXCEPT !.api = 3, !.web = 4],
             [Plain EXCEPT !.web = 3, !.debug = TRUE, !.rest = "missing"],
             [Plain EXCEPT !.key = NoKey, !.api = 3],
             [Plain EXCEPT !.web = 1]}
==============================================================================
