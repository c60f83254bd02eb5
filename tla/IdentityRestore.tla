-------------------------- MODULE IdentityRestore --------------------------
(***************************************************************************)
(* Giving a client its own name back (src/identity_restore.go).  The       *)
(* gateway told the model another name; where an answer says that name it  *)
(* is replaced, unless it is part of an identifier, of an address or of a  *)
(* path.  A streamed answer arrives in pieces that may cut the name, so a  *)
(* restorer keeps back the end of what it has read and remembers whether   *)
(* it is inside an address.                                                *)
(*                                                                         *)
(* A text is a sequence of letters of ASCII, each a string that names it:  *)
(* where runes begin is left out.  Offsets count from 0 and a slice ends   *)
(* before its second offset, as in the code.                               *)
(***************************************************************************)
EXTENDS Integers, SequencesExt

CONSTANTS Rules,        \* what is replaced: records with from and to
          Identifiers   \* the letters, digits and underscore

\* The plan of a request holds one rule, from the name the model was told to the
\* client's own, and none when there is nothing to restore.
ASSUME RulesAssumption ==
  /\ \A r \in Rules : r.from \in Seq(STRING) \ {<<>>} /\ r.to \in Seq(STRING)
  /\ \A r, q \in Rules : r = q

Slice(text, i, j) == SubSeq(text, i + 1, j)

-----------------------------------------------------------------------------
(* Where the name occurs.                                                  *)

\* Not in the middle of an identifier.
identityMatchBoundary(text, start, end) ==
  /\ start > 0 => text[start] \notin Identifiers
  /\ end < Len(text) => text[end + 1] \notin Identifiers

\* The rules whose name stands at an offset, with nothing of an identifier on
\* either side.
Occurring(text, start) ==
  {r \in Rules : LET end == start + Len(r.from)
                 IN /\ end <= Len(text)
                    /\ Slice(text, start, end) = r.from
                    /\ identityMatchBoundary(text, start, end)}

\* Of several at one place the longest.
matchIdentityTarget(text, start) ==
  CHOOSE r \in Occurring(text, start) :
    \A q \in Occurring(text, start) : Len(r.from) >= Len(q.from)

-----------------------------------------------------------------------------
(* Whether the text is inside an address, a path or a file name.           *)

Outside == [path |-> FALSE, dot |-> FALSE, prev |-> "", quote |-> ""]

Quotes == {"quote", "apostrophe", "backtick"}
Breaks == {"space", "newline", "<", ">"}
Marks  == {"/", "backslash", ":", "@"}

AdvanceLetter(c, r) ==
  CASE r \in Quotes /\ c.quote = r -> Outside
    [] r \in Quotes /\ c.quote = "" /\ c.prev \notin Identifiers ->
         [c EXCEPT !.quote = r, !.prev = "", !.dot = FALSE]
    [] r \in Breaks /\ (c.quote = "" \/ r = "newline") -> Outside
    [] r \in Breaks /\ c.quote # "" /\ r # "newline" -> [c EXCEPT !.prev = "", !.dot = FALSE]
    [] OTHER -> [path  |-> c.path \/ (c.dot /\ r \in Identifiers) \/ r \in Marks,
                 dot   |-> r = "." /\ c.prev \in Identifiers,
                 prev  |-> r,
                 quote |-> c.quote]

advance(c, text) ==
  LET after[n \in 0 .. Len(text)] ==
        IF n = 0 THEN c ELSE AdvanceLetter(after[n - 1], text[n])
  IN after[Len(text)]

\* The name that ends before offset end is part of an address.
protects(c, text, end) ==
  \/ c.path
  \/ c.prev \in {".", "-"}
  \/ end < Len(text) /\ text[end + 1] \in Marks \cup {"-"}
  \/ end + 1 < Len(text) /\ text[end + 1] = "." /\ text[end + 2] \in Identifiers \cup {"-"}

-----------------------------------------------------------------------------
(* Restoring as much of a text as can be decided: what comes out, and how  *)
(* much of the text it stands for.  The text is passed offset by offset;   *)
(* scan is the end of the last occurrence, cursor that of the last one     *)
(* replaced.                                                               *)

\* An occurrence is held back when it may not end where it seems to, left alone
\* when it is part of an address, and replaced otherwise.
Meet(text, limit, address, final, st, start) ==
  LET r   == matchIdentityTarget(text, start)
      end == start + Len(r.from)
  IN IF end > limit \/ (~final /\ end = Len(text))
     THEN [st EXCEPT !.consumed = start]
     ELSE IF protects(advance(address, Slice(text, 0, start)), text, end)
     THEN [st EXCEPT !.scan = end]
     ELSE [st EXCEPT !.scan = end, !.cursor = end,
                     !.out = st.out \o Slice(text, st.cursor, start) \o r.to]

\* What lies behind one held back is not looked at, nor what overlaps the last.
Pass(text, limit, address, final, st, start) ==
  IF st.consumed < limit \/ start < st.scan \/ Occurring(text, start) = {} THEN st
  ELSE Meet(text, limit, address, final, st, start)

restoreIdentityPrefix(text, limit, address, final) ==
  LET passed[n \in 0 .. limit] ==
        IF n = 0 THEN [scan |-> 0, cursor |-> 0, consumed |-> limit, out |-> <<>>]
        ELSE Pass(text, limit, address, final, passed[n - 1], n - 1)
      st == passed[limit]
  IN [out |-> st.out \o Slice(text, st.cursor, st.consumed), consumed |-> st.consumed]

\* A text that is there as a whole.
restoreIdentityText(text) == restoreIdentityPrefix(text, Len(text), Outside, TRUE).out

\* Mutant: only a name that has begun is kept back, not one that is followed
\* by a point.
restorePendingCutShort(text) ==
  LET Begun(start) == \E r \in Rules : IsPrefix(Slice(text, start, Len(text)), r.from)
  IN Min({Len(text)} \cup {Max({s - 1, 0}) : s \in {n \in 0 .. Len(text) - 1 : Begun(n)}})

\* What begins at an offset may still turn out to be the name: the text ends in
\* its beginning, in the name, or in the name and a point.
Undecided(text, start) ==
  LET suffix == Slice(text, start, Len(text))
  IN \E r \in Rules : IsPrefix(suffix, r.from) \/ suffix = Append(r.from, ".")

\* Up to where a text is looked at: to the letter before the first of them.
restorePendingCut(text) ==
  LET hold   == Max({0} \cup {Len(r.from) : r \in Rules})
      starts == {s \in Max({0, Len(text) - hold - 1}) .. Len(text) - 1 : Undecided(text, s)}
  IN Min({Len(text)} \cup {Max({s - 1, 0}) : s \in starts})

-----------------------------------------------------------------------------
(* The restorer of one channel of a streamed answer.                       *)

newIdentityRestorer(active) == [active |-> active, carry |-> <<>>, address |-> Outside]

\* What is decided of the pending text goes out, the rest is kept.
LetOut(s, pending, restored) ==
  [restorer |-> [s EXCEPT !.carry = Slice(pending, restored.consumed, Len(pending)),
                          !.address = advance(@, Slice(pending, 0, restored.consumed))],
   out      |-> restored.out]

\* The last letter of a text is never decided.
Decided(pending, cut) == IF cut = Len(pending) /\ cut > 0 THEN cut - 1 ELSE cut

Pending(s, pending) ==
  LetOut(s, pending,
         restoreIdentityPrefix(pending, Decided(pending, restorePendingCut(pending)),
                               s.address, FALSE))

\* A piece comes in: the restorer after it, and what it lets out.
Write(s, delta) ==
  IF s.active THEN Pending(s, s.carry \o delta) ELSE [restorer |-> s, out |-> delta]

\* What was kept back, when nothing follows.
Flush(s) ==
  IF ~s.active \/ s.carry = <<>>
  THEN [restorer |-> s, out |-> <<>>]
  ELSE [restorer |-> newIdentityRestorer(TRUE),
        out      |-> restoreIdentityPrefix(s.carry, Len(s.carry), s.address, TRUE).out]

\* What a restorer, or none, makes of a text as a whole.
Restored(active, text) == IF active THEN restoreIdentityText(text) ELSE text
=============================================================================
