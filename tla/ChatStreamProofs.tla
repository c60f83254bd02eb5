--------------------------- MODULE ChatStreamProofs ---------------------------
(***************************************************************************)
(* For every timeout and every bound on lines and heartbeats: the client   *)
(* sees one answer, its frames come in order, an answer holds one body and *)
(* its slot at a time, and what ends without an error is whole.            *)
(*                                                                         *)
(* None of them is inductive alone.  IInv says what the frames may be at   *)
(* each place of the handler (FramesOK), and what the handler knows there  *)
(* (Bookkeeping): without data there are only comments, so a replay starts *)
(* from an answer that shows nothing of the response before it.            *)
(*                                                                         *)
(* That an answer is whole when it ends without an error is a balance:     *)
(* what the client has been shown and what the buffer and the wire still   *)
(* owe it are together what the upstream offered (Balance).                *)
(*                                                                         *)
(* The text of a stream passes through the restorers of its channels (held *)
(* counts what they keep back), and what they do with it is proved below:  *)
(* however a text is cut into pieces, the pieces together become what the  *)
(* whole would (PiecesAsWhole).  The argument is one cut (Cut): up to it a *)
(* pass over the beginning and one over the whole go alike (AlikeToTheCut),*)
(* behind it a pass over the whole is one over the rest, moved, that       *)
(* starts in the address the cut is at (MovedToTheEnd).  Both need that a  *)
(* name occurs in the one where it occurs in the other (OccursInFirst,     *)
(* OccursInWhole, OccursFromCut).                                          *)
(*                                                                         *)
(* Last come the answers that are written through such restorers: the      *)
(* blocks and items of a streamed one keep their protocol                  *)
(* (AnswersKeepProtocol, with an invariant of its own, Standing).          *)
(***************************************************************************)
EXTENDS ChatStream, IdentityRestore, FiniteSetTheorems, SequenceTheorems,
        WellFoundedInduction, TLAPS

FrameSet == [kind : FrameKinds, try : 1 .. 2]

OfAttempt(o, t) ==
    \A i \in DOMAIN o : o[i].kind \in {"data", "tail", "terminal", "done"} => o[i].try = t
OnlyComments(o) == \A i \in DOMAIN o : o[i].kind \in {"heartbeat", "comment"}
NotEnded(o) == \A i \in DOMAIN o : o[i].kind \notin {"done", "error"}
Ordered(o) ==
    \A i, j \in DOMAIN o : i < j =>
        /\ o[i].kind \notin {"done", "error"}
        /\ o[j].kind = "heartbeat" => o[i].kind \in {"heartbeat", "comment"}

Over == pc \in {"return", "close", "returned"}

FramesOK ==
    /\ out \in Seq(FrameSet)
    /\ OfAttempt(out, try)
    /\ ~dataSeen => OnlyComments(out)
    /\ ~Over => NotEnded(out)
    /\ Ordered(out)

Bookkeeping ==
    /\ pc = "replay" => ~dataSeen /\ bodies = {} /\ try <= budget
    /\ bodies \subseteq {try}
    /\ pc = "returned" => bodies = {}
    /\ finish \/ held \/ Over => dataSeen
    /\ offered.data <= sent

IInv == TypeOK /\ Bookkeeping /\ FramesOK

-----------------------------------------------------------------------------
(* Frames, one at a time. *)

LEMMA Appended ==
    ASSUME NEW S, NEW s \in Seq(S), NEW e \in S
    PROVE  /\ Append(s, e) \in Seq(S)
           /\ DOMAIN s = 1 .. Len(s) /\ Len(s) \in Nat
           /\ DOMAIN Append(s, e) = 1 .. Len(s) + 1
           /\ \A i \in 1 .. Len(s) : Append(s, e)[i] = s[i]
           /\ Append(s, e)[Len(s) + 1] = e
OBVIOUS

\* Until the end is said a frame may be added: a heartbeat only before data.
LEMMA FrameAdded ==
    ASSUME NEW o \in Seq(FrameSet), NEW t \in 1 .. 2, NEW k \in FrameKinds,
           OfAttempt(o, t), NotEnded(o), Ordered(o),
           k = "heartbeat" => OnlyComments(o)
    PROVE  LET p == Append(o, [kind |-> k, try |-> t]) IN
           /\ p \in Seq(FrameSet) /\ OfAttempt(p, t) /\ Ordered(p)
           /\ OnlyComments(o) /\ k \in {"heartbeat", "comment"} => OnlyComments(p)
           /\ k \notin {"done", "error"} => NotEnded(p)
<1> DEFINE e == [kind |-> k, try |-> t]
           p == Append(o, e)
<1>1. e \in FrameSet
  BY DEF FrameSet
<1>2. /\ p \in Seq(FrameSet)
      /\ DOMAIN o = 1 .. Len(o) /\ Len(o) \in Nat
      /\ DOMAIN p = 1 .. Len(o) + 1
      /\ \A i \in 1 .. Len(o) : p[i] = o[i]
      /\ p[Len(o) + 1] = e
  BY <1>1, Appended
<1>3. e.kind = k /\ e.try = t
  OBVIOUS
<1> HIDE DEF p, e
<1>4. \A i \in DOMAIN p : (i \in DOMAIN o /\ p[i] = o[i]) \/ p[i] = e
  BY <1>2
<1>5. OfAttempt(p, t)
  BY <1>3, <1>4 DEF OfAttempt
<1>6. OnlyComments(o) /\ k \in {"heartbeat", "comment"} => OnlyComments(p)
  BY <1>3, <1>4 DEF OnlyComments
<1>7. k \notin {"done", "error"} => NotEnded(p)
  BY <1>3, <1>4 DEF NotEnded
<1>8. ASSUME NEW i \in DOMAIN p, NEW j \in DOMAIN p, i < j
      PROVE  /\ p[i].kind \notin {"done", "error"}
             /\ p[j].kind = "heartbeat" => p[i].kind \in {"heartbeat", "comment"}
  <2>1. i \in DOMAIN o /\ p[i] = o[i]
    BY <1>2, <1>8
  <2>2. p[i].kind \notin {"done", "error"}
    BY <2>1 DEF NotEnded
  <2>3. CASE j \in DOMAIN o /\ p[j] = o[j]
    BY <1>8, <2>1, <2>2, <2>3 DEF Ordered
  <2>4. CASE p[j] = e
    BY <1>3, <2>1, <2>2, <2>4 DEF OnlyComments
  <2>5. QED
    BY <1>4, <2>3, <2>4
<1>9. QED
  BY <1>2, <1>5, <1>6, <1>7, <1>8 DEF Ordered, p, e

\* The same for a frame that may be there or not.
LEMMA FrameAddedIf ==
    ASSUME NEW o \in Seq(FrameSet), try \in 1 .. 2, NEW k \in {"tail", "done"}, NEW there,
           OfAttempt(o, try), NotEnded(o), Ordered(o)
    PROVE  LET p == With(o, k, there) IN
           /\ p \in Seq(FrameSet) /\ OfAttempt(p, try) /\ Ordered(p)
           /\ k = "tail" => NotEnded(p)
<1>1. k \in FrameKinds /\ k # "heartbeat"
  BY DEF FrameKinds
<1>2. CASE there
  BY <1>1, <1>2, FrameAdded DEF With, Frame
<1>3. CASE ~there
  BY <1>3 DEF With
<1>4. QED
  BY <1>2, <1>3

\* The frames of a chunk with a finish reason where names are restored.
LEMMA FinishedAdded ==
    ASSUME out \in Seq(FrameSet), try \in 1 .. 2, NEW kept,
           OfAttempt(out, try), NotEnded(out), Ordered(out)
    PROVE  /\ Finished(kept) \in Seq(FrameSet) /\ OfAttempt(Finished(kept), try)
           /\ Ordered(Finished(kept)) /\ NotEnded(Finished(kept))
<1> DEFINE o == Append(out, Frame("data"))
           p == With(o, "tail", kept)
<1>1. /\ "data" \in FrameKinds /\ "data" \notin {"heartbeat", "done", "error"}
      /\ "terminal" \in FrameKinds /\ "terminal" \notin {"heartbeat", "done", "error"}
  BY DEF FrameKinds
<1>2. o \in Seq(FrameSet) /\ OfAttempt(o, try) /\ Ordered(o) /\ NotEnded(o)
  BY <1>1, FrameAdded DEF Frame
<1> HIDE DEF o
<1>3. p \in Seq(FrameSet) /\ OfAttempt(p, try) /\ Ordered(p) /\ NotEnded(p)
  BY <1>2, FrameAddedIf
<1>4. Finished(kept) = Append(p, Frame("terminal"))
  BY DEF Finished, o
<1> HIDE DEF p
<1>5. QED
  BY <1>1, <1>3, <1>4, FrameAdded DEF Frame

-----------------------------------------------------------------------------
(* The inductive invariant: one lemma per part. *)

LEMMA InitIInv == Init => IInv
<1> SUFFICES ASSUME Init PROVE IInv
  OBVIOUS
<1>1. TypeOK
  <2>1. <<>> \in Seq(Kinds) /\ <<>> \in Seq([kind : FrameKinds, try : 1 .. 2])
    OBVIOUS
  <2>2. [data |-> 0, closed |-> FALSE] \in [data : 0 .. MaxLines, closed : BOOLEAN]
    BY BoundsAssumption
  <2>3. QED
    <3>1. out = <<>> /\ wire = <<>> /\ buf = <<>> /\ offered = [data |-> 0, closed |-> FALSE]
      BY DEF Init
    <3>2. {dataSeen, finish, sawDone, held} = {FALSE}
      BY DEF Init
    <3>3. /\ wire \in Seq(Kinds) /\ buf \in Seq(Kinds)
          /\ out \in Seq([kind : FrameKinds, try : 1 .. 2])
          /\ offered \in [data : 0 .. MaxLines, closed : BOOLEAN]
      BY <2>1, <2>2, <3>1
    <3>4. {dataSeen, finish, sawDone, held} \subseteq BOOLEAN
      BY <3>2
    <3>5. try \in 1 .. budget + 1 /\ bodies \subseteq 1 .. 2
      BY DEF Init
    <3>6. QED
      BY <3>3, <3>4, <3>5, BoundsAssumption DEF Init, TypeOK
<1>2. Bookkeeping
  BY DEF Init, Bookkeeping, Over
<1>3. FramesOK
  BY DEF Init, FramesOK, OfAttempt, OnlyComments, NotEnded, Ordered
<1>4. QED
  BY <1>1, <1>2, <1>3 DEF IInv

LEMMA FramesStep == IInv /\ [Next]_vars => FramesOK'
<1> SUFFICES ASSUME IInv, [Next]_vars PROVE FramesOK'
  OBVIOUS
<1>0. /\ FramesOK /\ try \in 1 .. 2 /\ out \in Seq(FrameSet)
      /\ pc = "replay" => ~dataSeen
      /\ held \/ finish => dataSeen
  BY DEF IInv, TypeOK, Bookkeeping, FramesOK
<1>1. ASSUME out' = out, try' = try, dataSeen' = dataSeen, Over' <=> Over
      PROVE  FramesOK'
  BY <1>0, <1>1 DEF FramesOK
\* A frame before the end is said.
<1>2. ASSUME NEW k \in FrameKinds, ~Over, out' = Append(out, Frame(k)), try' = try,
             k = "heartbeat" => ~dataSeen,
             dataSeen' \/ (dataSeen' = dataSeen /\ k \in {"heartbeat", "comment"}),
             Over' \/ k \notin {"done", "error"}
      PROVE  FramesOK'
  <2>1. OfAttempt(out, try) /\ NotEnded(out) /\ Ordered(out)
    BY <1>0, <1>2 DEF FramesOK
  <2>2. k = "heartbeat" => OnlyComments(out)
    BY <1>0, <1>2 DEF FramesOK
  <2>3. /\ out' \in Seq(FrameSet) /\ OfAttempt(out', try) /\ Ordered(out')
        /\ OnlyComments(out) /\ k \in {"heartbeat", "comment"} => OnlyComments(out')
        /\ k \notin {"done", "error"} => NotEnded(out')
    BY <1>0, <1>2, <2>1, <2>2, FrameAdded DEF Frame
  <2>4. ~dataSeen' => OnlyComments(out')
    BY <1>0, <1>2, <2>3 DEF FramesOK
  <2>5. QED
    BY <1>2, <2>3, <2>4 DEF FramesOK
\* The text kept back, which goes before another frame.
<1>3. ASSUME ~Over
      PROVE  LET p == With(out, "tail", held) IN
             p \in Seq(FrameSet) /\ OfAttempt(p, try) /\ Ordered(p) /\ NotEnded(p)
  BY <1>0, <1>3, FrameAddedIf DEF FramesOK
<1>4. ASSUME NEW k \in Kinds, UpstreamSends(k) PROVE FramesOK'
  BY <1>1, <1>4 DEF UpstreamSends, Over
<1>5. CASE UpstreamStops
  BY <1>1, <1>5 DEF UpstreamStops, Over
<1>6. CASE ClientTurns
  BY <1>1, <1>6 DEF ClientTurns, Over
<1>7. CASE Tick
  BY <1>1, <1>7 DEF Tick, Over
<1>8. CASE check
  BY <1>1, <1>8 DEF check, Over
<1>9. CASE Read
  BY <1>1, <1>9 DEF Read, Over
<1>10. CASE Stamp
  BY <1>1, <1>10 DEF Stamp, Over
<1>11. CASE SkipMetadata
  BY <1>1, <1>11 DEF SkipMetadata, Over, Line
<1>12. CASE NoteDone
  BY <1>1, <1>12 DEF NoteDone, Over, Line
<1>13. CASE ScanEnds
  BY <1>1, <1>13 DEF ScanEnds, Over
<1>14. CASE Replay
  BY <1>1, <1>14 DEF Replay, Over
<1>15. CASE StopHeartbeat
  BY <1>1, <1>15 DEF StopHeartbeat, Over
<1>16. CASE CloseBody
  BY <1>1, <1>16 DEF CloseBody, Over
<1>17. CASE writeHeartbeat
  <2>1. ~dataSeen /\ ~Over /\ Over' = Over /\ "heartbeat" \in FrameKinds
    BY <1>17 DEF writeHeartbeat, Over, FrameKinds, IInv, Bookkeeping
  <2>2. QED
    BY <1>2, <1>17, <2>1 DEF writeHeartbeat
<1>18. CASE writeUpstreamComment
  <2>1. ~Over /\ "comment" \in FrameKinds
    BY <1>18 DEF writeUpstreamComment, Line, Over, FrameKinds
  <2>2. QED
    BY <1>2, <1>18, <2>1 DEF writeUpstreamComment
<1>19. CASE writeData
  <2>1. ~Over /\ "data" \in FrameKinds
    BY <1>19 DEF writeData, Line, Over, FrameKinds
  <2>2. QED
    BY <1>2, <1>19, <2>1 DEF writeData
<1>20. CASE writeFinish
  <2>1. /\ ~Over /\ try' = try /\ dataSeen' /\ ~Over'
        /\ \/ out' = Append(out, Frame("data"))
           \/ \E kept \in BOOLEAN : out' = Finished(kept)
    BY <1>20 DEF writeFinish, Line, Over
  <2>2. "data" \in FrameKinds
    BY DEF FrameKinds
  <2>3. CASE out' = Append(out, Frame("data"))
    BY <1>2, <2>1, <2>2, <2>3
  <2>4. ASSUME NEW kept \in BOOLEAN, out' = Finished(kept) PROVE FramesOK'
    <3>1. OfAttempt(out, try) /\ NotEnded(out) /\ Ordered(out)
      BY <1>0, <2>1 DEF FramesOK
    <3>2. /\ Finished(kept) \in Seq(FrameSet) /\ OfAttempt(Finished(kept), try)
          /\ Ordered(Finished(kept)) /\ NotEnded(Finished(kept))
      BY <1>0, <3>1, FinishedAdded
    <3>3. QED
      BY <2>1, <2>4, <3>2 DEF FramesOK
  <2>5. QED
    BY <2>1, <2>3, <2>4
<1>21. CASE Replayed
  <2>1. /\ out' = out /\ dataSeen' = dataSeen /\ ~Over /\ ~Over' /\ ~dataSeen
    BY <1>0, <1>21 DEF Replayed, Over
  <2>2. OnlyComments(out) /\ NotEnded(out) /\ Ordered(out)
    BY <1>0, <2>1 DEF FramesOK
  <2>3. OfAttempt(out, try')
    BY <2>2 DEF OfAttempt, OnlyComments
  <2>4. QED
    BY <1>0, <2>1, <2>2, <2>3 DEF FramesOK
<1>22. CASE ReplayFails
  <2>1. ~Over /\ Over' /\ "error" \in FrameKinds
    BY <1>22 DEF ReplayFails, Over, FrameKinds
  <2>2. QED
    BY <1>2, <1>22, <2>1 DEF ReplayFails
<1>23. CASE WriteError
  <2>1. ~Over /\ Over' /\ "error" \in FrameKinds
    BY <1>23 DEF WriteError, Over, FrameKinds
  <2>2. QED
    BY <1>2, <1>23, <2>1 DEF WriteError
<1>24. CASE Complete
  <2> DEFINE p == With(out, "tail", held)
  <2>1. /\ ~Over /\ Over' /\ try' = try /\ dataSeen' = dataSeen /\ dataSeen
        /\ out' = With(p, "done", sawDone)
    BY <1>0, <1>24 DEF Complete, Over
  <2>2. p \in Seq(FrameSet) /\ OfAttempt(p, try) /\ Ordered(p) /\ NotEnded(p)
    BY <1>3, <2>1
  <2> HIDE DEF p
  <2>3. out' \in Seq(FrameSet) /\ OfAttempt(out', try) /\ Ordered(out')
    BY <1>0, <2>1, <2>2, FrameAddedIf
  <2>4. QED
    BY <2>1, <2>3 DEF FramesOK
<1>25. CASE UNCHANGED vars
  BY <1>1, <1>25 DEF vars, Over
<1>26. QED
  BY <1>4, <1>5, <1>6, <1>7, <1>8, <1>9, <1>10, <1>11, <1>12, <1>13, <1>14, <1>15, <1>16,
     <1>17, <1>18, <1>19, <1>20, <1>21, <1>22, <1>23, <1>24, <1>25
     DEF Next, Handler, Forward, Returned

LEMMA TypeStep == IInv /\ FramesOK' /\ [Next]_vars => TypeOK'
<1> SUFFICES ASSUME IInv, FramesOK', [Next]_vars PROVE TypeOK'
  OBVIOUS
<1>0. TypeOK /\ Bookkeeping /\ out' \in Seq(FrameSet)
  BY DEF IInv, FramesOK
<1> USE DEF TypeOK, FrameSet, respVars, scanVars, dogVars
<1>1. ASSUME NEW k, Line(k) PROVE buf' \in Seq(Kinds)
  BY <1>0, <1>1 DEF Line
<1>2. ASSUME NEW k \in Kinds, UpstreamSends(k) PROVE TypeOK'
  <2>1. wire' \in Seq(Kinds)
    BY <1>0, <1>2 DEF UpstreamSends
  <2>2. offered' \in [data : 0 .. MaxLines, closed : BOOLEAN]
    <3>1. sent' \in 0 .. MaxLines /\ sent' = sent + 1
      BY <1>0, <1>2, BoundsAssumption DEF UpstreamSends
    <3>2. offered.data <= sent /\ offered \in [data : 0 .. MaxLines, closed : BOOLEAN]
      BY <1>0 DEF Bookkeeping
    <3>3. \/ offered' = offered
          \/ \E n \in {0, 1}, c \in BOOLEAN :
                offered' = [data |-> offered.data + n, closed |-> c]
      BY <1>2 DEF UpstreamSends
    <3>4. offered.data \in 0 .. MaxLines /\ offered.data + 1 \in 0 .. MaxLines
      BY <1>0, <3>1, <3>2, BoundsAssumption
    <3>5. QED
      BY <3>2, <3>3, <3>4
  <2>3. sent' \in 0 .. MaxLines /\ silent' \in 0 .. Timeout
    BY <1>0, <1>2, BoundsAssumption DEF UpstreamSends
  <2>4. UNCHANGED <<budget, restoring, client, pc, try, bodies, fate, buf, err, finish, sawDone,
                    held, dataSeen, watchdog, idle, heartbeat>>
    BY <1>2 DEF UpstreamSends
  <2>5. QED
    BY <1>0, <2>1, <2>2, <2>3, <2>4
<1>3. CASE UpstreamStops
  BY <1>0, <1>3 DEF UpstreamStops
<1>4. CASE ClientTurns
  BY <1>0, <1>4 DEF ClientTurns
<1>5. CASE Tick
  BY <1>0, <1>5, BoundsAssumption DEF Tick
<1>6. CASE check
  BY <1>0, <1>6 DEF check
<1>7. CASE writeHeartbeat
  BY <1>0, <1>7 DEF writeHeartbeat
<1>8. CASE Read
  BY <1>0, <1>8 DEF Read
<1>9. CASE Stamp
  BY <1>0, <1>9, BoundsAssumption DEF Stamp
<1>10. CASE writeUpstreamComment
  <2>1. buf' \in Seq(Kinds)
    BY <1>10, <1>1 DEF writeUpstreamComment
  <2>2. QED
    BY <1>0, <1>10, <2>1 DEF writeUpstreamComment, Line
<1>11. CASE SkipMetadata
  <2>1. buf' \in Seq(Kinds)
    BY <1>11, <1>1 DEF SkipMetadata
  <2>2. QED
    BY <1>0, <1>11, <2>1 DEF SkipMetadata, Line
<1>12. CASE writeData
  <2>1. buf' \in Seq(Kinds)
    BY <1>12, <1>1 DEF writeData
  <2>2. /\ {dataSeen', finish', held'} \subseteq BOOLEAN
        /\ UNCHANGED <<budget, restoring, client, pc, try, bodies, wire, fate, silent, offered,
                       sent, err, sawDone, watchdog, idle, heartbeat>>
    BY <1>0, <1>12 DEF writeData
  <2>3. QED
    BY <1>0, <2>1, <2>2
<1>13. CASE writeFinish
  <2>1. buf' \in Seq(Kinds)
    BY <1>13, <1>1 DEF writeFinish
  <2>2. /\ {dataSeen', finish', held'} \subseteq BOOLEAN
        /\ UNCHANGED <<budget, restoring, client, pc, try, bodies, wire, fate, silent, offered,
                       sent, err, sawDone, watchdog, idle, heartbeat>>
    BY <1>0, <1>13 DEF writeFinish
  <2>3. QED
    BY <1>0, <2>1, <2>2
<1>14. CASE NoteDone
  BY <1>0, <1>14, <1>1 DEF NoteDone, Line
<1>15. CASE ScanEnds
  BY <1>0, <1>15 DEF ScanEnds
<1>16. CASE Replay
  BY <1>0, <1>16 DEF Replay, canReplayStream
<1>17. CASE Replayed
  <2>1. <<>> \in Seq(Kinds)
    OBVIOUS
  <2>2. [data |-> 0, closed |-> FALSE] \in [data : 0 .. MaxLines, closed : BOOLEAN]
    BY BoundsAssumption
  <2>3. try' \in 1 .. budget' + 1 /\ bodies' \subseteq 1 .. 2
    <3>1. /\ pc = "replay" /\ try' = try + 1 /\ budget' = budget
          /\ bodies' = bodies \cup {try + 1}
      BY <1>17 DEF Replayed
    <3>2. bodies = {} /\ try <= budget
      BY <1>0, <3>1 DEF Bookkeeping
    <3>3. budget \in {0, 1} /\ try \in 1 .. budget + 1
      BY <1>0
    <3>4. budget = 1 /\ try = 1
      BY <3>2, <3>3
    <3>5. QED
      BY <3>1, <3>2, <3>4
  <2>4. QED
    <3>1. /\ wire' = <<>> /\ buf' = <<>> /\ offered' = [data |-> 0, closed |-> FALSE]
          /\ {finish', sawDone', held'} = {FALSE} /\ dataSeen' = dataSeen
      BY <1>17 DEF Replayed, NewResponse
    <3>2. wire' \in Seq(Kinds) /\ buf' \in Seq(Kinds)
          /\ offered' \in [data : 0 .. MaxLines, closed : BOOLEAN]
      BY <2>1, <2>2, <3>1
    <3>3. {dataSeen', finish', sawDone', held'} \subseteq BOOLEAN
      BY <1>0, <3>1
    <3>4. QED
      BY <1>0, <1>17, <2>3, <3>2, <3>3, BoundsAssumption DEF Replayed, NewResponse
<1>18. CASE ReplayFails
  BY <1>0, <1>18 DEF ReplayFails
<1>19. CASE WriteError
  BY <1>0, <1>19 DEF WriteError, canReplayStream
<1>20. CASE Complete
  BY <1>0, <1>20 DEF Complete
<1>21. CASE StopHeartbeat
  BY <1>0, <1>21 DEF StopHeartbeat
<1>22. CASE CloseBody
  BY <1>0, <1>22 DEF CloseBody
<1>23. CASE UNCHANGED vars
  BY <1>0, <1>23 DEF vars
<1>24. QED
  BY <1>2, <1>3, <1>4, <1>5, <1>6, <1>7, <1>8, <1>9, <1>10, <1>11, <1>12, <1>13, <1>14,
     <1>15, <1>16, <1>17, <1>18, <1>19, <1>20, <1>21, <1>22, <1>23
     DEF Next, Handler, Forward, Returned

LEMMA BookkeepingStep == IInv /\ [Next]_vars => Bookkeeping'
<1> SUFFICES ASSUME IInv, [Next]_vars PROVE Bookkeeping'
  OBVIOUS
<1>0. /\ Bookkeeping /\ {dataSeen, finish, held} \subseteq BOOLEAN
      /\ offered \in [data : 0 .. MaxLines, closed : BOOLEAN] /\ sent \in 0 .. MaxLines
      /\ try \in 1 .. 2 /\ restoring \in BOOLEAN
  BY DEF IInv, TypeOK
<1> USE DEF Bookkeeping, Over, respVars, scanVars, dogVars
<1>1. ASSUME NEW k \in Kinds, UpstreamSends(k) PROVE Bookkeeping'
  <2>1. offered'.data <= sent'
    BY <1>0, <1>1, BoundsAssumption DEF UpstreamSends
  <2>2. QED
    BY <1>0, <1>1, <2>1 DEF UpstreamSends
<1>2. CASE UpstreamStops
  BY <1>0, <1>2 DEF UpstreamStops
<1>3. CASE ClientTurns
  BY <1>0, <1>3 DEF ClientTurns
<1>4. CASE Tick
  BY <1>0, <1>4 DEF Tick
<1>5. CASE check
  BY <1>0, <1>5 DEF check
<1>6. CASE writeHeartbeat
  BY <1>0, <1>6 DEF writeHeartbeat
<1>7. CASE Read
  BY <1>0, <1>7 DEF Read
<1>8. CASE Stamp
  BY <1>0, <1>8 DEF Stamp
<1>9. CASE writeUpstreamComment
  BY <1>0, <1>9 DEF writeUpstreamComment, Line
<1>10. CASE SkipMetadata
  BY <1>0, <1>10 DEF SkipMetadata, Line
<1>11. CASE writeData
  BY <1>0, <1>11 DEF writeData, Line
<1>12. CASE writeFinish
  BY <1>0, <1>12 DEF writeFinish, Line
<1>13. CASE NoteDone
  BY <1>0, <1>13 DEF NoteDone, Line
<1>14. CASE ScanEnds
  BY <1>0, <1>14 DEF ScanEnds
<1>15. CASE Replay
  BY <1>0, <1>15 DEF Replay, canReplayStream
<1>16. CASE Replayed
  BY <1>0, <1>16 DEF Replayed, NewResponse
<1>17. CASE ReplayFails
  BY <1>0, <1>17 DEF ReplayFails
<1>18. CASE WriteError
  BY <1>0, <1>18 DEF WriteError, canReplayStream
<1>19. CASE Complete
  BY <1>0, <1>19 DEF Complete
<1>20. CASE StopHeartbeat
  BY <1>0, <1>20 DEF StopHeartbeat
<1>21. CASE CloseBody
  BY <1>0, <1>21 DEF CloseBody
<1>22. CASE UNCHANGED vars
  BY <1>0, <1>22 DEF vars
<1>23. QED
  BY <1>1, <1>2, <1>3, <1>4, <1>5, <1>6, <1>7, <1>8, <1>9, <1>10, <1>11, <1>12, <1>13,
     <1>14, <1>15, <1>16, <1>17, <1>18, <1>19, <1>20, <1>21, <1>22
     DEF Next, Handler, Forward, Returned

LEMMA Invariance == Spec => []IInv
<1>1. IInv /\ [Next]_vars => IInv'
  BY FramesStep, TypeStep, BookkeepingStep DEF IInv
<1>2. QED
  BY InitIInv, <1>1, PTL DEF Spec

-----------------------------------------------------------------------------
(* Whether an answer is whole: the lines that are owed to the client *)

\* The data lines of q before its [DONE], and whether there is one.
Owed(q) == {i \in DOMAIN q : /\ q[i] \in {"data", "finish"}
                             /\ \A j \in DOMAIN q : j < i => q[j] # "done"}
HasDone(q) == \E i \in DOMAIN q : q[i] = "done"
\* What is still to be shown when b has been read and w has not.
ToShow(b, w) == Cardinality(Owed(b)) + IF HasDone(b) THEN 0 ELSE Cardinality(Owed(w))
ShownOf(o, t) == {i \in DOMAIN o : o[i].kind = "data" /\ o[i].try = t}
Reading == pc \in {"scan", "stamp"}
Whole == finish /\ ~held /\ Shown = offered.data

\* Until the scan ends, what was shown and what is still to be shown are together what
\* was offered.
Balance ==
    /\ Reading => /\ Shown + ToShow(buf, wire) = offered.data
                  /\ offered.closed <=> HasDone(buf) \/ HasDone(wire)
                  /\ err = "none"
    /\ pc = "scanned" /\ err = "none" => Shown = offered.data
    /\ Over /\ (Has("done") \/ ~Has("error")) => Whole

LEMMA OwedFinite ==
    ASSUME NEW q \in Seq(Kinds)
    PROVE  IsFiniteSet(Owed(q)) /\ Cardinality(Owed(q)) \in Nat
<1>1. DOMAIN q = 1 .. Len(q) /\ Len(q) \in Nat
  OBVIOUS
<1>2. IsFiniteSet(1 .. Len(q))
  BY <1>1, FS_Interval
<1>3. Owed(q) \in SUBSET (1 .. Len(q))
  BY <1>1 DEF Owed
<1> QED BY <1>2, <1>3, FS_Subset, FS_CardinalityType

LEMMA OwedEmpty ==
    Owed(<<>>) = {} /\ Cardinality(Owed(<<>>)) = 0 /\ ~HasDone(<<>>)
<1>1. Owed(<<>>) = {} /\ ~HasDone(<<>>)
  BY DEF Owed, HasDone
<1> QED BY <1>1, FS_EmptySet

\* A line that is sent is owed when no [DONE] came before it.
LEMMA OwedAppended ==
    ASSUME NEW q \in Seq(Kinds), NEW k \in Kinds
    PROVE  /\ HasDone(Append(q, k)) <=> HasDone(q) \/ k = "done"
           /\ Cardinality(Owed(Append(q, k))) =
                IF ~HasDone(q) /\ k \in {"data", "finish"}
                THEN Cardinality(Owed(q)) + 1 ELSE Cardinality(Owed(q))
<1> DEFINE p == Append(q, k)
           n == Len(q)
<1>1. /\ DOMAIN q = 1 .. n /\ n \in Nat /\ DOMAIN p = 1 .. n + 1
      /\ \A i \in 1 .. n : p[i] = q[i]
      /\ p[n + 1] = k
  BY Appended
<1> HIDE DEF p, n
<1>2. HasDone(p) <=> HasDone(q) \/ k = "done"
  BY <1>1 DEF HasDone
<1>3. n + 1 \notin Owed(q)
  BY <1>1 DEF Owed
<1>4. CASE ~HasDone(q) /\ k \in {"data", "finish"}
  <2>1. Owed(p) = Owed(q) \cup {n + 1}
    BY <1>1, <1>4 DEF Owed, HasDone
  <2> QED BY <1>2, <1>3, <1>4, <2>1, OwedFinite, FS_AddElement DEF p
<1>5. CASE ~(~HasDone(q) /\ k \in {"data", "finish"})
  <2>1. Owed(p) = Owed(q)
    BY <1>1, <1>5 DEF Owed, HasDone
  <2> QED BY <1>2, <1>5, <2>1 DEF p
<1> QED BY <1>4, <1>5

\* A line that is taken from the buffer is owed no more; nothing after [DONE] is owed.
LEMMA OwedTaken ==
    ASSUME NEW q \in Seq(Kinds), q # <<>>
    PROVE  /\ Tail(q) \in Seq(Kinds)
           /\ Head(q) = "done" => Cardinality(Owed(q)) = 0 /\ HasDone(q)
           /\ Head(q) # "done" =>
                /\ HasDone(Tail(q)) <=> HasDone(q)
                /\ Cardinality(Owed(q)) = IF Head(q) \in {"data", "finish"}
                                          THEN Cardinality(Owed(Tail(q))) + 1
                                          ELSE Cardinality(Owed(Tail(q)))
<1> DEFINE p == Tail(q)
           n == Len(q)
<1>1. /\ DOMAIN q = 1 .. n /\ n \in Nat /\ n >= 1
      /\ p \in Seq(Kinds) /\ DOMAIN p = 1 .. n - 1
      /\ \A i \in 1 .. n - 1 : p[i] = q[i + 1]
      /\ Head(q) = q[1]
  OBVIOUS
<1> HIDE DEF p, n
<1>2. CASE Head(q) = "done"
  <2>1. Owed(q) = {} /\ HasDone(q)
    BY <1>1, <1>2 DEF Owed, HasDone
  <2> QED BY <1>1, <1>2, <2>1, FS_EmptySet DEF p
<1>3. CASE Head(q) # "done"
  <2>1. HasDone(p) <=> HasDone(q)
    <3>1. HasDone(p) => HasDone(q)
      <4> SUFFICES ASSUME NEW i \in 1 .. n - 1, p[i] = "done" PROVE HasDone(q)
        BY <1>1 DEF HasDone
      <4>1. i + 1 \in DOMAIN q /\ q[i + 1] = "done"
        BY <1>1
      <4> QED BY <4>1 DEF HasDone
    <3>2. HasDone(q) => HasDone(p)
      <4> SUFFICES ASSUME NEW i \in 1 .. n, q[i] = "done" PROVE HasDone(p)
        BY <1>1 DEF HasDone
      <4>1. i # 1
        BY <1>1, <1>3
      <4>2. i - 1 \in 1 .. n - 1 /\ p[i - 1] = q[(i - 1) + 1] /\ (i - 1) + 1 = i
        BY <1>1, <4>1
      <4> QED BY <1>1, <4>2 DEF HasDone
    <3> QED BY <3>1, <3>2
  <2> DEFINE rest == Owed(q) \ {1}
             f == [i \in Owed(p) |-> i + 1]
  <2>2. ASSUME NEW i \in 1 .. n - 1 PROVE i \in Owed(p) <=> i + 1 \in Owed(q)
    <3>1. i + 1 \in 1 .. n /\ p[i] = q[i + 1]
      BY <1>1
    <3>2. ASSUME \A j \in 1 .. n - 1 : j < i => p[j] # "done", NEW j \in 1 .. n, j < i + 1
          PROVE  q[j] # "done"
      <4>1. CASE j = 1
        BY <1>1, <1>3, <4>1
      <4>2. CASE j # 1
        <5>1. j - 1 \in 1 .. n - 1 /\ j - 1 < i /\ p[j - 1] = q[(j - 1) + 1] /\ (j - 1) + 1 = j
          BY <1>1, <3>2, <4>2
        <5> QED BY <3>2, <5>1
      <4> QED BY <4>1, <4>2
    <3>3. ASSUME \A j \in 1 .. n : j < i + 1 => q[j] # "done", NEW j \in 1 .. n - 1, j < i
          PROVE  p[j] # "done"
      <4>1. j + 1 \in 1 .. n /\ j + 1 < i + 1 /\ p[j] = q[j + 1]
        BY <1>1, <3>3
      <4> QED BY <3>3, <4>1
    <3> QED BY <1>1, <3>1, <3>2, <3>3 DEF Owed
  <2>3. f \in Bijection(Owed(p), rest)
    <3>1. Owed(p) \subseteq 1 .. n - 1 /\ Owed(q) \subseteq 1 .. n
      BY <1>1 DEF Owed
    <3>2. \A i \in Owed(p) : f[i] = i + 1
      OBVIOUS
    <3>3. f \in [Owed(p) -> rest]
      BY <1>1, <2>2, <3>1
    <3>4. \A a, b \in Owed(p) : f[a] = f[b] => a = b
      BY <3>1, <3>2
    <3>5. ASSUME NEW b \in rest PROVE \E a \in Owed(p) : f[a] = b
      <4>1. b \in 1 .. n /\ b # 1 /\ b \in Owed(q)
        BY <3>1
      <4>2. b - 1 \in 1 .. n - 1 /\ (b - 1) + 1 = b
        BY <1>1, <4>1
      <4>3. b - 1 \in Owed(p)
        BY <2>2, <4>1, <4>2
      <4> QED BY <3>2, <4>2, <4>3
    <3> HIDE DEF f, rest
    <3> QED BY <3>3, <3>4, <3>5 DEF Bijection, Injection, Surjection, IsInjective
  <2>4. IsFiniteSet(rest) /\ Cardinality(rest) = Cardinality(Owed(p))
    <3>1. ExistsBijection(Owed(p), rest)
      BY <2>3 DEF ExistsBijection
    <3> HIDE DEF rest
    <3> QED BY <1>1, <3>1, OwedFinite, FS_Bijection
  <2>5. 1 \in Owed(q) <=> Head(q) \in {"data", "finish"}
    BY <1>1 DEF Owed
  <2>6. 1 \notin rest
    OBVIOUS
  <2>7. Owed(q) = IF Head(q) \in {"data", "finish"} THEN rest \cup {1} ELSE rest
    BY <2>5
  <2> HIDE DEF rest
  <2>8. Cardinality(Owed(q)) = IF Head(q) \in {"data", "finish"}
                               THEN Cardinality(Owed(p)) + 1 ELSE Cardinality(Owed(p))
    BY <2>4, <2>6, <2>7, FS_AddElement
  <2> QED BY <1>1, <1>3, <2>1, <2>8 DEF p
<1> QED BY <1>2, <1>3

LEMMA ShownFinite ==
    ASSUME NEW o \in Seq(FrameSet), NEW t
    PROVE  IsFiniteSet(ShownOf(o, t)) /\ Cardinality(ShownOf(o, t)) \in Nat
<1>1. DOMAIN o = 1 .. Len(o) /\ Len(o) \in Nat
  OBVIOUS
<1>2. IsFiniteSet(1 .. Len(o))
  BY <1>1, FS_Interval
<1>3. ShownOf(o, t) \in SUBSET (1 .. Len(o))
  BY <1>1 DEF ShownOf
<1> QED BY <1>2, <1>3, FS_Subset, FS_CardinalityType

\* A frame of data is one more that is shown; no other frame is.
LEMMA ShownAppended ==
    ASSUME NEW o \in Seq(FrameSet), NEW t \in 1 .. 2, NEW k \in FrameKinds
    PROVE  LET p == Append(o, [kind |-> k, try |-> t]) IN
           /\ p \in Seq(FrameSet)
           /\ Cardinality(ShownOf(p, t)) =
                IF k = "data" THEN Cardinality(ShownOf(o, t)) + 1
                              ELSE Cardinality(ShownOf(o, t))
<1> DEFINE e == [kind |-> k, try |-> t]
           p == Append(o, e)
           n == Len(o)
<1>1. e \in FrameSet /\ e.kind = k /\ e.try = t
  BY DEF FrameSet
<1>2. /\ p \in Seq(FrameSet)
      /\ DOMAIN o = 1 .. n /\ n \in Nat /\ DOMAIN p = 1 .. n + 1
      /\ \A i \in 1 .. n : p[i] = o[i]
      /\ p[n + 1] = e
  BY <1>1, Appended
<1> HIDE DEF p, e, n
<1>3. n + 1 \notin ShownOf(o, t)
  BY <1>2 DEF ShownOf
<1>4. ShownOf(p, t) = IF k = "data" THEN ShownOf(o, t) \cup {n + 1} ELSE ShownOf(o, t)
  BY <1>1, <1>2 DEF ShownOf
<1>5. Cardinality(ShownOf(p, t)) =
        IF k = "data" THEN Cardinality(ShownOf(o, t)) + 1 ELSE Cardinality(ShownOf(o, t))
  BY <1>3, <1>4, ShownFinite, FS_AddElement
<1> QED BY <1>2, <1>5 DEF p, e

LEMMA ShownWith ==
    ASSUME NEW o \in Seq(FrameSet), try \in 1 .. 2, NEW k \in {"tail", "done"}, NEW there
    PROVE  LET p == With(o, k, there) IN
           /\ p \in Seq(FrameSet)
           /\ Cardinality(ShownOf(p, try)) = Cardinality(ShownOf(o, try))
<1>1. k \in FrameKinds /\ k # "data"
  BY DEF FrameKinds
<1>2. CASE there
  BY <1>1, <1>2, ShownAppended DEF With, Frame
<1>3. CASE ~there
  BY <1>3 DEF With
<1> QED BY <1>2, <1>3

LEMMA ShownFinished ==
    ASSUME out \in Seq(FrameSet), try \in 1 .. 2, NEW kept
    PROVE  Cardinality(ShownOf(Finished(kept), try)) = Cardinality(ShownOf(out, try)) + 1
<1> DEFINE o == Append(out, Frame("data"))
           p == With(o, "tail", kept)
<1>1. "data" \in FrameKinds /\ "terminal" \in FrameKinds /\ "terminal" # "data"
  BY DEF FrameKinds
<1>2. /\ o \in Seq(FrameSet)
      /\ Cardinality(ShownOf(o, try)) = Cardinality(ShownOf(out, try)) + 1
  BY <1>1, ShownAppended DEF Frame
<1> HIDE DEF o
<1>3. p \in Seq(FrameSet) /\ Cardinality(ShownOf(p, try)) = Cardinality(ShownOf(o, try))
  BY <1>2, ShownWith
<1>4. Finished(kept) = Append(p, Frame("terminal"))
  BY DEF Finished, o
<1> HIDE DEF p
<1> QED BY <1>1, <1>2, <1>3, <1>4, ShownAppended DEF Frame

LEMMA InitBalance == Init => Balance
<1> SUFFICES ASSUME Init PROVE Balance
  OBVIOUS
<1>1. pc = "scan" /\ out = <<>> /\ buf = <<>> /\ wire = <<>> /\ err = "none"
      /\ offered.data = 0 /\ ~offered.closed
  BY DEF Init
<1>2. Shown = 0
  <2>1. {i \in DOMAIN out : out[i].kind = "data" /\ out[i].try = try} = {}
    BY <1>1
  <2> QED BY <2>1, FS_EmptySet DEF Shown
<1>3. ToShow(buf, wire) = 0 /\ ~HasDone(buf) /\ ~HasDone(wire)
  BY <1>1, OwedEmpty DEF ToShow
<1> QED BY <1>1, <1>2, <1>3 DEF Balance, Reading, Over

LEMMA BalanceStep == IInv /\ Balance /\ [Next]_vars => Balance'
<1> SUFFICES ASSUME IInv, Balance, [Next]_vars PROVE Balance'
  OBVIOUS
<1> DEFINE Count(o, t) == Cardinality(ShownOf(o, t))
<1>0. /\ out \in Seq(FrameSet) /\ try \in 1 .. 2 /\ buf \in Seq(Kinds) /\ wire \in Seq(Kinds)
      /\ offered.data \in Nat /\ offered.closed \in BOOLEAN
      /\ offered \in [data : 0 .. MaxLines, closed : BOOLEAN]
      /\ ~Over => ~Has("done") /\ ~Has("error")
      /\ pc = "replay" => OnlyComments(out)
      /\ Count(out, try) \in Nat
      /\ Cardinality(Owed(buf)) \in Nat /\ Cardinality(Owed(wire)) \in Nat
  <2>1. FramesOK /\ TypeOK /\ Bookkeeping
    BY DEF IInv
  <2>2. out \in Seq(FrameSet) /\ try \in 1 .. 2 /\ buf \in Seq(Kinds) /\ wire \in Seq(Kinds)
        /\ offered \in [data : 0 .. MaxLines, closed : BOOLEAN]
    BY <2>1 DEF FramesOK, TypeOK
  <2>3. /\ ~Over => ~Has("done") /\ ~Has("error")
        /\ pc = "replay" => OnlyComments(out)
    BY <2>1 DEF FramesOK, NotEnded, Has, Bookkeeping
  <2> QED BY <2>2, <2>3, OwedFinite, ShownFinite, BoundsAssumption
<1>s. Shown = Count(out, try) /\ Shown' = Count(out', try')
  BY DEF Shown, ShownOf
<1> HIDE DEF Count
\* Nothing that counts moves, but perhaps the place.
<1>1. ASSUME UNCHANGED <<out, try, finish, held, offered, buf, wire, err>>,
             pc' = pc \/ (Reading /\ Reading') \/ (pc' = "replay" /\ pc # "replay")
                      \/ (Over /\ Over')
      PROVE  Balance'
  <2>1. Shown' = Shown /\ (\A k : Has(k)' <=> Has(k))
    BY <1>1, <1>s DEF Has
  <2>2. pc' = "replay" => ~Reading' /\ ~Over'
    BY DEF Reading, Over
  <2> QED BY <1>1, <2>1, <2>2 DEF Balance, Whole, Reading, Over
\* A line leaves the buffer for a frame, or for none.
<1>2. ASSUME NEW k \in {"comment", "meta", "data", "finish"}, Line(k), pc' = pc, err' = err,
             UNCHANGED <<try, offered, wire>>,
             Count(out', try) = IF k \in {"data", "finish"} THEN Count(out, try) + 1
                                                            ELSE Count(out, try)
      PROVE  Balance'
  <2>1. Reading /\ Reading' /\ ~Over' /\ pc' = "scan"
    BY <1>2 DEF Line, Reading, Over
  <2>2. /\ HasDone(buf') <=> HasDone(buf)
        /\ buf' \in Seq(Kinds)
        /\ Cardinality(Owed(buf)) = IF k \in {"data", "finish"}
                                    THEN Cardinality(Owed(buf')) + 1
                                    ELSE Cardinality(Owed(buf'))
    BY <1>0, <1>2, OwedTaken DEF Line
  <2>3. Cardinality(Owed(buf')) \in Nat
    BY <2>2, OwedFinite
  <2>4. Shown' + ToShow(buf', wire') = Shown + ToShow(buf, wire)
    <3>1. Shown' = IF k \in {"data", "finish"} THEN Shown + 1 ELSE Shown
      BY <1>2, <1>s
    <3>2. ToShow(buf, wire) = IF k \in {"data", "finish"} THEN ToShow(buf', wire) + 1
                                                         ELSE ToShow(buf', wire)
      BY <1>0, <2>2, <2>3 DEF ToShow
    <3>3. Shown \in Nat /\ ToShow(buf', wire) \in Nat
      BY <1>0, <1>s, <2>3 DEF ToShow
    <3> QED BY <1>2, <3>1, <3>2, <3>3
  <2> QED BY <1>2, <2>1, <2>2, <2>4 DEF Balance
\* The error is said.
<1>3. ASSUME ~Over, out' = Append(out, Frame("error")), Over' PROVE Balance'
  <2>1. "error" \in FrameKinds
    BY DEF FrameKinds
  <2>2. Frame("error") \in FrameSet /\ Frame("error").kind = "error"
    BY <1>0, <2>1 DEF Frame, FrameSet
  <2>3. /\ DOMAIN out' = 1 .. Len(out) + 1 /\ Len(out) \in Nat /\ DOMAIN out = 1 .. Len(out)
        /\ \A i \in 1 .. Len(out) : out'[i] = out[i]
        /\ out'[Len(out) + 1] = Frame("error")
    BY <1>0, <1>3, <2>2, Appended
  <2>4. Has("error")'
    BY <2>2, <2>3 DEF Has
  <2>5. ~Has("done")'
    <3> SUFFICES ASSUME NEW i \in DOMAIN out' PROVE out'[i].kind # "done"
      BY DEF Has
    <3>1. CASE i \in DOMAIN out
      BY <1>0, <1>3, <2>3, <3>1 DEF Has
    <3>2. CASE i = Len(out) + 1
      BY <2>2, <2>3, <3>2
    <3> QED BY <2>3, <3>1, <3>2
  <2>6. ~Reading' /\ pc' # "scanned"
    BY <1>3 DEF Over, Reading
  <2> QED BY <2>4, <2>5, <2>6 DEF Balance
<1>4. ASSUME NEW k \in Kinds, UpstreamSends(k) PROVE Balance'
  <2>1. /\ Reading /\ wire' = Append(wire, k)
        /\ UNCHANGED <<pc, out, try, buf, err>>
    BY <1>4 DEF UpstreamSends, Reading, scanVars
  <2>2. /\ HasDone(wire') <=> HasDone(wire) \/ k = "done"
        /\ Cardinality(Owed(wire')) = IF ~HasDone(wire) /\ k \in {"data", "finish"}
                                      THEN Cardinality(Owed(wire)) + 1
                                      ELSE Cardinality(Owed(wire))
    BY <1>0, <2>1, OwedAppended
  <2>3. /\ offered.closed <=> HasDone(buf) \/ HasDone(wire)
        /\ Shown + ToShow(buf, wire) = offered.data /\ err = "none"
    BY <2>1 DEF Balance
  <2>4. /\ offered'.closed <=> offered.closed \/ k = "done"
        /\ offered'.data = IF ~offered.closed /\ k \in {"data", "finish"}
                           THEN offered.data + 1 ELSE offered.data
    <3>1. CASE offered.closed
      BY <1>0, <1>4, <3>1 DEF UpstreamSends
    <3>2. CASE ~offered.closed
      <4>1. offered' = [data |-> offered.data + IF k \in {"data", "finish"} THEN 1 ELSE 0,
                        closed |-> k = "done"]
        BY <1>4, <3>2 DEF UpstreamSends
      <4>2. offered'.closed <=> k = "done"
        BY <4>1, Zenon
      <4>3. offered'.data = offered.data + IF k \in {"data", "finish"} THEN 1 ELSE 0
        BY <4>1
      <4> QED BY <1>0, <3>2, <4>2, <4>3
    <3> QED BY <3>1, <3>2
  <2>5. Shown' + ToShow(buf', wire') = offered'.data
    BY <1>0, <1>s, <2>1, <2>2, <2>3, <2>4 DEF ToShow
  <2>6. offered'.closed <=> HasDone(buf') \/ HasDone(wire')
    BY <2>1, <2>2, <2>3, <2>4
  <2>7. ~Over' /\ pc' # "scanned"
    BY <2>1 DEF Reading, Over
  <2> QED BY <2>1, <2>3, <2>5, <2>6, <2>7 DEF Balance, Reading
<1>5. CASE UpstreamStops
  BY <1>1, <1>5 DEF UpstreamStops, scanVars
<1>6. CASE ClientTurns
  BY <1>1, <1>6 DEF ClientTurns, scanVars, respVars
<1>7. CASE Tick
  BY <1>1, <1>7 DEF Tick, scanVars
<1>8. CASE check
  BY <1>1, <1>8 DEF check, scanVars, respVars
<1>9. CASE writeHeartbeat
  <2>1. "heartbeat" \in FrameKinds
    BY DEF FrameKinds
  <2>2. Count(out', try') = Count(out, try) /\ ~Over
    <3>1. ~Over
      BY <1>9 DEF writeHeartbeat, IInv, Bookkeeping
    <3> QED BY <1>0, <1>9, <2>1, <3>1, ShownAppended DEF writeHeartbeat, Frame, Count
  <2> QED BY <1>9, <1>s, <2>2 DEF writeHeartbeat, Balance, Over, Reading, scanVars, respVars
<1>10. CASE Read
  <2>1. /\ Reading /\ Reading' /\ ~Over' /\ pc' # "scanned"
        /\ buf = <<>> /\ buf' = wire /\ wire' = <<>>
        /\ UNCHANGED <<out, try, offered, err>>
    BY <1>10 DEF Read, Reading, Over
  <2>2. ToShow(buf', wire') = ToShow(buf, wire)
        /\ (HasDone(buf') \/ HasDone(wire') <=> HasDone(buf) \/ HasDone(wire))
    BY <1>0, <2>1, OwedEmpty DEF ToShow
  <2> QED BY <1>s, <2>1, <2>2 DEF Balance
<1>11. CASE Stamp
  BY <1>1, <1>11 DEF Stamp, scanVars, respVars, Reading
<1>12. CASE writeUpstreamComment
  <2>1. "comment" \in FrameKinds /\ Line("comment") /\ out' = Append(out, Frame("comment"))
        /\ UNCHANGED <<pc, err, try, offered, wire>>
    BY <1>12 DEF writeUpstreamComment, FrameKinds, respVars
  <2>2. Count(out', try) = Count(out, try)
    BY <1>0, <2>1, ShownAppended DEF Frame, Count
  <2> QED BY <1>2, <2>1, <2>2
<1>13. CASE SkipMetadata
  <2>1. Line("meta") /\ UNCHANGED <<out, pc, err, try, offered, wire>>
    BY <1>13 DEF SkipMetadata, respVars
  <2> QED BY <1>2, <2>1
<1>14. CASE writeData
  <2>1. "data" \in FrameKinds /\ Line("data") /\ out' = Append(out, Frame("data"))
        /\ UNCHANGED <<pc, err, try, offered, wire>>
    BY <1>14 DEF writeData, FrameKinds, respVars
  <2>2. Count(out', try) = Count(out, try) + 1
    BY <1>0, <2>1, ShownAppended DEF Frame, Count
  <2> QED BY <1>2, <2>1, <2>2
<1>15. CASE writeFinish
  <2>1. /\ "data" \in FrameKinds /\ Line("finish")
        /\ UNCHANGED <<pc, err, try, offered, wire>>
        /\ \/ out' = Append(out, Frame("data"))
           \/ \E kept \in BOOLEAN : out' = Finished(kept)
    BY <1>15 DEF writeFinish, FrameKinds, respVars
  <2>2. Count(Append(out, Frame("data")), try) = Count(out, try) + 1
    BY <1>0, <2>1, ShownAppended DEF Frame, Count
  <2>3. ASSUME NEW kept \in BOOLEAN
        PROVE  Count(Finished(kept), try) = Count(out, try) + 1
    BY <1>0, ShownFinished DEF Count
  <2>4. Count(out', try) = Count(out, try) + 1
    BY <2>1, <2>2, <2>3
  <2> QED BY <1>2, <2>1, <2>4
<1>16. CASE NoteDone
  <2>1. /\ Reading /\ ~Reading' /\ ~Over' /\ Line("done")
        /\ UNCHANGED <<out, try, offered, wire, err>>
    BY <1>16 DEF NoteDone, Line, Reading, Over, respVars
  <2>2. ToShow(buf, wire) = 0
    BY <1>0, <2>1, OwedTaken DEF Line, ToShow
  <2> QED BY <1>0, <1>s, <2>1, <2>2 DEF Balance
<1>17. CASE ScanEnds
  <2>1. /\ Reading /\ ~Reading' /\ ~Over'
        /\ UNCHANGED <<out, try, offered>> /\ (err' = "none" => buf = <<>> /\ wire = <<>>)
    BY <1>17 DEF ScanEnds, Reading, Over, respVars
  <2>2. err' = "none" => ToShow(buf, wire) = 0
    BY <2>1, OwedEmpty DEF ToShow
  <2> QED BY <1>0, <1>s, <2>1, <2>2 DEF Balance
<1>18. CASE Replay
  BY <1>1, <1>18 DEF Replay, scanVars, respVars
<1>19. CASE Replayed
  <2>1. /\ pc = "replay" /\ Reading' /\ ~Over' /\ pc' # "scanned" /\ out' = out
        /\ buf' = <<>> /\ wire' = <<>> /\ err' = "none"
        /\ offered'.data = 0 /\ ~offered'.closed
    BY <1>19 DEF Replayed, NewResponse, Reading, Over
  <2>2. ShownOf(out', try') = {}
    BY <1>0, <2>1 DEF ShownOf, OnlyComments
  <2>3. Shown' = 0
    BY <1>s, <2>2, FS_EmptySet DEF Count
  <2>4. ToShow(buf', wire') = 0 /\ ~HasDone(buf') /\ ~HasDone(wire')
    BY <2>1, OwedEmpty DEF ToShow
  <2> QED BY <2>1, <2>3, <2>4 DEF Balance
<1>20. CASE ReplayFails
  BY <1>3, <1>20 DEF ReplayFails, Over
<1>21. CASE WriteError
  BY <1>3, <1>21 DEF WriteError, Over
<1>22. CASE Complete
  <2> DEFINE p == With(out, "tail", held)
  <2>1. /\ Shown = offered.data /\ finish' /\ ~held' /\ ~Reading' /\ pc' # "scanned"
        /\ UNCHANGED <<try, offered>> /\ out' = With(p, "done", sawDone)
    BY <1>22 DEF Complete, Balance, Reading, respVars
  <2>2. p \in Seq(FrameSet) /\ Count(p, try) = Count(out, try)
    BY <1>0, ShownWith DEF Count
  <2> HIDE DEF p
  <2>3. Count(out', try) = Count(out, try)
    BY <1>0, <2>1, <2>2, ShownWith DEF Count
  <2> QED BY <1>s, <2>1, <2>3 DEF Balance, Whole
<1>23. CASE StopHeartbeat
  BY <1>1, <1>23 DEF StopHeartbeat, scanVars, respVars, Over
<1>24. CASE CloseBody
  BY <1>1, <1>24 DEF CloseBody, scanVars, respVars, Over
<1>25. CASE UNCHANGED vars
  BY <1>1, <1>25 DEF vars, scanVars, respVars
<1> QED
  BY <1>4, <1>5, <1>6, <1>7, <1>8, <1>9, <1>10, <1>11, <1>12, <1>13, <1>14, <1>15, <1>16,
     <1>17, <1>18, <1>19, <1>20, <1>21, <1>22, <1>23, <1>24, <1>25
     DEF Next, Handler, Forward, Returned

LEMMA Balanced == Spec => [](IInv /\ Balance)
<1>1. Init => IInv /\ Balance
  BY InitIInv, InitBalance
<1>2. (IInv /\ Balance) /\ [Next]_vars => (IInv /\ Balance)'
  BY FramesStep, TypeStep, BookkeepingStep, BalanceStep DEF IInv
<1> QED BY <1>1, <1>2, PTL DEF Spec

-----------------------------------------------------------------------------
(* The theorems. *)

\* The handler's state keeps its types, and there is never a second replay.
THEOREM TypeCorrect == Spec => []TypeOK
BY Invariance, PTL DEF IInv

\* Whatever breaks and is replayed, the client sees data of one response.
THEOREM OneAnswerShown == Spec => []OneAnswer
<1>1. IInv => OneAnswer
  <2> SUFFICES ASSUME IInv, NEW i \in DOMAIN out, NEW j \in DOMAIN out,
                      {out[i].kind, out[j].kind} \subseteq {"data", "tail", "terminal", "done"}
               PROVE  out[i].try = out[j].try
    BY DEF OneAnswer
  <2>1. OfAttempt(out, try)
    BY DEF IInv, FramesOK
  <2>2. QED
    BY <2>1 DEF OfAttempt
<1>2. QED
  BY Invariance, <1>1, PTL

\* Nothing follows the end, and no heartbeat follows data.
THEOREM OrderKept == Spec => []FramesInOrder
<1>1. IInv => FramesInOrder
  BY DEF IInv, FramesInOrder, FramesOK, Ordered
<1>2. QED
  BY Invariance, <1>1, PTL

\* One body, and its slot, at a time, and none after the handler.
THEOREM BodiesClosed == Spec => []OneBodyAtATime
<1>1. IInv => OneBodyAtATime
  <2> SUFFICES ASSUME IInv PROVE OneBodyAtATime
    OBVIOUS
  <2>1. bodies \subseteq {try} /\ (pc = "returned" => bodies = {})
    BY DEF IInv, Bookkeeping
  <2>2. IsFiniteSet({try}) /\ Cardinality({try}) = 1
    BY FS_Singleton
  <2>3. Cardinality(bodies) <= 1
    BY <2>1, <2>2, FS_Subset
  <2>4. QED
    BY <2>1, <2>3 DEF OneBodyAtATime
<1>2. QED
  BY Invariance, <1>1, PTL

\* What ends without an error, or with [DONE], is the whole of what the upstream sent.
THEOREM EndsTruthfully == Spec => []TruthfulEnd
<1>1. Balance => TruthfulEnd
  BY DEF Balance, Over, Whole, TruthfulEnd
<1> QED BY <1>1, Balanced, PTL

-----------------------------------------------------------------------------
(* The restoring of names a text passes through: texts.                     *)

\* A text is a sequence of letters.
Texts == Seq(STRING)

\* A set of natural numbers that is not empty has a least one.
LEMMA LeastOf ==
    ASSUME NEW S, S \subseteq Nat, S # {}
    PROVE  \E x \in S : \A y \in S : x <= y
<1>1. PICK x \in S : \A y \in S : <<y, x>> \notin OpToRel(<, Nat)
  BY NatLessThanWellFounded, WFMin
<1>2. \A y \in S : ~(y < x)
  BY <1>1 DEF OpToRel
<1> QED BY <1>2

-----------------------------------------------------------------------------
(* Slices *)

\* A slice holds the letters between its offsets.
LEMMA SliceIs ==
    ASSUME NEW t \in Texts, NEW i \in Nat, NEW j \in i .. Len(t)
    PROVE  /\ Slice(t, i, j) \in Texts
           /\ Len(Slice(t, i, j)) = j - i
           /\ \A n \in 1 .. j - i : Slice(t, i, j)[n] = t[i + n]
<1>1. Len(t) \in Nat /\ DOMAIN t = 1 .. Len(t)
  BY LenProperties DEF Texts
<1>2. \A n \in i + 1 .. j : t[n] \in STRING
  <2> TAKE n \in i + 1 .. j
  <2>1. n \in 1 .. Len(t)
    BY <1>1
  <2> QED BY <2>1, ElementOfSeq DEF Texts
<1>3. /\ SubSeq(t, i + 1, j) \in Seq(STRING)
      /\ Len(SubSeq(t, i + 1, j)) = IF i + 1 <= j THEN j - (i + 1) + 1 ELSE 0
      /\ \A n \in 1 .. j - (i + 1) + 1 : SubSeq(t, i + 1, j)[n] = t[(i + 1) + n - 1]
  BY <1>1, <1>2, SubSeqProperties
<1>4. j - (i + 1) + 1 = j - i /\ \A n \in 1 .. j - i : (i + 1) + n - 1 = i + n
  BY <1>1
<1> QED BY <1>1, <1>3, <1>4 DEF Slice, Texts

\* Two texts after one another.
LEMMA Joined ==
    ASSUME NEW s \in Texts, NEW t \in Texts
    PROVE  /\ s \o t \in Texts
           /\ Len(s \o t) = Len(s) + Len(t)
           /\ \A n \in 1 .. Len(s) + Len(t) :
                (s \o t)[n] = IF n <= Len(s) THEN s[n] ELSE t[n - Len(s)]
BY ConcatProperties DEF Texts

\* Texts of one length with the same letters are one text.
LEMMA SameText ==
    ASSUME NEW s \in Texts, NEW t \in Texts, Len(s) = Len(t),
           \A n \in 1 .. Len(s) : s[n] = t[n]
    PROVE  s = t
BY SeqEqual DEF Texts

\* A text has a length, and letters up to it.
LEMMA TextIs ==
    ASSUME NEW t \in Texts
    PROVE  Len(t) \in Nat /\ \A n \in 1 .. Len(t) : t[n] \in STRING
BY LenProperties, ElementOfSeq DEF Texts

\* Two slices that adjoin make one.
LEMMA SliceJoin ==
    ASSUME NEW t \in Texts, NEW i \in Nat, NEW j \in Nat, NEW k \in Nat,
           i <= j, j <= k, k <= Len(t)
    PROVE  Slice(t, i, j) \o Slice(t, j, k) = Slice(t, i, k)
<1>1. Len(t) \in Nat
  BY TextIs
<1>2. j \in i .. Len(t) /\ k \in j .. Len(t) /\ k \in i .. Len(t)
  BY <1>1
<1> DEFINE a == Slice(t, i, j)
           b == Slice(t, j, k)
           c == Slice(t, i, k)
<1>3. /\ a \in Texts /\ Len(a) = j - i /\ \A n \in 1 .. j - i : a[n] = t[i + n]
      /\ b \in Texts /\ Len(b) = k - j /\ \A n \in 1 .. k - j : b[n] = t[j + n]
      /\ c \in Texts /\ Len(c) = k - i /\ \A n \in 1 .. k - i : c[n] = t[i + n]
  BY <1>2, SliceIs
<1> HIDE DEF a, b, c
<1>4. a \in Texts /\ b \in Texts /\ Len(a) = j - i /\ Len(b) = k - j
  BY <1>3
<1>7. /\ a \o b \in Texts
      /\ Len(a \o b) = k - i
      /\ \A n \in 1 .. k - i : (a \o b)[n] = IF n <= j - i THEN a[n] ELSE b[n - (j - i)]
  <2>1. /\ a \o b \in Texts
        /\ Len(a \o b) = Len(a) + Len(b)
        /\ \A n \in 1 .. Len(a) + Len(b) :
             (a \o b)[n] = IF n <= Len(a) THEN a[n] ELSE b[n - Len(a)]
    BY <1>4, Joined
  <2>2. (j - i) + (k - j) = k - i
    BY <1>1
  <2> QED BY <1>4, <2>1, <2>2
<1>5. ASSUME NEW n \in 1 .. k - i PROVE (a \o b)[n] = c[n]
  <2>1. (a \o b)[n] = IF n <= j - i THEN a[n] ELSE b[n - (j - i)]
    BY <1>7
  <2>2. CASE n <= j - i
    BY <1>3, <2>1, <2>2
  <2>3. CASE ~(n <= j - i)
    <3>1. n - (j - i) \in 1 .. k - j /\ j + (n - (j - i)) = i + n
      BY <2>3
    <3>2. b[n - (j - i)] = t[i + n]
      BY <1>3, <3>1
    <3>3. ~(n <= j - i) /\ c[n] = t[i + n]
      BY <1>3, <2>3
    <3> QED BY <2>1, <3>2, <3>3
  <2> QED BY <2>2, <2>3
<1>6. a \o b = c
  BY <1>3, <1>7, <1>5, SameText
<1> QED BY <1>6 DEF a, b, c

\* A slice of the first part of a text, and one of the rest of it.
LEMMA SliceOfFirst ==
    ASSUME NEW s \in Texts, NEW t \in Texts, NEW i \in Nat, NEW j \in i .. Len(s)
    PROVE  Slice(s \o t, i, j) = Slice(s, i, j)
<1>1. Len(s) \in Nat /\ Len(t) \in Nat
  BY TextIs
<1>2. s \o t \in Texts /\ Len(s \o t) = Len(s) + Len(t) /\ j \in i .. Len(s \o t)
  BY <1>1, Joined
<1> DEFINE a == Slice(s \o t, i, j)
           b == Slice(s, i, j)
<1>3. /\ a \in Texts /\ Len(a) = j - i /\ \A n \in 1 .. j - i : a[n] = (s \o t)[i + n]
      /\ b \in Texts /\ Len(b) = j - i /\ \A n \in 1 .. j - i : b[n] = s[i + n]
  BY <1>2, SliceIs
<1> HIDE DEF a, b
<1>4. ASSUME NEW n \in 1 .. j - i PROVE a[n] = b[n]
  <2>1. i + n \in 1 .. Len(s) + Len(t) /\ i + n <= Len(s)
    BY <1>1
  <2> QED BY <1>3, <2>1, Joined
<1>5. a = b
  BY <1>3, <1>4, SameText
<1> QED BY <1>5 DEF a, b

\* A slice of what begins at an offset is a slice of the text.
LEMMA SliceOfRest ==
    ASSUME NEW t \in Texts, NEW k \in 0 .. Len(t),
           NEW i \in Nat, NEW j \in i .. Len(t) - k
    PROVE  /\ Slice(t, k, Len(t)) \in Texts
           /\ Len(Slice(t, k, Len(t))) = Len(t) - k
           /\ Slice(Slice(t, k, Len(t)), i, j) = Slice(t, k + i, k + j)
<1>1. Len(t) \in Nat
  BY TextIs
<1> DEFINE w == Slice(t, k, Len(t))
<1>2. w \in Texts /\ Len(w) = Len(t) - k /\ \A n \in 1 .. Len(t) - k : w[n] = t[k + n]
  <2>1. k \in Nat /\ Len(t) \in k .. Len(t)
    BY <1>1
  <2> QED BY <2>1, SliceIs
<1> HIDE DEF w
<1> DEFINE a == Slice(w, i, j)
           b == Slice(t, k + i, k + j)
<1>3. /\ a \in Texts /\ Len(a) = j - i /\ \A n \in 1 .. j - i : a[n] = w[i + n]
      /\ b \in Texts /\ Len(b) = j - i /\ \A n \in 1 .. j - i : b[n] = t[k + i + n]
  <2>1. k + i \in Nat /\ k + j \in k + i .. Len(t) /\ j \in i .. Len(w)
    BY <1>1, <1>2
  <2>2. (k + j) - (k + i) = j - i
    BY <1>1
  <2>3. a \in Texts /\ Len(a) = j - i /\ \A n \in 1 .. j - i : a[n] = w[i + n]
    BY <1>2, <2>1, SliceIs
  <2>4. b \in Texts /\ Len(b) = j - i /\ \A n \in 1 .. j - i : b[n] = t[(k + i) + n]
    BY <2>1, <2>2, SliceIs
  <2> QED BY <2>3, <2>4
<1> HIDE DEF a, b
<1>4. ASSUME NEW n \in 1 .. j - i PROVE a[n] = b[n]
  <2>1. i + n \in 1 .. Len(t) - k /\ k + (i + n) = k + i + n
    BY <1>1
  <2> QED BY <1>2, <1>3, <2>1
<1>5. a = b
  BY <1>3, <1>4, SameText
<1> QED BY <1>2, <1>5 DEF a, b, w

\* The slices that are all of a text and nothing of it.
LEMMA SliceAll ==
    ASSUME NEW t \in Texts
    PROVE  Slice(t, 0, Len(t)) = t /\ Slice(t, 0, 0) = <<>>
<1>1. Slice(t, 0, Len(t)) = t
  BY SubSeqFull DEF Slice, Texts
<1>2. Slice(t, 0, 0) = <<>>
  BY SubSeqEmpty DEF Slice
<1> QED BY <1>1, <1>2

-----------------------------------------------------------------------------
(* Where in an address a text ends *)

Advancing(f, k, c, text) ==
  f = [n \in 0 .. k |-> IF n = 0 THEN c ELSE AdvanceLetter(f[n - 1], text[n])]

\* There is such a function for every text.
LEMMA AdvancingExists ==
    ASSUME NEW c, NEW text, NEW k \in Nat
    PROVE  \E f : Advancing(f, k, c, text)
<1> DEFINE S == {m \in Nat : ~ \E f : Advancing(f, m, c, text)}
<1> SUFFICES ASSUME S # {} PROVE FALSE
  OBVIOUS
<1>1. PICK m \in S : \A y \in S : m <= y
  BY LeastOf
<1>2. CASE m = 0
  <2> DEFINE f == [n \in 0 .. 0 |-> c]
  <2>1. f = [n \in 0 .. 0 |-> IF n = 0 THEN c ELSE AdvanceLetter(f[n - 1], text[n])]
    OBVIOUS
  <2> QED BY <1>1, <1>2, <2>1 DEF Advancing
<1>3. CASE m # 0
  <2>1. m - 1 \in Nat /\ m - 1 \notin S
    BY <1>1, <1>3
  <2>2. PICK f : Advancing(f, m - 1, c, text)
    BY <2>1
  <2> DEFINE g == [n \in 0 .. m |->
                     IF n = m THEN AdvanceLetter(f[m - 1], text[m]) ELSE f[n]]
  <2>3. \A n \in 0 .. m - 1 :
          /\ g[n] = f[n]
          /\ f[n] = IF n = 0 THEN c ELSE AdvanceLetter(f[n - 1], text[n])
    BY <2>1, <2>2 DEF Advancing
  <2>4. \A n \in 0 .. m : g[n] = IF n = 0 THEN c ELSE AdvanceLetter(g[n - 1], text[n])
    <3> SUFFICES ASSUME NEW n \in 0 .. m
                 PROVE  g[n] = IF n = 0 THEN c ELSE AdvanceLetter(g[n - 1], text[n])
      OBVIOUS
    <3>1. CASE n = m
      <4>1. g[n] = AdvanceLetter(f[m - 1], text[m]) /\ m - 1 \in 0 .. m - 1
        BY <2>1, <3>1
      <4> HIDE DEF g
      <4> QED BY <1>3, <2>3, <3>1, <4>1
    <3>2. CASE n # m
      <4>1. n \in 0 .. m - 1 /\ (n # 0 => n - 1 \in 0 .. m - 1)
        BY <3>2
      <4> HIDE DEF g
      <4> QED BY <2>3, <4>1
    <3> QED BY <3>1, <3>2
  <2>5. g = [n \in 0 .. m |-> IF n = 0 THEN c ELSE AdvanceLetter(g[n - 1], text[n])]
    BY <2>4
  <2> QED BY <1>1, <2>5 DEF Advancing
<1> QED BY <1>2, <1>3

\* The advance over a text is its value at the end of the text.
LEMMA AdvanceRuns ==
    ASSUME NEW c, NEW text \in Texts
    PROVE  \E f : Advancing(f, Len(text), c, text) /\ advance(c, text) = f[Len(text)]
<1> DEFINE after == CHOOSE after : after =
             [n \in 0 .. Len(text) |->
                IF n = 0 THEN c ELSE AdvanceLetter(after[n - 1], text[n])]
<1>1. advance(c, text) = after[Len(text)]
  BY DEF advance
<1>2. PICK f : Advancing(f, Len(text), c, text)
  BY AdvancingExists, TextIs
<1>3. f = [n \in 0 .. Len(text) |->
                IF n = 0 THEN c ELSE AdvanceLetter(f[n - 1], text[n])]
  BY <1>2 DEF Advancing
<1>4. after = [n \in 0 .. Len(text) |->
                 IF n = 0 THEN c ELSE AdvanceLetter(after[n - 1], text[n])]
  BY <1>3
<1> HIDE DEF after
<1>5. Advancing(after, Len(text), c, text)
  BY <1>4 DEF Advancing
<1> QED BY <1>1, <1>5

\* An advance over two texts is one over the second from where the first ends.
LEMMA AdvanceJoined ==
    ASSUME NEW c, NEW s \in Texts, NEW t \in Texts
    PROVE  advance(c, s \o t) = advance(advance(c, s), t)
<1>1. Len(s) \in Nat /\ Len(t) \in Nat
  BY TextIs
<1> DEFINE z == s \o t
<1>2. /\ z \in Texts /\ Len(z) = Len(s) + Len(t)
      /\ \A n \in 1 .. Len(s) + Len(t) : z[n] = IF n <= Len(s) THEN s[n] ELSE t[n - Len(s)]
  BY Joined
<1> HIDE DEF z
<1>3. PICK h : Advancing(h, Len(z), c, z) /\ advance(c, z) = h[Len(z)]
  BY <1>2, AdvanceRuns
<1>4. PICK f : Advancing(f, Len(s), c, s) /\ advance(c, s) = f[Len(s)]
  BY AdvanceRuns
<1>5. PICK g : Advancing(g, Len(t), advance(c, s), t) /\ advance(advance(c, s), t) = g[Len(t)]
  BY AdvanceRuns
<1>6. \A n \in 0 .. Len(s) : h[n] = f[n]
  <2> DEFINE S == {n \in 0 .. Len(s) : h[n] # f[n]}
  <2> SUFFICES ASSUME S # {} PROVE FALSE
    OBVIOUS
  <2>1. S \subseteq Nat
    BY <1>1
  <2>2. PICK m \in S : \A y \in S : m <= y
    BY <2>1, LeastOf
  <2>3. m \in 0 .. Len(s) /\ m \in 0 .. Len(z) /\ h[m] # f[m]
    BY <1>1, <1>2, <2>2
  <2>4. /\ h[m] = IF m = 0 THEN c ELSE AdvanceLetter(h[m - 1], z[m])
        /\ f[m] = IF m = 0 THEN c ELSE AdvanceLetter(f[m - 1], s[m])
    BY <1>3, <1>4, <2>3 DEF Advancing
  <2>5. m # 0
    BY <2>3, <2>4
  <2>6. m - 1 \in 0 .. Len(s) /\ m - 1 \notin S /\ m \in 1 .. Len(s) + Len(t) /\ m <= Len(s)
    BY <1>1, <2>2, <2>3, <2>5
  <2>7. h[m - 1] = f[m - 1] /\ z[m] = s[m]
    BY <1>2, <2>6
  <2> QED BY <2>3, <2>4, <2>5, <2>7
<1>7. \A n \in 0 .. Len(t) : h[Len(s) + n] = g[n]
  <2> DEFINE S == {n \in 0 .. Len(t) : h[Len(s) + n] # g[n]}
  <2> SUFFICES ASSUME S # {} PROVE FALSE
    OBVIOUS
  <2>1. S \subseteq Nat
    BY <1>1
  <2>2. PICK m \in S : \A y \in S : m <= y
    BY <2>1, LeastOf
  <2>3. m \in 0 .. Len(t) /\ Len(s) + m \in 0 .. Len(z) /\ h[Len(s) + m] # g[m]
    BY <1>1, <1>2, <2>2
  <2>4. g[m] = IF m = 0 THEN advance(c, s) ELSE AdvanceLetter(g[m - 1], t[m])
    BY <1>5, <2>3 DEF Advancing
  <2>5. m # 0
    <3> SUFFICES ASSUME m = 0 PROVE FALSE
      OBVIOUS
    <3>1. h[Len(s)] = f[Len(s)] /\ Len(s) + m = Len(s)
      BY <1>1, <1>6
    <3> QED BY <1>4, <2>3, <2>4, <3>1
  <2>6. h[Len(s) + m] = AdvanceLetter(h[Len(s) + m - 1], z[Len(s) + m])
    <3>1. Len(s) + m # 0
      BY <1>1, <2>3, <2>5
    <3> QED BY <1>3, <2>3, <3>1 DEF Advancing
  <2>7. /\ m - 1 \in 0 .. Len(t) /\ m - 1 \notin S
        /\ Len(s) + m \in 1 .. Len(s) + Len(t) /\ ~(Len(s) + m <= Len(s))
        /\ Len(s) + (m - 1) = Len(s) + m - 1 /\ Len(s) + m - Len(s) = m
    BY <1>1, <2>2, <2>3, <2>5
  <2>8. h[Len(s) + m - 1] = g[m - 1] /\ z[Len(s) + m] = t[m]
    BY <1>2, <2>7
  <2> QED BY <2>3, <2>4, <2>5, <2>6, <2>8
<1>8. h[Len(z)] = g[Len(t)]
  BY <1>1, <1>2, <1>7
<1> QED BY <1>3, <1>5, <1>8 DEF z

\* What is known at an offset is known from a cut before it.
LEMMA AdvanceFromCut ==
    ASSUME NEW c, NEW z \in Texts, NEW k \in 0 .. Len(z), NEW q \in 0 .. Len(z) - k
    PROVE  advance(c, Slice(z, 0, k + q))
             = advance(advance(c, Slice(z, 0, k)), Slice(Slice(z, k, Len(z)), 0, q))
<1>1. Len(z) \in Nat
  BY TextIs
<1>2. Slice(Slice(z, k, Len(z)), 0, q) = Slice(z, k, k + q)
  <2>1. q \in 0 .. Len(z) - k /\ 0 \in Nat /\ k + 0 = k
    BY <1>1
  <2> QED BY <2>1, SliceOfRest
<1>3. Slice(z, 0, k + q) = Slice(z, 0, k) \o Slice(z, k, k + q)
  <2>1. k \in Nat /\ k + q \in Nat /\ k <= k + q /\ k + q <= Len(z) /\ 0 <= k /\ 0 \in Nat
    BY <1>1
  <2> QED BY <2>1, SliceJoin
<1>4. Slice(z, 0, k) \in Texts /\ Slice(z, k, k + q) \in Texts
  <2>1. k \in Nat /\ 0 \in Nat /\ k \in 0 .. Len(z) /\ k + q \in k .. Len(z)
    BY <1>1
  <2> QED BY <2>1, SliceIs
<1>5. advance(c, Slice(z, 0, k) \o Slice(z, k, k + q))
        = advance(advance(c, Slice(z, 0, k)), Slice(z, k, k + q))
  BY <1>4, AdvanceJoined
<1> QED BY <1>2, <1>3, <1>5

-----------------------------------------------------------------------------
(* How far a text is decided *)

\* Any two rules are one rule.
LEMMA RuleIs ==
    ASSUME NEW r \in Rules
    PROVE  /\ r.from \in Texts /\ r.to \in Texts
           /\ Len(r.from) \in Nat \ {0}
           /\ \A q \in Rules : q = r
<1>1. r.from \in Seq(STRING) /\ r.from # <<>> /\ r.to \in Seq(STRING)
  BY RulesAssumption
<1>2. \A q \in Rules : q = r
  BY RulesAssumption
<1>3. Len(r.from) \in Nat \ {0}
  BY <1>1, EmptySeq
<1> QED BY <1>1, <1>2, <1>3 DEF Texts

\* The greater of two numbers.
LEMMA MaxOfTwo ==
    ASSUME NEW a \in Int, NEW b \in Int
    PROVE  Max({a, b}) = IF a >= b THEN a ELSE b
<1> DEFINE m == IF a >= b THEN a ELSE b
           T == {a, b}
<1>1. m \in T /\ \A y \in T : m >= y
  OBVIOUS
<1>2. \A x \in T : (\A y \in T : x >= y) => x = m
  OBVIOUS
<1>3. Max(T) = CHOOSE x \in T : \A y \in T : x >= y
  BY DEF Max
<1> HIDE DEF m, T
<1>4. Max(T) = m
  BY <1>1, <1>2, <1>3
<1> QED BY <1>4 DEF m, T

\* The least of a set is in it, and below all of it.
LEMMA MinIs ==
    ASSUME NEW S, S \subseteq Nat, S # {}
    PROVE  Min(S) \in S /\ \A y \in S : Min(S) <= y
<1>1. PICK x \in S : \A y \in S : x <= y
  BY LeastOf
<1> QED BY <1>1 DEF Min

\* A text with a letter more.
LEMMA WithLetter ==
    ASSUME NEW S, NEW t \in Seq(S), NEW e \in S
    PROVE  /\ Append(t, e) \in Seq(S) /\ Len(Append(t, e)) = Len(t) + 1
           /\ \A n \in 1 .. Len(t) : Append(t, e)[n] = t[n]
           /\ Append(t, e)[Len(t) + 1] = e
BY AppendProperties

\* The length of the longest name.
Hold == Max({0} \cup {Len(r.from) : r \in Rules})

\* No name is longer.
LEMMA HoldIs == Hold \in Nat /\ \A r \in Rules : Len(r.from) <= Hold
<1>1. CASE Rules = {}
  <2>1. {0} \cup {Len(r.from) : r \in Rules} = {0, 0}
    BY <1>1
  <2>2. Max({0, 0}) = 0
    BY MaxOfTwo
  <2> QED BY <1>1, <2>1, <2>2 DEF Hold
<1>2. CASE Rules # {}
  <2>1. PICK q \in Rules : TRUE
    BY <1>2
  <2>2. Len(q.from) \in Nat /\ \A r \in Rules : r = q
    BY RuleIs
  <2>3. {0} \cup {Len(r.from) : r \in Rules} = {0, Len(q.from)}
    BY <2>1, <2>2
  <2>4. Max({0, Len(q.from)}) = IF 0 >= Len(q.from) THEN 0 ELSE Len(q.from)
    BY <2>2, MaxOfTwo
  <2>5. Max({0, Len(q.from)}) = Len(q.from)
    BY <2>2, <2>4
  <2>6. Hold = Len(q.from)
    BY <2>3, <2>5 DEF Hold
  <2>7. \A r \in Rules : Len(r.from) = Len(q.from)
    BY <2>2
  <2> QED BY <2>2, <2>6, <2>7
<1> QED BY <1>1, <1>2

\* The letter before an offset, and the offset of none.
Before(s) == IF s > 0 THEN s - 1 ELSE 0

\* What may begin at an undecided offset: every letter from there on is the
\* name's, or all but a point that ends the text.
LEMMA UndecidedIs ==
    ASSUME NEW x \in Texts, NEW s \in 0 .. Len(x) - 1
    PROVE  /\ \A r \in Rules :
                /\ Len(x) - s <= Len(r.from)
                /\ \A n \in 1 .. Len(x) - s : x[s + n] = r.from[n]
                => Undecided(x, s)
           /\ \A r \in Rules :
                /\ Len(x) - s = Len(r.from) + 1
                /\ \A n \in 1 .. Len(r.from) : x[s + n] = r.from[n]
                /\ x[Len(x)] = "."
                => Undecided(x, s)
           /\ Undecided(x, s) =>
                \E r \in Rules :
                  /\ Len(x) - s <= Len(r.from) + 1
                  /\ \A n \in 1 .. Len(x) - s :
                       n <= Len(r.from) => x[s + n] = r.from[n]
<1> DEFINE suffix == Slice(x, s, Len(x))
           m == Len(x) - s
<1>1. Len(x) \in Nat /\ s \in Nat /\ Len(x) \in s .. Len(x) /\ m \in Nat \ {0} /\ s + m = Len(x)
  BY TextIs
<1>2. suffix \in Texts /\ Len(suffix) = m /\ \A n \in 1 .. m : suffix[n] = x[s + n]
  BY <1>1, SliceIs
<1>3. Undecided(x, s) <=> \E r \in Rules : IsPrefix(suffix, r.from) \/ suffix = Append(r.from, ".")
  BY DEF Undecided
<1> HIDE DEF suffix, m
<1>4. ASSUME NEW r \in Rules
      PROVE  IsPrefix(suffix, r.from)
               <=> m <= Len(r.from) /\ \A n \in 1 .. m : x[s + n] = r.from[n]
  <2>1. r.from \in Texts /\ Len(r.from) \in Nat
    BY RuleIs
  <2>2. SubSeq(suffix, 1, m) = suffix
    BY <1>2, SubSeqFull DEF Texts
  <2>3. CASE m <= Len(r.from)
    <3> DEFINE p == Slice(r.from, 0, m)
    <3>1. p \in Texts /\ Len(p) = m /\ \A n \in 1 .. m : p[n] = r.from[n]
      <4>1. 0 \in Nat /\ m \in 0 .. Len(r.from) /\ m - 0 = m /\ \A n \in 1 .. m : 0 + n = n
        BY <1>1, <2>1, <2>3
      <4>2. p \in Texts /\ Len(p) = m - 0 /\ \A n \in 1 .. m - 0 : p[n] = r.from[0 + n]
        BY <2>1, <4>1, SliceIs
      <4> HIDE DEF p
      <4> QED BY <4>1, <4>2
    <3>2. IsPrefix(suffix, r.from) <=> suffix = p
      BY <1>2, <2>2, <2>3 DEF IsPrefix, Slice
    <3> HIDE DEF p
    <3>3. ASSUME \A n \in 1 .. m : x[s + n] = r.from[n]
          PROVE  suffix = p
      <4>1. \A n \in 1 .. Len(suffix) : suffix[n] = p[n]
        BY <1>2, <3>1, <3>3
      <4> QED BY <1>2, <3>1, <4>1, SameText
    <3>4. ASSUME suffix = p
          PROVE  \A n \in 1 .. m : x[s + n] = r.from[n]
      BY <1>2, <3>1, <3>4
    <3> QED BY <2>3, <3>2, <3>3, <3>4
  <2>4. CASE ~(m <= Len(r.from))
    BY <1>2, <2>4 DEF IsPrefix
  <2> QED BY <2>3, <2>4
<1>5. ASSUME NEW r \in Rules
      PROVE  suffix = Append(r.from, ".")
               <=> /\ m = Len(r.from) + 1
                   /\ \A n \in 1 .. Len(r.from) : x[s + n] = r.from[n]
                   /\ x[Len(x)] = "."
  <2> DEFINE l == Len(r.from)
             p == Append(r.from, ".")
             S == STRING \cup {"."}
  <2>1. r.from \in Texts /\ l \in Nat
    BY RuleIs
  <2>2. /\ p \in Seq(S) /\ suffix \in Seq(S)
        /\ Len(p) = l + 1 /\ (\A n \in 1 .. l : p[n] = r.from[n]) /\ p[l + 1] = "."
    <3>1. "." \in S /\ STRING \subseteq S
      OBVIOUS
    <3>2. r.from \in Seq(S) /\ suffix \in Seq(S)
      BY <1>2, <2>1, <3>1, SeqMonotonic DEF Texts
    <3> HIDE DEF S
    <3> QED BY <3>1, <3>2, WithLetter
  <2> HIDE DEF p, l, S
  <2>3. ASSUME m = l + 1, \A n \in 1 .. l : x[s + n] = r.from[n], x[Len(x)] = "."
        PROVE  suffix = p
    <3>1. ASSUME NEW n \in 1 .. m PROVE suffix[n] = p[n]
      <4>1. CASE n = l + 1
        <5>1. suffix[n] = x[Len(x)]
          BY <1>1, <1>2, <2>3, <4>1
        <5> QED BY <2>2, <2>3, <4>1, <5>1
      <4>2. CASE n # l + 1
        <5>1. n \in 1 .. l
          BY <2>1, <2>3, <4>2
        <5>2. suffix[n] = x[s + n] /\ x[s + n] = r.from[n] /\ p[n] = r.from[n]
          BY <1>2, <2>2, <2>3, <5>1
        <5> QED BY <5>2
      <4> QED BY <4>1, <4>2
    <3>2. Len(suffix) = Len(p) /\ \A n \in 1 .. Len(suffix) : suffix[n] = p[n]
      BY <1>2, <2>2, <2>3, <3>1
    <3> QED BY <2>2, <3>2, SeqEqual
  <2>4. ASSUME suffix = p
        PROVE  m = l + 1 /\ (\A n \in 1 .. l : x[s + n] = r.from[n]) /\ x[Len(x)] = "."
    <3>1. m = l + 1
      BY <1>2, <2>2, <2>4
    <3>2. \A n \in 1 .. l : n \in 1 .. m
      BY <2>1, <3>1
    <3>3. \A n \in 1 .. l : x[s + n] = r.from[n]
      BY <1>2, <2>2, <2>4, <3>2
    <3>4. m \in 1 .. m /\ x[s + m] = "."
      BY <1>1, <1>2, <2>2, <2>4, <3>1
    <3> QED BY <1>1, <3>1, <3>3, <3>4
  <2> QED BY <2>3, <2>4 DEF p, l
<1>6. ASSUME NEW r \in Rules, m <= Len(r.from), \A n \in 1 .. m : x[s + n] = r.from[n]
      PROVE  Undecided(x, s)
  BY <1>3, <1>4, <1>6
<1>7. ASSUME NEW r \in Rules, m = Len(r.from) + 1,
             \A n \in 1 .. Len(r.from) : x[s + n] = r.from[n], x[Len(x)] = "."
      PROVE  Undecided(x, s)
  BY <1>3, <1>5, <1>7
<1>8. ASSUME Undecided(x, s)
      PROVE  \E r \in Rules : /\ m <= Len(r.from) + 1
                              /\ \A n \in 1 .. m : n <= Len(r.from) => x[s + n] = r.from[n]
  <2>1. PICK r \in Rules : IsPrefix(suffix, r.from) \/ suffix = Append(r.from, ".")
    BY <1>3, <1>8
  <2>2. Len(r.from) \in Nat
    BY RuleIs
  <2>3. CASE IsPrefix(suffix, r.from)
    <3>1. m <= Len(r.from) /\ \A n \in 1 .. m : x[s + n] = r.from[n]
      BY <1>4, <2>3
    <3> QED BY <1>1, <2>2, <3>1
  <2>4. CASE suffix = Append(r.from, ".")
    <3>1. m = Len(r.from) + 1 /\ \A n \in 1 .. Len(r.from) : x[s + n] = r.from[n]
      BY <1>5, <2>4
    <3> QED BY <1>1, <2>2, <3>1
  <2> QED BY <2>1, <2>3, <2>4
<1> QED BY <1>6, <1>7, <1>8 DEF m

\* The cut is the end of the text or stands before the first undecided offset.
LEMMA CutIs ==
    ASSUME NEW x \in Texts
    PROVE  LET cut == restorePendingCut(x)
           IN /\ cut \in 0 .. Len(x)
              /\ \A s \in 0 .. Len(x) - 1 : Undecided(x, s) => cut <= Before(s)
              /\ \/ cut = Len(x)
                 \/ \E s \in 0 .. Len(x) - 1 : Undecided(x, s) /\ cut = Before(s)
<1> DEFINE low    == Max({0, Len(x) - Hold - 1})
           starts == {s \in low .. Len(x) - 1 : Undecided(x, s)}
           S      == {Len(x)} \cup {Max({s - 1, 0}) : s \in starts}
           cut    == restorePendingCut(x)
<1>1. Len(x) \in Nat /\ Hold \in Nat
  BY TextIs, HoldIs
<1>2. cut = Min(S)
  BY DEF restorePendingCut, Hold
<1>3. low = IF 0 >= Len(x) - Hold - 1 THEN 0 ELSE Len(x) - Hold - 1
  <2>1. 0 \in Int /\ Len(x) - Hold - 1 \in Int
    BY <1>1
  <2> QED BY <2>1, MaxOfTwo
<1> HIDE DEF low, cut
<1>4. \A s \in Nat : Max({s - 1, 0}) = Before(s)
  <2> TAKE s \in Nat
  <2>1. Max({s - 1, 0}) = IF s - 1 >= 0 THEN s - 1 ELSE 0
    <3>1. s - 1 \in Int /\ 0 \in Int
      OBVIOUS
    <3> QED BY <3>1, MaxOfTwo
  <2> QED BY <2>1 DEF Before
<1>5. \A s \in low .. Len(x) - 1 : s \in Nat /\ s \in 0 .. Len(x) - 1
  BY <1>1, <1>3
<1>6. S = {Len(x)} \cup {Before(s) : s \in starts}
  BY <1>4, <1>5
<1>7. \A s \in 0 .. Len(x) - 1 : Before(s) \in 0 .. Len(x)
  BY <1>1 DEF Before
<1>13. /\ \A s \in starts : s \in 0 .. Len(x) - 1 /\ Undecided(x, s)
       /\ \A s \in low .. Len(x) - 1 : Undecided(x, s) => s \in starts
  BY <1>5
<1> HIDE DEF S, starts
<1>14. \A y \in S : y \in 0 .. Len(x)
  BY <1>1, <1>6, <1>7, <1>13
<1>8. S \subseteq Nat /\ S # {}
  BY <1>6, <1>14
<1>9. cut \in S /\ \A y \in S : cut <= y
  BY <1>2, <1>8, MinIs
<1>10. ASSUME NEW s \in 0 .. Len(x) - 1, Undecided(x, s) PROVE cut <= Before(s)
  <2>1. PICK r \in Rules : Len(x) - s <= Len(r.from) + 1
    BY <1>10, UndecidedIs
  <2>2. Len(r.from) \in Nat /\ Len(r.from) <= Hold
    BY RuleIs, HoldIs
  <2>3. s \in low .. Len(x) - 1
    BY <1>1, <1>3, <2>1, <2>2
  <2>4. s \in starts
    BY <1>10, <1>13, <2>3
  <2> QED BY <1>6, <1>9, <2>4
<1>11. cut \in 0 .. Len(x)
  BY <1>9, <1>14
<1>12. cut = Len(x) \/ \E s \in 0 .. Len(x) - 1 : Undecided(x, s) /\ cut = Before(s)
  BY <1>6, <1>9, <1>13
<1> QED BY <1>10, <1>11, <1>12 DEF cut

\* How far a restorer decides a text when more may follow.
Limit(x) == Decided(x, restorePendingCut(x))

\* The limit is before the end, and behind it begins every undecided offset.
LEMMA LimitIs ==
    ASSUME NEW x \in Texts
    PROVE  /\ Limit(x) \in 0 .. Len(x)
           /\ Limit(x) = 0 \/ Limit(x) < Len(x)
           /\ \A s \in 0 .. Len(x) - 1 : Undecided(x, s) => Limit(x) <= Before(s)
           /\ \/ Len(x) = 0
              \/ Limit(x) = Len(x) - 1
              \/ \E s \in 0 .. Len(x) - 1 : Undecided(x, s) /\ Limit(x) = Before(s)
<1> DEFINE cut == restorePendingCut(x)
<1>1. Len(x) \in Nat
  BY TextIs
<1>2. /\ cut \in 0 .. Len(x)
      /\ \A s \in 0 .. Len(x) - 1 : Undecided(x, s) => cut <= Before(s)
      /\ \/ cut = Len(x)
         \/ \E s \in 0 .. Len(x) - 1 : Undecided(x, s) /\ cut = Before(s)
  BY CutIs
<1>3. Limit(x) = IF cut = Len(x) /\ cut > 0 THEN cut - 1 ELSE cut
  BY DEF Limit, Decided
<1> HIDE DEF cut
<1>4. \A s \in 0 .. Len(x) - 1 : Before(s) \in 0 .. Len(x) - 1
  BY <1>1 DEF Before
<1>5. CASE cut = Len(x) /\ cut > 0
  <2>1. Limit(x) = cut - 1
    BY <1>3, <1>5
  <2> QED BY <1>1, <1>2, <1>4, <1>5, <2>1
<1>6. CASE ~(cut = Len(x) /\ cut > 0)
  <2>1. Limit(x) = cut
    BY <1>3, <1>6
  <2> QED BY <1>1, <1>2, <1>4, <1>6, <2>1
<1> QED BY <1>5, <1>6

-----------------------------------------------------------------------------
(* Passing a text *)

\* A name occurs where all its letters stand and nothing of an identifier
\* adjoins.
LEMMA OccurringIs ==
    ASSUME NEW t \in Texts, NEW s \in Nat, NEW r \in Rules
    PROVE  r \in Occurring(t, s) <=>
             /\ s + Len(r.from) <= Len(t)
             /\ \A n \in 1 .. Len(r.from) : t[s + n] = r.from[n]
             /\ s > 0 => t[s] \notin Identifiers
             /\ s + Len(r.from) < Len(t) => t[s + Len(r.from) + 1] \notin Identifiers
<1> DEFINE l == Len(r.from)
<1>1. r.from \in Texts /\ l \in Nat \ {0} /\ Len(t) \in Nat
  BY RuleIs, TextIs
<1>2. r \in Occurring(t, s) <=> /\ s + l <= Len(t)
                                /\ Slice(t, s, s + l) = r.from
                                /\ s > 0 => t[s] \notin Identifiers
                                /\ s + l < Len(t) => t[s + l + 1] \notin Identifiers
  BY DEF Occurring, identityMatchBoundary
<1>3. ASSUME s + l <= Len(t)
      PROVE  Slice(t, s, s + l) = r.from <=> \A n \in 1 .. l : t[s + n] = r.from[n]
  <2> DEFINE a == Slice(t, s, s + l)
  <2>1. s + l \in s .. Len(t) /\ (s + l) - s = l
    BY <1>1, <1>3
  <2>2. a \in Texts /\ Len(a) = l /\ \A n \in 1 .. l : a[n] = t[s + n]
    <3>1. a \in Texts /\ Len(a) = (s + l) - s /\ \A n \in 1 .. (s + l) - s : a[n] = t[s + n]
      BY <2>1, SliceIs
    <3> HIDE DEF a
    <3> QED BY <2>1, <3>1
  <2> HIDE DEF a
  <2>3. ASSUME \A n \in 1 .. l : t[s + n] = r.from[n] PROVE a = r.from
    <3>1. \A n \in 1 .. Len(a) : a[n] = r.from[n]
      BY <2>2, <2>3
    <3> QED BY <1>1, <2>2, <3>1, SameText
  <2>4. ASSUME a = r.from PROVE \A n \in 1 .. l : t[s + n] = r.from[n]
    BY <2>2, <2>4
  <2> QED BY <2>3, <2>4 DEF a
<1> HIDE DEF l
<1> QED BY <1>2, <1>3 DEF l

\* The rule that occurs is the one that is met.
LEMMA TargetIs ==
    ASSUME NEW t, NEW s, NEW r \in Occurring(t, s)
    PROVE  r \in Rules /\ Occurring(t, s) = {r} /\ matchIdentityTarget(t, s) = r
<1>1. r \in Rules /\ \A q \in Occurring(t, s) : q \in Rules
  BY DEF Occurring
<1>2. \A q \in Occurring(t, s) : q = r
  BY <1>1, RuleIs
<1>3. Len(r.from) \in Nat
  BY <1>1, RuleIs
<1>4. Len(r.from) >= Len(r.from)
  BY <1>3
<1>5. \A q \in Occurring(t, s) : Len(r.from) >= Len(q.from)
  BY <1>2, <1>4
<1>6. matchIdentityTarget(t, s) \in Occurring(t, s)
  BY <1>5 DEF matchIdentityTarget
<1> QED BY <1>1, <1>2, <1>6

\* Where a pass begins, the states it goes through, and what it results in.
StartAt(limit) == [scan |-> 0, cursor |-> 0, consumed |-> limit, out |-> <<>>]
Passing(f, k, text, limit, address, final) ==
  f = [n \in 0 .. k |-> IF n = 0 THEN StartAt(limit)
                        ELSE Pass(text, limit, address, final, f[n - 1], n - 1)]
ResultOf(text, st) ==
  [out |-> st.out \o Slice(text, st.cursor, st.consumed), consumed |-> st.consumed]

\* There are such states for every text.
LEMMA PassingExists ==
    ASSUME NEW text, NEW limit, NEW address, NEW final, NEW k \in Nat
    PROVE  \E f : Passing(f, k, text, limit, address, final)
<1> DEFINE First == StartAt(limit)
           Goes(st, n) == Pass(text, limit, address, final, st, n)
           S == {m \in Nat : ~ \E f : Passing(f, m, text, limit, address, final)}
<1>0. \A f, m : Passing(f, m, text, limit, address, final) <=>
                f = [n \in 0 .. m |-> IF n = 0 THEN First ELSE Goes(f[n - 1], n - 1)]
  BY DEF Passing
<1> HIDE DEF First, Goes
<1> SUFFICES ASSUME S # {} PROVE FALSE
  OBVIOUS
<1>1. PICK m \in S : \A y \in S : m <= y
  BY LeastOf
<1>2. CASE m = 0
  <2> DEFINE f == [n \in 0 .. 0 |-> First]
  <2>1. f = [n \in 0 .. 0 |-> IF n = 0 THEN First ELSE Goes(f[n - 1], n - 1)]
    OBVIOUS
  <2> QED BY <1>0, <1>1, <1>2, <2>1
<1>3. CASE m # 0
  <2>1. m - 1 \in Nat /\ m - 1 \notin S
    BY <1>1, <1>3
  <2>2. PICK f : f = [n \in 0 .. m - 1 |-> IF n = 0 THEN First ELSE Goes(f[n - 1], n - 1)]
    BY <1>0, <2>1
  <2> DEFINE g == [n \in 0 .. m |-> IF n = m THEN Goes(f[m - 1], m - 1) ELSE f[n]]
  <2>3. \A n \in 0 .. m - 1 :
          g[n] = f[n] /\ f[n] = IF n = 0 THEN First ELSE Goes(f[n - 1], n - 1)
    BY <2>1, <2>2
  <2>4. \A n \in 0 .. m : g[n] = IF n = 0 THEN First ELSE Goes(g[n - 1], n - 1)
    <3> SUFFICES ASSUME NEW n \in 0 .. m
                 PROVE  g[n] = IF n = 0 THEN First ELSE Goes(g[n - 1], n - 1)
      OBVIOUS
    <3>1. CASE n = m
      <4>1. g[n] = Goes(f[m - 1], m - 1) /\ m - 1 \in 0 .. m - 1
        BY <2>1, <3>1
      <4> HIDE DEF g
      <4> QED BY <1>3, <2>3, <3>1, <4>1
    <3>2. CASE n # m
      <4>1. n \in 0 .. m - 1 /\ (n # 0 => n - 1 \in 0 .. m - 1)
        BY <3>2
      <4> HIDE DEF g
      <4> QED BY <2>3, <4>1
    <3> QED BY <3>1, <3>2
  <2>5. g = [n \in 0 .. m |-> IF n = 0 THEN First ELSE Goes(g[n - 1], n - 1)]
    BY <2>4
  <2> QED BY <1>0, <1>1, <2>5
<1> QED BY <1>2, <1>3

\* Restoring results from the last of them.
LEMMA RestoreRuns ==
    ASSUME NEW text, NEW limit \in Nat, NEW address, NEW final
    PROVE  \E f : /\ Passing(f, limit, text, limit, address, final)
                  /\ restoreIdentityPrefix(text, limit, address, final)
                       = ResultOf(text, f[limit])
<1> DEFINE passed == CHOOSE passed : passed =
             [n \in 0 .. limit |->
                IF n = 0 THEN [scan |-> 0, cursor |-> 0, consumed |-> limit, out |-> <<>>]
                ELSE Pass(text, limit, address, final, passed[n - 1], n - 1)]
<1>1. restoreIdentityPrefix(text, limit, address, final) = ResultOf(text, passed[limit])
  BY DEF restoreIdentityPrefix, ResultOf
<1>2. PICK f : Passing(f, limit, text, limit, address, final)
  BY PassingExists
<1>3. f = [n \in 0 .. limit |->
                IF n = 0 THEN [scan |-> 0, cursor |-> 0, consumed |-> limit, out |-> <<>>]
                ELSE Pass(text, limit, address, final, f[n - 1], n - 1)]
  BY <1>2 DEF Passing, StartAt
<1>4. passed = [n \in 0 .. limit |->
                IF n = 0 THEN [scan |-> 0, cursor |-> 0, consumed |-> limit, out |-> <<>>]
                ELSE Pass(text, limit, address, final, passed[n - 1], n - 1)]
  BY <1>3
<1> HIDE DEF passed
<1>5. Passing(passed, limit, text, limit, address, final)
  BY <1>4 DEF Passing, StartAt
<1> QED BY <1>1, <1>5

\* What a pass may know at an offset.
States(limit) ==
  [scan : 0 .. limit, cursor : 0 .. limit, consumed : 0 .. limit, out : Texts]

\* An occurrence that may not end where it seems to, and one in an address.
HeldBack(text, limit, final, end) == end > limit \/ (~final /\ end = Len(text))
InAddress(text, address, start, end) ==
  protects(advance(address, Slice(text, 0, start)), text, end)

\* One offset, case by case.
LEMMA PassStays ==
    ASSUME NEW text, NEW limit, NEW address, NEW final, NEW st, NEW start,
           st.consumed < limit \/ start < st.scan \/ Occurring(text, start) = {}
    PROVE  Pass(text, limit, address, final, st, start) = st
BY DEF Pass

\* What becomes of an occurrence.
KeptBack(st, start) == [st EXCEPT !.consumed = start]
LeftAlone(st, end) == [st EXCEPT !.scan = end]
Replaced(text, st, start, end, to) ==
  [st EXCEPT !.scan = end, !.cursor = end,
             !.out = st.out \o Slice(text, st.cursor, start) \o to]

\* What a pass does with an occurrence.
LEMMA PassMeets ==
    ASSUME NEW text, NEW limit, NEW address, NEW final, NEW st, NEW start,
           NEW r \in Occurring(text, start), NEW end,
           ~(st.consumed < limit), ~(start < st.scan), end = start + Len(r.from)
    PROVE  Pass(text, limit, address, final, st, start) =
             IF HeldBack(text, limit, final, end) THEN KeptBack(st, start)
             ELSE IF InAddress(text, address, start, end) THEN LeftAlone(st, end)
             ELSE Replaced(text, st, start, end, r.to)
<1>1. matchIdentityTarget(text, start) = r
  BY TargetIs
<1>2. Pass(text, limit, address, final, st, start)
        = Meet(text, limit, address, final, st, start)
  BY DEF Pass
<1>3. Meet(text, limit, address, final, st, start) =
        IF HeldBack(text, limit, final, end) THEN KeptBack(st, start)
        ELSE IF InAddress(text, address, start, end) THEN LeftAlone(st, end)
        ELSE Replaced(text, st, start, end, r.to)
  BY <1>1, Zenon DEF Meet, HeldBack, InAddress, KeptBack, LeftAlone, Replaced
<1> QED BY <1>2, <1>3

\* The states of one that is kept back and of one that is left alone.
LEMMA Becomes ==
    ASSUME NEW limit, NEW st \in States(limit), NEW start, NEW end
    PROVE  /\ KeptBack(st, start)
                = [scan |-> st.scan, cursor |-> st.cursor, consumed |-> start, out |-> st.out]
           /\ LeftAlone(st, end)
                = [scan |-> end, cursor |-> st.cursor, consumed |-> st.consumed, out |-> st.out]
BY DEF States, KeptBack, LeftAlone

\* The state of one that is replaced.
LEMMA ReplacedIs ==
    ASSUME NEW limit, NEW st \in States(limit), NEW end, NEW o
    PROVE  [st EXCEPT !.scan = end, !.cursor = end, !.out = o]
             = [scan |-> end, cursor |-> end, consumed |-> st.consumed, out |-> o]
<1> DEFINE t == [st EXCEPT !.scan = end]
           u == [t EXCEPT !.cursor = end]
<1>2. t = [scan |-> end, cursor |-> st.cursor, consumed |-> st.consumed, out |-> st.out]
  BY DEF States
<1> HIDE DEF t
<1>3. u = [scan |-> end, cursor |-> end, consumed |-> st.consumed, out |-> st.out]
  BY <1>2
<1> HIDE DEF u
<1>4. [u EXCEPT !.out = o]
        = [scan |-> end, cursor |-> end, consumed |-> st.consumed, out |-> o]
  BY <1>3
<1> QED BY <1>4 DEF t, u

\* A state is sound: nothing replaced lies behind what was seen, nothing seen
\* behind what is let out, and a pass has stopped or not.
Sound(st, n, limit) ==
  /\ st \in States(limit)
  /\ st.cursor <= st.scan /\ st.scan <= st.consumed
  /\ st.consumed = limit \/ st.consumed < n

\* One offset leaves a sound state sound.
LEMMA PassSound ==
    ASSUME NEW text \in Texts, NEW limit \in 0 .. Len(text), NEW address, NEW final,
           NEW n \in 0 .. limit - 1, NEW st, Sound(st, n, limit)
    PROVE  LET next == Pass(text, limit, address, final, st, n)
           IN /\ Sound(next, n + 1, limit)
              /\ st.consumed < limit => next = st
              /\ st.consumed = limit /\ next.consumed < limit =>
                   /\ next.consumed = n
                   /\ next.scan = st.scan /\ next.cursor = st.cursor /\ next.out = st.out
                   /\ \E r \in Occurring(text, n) : HeldBack(text, limit, final, n + Len(r.from))
<1> DEFINE next == Pass(text, limit, address, final, st, n)
<1>1. Len(text) \in Nat /\ limit \in Nat /\ n \in Nat /\ limit <= Len(text) /\ n < limit
  BY TextIs
<1>2. st \in States(limit)
  BY DEF Sound
<1>3. /\ st.scan \in 0 .. limit /\ st.cursor \in 0 .. limit /\ st.consumed \in 0 .. limit
      /\ st.out \in Texts
      /\ st = [scan |-> st.scan, cursor |-> st.cursor, consumed |-> st.consumed, out |-> st.out]
  BY <1>2 DEF States
<1>4. st.cursor <= st.scan /\ st.scan <= st.consumed /\ (st.consumed = limit \/ st.consumed < n)
  BY DEF Sound
<1>5. CASE st.consumed < limit \/ n < st.scan \/ Occurring(text, n) = {}
  <2>1. next = st
    BY <1>5, PassStays
  <2>2. Sound(st, n + 1, limit)
    BY <1>1, <1>2, <1>3, <1>4 DEF Sound
  <2> HIDE DEF next
  <2> QED BY <1>3, <2>1, <2>2 DEF next
<1>6. CASE ~(st.consumed < limit) /\ ~(n < st.scan) /\ Occurring(text, n) # {}
  <2>1. PICK r \in Occurring(text, n) : TRUE
    BY <1>6
  <2>2. r \in Rules
    BY <2>1, TargetIs
  <2> DEFINE end == n + Len(r.from)
  <2>3. Len(r.from) \in Nat \ {0} /\ r.to \in Texts /\ end \in Nat /\ n < end
    BY <1>1, <2>2, RuleIs
  <2>8. end = n + Len(r.from) /\ ~(st.consumed < limit) /\ ~(n < st.scan)
    BY <1>6
  <2> HIDE DEF end
  <2>4. next = IF HeldBack(text, limit, final, end) THEN KeptBack(st, n)
               ELSE IF InAddress(text, address, n, end) THEN LeftAlone(st, end)
               ELSE Replaced(text, st, n, end, r.to)
    BY <2>1, <2>8, PassMeets
  <2>5. st.consumed = limit
    BY <1>3, <1>6
  <2> HIDE DEF next, end
  <2>6. CASE HeldBack(text, limit, final, end)
    <3>1. next = [scan |-> st.scan, cursor |-> st.cursor, consumed |-> n, out |-> st.out]
      BY <1>2, <2>4, <2>6, Becomes
    <3>2. Sound(next, n + 1, limit)
      BY <1>1, <1>3, <1>4, <1>6, <3>1 DEF Sound, States
    <3>3. \E q \in Occurring(text, n) : HeldBack(text, limit, final, n + Len(q.from))
      BY <2>1, <2>6 DEF end
    <3> QED BY <1>6, <2>5, <3>1, <3>2, <3>3 DEF next
  <2>7. CASE ~HeldBack(text, limit, final, end)
    <3>1. end <= limit
      BY <1>1, <2>3, <2>7 DEF HeldBack
    <3>2. CASE InAddress(text, address, n, end)
      <4>1. next = [scan |-> end, cursor |-> st.cursor, consumed |-> limit, out |-> st.out]
        BY <1>2, <2>4, <2>5, <2>7, <3>2, Becomes
      <4>2. st.cursor <= end
        BY <1>1, <1>3, <1>4, <1>6, <2>3
      <4>3. Sound(next, n + 1, limit)
        BY <1>1, <1>3, <2>3, <3>1, <4>1, <4>2 DEF Sound, States
      <4>4. ~(st.consumed < limit) /\ ~(next.consumed < limit)
        BY <1>1, <2>5, <4>1
      <4> QED BY <4>3, <4>4 DEF next
    <3>3. CASE ~InAddress(text, address, n, end)
      <4> DEFINE o == st.out \o Slice(text, st.cursor, n) \o r.to
      <4>1. o \in Texts
        <5>1. st.cursor \in Nat /\ n \in st.cursor .. Len(text)
          BY <1>1, <1>3, <1>4, <1>6
        <5>2. Slice(text, st.cursor, n) \in Texts
          BY <5>1, SliceIs
        <5>3. st.out \o Slice(text, st.cursor, n) \in Texts
          BY <1>3, <5>2, Joined
        <5> QED BY <2>3, <5>3, Joined
      <4>2. next = [scan |-> end, cursor |-> end, consumed |-> limit, out |-> o]
        <5>1. next = Replaced(text, st, n, end, r.to)
          BY <2>4, <2>7, <3>3
        <5>2. Replaced(text, st, n, end, r.to)
                = [scan |-> end, cursor |-> end, consumed |-> st.consumed, out |-> o]
          <6>1. Replaced(text, st, n, end, r.to)
                  = [st EXCEPT !.scan = end, !.cursor = end, !.out = o]
            BY Zenon DEF Replaced
          <6> HIDE DEF o
          <6> QED BY <1>2, <6>1, ReplacedIs
        <5> HIDE DEF o
        <5> QED BY <2>5, <5>1, <5>2
      <4> HIDE DEF o
      <4>3. Sound(next, n + 1, limit)
        BY <1>1, <1>3, <2>3, <3>1, <4>1, <4>2 DEF Sound, States
      <4>4. ~(st.consumed < limit) /\ ~(next.consumed < limit)
        BY <1>1, <2>5, <4>2
      <4> QED BY <4>3, <4>4 DEF next
    <3> QED BY <3>2, <3>3
  <2> QED BY <2>6, <2>7
<1> QED BY <1>5, <1>6

\* A pass over a text: its states are sound, and the first occurrence held back
\* ends it.
LEMMA PassingIs ==
    ASSUME NEW text \in Texts, NEW limit \in 0 .. Len(text), NEW address, NEW final,
           NEW f, Passing(f, limit, text, limit, address, final)
    PROVE  /\ \A n \in 0 .. limit : Sound(f[n], n, limit)
           /\ \A n \in 0 .. limit - 1 :
                f[n + 1] = Pass(text, limit, address, final, f[n], n)
<1>1. Len(text) \in Nat /\ limit \in Nat
  BY TextIs
<1>2. \A n \in 0 .. limit :
        f[n] = IF n = 0 THEN StartAt(limit)
               ELSE Pass(text, limit, address, final, f[n - 1], n - 1)
  BY <1>1 DEF Passing
<1>3. ASSUME NEW n \in 0 .. limit - 1
      PROVE  f[n + 1] = Pass(text, limit, address, final, f[n], n)
  <2>1. n + 1 \in 0 .. limit /\ n + 1 # 0 /\ (n + 1) - 1 = n
    BY <1>1
  <2> QED BY <1>2, <2>1
<1>4. \A n \in 0 .. limit : Sound(f[n], n, limit)
  <2> DEFINE S == {n \in 0 .. limit : ~Sound(f[n], n, limit)}
  <2> SUFFICES ASSUME S # {} PROVE FALSE
    OBVIOUS
  <2>1. S \subseteq Nat
    BY <1>1
  <2>2. PICK m \in S : \A y \in S : m <= y
    BY <2>1, LeastOf
  <2>3. m \in 0 .. limit /\ ~Sound(f[m], m, limit)
    BY <2>2
  <2>4. m # 0
    <3> SUFFICES ASSUME m = 0 PROVE FALSE
      OBVIOUS
    <3>1. f[0] = StartAt(limit)
      BY <1>1, <1>2
    <3>2. <<>> \in Texts
      BY EmptySeq DEF Texts
    <3>3. Sound(StartAt(limit), 0, limit)
      BY <1>1, <3>2 DEF Sound, States, StartAt
    <3> QED BY <2>3, <3>1, <3>3
  <2>5. m - 1 \in 0 .. limit - 1 /\ m - 1 \in 0 .. limit /\ m - 1 \notin S /\ (m - 1) + 1 = m
    BY <1>1, <2>2, <2>3, <2>4
  <2>6. Sound(f[m - 1], m - 1, limit)
    BY <2>5
  <2>7. f[m] = Pass(text, limit, address, final, f[m - 1], m - 1)
    BY <1>3, <2>5
  <2>8. Sound(f[m], (m - 1) + 1, limit)
    BY <2>5, <2>6, <2>7, PassSound
  <2> QED BY <2>3, <2>5, <2>8
<1> QED BY <1>3, <1>4

\* A pass ends at its limit, or at an occurrence it held back.
LEMMA StopsOnce ==
    ASSUME NEW text \in Texts, NEW limit \in 0 .. Len(text), NEW address, NEW final,
           NEW f, Passing(f, limit, text, limit, address, final)
    PROVE  LET k == f[limit].consumed
           IN /\ k \in 0 .. limit
              /\ \A n \in 0 .. k : f[n].consumed = limit
              /\ /\ f[limit].scan = f[k].scan /\ f[limit].cursor = f[k].cursor
                 /\ f[limit].out = f[k].out
              /\ \/ k = limit
                 \/ \E r \in Occurring(text, k) : HeldBack(text, limit, final, k + Len(r.from))
<1> DEFINE k == f[limit].consumed
<1>1. Len(text) \in Nat /\ limit \in Nat
  BY TextIs
<1>2. /\ \A n \in 0 .. limit : Sound(f[n], n, limit)
      /\ \A n \in 0 .. limit - 1 : f[n + 1] = Pass(text, limit, address, final, f[n], n)
  BY PassingIs
<1>3. \A n \in 0 .. limit : /\ f[n].consumed \in 0 .. limit
                            /\ f[n].consumed = limit \/ f[n].consumed < n
  BY <1>1, <1>2 DEF Sound, States
<1>4. \A n \in 0 .. limit - 1 :
        /\ f[n].consumed < limit => f[n + 1] = f[n]
        /\ f[n].consumed = limit /\ f[n + 1].consumed < limit =>
             /\ f[n + 1].consumed = n
             /\ f[n + 1].scan = f[n].scan /\ f[n + 1].cursor = f[n].cursor
             /\ f[n + 1].out = f[n].out
             /\ \E r \in Occurring(text, n) : HeldBack(text, limit, final, n + Len(r.from))
  <2> TAKE n \in 0 .. limit - 1
  <2>1. n \in 0 .. limit
    BY <1>1
  <2>2. Sound(f[n], n, limit)
    BY <1>2, <2>1
  <2> QED BY <1>2, <2>2, PassSound
<1>5. ASSUME NEW n \in 0 .. limit, f[n].consumed < limit
      PROVE  \A m \in n .. limit : f[m] = f[n]
  <2> DEFINE S == {m \in n .. limit : f[m] # f[n]}
  <2> SUFFICES ASSUME S # {} PROVE FALSE
    OBVIOUS
  <2>1. S \subseteq Nat
    BY <1>1
  <2>2. PICK m \in S : \A y \in S : m <= y
    BY <2>1, LeastOf
  <2>3. m \in n .. limit /\ f[m] # f[n] /\ m # n
    BY <2>2
  <2>4. m - 1 \in n .. limit /\ m - 1 \notin S /\ m - 1 \in 0 .. limit - 1 /\ (m - 1) + 1 = m
    BY <1>1, <2>2, <2>3
  <2>5. f[m - 1] = f[n]
    BY <2>4
  <2> QED BY <1>4, <1>5, <2>3, <2>4, <2>5
<1>6. k \in 0 .. limit
  BY <1>1, <1>3
<1>7. \A n \in 0 .. k : f[n].consumed = limit
  <2> SUFFICES ASSUME NEW n \in 0 .. k, f[n].consumed # limit PROVE FALSE
    OBVIOUS
  <2>1. n \in 0 .. limit /\ f[n].consumed < limit /\ f[n].consumed < n /\ limit \in n .. limit
    BY <1>1, <1>3, <1>6
  <2>2. f[limit] = f[n]
    BY <1>5, <2>1
  <2> QED BY <1>6, <2>1, <2>2
<1>8. CASE k = limit
  <2>1. f[limit] = f[k]
    BY <1>8
  <2> QED BY <1>6, <1>7, <1>8, <2>1
<1>9. CASE k # limit
  <2> HIDE DEF k
  <2>1. k \in 0 .. limit - 1 /\ k + 1 \in 0 .. limit /\ limit \in k + 1 .. limit /\ k \in 0 .. k
    BY <1>1, <1>6, <1>9
  <2>2. f[k].consumed = limit
    BY <1>7, <2>1
  <2> DEFINE S == {n \in 0 .. limit : f[n].consumed < limit}
  <2>3. S \subseteq Nat /\ limit \in S
    BY <1>1, <1>6, <1>9 DEF k
  <2>4. PICK n \in S : \A y \in S : n <= y
    BY <2>3, LeastOf
  <2>5. n \in 0 .. limit /\ f[n].consumed < limit
    BY <2>4
  <2>6. n # 0
    <3>1. 0 \in 0 .. k
      BY <1>6
    <3>2. f[0].consumed = limit
      BY <1>7, <3>1
    <3> QED BY <1>1, <2>5, <3>2
  <2>7. n - 1 \in 0 .. limit - 1 /\ n - 1 \in 0 .. limit /\ n - 1 \notin S /\ (n - 1) + 1 = n
    BY <1>1, <2>4, <2>5, <2>6
  <2>8. f[n - 1].consumed = limit
    BY <1>1, <1>3, <2>7
  <2>9. /\ f[n].consumed = n - 1
        /\ f[n].scan = f[n - 1].scan /\ f[n].cursor = f[n - 1].cursor
        /\ f[n].out = f[n - 1].out
        /\ \E r \in Occurring(text, n - 1) :
             HeldBack(text, limit, final, (n - 1) + Len(r.from))
    BY <1>4, <2>5, <2>7, <2>8
  <2>10. limit \in n .. limit
    BY <1>1, <2>5
  <2>11. f[limit] = f[n]
    BY <1>5, <2>5, <2>10
  <2>12. k = n - 1
    BY <2>9, <2>11 DEF k
  <2> QED BY <1>6, <1>7, <2>9, <2>11, <2>12 DEF k
<1> QED BY <1>8, <1>9

-----------------------------------------------------------------------------
(* A text and the text it is the beginning of *)

\* What two texts after one another begin with.
LEMMA FirstOfJoined ==
    ASSUME NEW x \in Texts, NEW y \in Texts
    PROVE  /\ Len(x) \in Nat /\ Len(x) <= Len(x \o y) /\ Len(x \o y) \in Nat
           /\ x \o y \in Texts
           /\ \A n \in 1 .. Len(x) : (x \o y)[n] = x[n]
<1>1. Len(x) \in Nat /\ Len(y) \in Nat
  BY TextIs
<1>2. /\ x \o y \in Texts /\ Len(x \o y) = Len(x) + Len(y)
      /\ \A n \in 1 .. Len(x) + Len(y) : (x \o y)[n] = IF n <= Len(x) THEN x[n] ELSE y[n - Len(x)]
  BY Joined
<1>3. ASSUME NEW n \in 1 .. Len(x) PROVE (x \o y)[n] = x[n]
  <2>1. n \in 1 .. Len(x) + Len(y) /\ n <= Len(x)
    BY <1>1
  <2> QED BY <1>2, <2>1
<1> QED BY <1>1, <1>2, <1>3

\* Before the limit a name occurs in the beginning if it occurs in the whole.
LEMMA OccursInFirst ==
    ASSUME NEW x \in Texts, NEW y \in Texts, NEW n \in 0 .. Limit(x) - 1,
           NEW r \in Occurring(x \o y, n)
    PROVE  r \in Occurring(x, n)
<1> DEFINE z == x \o y
           l == Len(r.from)
<1>1. /\ Len(x) \in Nat /\ Len(x) <= Len(z) /\ Len(z) \in Nat /\ z \in Texts
      /\ \A m \in 1 .. Len(x) : z[m] = x[m]
  BY FirstOfJoined
<1>2. /\ Limit(x) \in 0 .. Len(x) /\ (Limit(x) = 0 \/ Limit(x) < Len(x))
      /\ \A s \in 0 .. Len(x) - 1 : Undecided(x, s) => Limit(x) <= Before(s)
  BY LimitIs
<1>3. n \in Nat /\ n < Limit(x) /\ n \in 0 .. Len(x) - 1
  BY <1>1, <1>2
<1> HIDE DEF z
<1>4. r \in Occurring(z, n) /\ r \in Rules
  BY TargetIs DEF z
<1>5. l \in Nat \ {0}
  BY <1>4, RuleIs
<1>6. /\ n + l <= Len(z)
      /\ \A m \in 1 .. l : z[n + m] = r.from[m]
      /\ n > 0 => z[n] \notin Identifiers
      /\ n + l < Len(z) => z[n + l + 1] \notin Identifiers
  BY <1>1, <1>3, <1>4, OccurringIs
<1> HIDE DEF l
<1>7. n + l <= Len(x)
  <2> SUFFICES ASSUME ~(n + l <= Len(x)) PROVE FALSE
    OBVIOUS
  <2>1. Len(x) - n <= l
    BY <1>1, <1>3, <1>5
  <2>2. ASSUME NEW m \in 1 .. Len(x) - n PROVE x[n + m] = r.from[m]
    <3>1. m \in 1 .. l /\ n + m \in 1 .. Len(x)
      BY <1>1, <1>3, <1>5, <2>1
    <3> QED BY <1>1, <1>6, <3>1
  <2>3. Undecided(x, n)
    BY <1>3, <1>4, <2>1, <2>2, UndecidedIs DEF l
  <2>4. Limit(x) <= Before(n)
    BY <1>2, <1>3, <2>3
  <2> QED BY <1>2, <1>3, <2>4 DEF Before
<1>8. ASSUME NEW m \in 1 .. l PROVE x[n + m] = r.from[m]
  <2>1. n + m \in 1 .. Len(x)
    BY <1>1, <1>3, <1>5, <1>7
  <2> QED BY <1>1, <1>6, <2>1
<1>9. n > 0 => x[n] \notin Identifiers
  BY <1>1, <1>3, <1>6
<1>10. n + l < Len(x) => x[n + l + 1] \notin Identifiers
  <2> SUFFICES ASSUME n + l < Len(x) PROVE x[n + l + 1] \notin Identifiers
    OBVIOUS
  <2>1. n + l + 1 \in 1 .. Len(x) /\ n + l < Len(z)
    BY <1>1, <1>3, <1>5
  <2> QED BY <1>1, <1>6, <2>1
<1> QED BY <1>3, <1>4, <1>7, <1>8, <1>9, <1>10, OccurringIs DEF l

\* Whether an address protects a name depends on two letters behind it.
LEMMA ProtectsIs ==
    ASSUME NEW c, NEW s \in Texts, NEW t \in Texts, NEW i \in Nat, NEW j \in Nat,
           i < Len(s) <=> j < Len(t),
           i < Len(s) => s[i + 1] = t[j + 1],
           i < Len(s) /\ s[i + 1] = "." =>
             /\ i + 1 < Len(s) <=> j + 1 < Len(t)
             /\ i + 1 < Len(s) => s[i + 2] = t[j + 2]
    PROVE  protects(c, s, i) <=> protects(c, t, j)
<1>1. Len(s) \in Nat /\ Len(t) \in Nat
  BY TextIs
<1>2. protects(c, s, i) <=> \/ c.path \/ c.prev \in {".", "-"}
                            \/ i < Len(s) /\ s[i + 1] \in Marks \cup {"-"}
                            \/ i + 1 < Len(s) /\ s[i + 1] = "." /\ s[i + 2] \in Identifiers \cup {"-"}
  BY Zenon DEF protects
<1>3. protects(c, t, j) <=> \/ c.path \/ c.prev \in {".", "-"}
                            \/ j < Len(t) /\ t[j + 1] \in Marks \cup {"-"}
                            \/ j + 1 < Len(t) /\ t[j + 1] = "." /\ t[j + 2] \in Identifiers \cup {"-"}
  BY Zenon DEF protects
<1>4. (i < Len(s) /\ s[i + 1] \in Marks \cup {"-"}) <=> (j < Len(t) /\ t[j + 1] \in Marks \cup {"-"})
  OBVIOUS
<1>5. i + 1 < Len(s) => i < Len(s)
  BY <1>1
<1>6. j + 1 < Len(t) => j < Len(t)
  BY <1>1
<1>7. (i + 1 < Len(s) /\ s[i + 1] = "." /\ s[i + 2] \in Identifiers \cup {"-"})
        <=> (j + 1 < Len(t) /\ t[j + 1] = "." /\ t[j + 2] \in Identifiers \cup {"-"})
  BY <1>5, <1>6
<1> QED BY <1>2, <1>3, <1>4, <1>7, Zenon

\* An occurrence that ends before the limit is one of the whole, and protected
\* there or not as it is here.
LEMMA OccursInWhole ==
    ASSUME NEW x \in Texts, NEW y \in Texts, NEW n \in 0 .. Limit(x) - 1,
           NEW r \in Occurring(x, n), NEW address, n + Len(r.from) <= Limit(x)
    PROVE  /\ r \in Occurring(x \o y, n)
           /\ InAddress(x, address, n, n + Len(r.from))
                <=> InAddress(x \o y, address, n, n + Len(r.from))
<1> DEFINE z == x \o y
           l == Len(r.from)
<1>1. /\ Len(x) \in Nat /\ Len(x) <= Len(z) /\ Len(z) \in Nat /\ z \in Texts
      /\ \A m \in 1 .. Len(x) : z[m] = x[m]
  BY FirstOfJoined
<1>2. /\ Limit(x) \in 0 .. Len(x) /\ (Limit(x) = 0 \/ Limit(x) < Len(x))
      /\ \A s \in 0 .. Len(x) - 1 : Undecided(x, s) => Limit(x) <= Before(s)
  BY LimitIs
<1>3. n \in Nat /\ n < Limit(x) /\ n \in 0 .. Len(x) - 1 /\ Limit(x) < Len(x)
  BY <1>1, <1>2
<1>13. Slice(z, 0, n) = Slice(x, 0, n)
  <2>1. 0 \in Nat /\ n \in 0 .. Len(x)
    BY <1>1, <1>3
  <2> QED BY <2>1, SliceOfFirst
<1> HIDE DEF z
<1>4. r \in Rules
  BY TargetIs
<1>5. l \in Nat \ {0}
  BY <1>4, RuleIs
<1>6. /\ n + l <= Len(x)
      /\ \A m \in 1 .. l : x[n + m] = r.from[m]
      /\ n > 0 => x[n] \notin Identifiers
      /\ n + l < Len(x) => x[n + l + 1] \notin Identifiers
  BY <1>1, <1>3, <1>4, OccurringIs
<1>7. n + l < Len(x) /\ n + l < Len(z) /\ n + l + 1 \in 1 .. Len(x) /\ n + l \in Nat
  <2>1. Limit(x) \in Nat /\ n + l <= Limit(x)
    BY <1>1, <1>2
  <2> HIDE DEF l
  <2> QED BY <1>1, <1>3, <1>5, <2>1
<1> HIDE DEF l
<1>8. r \in Occurring(z, n)
  <2>1. ASSUME NEW m \in 1 .. l PROVE z[n + m] = r.from[m]
    <3>1. n + m \in 1 .. Len(x)
      BY <1>1, <1>3, <1>5, <1>7
    <3> QED BY <1>1, <1>6, <3>1
  <2>2. n > 0 => z[n] \notin Identifiers
    BY <1>1, <1>3, <1>6
  <2>3. z[n + l + 1] \notin Identifiers /\ n + l <= Len(z)
    BY <1>1, <1>6, <1>7
  <2> QED BY <1>1, <1>3, <1>4, <2>1, <2>2, <2>3, OccurringIs DEF l
<1>9. x[n + l + 1] = "." => n + l + 1 < Len(x)
  <2> SUFFICES ASSUME x[n + l + 1] = ".", ~(n + l + 1 < Len(x)) PROVE FALSE
    OBVIOUS
  <2>1. n + l + 1 = Len(x)
    BY <1>1, <1>3, <1>5, <1>7
  <2>2. Len(x) - n = l + 1 /\ x[Len(x)] = "."
    BY <1>1, <1>3, <1>5, <2>1
  <2>3. Undecided(x, n)
    BY <1>3, <1>4, <1>6, <2>2, UndecidedIs DEF l
  <2>4. Limit(x) <= Before(n)
    BY <1>2, <1>3, <2>3
  <2> QED BY <1>2, <1>3, <2>4 DEF Before
<1>10. x[n + l + 1] = "." => /\ n + l + 1 < Len(z)
                            /\ x[n + l + 2] = z[n + l + 2]
  <2> SUFFICES ASSUME x[n + l + 1] = "." PROVE n + l + 1 < Len(z) /\ x[n + l + 2] = z[n + l + 2]
    OBVIOUS
  <2>1. n + l + 1 < Len(x)
    BY <1>9
  <2>2. n + l + 2 \in 1 .. Len(x) /\ n + l + 1 < Len(z)
    BY <1>1, <1>7, <2>1
  <2> QED BY <1>1, <2>2
<1>11. x[n + l + 1] = z[n + l + 1]
  BY <1>1, <1>7
<1> DEFINE c == advance(address, Slice(x, 0, n))
<1> HIDE DEF c
<1>12. protects(c, x, n + l) <=> protects(c, z, n + l)
  BY <1>1, <1>7, <1>9, <1>10, <1>11, ProtectsIs
<1>14. InAddress(x, address, n, n + l) <=> protects(c, x, n + l)
  BY DEF InAddress, c
<1>15. InAddress(z, address, n, n + l) <=> protects(c, z, n + l)
  BY <1>13 DEF InAddress, c
<1>16. InAddress(x, address, n, n + l) <=> InAddress(z, address, n, n + l)
  BY <1>12, <1>14, <1>15
<1> QED BY <1>8, <1>16 DEF l, z

\* What follows a text that is restored: more of it, or nothing.
More == FALSE
NoMore == TRUE

\* The two passes have made the same of what they have both passed.
Alike(u, v) == u.scan = v.scan /\ u.cursor = v.cursor /\ u.out = v.out

\* What has come out when the name at an offset is replaced.
OutWith(text, st, start, to) == st.out \o Slice(text, st.cursor, start) \o to

\* The parts of the state of one that is replaced.
LEMMA ReplacedAs ==
    ASSUME NEW limit, NEW st \in States(limit), NEW text, NEW start, NEW end, NEW to
    PROVE  /\ Replaced(text, st, start, end, to).scan = end
           /\ Replaced(text, st, start, end, to).cursor = end
           /\ Replaced(text, st, start, end, to).consumed = st.consumed
           /\ Replaced(text, st, start, end, to).out = OutWith(text, st, start, to)
<1> DEFINE o == OutWith(text, st, start, to)
           next == Replaced(text, st, start, end, to)
<1>1. next = [st EXCEPT !.scan = end, !.cursor = end, !.out = o]
  BY Zenon DEF Replaced, OutWith
<1> HIDE DEF next, o
<1>2. next = [scan |-> end, cursor |-> end, consumed |-> st.consumed, out |-> o]
  BY <1>1, ReplacedIs
<1>3. next.scan = end /\ next.cursor = end /\ next.consumed = st.consumed /\ next.out = o
  BY <1>2
<1> QED BY <1>3 DEF next, o

\* Up to the limit the end of the text is not missed: one offset.
LEMMA Together ==
    ASSUME NEW x \in Texts, NEW y \in Texts, NEW n \in 0 .. Limit(x) - 1, NEW address,
           NEW u, NEW v, Sound(u, n, Limit(x)), Sound(v, n, Len(x \o y)), Alike(u, v),
           u.consumed = Limit(x), v.consumed = Len(x \o y),
           Pass(x, Limit(x), address, More, u, n).consumed = Limit(x)
    PROVE  /\ Alike(Pass(x, Limit(x), address, More, u, n),
                    Pass(x \o y, Len(x \o y), address, NoMore, v, n))
           /\ Pass(x \o y, Len(x \o y), address, NoMore, v, n).consumed = Len(x \o y)
<1> DEFINE z == x \o y
           k == Limit(x)
           a == Pass(x, k, address, More, u, n)
           b == Pass(z, Len(z), address, NoMore, v, n)
<1>1. /\ Len(x) \in Nat /\ Len(x) <= Len(z) /\ Len(z) \in Nat /\ z \in Texts
      /\ \A m \in 1 .. Len(x) : z[m] = x[m]
  BY FirstOfJoined
<1>2. k \in 0 .. Len(x)
  BY LimitIs
<1>3. n \in Nat /\ n < k /\ n \in 0 .. Len(x)
  BY <1>1, <1>2
<1>4. /\ u \in States(k) /\ v \in States(Len(z))
      /\ u.cursor \in Nat /\ u.scan \in Nat /\ u.cursor <= u.scan
  BY DEF Sound, States
<1>5. u.scan = v.scan /\ u.cursor = v.cursor /\ u.out = v.out
  BY DEF Alike
<1>6. Occurring(z, n) \subseteq Occurring(x, n)
  BY OccursInFirst
<1>7. ~(u.consumed < k) /\ ~(v.consumed < Len(z))
  BY <1>1, <1>2
<1>8. a.consumed = k /\ u.consumed = k /\ v.consumed = Len(z)
  OBVIOUS
<1>9. CASE n < u.scan \/ Occurring(x, n) = {}
  <2>1. n < v.scan \/ Occurring(z, n) = {}
    BY <1>5, <1>6, <1>9
  <2>2. a = u
    BY <1>9, PassStays
  <2>3. b = v
    BY <2>1, PassStays
  <2> HIDE DEF a, b, z, k
  <2> QED BY <1>5, <1>8, <2>2, <2>3 DEF Alike, a, b, z, k
<1>10. CASE ~(n < u.scan) /\ Occurring(x, n) # {}
  <2>1. PICK r \in Occurring(x, n) : TRUE
    BY <1>10
  <2> DEFINE end == n + Len(r.from)
  <2>2. end = n + Len(r.from) /\ ~(n < v.scan) /\ ~(n < u.scan)
    BY <1>5, <1>10
  <2>3. Len(r.from) \in Nat \ {0} /\ end \in Nat
    BY <1>3, <2>1, TargetIs, RuleIs
  <2> HIDE DEF end
  <2>4. a = IF HeldBack(x, k, More, end) THEN KeptBack(u, n)
            ELSE IF InAddress(x, address, n, end) THEN LeftAlone(u, end)
            ELSE Replaced(x, u, n, end, r.to)
    BY <1>7, <2>1, <2>2, PassMeets
  <2>5. ~HeldBack(x, k, More, end)
    <3> SUFFICES ASSUME HeldBack(x, k, More, end) PROVE FALSE
      OBVIOUS
    <3> HIDE DEF a, k
    <3>1. a = [scan |-> u.scan, cursor |-> u.cursor, consumed |-> n, out |-> u.out]
      BY <1>4, <2>4, Becomes
    <3> QED BY <1>3, <1>8, <3>1
  <2>6. end <= k
    BY <1>1, <1>2, <2>3, <2>5 DEF HeldBack, More, NoMore
  <2>7. /\ r \in Occurring(z, n)
        /\ InAddress(x, address, n, end) <=> InAddress(z, address, n, end)
    BY <2>1, <2>2, <2>6, OccursInWhole
  <2>8. b = IF HeldBack(z, Len(z), NoMore, end) THEN KeptBack(v, n)
            ELSE IF InAddress(z, address, n, end) THEN LeftAlone(v, end)
            ELSE Replaced(z, v, n, end, r.to)
    BY <1>7, <2>2, <2>7, PassMeets
  <2>9. ~HeldBack(z, Len(z), NoMore, end)
    <3>1. ~(end > Len(z))
      BY <1>1, <1>2, <2>3, <2>6
    <3> QED BY <3>1 DEF HeldBack, More, NoMore
  <2>10. Slice(z, u.cursor, n) = Slice(x, u.cursor, n)
    <3>1. u.cursor <= n
      BY <1>3, <1>4, <2>2
    <3>2. n \in u.cursor .. Len(x)
      BY <1>1, <1>3, <1>4, <3>1
    <3> QED BY <1>4, <3>2, SliceOfFirst
  <2> HIDE DEF a, b, k, z
  <2>11. CASE InAddress(x, address, n, end)
    <3>1. a = [scan |-> end, cursor |-> u.cursor, consumed |-> u.consumed, out |-> u.out]
      BY <1>4, <2>4, <2>5, <2>11, Becomes
    <3>2. b = [scan |-> end, cursor |-> v.cursor, consumed |-> v.consumed, out |-> v.out]
      BY <1>4, <2>7, <2>8, <2>9, <2>11, Becomes
    <3> QED BY <1>5, <1>8, <3>1, <3>2 DEF Alike, a, b, k, z
  <2>12. CASE ~InAddress(x, address, n, end)
    <3>1. a = Replaced(x, u, n, end, r.to)
      BY <2>4, <2>5, <2>12
    <3>2. b = Replaced(z, v, n, end, r.to)
      BY <2>7, <2>8, <2>9, <2>12
    <3>3. /\ a.scan = end /\ a.cursor = end
          /\ a.out = OutWith(x, u, n, r.to)
      BY <1>4, <3>1, ReplacedAs
    <3>4. /\ b.scan = end /\ b.cursor = end /\ b.consumed = v.consumed
          /\ b.out = OutWith(z, v, n, r.to)
      BY <1>4, <3>2, ReplacedAs
    <3>5. v.out = u.out /\ Slice(z, v.cursor, n) = Slice(x, u.cursor, n)
      BY <1>5, <2>10
    <3>6. a.out = b.out
      BY <3>3, <3>4, <3>5 DEF OutWith
    <3>7. b.consumed = Len(z) /\ a.scan = b.scan /\ a.cursor = b.cursor
      BY <1>8, <3>3, <3>4
    <3> QED BY <3>6, <3>7 DEF Alike, a, b, k, z
  <2> QED BY <2>11, <2>12
<1> QED BY <1>9, <1>10

\* A pass starts at its start.
LEMMA PassingStarts ==
    ASSUME NEW k \in Nat, NEW text, NEW limit, NEW address, NEW final, NEW f,
           Passing(f, k, text, limit, address, final)
    PROVE  f[0] = StartAt(limit)
<1>1. \A n \in 0 .. k : f[n] = IF n = 0 THEN StartAt(limit)
                                ELSE Pass(text, limit, address, final, f[n - 1], n - 1)
  BY DEF Passing
<1> QED BY <1>1

\* Up to what the beginning lets out.
LEMMA AlikeToTheCut ==
    ASSUME NEW x \in Texts, NEW y \in Texts, NEW address, NEW f, NEW g,
           Passing(f, Limit(x), x, Limit(x), address, More),
           Passing(g, Len(x \o y), x \o y, Len(x \o y), address, NoMore)
    PROVE  \A n \in 0 .. f[Limit(x)].consumed :
             Alike(f[n], g[n]) /\ g[n].consumed = Len(x \o y)
<1> DEFINE z == x \o y
           limit == Limit(x)
           k == f[limit].consumed
<1>1. Len(x) \in Nat /\ Len(x) <= Len(z) /\ Len(z) \in Nat /\ z \in Texts
  BY FirstOfJoined
<1>2. limit \in 0 .. Len(x) /\ Len(z) \in 0 .. Len(z)
  BY <1>1, LimitIs
<1>3. /\ \A n \in 0 .. limit : Sound(f[n], n, limit)
      /\ \A n \in 0 .. limit - 1 : f[n + 1] = Pass(x, limit, address, More, f[n], n)
  BY <1>2, PassingIs
<1>4. /\ \A n \in 0 .. Len(z) : Sound(g[n], n, Len(z))
      /\ \A n \in 0 .. Len(z) - 1 : g[n + 1] = Pass(z, Len(z), address, NoMore, g[n], n)
  <2>1. Passing(g, Len(z), z, Len(z), address, NoMore)
    OBVIOUS
  <2> HIDE DEF z
  <2> QED BY <1>1, <1>2, <2>1, PassingIs
<1>5. k \in 0 .. limit /\ \A n \in 0 .. k : f[n].consumed = limit
  BY <1>2, StopsOnce
<1>6. f[0] = StartAt(limit) /\ g[0] = StartAt(Len(z))
  <2>1. limit \in Nat /\ Len(z) \in Nat
    BY <1>1, <1>2
  <2>2. f[0] = StartAt(limit)
    BY <2>1, PassingStarts
  <2>3. g[0] = StartAt(Len(z))
    BY <2>1, PassingStarts
  <2> QED BY <2>2, <2>3
<1> DEFINE S == {n \in 0 .. k : ~(Alike(f[n], g[n]) /\ g[n].consumed = Len(z))}
<1> HIDE DEF k, limit, z
<1>7. ASSUME S # {} PROVE FALSE
  <2>1. S \subseteq Nat
    BY <1>1, <1>2, <1>5
  <2>2. PICK m \in S : \A w \in S : m <= w
    BY <1>7, <2>1, LeastOf
  <2>3. m \in 0 .. k /\ ~(Alike(f[m], g[m]) /\ g[m].consumed = Len(z))
    BY <2>2
  <2>4. m # 0
    <3>1. Alike(f[0], g[0]) /\ g[0].consumed = Len(z)
      BY <1>6 DEF Alike, StartAt
    <3> QED BY <2>3, <3>1
  <2> DEFINE n == m - 1
  <2>5. /\ n \in 0 .. k /\ n \notin S /\ n \in 0 .. limit - 1 /\ n \in 0 .. Len(z) - 1
        /\ n \in 0 .. limit /\ n \in 0 .. Len(z) /\ n + 1 = m
    BY <1>1, <1>2, <1>5, <2>2, <2>3, <2>4
  <2> HIDE DEF n
  <2>6. Alike(f[n], g[n]) /\ g[n].consumed = Len(z)
    BY <2>5
  <2> HIDE DEF S
  <2>7. /\ Sound(f[n], n, limit) /\ Sound(g[n], n, Len(z))
        /\ f[m] = Pass(x, limit, address, More, f[n], n)
        /\ g[m] = Pass(z, Len(z), address, NoMore, g[n], n)
    BY <1>3, <1>4, <2>5
  <2>8. f[n].consumed = limit /\ f[m].consumed = limit
    BY <1>5, <2>3, <2>5
  <2>9. Alike(f[m], g[m]) /\ g[m].consumed = Len(z)
    BY <2>5, <2>6, <2>7, <2>8, Together DEF limit, z
  <2> QED BY <2>3, <2>9
<1> QED BY <1>7 DEF k, limit, z

\* No name is one letter repeated, unless that letter is one of identifiers: of
\* such a name the pass over the whole knows the letter before it, and the pass
\* over the rest does not.  The name is what identity.target configures, by
\* default "WorkBuddy" (identity.go:106-108).
Plain ==
  \A r \in Rules : \/ r.from[1] \in Identifiers
                   \/ \E i \in 1 .. Len(r.from) : r.from[i] # r.from[1]

\* A cut that would leave a name with another boundary than it has in the whole
\* is not made.
LEMMA CutBoundary ==
    ASSUME Plain, NEW x \in Texts, NEW y \in Texts, NEW k \in 1 .. Limit(x), NEW r \in Rules,
           k = Limit(x) \/ Occurring(x, k) # {},
           k + Len(r.from) <= Len(x \o y),
           \A m \in 1 .. Len(r.from) : (x \o y)[k + m] = r.from[m],
           k + Len(r.from) < Len(x \o y) => (x \o y)[k + Len(r.from) + 1] \notin Identifiers
    PROVE  (x \o y)[k] \notin Identifiers
<1> DEFINE z == x \o y
           l == Len(r.from)
           limit == Limit(x)
<1>1. /\ Len(x) \in Nat /\ Len(x) <= Len(z) /\ Len(z) \in Nat /\ z \in Texts
      /\ \A m \in 1 .. Len(x) : z[m] = x[m]
  BY FirstOfJoined
<1>2. /\ limit \in 0 .. Len(x) /\ (limit = 0 \/ limit < Len(x))
      /\ \A s \in 0 .. Len(x) - 1 : Undecided(x, s) => limit <= Before(s)
      /\ \/ limit = 0
         \/ limit = Len(x) - 1
         \/ \E s \in 0 .. Len(x) - 1 : Undecided(x, s) /\ limit = Before(s)
  BY LimitIs
<1>3. k \in Nat /\ 0 < k /\ k <= limit /\ k < Len(x) /\ limit < Len(x) /\ limit # 0
  BY <1>1, <1>2
<1>4. l \in Nat \ {0} /\ \A q \in Rules : q = r
  BY RuleIs
<1>5. k + l <= Len(z) /\ \A m \in 1 .. l : z[k + m] = r.from[m]
  OBVIOUS
<1>6. k + l < Len(z) => z[k + l + 1] \notin Identifiers
  OBVIOUS
<1>7. k = limit \/ Occurring(x, k) # {}
  OBVIOUS
<1>8. r.from[1] \in Identifiers \/ \E i \in 1 .. l : r.from[i] # r.from[1]
  BY DEF Plain
<1>20. ASSUME NEW s \in 0 .. Len(x) - 1, Len(x) - s <= l,
              \A m \in 1 .. Len(x) - s : x[s + m] = r.from[m]
       PROVE  Undecided(x, s)
  BY <1>20, UndecidedIs
<1>21. ASSUME NEW s \in 0 .. Len(x) - 1, Undecided(x, s)
       PROVE  \A m \in 1 .. Len(x) - s : m <= l => x[s + m] = r.from[m]
  <2>1. PICK q \in Rules : \A m \in 1 .. Len(x) - s : m <= Len(q.from) => x[s + m] = q.from[m]
    BY <1>21, UndecidedIs
  <2>2. q = r
    BY <1>4
  <2> QED BY <2>1, <2>2
<1> HIDE DEF z, l, limit
<1>9. CASE k # limit
  <2>1. PICK q \in Occurring(x, k) : TRUE
    BY <1>7, <1>9
  <2>2. q \in Rules
    BY <2>1, TargetIs
  <2>3. x[k] \notin Identifiers
    BY <1>1, <1>3, <2>1, <2>2, OccurringIs
  <2>4. z[k] = x[k]
    BY <1>1, <1>3
  <2> QED BY <2>3, <2>4 DEF z
<1>10. CASE k = limit
  <2> SUFFICES FALSE
    OBVIOUS
  <2>1. ASSUME NEW m \in 1 .. l, k + m <= Len(x) PROVE x[k + m] = r.from[m]
    <3>1. k + m \in 1 .. Len(x)
      BY <1>3, <1>1, <1>4, <2>1
    <3> QED BY <1>1, <1>5, <3>1
  <2>2. k + l < Len(x)
    <3> SUFFICES ASSUME ~(k + l < Len(x)) PROVE FALSE
      OBVIOUS
    <3>1. Len(x) - k <= l /\ k \in 0 .. Len(x) - 1
      BY <1>1, <1>3, <1>4
    <3>2. ASSUME NEW m \in 1 .. Len(x) - k PROVE x[k + m] = r.from[m]
      <4>1. m \in 1 .. l /\ k + m <= Len(x)
        BY <1>1, <1>3, <1>4, <3>1
      <4> QED BY <2>1, <4>1
    <3>3. Undecided(x, k)
      BY <1>20, <3>1, <3>2
    <3>4. limit <= Before(k)
      BY <1>2, <3>1, <3>3
    <3> QED BY <1>3, <1>10, <3>4 DEF Before
  <2>3. PICK s \in 0 .. Len(x) - 1 : Undecided(x, s) /\ limit = Before(s)
    <3>1. limit # Len(x) - 1
      BY <1>1, <1>3, <1>4, <1>10, <2>2
    <3> QED BY <1>2, <1>3, <3>1
  <2>4. s = k + 1
    BY <1>1, <1>3, <1>10, <2>3 DEF Before
  <2>5. ASSUME NEW m \in 1 .. l PROVE x[k + 1 + m] = r.from[m]
    <3>1. m \in 1 .. Len(x) - s /\ m <= l
      BY <1>1, <1>3, <1>4, <2>2, <2>4
    <3>2. x[s + m] = r.from[m]
      BY <1>21, <2>3, <3>1
    <3> QED BY <2>4, <3>2
  <2>6. ASSUME NEW m \in 1 .. l, m # 1 PROVE r.from[m] = r.from[m - 1]
    <3>1. m - 1 \in 1 .. l /\ k + m <= Len(x) /\ k + 1 + (m - 1) = k + m
      BY <1>1, <1>3, <1>4, <2>2, <2>6
    <3>2. x[k + m] = r.from[m]
      BY <2>1, <3>1
    <3>3. x[k + 1 + (m - 1)] = r.from[m - 1]
      BY <2>5, <3>1
    <3> QED BY <3>1, <3>2, <3>3
  <2>7. \A i \in 1 .. l : r.from[i] = r.from[1]
    <3> DEFINE S == {i \in 1 .. l : r.from[i] # r.from[1]}
    <3> SUFFICES ASSUME S # {} PROVE FALSE
      OBVIOUS
    <3>1. S \subseteq Nat
      BY <1>4
    <3>2. PICK m \in S : \A w \in S : m <= w
      BY <3>1, LeastOf
    <3>3. m \in 1 .. l /\ r.from[m] # r.from[1] /\ m # 1
      BY <3>2
    <3>4. m - 1 \in 1 .. l /\ m - 1 \notin S
      BY <1>4, <3>2, <3>3
    <3>5. r.from[m - 1] = r.from[1]
      BY <3>4
    <3> QED BY <2>6, <3>3, <3>5
  <2>8. r.from[1] \in Identifiers
    BY <1>8, <2>7
  <2>9. l \in 1 .. l /\ k + l + 1 \in 1 .. Len(x) /\ k + l < Len(z) /\ k + 1 + l = k + l + 1
    BY <1>1, <1>3, <1>4, <2>2
  <2>10. x[k + 1 + l] = r.from[l] /\ r.from[l] = r.from[1]
    BY <2>5, <2>7, <2>9
  <2>11. z[k + l + 1] = x[k + l + 1]
    BY <1>1, <2>9
  <2> QED BY <1>6, <2>8, <2>9, <2>10, <2>11
<1> QED BY <1>9, <1>10

\* From such a cut on the same names occur.
LEMMA OccursFromCut ==
    ASSUME Plain, NEW x \in Texts, NEW y \in Texts, NEW k \in 0 .. Limit(x),
           k = Limit(x) \/ Occurring(x, k) # {},
           NEW q \in 0 .. Len(x \o y) - k, NEW r \in Rules
    PROVE  r \in Occurring(x \o y, k + q)
             <=> r \in Occurring(Slice(x \o y, k, Len(x \o y)), q)
<1> DEFINE z == x \o y
           l == Len(r.from)
           w == Slice(z, k, Len(z))
<1>1. Len(z) \in Nat /\ z \in Texts /\ Len(x) <= Len(z) /\ Len(x) \in Nat
  BY FirstOfJoined
<1>2. Limit(x) \in 0 .. Len(x)
  BY LimitIs
<1>3. /\ k \in Nat /\ k <= Len(z) /\ q \in Nat /\ k + q \in Nat /\ Len(z) \in k .. Len(z)
      /\ q <= Len(z) - k
  BY <1>1, <1>2
<1> HIDE DEF z
<1>4. /\ w \in Texts /\ Len(w) = Len(z) - k
      /\ \A n \in 1 .. Len(z) - k : w[n] = z[k + n]
  BY <1>1, <1>3, SliceIs
<1> HIDE DEF w
<1>5. l \in Nat \ {0}
  BY RuleIs
<1>6. r \in Occurring(z, k + q) <=> /\ k + q + l <= Len(z)
                                    /\ \A m \in 1 .. l : z[k + q + m] = r.from[m]
                                    /\ k + q > 0 => z[k + q] \notin Identifiers
                                    /\ k + q + l < Len(z) => z[k + q + l + 1] \notin Identifiers
  BY <1>1, <1>3, OccurringIs
<1>7. r \in Occurring(w, q) <=> /\ q + l <= Len(w)
                                /\ \A m \in 1 .. l : w[q + m] = r.from[m]
                                /\ q > 0 => w[q] \notin Identifiers
                                /\ q + l < Len(w) => w[q + l + 1] \notin Identifiers
  BY <1>3, <1>4, OccurringIs
<1>14. k > 0 /\ q = 0 /\ l + k <= Len(z) /\ (\A m \in 1 .. l : z[k + m] = r.from[m])
         /\ (k + l < Len(z) => z[k + l + 1] \notin Identifiers)
         => z[k] \notin Identifiers
  <2> SUFFICES ASSUME k > 0, l + k <= Len(z), \A m \in 1 .. l : z[k + m] = r.from[m],
                      k + l < Len(z) => z[k + l + 1] \notin Identifiers
               PROVE  z[k] \notin Identifiers
    OBVIOUS
  <2>1. k \in 1 .. Limit(x) /\ k + l <= Len(z)
    BY <1>2, <1>3, <1>5
  <2> QED BY <2>1, CutBoundary DEF z, l
<1> HIDE DEF l
<1>8. q + l <= Len(w) <=> k + q + l <= Len(z)
  BY <1>1, <1>3, <1>4, <1>5
<1>9. q + l < Len(w) <=> k + q + l < Len(z)
  BY <1>1, <1>3, <1>4, <1>5
<1>10. ASSUME q + l <= Len(w), NEW m \in 1 .. l PROVE w[q + m] = z[k + q + m]
  <2>1. q + m \in 1 .. Len(z) - k /\ k + (q + m) = k + q + m
    BY <1>1, <1>3, <1>4, <1>5, <1>10
  <2> QED BY <1>4, <2>1
<1>11. ASSUME q + l < Len(w) PROVE w[q + l + 1] = z[k + q + l + 1]
  <2>1. q + l + 1 \in 1 .. Len(z) - k /\ k + (q + l + 1) = k + q + l + 1
    BY <1>1, <1>3, <1>4, <1>5, <1>11
  <2>2. w[q + l + 1] = z[k + (q + l + 1)]
    BY <1>4, <2>1
  <2> QED BY <2>1, <2>2
<1>12. ASSUME q > 0 PROVE w[q] = z[k + q] /\ k + q > 0
  BY <1>1, <1>3, <1>4, <1>12
<1>13. q = 0 => k + q = k
  BY <1>3
<1>15. ASSUME r \in Occurring(z, k + q) PROVE r \in Occurring(w, q)
  <2>1. q + l <= Len(w) /\ \A m \in 1 .. l : w[q + m] = r.from[m]
    BY <1>6, <1>8, <1>10, <1>15
  <2>2. q > 0 => w[q] \notin Identifiers
    BY <1>6, <1>12, <1>15
  <2>3. q + l < Len(w) => w[q + l + 1] \notin Identifiers
    BY <1>6, <1>9, <1>11, <1>15
  <2> QED BY <1>7, <2>1, <2>2, <2>3
<1>16. ASSUME r \in Occurring(w, q) PROVE r \in Occurring(z, k + q)
  <2>1. k + q + l <= Len(z) /\ \A m \in 1 .. l : z[k + q + m] = r.from[m]
    BY <1>7, <1>8, <1>10, <1>16
  <2>2. k + q + l < Len(z) => z[k + q + l + 1] \notin Identifiers
    BY <1>7, <1>9, <1>11, <1>16
  <2>3. k + q > 0 => z[k + q] \notin Identifiers
    <3>1. CASE q > 0
      BY <1>7, <1>12, <1>16, <3>1
    <3>2. CASE ~(q > 0)
      <4>1. q = 0 /\ k + q = k /\ k + q + l = k + l /\ l + k = k + l
        BY <1>3, <1>5, <3>2
      <4>2. /\ l + k <= Len(z) /\ \A m \in 1 .. l : z[k + m] = r.from[m]
            /\ k + l < Len(z) => z[k + l + 1] \notin Identifiers
        BY <2>1, <2>2, <4>1
      <4> QED BY <1>14, <4>1, <4>2
    <3> QED BY <3>1, <3>2
  <2> QED BY <1>6, <2>1, <2>2, <2>3
<1>17. r \in Occurring(z, k + q) <=> r \in Occurring(w, q)
  BY <1>15, <1>16
<1> QED BY <1>17 DEF w, z

\* What comes out up to an offset if nothing more is replaced before it.
OutUpTo(text, st, n) == st.out \o Slice(text, st.cursor, n)

\* Joining texts is associative.
LEMMA JoinThree ==
    ASSUME NEW r \in Texts, NEW s \in Texts, NEW t \in Texts
    PROVE  (r \o s) \o t = r \o (s \o t)
BY ConcatAssociative DEF Texts

\* Joining nothing changes nothing.
LEMMA JoinNothing ==
    ASSUME NEW r \in Texts
    PROVE  <<>> \o r = r /\ r \o <<>> = r
BY ConcatEmptySeq DEF Texts

\* The rest of a text behind a cut
Rest(z, k) == Slice(z, k, Len(z))

\* The letters behind a cut.
LEMMA RestIs ==
    ASSUME NEW z \in Texts, NEW k \in 0 .. Len(z)
    PROVE  /\ Rest(z, k) \in Texts /\ Len(Rest(z, k)) = Len(z) - k
           /\ k \in Nat /\ Len(z) \in Nat /\ k <= Len(z)
           /\ \A n \in 1 .. Len(z) - k : Rest(z, k)[n] = z[k + n]
<1>1. Len(z) \in Nat
  BY TextIs
<1>2. k \in Nat /\ Len(z) \in k .. Len(z) /\ k <= Len(z)
  BY <1>1
<1> QED BY <1>1, <1>2, SliceIs DEF Rest

\* An occurrence behind a cut is in an address of the whole when it is in one of
\* the rest, passed from the address the cut is at.
LEMMA InAddressFromCut ==
    ASSUME NEW z \in Texts, NEW k \in 0 .. Len(z), NEW address,
           NEW q \in 0 .. Len(z) - k, NEW end \in 0 .. Len(z) - k
    PROVE  InAddress(z, address, k + q, k + end)
             <=> InAddress(Rest(z, k), advance(address, Slice(z, 0, k)), q, end)
<1> DEFINE w == Rest(z, k)
           c == advance(address, Slice(z, 0, k + q))
<1>1. /\ w \in Texts /\ Len(w) = Len(z) - k /\ k \in Nat /\ Len(z) \in Nat
      /\ \A n \in 1 .. Len(z) - k : w[n] = z[k + n]
  BY RestIs
<1>2. c = advance(advance(address, Slice(z, 0, k)), Slice(w, 0, q))
  BY AdvanceFromCut DEF Rest
<1> HIDE DEF w, c
<1>3. end \in Nat /\ k + end \in Nat
  BY <1>1
<1>4. end < Len(w) <=> k + end < Len(z)
  BY <1>1
<1>5. end < Len(w) => w[end + 1] = z[k + end + 1]
  <2> SUFFICES ASSUME end < Len(w) PROVE w[end + 1] = z[k + end + 1]
    OBVIOUS
  <2>1. end + 1 \in 1 .. Len(z) - k /\ k + (end + 1) = k + end + 1
    BY <1>1
  <2>2. w[end + 1] = z[k + (end + 1)]
    BY <1>1, <2>1
  <2> QED BY <2>1, <2>2
<1>6. end + 1 < Len(w) <=> k + end + 1 < Len(z)
  BY <1>1
<1>7. end + 1 < Len(w) => w[end + 2] = z[k + end + 2]
  <2> SUFFICES ASSUME end + 1 < Len(w) PROVE w[end + 2] = z[k + end + 2]
    OBVIOUS
  <2>1. end + 2 \in 1 .. Len(z) - k /\ k + (end + 2) = k + end + 2
    BY <1>1
  <2>2. w[end + 2] = z[k + (end + 2)]
    BY <1>1, <2>1
  <2> QED BY <2>1, <2>2
<1>8. protects(c, w, end) <=> protects(c, z, k + end)
  BY <1>1, <1>3, <1>4, <1>5, <1>6, <1>7, ProtectsIs
<1>9. InAddress(z, address, k + q, k + end) <=> protects(c, z, k + end)
  BY DEF InAddress, c
<1>10. InAddress(w, advance(address, Slice(z, 0, k)), q, end) <=> protects(c, w, end)
  BY <1>2 DEF InAddress
<1> QED BY <1>8, <1>9, <1>10 DEF w

\* The pass over the whole, and that over what is behind the cut, when o has come
\* out before it.
Moved(u, v, z, k, o) ==
  /\ u.scan = v.scan + k \/ (v.scan = 0 /\ u.scan <= k)
  /\ \/ v.cursor = 0 /\ v.out = <<>> /\ u.cursor <= k /\ OutUpTo(z, u, k) = o
     \/ u.cursor = v.cursor + k /\ u.out = o \o v.out

\* What has come out of the whole is what came out before the cut and then of the
\* rest.
LEMMA OutMoved ==
    ASSUME NEW z \in Texts, NEW k \in 0 .. Len(z), NEW o \in Texts,
           NEW u \in States(Len(z)), NEW v \in States(Len(z) - k),
           Moved(u, v, z, k, o), NEW q \in v.cursor .. Len(z) - k
    PROVE  OutUpTo(z, u, k + q) = o \o OutUpTo(Rest(z, k), v, q)
<1> DEFINE w == Rest(z, k)
<1>1. w \in Texts /\ Len(w) = Len(z) - k /\ k \in Nat /\ Len(z) \in Nat /\ k <= Len(z)
  BY RestIs
<1>2. /\ u.cursor \in Nat /\ u.out \in Texts /\ v.cursor \in Nat /\ v.out \in Texts
      /\ v.cursor \in 0 .. Len(z) - k
  BY <1>1 DEF States
<1>3. q \in Nat /\ v.cursor <= q /\ q <= Len(z) - k /\ q \in v.cursor .. Len(w)
  BY <1>1, <1>2
<1>4. Slice(w, v.cursor, q) = Slice(z, k + v.cursor, k + q)
  <2>1. q \in v.cursor .. Len(z) - k
    BY <1>3
  <2> QED BY <1>2, <2>1, SliceOfRest DEF Rest
<1>5. Slice(w, v.cursor, q) \in Texts
  BY <1>1, <1>2, <1>3, SliceIs
<1> HIDE DEF w
<1>6. CASE v.cursor = 0 /\ v.out = <<>> /\ u.cursor <= k /\ OutUpTo(z, u, k) = o
  <2> DEFINE a == Slice(z, u.cursor, k)
             b == Slice(z, k, k + q)
  <2>1. k + v.cursor = k
    BY <1>1, <1>6
  <2>2. a \o b = Slice(z, u.cursor, k + q)
    <3>1. u.cursor <= k /\ k <= k + q /\ k + q <= Len(z) /\ k + q \in Nat
      BY <1>1, <1>3, <1>6
    <3>2. u.cursor \in Nat /\ k \in Nat
      BY <1>1, <1>2
    <3> QED BY <3>1, <3>2, SliceJoin
  <2>3. a \in Texts
    <3>1. k \in u.cursor .. Len(z)
      BY <1>1, <1>2, <1>6
    <3> QED BY <1>2, <3>1, SliceIs
  <2>4. b = Slice(w, v.cursor, q) /\ b \in Texts
    BY <1>4, <1>5, <2>1
  <2>5. o = u.out \o a
    BY <1>6 DEF OutUpTo
  <2>6. OutUpTo(z, u, k + q) = u.out \o Slice(z, u.cursor, k + q)
    BY DEF OutUpTo
  <2>7. OutUpTo(w, v, q) = v.out \o Slice(w, v.cursor, q)
    BY DEF OutUpTo
  <2> HIDE DEF a, b
  <2>8. OutUpTo(w, v, q) = b
    BY <1>6, <2>4, <2>7, JoinNothing
  <2>9. u.out \o (a \o b) = (u.out \o a) \o b
    <3>1. u.out \in Texts
      BY <1>2
    <3>2. b \in Texts
      BY <2>4
    <3> QED BY <2>3, <3>1, <3>2, JoinThree
  <2> QED BY <2>2, <2>5, <2>6, <2>8, <2>9 DEF w
<1>7. CASE u.cursor = v.cursor + k /\ u.out = o \o v.out
  <2> DEFINE a == Slice(w, v.cursor, q)
  <2>1. k + v.cursor = u.cursor
    BY <1>1, <1>2, <1>7
  <2>2. OutUpTo(z, u, k + q) = u.out \o Slice(z, u.cursor, k + q)
    BY DEF OutUpTo
  <2>3. Slice(z, u.cursor, k + q) = a
    BY <1>4, <2>1
  <2>4. OutUpTo(w, v, q) = v.out \o a
    BY DEF OutUpTo
  <2>5. a \in Texts
    BY <1>5
  <2> HIDE DEF a
  <2>6. (o \o v.out) \o a = o \o (v.out \o a)
    <3> DEFINE b == v.out
    <3>1. a \in Texts /\ b \in Texts
      BY <1>2, <2>5
    <3> HIDE DEF b
    <3>2. (o \o b) \o a = o \o (b \o a)
      BY <3>1, JoinThree
    <3> QED BY <3>2 DEF b
  <2>7. OutUpTo(z, u, k + q) = (o \o v.out) \o a
    BY <1>7, <2>2, <2>3
  <2>8. o \o OutUpTo(w, v, q) = o \o (v.out \o a)
    BY <2>4
  <2> QED BY <2>6, <2>7, <2>8 DEF w
<1>8. \/ v.cursor = 0 /\ v.out = <<>> /\ u.cursor <= k /\ OutUpTo(z, u, k) = o
      \/ u.cursor = v.cursor + k /\ u.out = o \o v.out
  BY DEF Moved
<1> QED BY <1>6, <1>7, <1>8

\* One offset of the whole and of the rest keep them moved.
LEMMA MovedStep ==
    ASSUME NEW z \in Texts, NEW k \in 0 .. Len(z), NEW o \in Texts, NEW address, NEW c,
           c = advance(address, Slice(z, 0, k)),
           NEW q \in 0 .. Len(z) - k - 1, NEW u, NEW v,
           Sound(u, k + q, Len(z)), Sound(v, q, Len(z) - k), Moved(u, v, z, k, o),
           u.consumed = Len(z), v.consumed = Len(z) - k,
           \A r \in Rules : r \in Occurring(z, k + q) <=> r \in Occurring(Rest(z, k), q)
    PROVE  /\ Moved(Pass(z, Len(z), address, NoMore, u, k + q),
                    Pass(Rest(z, k), Len(z) - k, c, NoMore, v, q), z, k, o)
           /\ Pass(z, Len(z), address, NoMore, u, k + q).consumed = Len(z)
           /\ Pass(Rest(z, k), Len(z) - k, c, NoMore, v, q).consumed = Len(z) - k
<1> DEFINE w == Rest(z, k)
           lw == Len(z) - k
           a == Pass(z, Len(z), address, NoMore, u, k + q)
           b == Pass(w, lw, c, NoMore, v, q)
<1>1. w \in Texts /\ Len(w) = lw /\ k \in Nat /\ Len(z) \in Nat /\ k <= Len(z) /\ lw \in Nat
  BY RestIs
<1>2. /\ u \in States(Len(z)) /\ v \in States(lw) /\ v.out \in Texts
      /\ u.cursor \in Nat /\ u.scan \in Nat /\ u.cursor <= u.scan
      /\ v.cursor \in Nat /\ v.scan \in Nat /\ v.cursor <= v.scan
  BY <1>1 DEF Sound, States
<1>3. q \in Nat /\ q < lw /\ k + q \in Nat
  BY <1>1
<1>4. /\ u.scan = v.scan + k \/ (v.scan = 0 /\ u.scan <= k)
      /\ \/ v.cursor = 0 /\ v.out = <<>> /\ u.cursor <= k /\ OutUpTo(z, u, k) = o
         \/ u.cursor = v.cursor + k /\ u.out = o \o v.out
  BY DEF Moved
<1>5. k + q < u.scan <=> q < v.scan
  BY <1>1, <1>2, <1>3, <1>4
<1>6. /\ \A r \in Rules : r \in Occurring(z, k + q) <=> r \in Occurring(w, q)
      /\ u.consumed = Len(z) /\ v.consumed = lw /\ Moved(u, v, z, k, o)
  OBVIOUS
<1>7. ~(u.consumed < Len(z)) /\ ~(v.consumed < lw)
  BY <1>1
<1>8. CASE k + q < u.scan \/ Occurring(z, k + q) = {}
  <2>1. q < v.scan \/ Occurring(w, q) = {}
    BY <1>5, <1>6, <1>8 DEF Occurring
  <2>2. a = u
    BY <1>8, PassStays
  <2>3. b = v
    BY <2>1, PassStays
  <2> HIDE DEF a, b, w, lw
  <2> QED BY <1>6, <2>2, <2>3 DEF a, b, w, lw
<1>9. CASE ~(k + q < u.scan) /\ Occurring(z, k + q) # {}
  <2>1. PICK r \in Occurring(z, k + q) : TRUE
    BY <1>9
  <2>2. r \in Rules
    BY <2>1, TargetIs
  <2>3. r \in Occurring(w, q)
    BY <1>6, <2>1, <2>2
  <2>4. Len(r.from) \in Nat \ {0} /\ r.to \in Texts
    BY <2>2, RuleIs
  <2> DEFINE end == q + Len(r.from)
  <2>5. /\ end = q + Len(r.from) /\ k + end = k + q + Len(r.from) /\ end \in Nat
        /\ ~(q < v.scan) /\ ~(k + q < u.scan)
    <3>1. ~(q < v.scan) /\ ~(k + q < u.scan)
      BY <1>5, <1>9
    <3>2. k + end = k + q + Len(r.from) /\ end \in Nat
      <4> DEFINE l == Len(r.from)
      <4>1. k \in Nat /\ q \in Nat /\ l \in Nat
        BY <1>1, <1>3, <2>4
      <4> HIDE DEF l
      <4>2. k + (q + l) = k + q + l /\ q + l \in Nat
        BY <4>1
      <4> QED BY <4>2 DEF l
    <3> QED BY <3>1, <3>2
  <2>6. end <= lw
    <3>1. q + Len(r.from) <= Len(w)
      BY <1>1, <1>3, <2>2, <2>3, OccurringIs
    <3> QED BY <1>1, <2>5, <3>1
  <2> HIDE DEF end
  <2>7. a = IF HeldBack(z, Len(z), NoMore, k + end) THEN KeptBack(u, k + q)
            ELSE IF InAddress(z, address, k + q, k + end) THEN LeftAlone(u, k + end)
            ELSE Replaced(z, u, k + q, k + end, r.to)
    BY <1>7, <2>1, <2>5, PassMeets
  <2>8. b = IF HeldBack(w, lw, NoMore, end) THEN KeptBack(v, q)
            ELSE IF InAddress(w, c, q, end) THEN LeftAlone(v, end)
            ELSE Replaced(w, v, q, end, r.to)
    BY <1>7, <2>3, <2>5, PassMeets
  <2>9. ~HeldBack(z, Len(z), NoMore, k + end) /\ ~HeldBack(w, lw, NoMore, end)
    <3>1. ~(k + end > Len(z)) /\ ~(end > lw)
      BY <1>1, <2>5, <2>6
    <3> QED BY <3>1 DEF HeldBack, NoMore
  <2>10. InAddress(z, address, k + q, k + end) <=> InAddress(w, c, q, end)
    <3>1. q \in 0 .. Len(z) - k /\ end \in 0 .. Len(z) - k
      BY <1>1, <1>3, <2>5, <2>6
    <3> QED BY <3>1, InAddressFromCut
  <2> HIDE DEF a, b, w, lw
  <2>11. CASE InAddress(w, c, q, end)
    <3>1. a = [scan |-> k + end, cursor |-> u.cursor, consumed |-> u.consumed, out |-> u.out]
      BY <1>2, <2>7, <2>9, <2>10, <2>11, Becomes
    <3>2. b = [scan |-> end, cursor |-> v.cursor, consumed |-> v.consumed, out |-> v.out]
      BY <1>2, <2>8, <2>9, <2>11, Becomes
    <3>3. /\ a.scan = k + end /\ a.cursor = u.cursor /\ a.consumed = Len(z) /\ a.out = u.out
          /\ b.scan = end /\ b.cursor = v.cursor /\ b.consumed = lw /\ b.out = v.out
      BY <1>6, <3>1, <3>2
    <3>4. OutUpTo(z, a, k) = OutUpTo(z, u, k)
      BY <3>3 DEF OutUpTo
    <3>5. a.scan = b.scan + k
      BY <1>1, <2>5, <3>3
    <3>6. \/ b.cursor = 0 /\ b.out = <<>> /\ a.cursor <= k /\ OutUpTo(z, a, k) = o
          \/ a.cursor = b.cursor + k /\ a.out = o \o b.out
      BY <1>4, <3>3, <3>4
    <3>7. Moved(a, b, z, k, o)
      BY <3>5, <3>6 DEF Moved
    <3> QED BY <3>3, <3>7 DEF a, b, w, lw
  <2>12. CASE ~InAddress(w, c, q, end)
    <3>1. a = Replaced(z, u, k + q, k + end, r.to)
      BY <2>7, <2>9, <2>10, <2>12
    <3>2. b = Replaced(w, v, q, end, r.to)
      BY <2>8, <2>9, <2>12
    <3>3. /\ a.scan = k + end /\ a.cursor = k + end /\ a.consumed = Len(z)
          /\ a.out = OutWith(z, u, k + q, r.to)
      BY <1>2, <1>6, <3>1, ReplacedAs
    <3>4. /\ b.scan = end /\ b.cursor = end /\ b.consumed = lw
          /\ b.out = OutWith(w, v, q, r.to)
      BY <1>2, <1>6, <3>2, ReplacedAs
    <3> DEFINE p == OutUpTo(w, v, q)
    <3>5. a.out = OutUpTo(z, u, k + q) \o r.to /\ b.out = p \o r.to
      BY <3>3, <3>4 DEF OutWith, OutUpTo
    <3>6. q \in v.cursor .. Len(z) - k
      BY <1>1, <1>2, <1>3, <2>5
    <3>7. OutUpTo(z, u, k + q) = o \o p
      BY <1>2, <1>6, <3>6, OutMoved DEF w, lw
    <3>8. p \in Texts
      <4>1. q \in v.cursor .. Len(w)
        BY <1>1, <3>6 DEF lw
      <4>2. Slice(w, v.cursor, q) \in Texts
        BY <1>1, <1>2, <4>1, SliceIs
      <4> QED BY <1>2, <4>2, Joined DEF OutUpTo
    <3> HIDE DEF p
    <3>9. (o \o p) \o r.to = o \o (p \o r.to)
      <4>1. r.to \in Texts
        BY <2>4
      <4> QED BY <3>8, <4>1, JoinThree
    <3>10. a.out = o \o b.out
      BY <3>5, <3>7, <3>9
    <3>11. a.scan = b.scan + k /\ a.cursor = b.cursor + k
      BY <1>1, <2>5, <3>3, <3>4
    <3>12. Moved(a, b, z, k, o)
      BY <3>10, <3>11 DEF Moved
    <3> QED BY <3>3, <3>4, <3>12 DEF a, b, w, lw
  <2> QED BY <2>11, <2>12
<1> QED BY <1>8, <1>9

\* So do all offsets up to the end.
LEMMA MovedToTheEnd ==
    ASSUME NEW z \in Texts, NEW k \in 0 .. Len(z), NEW o \in Texts, NEW address, NEW c,
           c = advance(address, Slice(z, 0, k)), NEW g, NEW h,
           Passing(g, Len(z), z, Len(z), address, NoMore),
           Passing(h, Len(z) - k, Rest(z, k), Len(z) - k, c, NoMore),
           Moved(g[k], h[0], z, k, o), g[k].consumed = Len(z),
           \A q \in 0 .. Len(z) - k : \A r \in Rules :
             r \in Occurring(z, k + q) <=> r \in Occurring(Rest(z, k), q)
    PROVE  /\ Moved(g[Len(z)], h[Len(z) - k], z, k, o)
           /\ g[Len(z)].consumed = Len(z) /\ h[Len(z) - k].consumed = Len(z) - k
<1> DEFINE w == Rest(z, k)
           lw == Len(z) - k
           Good(q) == /\ Moved(g[k + q], h[q], z, k, o)
                      /\ g[k + q].consumed = Len(z) /\ h[q].consumed = lw
           S == {q \in 0 .. lw : ~Good(q)}
<1>1. w \in Texts /\ Len(w) = lw /\ k \in Nat /\ Len(z) \in Nat /\ k <= Len(z) /\ lw \in Nat
  BY RestIs
<1>2. /\ \A n \in 0 .. Len(z) : Sound(g[n], n, Len(z))
      /\ \A n \in 0 .. Len(z) - 1 : g[n + 1] = Pass(z, Len(z), address, NoMore, g[n], n)
  <2>1. Len(z) \in 0 .. Len(z)
    BY <1>1
  <2> QED BY <2>1, PassingIs
<1>3. /\ \A n \in 0 .. lw : Sound(h[n], n, lw)
      /\ \A n \in 0 .. lw - 1 : h[n + 1] = Pass(w, lw, c, NoMore, h[n], n)
  <2>1. lw \in 0 .. Len(w) /\ Passing(h, lw, w, lw, c, NoMore)
    BY <1>1
  <2> HIDE DEF w, lw
  <2> QED BY <1>1, <2>1, PassingIs
<1>4. Good(0)
  <2>1. h[0] = StartAt(lw)
    BY <1>1, PassingStarts
  <2>2. h[0].consumed = lw /\ k + 0 = k
    BY <1>1, <2>1 DEF StartAt
  <2> QED BY <2>2
<1>5. ASSUME NEW q \in 0 .. lw - 1, Good(q)
      PROVE  Good(q + 1)
  <2>1. /\ q \in 0 .. lw /\ k + q \in 0 .. Len(z) /\ k + q \in 0 .. Len(z) - 1
        /\ k + (q + 1) = (k + q) + 1
    BY <1>1
  <2>2. /\ Sound(g[k + q], k + q, Len(z)) /\ Sound(h[q], q, lw)
        /\ g[k + (q + 1)] = Pass(z, Len(z), address, NoMore, g[k + q], k + q)
        /\ h[q + 1] = Pass(w, lw, c, NoMore, h[q], q)
    BY <1>2, <1>3, <2>1
  <2>3. \A r \in Rules : r \in Occurring(z, k + q) <=> r \in Occurring(w, q)
    BY <2>1
  <2>4. /\ Moved(g[k + (q + 1)], h[q + 1], z, k, o)
        /\ g[k + (q + 1)].consumed = Len(z) /\ h[q + 1].consumed = lw
    BY <1>5, <2>2, <2>3, MovedStep
  <2> QED BY <2>4
<1> HIDE DEF Good, w, lw
<1>6. ASSUME S # {} PROVE FALSE
  <2>1. S \subseteq Nat
    BY <1>1
  <2>2. PICK m \in S : \A y \in S : m <= y
    BY <1>6, <2>1, LeastOf
  <2>3. m \in 0 .. lw /\ ~Good(m) /\ m # 0
    BY <1>4, <2>2
  <2>4. m - 1 \in 0 .. lw - 1 /\ m - 1 \in 0 .. lw /\ m - 1 \notin S /\ (m - 1) + 1 = m
    BY <1>1, <2>2, <2>3
  <2>5. Good(m - 1)
    BY <2>4
  <2> QED BY <1>5, <2>3, <2>4, <2>5
<1>7. lw \in 0 .. lw /\ k + lw = Len(z)
  BY <1>1 DEF lw
<1>8. Good(lw)
  BY <1>6, <1>7
<1> QED BY <1>7, <1>8 DEF Good, lw

\* The rest of two texts after one another.
LEMMA RestOfJoined ==
    ASSUME NEW x \in Texts, NEW y \in Texts, NEW k \in 0 .. Len(x)
    PROVE  /\ Rest(x, k) \in Texts /\ Rest(x, k) \o y \in Texts
           /\ Rest(x \o y, k) = Rest(x, k) \o y
<1> DEFINE z == x \o y
           r == Rest(x, k)
           w == Rest(z, k)
           s == r \o y
<1>1. /\ Len(x) \in Nat /\ Len(y) \in Nat /\ z \in Texts /\ Len(z) = Len(x) + Len(y)
      /\ \A n \in 1 .. Len(x) + Len(y) : z[n] = IF n <= Len(x) THEN x[n] ELSE y[n - Len(x)]
  BY TextIs, Joined
<1>2. /\ r \in Texts /\ Len(r) = Len(x) - k /\ k \in Nat /\ k <= Len(x)
      /\ \A n \in 1 .. Len(x) - k : r[n] = x[k + n]
  BY RestIs
<1> HIDE DEF z, r
<1>3. /\ w \in Texts /\ Len(w) = Len(z) - k
      /\ \A n \in 1 .. Len(z) - k : w[n] = z[k + n]
  <2>1. k \in 0 .. Len(z)
    BY <1>1, <1>2
  <2> QED BY <1>1, <2>1, RestIs
<1>4. /\ s \in Texts /\ Len(s) = Len(r) + Len(y)
      /\ \A n \in 1 .. Len(r) + Len(y) : s[n] = IF n <= Len(r) THEN r[n] ELSE y[n - Len(r)]
  BY <1>2, Joined
<1> HIDE DEF w, s
<1>5. Len(w) = Len(s)
  BY <1>1, <1>2, <1>3, <1>4
<1>6. ASSUME NEW n \in 1 .. Len(w) PROVE w[n] = s[n]
  <2>1. /\ n \in 1 .. Len(z) - k /\ n \in 1 .. Len(r) + Len(y) /\ k + n \in 1 .. Len(x) + Len(y)
        /\ k + n - Len(x) = n - Len(r) /\ (n <= Len(r) <=> k + n <= Len(x))
    BY <1>1, <1>2, <1>3
  <2>2. w[n] = z[k + n]
    BY <1>3, <2>1
  <2>3. CASE n <= Len(r)
    <3>1. n \in 1 .. Len(x) - k /\ k + n <= Len(x)
      BY <1>1, <1>2, <2>1, <2>3
    <3>2. z[k + n] = x[k + n] /\ r[n] = x[k + n]
      BY <1>1, <1>2, <2>1, <3>1
    <3>3. s[n] = r[n]
      BY <1>4, <2>1, <2>3
    <3> QED BY <2>2, <3>2, <3>3
  <2>4. CASE ~(n <= Len(r))
    <3>1. z[k + n] = y[k + n - Len(x)]
      BY <1>1, <2>1, <2>4
    <3>2. s[n] = y[n - Len(r)]
      BY <1>4, <2>1, <2>4
    <3> QED BY <2>1, <2>2, <3>1, <3>2
  <2> QED BY <2>3, <2>4
<1>7. w = s
  BY <1>3, <1>4, <1>5, <1>6, SameText
<1> QED BY <1>2, <1>4, <1>7 DEF w, s, z, r

\* What becomes of a text that nothing follows.
Restoring(text, address) == restoreIdentityPrefix(text, Len(text), address, NoMore).out

\* What a text lets out when more may follow, and how much of it that stands for.
LetsOut(x, address) == restoreIdentityPrefix(x, Limit(x), address, More)

\* A text that is restored up to what can be decided of it, and its rest with what
\* follows from the address it is left at, make what the whole makes.
LEMMA Cut ==
    ASSUME Plain, NEW x \in Texts, NEW y \in Texts, NEW address
    PROVE  /\ LetsOut(x, address).consumed \in 0 .. Len(x)
           /\ LetsOut(x, address).out \in Texts
           /\ Restoring(x \o y, address)
                = LetsOut(x, address).out
                    \o Restoring(Rest(x, LetsOut(x, address).consumed) \o y,
                                 advance(address, Slice(x, 0, LetsOut(x, address).consumed)))
<1> DEFINE z == x \o y
           limit == Limit(x)
           k == LetsOut(x, address).consumed
           o == LetsOut(x, address).out
           w == Rest(z, k)
           lw == Len(z) - k
           c == advance(address, Slice(z, 0, k))
<1>1. Len(x) \in Nat /\ Len(x) <= Len(z) /\ Len(z) \in Nat /\ z \in Texts
  BY FirstOfJoined
<1>2. limit \in 0 .. Len(x) /\ limit \in Nat
  BY LimitIs
<1>3. PICK f : /\ Passing(f, limit, x, limit, address, More)
               /\ LetsOut(x, address) = ResultOf(x, f[limit])
  <2>1. PICK f : /\ Passing(f, limit, x, limit, address, More)
                 /\ restoreIdentityPrefix(x, limit, address, More) = ResultOf(x, f[limit])
    <3> HIDE DEF limit
    <3> QED BY <1>2, RestoreRuns
  <2>2. LetsOut(x, address) = restoreIdentityPrefix(x, limit, address, More)
    BY DEF LetsOut
  <2> QED BY <2>1, <2>2
<1>4. k = f[limit].consumed /\ o = OutUpTo(x, f[limit], k)
  <2> DEFINE st == f[limit]
             p == OutUpTo(x, st, st.consumed)
  <2>1. ResultOf(x, st) = [out |-> p, consumed |-> st.consumed]
    BY Zenon DEF ResultOf, OutUpTo
  <2>2. LetsOut(x, address) = ResultOf(x, st)
    BY <1>3
  <2> HIDE DEF st, p
  <2>3. LetsOut(x, address).consumed = st.consumed /\ LetsOut(x, address).out = p
    BY <2>1, <2>2
  <2> QED BY <2>3 DEF st, p
<1> HIDE DEF limit, z
<1>5. PICK g : /\ Passing(g, Len(z), z, Len(z), address, NoMore)
               /\ Restoring(z, address) = ResultOf(z, g[Len(z)]).out
  BY <1>1, RestoreRuns DEF Restoring
<1>6. /\ k \in 0 .. limit
      /\ f[limit].scan = f[k].scan /\ f[limit].cursor = f[k].cursor
      /\ f[limit].out = f[k].out
      /\ k = limit \/ Occurring(x, k) # {}
  BY <1>2, <1>3, <1>4, StopsOnce
<1>7. k \in Nat /\ k \in 0 .. Len(x) /\ k \in 0 .. Len(z) /\ k \in 0 .. k
  BY <1>1, <1>2, <1>6
<1>8. Alike(f[k], g[k]) /\ g[k].consumed = Len(z)
  BY <1>3, <1>4, <1>5, <1>7, AlikeToTheCut DEF limit, z
<1>9. f[limit] \in States(limit) /\ f[limit].cursor <= f[limit].scan /\ f[limit].scan <= k
  <2>1. limit \in 0 .. limit
    BY <1>2
  <2>2. Sound(f[limit], limit, limit)
    BY <1>2, <1>3, <2>1, PassingIs
  <2> QED BY <1>4, <2>2 DEF Sound
<1>10. /\ f[limit].cursor \in Nat /\ f[limit].out \in Texts /\ f[limit].scan \in Nat
       /\ f[limit].cursor <= k
  BY <1>2, <1>7, <1>9 DEF States
<1> HIDE DEF k, o
<1>11. o \in Texts
  <2>1. k \in f[limit].cursor .. Len(x)
    BY <1>7, <1>10
  <2>2. Slice(x, f[limit].cursor, k) \in Texts
    BY <1>10, <2>1, SliceIs
  <2> QED BY <1>4, <1>10, <2>2, Joined DEF OutUpTo
<1>12. /\ w \in Texts /\ Len(w) = lw /\ lw \in Nat
  BY <1>1, <1>7, RestIs
<1> HIDE DEF w
<1>13. PICK h : /\ Passing(h, lw, w, lw, c, NoMore)
                /\ Restoring(w, c) = ResultOf(w, h[lw]).out
  <2>1. restoreIdentityPrefix(w, lw, c, NoMore).out = Restoring(w, c)
    BY <1>12 DEF Restoring
  <2> HIDE DEF lw, c
  <2>2. PICK h : /\ Passing(h, lw, w, lw, c, NoMore)
                 /\ restoreIdentityPrefix(w, lw, c, NoMore) = ResultOf(w, h[lw])
    BY <1>12, RestoreRuns
  <2> QED BY <2>1, <2>2
<1>14. g[k].scan <= k /\ g[k].cursor <= k /\ OutUpTo(z, g[k], k) = o
  <2>1. /\ g[k].scan = f[limit].scan /\ g[k].cursor = f[limit].cursor
        /\ g[k].out = f[limit].out
    BY <1>6, <1>8 DEF Alike
  <2>2. Slice(z, f[limit].cursor, k) = Slice(x, f[limit].cursor, k)
    <3>1. k \in f[limit].cursor .. Len(x)
      BY <1>7, <1>10
    <3> QED BY <1>10, <3>1, SliceOfFirst DEF z
  <2> QED BY <1>4, <1>9, <1>10, <2>1, <2>2 DEF OutUpTo
<1>15. Moved(g[k], h[0], z, k, o)
  <2>1. h[0] = StartAt(lw)
    <3> HIDE DEF lw, c
    <3> QED BY <1>12, <1>13, PassingStarts
  <2>2. h[0].scan = 0 /\ h[0].cursor = 0 /\ h[0].out = <<>>
    BY <2>1 DEF StartAt
  <2> QED BY <1>14, <2>2 DEF Moved
<1>16. \A q \in 0 .. Len(z) - k : \A r \in Rules :
         r \in Occurring(z, k + q) <=> r \in Occurring(Rest(z, k), q)
  BY <1>6, OccursFromCut DEF limit, z, Rest
<1>17. /\ Moved(g[Len(z)], h[lw], z, k, o)
       /\ g[Len(z)].consumed = Len(z) /\ h[lw].consumed = lw
  <2>1. z \in Texts /\ k \in 0 .. Len(z) /\ o \in Texts
    BY <1>1, <1>7, <1>11
  <2>2. c = advance(address, Slice(z, 0, k))
    OBVIOUS
  <2>3. Passing(g, Len(z), z, Len(z), address, NoMore) /\ g[k].consumed = Len(z)
    BY <1>5, <1>8
  <2>4. Passing(h, Len(z) - k, Rest(z, k), Len(z) - k, c, NoMore)
    BY <1>13 DEF w
  <2> HIDE DEF c
  <2>5. /\ Moved(g[Len(z)], h[Len(z) - k], z, k, o)
        /\ g[Len(z)].consumed = Len(z) /\ h[Len(z) - k].consumed = Len(z) - k
    BY <1>15, <1>16, <2>1, <2>2, <2>3, <2>4, MovedToTheEnd
  <2> QED BY <2>5
<1>18. g[Len(z)] \in States(Len(z))
  <2>1. Len(z) \in 0 .. Len(z)
    BY <1>1
  <2>2. Sound(g[Len(z)], Len(z), Len(z))
    BY <1>1, <1>5, <2>1, PassingIs
  <2> QED BY <2>2 DEF Sound
<1>19. h[lw] \in States(lw)
  <2>1. lw \in 0 .. lw /\ lw \in 0 .. Len(w)
    BY <1>12
  <2> HIDE DEF lw, c
  <2>2. Sound(h[lw], lw, lw)
    BY <1>12, <1>13, <2>1, PassingIs
  <2> QED BY <2>2 DEF Sound
<1>20. OutUpTo(z, g[Len(z)], k + lw) = o \o OutUpTo(w, h[lw], lw)
  <2>1. lw \in h[lw].cursor .. Len(z) - k
    BY <1>12, <1>19 DEF States
  <2> QED BY <1>1, <1>7, <1>11, <1>17, <1>18, <1>19, <2>1, OutMoved DEF w
<1>21. Restoring(z, address) = o \o Restoring(w, c)
  <2>1. k + lw = Len(z)
    BY <1>1, <1>7
  <2>2. Restoring(z, address) = OutUpTo(z, g[Len(z)], Len(z))
    BY <1>5, <1>17 DEF ResultOf, OutUpTo
  <2>3. Restoring(w, c) = OutUpTo(w, h[lw], lw)
    BY <1>13, <1>17 DEF ResultOf, OutUpTo
  <2> QED BY <1>20, <2>1, <2>2, <2>3
<1>22. c = advance(address, Slice(x, 0, k))
  <2>1. Slice(z, 0, k) = Slice(x, 0, k)
    BY <1>7, SliceOfFirst DEF z
  <2> QED BY <2>1
<1>23. w = Rest(x, k) \o y
  BY <1>7, RestOfJoined DEF w, z
<1>24. Restoring(z, address)
         = o \o Restoring(Rest(x, k) \o y, advance(address, Slice(x, 0, k)))
  BY <1>21, <1>22, <1>23
<1> QED BY <1>7, <1>11, <1>24 DEF k, o, z

\* Restoring a text makes a text.
LEMMA RestoringIs ==
    ASSUME NEW t \in Texts, NEW address
    PROVE  Restoring(t, address) \in Texts
<1> DEFINE l == Len(t)
<1>1. l \in Nat /\ l \in 0 .. Len(t) /\ l \in 0 .. l
  BY TextIs
<1>2. Restoring(t, address) = restoreIdentityPrefix(t, l, address, NoMore).out
  BY DEF Restoring
<1>3. PICK f : /\ Passing(f, l, t, l, address, NoMore)
               /\ restoreIdentityPrefix(t, l, address, NoMore) = ResultOf(t, f[l])
  <2> HIDE DEF l
  <2> QED BY <1>1, RestoreRuns
<1> HIDE DEF l
<1>4. Sound(f[l], l, l)
  BY <1>1, <1>3, PassingIs
<1> DEFINE st == f[l]
<1>5. /\ st.cursor \in Nat /\ st.out \in Texts /\ st.consumed \in st.cursor .. Len(t)
  BY <1>1, <1>4 DEF Sound, States
<1> HIDE DEF st
<1>6. Slice(t, st.cursor, st.consumed) \in Texts
  BY <1>5, SliceIs
<1>7. st.out \o Slice(t, st.cursor, st.consumed) \in Texts
  BY <1>5, <1>6, Joined
<1>8. ResultOf(t, st).out = st.out \o Slice(t, st.cursor, st.consumed)
  BY DEF ResultOf
<1>9. Restoring(t, address) = ResultOf(t, st).out
  BY <1>2, <1>3 DEF st
<1> QED BY <1>7, <1>8, <1>9

\* Restoring nothing makes nothing.
LEMMA RestoringNothing == ASSUME NEW address PROVE Restoring(<<>>, address) = <<>>
<1>1. <<>> \in Texts /\ Len(<<>>) = 0
  BY EmptySeq DEF Texts
<1>2. Restoring(<<>>, address) = restoreIdentityPrefix(<<>>, 0, address, NoMore).out
  BY <1>1 DEF Restoring
<1>3. PICK f : /\ Passing(f, 0, <<>>, 0, address, NoMore)
               /\ restoreIdentityPrefix(<<>>, 0, address, NoMore) = ResultOf(<<>>, f[0])
  BY RestoreRuns
<1>4. f[0] = StartAt(0)
  BY <1>3, PassingStarts
<1>5. ResultOf(<<>>, StartAt(0)).out = <<>> \o Slice(<<>>, 0, 0)
  BY DEF ResultOf, StartAt
<1>6. Slice(<<>>, 0, 0) = <<>> /\ <<>> \o <<>> = <<>>
  BY <1>1, SliceAll, JoinNothing
<1> QED BY <1>2, <1>3, <1>4, <1>5, <1>6

\* What a channel has heard, its restorer, and what it has told.
Silent == [heard |-> <<>>, restorer |-> newIdentityRestorer(TRUE), told |-> <<>>]
Hears(ch, piece) ==
  [heard    |-> ch.heard \o piece,
   restorer |-> Write(ch.restorer, piece).restorer,
   told     |-> ch.told \o Write(ch.restorer, piece).out]

\* A restorer that restores.
On == TRUE

\* What is kept back between the pieces is no longer than twice the name and a
\* letter.
Kept(ch) ==
  /\ ch.heard \in Texts /\ ch.told \in Texts /\ ch.restorer.carry \in Texts
  /\ ch.restorer = [active  |-> On, carry |-> ch.restorer.carry,
                    address |-> ch.restorer.address]
  /\ Len(ch.restorer.carry) <= 2 * Hold + 1

\* Whatever follows, restoring it behind what is kept back, from the address at
\* which that begins, ends what has been told as restoring the whole would.
Foreseen(ch) ==
  \A y \in Texts :
    ch.told \o Restoring(ch.restorer.carry \o y, ch.restorer.address)
      = Restoring(ch.heard \o y, Outside)

\* Of nothing nothing is kept.
LEMMA SilentIs == Kept(Silent) /\ Foreseen(Silent)
<1>1. <<>> \in Texts /\ Len(<<>>) = 0 /\ 0 <= 2 * Hold + 1
  BY EmptySeq, HoldIs DEF Texts
<1>2. /\ Silent.heard = <<>> /\ Silent.told = <<>>
      /\ Silent.restorer = [active |-> On, carry |-> <<>>, address |-> Outside]
      /\ Silent.restorer.carry = <<>> /\ Silent.restorer.address = Outside
  BY Zenon DEF Silent, newIdentityRestorer, On
<1>3. ASSUME NEW y \in Texts
      PROVE  <<>> \o Restoring(<<>> \o y, Outside) = Restoring(<<>> \o y, Outside)
  <2>1. <<>> \o y = y
    BY JoinNothing
  <2>2. Restoring(y, Outside) \in Texts
    BY RestoringIs
  <2>3. <<>> \o Restoring(y, Outside) = Restoring(y, Outside)
    BY <2>2, JoinNothing
  <2> QED BY <2>1, <2>3
<1>4. Kept(Silent)
  BY <1>1, <1>2 DEF Kept
<1>5. Foreseen(Silent)
  BY <1>2, <1>3 DEF Foreseen
<1> QED BY <1>4, <1>5

\* What it keeps of a piece.
Keeping(s, a, b) == [s EXCEPT !.carry = a, !.address = b]

\* The restorer after that.
LEMMA KeepingIs ==
    ASSUME NEW s, NEW x, NEW y, s = [active |-> On, carry |-> x, address |-> y],
           NEW a, NEW b
    PROVE  Keeping(s, a, b) = [active |-> On, carry |-> a, address |-> b]
<1> DEFINE t == [s EXCEPT !.carry = a]
<1>1. t = [active |-> On, carry |-> a, address |-> y]
  OBVIOUS
<1> HIDE DEF t
<1>2. [t EXCEPT !.address = b] = [active |-> On, carry |-> a, address |-> b]
  BY <1>1
<1> QED BY <1>2 DEF t, Keeping

\* What a restorer does with what it has not let out yet.
LEMMA PendingIs ==
    ASSUME NEW s, NEW carry, NEW address,
           s = [active |-> On, carry |-> carry, address |-> address], NEW p,
           NEW restored, restored = LetsOut(p, address),
           NEW a, a = Rest(p, restored.consumed),
           NEW b, b = advance(address, Slice(p, 0, restored.consumed))
    PROVE  /\ Pending(s, p).out = restored.out
           /\ Pending(s, p).restorer = [active |-> On, carry |-> a, address |-> b]
<1>1. s.address = address
  OBVIOUS
<1>3. Pending(s, p) = LetOut(s, p, restored)
  BY <1>1, Zenon DEF Pending, LetsOut, Limit, More
<1>4. /\ LetOut(s, p, restored).out = restored.out
      /\ LetOut(s, p, restored).restorer
           = Keeping(s, Rest(p, restored.consumed),
                     advance(s.address, Slice(p, 0, restored.consumed)))
  BY Zenon DEF LetOut, Rest, Keeping
<1>5. LetOut(s, p, restored).restorer = Keeping(s, a, b)
  BY <1>1, <1>4, Zenon
<1>6. Keeping(s, a, b) = [active |-> On, carry |-> a, address |-> b]
  BY KeepingIs
<1> QED BY <1>3, <1>4, <1>5, <1>6, Zenon

\* What is looked at leaves no more than the name, the letter before it and a point.
LEMMA LimitReaches ==
    ASSUME NEW x \in Texts
    PROVE  /\ Len(x) - Limit(x) <= Hold + 2
           /\ Hold = 0 => Len(x) - Limit(x) <= 1
<1>1. Len(x) \in Nat /\ Hold \in Nat /\ Limit(x) \in 0 .. Len(x)
  BY TextIs, HoldIs, LimitIs
<1>2. CASE Len(x) = 0 \/ Limit(x) = Len(x) - 1
  BY <1>1, <1>2
<1>3. CASE \E s \in 0 .. Len(x) - 1 : Undecided(x, s) /\ Limit(x) = Before(s)
  <2>1. PICK s \in 0 .. Len(x) - 1 : Undecided(x, s) /\ Limit(x) = Before(s)
    BY <1>3
  <2>2. PICK r \in Rules : Len(x) - s <= Len(r.from) + 1
    BY <2>1, UndecidedIs
  <2>3. Len(r.from) \in Nat \ {0} /\ Len(r.from) <= Hold
    BY RuleIs, HoldIs
  <2>4. Before(s) >= s - 1
    BY <1>1 DEF Before
  <2> QED BY <1>1, <2>1, <2>2, <2>3, <2>4
<1> QED BY <1>2, <1>3, LimitIs

\* What is let out is a text, and what it does not stand for is short.
LEMMA LetsOutIs ==
    ASSUME NEW x \in Texts, NEW address
    PROVE  /\ LetsOut(x, address).consumed \in 0 .. Len(x)
           /\ LetsOut(x, address).out \in Texts
           /\ Len(x) - LetsOut(x, address).consumed <= 2 * Hold + 1
<1> DEFINE limit == Limit(x)
           k == LetsOut(x, address).consumed
<1>1. /\ Len(x) \in Nat /\ Hold \in Nat /\ limit \in 0 .. Len(x) /\ limit \in Nat
      /\ limit = 0 \/ limit < Len(x)
  BY TextIs, HoldIs, LimitIs
<1>2. Len(x) - limit <= Hold + 2 /\ (Hold = 0 => Len(x) - limit <= 1)
  BY LimitReaches
<1>3. LetsOut(x, address) = restoreIdentityPrefix(x, limit, address, More)
  BY DEF LetsOut
<1> HIDE DEF limit
<1>4. PICK f : /\ Passing(f, limit, x, limit, address, More)
               /\ restoreIdentityPrefix(x, limit, address, More) = ResultOf(x, f[limit])
  BY <1>1, RestoreRuns
<1>5. k = f[limit].consumed
  <2> DEFINE st == f[limit]
  <2>1. ResultOf(x, st).consumed = st.consumed
    BY DEF ResultOf
  <2>2. LetsOut(x, address) = ResultOf(x, st)
    BY <1>3, <1>4
  <2> HIDE DEF st
  <2> QED BY <2>1, <2>2 DEF st
<1>6. /\ k \in 0 .. limit
      /\ \/ k = limit
         \/ \E r \in Occurring(x, k) : HeldBack(x, limit, More, k + Len(r.from))
  BY <1>1, <1>4, <1>5, StopsOnce
<1> HIDE DEF k
<1>7. ASSUME k = limit
      PROVE  Len(x) - k <= 2 * Hold + 1
  BY <1>1, <1>2, <1>7
<1>8. ASSUME k # limit
      PROVE  Len(x) - k <= 2 * Hold + 1
  <2>1. PICK r \in Occurring(x, k) : HeldBack(x, limit, More, k + Len(r.from))
    BY <1>6, <1>8
  <2>2. Len(r.from) \in Nat \ {0} /\ Len(r.from) <= Hold
    <3>1. r \in Rules
      BY <2>1, TargetIs
    <3> QED BY <3>1, RuleIs, HoldIs
  <2>3. k + Len(r.from) > limit \/ k + Len(r.from) = Len(x)
    BY <2>1 DEF HeldBack
  <2> QED BY <1>1, <1>2, <1>6, <2>2, <2>3
<1>9. LetsOut(x, address).out \in Texts
  <2> DEFINE st == f[limit]
  <2>1. limit \in 0 .. limit
    BY <1>1
  <2>2. Sound(st, limit, limit)
    BY <1>1, <1>4, <2>1, PassingIs
  <2>3. st.cursor \in Nat /\ st.out \in Texts /\ st.consumed \in st.cursor .. Len(x)
    BY <1>1, <2>2 DEF Sound, States
  <2>4. LetsOut(x, address) = ResultOf(x, st)
    BY <1>3, <1>4
  <2> HIDE DEF st
  <2>5. ResultOf(x, st).out = st.out \o Slice(x, st.cursor, st.consumed)
    BY DEF ResultOf
  <2>6. Slice(x, st.cursor, st.consumed) \in Texts
    BY <2>3, SliceIs
  <2>7. st.out \o Slice(x, st.cursor, st.consumed) \in Texts
    BY <2>3, <2>6, Joined
  <2> QED BY <2>4, <2>5, <2>7
<1> QED BY <1>1, <1>6, <1>7, <1>8, <1>9 DEF k

\* What a channel that hears a piece has not told of its text, and what it then
\* lets out of it.
Untold(ch, piece) == ch.restorer.carry \o piece
Lets(ch, piece)   == LetsOut(Untold(ch, piece), ch.restorer.address)

\* What becomes of a channel when it hears a piece.
LEMMA HearsIs ==
    ASSUME NEW ch, Kept(ch), NEW delta \in Texts
    PROVE  /\ Kept(Hears(ch, delta)) /\ Untold(ch, delta) \in Texts
           /\ Write(ch.restorer, delta).out = Lets(ch, delta).out
           /\ Hears(ch, delta).restorer.carry
                = Rest(Untold(ch, delta), Lets(ch, delta).consumed)
           /\ Hears(ch, delta).restorer.address
                = advance(ch.restorer.address,
                          Slice(Untold(ch, delta), 0, Lets(ch, delta).consumed))
<1> DEFINE p    == Untold(ch, delta)
           k    == LetsOut(p, ch.restorer.address).consumed
           s    == ch.restorer
           next == Hears(ch, delta)
           o    == LetsOut(p, s.address).out
           r    == Rest(p, k)
           c    == advance(s.address, Slice(p, 0, k))
<1>1. /\ ch.heard \in Texts /\ ch.told \in Texts /\ s.carry \in Texts
      /\ s = [active |-> On, carry |-> s.carry, address |-> s.address]
  BY DEF Kept
<1>2. p \in Texts /\ ch.heard \o delta \in Texts
  BY <1>1, Joined DEF Untold
<1>13. p = s.carry \o delta /\ k = LetsOut(p, s.address).consumed
  BY DEF Untold
<1> HIDE DEF p, k
<1>3. /\ Write(s, delta).out = o
      /\ Write(s, delta).restorer = [active |-> On, carry |-> r, address |-> c]
  <2> DEFINE carry    == s.carry
             address  == s.address
             restored == LetsOut(p, address)
  <2>1. s = [active |-> On, carry |-> carry, address |-> address]
    BY <1>1
  <2>2. o = restored.out /\ restored = LetsOut(p, address)
    OBVIOUS
  <2>3. r = Rest(p, restored.consumed) /\ c = advance(address, Slice(p, 0, restored.consumed))
    BY <1>13
  <2>4. Write(s, delta) = Pending(s, p)
    <3>1. s.active = TRUE
      BY <1>1 DEF On
    <3> QED BY <1>13, <3>1, Zenon DEF Write
  <2> HIDE DEF s, carry, address, restored, o, r, c
  <2>5. /\ Pending(s, p).out = restored.out
        /\ Pending(s, p).restorer = [active |-> On, carry |-> r, address |-> c]
    BY <2>1, <2>2, <2>3, PendingIs
  <2> QED BY <2>2, <2>4, <2>5
<1>4. /\ next.heard = ch.heard \o delta
      /\ next.restorer = Write(s, delta).restorer
      /\ next.told = ch.told \o Write(s, delta).out
  BY Zenon DEF Hears
<1>5. k \in 0 .. Len(p) /\ o \in Texts /\ Len(p) - k <= 2 * Hold + 1
  <2> HIDE DEF s
  <2> QED BY <1>2, <1>13, LetsOutIs
<1> HIDE DEF next, o
<1>6. r \in Texts /\ Len(r) = Len(p) - k
  BY <1>2, <1>5, RestIs
<1> HIDE DEF r, c
<1>7. next.told \in Texts
  BY <1>1, <1>3, <1>4, <1>5, Joined
<1>8. /\ next.restorer.carry = r /\ next.restorer.address = c
      /\ next.restorer = [active |-> On, carry |-> r, address |-> c]
  BY <1>3, <1>4
<1>9. Kept(next)
  BY <1>2, <1>4, <1>5, <1>6, <1>7, <1>8 DEF Kept
<1>10. o = Lets(ch, delta).out /\ k = Lets(ch, delta).consumed
  BY DEF o, k, p, s, Lets
<1>11. r = Rest(p, Lets(ch, delta).consumed)
  BY <1>10 DEF r
<1>12. c = advance(ch.restorer.address, Slice(p, 0, Lets(ch, delta).consumed))
  BY <1>10 DEF c, s
<1>14. Write(ch.restorer, delta).out = Lets(ch, delta).out
  BY <1>3, <1>10 DEF s
<1> HIDE DEF s
<1> QED BY <1>2, <1>8, <1>9, <1>11, <1>12, <1>14 DEF next, p

\* What it tells of the piece is what the whole would begin with.
LEMMA HearsForeseen ==
    ASSUME Plain, NEW ch, Kept(ch), Foreseen(ch), NEW delta \in Texts
    PROVE  Foreseen(Hears(ch, delta))
<1> DEFINE carry   == ch.restorer.carry
           address == ch.restorer.address
           p       == Untold(ch, delta)
           next    == Hears(ch, delta)
           k       == LetsOut(p, address).consumed
           o       == LetsOut(p, address).out
           r       == Rest(p, k)
           c       == advance(address, Slice(p, 0, k))
           told    == ch.told
           heard   == ch.heard
<1>1. heard \in Texts /\ told \in Texts /\ carry \in Texts
  BY DEF Kept
<1>2. \A y \in Texts : told \o Restoring(carry \o y, address) = Restoring(heard \o y, Outside)
  BY DEF Foreseen
<1>3. /\ p \in Texts /\ Write(ch.restorer, delta).out = o
      /\ next.restorer.carry = r /\ next.restorer.address = c
  BY HearsIs DEF Lets
<1>7. p = carry \o delta
  BY DEF Untold
<1> HIDE DEF p, k
<1>4. p \in Texts /\ next.heard = heard \o delta /\ next.told = told \o o
  <2>1. next.heard = ch.heard \o delta /\ next.told = ch.told \o Write(ch.restorer, delta).out
    BY Zenon DEF Hears
  <2> QED BY <1>3, <2>1
<1>5. ASSUME NEW y \in Texts
      PROVE  o \in Texts /\ r \in Texts /\ Restoring(p \o y, address) = o \o Restoring(r \o y, c)
  <2>1. /\ LetsOut(p, address).consumed \in 0 .. Len(p)
        /\ LetsOut(p, address).out \in Texts
        /\ Restoring(p \o y, address)
             = LetsOut(p, address).out
                 \o Restoring(Rest(p, LetsOut(p, address).consumed) \o y,
                              advance(address, Slice(p, 0, LetsOut(p, address).consumed)))
    <3>1. p \in Texts
      BY <1>4
    <3> HIDE DEF address
    <3> QED BY <3>1, Cut
  <2>2. r \in Texts
    BY <1>4, <2>1, RestIs DEF k
  <2> QED BY <2>1, <2>2 DEF k
<1> HIDE DEF next, o, r, c, told, heard, carry, address
<1>6. ASSUME NEW y \in Texts
      PROVE  next.told \o Restoring(next.restorer.carry \o y, next.restorer.address)
               = Restoring(next.heard \o y, Outside)
  <2> DEFINE R == Restoring(r \o y, c)
  <2>1. o \in Texts /\ r \in Texts /\ Restoring(p \o y, address) = o \o R
    BY <1>5
  <2>2. R \in Texts
    <3>1. r \o y \in Texts
      BY <2>1, Joined
    <3> QED BY <3>1, RestoringIs
  <2>3. next.told \o Restoring(next.restorer.carry \o y, next.restorer.address)
          = (told \o o) \o R
    BY <1>3, <1>4
  <2> HIDE DEF R
  <2>4. (told \o o) \o R = told \o (o \o R)
    <3>1. told \in Texts
      BY <1>1
    <3>2. o \in Texts
      BY <2>1
    <3> QED BY <2>2, <3>1, <3>2, JoinThree
  <2>5. p \o y = carry \o (delta \o y)
    <3>1. carry \in Texts
      BY <1>1
    <3>2. (carry \o delta) \o y = carry \o (delta \o y)
      BY <3>1, JoinThree
    <3> QED BY <1>7, <3>2
  <2>6. delta \o y \in Texts
    BY Joined
  <2>7. told \o Restoring(carry \o (delta \o y), address)
          = Restoring(heard \o (delta \o y), Outside)
    BY <1>2, <2>6
  <2>8. heard \o (delta \o y) = (heard \o delta) \o y
    <3>1. heard \in Texts
      BY <1>1
    <3> QED BY <3>1, JoinThree
  <2>9. told \o (o \o R) = told \o Restoring(carry \o (delta \o y), address)
    BY <2>1, <2>5
  <2>10. Restoring(next.heard \o y, Outside) = Restoring(heard \o (delta \o y), Outside)
    BY <1>4, <2>8
  <2> QED BY <2>3, <2>4, <2>7, <2>9, <2>10
<1>8. Foreseen(next)
  BY <1>6 DEF Foreseen
<1> QED BY <1>8 DEF next

\* At the end what was kept back is let out.
LEMMA FlushTells ==
    ASSUME NEW ch, Kept(ch), Foreseen(ch)
    PROVE  ch.told \o Flush(ch.restorer).out = Restored(TRUE, ch.heard)
<1> DEFINE s == ch.restorer
<1>1. /\ ch.heard \in Texts /\ ch.told \in Texts /\ s.carry \in Texts
      /\ s = [active |-> On, carry |-> s.carry, address |-> s.address]
      /\ \A y \in Texts : ch.told \o Restoring(s.carry \o y, s.address)
                             = Restoring(ch.heard \o y, Outside)
  BY DEF Kept, Foreseen
<1>2. <<>> \in Texts
  BY EmptySeq DEF Texts
<1> HIDE DEF s
<1>3. Flush(s).out = Restoring(s.carry, s.address)
  <2>1. s.active = TRUE
    BY <1>1 DEF On
  <2>2. CASE s.carry = <<>>
    <3>1. Flush(s).out = <<>>
      BY <2>2 DEF Flush
    <3>2. Restoring(s.carry, s.address) = <<>>
      BY <2>2, RestoringNothing
    <3> QED BY <3>1, <3>2
  <2>3. CASE s.carry # <<>>
    <3>1. Flush(s) = [restorer |-> newIdentityRestorer(TRUE),
                      out |-> Restoring(s.carry, s.address)]
      BY <2>1, <2>3, Zenon DEF Flush, Restoring, NoMore
    <3> QED BY <3>1
  <2> QED BY <2>2, <2>3
<1>4. s.carry \o <<>> = s.carry /\ ch.heard \o <<>> = ch.heard
  BY <1>1, JoinNothing
<1>5. ch.told \o Restoring(s.carry \o <<>>, s.address) = Restoring(ch.heard \o <<>>, Outside)
  BY <1>1, <1>2
<1>6. Restored(TRUE, ch.heard) = Restoring(ch.heard, Outside)
  BY Zenon DEF Restored, restoreIdentityText, Restoring, NoMore
<1> QED BY <1>3, <1>4, <1>5, <1>6 DEF s

\* A channel that hears n pieces.
Channel(ch, n, pieces) ==
  /\ pieces \in [1 .. n -> Texts]
  /\ ch[0] = Silent /\ \A i \in 1 .. n : ch[i] = Hears(ch[i - 1], pieces[i])

\* Both hold after every piece.
LEMMA Throughout ==
    ASSUME NEW n \in Nat, NEW pieces, NEW ch, Channel(ch, n, pieces)
    PROVE  Kept(ch[n]) /\ (Plain => Foreseen(ch[n]))
<1> DEFINE Good(i) == Kept(ch[i]) /\ (Plain => Foreseen(ch[i]))
           S       == {i \in 0 .. n : ~Good(i)}
<1>1. /\ \A i \in 1 .. n : pieces[i] \in Texts
      /\ ch[0] = Silent /\ \A i \in 1 .. n : ch[i] = Hears(ch[i - 1], pieces[i])
  BY DEF Channel
<1>2. Good(0)
  BY <1>1, SilentIs
<1>3. ASSUME NEW i \in 1 .. n, Good(i - 1)
      PROVE  Good(i)
  <2> DEFINE last == ch[i - 1]
  <2>1. Kept(last) /\ (Plain => Foreseen(last)) /\ ch[i] = Hears(last, pieces[i])
    BY <1>1, <1>3
  <2>2. pieces[i] \in Texts
    BY <1>1
  <2> HIDE DEF last
  <2>3. Kept(ch[i])
    BY <2>1, <2>2, HearsIs
  <2>4. Plain => Foreseen(ch[i])
    BY <2>1, <2>2, HearsForeseen
  <2> QED BY <2>3, <2>4
<1> HIDE DEF Good
<1>4. ASSUME S # {} PROVE FALSE
  <2>1. S \subseteq Nat
    OBVIOUS
  <2>2. PICK m \in S : \A y \in S : m <= y
    BY <1>4, <2>1, LeastOf
  <2>3. m \in 1 .. n /\ ~Good(m)
    BY <1>2, <2>2
  <2>4. m - 1 \in 0 .. n /\ m - 1 \notin S
    BY <2>2, <2>3
  <2> QED BY <1>3, <2>3, <2>4
<1>5. Good(n)
  BY <1>4
<1> QED BY <1>5 DEF Good

\* However an answer is cut into pieces, what a channel tells of them and at the
\* end is what restoring the whole of them at once gives
\* (identity_restore.go:319-320).
THEOREM PiecesAsWhole ==
    ASSUME Plain, NEW n \in Nat, NEW pieces, NEW ch, Channel(ch, n, pieces)
    PROVE  ch[n].told \o Flush(ch[n].restorer).out = Restored(TRUE, ch[n].heard)
BY Throughout, FlushTells

\* What a client was told is never taken back: whatever follows, it is the
\* beginning of what the whole gives.
THEOREM NothingTakenBack ==
    ASSUME Plain, NEW n \in Nat, NEW pieces, NEW ch, Channel(ch, n, pieces),
           NEW more \in Texts
    PROVE  \E rest \in Texts : Restored(TRUE, ch[n].heard \o more) = ch[n].told \o rest
<1> DEFINE s    == ch[n].restorer
           rest == Restoring(s.carry \o more, s.address)
<1>1. Kept(ch[n]) /\ Foreseen(ch[n])
  BY Throughout
<1>2. s.carry \in Texts /\ ch[n].told \o rest = Restoring(ch[n].heard \o more, Outside)
  BY <1>1 DEF Kept, Foreseen
<1>3. s.carry \o more \in Texts
  BY <1>2, Joined
<1>4. rest \in Texts
  BY <1>3, RestoringIs
<1>5. Restored(TRUE, ch[n].heard \o more) = Restoring(ch[n].heard \o more, Outside)
  BY Zenon DEF Restored, restoreIdentityText, Restoring, NoMore
<1> HIDE DEF rest, s
<1> QED BY <1>2, <1>4, <1>5

\* Whatever the name is, and however long the answer, no more than twice the name
\* and a letter is kept back between two pieces (carry, identity_restore.go:325).
THEOREM LittleKeptBack ==
    ASSUME NEW n \in Nat, NEW pieces, NEW ch, Channel(ch, n, pieces)
    PROVE  Len(ch[n].restorer.carry) <= 2 * Hold + 1
BY Throughout DEF Kept

-----------------------------------------------------------------------------
(* The answers of the other protocols, which are written through these       *)
(* restorers (AnswerStreams): whatever is streamed of them keeps the         *)
(* protocol.  A handler writes by emit alone, so what is shown of every      *)
(* operation is that it leaves a reader of what was written with a view that *)
(* agrees with the state (Agrees, Told).  What was written and is not read   *)
(* yet leads there (Standing).                                               *)

CONSTANTS Chunks, Declared, MaxLength
VARIABLES request, upstream, h, events, items, phase, said
Answers == INSTANCE AnswerStreams WITH wire <- events

-----------------------------------------------------------------------------
\* A sequence, whatever of.
IsSeq(q) == \E S : q \in Seq(S)

\* Two sequences after one another.
LEMMA SeqJoined ==
    ASSUME NEW a, NEW b, IsSeq(a), IsSeq(b)
    PROVE  /\ IsSeq(a \o b) /\ Len(a \o b) = Len(a) + Len(b)
           /\ Len(a) \in Nat /\ Len(b) \in Nat
           /\ \A n \in 1 .. Len(a) + Len(b) :
                (a \o b)[n] = IF n <= Len(a) THEN a[n] ELSE b[n - Len(a)]
<1>1. PICK S, T : a \in Seq(S) /\ b \in Seq(T)
  BY DEF IsSeq
<1> DEFINE U == S \cup T
<1>2. S \subseteq U /\ T \subseteq U
  OBVIOUS
<1> HIDE DEF U
<1>3. a \in Seq(U) /\ b \in Seq(U)
  <2>1. a \in Seq(U)
    BY <1>1, <1>2, SeqMonotonic
  <2>2. b \in Seq(U)
    BY <1>1, <1>2, SeqMonotonic
  <2> QED BY <2>1, <2>2
<1>4. /\ a \o b \in Seq(U) /\ Len(a \o b) = Len(a) + Len(b)
      /\ \A n \in 1 .. Len(a) + Len(b) :
           (a \o b)[n] = IF n <= Len(a) THEN a[n] ELSE b[n - Len(a)]
  BY <1>3, ConcatProperties
<1>5. Len(a) \in Nat /\ Len(b) \in Nat
  BY <1>3, LenProperties
<1> QED BY <1>4, <1>5 DEF IsSeq

\* A sequence of one, and of nothing.
LEMMA SeqOfOne ==
    ASSUME NEW e
    PROVE  IsSeq(<<e>>) /\ Len(<<e>>) = 1 /\ <<e>>[1] = e
<1>1. <<e>> \in Seq({e})
  OBVIOUS
<1> QED BY <1>1 DEF IsSeq

\* A sequence of nothing.
LEMMA SeqOfNone == IsSeq(<<>>) /\ Len(<<>>) = 0
<1>1. <<>> \in Seq({}) /\ Len(<<>>) = 0
  BY EmptySeq
<1> QED BY <1>1 DEF IsSeq

-----------------------------------------------------------------------------
(* What a reader has, and what the protocol lets it become (EventStream).  *)

Seen(known, ph) == [items |-> known, phase |-> ph]
After(v, e) == Seen(Answers!ItemsAfter(v.items, e), Answers!PhaseAfter(v.phase, e))

\* An item may be opened.
MayOpen(p, known, kind) ==
  \A i \in DOMAIN known :
    CASE p = "messages"  -> known[i].kind # "tool" => ~known[i].open
      [] p = "responses" -> kind # "tool" => known[i].kind # kind

Begins(v, w) == v.phase = "idle" /\ w.phase = "begun" /\ w.items = v.items
Opens(p, v, w, i) ==
  /\ v.phase = "begun" /\ p # "chat" /\ w.phase = v.phase
  /\ w.items[i].open /\ w.items[i].text = <<>> /\ w.items[i].sum = <<>>
  /\ MayOpen(p, v.items, w.items[i].kind)
  /\ w.items = [n \in 0 .. Cardinality(DOMAIN v.items) |->
                  IF n \in DOMAIN v.items THEN v.items[n] ELSE w.items[i]]
Grows(v, w, i) ==
  /\ v.phase = "begun" /\ w.phase = v.phase
  /\ v.items[i].open
  /\ w.items[i].kind = v.items[i].kind /\ w.items[i].call = v.items[i].call
  /\ Len(w.items[i].text) >= Len(v.items[i].text)
  /\ SubSeq(w.items[i].text, 1, Len(v.items[i].text)) = v.items[i].text
  /\ w.items = [v.items EXCEPT ![i] = w.items[i]]
Completes(v, w) ==
  /\ v.phase = "begun" /\ w.phase = "complete" /\ w.items = v.items
  /\ \A i \in DOMAIN v.items : ~v.items[i].open
Fails(v, w) == v.phase \in {"idle", "begun"} /\ w.phase = "failed" /\ w.items = v.items

MayFollow(p, v, w) ==
  \/ Begins(v, w)
  \/ \E i \in DOMAIN w.items : Opens(p, v, w, i)
  \/ \E i \in DOMAIN v.items : i \in DOMAIN w.items /\ Grows(v, w, i)
  \/ Completes(v, w)
  \/ Fails(v, w)

\* A reader who has v makes w of the events, and every one is in order.
Playing(r, p, v, evs, w) ==
  /\ r[0] = v /\ r[Len(evs)] = w
  /\ \A n \in 1 .. Len(evs) :
       r[n] = After(r[n - 1], evs[n]) /\ MayFollow(p, r[n - 1], r[n])
Plays(p, v, evs, w) == \E r : Playing(r, p, v, evs, w)

\* Who reads nothing keeps what he has.
LEMMA PlaysNothing ==
    ASSUME NEW p, NEW v
    PROVE  Plays(p, v, <<>>, v)
<1> DEFINE r == [n \in {0} |-> v]
<1>1. r[0] = v
  OBVIOUS
<1> HIDE DEF r
<1>2. Playing(r, p, v, <<>>, v)
  BY <1>1, SeqOfNone DEF Playing
<1> QED BY <1>2 DEF Plays

\* One event.
LEMMA PlaysOne ==
    ASSUME NEW p, NEW v, NEW e, MayFollow(p, v, After(v, e))
    PROVE  Plays(p, v, <<e>>, After(v, e))
<1> DEFINE w == After(v, e)
           q == <<e>>
           r == [n \in {0, 1} |-> IF n = 0 THEN v ELSE w]
<1>1. r[0] = v /\ r[1] = w
  OBVIOUS
<1>2. Len(q) = 1 /\ q[1] = e
  BY SeqOfOne
<1>3. w = After(v, e) /\ MayFollow(p, v, w)
  OBVIOUS
<1> HIDE DEF r, w, q
<1>4. \A n \in 1 .. Len(q) : r[n] = After(r[n - 1], q[n]) /\ MayFollow(p, r[n - 1], r[n])
  <2> TAKE n \in 1 .. Len(q)
  <2>1. n = 1 /\ n - 1 = 0
    BY <1>2
  <2> QED BY <1>1, <1>2, <1>3, <2>1
<1>5. Playing(r, p, v, q, w)
  BY <1>1, <1>2, <1>4 DEF Playing
<1> QED BY <1>5 DEF Plays, q, w

\* What is read in two parts is read as a whole.
LEMMA PlaysJoined ==
    ASSUME NEW p, NEW u, NEW v, NEW w, NEW a, NEW b, IsSeq(a), IsSeq(b),
           Plays(p, u, a, v), Plays(p, v, b, w)
    PROVE  Plays(p, u, a \o b, w)
<1>1. PICK r : Playing(r, p, u, a, v)
  BY DEF Plays
<1>2. PICK s : Playing(s, p, v, b, w)
  BY DEF Plays
<1> DEFINE q == a \o b
           l == Len(a)
           t == [n \in 0 .. l + Len(b) |-> IF n <= l THEN r[n] ELSE s[n - l]]
<1>3. /\ Len(q) = l + Len(b) /\ l \in Nat /\ Len(b) \in Nat
      /\ \A n \in 1 .. l + Len(b) : q[n] = IF n <= l THEN a[n] ELSE b[n - l]
  BY SeqJoined
<1>4. \A n \in 0 .. l + Len(b) : t[n] = IF n <= l THEN r[n] ELSE s[n - l]
  OBVIOUS
<1>5. /\ r[0] = u /\ r[l] = v
      /\ \A n \in 1 .. l : r[n] = After(r[n - 1], a[n]) /\ MayFollow(p, r[n - 1], r[n])
  BY <1>1 DEF Playing
<1>6. /\ s[0] = v /\ s[Len(b)] = w
      /\ \A n \in 1 .. Len(b) : s[n] = After(s[n - 1], b[n]) /\ MayFollow(p, s[n - 1], s[n])
  BY <1>2 DEF Playing
<1> HIDE DEF t, l, q
<1>7. \A n \in 0 .. Len(b) : t[l + n] = s[n]
  <2> TAKE n \in 0 .. Len(b)
  <2>1. l + n \in 0 .. l + Len(b) /\ (l + n) - l = n
    BY <1>3
  <2>2. CASE n = 0
    <3>1. l + n = l /\ l <= l
      BY <1>3, <2>2
    <3> QED BY <1>4, <1>5, <1>6, <2>1, <2>2, <3>1
  <2>3. CASE n # 0
    <3>1. ~(l + n <= l)
      BY <1>3, <2>3
    <3> QED BY <1>4, <2>1, <3>1
  <2> QED BY <2>2, <2>3
<1>8. \A n \in 0 .. l : t[n] = r[n]
  <2> TAKE n \in 0 .. l
  <2>1. n \in 0 .. l + Len(b) /\ n <= l
    BY <1>3
  <2> QED BY <1>4, <2>1
<1>9. ASSUME NEW n \in 1 .. l + Len(b)
      PROVE  t[n] = After(t[n - 1], q[n]) /\ MayFollow(p, t[n - 1], t[n])
  <2>1. CASE n <= l
    <3>1. n \in 1 .. l /\ n \in 0 .. l /\ n - 1 \in 0 .. l
      BY <1>3, <2>1
    <3>2. t[n] = r[n] /\ t[n - 1] = r[n - 1] /\ q[n] = a[n]
      BY <1>3, <1>8, <2>1, <3>1
    <3> QED BY <1>5, <3>1, <3>2
  <2>2. CASE ~(n <= l)
    <3> DEFINE m == n - l
    <3>1. m \in 1 .. Len(b) /\ m \in 0 .. Len(b) /\ m - 1 \in 0 .. Len(b)
      BY <1>3, <2>2
    <3>2. l + m = n /\ l + (m - 1) = n - 1
      BY <1>3
    <3>3. q[n] = b[m]
      BY <1>3, <2>2
    <3> HIDE DEF m
    <3>4. t[n] = s[m] /\ t[n - 1] = s[m - 1]
      BY <1>7, <3>1, <3>2
    <3> QED BY <1>6, <3>1, <3>3, <3>4
  <2> QED BY <2>1, <2>2
<1>10. t[0] = u /\ t[Len(q)] = w
  <2>1. 0 \in 0 .. l /\ Len(b) \in 0 .. Len(b)
    BY <1>3
  <2> QED BY <1>3, <1>5, <1>6, <1>7, <1>8, <2>1
<1>11. Playing(t, p, u, q, w)
  BY <1>3, <1>9, <1>10 DEF Playing
<1> QED BY <1>11 DEF Plays, q

\* The first event, and the others.
LEMMA PlaysFirst ==
    ASSUME NEW p, NEW v, NEW q, NEW w, IsSeq(q), q # <<>>, Plays(p, v, q, w)
    PROVE  /\ MayFollow(p, v, After(v, Head(q)))
           /\ Plays(p, After(v, Head(q)), Tail(q), w) /\ IsSeq(Tail(q))
<1>1. PICK S : q \in Seq(S)
  BY DEF IsSeq
<1>2. /\ Tail(q) \in Seq(S) /\ Len(Tail(q)) = Len(q) - 1 /\ Head(q) = q[1]
      /\ \A n \in 1 .. Len(Tail(q)) : Tail(q)[n] = q[n + 1]
      /\ Len(q) \in Nat /\ Len(q) >= 1
  <2>1. Tail(q) \in Seq(S) /\ Head(q) = q[1] /\ Len(Tail(q)) = Len(q) - 1
    BY <1>1, HeadTailProperties
  <2>2. \A n \in 1 .. Len(Tail(q)) : Tail(q)[n] = q[n + 1]
    BY <1>1, HeadTailProperties
  <2>3. Len(q) \in Nat /\ Len(q) >= 1
    BY <1>1, EmptySeq, LenProperties
  <2> QED BY <2>1, <2>2, <2>3
<1>3. PICK r : Playing(r, p, v, q, w)
  BY DEF Plays
<1> DEFINE b == Tail(q)
           x == After(v, Head(q))
           s == [n \in 0 .. Len(b) |-> r[n + 1]]
<1>4. /\ r[0] = v /\ r[Len(q)] = w
      /\ \A n \in 1 .. Len(q) : r[n] = After(r[n - 1], q[n]) /\ MayFollow(p, r[n - 1], r[n])
  BY <1>3 DEF Playing
<1>5. r[1] = x /\ MayFollow(p, v, x)
  <2>1. 1 \in 1 .. Len(q) /\ 1 - 1 = 0
    BY <1>2
  <2> QED BY <1>2, <1>4, <2>1
<1>6. \A n \in 0 .. Len(b) : s[n] = r[n + 1]
  OBVIOUS
<1> HIDE DEF s, x
<1>7. s[0] = x /\ s[Len(b)] = w
  BY <1>2, <1>4, <1>5, <1>6
<1>8. ASSUME NEW n \in 1 .. Len(b)
      PROVE  s[n] = After(s[n - 1], b[n]) /\ MayFollow(p, s[n - 1], s[n])
  <2>1. n + 1 \in 1 .. Len(q) /\ (n + 1) - 1 = n /\ n \in 0 .. Len(b)
        /\ n - 1 \in 0 .. Len(b) /\ (n - 1) + 1 = n
    BY <1>2
  <2> QED BY <1>2, <1>4, <1>6, <2>1
<1>9. Playing(s, p, x, b, w)
  BY <1>7, <1>8 DEF Playing
<1> QED BY <1>2, <1>5, <1>9 DEF Plays, IsSeq, x

-----------------------------------------------------------------------------
(* What the handler keeps.  *)

IsState(s) ==
  s = [started |-> s.started, next |-> s.next, slot |-> s.slot, held |-> s.held,
       tools |-> s.tools, order |-> s.order, finish |-> s.finish, out |-> s.out]
Then(a, b) == a \o b

\* What every operation leaves alone, but for the fields that are named.
SameTools(s, t) == t.tools = s.tools /\ t.order = s.order
SameEnds(s, t) == t.started = s.started /\ t.finish = s.finish
SameTexts(s, t) == t.slot = s.slot /\ t.held = s.held

\* A slot, or a call, written.
Rewritten(f, k, b) == [f EXCEPT ![k].buf = b]
Shut(f, k)         == [f EXCEPT ![k].open = FALSE]
Started(f, k, n)   == [f EXCEPT ![k] = [open |-> TRUE, index |-> n, buf |-> <<>>]]
Indexed(f, i, n)   == [f EXCEPT ![i].index = n]
HeldAs(f, k, r)    == [f EXCEPT ![k] = r]

\* What each operation makes of the state, field by field: events are written.
LEMMA EmitIs ==
    ASSUME NEW s, IsState(s), NEW evs, NEW t, t = Answers!emit(s, evs)
    PROVE  /\ IsState(t) /\ t.out = Then(s.out, evs) /\ t.next = s.next
           /\ SameTools(s, t) /\ SameEnds(s, t) /\ SameTexts(s, t)
BY DEF Answers!emit, IsState, Then, SameTools, SameEnds, SameTexts

\* A text gets a block or an item.
LEMMA OpenSlotIs ==
    ASSUME NEW s, IsState(s), NEW k, NEW t, t = Answers!OpenSlot(s, k)
    PROVE  /\ IsState(t) /\ t.out = Then(s.out, Answers!Opened(s.next, k, Answers!NoCall))
           /\ t.next = s.next + 1 /\ t.held = s.held
           /\ t.slot = Started(s.slot, k, s.next)
           /\ SameTools(s, t) /\ SameEnds(s, t)
<1> DEFINE x  == [open |-> TRUE, index |-> s.next, buf |-> <<>>]
           n  == s.next + 1
           u1 == [s EXCEPT !.slot[k] = x]
           u  == [u1 EXCEPT !.next = n]
<1>1. t = Answers!emit(u, Answers!Opened(s.next, k, Answers!NoCall))
  BY DEF Answers!OpenSlot
<1> HIDE DEF n, x
<1>2. /\ IsState(u1) /\ u1.out = s.out /\ u1.next = s.next /\ u1.held = s.held
      /\ u1.slot = [s.slot EXCEPT ![k] = x] /\ SameTools(s, u1) /\ SameEnds(s, u1)
  BY DEF IsState, SameTools, SameEnds
<1> HIDE DEF u1
<1>3. /\ IsState(u) /\ u.out = u1.out /\ u.next = n /\ u.held = u1.held
      /\ u.slot = u1.slot /\ SameTools(u1, u) /\ SameEnds(u1, u)
  BY <1>2 DEF IsState, SameTools, SameEnds
<1> HIDE DEF u
<1>4. /\ IsState(t) /\ t.out = Then(u.out, Answers!Opened(s.next, k, Answers!NoCall)) /\ t.next = u.next
      /\ SameTools(u, t) /\ SameEnds(u, t) /\ SameTexts(u, t)
  BY <1>1, <1>3, EmitIs
<1> QED BY <1>2, <1>3, <1>4 DEF SameTools, SameEnds, SameTexts, Started, n, x

\* What a restorer lets out is said.
LEMMA SayWrittenIs ==
    ASSUME NEW s, IsState(s), NEW k, NEW w, NEW t, t = Answers!SayWritten(s, k, w)
    PROVE  /\ IsState(t) /\ t.out = Then(s.out, Answers!Delta(s.slot[k].index, k, w.out))
           /\ t.next = s.next /\ t.held = HeldAs(s.held, k, w.restorer)
           /\ t.slot = Rewritten(s.slot, k, Then(s.slot[k].buf, w.out))
           /\ SameTools(s, t) /\ SameEnds(s, t)
<1> DEFINE b  == Then(s.slot[k].buf, w.out)
           u1 == [s EXCEPT !.held[k] = w.restorer]
           u  == [u1 EXCEPT !.slot[k].buf = Then(@, w.out)]
<1>1. t = Answers!emit(u, Answers!Delta(s.slot[k].index, k, w.out))
  BY DEF Answers!SayWritten, Then
<1>2. /\ IsState(u1) /\ u1.out = s.out /\ u1.next = s.next /\ u1.slot = s.slot
      /\ u1.held = [s.held EXCEPT ![k] = w.restorer] /\ SameTools(s, u1) /\ SameEnds(s, u1)
  BY DEF IsState, SameTools, SameEnds
<1> HIDE DEF u1
<1>3. /\ IsState(u) /\ u.out = s.out /\ u.next = s.next /\ u.held = u1.held
      /\ u.slot = [s.slot EXCEPT ![k].buf = b] /\ SameTools(s, u) /\ SameEnds(s, u)
  BY <1>2 DEF IsState, SameTools, SameEnds
<1> HIDE DEF u
<1>4. /\ IsState(t) /\ t.out = Then(u.out, Answers!Delta(s.slot[k].index, k, w.out))
      /\ t.next = u.next
      /\ SameTools(u, t) /\ SameEnds(u, t) /\ SameTexts(u, t)
  BY <1>1, <1>3, EmitIs
<1> QED BY <1>2, <1>3, <1>4 DEF SameTools, SameEnds, SameTexts, Rewritten, HeldAs

\* The block or item of a text is closed.
LEMMA CloseSlotIs ==
    ASSUME NEW s, IsState(s), NEW k, NEW t, t = Answers!CloseSlot(s, k)
    PROVE  /\ IsState(t) /\ t.out = Then(s.out, Answers!Closed(s.slot[k].index, k))
           /\ t.next = s.next /\ t.held = s.held
           /\ t.slot = Shut(s.slot, k)
           /\ SameTools(s, t) /\ SameEnds(s, t)
<1> DEFINE f == [s.slot EXCEPT ![k].open = FALSE]
           u == [s EXCEPT !.slot = f]
<1>1. t = Answers!emit(u, Answers!Closed(s.slot[k].index, k))
  BY DEF Answers!CloseSlot
<1> HIDE DEF f
<1>2. /\ IsState(u) /\ u.out = s.out /\ u.next = s.next /\ u.held = s.held
      /\ u.slot = f /\ SameTools(s, u) /\ SameEnds(s, u)
  BY DEF IsState, SameTools, SameEnds
<1> HIDE DEF u
<1>3. /\ IsState(t) /\ t.out = Then(u.out, Answers!Closed(s.slot[k].index, k)) /\ t.next = u.next
      /\ SameTools(u, t) /\ SameEnds(u, t) /\ SameTexts(u, t)
  BY <1>1, <1>2, EmitIs
<1> QED BY <1>2, <1>3 DEF SameTools, SameEnds, SameTexts, Shut, f

\* The calls, their order and the next index written at once.
Calls(s, tools, order, next) ==
  [s EXCEPT !.tools = tools, !.order = order, !.next = next]

\* Only the calls, their order and the next index change.
LEMMA CallsIs ==
    ASSUME NEW s, IsState(s), NEW a, NEW b, NEW n, NEW t, t = Calls(s, a, b, n)
    PROVE  /\ IsState(t) /\ t.out = s.out /\ t.next = n /\ t.tools = a /\ t.order = b
           /\ SameTexts(s, t) /\ SameEnds(s, t)
<1> DEFINE u1 == [s EXCEPT !.tools = a]
           u2 == [u1 EXCEPT !.order = b]
           u  == [u2 EXCEPT !.next = n]
<1>1. t = u
  BY DEF Calls
<1>2. /\ IsState(u1) /\ u1.out = s.out /\ u1.tools = a
      /\ SameTexts(s, u1) /\ SameEnds(s, u1)
  BY DEF IsState, SameTexts, SameEnds
<1> HIDE DEF u1
<1>3. /\ IsState(u2) /\ u2.out = s.out /\ u2.tools = a /\ u2.order = b
      /\ SameTexts(s, u2) /\ SameEnds(s, u2)
  BY <1>2 DEF IsState, SameTexts, SameEnds
<1> HIDE DEF u2
<1> QED BY <1>1, <1>3 DEF IsState, SameTexts, SameEnds

\* A call gets the next index.
LEMMA AddToolItemIs ==
    ASSUME NEW s, IsState(s), NEW i, NEW t, t = Answers!addToolItem(s, i)
    PROVE  /\ IsState(t) /\ t.next = s.next + 1 /\ t.order = s.order
           /\ t.out = Then(s.out, Answers!Opened(s.next, "tool", Answers!CallItem(s.tools[i].call)))
           /\ t.tools = Indexed(s.tools, i, s.next)
           /\ SameTexts(s, t) /\ SameEnds(s, t)
<1> DEFINE n  == s.next
           m  == s.next + 1
           f  == [s.tools EXCEPT ![i].index = n]
           o  == s.order
           u  == Calls(s, f, o, m)
           ev == Answers!Opened(s.next, "tool", Answers!CallItem(s.tools[i].call))
<1>1. t = Answers!emit(u, ev)
  <2>1. u = [s EXCEPT !.tools[i].index = s.next, !.next = s.next + 1]
    <3> DEFINE u1 == [s EXCEPT !.tools = f]
               u2 == [u1 EXCEPT !.next = m]
    <3>1. IsState(u1) /\ u1.tools = f /\ u1.order = s.order /\ u1.out = s.out
          /\ SameTexts(s, u1) /\ SameEnds(s, u1)
      <4> HIDE DEF f
      <4> QED BY DEF IsState, SameTexts, SameEnds
    <3>2. u2 = [s EXCEPT !.tools[i].index = s.next, !.next = s.next + 1]
      OBVIOUS
    <3> HIDE DEF u1, f, m, n
    <3>3. IsState(u2) /\ u2.tools = f /\ u2.order = s.order /\ u2.out = s.out /\ u2.next = m
          /\ SameTexts(s, u2) /\ SameEnds(s, u2)
      BY <3>1 DEF IsState, SameTexts, SameEnds
    <3> HIDE DEF u2
    <3>4. IsState(u) /\ u.tools = f /\ u.order = s.order /\ u.out = s.out /\ u.next = m
          /\ SameTexts(s, u) /\ SameEnds(s, u)
      BY CallsIs
    <3>5. u = u2
      <4> HIDE DEF u
      <4> QED BY <3>3, <3>4 DEF IsState, SameTexts, SameEnds
    <3> QED BY <3>2, <3>5
  <2> QED BY <2>1, Zenon DEF Answers!addToolItem
<1> HIDE DEF f, m, ev
<1>2. /\ IsState(u) /\ u.out = s.out /\ u.next = m /\ u.tools = f /\ u.order = o
      /\ SameTexts(s, u) /\ SameEnds(s, u)
  BY CallsIs
<1> HIDE DEF u
<1>3. /\ IsState(t) /\ t.out = Then(u.out, ev) /\ t.next = u.next
      /\ SameTools(u, t) /\ SameEnds(u, t) /\ SameTexts(u, t)
  BY <1>1, <1>2, EmitIs
<1> QED BY <1>2, <1>3 DEF SameTools, SameEnds, SameTexts, Indexed, f, m, ev

-----------------------------------------------------------------------------
(* Restorers *)

HeldOK(r) ==
  /\ r = [active |-> r.active, carry |-> r.carry, address |-> r.address]
  /\ r.active \in BOOLEAN /\ r.carry \in Texts

\* What is told of a text, and what is kept of it, are texts.
LEMMA WriteIs ==
    ASSUME NEW r, HeldOK(r), NEW delta \in Texts
    PROVE  HeldOK(Write(r, delta).restorer) /\ Write(r, delta).out \in Texts
<1>1. CASE ~r.active
  <2>1. Write(r, delta) = [restorer |-> r, out |-> delta]
    BY <1>1, Zenon DEF Write
  <2> QED BY <2>1
<1>2. CASE r.active
  <2> DEFINE carry    == r.carry
             address  == r.address
             p        == carry \o delta
             restored == LetsOut(p, address)
             a        == Rest(p, restored.consumed)
             b        == advance(address, Slice(p, 0, restored.consumed))
  <2>1. r = [active |-> On, carry |-> carry, address |-> address]
    BY <1>2 DEF HeldOK, On
  <2>2. Write(r, delta) = Pending(r, p)
    BY <1>2, Zenon DEF Write
  <2>3. carry \in Texts
    BY DEF HeldOK
  <2> HIDE DEF carry, address
  <2>4. p \in Texts
    BY <2>3, Joined
  <2> HIDE DEF p
  <2>5. restored.consumed \in 0 .. Len(p) /\ restored.out \in Texts
    BY <2>4, LetsOutIs
  <2>6. a \in Texts
    BY <2>4, <2>5, RestIs
  <2>7. restored = LetsOut(p, address) /\ a = Rest(p, restored.consumed)
        /\ b = advance(address, Slice(p, 0, restored.consumed))
    OBVIOUS
  <2> HIDE DEF restored, a, b
  <2>8. /\ Pending(r, p).out = restored.out
        /\ Pending(r, p).restorer = [active |-> On, carry |-> a, address |-> b]
    BY <2>1, <2>7, PendingIs
  <2>9. HeldOK([active |-> On, carry |-> a, address |-> b])
    <3> DEFINE q == [active |-> On, carry |-> a, address |-> b]
    <3>1. q.active = On /\ q.carry = a /\ q = [active |-> q.active, carry |-> q.carry, address |-> q.address]
      OBVIOUS
    <3> HIDE DEF q
    <3>2. HeldOK(q)
      BY <2>6, <3>1, Zenon DEF HeldOK, On
    <3> QED BY <3>2 DEF q
  <2> QED BY <2>2, <2>5, <2>8, <2>9
<1> QED BY <1>1, <1>2

\* So is what a restorer gives back at the end.
LEMMA FlushIs ==
    ASSUME NEW r, HeldOK(r)
    PROVE  HeldOK(Flush(r).restorer) /\ Flush(r).out \in Texts
<1>1. <<>> \in Texts /\ r.carry \in Texts
  BY EmptySeq DEF Texts, HeldOK
<1>2. CASE ~r.active \/ r.carry = <<>>
  <2>1. Flush(r) = [restorer |-> r, out |-> <<>>]
    BY <1>2, Zenon DEF Flush
  <2> QED BY <1>1, <2>1
<1>3. CASE ~(~r.active \/ r.carry = <<>>)
  <2> DEFINE new == newIdentityRestorer(TRUE)
             o   == Restoring(r.carry, r.address)
  <2>1. Flush(r) = [restorer |-> new, out |-> o]
    BY <1>3, Zenon DEF Flush, Restoring, NoMore
  <2>2. o \in Texts
    BY <1>1, RestoringIs
  <2>3. HeldOK(new)
    <3> DEFINE q == [active |-> On, carry |-> <<>>, address |-> Outside]
    <3>1. q.active = On /\ q.carry = <<>>
          /\ q = [active |-> q.active, carry |-> q.carry, address |-> q.address]
      OBVIOUS
    <3>2. new = q
      BY Zenon DEF newIdentityRestorer, On
    <3> HIDE DEF q, new
    <3> QED BY <1>1, <3>1, <3>2, Zenon DEF HeldOK, On
  <2> HIDE DEF new, o
  <2> QED BY <2>1, <2>2, <2>3
<1> QED BY <1>2, <1>3

-----------------------------------------------------------------------------
(* What a reader has *)

ItemOK(x) ==
  /\ x = [kind |-> x.kind, open |-> x.open, text |-> x.text, sum |-> x.sum, call |-> x.call]
  /\ x.open \in BOOLEAN /\ IsSeq(x.text)

\* A function, whatever on.
IsMap(f) == f = [i \in DOMAIN f |-> f[i]]

IsView(v) ==
  /\ v.phase = "begun" /\ IsMap(v.items)
  /\ \A i \in DOMAIN v.items : ItemOK(v.items[i])

\* One item has changed, and is open or not.
Touched(v, w, i, open) ==
  /\ w.phase = v.phase /\ DOMAIN w.items = DOMAIN v.items
  /\ IsMap(w.items)
  /\ \A j \in DOMAIN v.items : j # i => w.items[j] = v.items[j]
  /\ ItemOK(w.items[i]) /\ w.items[i].open = open
  /\ w.items[i].kind = v.items[i].kind /\ w.items[i].call = v.items[i].call

\* A text that has grown begins with what it was.
LEMMA Prefix ==
    ASSUME NEW a, NEW b, IsSeq(a), IsSeq(b), NEW c, c = Then(a, b)
    PROVE  IsSeq(c) /\ Len(c) >= Len(a) /\ SubSeq(c, 1, Len(a)) = a
<1>1. /\ IsSeq(c) /\ Len(c) = Len(a) + Len(b) /\ Len(a) \in Nat /\ Len(b) \in Nat
      /\ \A n \in 1 .. Len(a) + Len(b) : c[n] = IF n <= Len(a) THEN a[n] ELSE b[n - Len(a)]
  BY SeqJoined DEF Then
<1>2. PICK S, T : a \in Seq(S) /\ c \in Seq(T)
  BY <1>1 DEF IsSeq
<1> DEFINE l == Len(a)
           d == SubSeq(c, 1, l)
<1>3. \A n \in 1 .. l : c[n] \in T
  <2> TAKE n \in 1 .. l
  <2>1. n \in 1 .. Len(c)
    BY <1>1
  <2> QED BY <1>2, <2>1, ElementOfSeq
<1>4. /\ d \in Seq(T) /\ Len(d) = IF 1 <= l THEN l - 1 + 1 ELSE 0
      /\ \A n \in 1 .. l - 1 + 1 : d[n] = c[1 + n - 1]
  <2>1. 1 \in Int /\ l \in Int
    BY <1>1
  <2> HIDE DEF l
  <2> QED BY <1>2, <1>3, <2>1, SubSeqProperties
<1>5. Len(d) = Len(a) /\ \A n \in 1 .. Len(a) : d[n] = a[n]
  <2>1. l - 1 + 1 = l
    BY <1>1
  <2>2. \A n \in 1 .. l : 1 + n - 1 = n /\ n \in 1 .. Len(a) + Len(b) /\ n <= Len(a)
    BY <1>1
  <2>3. Len(d) = l
    BY <1>1, <1>4, <2>1
  <2>4. \A n \in 1 .. l : d[n] = c[n]
    BY <1>4, <2>1, <2>2
  <2> HIDE DEF d
  <2> QED BY <1>1, <2>2, <2>3, <2>4
<1>6. d = a
  <2> HIDE DEF d
  <2>1. d \in Seq(S \cup T) /\ a \in Seq(S \cup T)
    BY <1>2, <1>4, SeqMonotonic
  <2> QED BY <1>5, <2>1, SeqEqual
<1> QED BY <1>1, <1>6

\* An event that changes an item that is open.
LEMMA TouchIs ==
    ASSUME NEW p, NEW v, IsView(v), NEW i \in DOMAIN v.items, v.items[i].open,
           NEW e, e.index = i, e.type \in {"delta", "sum", "close"}, IsSeq(e.text),
           NEW w, w = After(v, e)
    PROVE  MayFollow(p, v, w) /\ Touched(v, w, i, e.type # "close")
<1> DEFINE x == v.items[i]
           y == Answers!Grown(x, e)
<1>1. w.items = Answers!Put(v.items, i, y) /\ w.phase = v.phase
  BY DEF After, Seen, Answers!ItemsAfter, Answers!PhaseAfter
<1>2. ItemOK(x) /\ x.open /\ x.open = TRUE
  BY DEF IsView, ItemOK
<1> HIDE DEF x
<1>3. /\ y = [kind |-> y.kind, open |-> y.open, text |-> y.text, sum |-> y.sum, call |-> y.call]
      /\ y.kind = x.kind /\ y.call = x.call /\ y.open = (e.type # "close")
      /\ y.text = x.text \/ y.text = Then(x.text, e.text)
  BY <1>2 DEF ItemOK, Answers!Grown, Then
<1> HIDE DEF y
<1>4. IsSeq(y.text) /\ Len(y.text) >= Len(x.text) /\ SubSeq(y.text, 1, Len(x.text)) = x.text
  <2>1. IsSeq(x.text)
    BY <1>2 DEF ItemOK
  <2>2. CASE y.text = x.text
    <3>1. x.text = Then(x.text, <<>>)
      <4>1. PICK S : x.text \in Seq(S)
        BY <2>1 DEF IsSeq
      <4> QED BY <4>1 DEF Then
    <3> QED BY <2>1, <2>2, <3>1, SeqOfNone, Prefix
  <2>3. CASE y.text = Then(x.text, e.text)
    BY <2>1, <2>3, Prefix
  <2> QED BY <1>3, <2>2, <2>3
<1>5. /\ DOMAIN w.items = DOMAIN v.items /\ w.items[i] = y
      /\ \A j \in DOMAIN v.items : j # i => w.items[j] = v.items[j]
      /\ IsMap(w.items)
  <2> DEFINE f == v.items
             g == w.items
  <2>1. g = Answers!Put(f, i, y) /\ i \in DOMAIN f
    BY <1>1
  <2> HIDE DEF f, g
  <2>2. /\ DOMAIN g = DOMAIN f \cup {i} /\ g[i] = y
        /\ \A j \in DOMAIN f : j # i => g[j] = f[j]
        /\ IsMap(g)
    BY <2>1 DEF Answers!Put, IsMap
  <2>3. DOMAIN f \cup {i} = DOMAIN f
    BY <2>1
  <2>4. /\ DOMAIN g = DOMAIN f /\ g[i] = y
        /\ \A j \in DOMAIN f : j # i => g[j] = f[j]
        /\ IsMap(g)
    <3>1. DOMAIN g = DOMAIN f
      BY <2>2, <2>3
    <3> QED BY <2>2, <3>1
  <2> QED BY <2>4 DEF f, g
<1>6. Touched(v, w, i, e.type # "close")
  BY <1>1, <1>3, <1>4, <1>5 DEF Touched, ItemOK, x
<1>7. w.items = [v.items EXCEPT ![i] = w.items[i]]
  BY <1>5 DEF IsView, IsMap
<1>8. Grows(v, w, i)
  BY <1>1, <1>2, <1>3, <1>4, <1>5, <1>7 DEF Grows, IsView, x
<1>9. MayFollow(p, v, w)
  BY <1>5, <1>8 DEF MayFollow
<1> QED BY <1>6, <1>9

Off == FALSE

\* The view of a reader agrees with what the handler keeps: the items are numbered
\* up to the next index, an open text is where its slot says and every other text
\* is closed (a Responses answer remembers where), and the calls in T are open, each
\* in an item of its own.
SlotsTold(v, s) ==
  \A k \in Answers!TextKinds : s.slot[k].open =>
    /\ s.slot[k].index \in DOMAIN v.items
    /\ v.items[s.slot[k].index].kind = k /\ v.items[s.slot[k].index].open
TextsTold(p, v, s) ==
  \A i \in DOMAIN v.items : v.items[i].kind # "tool" /\ (v.items[i].open \/ p = "responses") =>
    /\ v.items[i].kind \in Answers!TextKinds
    /\ s.slot[v.items[i].kind].index = i
    /\ s.slot[v.items[i].kind].open = v.items[i].open
CallsTold(v, s, T) ==
  \A x \in T :
    /\ x \in DOMAIN s.tools /\ s.tools[x].index \in DOMAIN v.items
    /\ v.items[s.tools[x].index].kind = "tool" /\ v.items[s.tools[x].index].open
CallsApart(s, T) == \A x, y \in T : s.tools[x].index = s.tools[y].index => x = y
CallsKnown(v, s, T) ==
  \A i \in DOMAIN v.items :
    v.items[i].kind = "tool" /\ v.items[i].open => \E x \in T : s.tools[x].index = i

Agrees(p, v, s, T) ==
  /\ IsView(v) /\ s.next \in Nat /\ DOMAIN v.items = 0 .. s.next - 1
  /\ SlotsTold(v, s) /\ TextsTold(p, v, s)
  /\ CallsTold(v, s, T) /\ CallsApart(s, T) /\ CallsKnown(v, s, T)

\* Two states of which one view tells the same.
Shaped(s, t, T) ==
  /\ t.next = s.next
  /\ \A k \in Answers!TextKinds :
       t.slot[k].open = s.slot[k].open /\ t.slot[k].index = s.slot[k].index
  /\ \A x \in T : x \in DOMAIN s.tools =>
       x \in DOMAIN t.tools /\ t.tools[x].index = s.tools[x].index

\* Such states agree with the same views.
LEMMA AgreesShaped ==
    ASSUME NEW p, NEW v, NEW s, NEW T, Agrees(p, v, s, T), NEW t, Shaped(s, t, T)
    PROVE  Agrees(p, v, t, T)
<1>1. SlotsTold(v, t)
  BY DEF Agrees, Shaped, SlotsTold
<1>2. TextsTold(p, v, t)
  BY DEF Agrees, Shaped, TextsTold
<1>3. CallsTold(v, t, T) /\ CallsApart(t, T)
  BY DEF Agrees, Shaped, CallsTold, CallsApart
<1>4. CallsKnown(v, t, T)
  BY DEF Agrees, Shaped, CallsKnown, CallsTold
<1> QED BY <1>1, <1>2, <1>3, <1>4 DEF Agrees, Shaped

\* An open item may say more: nothing that is kept tells of it.
LEMMA AgreesTouched ==
    ASSUME NEW p, NEW v, NEW s, NEW T, Agrees(p, v, s, T),
           NEW i \in DOMAIN v.items, v.items[i].open, NEW w, Touched(v, w, i, On)
    PROVE  Agrees(p, w, s, T)
<1>1. IsView(w) /\ DOMAIN w.items = DOMAIN v.items
  BY DEF Agrees, Touched, IsView
<1>2. \A j \in DOMAIN v.items : w.items[j].kind = v.items[j].kind /\ (w.items[j].open = v.items[j].open)
  <2> TAKE j \in DOMAIN v.items
  <2>1. CASE j = i
    <3>1. ItemOK(v.items[i])
      BY DEF Agrees, IsView
    <3> QED BY <2>1, <3>1 DEF Touched, On, ItemOK
  <2>2. CASE j # i
    BY <2>2 DEF Touched
  <2> QED BY <2>1, <2>2
<1>3. SlotsTold(w, s)
  BY <1>1, <1>2 DEF Agrees, SlotsTold
<1>4. TextsTold(p, w, s)
  BY <1>1, <1>2 DEF Agrees, TextsTold
<1>5. CallsTold(w, s, T) /\ CallsApart(s, T)
  BY <1>1, <1>2 DEF Agrees, CallsTold
<1>6. CallsKnown(w, s, T)
  BY <1>1, <1>2 DEF Agrees, CallsKnown
<1> QED BY <1>1, <1>3, <1>4, <1>5, <1>6 DEF Agrees

\* The slot of a text is closed.
LEMMA AgreesTextClosed ==
    ASSUME NEW p, NEW v, NEW s, NEW T, Agrees(p, v, s, T),
           NEW k \in Answers!TextKinds, s.slot[k].open, NEW w, Touched(v, w, s.slot[k].index, Off),
           NEW t, t.next = s.next, t.tools = s.tools,
           t.slot[k].open = Off, t.slot[k].index = s.slot[k].index,
           \A j \in Answers!TextKinds : j # k => t.slot[j] = s.slot[j]
    PROVE  Agrees(p, w, t, T)
<1> DEFINE i == s.slot[k].index
<1>1. i \in DOMAIN v.items /\ v.items[i].kind = k /\ v.items[i].open /\ k # "tool"
  BY DEF Agrees, SlotsTold, Answers!TextKinds
<1>2. IsView(w) /\ DOMAIN w.items = DOMAIN v.items
  BY DEF Agrees, Touched, IsView
<1>3. /\ \A j \in DOMAIN v.items : w.items[j].kind = v.items[j].kind
      /\ \A j \in DOMAIN v.items : j # i => w.items[j].open = v.items[j].open
      /\ w.items[i].open = Off
  BY DEF Touched
<1> HIDE DEF i
<1>4. SlotsTold(w, t)
  <2> SUFFICES ASSUME NEW j \in Answers!TextKinds, t.slot[j].open
               PROVE  /\ t.slot[j].index \in DOMAIN w.items
                      /\ w.items[t.slot[j].index].kind = j /\ w.items[t.slot[j].index].open
    BY DEF SlotsTold
  <2>1. j # k /\ t.slot[j] = s.slot[j]
    BY DEF Off
  <2>2. /\ s.slot[j].index \in DOMAIN v.items
        /\ v.items[s.slot[j].index].kind = j /\ v.items[s.slot[j].index].open
    BY <2>1 DEF Agrees, SlotsTold
  <2>3. s.slot[j].index # i
    BY <1>1, <2>1, <2>2
  <2> QED BY <1>2, <1>3, <2>1, <2>2, <2>3
<1>5. TextsTold(p, w, t)
  <2> SUFFICES ASSUME NEW j \in DOMAIN w.items, w.items[j].kind # "tool",
                      w.items[j].open \/ p = "responses"
               PROVE  /\ w.items[j].kind \in Answers!TextKinds
                      /\ t.slot[w.items[j].kind].index = j
                      /\ t.slot[w.items[j].kind].open = w.items[j].open
    BY DEF TextsTold
  <2>1. CASE j = i
    BY <1>1, <1>2, <1>3, <2>1 DEF i
  <2>2. CASE j # i
    <3>1. /\ v.items[j].kind \in Answers!TextKinds
          /\ s.slot[v.items[j].kind].index = j
          /\ s.slot[v.items[j].kind].open = v.items[j].open
      BY <1>2, <1>3, <2>2 DEF Agrees, TextsTold
    <3>2. v.items[j].kind # k
      BY <2>2, <3>1 DEF i
    <3> QED BY <1>2, <1>3, <2>2, <3>1, <3>2
  <2> QED BY <2>1, <2>2
<1>6. CallsTold(w, t, T) /\ CallsApart(t, T)
  <2>1. CallsApart(t, T)
    BY DEF Agrees, CallsApart
  <2>2. \A x \in T : s.tools[x].index # i
    BY <1>1 DEF Agrees, CallsTold
  <2>3. CallsTold(w, t, T)
    BY <1>2, <1>3, <2>2 DEF Agrees, CallsTold
  <2> QED BY <2>1, <2>3
<1>7. CallsKnown(w, t, T)
  BY <1>1, <1>2, <1>3 DEF Agrees, CallsKnown
<1> QED BY <1>2, <1>4, <1>5, <1>6, <1>7 DEF Agrees

\* The item of a call is closed.
LEMMA AgreesCallClosed ==
    ASSUME NEW p, NEW v, NEW s, NEW T, Agrees(p, v, s, T),
           NEW x \in T, NEW w, Touched(v, w, s.tools[x].index, Off)
    PROVE  Agrees(p, w, s, T \ {x})
<1> DEFINE i == s.tools[x].index
<1>1. i \in DOMAIN v.items /\ v.items[i].kind = "tool" /\ v.items[i].open
  BY DEF Agrees, CallsTold
<1>2. IsView(w) /\ DOMAIN w.items = DOMAIN v.items
  BY DEF Agrees, Touched, IsView
<1>3. /\ \A j \in DOMAIN v.items : w.items[j].kind = v.items[j].kind
      /\ \A j \in DOMAIN v.items : j # i => w.items[j].open = v.items[j].open
      /\ w.items[i].open = Off
  BY DEF Touched
<1>8. \A y \in T : y # x => s.tools[y].index # i
  BY DEF Agrees, CallsApart
<1> HIDE DEF i
<1>4. SlotsTold(w, s)
  <2> SUFFICES ASSUME NEW k \in Answers!TextKinds, s.slot[k].open
               PROVE  /\ s.slot[k].index \in DOMAIN w.items
                      /\ w.items[s.slot[k].index].kind = k /\ w.items[s.slot[k].index].open
    BY DEF SlotsTold
  <2> DEFINE n == s.slot[k].index
  <2>1. k # "tool"
    BY DEF Answers!TextKinds
  <2>2. n \in DOMAIN v.items /\ v.items[n].kind = k /\ v.items[n].open
    BY DEF Agrees, SlotsTold
  <2> HIDE DEF n
  <2>3. n # i
    BY <1>1, <2>1, <2>2
  <2>4. n \in DOMAIN w.items /\ w.items[n].kind = k /\ w.items[n].open
    BY <1>2, <1>3, <2>2, <2>3
  <2> QED BY <2>4 DEF n
<1>5. TextsTold(p, w, s)
  BY <1>1, <1>2, <1>3 DEF Agrees, TextsTold
<1>6. CallsTold(w, s, T \ {x}) /\ CallsApart(s, T \ {x})
  BY <1>2, <1>3, <1>8 DEF Agrees, CallsTold, CallsApart
<1>7. CallsKnown(w, s, T \ {x})
  <2> SUFFICES ASSUME NEW j \in DOMAIN w.items, w.items[j].kind = "tool", w.items[j].open
               PROVE  \E y \in T \ {x} : s.tools[y].index = j
    BY DEF CallsKnown
  <2>1. j # i
    BY <1>3 DEF Off
  <2>2. PICK y \in T : s.tools[y].index = j
    BY <1>2, <1>3, <2>1 DEF Agrees, CallsKnown
  <2>3. y # x
    BY <2>1, <2>2 DEF i
  <2> QED BY <2>2, <2>3
<1> QED BY <1>2, <1>4, <1>5, <1>6, <1>7 DEF Agrees

\* A new item has come.
Grew(v, w, n, kind) ==
  /\ IsView(w) /\ DOMAIN w.items = 0 .. n
  /\ \A j \in 0 .. n - 1 : w.items[j] = v.items[j]
  /\ w.items[n].kind = kind /\ w.items[n].open

\* That event is in order where the protocol allows an item of the kind.
LEMMA OpenIs ==
    ASSUME NEW p, p # "chat", NEW v, IsView(v), NEW n \in Nat, DOMAIN v.items = 0 .. n - 1,
           NEW k, MayOpen(p, v.items, k), NEW call,
           NEW e, e = Answers!Event("open", n, k, <<>>, call), NEW w, w = After(v, e)
    PROVE  MayFollow(p, v, w) /\ Grew(v, w, n, k)
<1>1. e.type = "open" /\ e.index = n /\ e.kind = k /\ e.call = call
  BY DEF Answers!Event
<1> DEFINE x == Answers!WholeItem(k, <<>>, <<>>, call)
           y == Answers!Grown(x, e)
<1>2. w.phase = v.phase /\ w.items = Answers!Put(v.items, n, y)
  <2>1. n \notin DOMAIN v.items
    OBVIOUS
  <2> HIDE DEF y
  <2> QED BY <1>1, <2>1 DEF After, Seen, Answers!ItemsAfter, Answers!PhaseAfter, y
<1>3. /\ y = [kind |-> k, open |-> On, text |-> <<>>, sum |-> <<>>, call |-> call]
  BY <1>1 DEF Answers!Grown, Answers!WholeItem, On
<1> HIDE DEF x, y
<1>4. ItemOK(y) /\ y.kind = k /\ y.open /\ y.text = <<>> /\ y.sum = <<>>
  BY <1>3, SeqOfNone DEF ItemOK, On
<1>5. /\ DOMAIN w.items = 0 .. n /\ w.items[n] = y /\ IsMap(w.items)
      /\ \A j \in DOMAIN v.items : w.items[j] = v.items[j]
  <2> DEFINE f == v.items
             g == w.items
  <2>1. g = Answers!Put(f, n, y) /\ DOMAIN f = 0 .. n - 1
    BY <1>2
  <2> HIDE DEF f, g
  <2>2. /\ DOMAIN g = DOMAIN f \cup {n} /\ g[n] = y /\ IsMap(g)
        /\ \A j \in DOMAIN f : j # n => g[j] = f[j]
    BY <2>1 DEF Answers!Put, IsMap
  <2>3. DOMAIN f \cup {n} = 0 .. n /\ \A j \in DOMAIN f : j # n
    BY <2>1
  <2>4. DOMAIN g = 0 .. n /\ \A j \in DOMAIN f : g[j] = f[j]
    BY <2>2, <2>3
  <2> QED BY <2>2, <2>4 DEF f, g
<1>6. Grew(v, w, n, k)
  <2>1. \A j \in 0 .. n : j = n \/ j \in DOMAIN v.items
    OBVIOUS
  <2>2. \A j \in DOMAIN w.items : ItemOK(w.items[j])
    BY <1>4, <1>5, <2>1 DEF IsView
  <2>3. IsView(w)
    BY <1>2, <1>5, <2>2 DEF IsView
  <2> QED BY <1>4, <1>5, <2>3 DEF Grew
<1>7. Opens(p, v, w, n)
  <2>1. Cardinality(DOMAIN v.items) = n
    <3> DEFINE m == n - 1
    <3>1. 0 \in Int /\ m \in Int /\ DOMAIN v.items = 0 .. m /\ (0 > m => n = 0)
          /\ (~(0 > m) => m - 0 + 1 = n)
      OBVIOUS
    <3> HIDE DEF m
    <3>2. Cardinality(0 .. m) = IF 0 > m THEN 0 ELSE m - 0 + 1
      BY <3>1, FS_Interval
    <3> QED BY <3>1, <3>2
  <2>2. w.items = [j \in 0 .. n |-> IF j \in DOMAIN v.items THEN v.items[j] ELSE w.items[n]]
    <3>1. \A j \in 0 .. n : w.items[j] = IF j \in DOMAIN v.items THEN v.items[j] ELSE w.items[n]
      BY <1>5
    <3> QED BY <1>5, <3>1 DEF IsMap
  <2> QED BY <1>2, <1>4, <1>5, <2>1, <2>2 DEF Opens, IsView
<1>8. MayFollow(p, v, w)
  BY <1>5, <1>7 DEF MayFollow
<1> QED BY <1>6, <1>8

\* The item of a text or of a call has been opened.
LEMMA AgreesTextOpened ==
    ASSUME NEW p, NEW v, NEW s, NEW T, Agrees(p, v, s, T),
           NEW k \in Answers!TextKinds, ~s.slot[k].open, p = "responses" => s.slot[k].index = -1,
           NEW w, Grew(v, w, s.next, k),
           NEW t, t.next = s.next + 1, t.tools = s.tools,
           t.slot[k].open = On, t.slot[k].index = s.next,
           \A j \in Answers!TextKinds : j # k => t.slot[j] = s.slot[j]
    PROVE  Agrees(p, w, t, T)
<1> DEFINE n == s.next
<1>1. n \in Nat /\ DOMAIN v.items = 0 .. n - 1 /\ DOMAIN w.items = 0 .. n /\ IsView(w)
  BY DEF Agrees, Grew
<1>2. /\ \A j \in 0 .. n - 1 : w.items[j] = v.items[j]
      /\ w.items[n].kind = k /\ w.items[n].open = On
  BY <1>1 DEF Grew, IsView, ItemOK, On
<1>3. k # "tool" /\ \A j \in 0 .. n : j = n \/ j \in 0 .. n - 1
  BY <1>1 DEF Answers!TextKinds
<1>9. \A j \in 0 .. n - 1 : j # n /\ j \in 0 .. n /\ j # -1
  BY <1>1
<1> HIDE DEF n
<1>4. SlotsTold(w, t)
  <2> SUFFICES ASSUME NEW j \in Answers!TextKinds, t.slot[j].open
               PROVE  /\ t.slot[j].index \in DOMAIN w.items
                      /\ w.items[t.slot[j].index].kind = j /\ w.items[t.slot[j].index].open
    BY DEF SlotsTold
  <2>1. CASE j = k
    <3>1. t.slot[j].index = n /\ n \in 0 .. n
      BY <1>1, <2>1 DEF n
    <3> QED BY <1>1, <1>2, <2>1, <3>1 DEF On
  <2>2. CASE j # k
    <3>1. t.slot[j] = s.slot[j]
      BY <2>2
    <3>2. /\ s.slot[j].index \in DOMAIN v.items
          /\ v.items[s.slot[j].index].kind = j /\ v.items[s.slot[j].index].open
      BY <3>1 DEF Agrees, SlotsTold
    <3> QED BY <1>1, <1>2, <1>9, <3>1, <3>2
  <2> QED BY <2>1, <2>2
<1>5. TextsTold(p, w, t)
  <2> SUFFICES ASSUME NEW j \in DOMAIN w.items, w.items[j].kind # "tool",
                      w.items[j].open \/ p = "responses"
               PROVE  /\ w.items[j].kind \in Answers!TextKinds
                      /\ t.slot[w.items[j].kind].index = j
                      /\ t.slot[w.items[j].kind].open = w.items[j].open
    BY DEF TextsTold
  <2>1. CASE j = n
    BY <1>2, <2>1 DEF n
  <2>2. CASE j # n
    <3>1. j \in DOMAIN v.items /\ w.items[j] = v.items[j] /\ j # -1
      BY <1>1, <1>2, <1>3, <1>9, <2>2
    <3>2. /\ v.items[j].kind \in Answers!TextKinds
          /\ s.slot[v.items[j].kind].index = j
          /\ s.slot[v.items[j].kind].open = v.items[j].open
      BY <3>1 DEF Agrees, TextsTold
    <3>3. v.items[j].kind # k
      BY <3>1, <3>2
    <3> QED BY <3>1, <3>2, <3>3
  <2> QED BY <2>1, <2>2
<1>6. CallsTold(w, t, T) /\ CallsApart(t, T)
  <2>1. CallsApart(t, T)
    BY DEF Agrees, CallsApart
  <2>2. CallsTold(w, t, T)
    <3> SUFFICES ASSUME NEW x \in T
                 PROVE  /\ x \in DOMAIN t.tools /\ t.tools[x].index \in DOMAIN w.items
                        /\ w.items[t.tools[x].index].kind = "tool"
                        /\ w.items[t.tools[x].index].open
      BY DEF CallsTold
    <3> DEFINE m == s.tools[x].index
    <3>1. /\ x \in DOMAIN t.tools /\ t.tools[x].index = m
          /\ m \in DOMAIN v.items /\ v.items[m].kind = "tool" /\ v.items[m].open
      BY DEF Agrees, CallsTold
    <3> HIDE DEF m
    <3>2. m \in DOMAIN w.items /\ w.items[m] = v.items[m]
      BY <1>1, <1>2, <1>9, <3>1
    <3> QED BY <3>1, <3>2
  <2> QED BY <2>1, <2>2
<1>7. CallsKnown(w, t, T)
  <2> SUFFICES ASSUME NEW j \in DOMAIN w.items, w.items[j].kind = "tool", w.items[j].open
               PROVE  \E x \in T : t.tools[x].index = j
    BY DEF CallsKnown
  <2>1. j \in DOMAIN v.items /\ w.items[j] = v.items[j]
    BY <1>1, <1>2, <1>3
  <2> QED BY <2>1 DEF Agrees, CallsKnown
<1>8. t.next \in Nat /\ 0 .. n = 0 .. t.next - 1
  BY <1>1 DEF n
<1> QED BY <1>1, <1>4, <1>5, <1>6, <1>7, <1>8 DEF Agrees

\* That of a call.
LEMMA AgreesCallOpened ==
    ASSUME NEW p, NEW v, NEW s, NEW T, Agrees(p, v, s, T), NEW x, x \notin T,
           NEW w, Grew(v, w, s.next, "tool"),
           NEW t, t.next = s.next + 1, x \in DOMAIN t.tools, t.tools[x].index = s.next,
           \A y \in T : y \in DOMAIN t.tools /\ t.tools[y].index = s.tools[y].index,
           \A k \in Answers!TextKinds :
             t.slot[k].open = s.slot[k].open /\ t.slot[k].index = s.slot[k].index
    PROVE  Agrees(p, w, t, T \cup {x})
<1> DEFINE n == s.next
<1>1. n \in Nat /\ DOMAIN v.items = 0 .. n - 1 /\ DOMAIN w.items = 0 .. n /\ IsView(w)
  BY DEF Agrees, Grew
<1>2. /\ \A j \in 0 .. n - 1 : w.items[j] = v.items[j]
      /\ w.items[n].kind = "tool" /\ w.items[n].open
  BY <1>1 DEF Grew
<1>3. /\ \A j \in 0 .. n : j = n \/ j \in 0 .. n - 1
      /\ \A j \in 0 .. n - 1 : j # n /\ j \in 0 .. n
      /\ n \in 0 .. n
  BY <1>1
<1>10. t.tools[x].index = n
  OBVIOUS
<1>8. t.next \in Nat /\ 0 .. n = 0 .. t.next - 1
  BY <1>1
<1> HIDE DEF n
<1>4. SlotsTold(w, t)
  <2> SUFFICES ASSUME NEW k \in Answers!TextKinds, t.slot[k].open
               PROVE  /\ t.slot[k].index \in DOMAIN w.items
                      /\ w.items[t.slot[k].index].kind = k /\ w.items[t.slot[k].index].open
    BY DEF SlotsTold
  <2>1. /\ s.slot[k].index \in DOMAIN v.items /\ t.slot[k].index = s.slot[k].index
        /\ v.items[s.slot[k].index].kind = k /\ v.items[s.slot[k].index].open
    BY DEF Agrees, SlotsTold
  <2> QED BY <1>1, <1>2, <1>3, <2>1
<1>5. TextsTold(p, w, t)
  <2> SUFFICES ASSUME NEW j \in DOMAIN w.items, w.items[j].kind # "tool",
                      w.items[j].open \/ p = "responses"
               PROVE  /\ w.items[j].kind \in Answers!TextKinds
                      /\ t.slot[w.items[j].kind].index = j
                      /\ t.slot[w.items[j].kind].open = w.items[j].open
    BY DEF TextsTold
  <2>1. j \in DOMAIN v.items /\ w.items[j] = v.items[j]
    BY <1>1, <1>2, <1>3
  <2> QED BY <2>1 DEF Agrees, TextsTold
<1>9. \A y \in T : s.tools[y].index \in DOMAIN v.items /\ s.tools[y].index # n
  BY <1>1, <1>3 DEF Agrees, CallsTold
<1>6. CallsTold(w, t, T \cup {x}) /\ CallsApart(t, T \cup {x})
  <2>1. ASSUME NEW y \in T \cup {x}
        PROVE  /\ y \in DOMAIN t.tools /\ t.tools[y].index \in DOMAIN w.items
               /\ w.items[t.tools[y].index].kind = "tool" /\ w.items[t.tools[y].index].open
    <3>1. CASE y = x
      BY <1>1, <1>2, <1>3, <1>10, <3>1
    <3>2. CASE y \in T
      <4>1. /\ s.tools[y].index \in DOMAIN v.items /\ t.tools[y].index = s.tools[y].index
            /\ v.items[s.tools[y].index].kind = "tool" /\ v.items[s.tools[y].index].open
        BY <3>2 DEF Agrees, CallsTold
      <4> QED BY <1>1, <1>2, <1>3, <3>2, <4>1
    <3> QED BY <3>1, <3>2
  <2>2. CallsApart(t, T \cup {x})
    BY <1>9, <1>10 DEF Agrees, CallsApart
  <2> QED BY <2>1, <2>2 DEF CallsTold
<1>7. CallsKnown(w, t, T \cup {x})
  <2> SUFFICES ASSUME NEW j \in DOMAIN w.items, w.items[j].kind = "tool", w.items[j].open
               PROVE  \E y \in T \cup {x} : t.tools[y].index = j
    BY DEF CallsKnown
  <2>1. CASE j = n
    BY <1>10, <2>1
  <2>2. CASE j # n
    <3>1. j \in DOMAIN v.items /\ w.items[j] = v.items[j]
      BY <1>1, <1>2, <1>3, <2>2
    <3> QED BY <3>1 DEF Agrees, CallsKnown
  <2> QED BY <2>1, <2>2
<1> QED BY <1>1, <1>4, <1>5, <1>6, <1>7, <1>8 DEF Agrees

-----------------------------------------------------------------------------
(* What is written is in order *)

KindMap(f) == f = [k \in Answers!TextKinds |-> f[k]]
SlotOK(x) ==
  /\ x = [open |-> x.open, index |-> x.index, buf |-> x.buf]
  /\ x.open \in BOOLEAN /\ IsSeq(x.buf)
ToolOK(x) == x = [call |-> x.call, args |-> x.args, index |-> x.index] /\ IsSeq(x.args)

\* The calls are in the order, each once.
Orderly(tools, order) ==
  /\ order \in Seq(Int)
  /\ \A n \in 1 .. Len(order) : order[n] \in DOMAIN tools
  /\ \A x \in DOMAIN tools : \E n \in 1 .. Len(order) : order[n] = x
  /\ \A m, n \in 1 .. Len(order) : order[m] = order[n] => m = n

TextsTyped(s) ==
  /\ KindMap(s.slot) /\ KindMap(s.held)
  /\ \A k \in Answers!TextKinds : SlotOK(s.slot[k]) /\ HeldOK(s.held[k])
CallsTyped(s) ==
  /\ IsMap(s.tools) /\ \A x \in DOMAIN s.tools : ToolOK(s.tools[x])
  /\ Orderly(s.tools, s.order)
Typed(s) == IsState(s) /\ TextsTyped(s) /\ CallsTyped(s)

\* A reader who had u has been told in order what the handler has made of it.
Told(p, u, s, T) ==
  IsSeq(s.out) /\ \E v : Plays(p, u, s.out, v) /\ Agrees(p, v, s, T)

\* One more event is written behind the others.
LEMMA Emitted ==
    ASSUME NEW p, NEW u, NEW q, NEW v, IsSeq(q), Plays(p, u, q, v),
           NEW e, MayFollow(p, v, After(v, e)), NEW r, r = Then(q, <<e>>)
    PROVE  IsSeq(r) /\ Plays(p, u, r, After(v, e))
<1> DEFINE b == <<e>>
           w == After(v, e)
<1>1. IsSeq(b) /\ Plays(p, v, b, w)
  BY SeqOfOne, PlaysOne
<1>2. r = q \o b
  BY DEF Then
<1> HIDE DEF b, w
<1>3. IsSeq(q \o b) /\ Plays(p, u, q \o b, w)
  BY <1>1, SeqJoined, PlaysJoined
<1> QED BY <1>2, <1>3 DEF w

\* Nothing is written.
LEMMA ToldShaped ==
    ASSUME NEW p, NEW u, NEW s, NEW T, Told(p, u, s, T),
           NEW t, Shaped(s, t, T), t.out = s.out
    PROVE  Told(p, u, t, T)
BY AgreesShaped DEF Told

\* An item that every reader told so far has open.
OpenAt(s, T, i) ==
  \/ \E k \in Answers!TextKinds : s.slot[k].open /\ s.slot[k].index = i
  \/ \E x \in T : s.tools[x].index = i

\* An open item says more.
LEMMA ToldTouched ==
    ASSUME NEW p, NEW u, NEW s, NEW T, Told(p, u, s, T), NEW i, OpenAt(s, T, i),
           NEW e, e.index = i, e.type \in {"delta", "sum"}, IsSeq(e.text),
           NEW t, Shaped(s, t, T), t.out = Then(s.out, <<e>>)
    PROVE  Told(p, u, t, T)
<1>1. PICK v : Plays(p, u, s.out, v) /\ Agrees(p, v, s, T)
  BY DEF Told
<1> DEFINE w == After(v, e)
           q == s.out
<1>2. IsView(v) /\ i \in DOMAIN v.items /\ v.items[i].open
  BY <1>1 DEF OpenAt, Agrees, SlotsTold, CallsTold
<1>3. MayFollow(p, v, w) /\ Touched(v, w, i, e.type # "close")
  BY <1>2, TouchIs
<1>4. (e.type # "close") = On
  BY DEF On
<1>5. Touched(v, w, i, On)
  BY <1>3, <1>4
<1>8. IsSeq(q) /\ Plays(p, u, q, v)
  BY <1>1 DEF Told
<1>9. t.out = Then(q, <<e>>)
  OBVIOUS
<1> HIDE DEF w, q
<1>6. Agrees(p, w, t, T)
  BY <1>1, <1>2, <1>5, AgreesTouched, AgreesShaped
<1>7. IsSeq(t.out) /\ Plays(p, u, t.out, w)
  BY <1>3, <1>8, <1>9, Emitted DEF w
<1> QED BY <1>6, <1>7 DEF Told

\* It says a piece of its text, or nothing.
LEMMA ToldDelta ==
    ASSUME NEW p, NEW u, NEW s, NEW T, Told(p, u, s, T), NEW i, OpenAt(s, T, i),
           NEW k, NEW text, IsSeq(text),
           NEW t, Shaped(s, t, T), t.out = Then(s.out, Answers!Delta(i, k, text))
    PROVE  Told(p, u, t, T)
<1>1. CASE text = <<>>
  <2>1. IsSeq(s.out)
    BY DEF Told
  <2>2. Then(s.out, <<>>) = s.out
    <3> DEFINE q == s.out
    <3>1. PICK S : q \in Seq(S)
      BY <2>1 DEF IsSeq
    <3> HIDE DEF q
    <3>2. q \o <<>> = q
      BY <3>1
    <3> QED BY <3>2 DEF Then, q
  <2>3. t.out = s.out
    BY <1>1, <2>2 DEF Answers!Delta
  <2> QED BY <2>3, ToldShaped
<1>2. CASE text # <<>>
  <2> DEFINE e == Answers!Event("delta", i, k, text, Answers!NoCall)
  <2>1. e.index = i /\ e.type \in {"delta", "sum"} /\ IsSeq(e.text)
    BY DEF Answers!Event
  <2>2. t.out = Then(s.out, <<e>>)
    BY <1>2 DEF Answers!Delta
  <2> HIDE DEF e
  <2> QED BY <2>1, <2>2, ToldTouched
<1> QED BY <1>1, <1>2

\* It says its text as a whole.
LEMMA ToldSum ==
    ASSUME NEW p, NEW u, NEW s, NEW T, Told(p, u, s, T), NEW i, OpenAt(s, T, i),
           NEW k, NEW text, IsSeq(text),
           NEW t, Shaped(s, t, T), t.out = Then(s.out, Answers!Sum(i, k, text))
    PROVE  Told(p, u, t, T)
<1> DEFINE e == Answers!Event("sum", i, k, text, Answers!NoCall)
<1>1. e.index = i /\ e.type \in {"delta", "sum"} /\ IsSeq(e.text)
  BY DEF Answers!Event
<1>2. t.out = Then(s.out, <<e>>)
  BY DEF Answers!Sum
<1> HIDE DEF e
<1> QED BY <1>1, <1>2, ToldTouched

\* The event that closes an item.
LEMMA CloseIs ==
    ASSUME NEW p, NEW v, IsView(v), NEW i \in DOMAIN v.items, v.items[i].open, NEW k,
           NEW e, e = Answers!Event("close", i, k, <<>>, Answers!NoCall)
    PROVE  MayFollow(p, v, After(v, e)) /\ Touched(v, After(v, e), i, Off)
<1>1. e.index = i /\ e.type = "close" /\ IsSeq(e.text)
  BY SeqOfNone DEF Answers!Event
<1>2. e.type \in {"delta", "sum", "close"} /\ (e.type # "close") = Off
  BY <1>1 DEF Off
<1> DEFINE w == After(v, e)
<1>3. MayFollow(p, v, w) /\ Touched(v, w, i, e.type # "close")
  BY <1>1, <1>2, TouchIs
<1> QED BY <1>2, <1>3

\* An open text is closed.
LEMMA ToldTextClosed ==
    ASSUME NEW p, NEW u, NEW s, NEW T, Told(p, u, s, T), NEW k \in Answers!TextKinds, s.slot[k].open,
           NEW t, t.next = s.next, t.tools = s.tools,
           t.slot[k].open = Off, t.slot[k].index = s.slot[k].index,
           \A j \in Answers!TextKinds : j # k => t.slot[j] = s.slot[j],
           t.out = Then(s.out, Answers!Closed(s.slot[k].index, k))
    PROVE  Told(p, u, t, T)
<1>1. PICK v : Plays(p, u, s.out, v) /\ Agrees(p, v, s, T)
  BY DEF Told
<1> DEFINE i == s.slot[k].index
           e == Answers!Event("close", i, k, <<>>, Answers!NoCall)
           q == s.out
           w == After(v, e)
<1>2. IsView(v) /\ i \in DOMAIN v.items /\ v.items[i].open
  BY <1>1 DEF Agrees, SlotsTold
<1>3. t.out = Then(q, <<e>>) /\ IsSeq(q)
  BY DEF Answers!Closed, Told
<1>4. MayFollow(p, v, w) /\ Touched(v, w, i, Off)
  <2> HIDE DEF i
  <2> QED BY <1>2, CloseIs
<1>8. IsSeq(q) /\ Plays(p, u, q, v)
  BY <1>1, <1>3
<1> HIDE DEF e, q, w
<1>5. Agrees(p, w, t, T)
  BY <1>1, <1>4, AgreesTextClosed
<1>6. IsSeq(t.out) /\ Plays(p, u, t.out, w)
  BY <1>3, <1>4, <1>8, Emitted DEF w
<1> QED BY <1>5, <1>6 DEF Told

\* So is a call.
LEMMA ToldCallClosed ==
    ASSUME NEW p, NEW u, NEW s, NEW T, Told(p, u, s, T), NEW x \in T,
           NEW t, Shaped(s, t, T \ {x}), t.out = Then(s.out, Answers!Closed(s.tools[x].index, "tool"))
    PROVE  Told(p, u, t, T \ {x})
<1>1. PICK v : Plays(p, u, s.out, v) /\ Agrees(p, v, s, T)
  BY DEF Told
<1> DEFINE i == s.tools[x].index
           e == Answers!Event("close", i, "tool", <<>>, Answers!NoCall)
           q == s.out
           w == After(v, e)
           U == T \ {x}
<1>2. IsView(v) /\ i \in DOMAIN v.items /\ v.items[i].open
  BY <1>1 DEF Agrees, CallsTold
<1>3. t.out = Then(q, <<e>>) /\ IsSeq(q)
  BY DEF Answers!Closed, Told
<1>4. MayFollow(p, v, w) /\ Touched(v, w, i, Off)
  <2> HIDE DEF i
  <2> QED BY <1>2, CloseIs
<1>8. IsSeq(q) /\ Plays(p, u, q, v)
  BY <1>1, <1>3
<1> HIDE DEF e, q, w
<1>5. Agrees(p, w, s, U)
  BY <1>1, <1>4, AgreesCallClosed
<1> HIDE DEF U
<1>7. Agrees(p, w, t, U)
  BY <1>5, AgreesShaped DEF U
<1>6. IsSeq(t.out) /\ Plays(p, u, t.out, w)
  BY <1>3, <1>4, <1>8, Emitted DEF w
<1> QED BY <1>6, <1>7 DEF Told, U

\* Where the handler may open a text or a call.
NoText(s) == \A k \in Answers!TextKinds : ~s.slot[k].open
MayOpenText(p, s, k) ==
  /\ ~s.slot[k].open
  /\ p = "messages" => NoText(s)
  /\ p = "responses" => s.slot[k].index = -1

\* A text is opened where it may be.
LEMMA ToldTextOpened ==
    ASSUME NEW p \in {"messages", "responses"}, NEW u, NEW s, NEW T, Told(p, u, s, T),
           NEW k \in Answers!TextKinds, MayOpenText(p, s, k),
           NEW t, t.next = s.next + 1, t.tools = s.tools,
           t.slot[k].open = On, t.slot[k].index = s.next,
           \A j \in Answers!TextKinds : j # k => t.slot[j] = s.slot[j],
           t.out = Then(s.out, Answers!Opened(s.next, k, Answers!NoCall))
    PROVE  Told(p, u, t, T)
<1>1. PICK v : Plays(p, u, s.out, v) /\ Agrees(p, v, s, T)
  BY DEF Told
<1> DEFINE n == s.next
           c == Answers!NoCall
           e == Answers!Event("open", n, k, <<>>, c)
           q == s.out
           w == After(v, e)
<1>2. IsView(v) /\ n \in Nat /\ DOMAIN v.items = 0 .. n - 1
  BY <1>1 DEF Agrees
<1>3. t.out = Then(q, <<e>>) /\ IsSeq(q)
  BY DEF Answers!Opened, Told
<1>8. IsSeq(q) /\ Plays(p, u, q, v)
  BY <1>1, <1>3
<1>9. MayOpen(p, v.items, k)
  <2> SUFFICES ASSUME NEW i \in DOMAIN v.items
               PROVE  /\ p = "messages" => (v.items[i].kind # "tool" => ~v.items[i].open)
                      /\ p = "responses" => (k # "tool" => v.items[i].kind # k)
    BY DEF MayOpen
  <2>1. v.items[i].kind # "tool" /\ (v.items[i].open \/ p = "responses") =>
          /\ v.items[i].kind \in Answers!TextKinds
          /\ s.slot[v.items[i].kind].index = i
          /\ s.slot[v.items[i].kind].open = v.items[i].open
    BY <1>1 DEF Agrees, TextsTold
  <2>2. i # -1
    BY <1>2
  <2>3. k # "tool"
    BY DEF Answers!TextKinds
  <2> QED BY <2>1, <2>2, <2>3 DEF MayOpenText, NoText
<1>10. p # "chat"
  OBVIOUS
<1>4. MayFollow(p, v, w) /\ Grew(v, w, n, k)
  <2> HIDE DEF n, c
  <2> QED BY <1>2, <1>9, <1>10, OpenIs
<1> HIDE DEF e, q, w, c
<1>5. Agrees(p, w, t, T)
  BY <1>1, <1>4, AgreesTextOpened DEF MayOpenText
<1>6. IsSeq(t.out) /\ Plays(p, u, t.out, w)
  BY <1>3, <1>4, <1>8, Emitted DEF w
<1> QED BY <1>5, <1>6 DEF Told

\* So is a call.
LEMMA ToldCallOpened ==
    ASSUME NEW p \in {"messages", "responses"}, NEW u, NEW s, NEW T, Told(p, u, s, T),
           p = "messages" => NoText(s), NEW x, x \notin T, NEW c,
           NEW t, t.next = s.next + 1, x \in DOMAIN t.tools, t.tools[x].index = s.next,
           \A y \in T : y \in DOMAIN t.tools /\ t.tools[y].index = s.tools[y].index,
           \A k \in Answers!TextKinds :
             t.slot[k].open = s.slot[k].open /\ t.slot[k].index = s.slot[k].index,
           t.out = Then(s.out, Answers!Opened(s.next, "tool", c))
    PROVE  Told(p, u, t, T \cup {x})
<1>1. PICK v : Plays(p, u, s.out, v) /\ Agrees(p, v, s, T)
  BY DEF Told
<1> DEFINE n == s.next
           k == "tool"
           e == Answers!Event("open", n, k, <<>>, c)
           q == s.out
           w == After(v, e)
           U == T \cup {x}
<1>2. IsView(v) /\ n \in Nat /\ DOMAIN v.items = 0 .. n - 1
  BY <1>1 DEF Agrees
<1>3. t.out = Then(q, <<e>>) /\ IsSeq(q)
  BY DEF Answers!Opened, Told
<1>8. IsSeq(q) /\ Plays(p, u, q, v)
  BY <1>1, <1>3
<1>9. MayOpen(p, v.items, k)
  <2> SUFFICES ASSUME NEW i \in DOMAIN v.items
               PROVE  p = "messages" => (v.items[i].kind # "tool" => ~v.items[i].open)
    BY DEF MayOpen
  <2>1. v.items[i].kind # "tool" /\ (v.items[i].open \/ p = "responses") =>
          /\ v.items[i].kind \in Answers!TextKinds
          /\ s.slot[v.items[i].kind].index = i
          /\ s.slot[v.items[i].kind].open = v.items[i].open
    BY <1>1 DEF Agrees, TextsTold
  <2> QED BY <2>1 DEF NoText
<1>10. p # "chat"
  OBVIOUS
<1>4. MayFollow(p, v, w) /\ Grew(v, w, n, k)
  <2> HIDE DEF n, k
  <2> QED BY <1>2, <1>9, <1>10, OpenIs
<1>11. Agrees(p, v, s, T) /\ Grew(v, w, s.next, "tool")
  BY <1>1, <1>4
<1> HIDE DEF e, q, w, n, k
<1>5. Agrees(p, w, t, U)
  <2>1. Agrees(p, w, t, T \cup {x})
    BY <1>11, AgreesCallOpened
  <2> QED BY <2>1
<1> HIDE DEF U
<1>6. IsSeq(t.out) /\ Plays(p, u, t.out, w)
  BY <1>3, <1>4, <1>8, Emitted DEF w
<1> QED BY <1>5, <1>6 DEF Told, U

\* The answer is complete when every item is closed.
LEMMA ToldEnded ==
    ASSUME NEW p, NEW u, NEW s, Told(p, u, s, {}), NoText(s),
           NEW q, q = Then(s.out, Answers!Ended("complete"))
    PROVE  IsSeq(q) /\ \E w : Plays(p, u, q, w) /\ w.phase = "complete"
<1>1. PICK v : Plays(p, u, s.out, v) /\ Agrees(p, v, s, {})
  BY DEF Told
<1> DEFINE e == Answers!Event("complete", -1, "", <<>>, Answers!NoCall)
           r == s.out
           w == After(v, e)
<1>2. q = Then(r, <<e>>)
  BY DEF Answers!Ended
<1>3. IsSeq(r) /\ Plays(p, u, r, v)
  BY <1>1 DEF Told
<1>4. v.phase = "begun" /\ \A i \in DOMAIN v.items : ~v.items[i].open
  <2>1. v.phase = "begun"
    BY <1>1 DEF Agrees, IsView
  <2>2. ASSUME NEW i \in DOMAIN v.items
        PROVE  ~v.items[i].open
    <3>1. CASE v.items[i].kind = "tool"
      BY <1>1, <3>1 DEF Agrees, CallsKnown
    <3>2. CASE v.items[i].kind # "tool"
      BY <1>1, <3>2 DEF Agrees, TextsTold, NoText
    <3> QED BY <3>1, <3>2
  <2> QED BY <2>1, <2>2
<1>5. w.phase = "complete" /\ w.items = v.items
  BY DEF After, Seen, Answers!ItemsAfter, Answers!PhaseAfter, Answers!Event
<1>6. MayFollow(p, v, w)
  BY <1>4, <1>5 DEF MayFollow, Completes
<1> HIDE DEF e, r
<1>7. IsSeq(q) /\ Plays(p, u, q, w)
  BY <1>2, <1>3, <1>6, Emitted
<1> QED BY <1>5, <1>7

-----------------------------------------------------------------------------
(* The restorer of the answers is the one above. *)

\* Every part of it is: the pass over a text,
LEMMA SamePrefix ==
    ASSUME NEW t, NEW l, NEW a, NEW f
    PROVE  Answers!restoreIdentityPrefix(t, l, a, f) = restoreIdentityPrefix(t, l, a, f)
BY Zenon DEF Answers!Slice, Slice, Answers!Occurring, Occurring, Answers!identityMatchBoundary,
   identityMatchBoundary, Answers!matchIdentityTarget, matchIdentityTarget, Answers!AdvanceLetter,
   AdvanceLetter, Answers!Outside, Outside, Answers!Quotes, Quotes, Answers!Breaks, Breaks, Answers!Marks, Marks,
   Answers!advance, advance, Answers!Meet, Meet, Answers!protects, protects, Answers!Pass, Pass,
   Answers!restoreIdentityPrefix, restoreIdentityPrefix

\* the limit of what is decided,
LEMMA SameCut ==
    ASSUME NEW t
    PROVE  Answers!restorePendingCut(t) = restorePendingCut(t)
BY Zenon DEF Answers!Slice, Slice, Answers!Undecided, Undecided, Answers!IsPrefix, IsPrefix,
   Answers!restorePendingCut, restorePendingCut, Answers!Max, Max, Answers!Min, Min

\* what is decided of the text that is pending,
LEMMA SameDecided ==
    ASSUME NEW t, NEW n
    PROVE  Answers!Decided(t, n) = Decided(t, n)
BY Zenon DEF Answers!Decided, Decided

\* what is let out of it,
LEMMA SameLetOut ==
    ASSUME NEW s, NEW p, NEW r
    PROVE  Answers!LetOut(s, p, r) = LetOut(s, p, r)
BY Zenon DEF Answers!LetOut, LetOut, Answers!AdvanceLetter, AdvanceLetter, Answers!Outside, Outside,
   Answers!Quotes, Quotes, Answers!Breaks, Breaks, Answers!Marks, Marks, Answers!advance, advance, Answers!Slice, Slice

\* the writing of a piece,
LEMMA SameWrite ==
    ASSUME NEW s, NEW d
    PROVE  Answers!Write(s, d) = Write(s, d)
<1>1. ASSUME NEW x
      PROVE  Answers!Pending(s, x) = Pending(s, x)
  <2> DEFINE l == Decided(x, restorePendingCut(x))
  <2>1. Answers!Decided(x, Answers!restorePendingCut(x)) = l
    BY SameCut, SameDecided, Zenon
  <2> HIDE DEF l
  <2>2. Answers!restoreIdentityPrefix(x, l, s.address, FALSE)
          = restoreIdentityPrefix(x, l, s.address, FALSE)
    BY SamePrefix, Zenon
  <2> QED BY <2>1, <2>2, SameLetOut, Zenon DEF Answers!Pending, Pending, l
<1> QED BY <1>1, Zenon DEF Answers!Write, Write

\* and the end of a stream.
LEMMA SameFlush ==
    ASSUME NEW s
    PROVE  Answers!Flush(s) = Flush(s)
BY SamePrefix, Zenon DEF Answers!Flush, Flush, Answers!newIdentityRestorer, newIdentityRestorer,
   Answers!Outside, Outside

-----------------------------------------------------------------------------
(* Slots *)

SlotsTyped(f) == KindMap(f) /\ \A k \in Answers!TextKinds : SlotOK(f[k])

\* The slots when a text has been said,
LEMMA SlotBuf ==
    ASSUME NEW f, SlotsTyped(f), NEW k \in Answers!TextKinds, NEW b, IsSeq(b),
           NEW g, g = Rewritten(f, k, b)
    PROVE  /\ SlotsTyped(g)
           /\ \A j \in Answers!TextKinds : g[j].open = f[j].open /\ g[j].index = f[j].index
<1> DEFINE x == f[k]
           y == [x EXCEPT !.buf = b]
<1>1. SlotOK(x)
  BY DEF SlotsTyped
<1>2. g = [f EXCEPT ![k] = y]
  BY DEF Rewritten
<1> HIDE DEF x
<1>3. SlotOK(y) /\ y.open = x.open /\ y.index = x.index
  BY <1>1 DEF SlotOK
<1> HIDE DEF y
<1>4. KindMap(g) /\ g[k] = y /\ \A j \in Answers!TextKinds : j # k => g[j] = f[j]
  BY <1>2 DEF SlotsTyped, KindMap
<1> QED BY <1>3, <1>4 DEF SlotsTyped, x

\* when a block or item is closed,
LEMMA SlotShut ==
    ASSUME NEW f, SlotsTyped(f), NEW k \in Answers!TextKinds,
           NEW g, g = Shut(f, k)
    PROVE  /\ SlotsTyped(g) /\ g[k].open = Off /\ g[k].index = f[k].index
           /\ \A j \in Answers!TextKinds : j # k => g[j] = f[j]
<1> DEFINE x == f[k]
           y == [x EXCEPT !.open = Off]
<1>1. SlotOK(x)
  BY DEF SlotsTyped
<1>2. g = [f EXCEPT ![k] = y]
  BY DEF Off, Shut
<1> HIDE DEF x
<1>3. SlotOK(y) /\ y.open = Off /\ y.index = x.index
  <2>1. y.open = Off /\ y.index = x.index /\ y.buf = x.buf
        /\ y = [open |-> y.open, index |-> y.index, buf |-> y.buf]
    BY <1>1 DEF SlotOK
  <2>2. y.open \in BOOLEAN
    BY <2>1 DEF Off
  <2> HIDE DEF y
  <2> QED BY <1>1, <2>1, <2>2 DEF SlotOK
<1> HIDE DEF y
<1>4. KindMap(g) /\ g[k] = y /\ \A j \in Answers!TextKinds : j # k => g[j] = f[j]
  BY <1>2 DEF SlotsTyped, KindMap
<1> QED BY <1>3, <1>4 DEF SlotsTyped, x

\* and when one is opened.
LEMMA SlotStarted ==
    ASSUME NEW f, SlotsTyped(f), NEW k \in Answers!TextKinds, NEW n,
           NEW g, g = Started(f, k, n)
    PROVE  /\ SlotsTyped(g) /\ g[k].open = On /\ g[k].index = n
           /\ \A j \in Answers!TextKinds : j # k => g[j] = f[j]
<1> DEFINE y == [open |-> On, index |-> n, buf |-> <<>>]
<1>2. g = [f EXCEPT ![k] = y]
  BY DEF On, Started
<1>3. SlotOK(y) /\ y.open = On /\ y.index = n
  <2>1. y.open = On /\ y.index = n /\ y.buf = <<>>
        /\ y = [open |-> y.open, index |-> y.index, buf |-> y.buf]
    OBVIOUS
  <2>2. y.open \in BOOLEAN
    BY <2>1 DEF On
  <2> HIDE DEF y
  <2> QED BY <2>1, <2>2, SeqOfNone DEF SlotOK
<1> HIDE DEF y
<1>4. KindMap(g) /\ g[k] = y /\ \A j \in Answers!TextKinds : j # k => g[j] = f[j]
  BY <1>2 DEF SlotsTyped, KindMap
<1> QED BY <1>3, <1>4 DEF SlotsTyped

HeldTyped(f) == KindMap(f) /\ \A k \in Answers!TextKinds : HeldOK(f[k])

\* A restorer takes the place of another.
LEMMA HeldSet ==
    ASSUME NEW f, HeldTyped(f), NEW k \in Answers!TextKinds, NEW r, HeldOK(r),
           NEW g, g = HeldAs(f, k, r)
    PROVE  HeldTyped(g)
<1>1. KindMap(g) /\ g[k] = r /\ \A j \in Answers!TextKinds : j # k => g[j] = f[j]
  BY DEF HeldTyped, KindMap, HeldAs
<1> QED BY <1>1 DEF HeldTyped

\* What a state keeps of its texts has the types of them.
LEMMA TextsTypedIs == \A s : TextsTyped(s) <=> SlotsTyped(s.slot) /\ HeldTyped(s.held)
BY DEF TextsTyped, SlotsTyped, HeldTyped

-----------------------------------------------------------------------------
(* What is done with a text *)

Good(p, u, s, T) == Typed(s) /\ Told(p, u, s, T)

\* Slots, calls and what is known of the end stay as they are.
SameSlots(s, t) ==
  \A k \in Answers!TextKinds :
    t.slot[k].open = s.slot[k].open /\ t.slot[k].index = s.slot[k].index
Steady(s, t) ==
  SameTools(s, t) /\ SameEnds(s, t) /\ SameSlots(s, t) /\ t.next = s.next

\* What a restorer has let out is said in the open text.
LEMMA SayWrittenGood ==
    ASSUME NEW p, NEW u, NEW s, NEW T, Good(p, u, s, T), NEW k \in Answers!TextKinds, s.slot[k].open,
           NEW w, HeldOK(w.restorer), w.out \in Texts, NEW t, t = Answers!SayWritten(s, k, w)
    PROVE  Good(p, u, t, T) /\ Steady(s, t)
<1> DEFINE i == s.slot[k].index
           o == w.out
           b == Then(s.slot[k].buf, o)
<1>1. /\ IsState(s) /\ SlotsTyped(s.slot) /\ HeldTyped(s.held) /\ CallsTyped(s)
      /\ Told(p, u, s, T)
  BY TextsTypedIs DEF Good, Typed
<1>2. /\ IsState(t) /\ t.out = Then(s.out, Answers!Delta(i, k, o))
      /\ t.next = s.next /\ t.held = HeldAs(s.held, k, w.restorer)
      /\ t.slot = Rewritten(s.slot, k, b)
      /\ SameTools(s, t) /\ SameEnds(s, t)
  BY <1>1, SayWrittenIs
<1>3. IsSeq(o) /\ IsSeq(s.slot[k].buf)
  BY <1>1 DEF IsSeq, SlotsTyped, SlotOK, Texts
<1>4. IsSeq(b)
  BY <1>3, Prefix
<1>9. OpenAt(s, T, i)
  BY DEF OpenAt
<1> HIDE DEF i, o, b
<1>5. SlotsTyped(t.slot) /\ SameSlots(s, t)
  <2> DEFINE f == s.slot
             g == t.slot
  <2>1. SlotsTyped(f) /\ g = Rewritten(f, k, b)
    BY <1>1, <1>2
  <2> HIDE DEF f, g
  <2>2. /\ SlotsTyped(g)
        /\ \A j \in Answers!TextKinds : g[j].open = f[j].open /\ g[j].index = f[j].index
    BY <1>4, <2>1, SlotBuf
  <2> QED BY <2>2 DEF SameSlots, f, g
<1>6. HeldTyped(t.held)
  BY <1>1, <1>2, HeldSet
<1>7. Typed(t)
  BY <1>1, <1>2, <1>5, <1>6, TextsTypedIs DEF Typed, CallsTyped, SameTools
<1>8. Shaped(s, t, T)
  BY <1>2, <1>5 DEF Shaped, SameSlots, SameTools
<1>10. Told(p, u, t, T)
  BY <1>1, <1>2, <1>3, <1>8, <1>9, ToldDelta
<1> QED BY <1>2, <1>5, <1>7, <1>10 DEF Good, Steady

\* A piece is said in it.
LEMMA SayGood ==
    ASSUME NEW p, NEW u, NEW s, NEW T, Good(p, u, s, T), NEW k \in Answers!TextKinds, s.slot[k].open,
           NEW piece \in Texts, NEW t, t = Answers!Say(s, k, piece)
    PROVE  Good(p, u, t, T) /\ Steady(s, t)
<1>1. HeldOK(s.held[k])
  BY DEF Good, Typed, TextsTyped
<1> DEFINE w == Answers!Write(s.held[k], piece)
<1>2. HeldOK(w.restorer) /\ w.out \in Texts
  BY <1>1, WriteIs, SameWrite
<1>3. t = Answers!SayWritten(s, k, w)
  BY Zenon DEF Answers!Say
<1> HIDE DEF w
<1> QED BY <1>2, <1>3, SayWrittenGood

\* What was kept back is said in it.
LEMMA SayTailGood ==
    ASSUME NEW p, NEW u, NEW s, NEW T, Good(p, u, s, T), NEW k \in Answers!TextKinds, s.slot[k].open,
           NEW t, t = Answers!SayTail(s, k)
    PROVE  Good(p, u, t, T) /\ Steady(s, t)
<1>1. HeldOK(s.held[k])
  BY DEF Good, Typed, TextsTyped
<1> DEFINE w == Answers!Flush(s.held[k])
<1>2. HeldOK(w.restorer) /\ w.out \in Texts
  BY <1>1, FlushIs, SameFlush
<1>3. t = Answers!SayWritten(s, k, w)
  BY Zenon DEF Answers!SayTail
<1> HIDE DEF w
<1> QED BY <1>2, <1>3, SayWrittenGood

\* It is summed up.
LEMMA SumUpGood ==
    ASSUME NEW p, NEW u, NEW s, NEW T, Good(p, u, s, T), NEW k \in Answers!TextKinds, s.slot[k].open,
           NEW t, t = Answers!SumUp(s, k)
    PROVE  Good(p, u, t, T) /\ Steady(s, t)
<1> DEFINE i == s.slot[k].index
           b == s.slot[k].buf
           ev == Answers!Sum(i, k, b)
<1>1. IsState(s) /\ TextsTyped(s) /\ CallsTyped(s) /\ Told(p, u, s, T) /\ IsSeq(b)
  BY DEF Good, Typed, TextsTyped, SlotOK
<1>2. t = Answers!emit(s, ev)
  BY DEF Answers!SumUp
<1>9. OpenAt(s, T, i)
  BY DEF OpenAt
<1> HIDE DEF i, b
<1>3. /\ IsState(t) /\ t.out = Then(s.out, ev) /\ t.next = s.next
      /\ SameTools(s, t) /\ SameEnds(s, t) /\ SameTexts(s, t)
  <2> HIDE DEF ev
  <2> QED BY <1>1, <1>2, EmitIs
<1>4. Shaped(s, t, T) /\ Steady(s, t)
  BY <1>3 DEF Shaped, Steady, SameTexts, SameTools, SameSlots
<1>5. Typed(t)
  BY <1>1, <1>3 DEF Typed, TextsTyped, CallsTyped, SameTools, SameTexts
<1>6. Told(p, u, t, T)
  BY <1>1, <1>3, <1>4, <1>9, ToldSum
<1> QED BY <1>4, <1>5, <1>6 DEF Good

\* It is closed.
LEMMA CloseSlotGood ==
    ASSUME NEW p, NEW u, NEW s, NEW T, Good(p, u, s, T), NEW k \in Answers!TextKinds, s.slot[k].open,
           NEW t, t = Answers!CloseSlot(s, k)
    PROVE  /\ Good(p, u, t, T) /\ SameTools(s, t) /\ SameEnds(s, t) /\ t.slot[k].open = Off
           /\ t.next = s.next
           /\ \A j \in Answers!TextKinds : j # k => t.slot[j] = s.slot[j]
<1> DEFINE i == s.slot[k].index
           f == s.slot
           g == t.slot
<1>1. IsState(s) /\ SlotsTyped(f) /\ HeldTyped(s.held) /\ CallsTyped(s) /\ Told(p, u, s, T)
  BY TextsTypedIs DEF Good, Typed
<1>2. /\ IsState(t) /\ t.out = Then(s.out, Answers!Closed(i, k)) /\ t.next = s.next
      /\ t.held = s.held /\ g = Shut(f, k)
      /\ SameTools(s, t) /\ SameEnds(s, t)
  BY <1>1, CloseSlotIs
<1>3. /\ SlotsTyped(g) /\ g[k].open = Off /\ g[k].index = f[k].index
      /\ \A j \in Answers!TextKinds : j # k => g[j] = f[j]
  <2> HIDE DEF f, g
  <2> QED BY <1>1, <1>2, SlotShut
<1>4. Typed(t)
  BY <1>1, <1>2, <1>3, TextsTypedIs DEF Typed, CallsTyped, SameTools
<1>5. Told(p, u, t, T)
  BY <1>1, <1>2, <1>3, ToldTextClosed DEF SameTools
<1> QED BY <1>2, <1>3, <1>4, <1>5 DEF Good

\* A text is opened.
LEMMA OpenSlotGood ==
    ASSUME NEW p \in {"messages", "responses"}, NEW u, NEW s, NEW T, Good(p, u, s, T),
           NEW k \in Answers!TextKinds, MayOpenText(p, s, k), NEW t, t = Answers!OpenSlot(s, k)
    PROVE  /\ Good(p, u, t, T) /\ SameTools(s, t) /\ SameEnds(s, t) /\ t.slot[k].open
           /\ \A j \in Answers!TextKinds : j # k => t.slot[j] = s.slot[j]
<1> DEFINE n == s.next
           f == s.slot
           g == t.slot
<1>1. IsState(s) /\ SlotsTyped(f) /\ HeldTyped(s.held) /\ CallsTyped(s) /\ Told(p, u, s, T)
  BY TextsTypedIs DEF Good, Typed
<1>2. /\ IsState(t) /\ t.out = Then(s.out, Answers!Opened(n, k, Answers!NoCall)) /\ t.next = n + 1
      /\ t.held = s.held /\ g = Started(f, k, n)
      /\ SameTools(s, t) /\ SameEnds(s, t)
  BY <1>1, OpenSlotIs
<1>3. /\ SlotsTyped(g) /\ g[k].open = On /\ g[k].index = n
      /\ \A j \in Answers!TextKinds : j # k => g[j] = f[j]
  <2> HIDE DEF f, g, n
  <2> QED BY <1>1, <1>2, SlotStarted
<1>4. Typed(t)
  BY <1>1, <1>2, <1>3, TextsTypedIs DEF Typed, CallsTyped, SameTools
<1>5. Told(p, u, t, T)
  BY <1>1, <1>2, <1>3, ToldTextOpened DEF SameTools
<1> QED BY <1>2, <1>3, <1>4, <1>5 DEF Good, On

\* A text is closed, and the others stay as they are.
LEMMA CloseItemGood ==
    ASSUME NEW p, NEW u, NEW s, NEW T, Good(p, u, s, T), NEW k \in Answers!TextKinds,
           NEW t, t = Answers!closeItem(s, k)
    PROVE  /\ Good(p, u, t, T) /\ SameTools(s, t) /\ SameEnds(s, t) /\ ~t.slot[k].open
           /\ t.next = s.next
           /\ \A j \in Answers!TextKinds : j # k => t.slot[j].open = s.slot[j].open
<1>1. CASE ~s.slot[k].open
  <2>1. t = s
    BY <1>1 DEF Answers!closeItem
  <2> QED BY <1>1, <2>1 DEF SameTools, SameEnds
<1>2. CASE s.slot[k].open
  <2> DEFINE a == Answers!SayTail(s, k)
             b == Answers!SumUp(a, k)
  <2>1. t = Answers!CloseSlot(b, k)
    BY <1>2, Zenon DEF Answers!closeItem
  <2>2. Good(p, u, a, T) /\ Steady(s, a)
    BY <1>2, SayTailGood
  <2> HIDE DEF a
  <2>3. a.slot[k].open
    BY <1>2, <2>2 DEF Steady, SameSlots
  <2>4. Good(p, u, b, T) /\ Steady(a, b)
    BY <2>2, <2>3, SumUpGood
  <2> HIDE DEF b
  <2>5. b.slot[k].open
    BY <2>3, <2>4 DEF Steady, SameSlots
  <2>6. /\ Good(p, u, t, T) /\ SameTools(b, t) /\ SameEnds(b, t) /\ t.slot[k].open = Off
        /\ t.next = b.next
        /\ \A j \in Answers!TextKinds : j # k => t.slot[j] = b.slot[j]
    BY <2>1, <2>4, <2>5, CloseSlotGood
  <2> QED BY <2>2, <2>4, <2>6 DEF Steady, SameTools, SameEnds, SameSlots, Off
<1> QED BY <1>1, <1>2

\* The reasoning of a Messages answer is closed, with its signature.
LEMMA CloseThinkingGood ==
    ASSUME NEW p, NEW u, NEW s, NEW T, Good(p, u, s, T), NEW t, t = Answers!closeThinking(s)
    PROVE  /\ Good(p, u, t, T) /\ SameTools(s, t) /\ SameEnds(s, t)
           /\ t.next = s.next
           /\ ~t.slot["reasoning"].open /\ t.slot["text"].open = s.slot["text"].open
<1>1. t = Answers!closeItem(s, "reasoning")
  BY Zenon DEF Answers!closeItem, Answers!closeThinking
<1>2. "reasoning" \in Answers!TextKinds /\ "text" \in Answers!TextKinds /\ "text" # "reasoning"
  BY DEF Answers!TextKinds
<1> QED BY <1>1, <1>2, CloseItemGood

\* The text of a Messages answer is closed.
LEMMA StopTextGood ==
    ASSUME NEW p, NEW u, NEW s, NEW T, Good(p, u, s, T), NEW t, t = Answers!stopText(s)
    PROVE  /\ Good(p, u, t, T) /\ SameTools(s, t) /\ SameEnds(s, t)
           /\ t.next = s.next
           /\ ~t.slot["text"].open /\ t.slot["reasoning"].open = s.slot["reasoning"].open
<1>0. "reasoning" \in Answers!TextKinds /\ "text" \in Answers!TextKinds /\ "text" # "reasoning"
  BY DEF Answers!TextKinds
<1> DEFINE k == "text"
<1>1. CASE ~s.slot[k].open
  <2>1. t = s
    BY <1>1 DEF Answers!stopText
  <2> QED BY <1>1, <2>1 DEF SameTools, SameEnds
<1>2. CASE s.slot[k].open
  <2> DEFINE a == Answers!SayTail(s, k)
  <2>1. t = Answers!CloseSlot(a, k)
    BY <1>2, Zenon DEF Answers!stopText
  <2>0. k \in Answers!TextKinds
    BY <1>0
  <2> HIDE DEF k
  <2>2. Good(p, u, a, T) /\ Steady(s, a)
    BY <1>2, <2>0, SayTailGood
  <2> HIDE DEF a
  <2>3. a.slot[k].open
    BY <1>2, <2>0, <2>2 DEF Steady, SameSlots
  <2>4. /\ Good(p, u, t, T) /\ SameTools(a, t) /\ SameEnds(a, t) /\ t.slot[k].open = Off
        /\ t.next = a.next
        /\ \A j \in Answers!TextKinds : j # k => t.slot[j] = a.slot[j]
    BY <2>0, <2>1, <2>2, <2>3, CloseSlotGood
  <2> QED BY <1>0, <2>2, <2>4 DEF Steady, SameTools, SameEnds, SameSlots, Off, k
<1> QED BY <1>1, <1>2

\* A piece is said in the text that is open, or in one that is opened for it.
LEMMA SpeakGood ==
    ASSUME NEW p \in {"messages", "responses"}, NEW u, NEW s, NEW T, Good(p, u, s, T),
           NEW k \in Answers!TextKinds, s.slot[k].open \/ MayOpenText(p, s, k), NEW piece \in Texts,
           NEW t, t = Answers!Say(Answers!Opening(s, k), k, piece)
    PROVE  /\ Good(p, u, t, T) /\ SameTools(s, t) /\ SameEnds(s, t) /\ t.slot[k].open
           /\ \A j \in Answers!TextKinds :
                j # k => t.slot[j].open = s.slot[j].open /\ t.slot[j].index = s.slot[j].index
<1> DEFINE a == Answers!Opening(s, k)
<1>1. /\ Good(p, u, a, T) /\ SameTools(s, a) /\ SameEnds(s, a) /\ a.slot[k].open
      /\ \A j \in Answers!TextKinds : j # k => a.slot[j] = s.slot[j]
  <2>1. CASE s.slot[k].open
    <3>1. a = s
      BY <2>1 DEF Answers!Opening
    <3> QED BY <2>1, <3>1 DEF SameTools, SameEnds
  <2>2. CASE ~s.slot[k].open
    <3>1. a = Answers!OpenSlot(s, k)
      BY <2>2 DEF Answers!Opening
    <3> HIDE DEF a
    <3> QED BY <2>2, <3>1, OpenSlotGood
  <2> QED BY <2>1, <2>2
<1> HIDE DEF a
<1>2. t = Answers!Say(a, k, piece)
  BY DEF a
<1>3. Good(p, u, t, T) /\ Steady(a, t)
  BY <1>1, <1>2, SayGood
<1> QED BY <1>1, <1>3 DEF Steady, SameTools, SameEnds, SameSlots

\* Of a Messages answer one text is open at a time.
Alone(s) == ~(s.slot["reasoning"].open /\ s.slot["text"].open)

\* A piece of reasoning goes on, or opens, its block; the text is closed before.
LEMMA AppendThinkingGood ==
    ASSUME NEW u, NEW s, NEW T, Good("messages", u, s, T), Alone(s), NEW piece \in Texts,
           NEW t, t = Answers!appendThinking(s, piece)
    PROVE  Good("messages", u, t, T) /\ SameTools(s, t) /\ SameEnds(s, t) /\ Alone(t)
<1> DEFINE p == "messages"
           k == "reasoning"
           a == Answers!stopText(s)
<1>0. "reasoning" \in Answers!TextKinds /\ "text" \in Answers!TextKinds /\ "text" # "reasoning"
      /\ \A j \in Answers!TextKinds : j = "reasoning" \/ j = "text"
  BY DEF Answers!TextKinds
<1>1. CASE piece = <<>> \/ ~request.wanted
  <2>1. t = s
    BY <1>1 DEF Answers!appendThinking
  <2> QED BY <2>1 DEF SameTools, SameEnds
<1>2. CASE ~(piece = <<>> \/ ~request.wanted)
  <2>1. t = Answers!Say(Answers!Opening(a, k), k, piece)
    BY <1>2, Zenon DEF Answers!appendThinking
  <2>2. /\ Good(p, u, a, T) /\ SameTools(s, a) /\ SameEnds(s, a)
        /\ ~a.slot["text"].open
    BY StopTextGood
  <2> HIDE DEF a
  <2>3. a.slot[k].open \/ MayOpenText(p, a, k)
    BY <1>0, <2>2 DEF MayOpenText, NoText
  <2>4. p \in {"messages", "responses"} /\ k \in Answers!TextKinds
    BY <1>0
  <2> HIDE DEF p, k
  <2>5. /\ Good(p, u, t, T) /\ SameTools(a, t) /\ SameEnds(a, t)
        /\ \A j \in Answers!TextKinds : j # k => t.slot[j].open = a.slot[j].open
    BY <2>1, <2>2, <2>3, <2>4, SpeakGood
  <2> QED BY <1>0, <2>2, <2>5 DEF SameTools, SameEnds, Alone, p, k
<1> QED BY <1>1, <1>2

\* A piece of text; the reasoning is closed before.
LEMMA AppendTextGood ==
    ASSUME NEW u, NEW s, NEW T, Good("messages", u, s, T), Alone(s), NEW piece \in Texts,
           NEW t, t = Answers!appendText(s, piece)
    PROVE  Good("messages", u, t, T) /\ SameTools(s, t) /\ SameEnds(s, t) /\ Alone(t)
<1> DEFINE p == "messages"
           k == "text"
           a == Answers!closeThinking(s)
<1>0. "reasoning" \in Answers!TextKinds /\ "text" \in Answers!TextKinds /\ "text" # "reasoning"
      /\ \A j \in Answers!TextKinds : j = "reasoning" \/ j = "text"
  BY DEF Answers!TextKinds
<1>1. CASE piece = <<>>
  <2>1. t = s
    BY <1>1 DEF Answers!appendText
  <2> QED BY <2>1 DEF SameTools, SameEnds
<1>2. CASE piece # <<>>
  <2>1. t = Answers!Say(Answers!Opening(a, k), k, piece)
    BY <1>2, Zenon DEF Answers!appendText
  <2>2. /\ Good(p, u, a, T) /\ SameTools(s, a) /\ SameEnds(s, a)
        /\ ~a.slot["reasoning"].open
    BY CloseThinkingGood
  <2> HIDE DEF a
  <2>3. a.slot[k].open \/ MayOpenText(p, a, k)
    BY <1>0, <2>2 DEF MayOpenText, NoText
  <2>4. p \in {"messages", "responses"} /\ k \in Answers!TextKinds
    BY <1>0
  <2> HIDE DEF p, k
  <2>5. /\ Good(p, u, t, T) /\ SameTools(a, t) /\ SameEnds(a, t)
        /\ \A j \in Answers!TextKinds : j # k => t.slot[j].open = a.slot[j].open
    BY <2>1, <2>2, <2>3, <2>4, SpeakGood
  <2> QED BY <1>0, <2>2, <2>5 DEF SameTools, SameEnds, Alone, p, k
<1> QED BY <1>1, <1>2

-----------------------------------------------------------------------------
(* Calls *)

\* The order goes with the calls, a new one at its end.
LEMMA OrderlyKept ==
    ASSUME NEW f, NEW o, Orderly(f, o), NEW g, DOMAIN g = DOMAIN f
    PROVE  Orderly(g, o)
BY DEF Orderly

\* A call that comes later is last.
LEMMA OrderlyNew ==
    ASSUME NEW f, NEW o, Orderly(f, o), NEW x \in Int, x \notin DOMAIN f,
           NEW g, DOMAIN g = DOMAIN f \cup {x}, NEW r, r = Append(o, x)
    PROVE  /\ Orderly(g, r) /\ Len(o) \in Nat /\ Len(r) = Len(o) + 1 /\ r[Len(r)] = x
           /\ \A n \in 1 .. Len(o) : r[n] = o[n]
<1>1. o \in Seq(Int) /\ Len(o) \in Nat
  BY LenProperties DEF Orderly
<1>2. /\ r \in Seq(Int) /\ Len(r) = Len(o) + 1 /\ r[Len(o) + 1] = x
      /\ \A n \in 1 .. Len(o) : r[n] = o[n]
  BY <1>1, AppendProperties
<1>3. \A n \in 1 .. Len(r) : n \in 1 .. Len(o) \/ n = Len(o) + 1
  BY <1>1, <1>2
<1>4. Len(o) + 1 \in 1 .. Len(r) /\ \A n \in 1 .. Len(o) : n \in 1 .. Len(r)
  BY <1>1, <1>2
<1>5. \A n \in 1 .. Len(r) : r[n] \in DOMAIN g
  BY <1>2, <1>3 DEF Orderly
<1>6. \A y \in DOMAIN g : \E n \in 1 .. Len(r) : r[n] = y
  <2> TAKE y \in DOMAIN g
  <2>1. CASE y = x
    BY <1>2, <1>4, <2>1
  <2>2. CASE y \in DOMAIN f
    <3>1. PICK n \in 1 .. Len(o) : o[n] = y
      BY <2>2 DEF Orderly
    <3> QED BY <1>2, <1>4, <3>1
  <2> QED BY <2>1, <2>2
<1>7. \A m, n \in 1 .. Len(r) : r[m] = r[n] => m = n
  <2> SUFFICES ASSUME NEW m \in 1 .. Len(r), NEW n \in 1 .. Len(r), r[m] = r[n]
               PROVE  m = n
    OBVIOUS
  <2>1. \A l \in 1 .. Len(o) : r[l] \in DOMAIN f /\ r[l] # x /\ r[l] = o[l]
    <3>1. \A l \in 1 .. Len(o) : o[l] \in DOMAIN f
      BY DEF Orderly
    <3> QED BY <1>2, <3>1
  <2>2. CASE m = Len(o) + 1
    <3>1. r[n] = x /\ (n \in 1 .. Len(o) \/ n = Len(o) + 1)
      BY <1>2, <1>3, <2>2
    <3> QED BY <2>1, <2>2, <3>1
  <2>4. CASE n = Len(o) + 1
    <3>1. r[m] = x /\ (m \in 1 .. Len(o) \/ m = Len(o) + 1)
      BY <1>2, <1>3, <2>4
    <3> QED BY <2>1, <2>4, <3>1
  <2>3. CASE m \in 1 .. Len(o) /\ n \in 1 .. Len(o)
    <3>1. o[m] = o[n]
      BY <2>1, <2>3
    <3> QED BY <2>3, <3>1 DEF Orderly
  <2> QED BY <1>3, <2>2, <2>3, <2>4
<1> QED BY <1>1, <1>2, <1>5, <1>6, <1>7 DEF Orderly

\* What is merged is a call, in the item it was in.
LEMMA MergedIs ==
    ASSUME NEW tool, NEW f, IsSeq(tool.args), IsSeq(f.args), NEW m, m = Answers!Merged(tool, f)
    PROVE  ToolOK(m) /\ m.index = tool.index
<1>1. /\ m = [call |-> m.call, args |-> m.args, index |-> m.index]
      /\ m.args = Then(tool.args, f.args) /\ m.index = tool.index
  BY DEF Answers!Merged, Then
<1>2. IsSeq(m.args)
  BY <1>1, Prefix
<1> QED BY <1>1, <1>2 DEF ToolOK

\* A call of which nothing is known yet.
LEMMA NewToolIs ==
    ASSUME NEW n
    PROVE  IsSeq(Answers!NewTool(n).args) /\ Answers!NewTool(n).index = n
BY SeqOfNone DEF Answers!NewTool

\* Three sequences after one another.
LEMMA ThenThen ==
    ASSUME NEW a, NEW b, NEW c, IsSeq(a), IsSeq(b), IsSeq(c)
    PROVE  Then(a, Then(b, c)) = Then(Then(a, b), c)
<1>1. PICK R, S, U : a \in Seq(R) /\ b \in Seq(S) /\ c \in Seq(U)
  BY DEF IsSeq
<1> DEFINE V == R \cup S \cup U
<1>2. R \subseteq V /\ S \subseteq V /\ U \subseteq V
  OBVIOUS
<1> HIDE DEF V
<1>3. a \in Seq(V) /\ b \in Seq(V) /\ c \in Seq(V)
  BY <1>1, <1>2, SeqMonotonic
<1>4. a \o (b \o c) = (a \o b) \o c
  BY <1>3, ConcatAssociative, SMTT(60)
<1> QED BY <1>4 DEF Then

\* Nothing changes nothing.
LEMMA ThenNothing ==
    ASSUME NEW a, IsSeq(a)
    PROVE  Then(a, <<>>) = a /\ Then(<<>>, a) = a
<1>1. PICK S : a \in Seq(S)
  BY DEF IsSeq
<1>2. a \o <<>> = a /\ <<>> \o a = a
  BY <1>1
<1> QED BY <1>2 DEF Then

\* The events are sequences.
LEMMA EventsAre ==
    ASSUME NEW i, NEW k, NEW c, NEW text
    PROVE  /\ IsSeq(Answers!Opened(i, k, c)) /\ IsSeq(Answers!Delta(i, k, text))
           /\ IsSeq(Answers!Sum(i, k, text)) /\ IsSeq(Answers!Closed(i, k))
BY SeqOfOne, SeqOfNone DEF Answers!Opened, Answers!Delta, Answers!Sum, Answers!Closed

\* A fragment of a call.
FragmentOK(f) == f.index \in Int /\ IsSeq(f.args)

\* The calls of a Messages answer: what is known of all of them is told.
Fed(u, s) == Good("messages", u, s, DOMAIN s.tools) /\ Alone(s)

\* One fragment: the texts are closed, and its call is opened or goes on.
LEMMA AppendToolCallGood ==
    ASSUME NEW u, NEW s, Fed(u, s), NEW f, FragmentOK(f), NEW t, t = Answers!appendToolCall(s, f)
    PROVE  Fed(u, t) /\ SameEnds(s, t)
<1> DEFINE p == "messages"
           T == DOMAIN s.tools
           x == f.index
           a == Answers!stopText(Answers!closeThinking(s))
           known == x \in DOMAIN s.tools
           next  == Answers!Merged(IF known THEN s.tools[x] ELSE Answers!NewTool(s.next), f)
           ev    == (IF known THEN <<>> ELSE Answers!Opened(next.index, "tool", next.call))
                      \o Answers!Delta(next.index, "tool", f.args)
           tools == Answers!Put(a.tools, x, next)
           order == IF known THEN a.order ELSE Append(a.order, x)
           n     == IF known THEN a.next ELSE a.next + 1
           b     == Calls(a, tools, order, n)
           o     == Then(a.out, ev)
<1>1. t = Answers!emit(b, ev)
  BY Zenon DEF Answers!appendToolCall, Calls
<1>2. /\ Good(p, u, a, T) /\ SameTools(s, a) /\ SameEnds(s, a) /\ a.next = s.next
      /\ ~a.slot["text"].open /\ ~a.slot["reasoning"].open
  <2> DEFINE c == Answers!closeThinking(s)
  <2>1. /\ Good(p, u, c, T) /\ SameTools(s, c) /\ SameEnds(s, c) /\ ~c.slot["reasoning"].open
        /\ c.next = s.next
    BY CloseThinkingGood DEF Fed
  <2> HIDE DEF c
  <2>2. /\ Good(p, u, Answers!stopText(c), T) /\ SameTools(c, Answers!stopText(c))
        /\ SameEnds(c, Answers!stopText(c)) /\ Answers!stopText(c).next = c.next
        /\ ~Answers!stopText(c).slot["text"].open
        /\ Answers!stopText(c).slot["reasoning"].open = c.slot["reasoning"].open
    BY <2>1, StopTextGood
  <2>3. a = Answers!stopText(c)
    BY DEF c
  <2> HIDE DEF a
  <2> QED BY <2>1, <2>2, <2>3 DEF SameTools, SameEnds
<1>3. NoText(a) /\ Alone(a)
  BY <1>2 DEF NoText, Alone, Answers!TextKinds
<1> HIDE DEF a
<1>4. IsState(a) /\ TextsTyped(a) /\ CallsTyped(a) /\ Told(p, u, a, T) /\ IsSeq(a.out)
  BY <1>2 DEF Good, Typed, Told
<1>5. a.tools = s.tools /\ T = DOMAIN a.tools /\ x \in Int /\ IsSeq(f.args)
  BY <1>2 DEF SameTools, FragmentOK
<1>6. ToolOK(next) /\ next.index = IF known THEN a.tools[x].index ELSE s.next
  <2> DEFINE m == IF known THEN s.tools[x] ELSE Answers!NewTool(s.next)
  <2>1. IsSeq(m.args) /\ m.index = IF known THEN a.tools[x].index ELSE s.next
    BY <1>4, <1>5, NewToolIs DEF CallsTyped, ToolOK
  <2> HIDE DEF m
  <2> QED BY <1>5, <2>1, MergedIs DEF m
<1> HIDE DEF next
<1>7. /\ DOMAIN tools = T \cup {x} /\ IsMap(tools) /\ tools[x] = next
      /\ \A y \in T : y # x => tools[y] = a.tools[y]
  <2> DEFINE g == a.tools
  <2>1. T = DOMAIN g
    BY <1>5
  <2> HIDE DEF g, T
  <2> QED BY <2>1 DEF Answers!Put, IsMap, g
<1> HIDE DEF tools
<1>8. /\ IsState(b) /\ b.out = a.out /\ b.next = n /\ b.tools = tools /\ b.order = order
      /\ SameTexts(a, b) /\ SameEnds(a, b)
  <2> HIDE DEF n, order
  <2> QED BY <1>4, CallsIs
<1> HIDE DEF b
<1>9. /\ IsState(t) /\ t.out = o /\ t.next = n /\ t.tools = tools /\ t.order = order
      /\ SameTexts(a, t) /\ SameEnds(a, t)
  <2>1. /\ IsState(t) /\ t.out = Then(b.out, ev) /\ t.next = b.next
        /\ SameTools(b, t) /\ SameEnds(b, t) /\ SameTexts(b, t)
    <3> HIDE DEF ev
    <3> QED BY <1>1, <1>8, EmitIs
  <2> HIDE DEF n, order, ev
  <2> QED BY <1>8, <2>1 DEF SameTools, SameEnds, SameTexts
<1>10. Orderly(tools, order)
  <2>1. CASE known
    <3>1. DOMAIN tools = DOMAIN a.tools
      BY <1>5, <1>7, <2>1
    <3>2. order = a.order
      BY <2>1
    <3> QED BY <1>4, <3>1, <3>2, OrderlyKept DEF CallsTyped
  <2>2. CASE ~known
    <3>1. DOMAIN tools = DOMAIN a.tools \cup {x} /\ x \notin DOMAIN a.tools
      BY <1>5, <1>7, <2>2
    <3>2. order = Append(a.order, x)
      BY <2>2
    <3> DEFINE g == a.tools
               q == a.order
    <3>3. Orderly(g, q) /\ DOMAIN tools = DOMAIN g \cup {x} /\ x \notin DOMAIN g
          /\ order = Append(q, x) /\ x \in Int
      BY <1>4, <1>5, <3>1, <3>2 DEF CallsTyped
    <3> HIDE DEF g, q, x, order
    <3> QED BY <3>3, OrderlyNew
  <2> QED BY <2>1, <2>2
<1>11. Typed(t)
  <2>1. \A y \in DOMAIN tools : ToolOK(tools[y])
    BY <1>4, <1>5, <1>6, <1>7 DEF CallsTyped
  <2>2. CallsTyped(t)
    <3> HIDE DEF order
    <3> QED BY <1>7, <1>9, <1>10, <2>1 DEF CallsTyped
  <2>3. TextsTyped(t)
    BY <1>4, <1>9 DEF TextsTyped, SameTexts
  <2> QED BY <1>9, <2>2, <2>3 DEF Typed
<1>12. Told(p, u, t, T \cup {x})
  <2> DEFINE D == Answers!Delta(next.index, "tool", f.args)
  <2>1. CASE known
    <3>1. ev = D /\ n = a.next /\ T \cup {x} = T /\ x \in T
      <4>1. IsSeq(D)
        BY EventsAre
      <4>2. ev = Then(<<>>, D)
        BY <2>1 DEF Then
      <4> HIDE DEF D, ev
      <4> QED BY <2>1, <4>1, <4>2, ThenNothing
    <3>2. Shaped(a, t, T)
      BY <1>5, <1>6, <1>7, <1>9, <2>1, <3>1 DEF Shaped, SameTexts
    <3>3. OpenAt(a, T, next.index)
      BY <1>6, <2>1, <3>1 DEF OpenAt
    <3>4. t.out = Then(a.out, D)
      BY <1>9, <3>1
    <3>5. Told(p, u, t, T)
      <4> HIDE DEF T, p, x
      <4> QED BY <1>4, <1>5, <3>2, <3>3, <3>4, ToldDelta
    <3> QED BY <3>1, <3>5
  <2>2. CASE ~known
    <3> DEFINE c == next.call
               i == a.next
               O == Answers!Opened(i, "tool", c)
               d == Answers!emit(b, O)
               U == T \cup {x}
    <3>1. next.index = i
      BY <1>2, <1>6, <2>2
    <3>2. ev = Then(O, D) /\ IsSeq(O) /\ IsSeq(D) /\ n = a.next + 1
      BY <2>2, <3>1, EventsAre DEF Then
    <3>3. IsSeq(a.out) /\ p \in {"messages", "responses"} /\ x \notin T
      BY <1>4, <2>2
    <3> HIDE DEF O, D, ev, n
    <3>4. /\ IsState(d) /\ d.out = Then(b.out, O) /\ d.next = b.next
          /\ SameTools(b, d) /\ SameTexts(b, d)
      BY <1>8, EmitIs
    <3>5. /\ d.next = a.next + 1 /\ d.tools = tools /\ d.out = Then(a.out, O)
          /\ d.slot = a.slot
      BY <1>8, <3>2, <3>4 DEF SameTools, SameTexts
    <3> HIDE DEF d, T, x, p
    <3>6. /\ x \in DOMAIN d.tools /\ d.tools[x].index = a.next
          /\ \A y \in T : y \in DOMAIN d.tools /\ d.tools[y].index = a.tools[y].index
      BY <1>7, <3>1, <3>3, <3>5
    <3>7. Told(p, u, d, U)
      BY <1>3, <1>4, <3>3, <3>5, <3>6, ToldCallOpened DEF O
    <3>8. Shaped(d, t, U)
      BY <1>7, <1>9, <3>2, <3>5 DEF Shaped, SameTexts
    <3>9. OpenAt(d, U, i)
      BY <3>6 DEF OpenAt
    <3>10. t.out = Then(d.out, D)
      BY <1>9, <3>2, <3>3, <3>5, ThenThen
    <3>11. D = Answers!Delta(i, "tool", f.args)
      BY <3>1 DEF D
    <3> QED BY <1>5, <3>7, <3>8, <3>9, <3>10, <3>11, ToldDelta
  <2> QED BY <2>1, <2>2
<1>13. DOMAIN t.tools = T \cup {x}
  BY <1>7, <1>9
<1> QED BY <1>2, <1>3, <1>9, <1>11, <1>12, <1>13 DEF Fed, Good, Alone, SameTexts, SameEnds

-----------------------------------------------------------------------------
(* One after the other *)

\* What holds at first and is kept by every step holds to the end.
LEMMA Inherited ==
    ASSUME NEW l \in Nat, NEW S, 0 \in S, \A n \in 1 .. l : n - 1 \in S => n \in S
    PROVE  \A n \in 0 .. l : n \in S
<1> DEFINE B == {n \in 0 .. l : n \notin S}
<1>1. B \subseteq Nat
  OBVIOUS
<1>2. ASSUME B # {}
      PROVE  FALSE
  <2>1. PICK m \in B : \A y \in B : m <= y
    BY <1>1, <1>2, LeastOf
  <2>2. m \in 1 .. l /\ m - 1 \in 0 .. l /\ ~(m <= m - 1)
    BY <2>1
  <2>3. m - 1 \notin B
    BY <2>1, <2>2
  <2> QED BY <2>1, <2>2, <2>3
<1>3. ASSUME NEW n \in 0 .. l
      PROVE  n \in S
  <2>1. n \notin B
    BY <1>2
  <2> QED BY <2>1
<1> QED BY <1>3

\* The operations that are done for every element of a sequence.
Done(op, s, x) ==
  CASE op = "feed"  -> Answers!appendToolCall(s, x)
    [] op = "close" -> Answers!CloseTool(s, x)
    [] op = "merge" -> Answers!applyToolCallDelta(s, x)
    [] op = "open"  -> Answers!addToolItem(s, x)
    [] op = "say"   -> Answers!SayArgs(s, x)
    [] op = "end"   -> Answers!closeToolItem(s, x)

Doing(f, op, k, s, q) ==
  f = [n \in 0 .. k |-> IF n = 0 THEN s ELSE Done(op, f[n - 1], q[n])]

\* Such a function exists.
LEMMA DoingExists ==
    ASSUME NEW op, NEW s, NEW q, NEW k \in Nat
    PROVE  \E f : Doing(f, op, k, s, q)
<1> DEFINE S == {m \in Nat : ~ \E f : Doing(f, op, m, s, q)}
<1> SUFFICES ASSUME S # {} PROVE FALSE
  OBVIOUS
<1>1. PICK m \in S : \A y \in S : m <= y
  BY LeastOf
<1>2. CASE m = 0
  <2> DEFINE f == [n \in 0 .. 0 |-> s]
  <2>1. f = [n \in 0 .. 0 |-> IF n = 0 THEN s ELSE Done(op, f[n - 1], q[n])]
    OBVIOUS
  <2> QED BY <1>1, <1>2, <2>1 DEF Doing
<1>3. CASE m # 0
  <2>1. m - 1 \in Nat /\ m - 1 \notin S
    BY <1>1, <1>3
  <2>2. PICK f : Doing(f, op, m - 1, s, q)
    BY <2>1
  <2> DEFINE g == [n \in 0 .. m |-> IF n = m THEN Done(op, f[m - 1], q[m]) ELSE f[n]]
  <2>3. \A n \in 0 .. m - 1 :
          /\ g[n] = f[n]
          /\ f[n] = IF n = 0 THEN s ELSE Done(op, f[n - 1], q[n])
    BY <2>1, <2>2 DEF Doing
  <2>4. \A n \in 0 .. m : g[n] = IF n = 0 THEN s ELSE Done(op, g[n - 1], q[n])
    <3> SUFFICES ASSUME NEW n \in 0 .. m
                 PROVE  g[n] = IF n = 0 THEN s ELSE Done(op, g[n - 1], q[n])
      OBVIOUS
    <3>1. CASE n = m
      <4>1. g[n] = Done(op, f[m - 1], q[m]) /\ m - 1 \in 0 .. m - 1
        BY <2>1, <3>1
      <4> HIDE DEF g
      <4> QED BY <1>3, <2>3, <3>1, <4>1
    <3>2. CASE n # m
      <4>1. n \in 0 .. m - 1 /\ (n # 0 => n - 1 \in 0 .. m - 1)
        BY <3>2
      <4> HIDE DEF g
      <4> QED BY <2>3, <4>1
    <3> QED BY <3>1, <3>2
  <2>5. g = [n \in 0 .. m |-> IF n = 0 THEN s ELSE Done(op, g[n - 1], q[n])]
    BY <2>4
  <2> QED BY <1>1, <2>5 DEF Doing
<1> QED BY <1>2, <1>3

Fragments(s, q) == Answers!Each(Answers!appendToolCall, s, q)

\* The fragments of a Messages chunk, as steps.
LEMMA Feeding ==
    ASSUME NEW s, NEW q, Len(q) \in Nat
    PROVE  \E f : /\ f[0] = s /\ f[Len(q)] = Fragments(s, q)
                  /\ \A n \in 1 .. Len(q) : f[n] = Answers!appendToolCall(f[n - 1], q[n])
<1> DEFINE after == CHOOSE after : after =
             [n \in 0 .. Len(q) |-> IF n = 0 THEN s ELSE Answers!appendToolCall(after[n - 1], q[n])]
<1>1. Fragments(s, q) = after[Len(q)]
  BY DEF Answers!Each, Fragments
<1>2. PICK f : Doing(f, "feed", Len(q), s, q)
  BY DoingExists
<1>3. \A a, x : Done("feed", a, x) = Answers!appendToolCall(a, x)
  BY DEF Done
<1>4. f = [n \in 0 .. Len(q) |-> IF n = 0 THEN s ELSE Answers!appendToolCall(f[n - 1], q[n])]
  BY <1>2, <1>3 DEF Doing
<1>5. after = [n \in 0 .. Len(q) |-> IF n = 0 THEN s ELSE Answers!appendToolCall(after[n - 1], q[n])]
  BY <1>4
<1> HIDE DEF after
<1>6. after[0] = s /\ \A n \in 1 .. Len(q) : after[n] = Answers!appendToolCall(after[n - 1], q[n])
  <2>1. 0 \in 0 .. Len(q) /\ \A n \in 1 .. Len(q) : n \in 0 .. Len(q) /\ n # 0
    OBVIOUS
  <2>2. \A n \in 0 .. Len(q) : after[n] = IF n = 0 THEN s ELSE Answers!appendToolCall(after[n - 1], q[n])
    BY <1>5
  <2> QED BY <2>1, <2>2
<1> QED BY <1>1, <1>6

ClosedAll(s, q) == Answers!Each(Answers!CloseTool, s, q)

\* The calls closed at the end, as steps.
LEMMA Closing ==
    ASSUME NEW s, NEW q, Len(q) \in Nat
    PROVE  \E f : /\ f[0] = s /\ f[Len(q)] = ClosedAll(s, q)
                  /\ \A n \in 1 .. Len(q) : f[n] = Answers!CloseTool(f[n - 1], q[n])
<1> DEFINE after == CHOOSE after : after =
             [n \in 0 .. Len(q) |-> IF n = 0 THEN s ELSE Answers!CloseTool(after[n - 1], q[n])]
<1>1. ClosedAll(s, q) = after[Len(q)]
  BY DEF Answers!Each, ClosedAll
<1>2. PICK f : Doing(f, "close", Len(q), s, q)
  BY DoingExists
<1>3. \A a, x : Done("close", a, x) = Answers!CloseTool(a, x)
  BY DEF Done
<1>4. f = [n \in 0 .. Len(q) |-> IF n = 0 THEN s ELSE Answers!CloseTool(f[n - 1], q[n])]
  BY <1>2, <1>3 DEF Doing
<1>5. after = [n \in 0 .. Len(q) |-> IF n = 0 THEN s ELSE Answers!CloseTool(after[n - 1], q[n])]
  BY <1>4
<1> HIDE DEF after
<1>6. after[0] = s /\ \A n \in 1 .. Len(q) : after[n] = Answers!CloseTool(after[n - 1], q[n])
  <2>1. 0 \in 0 .. Len(q) /\ \A n \in 1 .. Len(q) : n \in 0 .. Len(q) /\ n # 0
    OBVIOUS
  <2>2. \A n \in 0 .. Len(q) : after[n] = IF n = 0 THEN s ELSE Answers!CloseTool(after[n - 1], q[n])
    BY <1>5
  <2> QED BY <2>1, <2>2
<1> QED BY <1>1, <1>6

MergedAll(s, q) == Answers!Each(Answers!applyToolCallDelta, s, q)

\* The fragments put together, as steps.
LEMMA Merging ==
    ASSUME NEW s, NEW q, Len(q) \in Nat
    PROVE  \E f : /\ f[0] = s /\ f[Len(q)] = MergedAll(s, q)
                  /\ \A n \in 1 .. Len(q) : f[n] = Answers!applyToolCallDelta(f[n - 1], q[n])
<1> DEFINE after == CHOOSE after : after =
             [n \in 0 .. Len(q) |-> IF n = 0 THEN s ELSE Answers!applyToolCallDelta(after[n - 1], q[n])]
<1>1. MergedAll(s, q) = after[Len(q)]
  BY DEF Answers!Each, MergedAll
<1>2. PICK f : Doing(f, "merge", Len(q), s, q)
  BY DoingExists
<1>3. \A a, x : Done("merge", a, x) = Answers!applyToolCallDelta(a, x)
  BY DEF Done
<1>4. f = [n \in 0 .. Len(q) |-> IF n = 0 THEN s ELSE Answers!applyToolCallDelta(f[n - 1], q[n])]
  BY <1>2, <1>3 DEF Doing
<1>5. after = [n \in 0 .. Len(q) |-> IF n = 0 THEN s ELSE Answers!applyToolCallDelta(after[n - 1], q[n])]
  BY <1>4
<1> HIDE DEF after
<1>6. after[0] = s /\ \A n \in 1 .. Len(q) : after[n] = Answers!applyToolCallDelta(after[n - 1], q[n])
  <2>1. 0 \in 0 .. Len(q) /\ \A n \in 1 .. Len(q) : n \in 0 .. Len(q) /\ n # 0
    OBVIOUS
  <2>2. \A n \in 0 .. Len(q) : after[n] = IF n = 0 THEN s ELSE Answers!applyToolCallDelta(after[n - 1], q[n])
    BY <1>5
  <2> QED BY <2>1, <2>2
<1> QED BY <1>1, <1>6

AddedAll(s, q) == Answers!Each(Answers!addToolItem, s, q)

\* The items of new calls, as steps.
LEMMA Opening ==
    ASSUME NEW s, NEW q, Len(q) \in Nat
    PROVE  \E f : /\ f[0] = s /\ f[Len(q)] = AddedAll(s, q)
                  /\ \A n \in 1 .. Len(q) : f[n] = Answers!addToolItem(f[n - 1], q[n])
<1> DEFINE after == CHOOSE after : after =
             [n \in 0 .. Len(q) |-> IF n = 0 THEN s ELSE Answers!addToolItem(after[n - 1], q[n])]
<1>1. AddedAll(s, q) = after[Len(q)]
  BY DEF Answers!Each, AddedAll
<1>2. PICK f : Doing(f, "open", Len(q), s, q)
  BY DoingExists
<1>3. \A a, x : Done("open", a, x) = Answers!addToolItem(a, x)
  BY DEF Done
<1>4. f = [n \in 0 .. Len(q) |-> IF n = 0 THEN s ELSE Answers!addToolItem(f[n - 1], q[n])]
  BY <1>2, <1>3 DEF Doing
<1>5. after = [n \in 0 .. Len(q) |-> IF n = 0 THEN s ELSE Answers!addToolItem(after[n - 1], q[n])]
  BY <1>4
<1> HIDE DEF after
<1>6. after[0] = s /\ \A n \in 1 .. Len(q) : after[n] = Answers!addToolItem(after[n - 1], q[n])
  <2>1. 0 \in 0 .. Len(q) /\ \A n \in 1 .. Len(q) : n \in 0 .. Len(q) /\ n # 0
    OBVIOUS
  <2>2. \A n \in 0 .. Len(q) : after[n] = IF n = 0 THEN s ELSE Answers!addToolItem(after[n - 1], q[n])
    BY <1>5
  <2> QED BY <2>1, <2>2
<1> QED BY <1>1, <1>6

SaidAll(s, q) == Answers!Each(Answers!SayArgs, s, q)

\* The arguments of a chunk, as steps.
LEMMA Saying ==
    ASSUME NEW s, NEW q, Len(q) \in Nat
    PROVE  \E f : /\ f[0] = s /\ f[Len(q)] = SaidAll(s, q)
                  /\ \A n \in 1 .. Len(q) : f[n] = Answers!SayArgs(f[n - 1], q[n])
<1> DEFINE after == CHOOSE after : after =
             [n \in 0 .. Len(q) |-> IF n = 0 THEN s ELSE Answers!SayArgs(after[n - 1], q[n])]
<1>1. SaidAll(s, q) = after[Len(q)]
  BY DEF Answers!Each, SaidAll
<1>2. PICK f : Doing(f, "say", Len(q), s, q)
  BY DoingExists
<1>3. \A a, x : Done("say", a, x) = Answers!SayArgs(a, x)
  BY DEF Done
<1>4. f = [n \in 0 .. Len(q) |-> IF n = 0 THEN s ELSE Answers!SayArgs(f[n - 1], q[n])]
  BY <1>2, <1>3 DEF Doing
<1>5. after = [n \in 0 .. Len(q) |-> IF n = 0 THEN s ELSE Answers!SayArgs(after[n - 1], q[n])]
  BY <1>4
<1> HIDE DEF after
<1>6. after[0] = s /\ \A n \in 1 .. Len(q) : after[n] = Answers!SayArgs(after[n - 1], q[n])
  <2>1. 0 \in 0 .. Len(q) /\ \A n \in 1 .. Len(q) : n \in 0 .. Len(q) /\ n # 0
    OBVIOUS
  <2>2. \A n \in 0 .. Len(q) : after[n] = IF n = 0 THEN s ELSE Answers!SayArgs(after[n - 1], q[n])
    BY <1>5
  <2> QED BY <2>1, <2>2
<1> QED BY <1>1, <1>6

EndedAll(s, q) == Answers!Each(Answers!closeToolItem, s, q)

\* The items of calls ended, as steps.
LEMMA Ending ==
    ASSUME NEW s, NEW q, Len(q) \in Nat
    PROVE  \E f : /\ f[0] = s /\ f[Len(q)] = EndedAll(s, q)
                  /\ \A n \in 1 .. Len(q) : f[n] = Answers!closeToolItem(f[n - 1], q[n])
<1> DEFINE after == CHOOSE after : after =
             [n \in 0 .. Len(q) |-> IF n = 0 THEN s ELSE Answers!closeToolItem(after[n - 1], q[n])]
<1>1. EndedAll(s, q) = after[Len(q)]
  BY DEF Answers!Each, EndedAll
<1>2. PICK f : Doing(f, "end", Len(q), s, q)
  BY DoingExists
<1>3. \A a, x : Done("end", a, x) = Answers!closeToolItem(a, x)
  BY DEF Done
<1>4. f = [n \in 0 .. Len(q) |-> IF n = 0 THEN s ELSE Answers!closeToolItem(f[n - 1], q[n])]
  BY <1>2, <1>3 DEF Doing
<1>5. after = [n \in 0 .. Len(q) |-> IF n = 0 THEN s ELSE Answers!closeToolItem(after[n - 1], q[n])]
  BY <1>4
<1> HIDE DEF after
<1>6. after[0] = s /\ \A n \in 1 .. Len(q) : after[n] = Answers!closeToolItem(after[n - 1], q[n])
  <2>1. 0 \in 0 .. Len(q) /\ \A n \in 1 .. Len(q) : n \in 0 .. Len(q) /\ n # 0
    OBVIOUS
  <2>2. \A n \in 0 .. Len(q) : after[n] = IF n = 0 THEN s ELSE Answers!closeToolItem(after[n - 1], q[n])
    BY <1>5
  <2> QED BY <2>1, <2>2
<1> QED BY <1>1, <1>6


-----------------------------------------------------------------------------
(* Messages *)

\* All fragments of a chunk.
LEMMA FragmentsGood ==
    ASSUME NEW u, NEW s, Fed(u, s), NEW q, Len(q) \in Nat,
           \A n \in 1 .. Len(q) : FragmentOK(q[n]),
           NEW t, t = Fragments(s, q)
    PROVE  Fed(u, t) /\ SameEnds(s, t)
<1>1. PICK f : /\ f[0] = s /\ f[Len(q)] = t
               /\ \A n \in 1 .. Len(q) : f[n] = Answers!appendToolCall(f[n - 1], q[n])
  BY Feeding
<1> DEFINE l == Len(q)
           S == {n \in 0 .. l : Fed(u, f[n]) /\ SameEnds(s, f[n])}
<1>2. 0 \in S
  BY <1>1 DEF SameEnds
<1>3. ASSUME NEW n \in 1 .. l, n - 1 \in S
      PROVE  n \in S
  <2> DEFINE a == f[n - 1]
             b == f[n]
  <2>1. b = Answers!appendToolCall(a, q[n]) /\ FragmentOK(q[n]) /\ Fed(u, a) /\ SameEnds(s, a)
    BY <1>1, <1>3
  <2>2. n \in 0 .. l
    OBVIOUS
  <2> HIDE DEF a, b
  <2>3. Fed(u, b) /\ SameEnds(a, b)
    BY <2>1, AppendToolCallGood
  <2>4. SameEnds(s, b)
    BY <2>1, <2>3 DEF SameEnds
  <2> QED BY <2>2, <2>3, <2>4 DEF b
<1>4. l \in S
  <2>1. l \in Nat /\ l \in 0 .. l
    OBVIOUS
  <2> HIDE DEF S, l
  <2> QED BY <1>2, <1>3, <2>1, Inherited
<1> QED BY <1>1, <1>4

\* A state of which nothing but what was written and what is known of the end has changed.
LEMMA TypedKept ==
    ASSUME NEW s, Typed(s), NEW t, IsState(t), SameTools(s, t), SameTexts(s, t)
    PROVE  Typed(t)
BY DEF Typed, TextsTyped, CallsTyped, SameTools, SameTexts

\* Those that come later in an order.
Later(o, n) == {o[m] : m \in n + 1 .. Len(o)}

\* An order goes through its calls, one after the other.
LEMMA LaterIs ==
    ASSUME NEW f, NEW o, Orderly(f, o)
    PROVE  /\ Len(o) \in Nat /\ Later(o, 0) = DOMAIN f /\ Later(o, Len(o)) = {}
           /\ \A n \in 1 .. Len(o) :
                o[n] \in Later(o, n - 1) /\ Later(o, n) = Later(o, n - 1) \ {o[n]}
<1>1. Len(o) \in Nat
  BY LenProperties DEF Orderly
<1>2. /\ \A n \in 1 .. Len(o) : o[n] \in DOMAIN f
      /\ \A x \in DOMAIN f : \E n \in 1 .. Len(o) : o[n] = x
      /\ \A m, n \in 1 .. Len(o) : o[m] = o[n] => m = n
  BY DEF Orderly
<1>3. Later(o, 0) = DOMAIN f
  <2> DEFINE j == 0 + 1
  <2>1. Later(o, 0) = {o[m] : m \in j .. Len(o)} /\ j = 1
    BY DEF Later
  <2> HIDE DEF j
  <2>2. \A x \in Later(o, 0) : x \in DOMAIN f
    BY <1>2, <2>1
  <2>3. \A x \in DOMAIN f : x \in Later(o, 0)
    BY <1>2, <2>1
  <2> QED BY <2>2, <2>3
<1>4. Later(o, Len(o)) = {}
  BY <1>1 DEF Later
<1>5. ASSUME NEW n \in 1 .. Len(o)
      PROVE  o[n] \in Later(o, n - 1) /\ Later(o, n) = Later(o, n - 1) \ {o[n]}
  <2>1. /\ n \in (n - 1) + 1 .. Len(o)
        /\ \A m \in (n - 1) + 1 .. Len(o) : m = n \/ m \in n + 1 .. Len(o)
        /\ \A m \in n + 1 .. Len(o) : m \in (n - 1) + 1 .. Len(o) /\ m # n
        /\ \A m \in (n - 1) + 1 .. Len(o) : m \in 1 .. Len(o)
    BY <1>1
  <2>2. o[n] \in Later(o, n - 1)
    BY <2>1 DEF Later
  <2>3. \A m \in n + 1 .. Len(o) : o[m] # o[n]
    BY <1>2, <2>1
  <2> DEFINE j == (n - 1) + 1
  <2>4. Later(o, n - 1) = {o[m] : m \in j .. Len(o)}
    BY DEF Later
  <2>5. /\ \A m \in j .. Len(o) : m = n \/ m \in n + 1 .. Len(o)
        /\ \A m \in n + 1 .. Len(o) : m \in j .. Len(o)
    BY <2>1
  <2> HIDE DEF j
  <2>6. Later(o, n) = Later(o, n - 1) \ {o[n]}
    BY <2>3, <2>4, <2>5 DEF Later
  <2> QED BY <2>2, <2>6
<1> QED BY <1>1, <1>3, <1>4, <1>5

\* The block of one call is closed.
LEMMA CloseToolGood ==
    ASSUME NEW p, NEW u, NEW s, NEW T, Good(p, u, s, T), NEW x \in T, NEW t, t = Answers!CloseTool(s, x)
    PROVE  Good(p, u, t, T \ {x}) /\ SameTools(s, t) /\ SameTexts(s, t)
<1> DEFINE ev == Answers!Closed(s.tools[x].index, "tool")
           U  == T \ {x}
<1>1. t = Answers!emit(s, ev)
  BY DEF Answers!CloseTool
<1>2. IsState(s) /\ Typed(s) /\ Told(p, u, s, T)
  BY DEF Good, Typed
<1>3. /\ IsState(t) /\ t.out = Then(s.out, ev) /\ t.next = s.next
      /\ SameTools(s, t) /\ SameEnds(s, t) /\ SameTexts(s, t)
  <2> HIDE DEF ev
  <2> QED BY <1>1, <1>2, EmitIs
<1>4. Typed(t)
  BY <1>2, <1>3, TypedKept
<1>5. Shaped(s, t, U)
  BY <1>3 DEF Shaped, SameTools, SameTexts
<1>6. Told(p, u, t, U)
  BY <1>2, <1>3, <1>5, ToldCallClosed
<1> QED BY <1>3, <1>4, <1>6 DEF Good

\* The blocks of all are.
LEMMA ToolsClosedGood ==
    ASSUME NEW p, NEW u, NEW s, Good(p, u, s, DOMAIN s.tools), NoText(s),
           NEW t, t = ClosedAll(s, s.order)
    PROVE  Good(p, u, t, {}) /\ NoText(t)
<1> DEFINE o == s.order
           l == Len(o)
           g == s.tools
<1>1. Orderly(g, o)
  BY DEF Good, Typed, CallsTyped
<1> HIDE DEF o, g
<1>2. /\ l \in Nat /\ Later(o, 0) = DOMAIN g /\ Later(o, l) = {}
      /\ \A n \in 1 .. l :
           o[n] \in Later(o, n - 1) /\ Later(o, n) = Later(o, n - 1) \ {o[n]}
  BY <1>1, LaterIs
<1>3. PICK f : /\ f[0] = s /\ f[Len(o)] = t
               /\ \A n \in 1 .. Len(o) : f[n] = Answers!CloseTool(f[n - 1], o[n])
  BY <1>2, Closing DEF o
<1> DEFINE S == {n \in 0 .. l : /\ Good(p, u, f[n], Later(o, n))
                                /\ f[n].tools = s.tools /\ f[n].slot = s.slot}
<1>4. 0 \in S
  BY <1>2, <1>3 DEF g
<1>5. ASSUME NEW n \in 1 .. l, n - 1 \in S
      PROVE  n \in S
  <2> DEFINE a == f[n - 1]
             b == f[n]
             T == Later(o, n - 1)
             x == o[n]
  <2>1. b = Answers!CloseTool(a, x) /\ Good(p, u, a, T) /\ a.tools = s.tools /\ a.slot = s.slot
    BY <1>3, <1>5
  <2>2. n \in 0 .. l /\ x \in T /\ Later(o, n) = T \ {x}
    BY <1>2
  <2> HIDE DEF a, b, T, x
  <2>3. Good(p, u, b, T \ {x}) /\ SameTools(a, b) /\ SameTexts(a, b)
    BY <2>1, <2>2, CloseToolGood
  <2>4. b.tools = s.tools /\ b.slot = s.slot
    BY <2>1, <2>3 DEF SameTools, SameTexts
  <2> QED BY <2>2, <2>3, <2>4 DEF b
<1>6. l \in S
  <2>1. l \in Nat /\ l \in 0 .. l
    BY <1>2
  <2> HIDE DEF S, l
  <2> QED BY <1>4, <1>5, <2>1, Inherited
<1> QED BY <1>2, <1>3, <1>6 DEF NoText

\* The end of a Messages answer.
LEMMA FinishGood ==
    ASSUME NEW u, NEW s, Fed(u, s), NEW q, q = Answers!finishEvents(s).out
    PROVE  IsSeq(q) /\ \E w : Plays("messages", u, q, w) /\ w.phase = "complete"
<1> DEFINE p == "messages"
           T == DOMAIN s.tools
           c == Answers!closeThinking(s)
           a == Answers!stopText(c)
           b == ClosedAll(a, a.order)
           ev == Answers!Ended("complete")
           t == Answers!emit(b, ev)
<1>1. Answers!finishEvents(s) = t
  BY Zenon DEF Answers!finishEvents, Answers!CloseTools, ClosedAll
<1>2. /\ Good(p, u, c, T) /\ SameTools(s, c) /\ ~c.slot["reasoning"].open
  BY CloseThinkingGood DEF Fed
<1> HIDE DEF c
<1>3. /\ Good(p, u, a, T) /\ SameTools(c, a) /\ ~a.slot["text"].open
      /\ a.slot["reasoning"].open = c.slot["reasoning"].open
  BY <1>2, StopTextGood
<1> HIDE DEF a
<1>4. Good(p, u, a, DOMAIN a.tools)
  BY <1>2, <1>3 DEF SameTools
<1>5. NoText(a)
  BY <1>2, <1>3 DEF NoText, Answers!TextKinds
<1>6. Good(p, u, b, {}) /\ NoText(b)
  <2> HIDE DEF p
  <2> QED BY <1>4, <1>5, ToolsClosedGood
<1> HIDE DEF b
<1>7. Told(p, u, b, {}) /\ IsState(b)
  BY <1>6 DEF Good, Typed
<1>8. t.out = Then(b.out, ev)
  <2> HIDE DEF ev
  <2> QED BY <1>7, EmitIs
<1>9. q = Then(b.out, ev)
  BY <1>1, <1>8
<1> QED BY <1>6, <1>7, <1>9, ToldEnded

-----------------------------------------------------------------------------
(* The beginning *)

Nothing == [i \in {} |-> i]
Idle  == Seen(Nothing, "idle")
Begun == Seen(Nothing, "begun")

\* A state at the beginning.
LEMMA FreshIs ==
    ASSUME NEW restore \in BOOLEAN, NEW s, s = Answers!NewState(restore)
    PROVE  /\ Typed(s) /\ s.next = 0 /\ s.out = <<>> /\ DOMAIN s.tools = {}
           /\ s.order = <<>>
           /\ s.started = Off /\ s.finish = Off
           /\ \A k \in Answers!TextKinds : ~s.slot[k].open /\ s.slot[k].index = -1
<1> DEFINE f == [k \in Answers!TextKinds |-> Answers!NoSlot]
           r == Answers!newIdentityRestorer(restore)
           g == [k \in Answers!TextKinds |-> r]
<1>1. /\ IsState(s) /\ s.next = 0 /\ s.out = <<>> /\ s.tools = <<>> /\ s.order = <<>>
      /\ s.started = Off /\ s.finish = Off /\ s.slot = f /\ s.held = g
  BY DEF Answers!NewState, IsState, Off
<1>2. SlotOK(Answers!NoSlot) /\ ~Answers!NoSlot.open /\ Answers!NoSlot.index = -1
  <2> DEFINE x == Answers!NoSlot
  <2>1. x = [open |-> x.open, index |-> x.index, buf |-> x.buf]
        /\ x.open = Off /\ x.index = -1 /\ x.buf = <<>>
    BY DEF Answers!NoSlot, Off
  <2>2. x.open \in BOOLEAN
    BY <2>1 DEF Off
  <2> HIDE DEF x
  <2>3. SlotOK(x) /\ ~x.open /\ x.index = -1
    BY <2>1, <2>2, SeqOfNone DEF SlotOK, Off
  <2> QED BY <2>3 DEF x
<1>3. HeldOK(r)
  <2>1. r.active = restore /\ r.carry = <<>>
        /\ r = [active |-> r.active, carry |-> r.carry, address |-> r.address]
    BY DEF Answers!newIdentityRestorer
  <2> HIDE DEF r
  <2>2. <<>> \in Texts
    BY EmptySeq DEF Texts
  <2> QED BY <2>1, <2>2 DEF HeldOK
<1>4. KindMap(f) /\ \A k \in Answers!TextKinds : f[k] = Answers!NoSlot
  BY DEF KindMap
<1> HIDE DEF r
<1>5. KindMap(g) /\ \A k \in Answers!TextKinds : g[k] = r
  BY DEF KindMap
<1> HIDE DEF f, g
<1>6. TextsTyped(s)
  BY <1>1, <1>2, <1>3, <1>4, <1>5 DEF TextsTyped
<1>7. DOMAIN s.tools = {} /\ IsMap(s.tools) /\ Orderly(s.tools, s.order)
  <2> DEFINE e == s.tools
  <2>1. e = <<>> /\ s.order = <<>>
    BY <1>1
  <2> HIDE DEF e
  <2>2. DOMAIN e = {}
    BY <2>1
  <2>3. IsMap(e)
    BY <2>1, <2>2 DEF IsMap
  <2>4. <<>> \in Seq(Int) /\ Len(<<>>) = 0
    BY EmptySeq
  <2>5. Orderly(e, s.order)
    BY <2>1, <2>2, <2>4 DEF Orderly
  <2> QED BY <2>2, <2>3, <2>5 DEF e
<1>8. CallsTyped(s)
  BY <1>7 DEF CallsTyped
<1> QED BY <1>1, <1>2, <1>4, <1>6, <1>7, <1>8 DEF Typed

\* A reader who has only the beginning agrees with it.
LEMMA BegunAgrees ==
    ASSUME NEW p, NEW s, s.next = 0, \A k \in Answers!TextKinds : ~s.slot[k].open
    PROVE  Agrees(p, Begun, s, {})
<1> DEFINE v == Begun
<1>1. v.phase = "begun" /\ v.items = Nothing /\ DOMAIN Nothing = {} /\ IsMap(Nothing)
  BY DEF Begun, Seen, Nothing, IsMap
<1> HIDE DEF v
<1>2. IsView(v) /\ DOMAIN v.items = {}
  BY <1>1 DEF IsView
<1>3. s.next \in Nat /\ {} = 0 .. s.next - 1
  OBVIOUS
<1>4. Agrees(p, v, s, {})
  BY <1>2, <1>3 DEF Agrees, SlotsTold, TextsTold, CallsTold, CallsApart, CallsKnown
<1> QED BY <1>4 DEF v

\* An answer begins.
LEMMA BeganIs ==
    ASSUME NEW p
    PROVE  IsSeq(Answers!Began) /\ Plays(p, Idle, Answers!Began, Begun)
<1> DEFINE e == Answers!Event("begin", -1, "", <<>>, Answers!NoCall)
           v == Idle
           w == After(v, e)
<1>1. Answers!Began = <<e>>
  BY DEF Answers!Began
<1>2. e.type = "begin"
  BY DEF Answers!Event
<1>3. w = Begun /\ Begins(v, w)
  BY <1>2 DEF After, Seen, Answers!ItemsAfter, Answers!PhaseAfter, Idle, Begun, Begins
<1>4. MayFollow(p, v, w)
  BY <1>3 DEF MayFollow
<1> HIDE DEF e, v
<1>5. Plays(p, v, <<e>>, w)
  BY <1>4, PlaysOne
<1> QED BY <1>1, <1>3, <1>5, SeqOfOne DEF v

\* What a chunk holds.
ChunkOK(c) ==
  /\ c.reasoning \in Texts /\ c.text \in Texts /\ Len(c.tools) \in Nat
  /\ \A n \in 1 .. Len(c.tools) : FragmentOK(c.tools[n])

\* What the reader has agrees with what is kept between two chunks.
Level(p, w, s, T) == Typed(s) /\ s.out = <<>> /\ Agrees(p, w, s, T)

\* Between two chunks nothing is left to be read.
LEMMA LevelGood ==
    ASSUME NEW p, NEW w, NEW s, NEW T, Level(p, w, s, T)
    PROVE  Good(p, w, s, T)
BY PlaysNothing, SeqOfNone DEF Level, Good, Told

\* A state taken up between two chunks.
Cleared(s)  == [s EXCEPT !.out = <<>>]
Known(s, b) == [s EXCEPT !.finish = b]

\* Only what is known of the end changes.
LEMMA KnownIs ==
    ASSUME NEW s, IsState(s), NEW b, NEW t, t = Known(s, b)
    PROVE  /\ IsState(t) /\ t.out = s.out /\ t.next = s.next /\ t.started = s.started
           /\ SameTools(s, t) /\ SameTexts(s, t)
BY DEF Known, IsState, SameTools, SameTexts

\* Only what was written goes.
LEMMA ClearedIs ==
    ASSUME NEW s, IsState(s), NEW t, t = Cleared(s)
    PROVE  /\ IsState(t) /\ t.out = <<>> /\ t.next = s.next /\ SameEnds(s, t)
           /\ SameTools(s, t) /\ SameTexts(s, t)
BY DEF Cleared, IsState, SameTools, SameTexts, SameEnds

\* A finish reason is noted; the reader is told nothing.
LEMMA KnownGood ==
    ASSUME NEW p, NEW u, NEW s, NEW T, Good(p, u, s, T), NEW b, NEW t, t = Known(s, b)
    PROVE  /\ Good(p, u, t, T) /\ SameTools(s, t) /\ SameTexts(s, t)
           /\ t.started = s.started /\ t.out = s.out
<1>1. IsState(s) /\ Typed(s) /\ Told(p, u, s, T)
  BY DEF Good, Typed
<1>2. /\ IsState(t) /\ t.out = s.out /\ t.next = s.next /\ t.started = s.started
      /\ SameTools(s, t) /\ SameTexts(s, t)
  BY <1>1, KnownIs
<1>3. Typed(t)
  BY <1>1, <1>2, TypedKept
<1>4. Shaped(s, t, T)
  BY <1>2 DEF Shaped, SameTools, SameTexts
<1>5. Told(p, u, t, T)
  BY <1>1, <1>2, <1>4, ToldShaped
<1> QED BY <1>2, <1>3, <1>5 DEF Good

\* What was written has been read.
LEMMA GoodLevel ==
    ASSUME NEW p, NEW u, NEW s, NEW T, Good(p, u, s, T), NEW t, t = Cleared(s)
    PROVE  /\ \E w : Plays(p, u, s.out, w) /\ Level(p, w, t, T)
           /\ SameTools(s, t) /\ SameTexts(s, t) /\ SameEnds(s, t) /\ IsSeq(s.out)
<1>1. IsState(s) /\ Typed(s) /\ IsSeq(s.out)
  BY DEF Good, Typed, Told
<1>2. PICK w : Plays(p, u, s.out, w) /\ Agrees(p, w, s, T)
  BY DEF Good, Told
<1>3. /\ IsState(t) /\ t.out = <<>> /\ t.next = s.next /\ SameEnds(s, t)
      /\ SameTools(s, t) /\ SameTexts(s, t)
  BY <1>1, ClearedIs
<1>4. Typed(t)
  BY <1>1, <1>3, TypedKept
<1>5. Shaped(s, t, T)
  BY <1>3 DEF Shaped, SameTools, SameTexts
<1>6. Level(p, w, t, T)
  BY <1>2, <1>3, <1>4, <1>5, AgreesShaped DEF Level
<1> QED BY <1>1, <1>2, <1>3, <1>6

-----------------------------------------------------------------------------
(* A Messages answer between two chunks *)

\* It has begun, or nothing was written of it yet.
MessagesAt(w, s, restore) ==
  \/ s.started /\ Level("messages", w, s, DOMAIN s.tools) /\ Alone(s)
  \/ s = Answers!NewState(restore) /\ w = Idle

\* The first chunk begins the answer.
LEMMA BeginGood ==
    ASSUME NEW w, NEW s, NEW restore \in BOOLEAN, MessagesAt(w, s, restore),
           NEW t, t = Answers!begin(s)
    PROVE  Fed(w, t) /\ t.started
<1>1. CASE s.started
  <2>1. ~(s = Answers!NewState(restore))
    <3>1. s = Answers!NewState(restore) => s.started = Off
      BY FreshIs
    <3> QED BY <1>1, <3>1 DEF Off
  <2>2. t = s
    BY <1>1 DEF Answers!begin
  <2> QED BY <1>1, <2>1, <2>2, LevelGood DEF MessagesAt, Fed
<1>2. CASE ~s.started
  <2>1. s = Answers!NewState(restore) /\ w = Idle
    BY <1>2 DEF MessagesAt
  <2>2. /\ Typed(s) /\ s.next = 0 /\ s.out = <<>> /\ DOMAIN s.tools = {}
        /\ \A k \in Answers!TextKinds : ~s.slot[k].open
    BY <2>1, FreshIs
  <2> DEFINE c  == [s EXCEPT !.started = On]
             ev == Answers!Began
  <2>3. t = Answers!emit(c, ev)
    BY <1>2 DEF Answers!begin, On
  <2>4. /\ IsState(c) /\ c.started /\ c.out = s.out /\ c.next = s.next
        /\ SameTools(s, c) /\ SameTexts(s, c)
    <3>1. c.started = On
      BY <2>2 DEF Typed, IsState
    <3>2. /\ IsState(c) /\ c.out = s.out /\ c.next = s.next
          /\ SameTools(s, c) /\ SameTexts(s, c)
      BY <2>2 DEF Typed, IsState, SameTools, SameTexts
    <3> HIDE DEF c
    <3> QED BY <3>1, <3>2 DEF On
  <2> HIDE DEF c, ev
  <2>5. /\ IsState(t) /\ t.out = Then(c.out, ev) /\ t.next = c.next
        /\ SameTools(c, t) /\ SameEnds(c, t) /\ SameTexts(c, t)
    BY <2>3, <2>4, EmitIs
  <2>6. SameTools(s, t) /\ SameTexts(s, t) /\ t.started
    BY <2>4, <2>5 DEF SameTools, SameTexts, SameEnds
  <2>7. Typed(t)
    BY <2>2, <2>5, <2>6, TypedKept
  <2>8. IsSeq(ev) /\ Plays("messages", w, ev, Begun)
    BY <2>1, BeganIs DEF ev
  <2>9. t.out = ev
    BY <2>2, <2>4, <2>5, <2>8, ThenNothing
  <2>10. t.next = 0 /\ \A k \in Answers!TextKinds : ~t.slot[k].open
    BY <2>2, <2>4, <2>5, <2>6 DEF SameTexts
  <2>11. Agrees("messages", Begun, t, {})
    BY <2>10, BegunAgrees
  <2>12. DOMAIN t.tools = {}
    BY <2>2, <2>6 DEF SameTools
  <2>13. Alone(t)
    BY <2>10 DEF Alone, Answers!TextKinds
  <2> QED BY <2>6, <2>7, <2>8, <2>9, <2>11, <2>12, <2>13 DEF Fed, Good, Told
<1> QED BY <1>1, <1>2

\* A chunk.
LEMMA FeedGood ==
    ASSUME NEW w, NEW s, NEW restore \in BOOLEAN, MessagesAt(w, s, restore),
           NEW c, ChunkOK(c), NEW t, t = Answers!feed(s, c)
    PROVE  Fed(w, t) /\ t.started
<1> DEFINE a == Answers!begin(s)
           b == Answers!appendThinking(a, c.reasoning)
           d == Answers!appendText(b, c.text)
           e == Fragments(d, c.tools)
           q == c.tools
           y == e.finish \/ c.finish
<1>1. t = Known(e, y)
  BY DEF Answers!feed, Fragments, Known
<1>2. Fed(w, a) /\ a.started
  BY BeginGood
<1> HIDE DEF a
<1>3. Good("messages", w, b, DOMAIN a.tools) /\ SameTools(a, b) /\ SameEnds(a, b) /\ Alone(b)
  BY <1>2, AppendThinkingGood DEF Fed, ChunkOK
<1> HIDE DEF b
<1>4. Good("messages", w, d, DOMAIN a.tools) /\ SameTools(b, d) /\ SameEnds(b, d) /\ Alone(d)
  BY <1>3, AppendTextGood DEF ChunkOK
<1> HIDE DEF d
<1>5. Fed(w, d)
  BY <1>3, <1>4 DEF Fed, SameTools
<1>6. Len(q) \in Nat /\ \A n \in 1 .. Len(q) : FragmentOK(q[n])
  BY DEF ChunkOK
<1>7. e = Fragments(d, q)
  OBVIOUS
<1> HIDE DEF e, q
<1>8. Fed(w, e) /\ SameEnds(d, e)
  BY <1>5, <1>6, <1>7, FragmentsGood
<1>9. e.started
  BY <1>2, <1>3, <1>4, <1>8 DEF SameEnds
<1> HIDE DEF y
<1>10. /\ Good("messages", w, t, DOMAIN e.tools) /\ SameTools(e, t) /\ SameTexts(e, t)
       /\ t.started = e.started
  BY <1>1, <1>8, KnownGood DEF Fed
<1> QED BY <1>8, <1>9, <1>10 DEF Fed, SameTools, SameTexts, Alone

\* What is said in an item that is open.
LEMMA EmitDeltaGood ==
    ASSUME NEW p, NEW u, NEW s, NEW T, Good(p, u, s, T), NEW i, OpenAt(s, T, i),
           NEW k, NEW text, IsSeq(text), NEW t, t = Answers!emit(s, Answers!Delta(i, k, text))
    PROVE  /\ Good(p, u, t, T) /\ SameTools(s, t) /\ SameTexts(s, t) /\ SameEnds(s, t)
           /\ t.next = s.next /\ t.out = Then(s.out, Answers!Delta(i, k, text))
<1> DEFINE ev == Answers!Delta(i, k, text)
<1>1. IsState(s) /\ Typed(s) /\ Told(p, u, s, T)
  BY DEF Good, Typed
<1>2. /\ IsState(t) /\ t.out = Then(s.out, ev) /\ t.next = s.next
      /\ SameTools(s, t) /\ SameEnds(s, t) /\ SameTexts(s, t)
  <2> HIDE DEF ev
  <2> QED BY <1>1, EmitIs DEF ev
<1>3. Typed(t)
  BY <1>1, <1>2, TypedKept
<1>4. Shaped(s, t, T)
  BY <1>2 DEF Shaped, SameTools, SameTexts
<1>5. Told(p, u, t, T)
  BY <1>1, <1>2, <1>4, ToldDelta
<1> QED BY <1>2, <1>3, <1>5 DEF Good

\* What it sums up to.
LEMMA EmitSumGood ==
    ASSUME NEW p, NEW u, NEW s, NEW T, Good(p, u, s, T), NEW i, OpenAt(s, T, i),
           NEW k, NEW text, IsSeq(text), NEW t, t = Answers!emit(s, Answers!Sum(i, k, text))
    PROVE  /\ Good(p, u, t, T) /\ SameTools(s, t) /\ SameTexts(s, t) /\ SameEnds(s, t)
           /\ t.next = s.next /\ t.out = Then(s.out, Answers!Sum(i, k, text))
<1> DEFINE ev == Answers!Sum(i, k, text)
<1>1. IsState(s) /\ Typed(s) /\ Told(p, u, s, T)
  BY DEF Good, Typed
<1>2. /\ IsState(t) /\ t.out = Then(s.out, ev) /\ t.next = s.next
      /\ SameTools(s, t) /\ SameEnds(s, t) /\ SameTexts(s, t)
  <2> HIDE DEF ev
  <2> QED BY <1>1, EmitIs DEF ev
<1>3. Typed(t)
  BY <1>1, <1>2, TypedKept
<1>4. Shaped(s, t, T)
  BY <1>2 DEF Shaped, SameTools, SameTexts
<1>5. Told(p, u, t, T)
  BY <1>1, <1>2, <1>4, ToldSum
<1> QED BY <1>2, <1>3, <1>5 DEF Good

-----------------------------------------------------------------------------
(* Responses *)

\* A text that has no item yet has no index.
Quiet(s) == \A k \in Answers!TextKinds : s.slot[k].open \/ s.slot[k].index = -1

\* A piece of reasoning or of text goes on, or opens, its item.
LEMMA AppendItemGood ==
    ASSUME NEW u, NEW s, NEW T, Good("responses", u, s, T), Quiet(s),
           NEW k \in Answers!TextKinds, NEW piece \in Texts, NEW t, t = Answers!appendItem(s, k, piece)
    PROVE  Good("responses", u, t, T) /\ SameTools(s, t) /\ SameEnds(s, t) /\ Quiet(t)
<1> DEFINE p == "responses"
<1>1. CASE piece = <<>>
  <2>1. t = s
    BY <1>1 DEF Answers!appendItem
  <2> QED BY <2>1 DEF SameTools, SameEnds
<1>2. CASE piece # <<>>
  <2>1. t = Answers!Say(Answers!Opening(s, k), k, piece)
    BY <1>2, Zenon DEF Answers!appendItem
  <2>2. s.slot[k].open \/ MayOpenText(p, s, k)
    BY DEF MayOpenText, Quiet
  <2>3. p \in {"messages", "responses"} /\ Good(p, u, s, T)
    OBVIOUS
  <2> HIDE DEF p
  <2>4. /\ Good(p, u, t, T) /\ SameTools(s, t) /\ SameEnds(s, t) /\ t.slot[k].open
        /\ \A j \in Answers!TextKinds :
             j # k => t.slot[j].open = s.slot[j].open /\ t.slot[j].index = s.slot[j].index
    BY <2>1, <2>2, <2>3, SpeakGood
  <2> QED BY <2>4 DEF Quiet, p
<1> QED BY <1>1, <1>2

\* The order has grown.
Longer(o, r) ==
  /\ Len(o) \in Nat /\ Len(r) \in Nat /\ Len(o) <= Len(r)
  /\ \A n \in 1 .. Len(o) : r[n] = o[n]

\* It grows on.
LEMMA LongerOn ==
    ASSUME NEW a, NEW b, NEW c, Longer(a, b), Longer(b, c)
    PROVE  Longer(a, c)
<1>1. \A n \in 1 .. Len(a) : n \in 1 .. Len(b)
  BY DEF Longer
<1> QED BY <1>1 DEF Longer

\* A fragment is put together with its call; nothing is told of it yet.
LEMMA MergeGood ==
    ASSUME NEW p, NEW u, NEW s, NEW T, Good(p, u, s, T), T \subseteq DOMAIN s.tools,
           NEW f, FragmentOK(f), NEW t, t = Answers!applyToolCallDelta(s, f)
    PROVE  /\ Good(p, u, t, T) /\ SameTexts(s, t) /\ SameEnds(s, t)
           /\ DOMAIN t.tools = DOMAIN s.tools \cup {f.index}
           /\ Longer(s.order, t.order) /\ t.out = s.out
<1> DEFINE x == f.index
           known == x \in DOMAIN s.tools
           next  == Answers!Merged(IF known THEN s.tools[x] ELSE Answers!NewTool(-1), f)
           tools == Answers!Put(s.tools, x, next)
           order == IF known THEN s.order ELSE Append(s.order, x)
<1>1. t = Calls(s, tools, order, s.next)
  <2> DEFINE n  == s.next
             v  == [s EXCEPT !.tools = tools, !.order = order]
  <2>1. t = v
    BY Zenon DEF Answers!applyToolCallDelta
  <2> HIDE DEF tools, order
  <2>2. IsState(s)
    BY DEF Good, Typed
  <2>3. v = Calls(s, tools, order, n)
    BY <2>2 DEF Calls, IsState
  <2> QED BY <2>1, <2>3
<1>2. IsState(s) /\ TextsTyped(s) /\ CallsTyped(s) /\ Typed(s) /\ Told(p, u, s, T)
  BY DEF Good, Typed
<1>3. x \in Int /\ IsSeq(f.args)
  BY DEF FragmentOK
<1>4. ToolOK(next) /\ (known => next.index = s.tools[x].index)
  <2> DEFINE m == IF known THEN s.tools[x] ELSE Answers!NewTool(-1)
  <2>1. IsSeq(m.args) /\ (known => m.index = s.tools[x].index)
    BY <1>2, <1>3, NewToolIs DEF CallsTyped, ToolOK
  <2> HIDE DEF m
  <2> QED BY <1>3, <2>1, MergedIs DEF m
<1> HIDE DEF next
<1>5. /\ DOMAIN tools = DOMAIN s.tools \cup {x} /\ IsMap(tools) /\ tools[x] = next
      /\ \A y \in DOMAIN s.tools : y # x => tools[y] = s.tools[y]
  <2> DEFINE g == s.tools
  <2> HIDE DEF g
  <2> QED BY DEF Answers!Put, IsMap, g
<1> HIDE DEF tools
<1>6. /\ IsState(t) /\ t.out = s.out /\ t.next = s.next /\ t.tools = tools /\ t.order = order
      /\ SameTexts(s, t) /\ SameEnds(s, t)
  <2> DEFINE n == s.next
  <2> HIDE DEF n, order
  <2> QED BY <1>1, <1>2, CallsIs DEF n
<1>7. Orderly(tools, order) /\ Longer(s.order, order)
  <2> DEFINE g == s.tools
             q == s.order
  <2>1. Orderly(g, q) /\ Len(q) \in Nat
    BY <1>2, LenProperties DEF CallsTyped, Orderly
  <2>2. CASE known
    <3>1. DOMAIN tools = DOMAIN g /\ order = q
      BY <1>5, <2>2
    <3> HIDE DEF g, q, order
    <3>2. Orderly(tools, q)
      BY <2>1, <3>1, OrderlyKept
    <3>3. Longer(q, order)
      BY <2>1, <3>1 DEF Longer
    <3> QED BY <3>1, <3>2, <3>3 DEF q
  <2>3. CASE ~known
    <3>1. DOMAIN tools = DOMAIN g \cup {x} /\ x \notin DOMAIN g /\ order = Append(q, x)
          /\ x \in Int
      BY <1>3, <1>5, <2>3
    <3>7. Orderly(g, q) /\ DOMAIN tools = DOMAIN g \cup {x} /\ x \notin DOMAIN g
          /\ order = Append(q, x) /\ x \in Int
      BY <2>1, <3>1
    <3> HIDE DEF g, q, order, x, known
    <3>4. Orderly(tools, order)
      BY <3>7, OrderlyNew, ZenonT(60)
    <3>5. q \in Seq(Int)
      BY <2>1 DEF Orderly
    <3>6. Len(order) = Len(q) + 1 /\ \A n \in 1 .. Len(q) : order[n] = q[n]
      BY <3>1, <3>5, AppendProperties
    <3>2. /\ Orderly(tools, order) /\ Len(order) = Len(q) + 1
          /\ \A n \in 1 .. Len(q) : order[n] = q[n]
      BY <3>4, <3>6
    <3>3. Longer(q, order)
      BY <2>1, <3>2 DEF Longer
    <3> QED BY <3>2, <3>3 DEF q
  <2> QED BY <2>2, <2>3
<1> HIDE DEF order
<1>8. Typed(t)
  <2>1. \A y \in DOMAIN tools : ToolOK(tools[y])
    BY <1>2, <1>4, <1>5 DEF CallsTyped
  <2>2. CallsTyped(t)
    BY <1>5, <1>6, <1>7, <2>1 DEF CallsTyped
  <2>3. TextsTyped(t)
    BY <1>2, <1>6 DEF TextsTyped, SameTexts
  <2> QED BY <1>6, <2>2, <2>3 DEF Typed
<1>9. Shaped(s, t, T)
  BY <1>4, <1>5, <1>6 DEF Shaped, SameTexts
<1>10. Told(p, u, t, T)
  BY <1>2, <1>6, <1>9, ToldShaped
<1> QED BY <1>5, <1>6, <1>7, <1>8, <1>10 DEF Good

\* All fragments of a chunk.
LEMMA MergedAllGood ==
    ASSUME NEW p, NEW u, NEW s, NEW T, Good(p, u, s, T), T \subseteq DOMAIN s.tools,
           NEW q, Len(q) \in Nat, \A n \in 1 .. Len(q) : FragmentOK(q[n]),
           NEW t, t = MergedAll(s, q)
    PROVE  /\ Good(p, u, t, T) /\ SameTexts(s, t) /\ SameEnds(s, t)
           /\ T \subseteq DOMAIN t.tools
           /\ \A n \in 1 .. Len(q) : q[n].index \in DOMAIN t.tools
           /\ Longer(s.order, t.order)
<1>1. PICK f : /\ f[0] = s /\ f[Len(q)] = t
               /\ \A n \in 1 .. Len(q) : f[n] = Answers!applyToolCallDelta(f[n - 1], q[n])
  BY Merging
<1> DEFINE l == Len(q)
           Fine(a, n) == /\ Good(p, u, a, T) /\ SameTexts(s, a) /\ SameEnds(s, a)
                         /\ T \subseteq DOMAIN a.tools
                         /\ \A m \in 1 .. n : q[m].index \in DOMAIN a.tools
                         /\ Longer(s.order, a.order)
           S == {n \in 0 .. l : Fine(f[n], n)}
<1>2. 0 \in S
  <2>1. Longer(s.order, s.order)
    <3>1. Len(s.order) \in Nat
      BY LenProperties DEF Good, Typed, CallsTyped, Orderly
    <3> QED BY <3>1 DEF Longer
  <2>2. 0 \in 0 .. l /\ 1 .. 0 = {}
    OBVIOUS
  <2>3. Fine(s, 0)
    BY <2>1, <2>2 DEF SameTexts, SameEnds
  <2> HIDE DEF Fine
  <2> QED BY <1>1, <2>2, <2>3
<1>3. ASSUME NEW n \in 1 .. l, n - 1 \in S
      PROVE  n \in S
  <2> DEFINE a == f[n - 1]
             b == f[n]
             x == q[n]
  <2>1. b = Answers!applyToolCallDelta(a, x) /\ FragmentOK(x) /\ Fine(a, n - 1)
    <3> HIDE DEF Fine
    <3> QED BY <1>1, <1>3
  <2>2. n \in 0 .. l /\ \A m \in 1 .. n : m = n \/ m \in 1 .. n - 1
    OBVIOUS
  <2> HIDE DEF a, b
  <2>3. /\ Good(p, u, b, T) /\ SameTexts(a, b) /\ SameEnds(a, b)
        /\ DOMAIN b.tools = DOMAIN a.tools \cup {x.index}
        /\ Longer(a.order, b.order)
    <3> HIDE DEF x
    <3> QED BY <2>1, MergeGood
  <2>4. SameTexts(s, b) /\ SameEnds(s, b)
    BY <2>1, <2>3 DEF SameTexts, SameEnds
  <2>5. Longer(s.order, b.order)
    <3> DEFINE o1 == s.order
               o2 == a.order
               o3 == b.order
    <3>1. Longer(o1, o2) /\ Longer(o2, o3)
      BY <2>1, <2>3
    <3> HIDE DEF o1, o2, o3
    <3>2. Longer(o1, o3)
      BY <3>1, LongerOn
    <3> QED BY <3>2 DEF o1, o3
  <2>6. \A m \in 1 .. n : q[m].index \in DOMAIN b.tools
    BY <2>1, <2>2, <2>3
  <2>7. Fine(b, n)
    BY <2>1, <2>3, <2>4, <2>5, <2>6
  <2> HIDE DEF Fine
  <2> QED BY <2>2, <2>7 DEF b
<1>4. l \in S
  <2>1. l \in Nat /\ l \in 0 .. l
    OBVIOUS
  <2> HIDE DEF S, l
  <2> QED BY <1>2, <1>3, <2>1, Inherited
<1> QED BY <1>1, <1>4

\* A call written with its index.
LEMMA IndexedIs ==
    ASSUME NEW f, IsMap(f), \A y \in DOMAIN f : ToolOK(f[y]), NEW x \in DOMAIN f, NEW n,
           NEW g, g = Indexed(f, x, n)
    PROVE  /\ IsMap(g) /\ DOMAIN g = DOMAIN f /\ \A y \in DOMAIN g : ToolOK(g[y])
           /\ g[x].index = n /\ \A y \in DOMAIN f : y # x => g[y] = f[y]
<1> DEFINE a == f[x]
           b == [a EXCEPT !.index = n]
<1>1. g = [f EXCEPT ![x] = b]
  BY DEF Indexed
<1>2. ToolOK(a)
  OBVIOUS
<1> HIDE DEF a
<1>3. ToolOK(b) /\ b.index = n
  BY <1>2 DEF ToolOK
<1> HIDE DEF b
<1>4. /\ DOMAIN g = DOMAIN f /\ g[x] = b /\ IsMap(g)
      /\ \A y \in DOMAIN f : y # x => g[y] = f[y]
  BY <1>1 DEF IsMap
<1> QED BY <1>3, <1>4

\* A call gets its item.
LEMMA AddItemGood ==
    ASSUME NEW u, NEW s, NEW T, Good("responses", u, s, T), T \subseteq DOMAIN s.tools,
           NEW x \in DOMAIN s.tools, x \notin T, NEW t, t = Answers!addToolItem(s, x)
    PROVE  /\ Good("responses", u, t, T \cup {x}) /\ SameTexts(s, t) /\ SameEnds(s, t)
           /\ DOMAIN t.tools = DOMAIN s.tools /\ t.order = s.order
<1> DEFINE p == "responses"
           n == s.next
           f == s.tools
           g == t.tools
           o == s.order
           c == Answers!CallItem(s.tools[x].call)
<1>1. IsState(s) /\ TextsTyped(s) /\ CallsTyped(s) /\ Typed(s) /\ Told(p, u, s, T)
  BY DEF Good, Typed
<1>2. /\ IsState(t) /\ t.next = n + 1 /\ t.order = o
      /\ t.out = Then(s.out, Answers!Opened(n, "tool", c))
      /\ g = Indexed(f, x, n)
      /\ SameTexts(s, t) /\ SameEnds(s, t)
  BY <1>1, AddToolItemIs
<1>3. IsMap(f) /\ (\A y \in DOMAIN f : ToolOK(f[y])) /\ x \in DOMAIN f
  BY <1>1 DEF CallsTyped
<1> HIDE DEF n, f, g, o, c
<1>4. /\ IsMap(g) /\ DOMAIN g = DOMAIN f /\ \A y \in DOMAIN g : ToolOK(g[y])
      /\ g[x].index = n /\ \A y \in DOMAIN f : y # x => g[y] = f[y]
  BY <1>2, <1>3, IndexedIs
<1>5. Orderly(g, o)
  <2>1. Orderly(f, o)
    BY <1>1 DEF CallsTyped, f, o
  <2> QED BY <1>4, <2>1, OrderlyKept
<1>6. CallsTyped(t)
  BY <1>2, <1>4, <1>5 DEF CallsTyped, g
<1>7. Typed(t)
  BY <1>1, <1>2, <1>6 DEF Typed, TextsTyped, SameTexts
<1>8. Told(p, u, t, T \cup {x})
  <2>1. p \in {"messages", "responses"} /\ (p = "messages" => NoText(s))
    OBVIOUS
  <2>2. t.next = s.next + 1 /\ x \in DOMAIN t.tools /\ t.tools[x].index = s.next
    BY <1>2, <1>3, <1>4 DEF n, g
  <2>3. \A y \in T : y \in DOMAIN t.tools /\ t.tools[y].index = s.tools[y].index
    BY <1>4 DEF f, g
  <2>4. \A k \in Answers!TextKinds :
          t.slot[k].open = s.slot[k].open /\ t.slot[k].index = s.slot[k].index
    BY <1>2 DEF SameTexts
  <2>5. t.out = Then(s.out, Answers!Opened(s.next, "tool", c))
    BY <1>2 DEF n
  <2>6. Told(p, u, s, T)
    BY <1>1
  <2> HIDE DEF p
  <2> QED BY <2>6, <2>1, <2>2, <2>3, <2>4, <2>5, ToldCallOpened, ZenonT(60)
<1>9. Good(p, u, t, T \cup {x})
  BY <1>7, <1>8 DEF Good
<1>10. DOMAIN t.tools = DOMAIN s.tools /\ t.order = s.order
  BY <1>2, <1>4 DEF f, g, o
<1> QED BY <1>2, <1>9, <1>10

\* The calls of S that are not in T, each once.
Brings(q, T, S) ==
  /\ Len(q) \in Nat
  /\ \A n \in 1 .. Len(q) : q[n] \in S /\ q[n] \notin T
  /\ \A m, n \in 1 .. Len(q) : q[m] = q[n] => m = n
  /\ \A x \in S : x \in T \/ \E n \in 1 .. Len(q) : q[n] = x

\* Every new call gets one.
LEMMA AddedAllGood ==
    ASSUME NEW u, NEW s, NEW T, Good("responses", u, s, T), T \subseteq DOMAIN s.tools,
           NEW q, Brings(q, T, DOMAIN s.tools), NEW t, t = AddedAll(s, q)
    PROVE  /\ Good("responses", u, t, DOMAIN t.tools) /\ SameTexts(s, t) /\ SameEnds(s, t)
           /\ DOMAIN t.tools = DOMAIN s.tools
<1>0. /\ Len(q) \in Nat
      /\ \A n \in 1 .. Len(q) : q[n] \in DOMAIN s.tools /\ q[n] \notin T
      /\ \A m, n \in 1 .. Len(q) : q[m] = q[n] => m = n
      /\ \A x \in DOMAIN s.tools : x \in T \/ \E n \in 1 .. Len(q) : q[n] = x
  BY DEF Brings
<1>1. PICK f : /\ f[0] = s /\ f[Len(q)] = t
               /\ \A n \in 1 .. Len(q) : f[n] = Answers!addToolItem(f[n - 1], q[n])
  BY <1>0, Opening
<1> DEFINE l == Len(q)
           U(n) == T \cup {q[m] : m \in 1 .. n}
           Fine(a, n) == /\ Good("responses", u, a, U(n)) /\ SameTexts(s, a) /\ SameEnds(s, a)
                         /\ DOMAIN a.tools = DOMAIN s.tools
           S == {n \in 0 .. l : Fine(f[n], n)}
<1>2. 0 \in S
  <2>1. U(0) = T /\ 0 \in 0 .. l
    OBVIOUS
  <2> HIDE DEF U
  <2>2. Fine(s, 0)
    BY <2>1 DEF SameTexts, SameEnds
  <2> HIDE DEF Fine
  <2> QED BY <1>1, <2>1, <2>2
<1>3. ASSUME NEW n \in 1 .. l, n - 1 \in S
      PROVE  n \in S
  <2> DEFINE a == f[n - 1]
             b == f[n]
             x == q[n]
             V == U(n - 1)
  <2>1. b = Answers!addToolItem(a, x) /\ Fine(a, n - 1)
    <3> HIDE DEF Fine
    <3> QED BY <1>1, <1>3
  <2>2. /\ n \in 0 .. l /\ n \in 1 .. n
        /\ \A m \in 1 .. n : m = n \/ m \in 1 .. n - 1
        /\ \A m \in 1 .. n - 1 : m \in 1 .. n /\ m \in 1 .. l /\ m # n
    BY <1>0
  <2>3. U(n) = V \cup {x}
    <3> DEFINE j == n - 1
    <3>1. /\ \A m \in 1 .. n : m = n \/ m \in 1 .. j
          /\ \A m \in 1 .. j : m \in 1 .. n
      BY <2>2
    <3> HIDE DEF j
    <3>2. \A y \in U(n) : y \in V \cup {x}
      BY <3>1 DEF j
    <3>3. \A y \in V \cup {x} : y \in U(n)
      BY <2>2
    <3> QED BY <3>2, <3>3
  <2>4. x \notin V /\ V \subseteq DOMAIN s.tools /\ x \in DOMAIN s.tools
    BY <1>0, <2>2
  <2> HIDE DEF a, b, V, x, U
  <2>5. Good("responses", u, a, V) /\ DOMAIN a.tools = DOMAIN s.tools
    BY <2>1 DEF V
  <2>9. /\ Good("responses", u, a, V) /\ V \subseteq DOMAIN a.tools
        /\ x \in DOMAIN a.tools /\ x \notin V /\ b = Answers!addToolItem(a, x)
    BY <2>1, <2>4, <2>5
  <2>6. /\ Good("responses", u, b, V \cup {x}) /\ SameTexts(a, b) /\ SameEnds(a, b)
        /\ DOMAIN b.tools = DOMAIN a.tools
    BY <2>9, AddItemGood
  <2>7. SameTexts(s, b) /\ SameEnds(s, b)
    BY <2>1, <2>6 DEF SameTexts, SameEnds
  <2>8. Fine(b, n)
    BY <2>3, <2>5, <2>6, <2>7
  <2> HIDE DEF Fine
  <2> QED BY <2>2, <2>8 DEF b
<1>4. l \in S
  <2>1. l \in Nat /\ l \in 0 .. l
    BY <1>0
  <2> HIDE DEF S, l
  <2> QED BY <1>2, <1>3, <2>1, Inherited
<1>5. U(l) = DOMAIN s.tools
  BY <1>0
<1> HIDE DEF U
<1>6. Fine(t, l)
  <2> HIDE DEF Fine
  <2> QED BY <1>1, <1>4
<1> QED BY <1>5, <1>6

\* The arguments are said in the items of their calls.
LEMMA SayArgsGood ==
    ASSUME NEW p, NEW u, NEW s, NEW T, Good(p, u, s, T), NEW f, FragmentOK(f), f.index \in T,
           NEW t, t = Answers!SayArgs(s, f)
    PROVE  Good(p, u, t, T) /\ SameTools(s, t) /\ SameTexts(s, t) /\ SameEnds(s, t)
<1> DEFINE i == s.tools[f.index].index
           d == f.args
           e == Answers!emit(s, Answers!Delta(i, "tool", d))
<1>1. t = s \/ t = e
  BY Zenon DEF Answers!SayArgs
<1>2. OpenAt(s, T, i)
  BY DEF OpenAt
<1>3. IsSeq(d)
  BY DEF FragmentOK
<1>4. Good(p, u, e, T) /\ SameTools(s, e) /\ SameTexts(s, e) /\ SameEnds(s, e)
  <2> HIDE DEF i, d
  <2> QED BY <1>2, <1>3, EmitDeltaGood
<1> QED BY <1>1, <1>4 DEF SameTools, SameTexts, SameEnds

\* Those of a whole chunk.
LEMMA SaidAllGood ==
    ASSUME NEW p, NEW u, NEW s, NEW T, Good(p, u, s, T), NEW q, Len(q) \in Nat,
           \A n \in 1 .. Len(q) : FragmentOK(q[n]) /\ q[n].index \in T,
           NEW t, t = SaidAll(s, q)
    PROVE  Good(p, u, t, T) /\ SameTools(s, t) /\ SameTexts(s, t) /\ SameEnds(s, t)
<1>1. PICK f : /\ f[0] = s /\ f[Len(q)] = t
               /\ \A n \in 1 .. Len(q) : f[n] = Answers!SayArgs(f[n - 1], q[n])
  BY Saying
<1> DEFINE l == Len(q)
           Fine(a) == /\ Good(p, u, a, T) /\ SameTools(s, a) /\ SameTexts(s, a)
                      /\ SameEnds(s, a)
           S == {n \in 0 .. l : Fine(f[n])}
<1>2. 0 \in S
  BY <1>1 DEF SameTools, SameTexts, SameEnds
<1>3. ASSUME NEW n \in 1 .. l, n - 1 \in S
      PROVE  n \in S
  <2> DEFINE a == f[n - 1]
             b == f[n]
             x == q[n]
  <2>1. b = Answers!SayArgs(a, x) /\ Fine(a) /\ FragmentOK(x) /\ x.index \in T
    <3> HIDE DEF Fine
    <3> QED BY <1>1, <1>3
  <2>2. n \in 0 .. l
    OBVIOUS
  <2> HIDE DEF a, b, x
  <2>3. Good(p, u, b, T) /\ SameTools(a, b) /\ SameTexts(a, b) /\ SameEnds(a, b)
    BY <2>1, SayArgsGood
  <2>4. Fine(b)
    BY <2>1, <2>3 DEF SameTools, SameTexts, SameEnds
  <2> HIDE DEF Fine
  <2> QED BY <2>2, <2>4 DEF b
<1>4. l \in S
  <2>1. l \in Nat /\ l \in 0 .. l
    OBVIOUS
  <2> HIDE DEF S, l
  <2> QED BY <1>2, <1>3, <2>1, Inherited
<1> QED BY <1>1, <1>4

NewPart(o, r) == SubSeq(r, Len(o) + 1, Len(r))

\* The calls a chunk has brought are at the end of the order.
LEMMA NewOnes ==
    ASSUME NEW f, NEW o, Orderly(f, o), NEW g, NEW r, Orderly(g, r), Longer(o, r),
           NEW q, q = NewPart(o, r)
    PROVE  Brings(q, DOMAIN f, DOMAIN g)
<1> DEFINE l == Len(o)
           k == Len(r)
           a == l + 1
           d == k - l
<1>1. /\ l \in Nat /\ k \in Nat /\ l <= k /\ r \in Seq(Int)
      /\ \A n \in 1 .. l : r[n] = o[n]
  BY DEF Longer, Orderly
<1>2. q = SubSeq(r, a, k)
  BY DEF NewPart
<1>3. a \in Int /\ k \in Int /\ d \in Nat /\ (a <= k => k - a + 1 = d) /\ (~(a <= k) => d = 0)
      /\ k - a + 1 = d
  BY <1>1
<1>4. \A n \in a .. k : r[n] \in Int
  <2> TAKE n \in a .. k
  <2>1. n \in 1 .. Len(r)
    BY <1>1
  <2> QED BY <1>1, <2>1, ElementOfSeq
<1>5. \A n \in 1 .. d : a + n - 1 = l + n /\ l + n \in 1 .. k /\ l + n \notin 1 .. l
  BY <1>1
<1>6. \A n \in 1 .. k : n \in 1 .. l \/ (n - l \in 1 .. d /\ l + (n - l) = n)
  BY <1>1
<1>14. \A m, n \in 1 .. d : l + m = l + n => m = n
  BY <1>1
<1>15. \A n \in 1 .. l : n \in 1 .. k
  BY <1>1
<1> HIDE DEF a, d
<1>7. /\ q \in Seq(Int) /\ Len(q) = IF a <= k THEN k - a + 1 ELSE 0
      /\ \A n \in 1 .. k - a + 1 : q[n] = r[a + n - 1]
  <2>1. r \in Seq(Int) /\ a \in Int /\ k \in Int
    BY <1>1, <1>3
  <2> HIDE DEF k
  <2>2. SubSeq(r, a, k) \in Seq(Int)
    BY <1>4, <2>1, SubSeqProperties
  <2>3. Len(SubSeq(r, a, k)) = IF a <= k THEN k - a + 1 ELSE 0
    BY <1>4, <2>1, SubSeqProperties
  <2>4. \A n \in 1 .. k - a + 1 : SubSeq(r, a, k)[n] = r[a + n - 1]
    BY <1>4, <2>1, SubSeqProperties
  <2> QED BY <1>2, <2>2, <2>3, <2>4
<1>8. Len(q) = d /\ \A n \in 1 .. d : q[n] = r[l + n]
  BY <1>3, <1>5, <1>7
<1> HIDE DEF l, k
<1>9. /\ \A n \in 1 .. l : o[n] \in DOMAIN f
      /\ \A x \in DOMAIN f : \E n \in 1 .. l : o[n] = x
  BY DEF Orderly, l
<1>10. /\ \A n \in 1 .. k : r[n] \in DOMAIN g
       /\ \A x \in DOMAIN g : \E n \in 1 .. k : r[n] = x
       /\ \A m, n \in 1 .. k : r[m] = r[n] => m = n
  BY DEF Orderly, k
<1>11. ASSUME NEW n \in 1 .. d
       PROVE  q[n] \in DOMAIN g /\ q[n] \notin DOMAIN f
  <2>1. q[n] = r[l + n] /\ l + n \in 1 .. k /\ l + n \notin 1 .. l
    BY <1>5, <1>8
  <2>2. q[n] \in DOMAIN g
    BY <1>10, <2>1
  <2>3. ASSUME q[n] \in DOMAIN f
        PROVE  FALSE
    <3>1. PICK m \in 1 .. l : o[m] = q[n]
      BY <1>9, <2>3
    <3>2. r[m] = r[l + n] /\ m \in 1 .. k
      BY <1>1, <1>15, <2>1, <3>1 DEF l
    <3>3. m = l + n
      BY <1>10, <2>1, <3>2
    <3> QED BY <2>1, <3>3
  <2> QED BY <2>2, <2>3
<1>12. \A m, n \in 1 .. d : q[m] = q[n] => m = n
  <2> SUFFICES ASSUME NEW m \in 1 .. d, NEW n \in 1 .. d, q[m] = q[n]
               PROVE  m = n
    OBVIOUS
  <2>1. r[l + m] = r[l + n] /\ l + m \in 1 .. k /\ l + n \in 1 .. k
    BY <1>5, <1>8
  <2>2. l + m = l + n
    BY <1>10, <2>1
  <2> QED BY <1>14, <2>2
<1>13. ASSUME NEW x \in DOMAIN g
       PROVE  x \in DOMAIN f \/ \E n \in 1 .. d : q[n] = x
  <2>1. PICK n \in 1 .. k : r[n] = x
    BY <1>10
  <2>2. CASE n \in 1 .. l
    <3>1. o[n] = x
      BY <1>1, <2>1, <2>2 DEF l
    <3> QED BY <1>9, <2>2, <3>1
  <2>3. CASE n - l \in 1 .. d /\ l + (n - l) = n
    BY <1>8, <2>1, <2>3
  <2> QED BY <1>6, <2>2, <2>3
<1> QED BY <1>3, <1>8, <1>11, <1>12, <1>13 DEF Brings

\* The calls of a chunk.
LEMMA CallsGood ==
    ASSUME NEW u, NEW s, Good("responses", u, s, DOMAIN s.tools),
           NEW q, Len(q) \in Nat, \A n \in 1 .. Len(q) : FragmentOK(q[n]),
           NEW t, t = Answers!respondToolCalls(s, q)
    PROVE  Good("responses", u, t, DOMAIN t.tools) /\ SameTexts(s, t) /\ SameEnds(s, t)
<1> DEFINE T == DOMAIN s.tools
           m == MergedAll(s, q)
           new == NewPart(s.order, m.order)
           a == AddedAll(m, new)
<1>1. t = SaidAll(a, q)
  BY Zenon DEF Answers!respondToolCalls, MergedAll, AddedAll, SaidAll, NewPart
<1>2. /\ Good("responses", u, m, T) /\ SameTexts(s, m) /\ SameEnds(s, m)
      /\ T \subseteq DOMAIN m.tools
      /\ \A n \in 1 .. Len(q) : q[n].index \in DOMAIN m.tools
      /\ Longer(s.order, m.order)
  BY MergedAllGood
<1>3. Orderly(s.tools, s.order)
  BY DEF Good, Typed, CallsTyped
<1> HIDE DEF m
<1>4. Orderly(m.tools, m.order)
  BY <1>2 DEF Good, Typed, CallsTyped
<1>5. Brings(new, T, DOMAIN m.tools)
  <2> DEFINE f == s.tools
             o == s.order
             g == m.tools
             r == m.order
  <2>1. /\ Orderly(f, o) /\ Orderly(g, r) /\ Longer(o, r)
        /\ new = NewPart(o, r) /\ T = DOMAIN f
    BY <1>2, <1>3, <1>4
  <2> HIDE DEF f, o, g, r, T, new
  <2>2. Brings(new, DOMAIN f, DOMAIN g)
    BY <2>1, NewOnes
  <2> QED BY <2>1, <2>2 DEF g
<1> HIDE DEF new, T
<1>6. /\ Good("responses", u, a, DOMAIN a.tools) /\ SameTexts(m, a) /\ SameEnds(m, a)
      /\ DOMAIN a.tools = DOMAIN m.tools
  <2>1. /\ Good("responses", u, m, T) /\ T \subseteq DOMAIN m.tools /\ a = AddedAll(m, new)
    BY <1>2
  <2> HIDE DEF a
  <2> QED BY <1>5, <2>1, AddedAllGood
<1> HIDE DEF a
<1>7. \A n \in 1 .. Len(q) : FragmentOK(q[n]) /\ q[n].index \in DOMAIN a.tools
  BY <1>2, <1>6
<1>8. /\ Good("responses", u, t, DOMAIN a.tools) /\ SameTools(a, t)
      /\ SameTexts(a, t) /\ SameEnds(a, t)
  BY <1>1, <1>6, <1>7, SaidAllGood
<1> QED BY <1>2, <1>6, <1>8 DEF SameTools, SameTexts, SameEnds

\* A Responses answer between two chunks.
ResponsesAt(w, s) == Level("responses", w, s, DOMAIN s.tools) /\ Quiet(s)
Answered(u, s)    == Good("responses", u, s, DOMAIN s.tools) /\ Quiet(s)

\* A chunk of a Responses answer.
LEMMA RespondGood ==
    ASSUME NEW w, NEW s, ResponsesAt(w, s), NEW c, ChunkOK(c), NEW t, t = Answers!respond(s, c)
    PROVE  Answered(w, t)
<1> DEFINE T == DOMAIN s.tools
           a == Answers!appendItem(s, "reasoning", c.reasoning)
           b == Answers!appendItem(a, "text", c.text)
           q == c.tools
           e == Answers!respondToolCalls(b, q)
           y == e.finish \/ c.finish
<1>1. t = Known(e, y)
  BY DEF Answers!respond, Known
<1>2. Good("responses", w, s, T) /\ Quiet(s)
  BY LevelGood DEF ResponsesAt
<1>3. "reasoning" \in Answers!TextKinds /\ "text" \in Answers!TextKinds
  BY DEF Answers!TextKinds
<1>4. Good("responses", w, a, T) /\ SameTools(s, a) /\ Quiet(a)
  BY <1>2, <1>3, AppendItemGood DEF ChunkOK
<1> HIDE DEF a
<1>5. Good("responses", w, b, T) /\ SameTools(a, b) /\ Quiet(b)
  BY <1>3, <1>4, AppendItemGood DEF ChunkOK
<1> HIDE DEF b
<1>6. Good("responses", w, b, DOMAIN b.tools)
  BY <1>4, <1>5 DEF SameTools
<1>7. Len(q) \in Nat /\ \A n \in 1 .. Len(q) : FragmentOK(q[n])
  BY DEF ChunkOK
<1> HIDE DEF q
<1>8. Good("responses", w, e, DOMAIN e.tools) /\ SameTexts(b, e)
  BY <1>6, <1>7, CallsGood
<1> HIDE DEF e
<1>9. Good("responses", w, t, DOMAIN e.tools) /\ SameTools(e, t) /\ SameTexts(e, t)
  <2> HIDE DEF y
  <2> QED BY <1>1, <1>8, KnownGood
<1> QED BY <1>5, <1>8, <1>9 DEF Answered, SameTools, SameTexts, Quiet

-----------------------------------------------------------------------------
(* The end of a Responses answer *)

\* The item of a call gets its end: the input of a custom tool, its text, its close.
LEMMA CloseToolItemGood ==
    ASSUME NEW p, NEW u, NEW s, NEW T, Good(p, u, s, T), NEW x \in T, NEW args,
           args = s.tools[x].args, IsSeq(args),
           NEW t, t = Answers!closeToolItem(s, x)
    PROVE  Good(p, u, t, T \ {x}) /\ SameTools(s, t) /\ SameTexts(s, t)
<1> DEFINE i == s.tools[x].index
           v == Answers!customToolInputFromArguments(args)
           D == Answers!Delta(i, "tool", v)
           Z == Answers!Sum(i, "tool", v)
           Y == Answers!Sum(i, "tool", args)
           C == Answers!Closed(i, "tool")
           custom == Answers!IsCustom(s.tools[x].call.name)
<1>1. t = Answers!emit(s, IF custom THEN Then(Then(D, Z), C) ELSE Then(Y, C))
  BY DEF Answers!closeToolItem, Then
<1>2. OpenAt(s, T, i)
  BY DEF OpenAt
<1>3. IsSeq(v)
  <2> DEFINE one == <<"input">>
  <2>1. IsSeq(one) /\ v = Then(one, args)
    BY SeqOfOne DEF Answers!customToolInputFromArguments, Then
  <2> HIDE DEF one, v
  <2> QED BY <2>1, Prefix
<1>4. IsSeq(D) /\ IsSeq(Z) /\ IsSeq(Y) /\ IsSeq(C)
  BY EventsAre
<1>5. IsState(s) /\ Typed(s) /\ IsSeq(s.out)
  BY DEF Good, Typed, Told
<1> HIDE DEF v, custom
\* The text of the item is said before it is closed.
<1>6. ASSUME NEW a, Good(p, u, a, T), SameTools(s, a), SameTexts(s, a),
             NEW ev, IsState(t), SameTools(s, t), SameTexts(s, t),
             t.out = Then(a.out, C), t.next = s.next, a.next = s.next
      PROVE  Good(p, u, t, T \ {x})
  <2>1. Typed(t)
    BY <1>5, <1>6, TypedKept
  <2>2. Shaped(a, t, T \ {x})
    BY <1>6 DEF Shaped, SameTools, SameTexts
  <2>3. t.out = Then(a.out, Answers!Closed(a.tools[x].index, "tool")) /\ Told(p, u, a, T)
    BY <1>6 DEF SameTools, Good
  <2>4. Told(p, u, t, T \ {x})
    BY <2>2, <2>3, ToldCallClosed
  <2> QED BY <2>1, <2>4 DEF Good
<1>7. CASE custom
  <2> DEFINE a == Answers!emit(s, D)
             b == Answers!emit(a, Z)
             ev == Then(Then(D, Z), C)
  <2>1. /\ Good(p, u, a, T) /\ SameTools(s, a) /\ SameTexts(s, a)
        /\ a.next = s.next /\ a.out = Then(s.out, D)
    <3> HIDE DEF i
    <3> QED BY <1>2, <1>3, EmitDeltaGood
  <2> HIDE DEF a
  <2>2. OpenAt(a, T, i)
    BY <2>1 DEF OpenAt, SameTools
  <2>3. /\ Good(p, u, b, T) /\ SameTools(a, b) /\ SameTexts(a, b)
        /\ b.next = a.next /\ b.out = Then(a.out, Z)
    <3> HIDE DEF i
    <3> QED BY <1>3, <2>1, <2>2, EmitSumGood
  <2> HIDE DEF b
  <2>4. t = Answers!emit(s, ev)
    BY <1>1, <1>7
  <2>5. /\ IsState(t) /\ t.out = Then(s.out, ev) /\ t.next = s.next
        /\ SameTools(s, t) /\ SameTexts(s, t)
    <3> HIDE DEF ev
    <3> QED BY <1>5, <2>4, EmitIs
  <2> HIDE DEF D, Z, C
  <2>6. Then(s.out, ev) = Then(b.out, C)
    <3> DEFINE q == s.out
    <3>1. IsSeq(q) /\ b.out = Then(Then(q, D), Z)
      BY <1>5, <2>1, <2>3
    <3> HIDE DEF q
    <3>2. IsSeq(Then(D, Z))
      BY <1>4, Prefix
    <3>3. Then(q, Then(Then(D, Z), C)) = Then(Then(q, Then(D, Z)), C)
      BY <1>4, <3>1, <3>2, ThenThen
    <3>4. Then(q, Then(D, Z)) = Then(Then(q, D), Z)
      BY <1>4, <3>1, ThenThen
    <3> QED BY <3>1, <3>3, <3>4 DEF q
  <2>7. SameTools(s, b) /\ SameTexts(s, b) /\ b.next = s.next
    BY <2>1, <2>3 DEF SameTools, SameTexts
  <2>8. Good(p, u, t, T \ {x})
    BY <1>6, <2>3, <2>5, <2>6, <2>7
  <2> QED BY <2>5, <2>8
<1>8. CASE ~custom
  <2> DEFINE b == Answers!emit(s, Y)
             ev == Then(Y, C)
  <2>1. /\ Good(p, u, b, T) /\ SameTools(s, b) /\ SameTexts(s, b)
        /\ b.next = s.next /\ b.out = Then(s.out, Y)
    <3> HIDE DEF i
    <3> QED BY <1>2, EmitSumGood
  <2> HIDE DEF b
  <2>4. t = Answers!emit(s, ev)
    BY <1>1, <1>8
  <2>5. /\ IsState(t) /\ t.out = Then(s.out, ev) /\ t.next = s.next
        /\ SameTools(s, t) /\ SameTexts(s, t)
    <3> HIDE DEF ev
    <3> QED BY <1>5, <2>4, EmitIs
  <2> HIDE DEF Y, C
  <2>6. Then(s.out, ev) = Then(b.out, C)
    BY <1>4, <1>5, <2>1, ThenThen
  <2>8. Good(p, u, t, T \ {x})
    BY <1>6, <2>1, <2>5, <2>6
  <2> QED BY <2>5, <2>8
<1> QED BY <1>7, <1>8

\* All calls get theirs.
LEMMA ToolItemsEndedGood ==
    ASSUME NEW p, NEW u, NEW s, Good(p, u, s, DOMAIN s.tools), NoText(s),
           NEW t, t = EndedAll(s, s.order)
    PROVE  Good(p, u, t, {}) /\ NoText(t)
<1> DEFINE o == s.order
           l == Len(o)
           g == s.tools
<1>1. Orderly(g, o)
  BY DEF Good, Typed, CallsTyped
<1> HIDE DEF o, g
<1>2. /\ l \in Nat /\ Later(o, 0) = DOMAIN g /\ Later(o, l) = {}
      /\ \A n \in 1 .. l :
           o[n] \in Later(o, n - 1) /\ Later(o, n) = Later(o, n - 1) \ {o[n]}
  BY <1>1, LaterIs
<1>3. PICK f : /\ f[0] = s /\ f[Len(o)] = t
               /\ \A n \in 1 .. Len(o) : f[n] = Answers!closeToolItem(f[n - 1], o[n])
  BY <1>2, Ending DEF o
<1> DEFINE S == {n \in 0 .. l : /\ Good(p, u, f[n], Later(o, n))
                                /\ f[n].tools = s.tools /\ f[n].slot = s.slot}
<1>4. 0 \in S
  BY <1>2, <1>3 DEF g
<1>5. ASSUME NEW n \in 1 .. l, n - 1 \in S
      PROVE  n \in S
  <2> DEFINE a == f[n - 1]
             b == f[n]
             T == Later(o, n - 1)
             x == o[n]
             args == a.tools[x].args
  <2>1. b = Answers!closeToolItem(a, x) /\ Good(p, u, a, T) /\ a.tools = s.tools /\ a.slot = s.slot
    BY <1>3, <1>5
  <2>2. n \in 0 .. l /\ x \in T /\ Later(o, n) = T \ {x}
    BY <1>2
  <2>3. x \in DOMAIN g
    <3>1. \A m \in 1 .. Len(o) : o[m] \in DOMAIN g
      BY <1>1 DEF Orderly
    <3> QED BY <3>1
  <2> HIDE DEF a, b, T, x
  <2>4. IsSeq(args)
    BY <2>1, <2>3 DEF Good, Typed, CallsTyped, ToolOK, g
  <2>5. args = a.tools[x].args
    OBVIOUS
  <2> HIDE DEF args
  <2>6. Good(p, u, b, T \ {x}) /\ SameTools(a, b) /\ SameTexts(a, b)
    BY <2>1, <2>2, <2>4, <2>5, CloseToolItemGood
  <2>7. b.tools = s.tools /\ b.slot = s.slot
    BY <2>1, <2>6 DEF SameTools, SameTexts
  <2> QED BY <2>2, <2>6, <2>7 DEF b
<1>6. l \in S
  <2>1. l \in Nat /\ l \in 0 .. l
    BY <1>2
  <2> HIDE DEF S, l
  <2> QED BY <1>4, <1>5, <2>1, Inherited
<1> QED BY <1>2, <1>3, <1>6 DEF NoText

\* An answer that says nothing gets an empty message.
LEMMA SaySomethingGood ==
    ASSUME NEW u, NEW s, NEW T, Good("responses", u, s, T), Quiet(s),
           NEW t, t = Answers!SaySomething(s)
    PROVE  Good("responses", u, t, T) /\ SameTools(s, t)
<1> DEFINE k == "text"
           p == "responses"
<1>1. t = s \/ (~s.slot[k].open /\ t = Answers!OpenSlot(s, k))
  BY DEF Answers!SaySomething
<1>2. k \in Answers!TextKinds /\ p \in {"messages", "responses"} /\ Good(p, u, s, T)
  BY DEF Answers!TextKinds
<1>3. p # "messages"
  OBVIOUS
<1> HIDE DEF k
<1>4. CASE t = s
  BY <1>4 DEF SameTools
<1>5. CASE ~s.slot[k].open /\ t = Answers!OpenSlot(s, k)
  <2>1. MayOpenText(p, s, k)
    BY <1>2, <1>3, <1>5 DEF MayOpenText, Quiet
  <2> HIDE DEF p
  <2>2. Good(p, u, t, T) /\ SameTools(s, t)
    BY <1>2, <1>5, <2>1, OpenSlotGood
  <2> QED BY <2>2 DEF p
<1> QED BY <1>1, <1>4, <1>5

\* The end of a Responses answer.
LEMMA CompleteGood ==
    ASSUME NEW u, NEW s, Answered(u, s), NEW q, q = Answers!completeResponse(s).out
    PROVE  IsSeq(q) /\ \E w : Plays("responses", u, q, w) /\ w.phase = "complete"
<1> DEFINE p == "responses"
           T == DOMAIN s.tools
           a == Answers!SaySomething(s)
           b == Answers!closeItem(a, "reasoning")
           c == Answers!closeItem(b, "text")
           d == EndedAll(c, s.order)
           ev == Answers!Ended("complete")
           t == Answers!emit(d, ev)
<1>1. Answers!completeResponse(s) = t
  BY Zenon DEF Answers!completeResponse, EndedAll
<1>2. "reasoning" \in Answers!TextKinds /\ "text" \in Answers!TextKinds /\ "text" # "reasoning"
      /\ \A k \in Answers!TextKinds : k = "reasoning" \/ k = "text"
  BY DEF Answers!TextKinds
<1>3. Good(p, u, a, T) /\ SameTools(s, a)
  BY SaySomethingGood DEF Answered
<1> HIDE DEF a
<1>4. Good(p, u, b, T) /\ SameTools(a, b) /\ ~b.slot["reasoning"].open
  BY <1>2, <1>3, CloseItemGood
<1> HIDE DEF b
<1>5. /\ Good(p, u, c, T) /\ SameTools(b, c) /\ ~c.slot["text"].open
      /\ \A j \in Answers!TextKinds : j # "text" => c.slot[j].open = b.slot[j].open
  BY <1>2, <1>4, CloseItemGood
<1> HIDE DEF c
<1>6. NoText(c)
  BY <1>2, <1>4, <1>5 DEF NoText
<1>7. Good(p, u, c, DOMAIN c.tools) /\ d = EndedAll(c, c.order)
  BY <1>3, <1>4, <1>5 DEF SameTools
<1> HIDE DEF d
<1>8. Good(p, u, d, {}) /\ NoText(d)
  <2> HIDE DEF p
  <2> QED BY <1>6, <1>7, ToolItemsEndedGood
<1>9. Told(p, u, d, {}) /\ IsState(d)
  BY <1>8 DEF Good, Typed
<1>10. t.out = Then(d.out, ev)
  <2> HIDE DEF ev
  <2> QED BY <1>9, EmitIs
<1>11. q = Then(d.out, ev)
  BY <1>1, <1>10
<1> QED BY <1>8, <1>9, <1>11, ToldEnded

\* A stream that fails.
LEMMA FailedIs ==
    ASSUME NEW p, NEW v, v.phase \in {"idle", "begun"}
    PROVE  /\ IsSeq(Answers!Ended("fail"))
           /\ \E w : Plays(p, v, Answers!Ended("fail"), w) /\ w.phase = "failed"
<1> DEFINE e == Answers!Event("fail", -1, "", <<>>, Answers!NoCall)
           w == After(v, e)
<1>1. Answers!Ended("fail") = <<e>>
  BY DEF Answers!Ended
<1>2. e.type = "fail"
  BY DEF Answers!Event
<1>3. w.phase = "failed" /\ Fails(v, w)
  BY <1>2 DEF After, Seen, Answers!ItemsAfter, Answers!PhaseAfter, Fails
<1>4. MayFollow(p, v, w)
  BY <1>3 DEF MayFollow
<1> HIDE DEF e
<1>5. Plays(p, v, <<e>>, w)
  BY <1>4, PlaysOne
<1> HIDE DEF w
<1> QED BY <1>1, <1>3, <1>5, SeqOfOne

-----------------------------------------------------------------------------
(* An answer as a whole *)

\* Items that are all closed.
Settled(q) == IsSeq(q) /\ \A n \in 1 .. Len(q) : ~q[n].open

\* No items.
LEMMA WholeNone == Settled(<<>>)
<1>1. 1 .. 0 = {}
  OBVIOUS
<1> QED BY <1>1, SeqOfNone DEF Settled

\* One item of an answer that is sent as a whole.
LEMMA WholeOne ==
    ASSUME NEW kind, NEW text, NEW sum, NEW call
    PROVE  Settled(<<Answers!WholeItem(kind, text, sum, call)>>)
<1> DEFINE e == Answers!WholeItem(kind, text, sum, call)
           q == <<e>>
<1>1. ~e.open
  BY DEF Answers!WholeItem
<1> HIDE DEF e
<1>2. IsSeq(q) /\ Len(q) = 1 /\ q[1] = e
  BY SeqOfOne
<1> HIDE DEF q
<1>3. Settled(q)
  BY <1>1, <1>2 DEF Settled
<1> QED BY <1>3 DEF q, e

\* Items after one another.
LEMMA WholeThen ==
    ASSUME NEW a, NEW b, Settled(a), Settled(b)
    PROVE  Settled(Then(a, b))
<1> DEFINE c == Then(a, b)
<1>1. /\ IsSeq(c) /\ Len(c) = Len(a) + Len(b) /\ Len(a) \in Nat /\ Len(b) \in Nat
      /\ \A n \in 1 .. Len(a) + Len(b) :
           c[n] = IF n <= Len(a) THEN a[n] ELSE b[n - Len(a)]
  BY SeqJoined DEF Settled, Then
<1> HIDE DEF c
<1>2. ASSUME NEW n \in 1 .. Len(c)
      PROVE  ~c[n].open
  <2>1. CASE n <= Len(a)
    <3>1. n \in 1 .. Len(a) /\ c[n] = a[n]
      BY <1>1, <2>1
    <3> QED BY <3>1 DEF Settled
  <2>2. CASE ~(n <= Len(a))
    <3>1. n - Len(a) \in 1 .. Len(b) /\ c[n] = b[n - Len(a)]
      BY <1>1, <2>2
    <3> QED BY <3>1 DEF Settled
  <2> QED BY <2>1, <2>2
<1>3. Settled(c)
  BY <1>1, <1>2 DEF Settled
<1> QED BY <1>3 DEF c

\* A sequence written out by its places.
LEMMA WholeListed ==
    ASSUME NEW l \in Nat, NEW q, q = [n \in 1 .. l |-> q[n]], \A n \in 1 .. l : ~q[n].open
    PROVE  Settled(q)
<1> DEFINE S == {q[n] : n \in 1 .. l}
<1>1. q \in [1 .. l -> S]
  <2>1. \A n \in 1 .. l : q[n] \in S
    OBVIOUS
  <2>2. DOMAIN q = 1 .. l
    OBVIOUS
  <2> HIDE DEF S
  <2> QED BY <2>1, <2>2
<1> HIDE DEF S
<1>2. q \in Seq(S)
  BY <1>1, SeqDef
<1>3. Len(q) = l
  BY <1>1, <1>2, LenProperties
<1> QED BY <1>2, <1>3 DEF Settled, IsSeq

\* A state of which the order is one.
InOrder(s) == IsState(s) /\ s.order \in Seq(Int)

\* A Messages answer as a whole has no open item.
LEMMA AggregateWhole ==
    ASSUME NEW s, InOrder(s)
    PROVE  Settled(Answers!aggregate(s))
<1> DEFINE l == Len(s.order)
           q == [n \in 1 .. l |-> Answers!WholeItem("tool", s.tools[s.order[n]].args, <<>>,
                                              s.tools[s.order[n]].call)]
           B(k) == s.slot[k].buf \o (IF s.slot[k] = Answers!NoSlot THEN <<>> ELSE Answers!Flush(s.held[k]).out)
           r1 == Answers!WholeItem("reasoning", B("reasoning"), B("reasoning"), Answers!NoCall)
           r2 == Answers!WholeItem("text", B("text"), <<>>, Answers!NoCall)
           a  == IF B("reasoning") = <<>> THEN <<>> ELSE <<r1>>
           b  == IF B("text") = <<>> THEN <<>> ELSE <<r2>>
<1>1. Answers!aggregate(s) = (a \o b) \o q
  BY DEF Answers!aggregate
<1>2. l \in Nat
  BY LenProperties DEF InOrder
<1>3. Settled(<<r1>>) /\ Settled(<<r2>>)
  BY WholeOne
<1>4. \A n \in 1 .. l : ~q[n].open
  BY DEF Answers!WholeItem
<1>5. q = [n \in 1 .. l |-> q[n]]
  OBVIOUS
<1> HIDE DEF q, l, r1, r2, B
<1>6. Settled(a) /\ Settled(b)
  BY <1>3, WholeNone
<1> HIDE DEF a, b
<1>7. Settled(q)
  BY <1>2, <1>4, <1>5, WholeListed
<1>8. Settled(Then(a, b))
  BY <1>6, WholeThen
<1>9. Settled(Then(Then(a, b), q))
  BY <1>7, <1>8, WholeThen
<1> QED BY <1>1, <1>9 DEF Then

\* Neither has a Responses answer,
LEMMA ResponseWhole ==
    ASSUME NEW s, InOrder(s)
    PROVE  Settled(Answers!chatCompletionToResponses(s))
<1> DEFINE l == Len(s.order)
           q == [n \in 1 .. l |-> Answers!responsesToolCallItem(s.tools[s.order[n]])]
           x == Answers!restoreResponsesIdentity(s.slot["reasoning"].buf)
           y == Answers!restoreResponsesIdentity(s.slot["text"].buf)
           r1 == Answers!WholeItem("reasoning", x, x, Answers!NoCall)
           r2 == Answers!WholeItem("text", y, y, Answers!NoCall)
           a  == IF s.slot["reasoning"].buf = <<>> THEN <<>> ELSE <<r1>>
           b  == IF s.slot["text"].buf = <<>> /\ s.order # <<>> THEN <<>> ELSE <<r2>>
<1>1. Answers!chatCompletionToResponses(s) = (a \o b) \o q
  BY DEF Answers!chatCompletionToResponses
<1>2. l \in Nat
  BY LenProperties DEF InOrder
<1> HIDE DEF x, y
<1>3. Settled(<<r1>>) /\ Settled(<<r2>>)
  BY WholeOne
<1>4. \A n \in 1 .. l : ~q[n].open
  BY DEF Answers!responsesToolCallItem, Answers!WholeItem
<1>5. q = [n \in 1 .. l |-> q[n]]
  OBVIOUS
<1> HIDE DEF q, l, r1, r2
<1>6. Settled(a) /\ Settled(b)
  BY <1>3, WholeNone
<1> HIDE DEF a, b
<1>7. Settled(q)
  BY <1>2, <1>4, <1>5, WholeListed
<1>8. Settled(Then(a, b))
  BY <1>6, WholeThen
<1>9. Settled(Then(Then(a, b), q))
  BY <1>7, <1>8, WholeThen
<1> QED BY <1>1, <1>9 DEF Then

\* nor a chat answer.
LEMMA ChatWhole ==
    ASSUME NEW s, InOrder(s)
    PROVE  Settled(Answers!chatCompletion(s))
<1> DEFINE l == Len(s.order)
           C(i) == [s.tools[i].call EXCEPT !.id = IF @ = "" THEN "generated" ELSE @]
           q == [n \in 1 .. l |-> Answers!WholeItem("tool", s.tools[s.order[n]].args, <<>>,
                                              C(s.order[n]))]
           x == Answers!restoreChatCompletionIdentity(s.slot["reasoning"].buf)
           y == Answers!restoreChatCompletionIdentity(s.slot["text"].buf)
           r1 == Answers!WholeItem("reasoning", x, <<>>, Answers!NoCall)
           r2 == Answers!WholeItem("text", y, <<>>, Answers!NoCall)
           a  == IF s.slot["reasoning"].buf = <<>> THEN <<>> ELSE <<r1>>
           b  == <<r2>>
<1>1. Answers!chatCompletion(s) = (a \o b) \o q
  BY DEF Answers!chatCompletion
<1>2. l \in Nat
  BY LenProperties DEF InOrder
<1> HIDE DEF x, y, C
<1>3. Settled(<<r1>>) /\ Settled(<<r2>>)
  BY WholeOne
<1>4. \A n \in 1 .. l : ~q[n].open
  BY DEF Answers!WholeItem
<1>5. q = [n \in 1 .. l |-> q[n]]
  OBVIOUS
<1> HIDE DEF q, l, r1, r2
<1>6. Settled(a) /\ Settled(b)
  BY <1>3, WholeNone
<1> HIDE DEF a, b
<1>7. Settled(q)
  BY <1>2, <1>4, <1>5, WholeListed
<1>8. Settled(Then(a, b))
  BY <1>6, WholeThen
<1>9. Settled(Then(Then(a, b), q))
  BY <1>7, <1>8, WholeThen
<1> QED BY <1>1, <1>9 DEF Then

\* The order of a chat completion that is put together.
LEMMA MergeInOrder ==
    ASSUME NEW s, InOrder(s), NEW f, FragmentOK(f), NEW t, t = Answers!applyToolCallDelta(s, f)
    PROVE  InOrder(t)
<1> DEFINE x == f.index
           known == x \in DOMAIN s.tools
           next  == Answers!Merged(IF known THEN s.tools[x] ELSE Answers!NewTool(-1), f)
           tools == Answers!Put(s.tools, x, next)
           order == IF known THEN s.order ELSE Append(s.order, x)
           n     == s.next
           v     == [s EXCEPT !.tools = tools, !.order = order]
<1>1. t = v
  BY Zenon DEF Answers!applyToolCallDelta
<1>2. IsState(s) /\ s.order \in Seq(Int) /\ x \in Int
  BY DEF InOrder, FragmentOK
<1>3. order \in Seq(Int)
  <2> HIDE DEF x, known
  <2> QED BY <1>2, AppendProperties
<1> HIDE DEF tools, order
<1>4. v = Calls(s, tools, order, n)
  BY <1>2 DEF Calls, IsState
<1> HIDE DEF v, n
<1>5. IsState(t) /\ t.order = order
  BY <1>1, <1>2, <1>4, CallsIs
<1> QED BY <1>3, <1>5 DEF InOrder

\* All fragments of a chunk put together,
LEMMA MergedAllInOrder ==
    ASSUME NEW s, InOrder(s), NEW q, Len(q) \in Nat,
           \A n \in 1 .. Len(q) : FragmentOK(q[n]), NEW t, t = MergedAll(s, q)
    PROVE  InOrder(t)
<1>1. PICK f : /\ f[0] = s /\ f[Len(q)] = t
               /\ \A n \in 1 .. Len(q) : f[n] = Answers!applyToolCallDelta(f[n - 1], q[n])
  BY Merging
<1> DEFINE l == Len(q)
           S == {n \in 0 .. l : InOrder(f[n])}
<1>2. 0 \in S
  BY <1>1
<1>3. ASSUME NEW n \in 1 .. l, n - 1 \in S
      PROVE  n \in S
  <2> DEFINE a == f[n - 1]
             b == f[n]
             x == q[n]
  <2>1. b = Answers!applyToolCallDelta(a, x) /\ FragmentOK(x) /\ InOrder(a) /\ n \in 0 .. l
    BY <1>1, <1>3
  <2> HIDE DEF a, b, x
  <2>2. InOrder(b)
    BY <2>1, MergeInOrder
  <2> QED BY <2>1, <2>2 DEF b
<1>4. l \in S
  <2>1. l \in Nat /\ l \in 0 .. l
    OBVIOUS
  <2> HIDE DEF S, l
  <2> QED BY <1>2, <1>3, <2>1, Inherited
<1> QED BY <1>1, <1>4

\* and all of the chunk.
LEMMA AggregateInOrder ==
    ASSUME NEW s, InOrder(s), NEW c, ChunkOK(c), NEW t, t = Answers!aggregateCompletion(s, c)
    PROVE  InOrder(t)
<1> DEFINE q == c.tools
           m == MergedAll(s, q)
           a == c.reasoning
           b == c.text
           y == c.finish
           f  == [m.slot EXCEPT !["reasoning"].buf = @ \o a]
           w1 == [m EXCEPT !.slot = f]
           g  == [w1.slot EXCEPT !["text"].buf = @ \o b]
           w2 == [w1 EXCEPT !.slot = g]
           e  == w2.finish \/ y
<1>1. t = Known(w2, e)
  BY DEF Answers!aggregateCompletion, MergedAll, Known
<1>2. Len(q) \in Nat /\ \A n \in 1 .. Len(q) : FragmentOK(q[n])
  BY DEF ChunkOK
<1>3. m = MergedAll(s, q)
  OBVIOUS
<1> HIDE DEF m, q, f, g, e
<1>4. InOrder(m)
  BY <1>2, <1>3, MergedAllInOrder
<1>5. IsState(w1) /\ w1.order = m.order
  BY <1>4 DEF InOrder, IsState
<1> HIDE DEF w1
<1>6. IsState(w2) /\ w2.order = w1.order
  BY <1>5 DEF IsState
<1> HIDE DEF w2
<1>7. IsState(t) /\ t.order = w2.order
  BY <1>1, <1>6, KnownIs DEF SameTools
<1> QED BY <1>4, <1>5, <1>6, <1>7 DEF InOrder

\* A typed state has an order.
LEMMA TypedInOrder ==
    ASSUME NEW s, Typed(s)
    PROVE  InOrder(s)
BY DEF Typed, CallsTyped, Orderly, InOrder

\* What every chunk may say.
LEMMA ChunksAre ==
    ASSUME Answers!ChunksOK, NEW c \in Chunks
    PROVE  ChunkOK(c)
<1> DEFINE F == [index : Int, id : STRING, name : STRING, args : Seq(STRING)]
           q == c.tools
<1>1. /\ c.reasoning \in Seq(STRING) /\ c.text \in Seq(STRING) /\ q \in Seq(F)
  BY DEF Answers!ChunksOK
<1>2. \A f \in F : FragmentOK(f)
  BY DEF FragmentOK, IsSeq
<1> HIDE DEF F, q
<1>3. Len(q) \in Nat /\ \A n \in 1 .. Len(q) : q[n] \in F
  BY <1>1, LenProperties, ElementOfSeq
<1>4. Len(q) \in Nat /\ \A n \in 1 .. Len(q) : FragmentOK(q[n])
  BY <1>2, <1>3
<1> QED BY <1>1, <1>4 DEF ChunkOK, q, Texts

\* Nothing is left to read.
LEMMA PlaysNoMore ==
    ASSUME NEW p, NEW v, NEW w, Plays(p, v, <<>>, w)
    PROVE  w = v
<1>1. PICK r : Playing(r, p, v, <<>>, w)
  BY DEF Plays
<1>2. Len(<<>>) = 0
  BY SeqOfNone
<1> QED BY <1>1, <1>2 DEF Playing

-----------------------------------------------------------------------------
(* The protocol is kept *)

RequestOK(r) ==
  /\ r.protocol \in {"messages", "responses", "chat"}
  /\ r.stream \in BOOLEAN /\ r.restore \in BOOLEAN
  /\ r.protocol = "chat" => ~r.stream

\* The reader has w, and the handler waits for a chunk or for the end.
Waiting(r, w, s) ==
  IF r.protocol = "messages" THEN MessagesAt(w, s, r.restore) ELSE ResponsesAt(w, s)

\* What is on its way is in order: a reader who has it all has what the handler
\* knows of, or an answer that has ended.
Streaming(r, up, s, ev, v) ==
  /\ IsSeq(ev)
  /\ \E w : /\ Plays(r.protocol, v, ev, w)
            /\ Waiting(r, w, s) \/ (up # "open" /\ w.phase \in {"complete", "failed"})

\* An answer as a whole is put together before anything is said.
Collecting(r, s, ev, v) ==
  /\ ev = <<>> /\ v.phase # "begun"
  /\ IF r.protocol = "messages" THEN \E w : MessagesAt(w, s, r.restore) ELSE InOrder(s)

Standing(r, up, s, ev, v) ==
  /\ RequestOK(r)
  /\ IF r.stream THEN Streaming(r, up, s, ev, v) ELSE Collecting(r, s, ev, v)

\* It is so at the beginning.
LEMMA FreshStands ==
    ASSUME NEW r, RequestOK(r), NEW s, s = Answers!NewState(r.restore), NEW ev,
           ev = IF r.protocol = "responses" /\ r.stream THEN Answers!Began ELSE <<>>
    PROVE  Standing(r, "open", s, ev, Idle)
<1>1. /\ Typed(s) /\ s.next = 0 /\ s.out = <<>> /\ DOMAIN s.tools = {}
      /\ \A k \in Answers!TextKinds : ~s.slot[k].open /\ s.slot[k].index = -1
  <2> DEFINE b == r.restore
  <2>1. b \in BOOLEAN /\ s = Answers!NewState(b)
    BY DEF RequestOK
  <2> HIDE DEF b
  <2> QED BY <2>1, FreshIs
<1>2. CASE ~r.stream
  <2>1. ev = <<>> /\ Idle.phase # "begun"
    BY <1>2 DEF Idle, Seen
  <2>2. MessagesAt(Idle, s, r.restore)
    BY DEF MessagesAt
  <2>3. InOrder(s)
    BY <1>1, TypedInOrder
  <2> QED BY <1>2, <2>1, <2>2, <2>3 DEF Standing, Collecting
<1>3. CASE r.stream /\ r.protocol = "messages"
  <2>1. ev = <<>>
    BY <1>3
  <2>2. MessagesAt(Idle, s, r.restore)
    BY DEF MessagesAt
  <2>3. Plays("messages", Idle, ev, Idle) /\ IsSeq(ev)
    BY <2>1, PlaysNothing, SeqOfNone
  <2> QED BY <1>3, <2>2, <2>3 DEF Standing, Streaming, Waiting
<1>4. CASE r.stream /\ r.protocol # "messages"
  <2>1. r.protocol = "responses" /\ ev = Answers!Began
    BY <1>4 DEF RequestOK
  <2>2. IsSeq(ev) /\ Plays("responses", Idle, ev, Begun)
    BY <2>1, BeganIs
  <2>3. Agrees("responses", Begun, s, {})
    BY <1>1, BegunAgrees
  <2>4. ResponsesAt(Begun, s)
    BY <1>1, <2>3 DEF ResponsesAt, Level, Quiet
  <2> QED BY <1>4, <2>1, <2>2, <2>4 DEF Standing, Streaming, Waiting
<1> QED BY <1>2, <1>3, <1>4

\* A chunk is read when nothing is on its way.
Chunked(r, s, c) ==
  IF r.protocol = "messages" THEN Answers!feed(s, c)
  ELSE IF r.stream THEN Answers!respond(s, c) ELSE Answers!aggregateCompletion(s, c)

\* A chunk leaves it so.
LEMMA ChunkStands ==
    ASSUME NEW r, NEW s, NEW v, Standing(r, "open", s, <<>>, v), NEW c, ChunkOK(c),
           NEW x, x = Chunked(r, s, c), NEW t, t = Cleared(x),
           NEW ev, ev = IF r.stream THEN x.out ELSE <<>>
    PROVE  Standing(r, "open", t, ev, v)
<1> DEFINE b == r.restore
<1>1. RequestOK(r) /\ b \in BOOLEAN
  BY DEF Standing, RequestOK
<1>2. CASE r.protocol = "messages"
  <2> DEFINE p == "messages"
  <2>1. x = Answers!feed(s, c)
    BY <1>2 DEF Chunked
  <2>2. ASSUME NEW w, MessagesAt(w, s, b)
        PROVE  \E z : Plays(p, w, x.out, z) /\ MessagesAt(z, t, b) /\ IsSeq(x.out)
    <3> HIDE DEF b
    <3>1. Fed(w, x) /\ x.started
      BY <1>1, <2>1, <2>2, FeedGood
    <3> DEFINE T == DOMAIN x.tools
    <3>2. Good(p, w, x, T) /\ Alone(x)
      BY <3>1 DEF Fed
    <3> HIDE DEF T, p
    <3>3. /\ \E z : Plays(p, w, x.out, z) /\ Level(p, z, t, T)
          /\ SameTools(x, t) /\ SameTexts(x, t) /\ SameEnds(x, t) /\ IsSeq(x.out)
      BY <3>2, GoodLevel
    <3>4. t.started /\ T = DOMAIN t.tools /\ Alone(t)
      BY <3>1, <3>2, <3>3 DEF T, SameEnds, SameTools, SameTexts, Alone
    <3>5. \A z : Level(p, z, t, T) => MessagesAt(z, t, b)
      BY <3>4 DEF MessagesAt, p
    <3> QED BY <3>3, <3>5
  <2>3. CASE r.stream
    <3>1. PICK w : /\ Plays(p, v, <<>>, w)
                   /\ Waiting(r, w, s) \/ ("open" # "open" /\ w.phase \in {"complete", "failed"})
      BY <1>2, <2>3 DEF Standing, Streaming
    <3>2. w = v
      BY <3>1, PlaysNoMore
    <3>3. MessagesAt(v, s, b)
      BY <1>2, <3>1, <3>2 DEF Waiting
    <3>4. PICK z : Plays(p, v, x.out, z) /\ MessagesAt(z, t, b) /\ IsSeq(x.out)
      BY <2>2, <3>3
    <3> QED BY <1>1, <1>2, <2>3, <3>4 DEF Standing, Streaming, Waiting
  <2>4. CASE ~r.stream
    <3>1. PICK w : MessagesAt(w, s, b)
      BY <1>2, <2>4 DEF Standing, Collecting
    <3>2. \E z : MessagesAt(z, t, b)
      BY <2>2, <3>1
    <3>3. v.phase # "begun"
      BY <2>4 DEF Standing, Collecting
    <3> QED BY <1>1, <1>2, <2>4, <3>2, <3>3 DEF Standing, Collecting
  <2> QED BY <2>3, <2>4
<1>3. CASE r.protocol # "messages" /\ r.stream
  <2> DEFINE p == "responses"
  <2>1. x = Answers!respond(s, c) /\ r.protocol = p
    BY <1>1, <1>3 DEF Chunked, RequestOK
  <2>2. PICK w : /\ Plays(p, v, <<>>, w)
                 /\ Waiting(r, w, s) \/ ("open" # "open" /\ w.phase \in {"complete", "failed"})
    BY <1>3, <2>1 DEF Standing, Streaming
  <2>3. w = v
    BY <2>2, PlaysNoMore
  <2>4. ResponsesAt(v, s)
    BY <1>3, <2>2, <2>3 DEF Waiting
  <2>5. Answered(v, x)
    BY <2>1, <2>4, RespondGood
  <2> DEFINE T == DOMAIN x.tools
  <2>6. Good(p, v, x, T) /\ Quiet(x)
    BY <2>5 DEF Answered
  <2>10. r.protocol = p
    BY <2>1
  <2> HIDE DEF T, p
  <2>7. /\ \E z : Plays(p, v, x.out, z) /\ Level(p, z, t, T)
        /\ SameTools(x, t) /\ SameTexts(x, t) /\ IsSeq(x.out)
    BY <2>6, GoodLevel
  <2>8. T = DOMAIN t.tools /\ Quiet(t)
    BY <2>6, <2>7 DEF T, SameTools, SameTexts, Quiet
  <2>9. \A z : Level(p, z, t, T) => ResponsesAt(z, t)
    BY <2>8 DEF ResponsesAt, p
  <2> QED BY <1>1, <1>3, <2>10, <2>7, <2>9 DEF Standing, Streaming, Waiting
<1>4. CASE r.protocol # "messages" /\ ~r.stream
  <2>1. x = Answers!aggregateCompletion(s, c) /\ InOrder(s) /\ v.phase # "begun"
    BY <1>4 DEF Chunked, Standing, Collecting
  <2>2. InOrder(x)
    BY <2>1, AggregateInOrder
  <2>3. IsState(t) /\ SameTools(x, t)
    BY <2>2, ClearedIs DEF InOrder
  <2>4. InOrder(t)
    BY <2>2, <2>3 DEF InOrder, SameTools
  <2> QED BY <1>1, <1>4, <2>1, <2>4 DEF Standing, Collecting
<1> QED BY <1>2, <1>3, <1>4

\* The end of an answer that is streamed.
EndOf(r, s) ==
  IF r.protocol = "messages" THEN Answers!finishEvents(s).out ELSE Answers!completeResponse(s).out

\* So does the end of a stream, complete or failed.
LEMMA EndStands ==
    ASSUME NEW r, NEW up, NEW s, NEW v, Standing(r, up, s, <<>>, v), r.stream,
           up # "open", v.phase \in {"idle", "begun"}, NEW finished, finished => s.finish,
           NEW ev, ev = IF finished THEN EndOf(r, s) ELSE Answers!Ended("fail")
    PROVE  Standing(r, up, s, ev, v)
<1> DEFINE b == r.restore
           p == r.protocol
<1>1. RequestOK(r) /\ b \in BOOLEAN
  BY DEF Standing, RequestOK
<1>2. PICK w : /\ Plays(p, v, <<>>, w)
               /\ Waiting(r, w, s) \/ (up # "open" /\ w.phase \in {"complete", "failed"})
  BY DEF Standing, Streaming
<1>3. w = v
  BY <1>2, PlaysNoMore
<1>4. Waiting(r, v, s)
  BY <1>2, <1>3
<1>5. IsSeq(ev) /\ \E z : Plays(p, v, ev, z) /\ z.phase \in {"complete", "failed"}
  <2>1. CASE ~finished
    <3>1. ev = Answers!Ended("fail")
      BY <2>1
    <3> HIDE DEF p
    <3>2. IsSeq(Answers!Ended("fail")) /\ \E z : Plays(p, v, Answers!Ended("fail"), z) /\ z.phase = "failed"
      BY FailedIs
    <3> QED BY <3>1, <3>2
  <2>2. CASE finished /\ p = "messages"
    <3>1. ev = Answers!finishEvents(s).out /\ s.finish
      BY <2>2 DEF EndOf
    <3>2. MessagesAt(v, s, b)
      BY <1>4, <2>2 DEF Waiting
    <3>3. s # Answers!NewState(b)
      <4> HIDE DEF b
      <4>1. s = Answers!NewState(b) => s.finish = Off
        BY <1>1, FreshIs
      <4> QED BY <3>1, <4>1 DEF Off
    <3>4. Fed(v, s)
      BY <3>2, <3>3, LevelGood DEF MessagesAt, Fed
    <3>5. IsSeq(ev) /\ \E z : Plays("messages", v, ev, z) /\ z.phase = "complete"
      BY <3>1, <3>4, FinishGood
    <3> QED BY <2>2, <3>5
  <2>3. CASE finished /\ p # "messages"
    <3>1. ev = Answers!completeResponse(s).out /\ p = "responses"
      BY <1>1, <2>3 DEF EndOf, RequestOK
    <3>2. ResponsesAt(v, s)
      BY <1>4, <2>3 DEF Waiting
    <3>3. Answered(v, s)
      BY <3>2, LevelGood DEF ResponsesAt, Answered
    <3>4. IsSeq(ev) /\ \E z : Plays("responses", v, ev, z) /\ z.phase = "complete"
      BY <3>1, <3>3, CompleteGood
    <3> QED BY <3>1, <3>4
  <2> QED BY <2>1, <2>2, <2>3
<1> QED BY <1>1, <1>5 DEF Standing, Streaming

\* The reader takes the next event.
LEMMA ReadStands ==
    ASSUME NEW r, NEW up, NEW s, NEW ev, NEW v, Standing(r, up, s, ev, v), ev # <<>>,
           NEW rest, rest = Tail(ev), NEW w, w = After(v, Head(ev))
    PROVE  Standing(r, up, s, rest, w) /\ MayFollow(r.protocol, v, w)
<1> DEFINE p == r.protocol
<1>1. RequestOK(r) /\ r.stream
  BY DEF Standing, Collecting
<1>2. IsSeq(ev)
  BY <1>1 DEF Standing, Streaming
<1>3. PICK z : /\ Plays(p, v, ev, z)
               /\ Waiting(r, z, s) \/ (up # "open" /\ z.phase \in {"complete", "failed"})
  BY <1>1 DEF Standing, Streaming
<1> HIDE DEF p
<1>4. MayFollow(p, v, w) /\ Plays(p, w, rest, z) /\ IsSeq(rest)
  BY <1>2, <1>3, PlaysFirst
<1> QED BY <1>1, <1>3, <1>4 DEF Standing, Streaming, p

\* The upstream has ended.
LEMMA EndingStands ==
    ASSUME NEW r, NEW up, NEW s, NEW ev, NEW v, Standing(r, "open", s, ev, v)
    PROVE  Standing(r, up, s, ev, v)
BY DEF Standing, Streaming

\* An answer as a whole, or none.
LEMMA WholeStands ==
    ASSUME NEW r, NEW up, NEW s, NEW v, ~r.stream, Standing(r, up, s, <<>>, v),
           NEW w, w.phase # "begun"
    PROVE  Standing(r, up, s, <<>>, w)
BY DEF Standing, Collecting

\* Of an answer as a whole nothing is on its way, and its calls are in an order.
LEMMA CollectedInOrder ==
    ASSUME NEW r, NEW up, NEW s, NEW ev, NEW v, ~r.stream, Standing(r, up, s, ev, v)
    PROVE  InOrder(s) /\ v.phase # "begun" /\ ev = <<>>
<1>1. RequestOK(r) /\ r.restore \in BOOLEAN /\ Collecting(r, s, ev, v)
  BY DEF Standing, RequestOK
<1>2. CASE r.protocol = "messages"
  <2>1. PICK w : MessagesAt(w, s, r.restore)
    BY <1>1, <1>2 DEF Collecting
  <2>2. Typed(s)
    BY <1>1, <2>1, FreshIs DEF MessagesAt, Level
  <2> QED BY <1>1, <2>2, TypedInOrder DEF Collecting
<1> QED BY <1>1, <1>2 DEF Collecting

View == Seen(items, phase)
Stands == Standing(request, upstream, h, events, View)

\* The beginning is one of the protocol.
LEMMA StandsFirst == Answers!Init => Stands /\ Answers!Stream!Init
<1> SUFFICES ASSUME Answers!Init PROVE Stands /\ Answers!Stream!Init
  OBVIOUS
<1>1. RequestOK(request)
  BY DEF Answers!Init, Answers!Messages, RequestOK
<1>2. /\ upstream = "open" /\ h = Answers!NewState(request.restore)
      /\ events = IF request.protocol = "responses" /\ request.stream THEN Answers!Began ELSE <<>>
      /\ items = [i \in {} |-> i] /\ phase = "idle"
  BY DEF Answers!Init, Answers!Responses
<1>3. View = Idle
  BY <1>2 DEF View, Idle, Nothing
<1>4. Standing(request, "open", h, events, Idle)
  BY <1>1, <1>2, FreshStands
<1>5. Answers!Stream!Init
  BY <1>1, <1>2 DEF Answers!Stream!Init, RequestOK
<1> QED BY <1>2, <1>3, <1>4, <1>5 DEF Stands

\* What one step keeps, and lets the client see.
InStep == Stands' /\ (Answers!Stream!Next \/ UNCHANGED Answers!Stream!vars)

\* A chunk is read (messages.go:608, responses.go:930, main.go:4505).
LEMMA ReadChunkInStep ==
    ASSUME Answers!ChunksOK, Stands, NEW chunk \in Chunks, Answers!ReadChunk(chunk)
    PROVE  InStep
<1> DEFINE x == Chunked(request, h, chunk)
<1>1. ChunkOK(chunk)
  BY ChunksAre
<1>2. /\ upstream = "open" /\ events = <<>> /\ h' = Cleared(x)
      /\ events' = IF request.stream THEN x.out ELSE <<>>
      /\ request' = request /\ upstream' = upstream /\ items' = items /\ phase' = phase
  BY DEF Answers!ReadChunk, Answers!Reading, Answers!Messages, Chunked, Cleared
<1>3. x = Chunked(request, h, chunk)
  OBVIOUS
<1> HIDE DEF x
<1>4. Standing(request, "open", h, <<>>, View)
  BY <1>2 DEF Stands
<1>5. Standing(request, "open", h', events', View)
  BY <1>1, <1>2, <1>3, <1>4, ChunkStands
<1>6. View' = View
  BY <1>2 DEF View
<1>7. Stands'
  BY <1>2, <1>5, <1>6 DEF Stands
<1>8. UNCHANGED Answers!Stream!vars
  BY <1>2 DEF Answers!Stream!vars
<1> QED BY <1>7, <1>8 DEF InStep

\* The upstream ends.
LEMMA ScanEndsInStep ==
    ASSUME Stands, Answers!ScanEnds
    PROVE  InStep
<1>1. /\ upstream = "open" /\ request' = request /\ h' = h /\ events' = events
      /\ items' = items /\ phase' = phase
  BY DEF Answers!ScanEnds, Answers!Reading
<1>2. Standing(request, "open", h, events, View)
  BY <1>1 DEF Stands
<1>3. Standing(request, upstream', h, events, View)
  BY <1>2, EndingStands
<1>4. View' = View
  BY <1>1 DEF View
<1>5. Stands'
  BY <1>1, <1>3, <1>4 DEF Stands
<1>6. UNCHANGED Answers!Stream!vars
  BY <1>1 DEF Answers!Stream!vars
<1> QED BY <1>5, <1>6 DEF InStep

\* A stream is ended (messages.go:968, responses.go:1056).
LEMMA EndStreamInStep ==
    ASSUME Stands, NEW all, Answers!EndStream(all), all = EndOf(request, h)
    PROVE  InStep
<1> DEFINE finished == upstream = "eof" /\ h.finish
<1>1. /\ upstream # "open" /\ events = <<>> /\ phase \in {"idle", "begun"} /\ request.stream
      /\ events' = IF finished THEN all ELSE Answers!Ended("fail")
      /\ request' = request /\ upstream' = upstream /\ h' = h
      /\ items' = items /\ phase' = phase
  BY DEF Answers!EndStream, Answers!Finishing, Answers!Finished
<1>2. finished => h.finish
  OBVIOUS
<1> HIDE DEF finished
<1>3. Standing(request, upstream, h, <<>>, View) /\ View.phase \in {"idle", "begun"}
  BY <1>1 DEF Stands, View, Seen
<1> DEFINE ev == events'
<1>4. ev = IF finished THEN EndOf(request, h) ELSE Answers!Ended("fail")
  BY <1>1
<1> HIDE DEF ev
<1>5. Standing(request, upstream, h, ev, View)
  BY <1>1, <1>2, <1>3, <1>4, EndStands
<1>6. View' = View
  BY <1>1 DEF View
<1>7. Stands'
  BY <1>1, <1>5, <1>6 DEF Stands, ev
<1>8. UNCHANGED Answers!Stream!vars
  BY <1>1 DEF Answers!Stream!vars
<1> QED BY <1>7, <1>8 DEF InStep

\* An answer is sent as a whole.
LEMMA AnswerWholeInStep ==
    ASSUME Stands, NEW all, Answers!AnswerWhole(all), InOrder(h) => Settled(all)
    PROVE  InStep
<1>1. /\ events = <<>> /\ ~request.stream
      /\ request' = request /\ upstream' = upstream /\ h' = h /\ events' = events
      /\ phase \in {"idle", "begun"}
  BY DEF Answers!AnswerWhole, Answers!Finishing
<1>2. Standing(request, upstream, h, events, View)
  BY DEF Stands
<1>3. InOrder(h) /\ View.phase # "begun"
  BY <1>1, <1>2, CollectedInOrder
<1>4. phase = "idle"
  BY <1>1, <1>3 DEF View, Seen
<1>5. phase' # "begun" /\ Answers!Stream!Next
  <2>1. CASE Answers!Finished
    <3>1. items' = [i \in 0 .. Len(all) - 1 |-> all[i + 1]] /\ phase' = "complete"
      BY <2>1 DEF Answers!AnswerWhole
    <3>2. IsSeq(all) /\ \A n \in 1 .. Len(all) : ~all[n].open
      BY <1>3 DEF Settled
    <3>3. Len(all) \in Nat
      BY <3>2, LenProperties DEF IsSeq
    <3>4. ASSUME NEW i \in DOMAIN items'
          PROVE  ~items'[i].open
      <4>1. i \in 0 .. Len(all) - 1 /\ items'[i] = all[i + 1]
        BY <3>1
      <4>2. i + 1 \in 1 .. Len(all)
        BY <3>3, <4>1
      <4> QED BY <3>2, <4>1, <4>2
    <3>5. Answers!Stream!Whole(items')
      BY <1>1, <1>4, <3>1, <3>4 DEF Answers!Stream!Whole
    <3> QED BY <3>1, <3>5 DEF Answers!Stream!Next
  <2>2. CASE ~Answers!Finished
    <3>1. phase' = "failed" /\ items' = items
      BY <2>2 DEF Answers!AnswerWhole
    <3>2. Answers!Stream!Fail
      BY <1>1, <1>4, <3>1 DEF Answers!Stream!Fail
    <3> QED BY <3>1, <3>2 DEF Answers!Stream!Next
  <2> QED BY <2>1, <2>2
<1>6. Stands'
  <2> DEFINE w == View'
  <2>1. w.phase # "begun"
    BY <1>5 DEF View, Seen
  <2> HIDE DEF w
  <2>2. Standing(request, upstream, h, <<>>, View)
    BY <1>1, <1>2
  <2>3. Standing(request, upstream, h, <<>>, w)
    BY <1>1, <2>1, <2>2, WholeStands
  <2> QED BY <1>1, <2>3 DEF Stands, w
<1> QED BY <1>5, <1>6 DEF InStep

\* The client reads an event.
LEMMA ClientReadsInStep ==
    ASSUME Stands, Answers!ClientReads
    PROVE  InStep
<1> DEFINE v == View
           w == View'
           rest == events'
           p == request.protocol
<1>1. /\ events # <<>> /\ rest = Tail(events)
      /\ items' = Answers!ItemsAfter(items, Head(events))
      /\ phase' = Answers!PhaseAfter(phase, Head(events))
      /\ request' = request /\ upstream' = upstream /\ h' = h
  BY DEF Answers!ClientReads
<1>2. /\ v.items = items /\ v.phase = phase /\ w.items = items' /\ w.phase = phase'
      /\ w = After(v, Head(events))
  BY <1>1 DEF View, Seen, After
<1>3. Standing(request, upstream, h, events, v)
  BY DEF Stands
<1> HIDE DEF v, w, rest
<1>4. Standing(request, upstream, h, rest, w) /\ MayFollow(request.protocol, v, w)
  BY <1>1, <1>2, <1>3, ReadStands
<1>5. Stands'
  BY <1>1, <1>4 DEF Stands, w, rest
<1>6. Answers!Stream!Next
  <2>1. CASE Begins(v, w)
    <3>1. Answers!Stream!Begin
      BY <1>1, <1>2, <2>1 DEF Begins, Answers!Stream!Begin
    <3> QED BY <3>1 DEF Answers!Stream!Next
  <2>2. CASE \E i \in DOMAIN w.items : Opens(p, v, w, i)
    <3>1. PICK i \in DOMAIN w.items : Opens(p, v, w, i)
      BY <2>2
    <3>2. Answers!Stream!MayOpen(items'[i].kind)
      BY <1>2, <3>1 DEF Opens, MayOpen, Answers!Stream!MayOpen
    <3>5. Answers!Stream!Cardinality(DOMAIN items) = Cardinality(DOMAIN items)
      BY Zenon DEF Answers!Stream!Cardinality, Cardinality
    <3>3. Answers!Stream!Open(items'[i])
      BY <1>1, <1>2, <3>1, <3>2, <3>5 DEF Opens, Answers!Stream!Open
    <3>4. i \in DOMAIN items'
      BY <1>2, <3>1
    <3> QED BY <3>3, <3>4 DEF Answers!Stream!Next
  <2>3. CASE \E i \in DOMAIN v.items : i \in DOMAIN w.items /\ Grows(v, w, i)
    <3>1. PICK i \in DOMAIN v.items : i \in DOMAIN w.items /\ Grows(v, w, i)
      BY <2>3
    <3>2. Answers!Stream!Grow(i, items'[i])
      BY <1>1, <1>2, <3>1 DEF Grows, Answers!Stream!Grow
    <3>3. i \in DOMAIN items /\ i \in DOMAIN items'
      BY <1>2, <3>1
    <3> QED BY <3>2, <3>3 DEF Answers!Stream!Next
  <2>4. CASE Completes(v, w)
    <3>1. Answers!Stream!Complete
      BY <1>1, <1>2, <2>4 DEF Completes, Answers!Stream!Complete
    <3> QED BY <3>1 DEF Answers!Stream!Next
  <2>5. CASE Fails(v, w)
    <3>1. Answers!Stream!Fail
      BY <1>1, <1>2, <2>5 DEF Fails, Answers!Stream!Fail
    <3> QED BY <3>1 DEF Answers!Stream!Next
  <2> QED BY <1>4, <2>1, <2>2, <2>3, <2>4, <2>5 DEF MayFollow
<1> QED BY <1>5, <1>6 DEF InStep

\* Every step of the handler, the upstream and the client.
LEMMA EveryStep ==
    ASSUME Answers!ChunksOK, Stands, [Answers!Next]_(Answers!vars)
    PROVE  InStep
<1>1. CASE \E chunk \in Chunks : Answers!ReadChunk(chunk)
  BY <1>1, ReadChunkInStep
<1>2. CASE Answers!ScanEnds
  BY <1>2, ScanEndsInStep
<1>3. CASE Answers!streamMessagesResponse
  <2> DEFINE all == Answers!finishEvents(h).out
  <2>1. Answers!EndStream(all) /\ request.protocol = "messages"
    BY <1>3 DEF Answers!streamMessagesResponse, Answers!Messages
  <2>2. all = EndOf(request, h)
    BY <2>1 DEF EndOf
  <2> HIDE DEF all
  <2> QED BY <2>1, <2>2, EndStreamInStep
<1>4. CASE Answers!streamResponsesResponse
  <2> DEFINE all == Answers!completeResponse(h).out
  <2>1. Answers!EndStream(all) /\ request.protocol = "responses"
    BY <1>4 DEF Answers!streamResponsesResponse, Answers!Responses
  <2>2. all = EndOf(request, h)
    BY <2>1 DEF EndOf
  <2> HIDE DEF all
  <2> QED BY <2>1, <2>2, EndStreamInStep
<1>5. CASE Answers!writeMessagesAggregate
  <2> DEFINE all == Answers!aggregate(h)
  <2>1. Answers!AnswerWhole(all)
    BY <1>5 DEF Answers!writeMessagesAggregate
  <2>2. InOrder(h) => Settled(all)
    BY AggregateWhole
  <2> HIDE DEF all
  <2> QED BY <2>1, <2>2, AnswerWholeInStep
<1>6. CASE Answers!writeResponsesAggregate
  <2> DEFINE all == Answers!chatCompletionToResponses(h)
  <2>1. Answers!AnswerWhole(all)
    BY <1>6 DEF Answers!writeResponsesAggregate
  <2>2. InOrder(h) => Settled(all)
    BY ResponseWhole
  <2> HIDE DEF all
  <2> QED BY <2>1, <2>2, AnswerWholeInStep
<1>7. CASE Answers!writeChatAggregate
  <2> DEFINE all == Answers!chatCompletion(h)
  <2>1. Answers!AnswerWhole(all)
    BY <1>7 DEF Answers!writeChatAggregate
  <2>2. InOrder(h) => Settled(all)
    BY ChatWhole
  <2> HIDE DEF all
  <2> QED BY <2>1, <2>2, AnswerWholeInStep
<1>8. CASE Answers!ClientReads
  BY <1>8, ClientReadsInStep
<1>9. CASE UNCHANGED Answers!vars
  <2>1. /\ request' = request /\ upstream' = upstream /\ h' = h /\ events' = events
        /\ items' = items /\ phase' = phase
    BY <1>9 DEF Answers!vars
  <2>2. Stands' /\ UNCHANGED Answers!Stream!vars
    BY <2>1 DEF Stands, View, Answers!Stream!vars
  <2> QED BY <2>2 DEF InStep
<1> QED BY <1>1, <1>2, <1>3, <1>4, <1>5, <1>6, <1>7, <1>8, <1>9 DEF Answers!Next

\* Whatever the upstream says, in whatever chunks and however long, and whether it
\* ends, breaks or stops: a streamed answer begins, opens its blocks or items one
\* after the other, lets only an open one grow, closes each once, and ends once,
\* complete when all are closed (messages.go:608-873, responses.go:808-1198); an
\* answer that is sent as a whole comes at once, with nothing open in it.
THEOREM AnswersKeepProtocol ==
    ASSUME Answers!ChunksOK
    PROVE  Answers!Spec => Answers!KeepsProtocol
<1>1. Answers!Init => Stands /\ Answers!Stream!Init
  BY StandsFirst
<1>2. Stands /\ [Answers!Next]_(Answers!vars) => Stands' /\ [Answers!Stream!Next]_(Answers!Stream!vars)
  BY EveryStep DEF InStep
<1> QED BY <1>1, <1>2, PTL DEF Answers!Spec, Answers!KeepsProtocol, Answers!Stream!Spec
=============================================================================
