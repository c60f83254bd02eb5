------------------------------ MODULE ChatStream ------------------------------
(***************************************************************************)
(* One streamed chat answer (streamChatResponseWithReplay in main.go, with *)
(* idleReadCloser and stream_resilience.go): the handler reads the lines   *)
(* of the upstream and writes frames to the client, a heartbeat goroutine  *)
(* writes comments until the first datum, a watchdog cuts an upstream that *)
(* is silent, and a stream that broke before the first datum is asked for  *)
(* once more.                                                              *)
(*                                                                         *)
(* A line is its kind.  What the upstream sent lies on the wire until Read *)
(* moves it to the buffer of the scanner, from where it is written line by *)
(* line.  A client that is slow makes the next write late.                 *)
(***************************************************************************)
EXTENDS Integers, Sequences, FiniteSets

CONSTANTS
    Timeout,        \* upstreamIdleTimeout, in ticks
    MaxLines,       \* bound: lines of one response
    MaxBeats        \* bound: heartbeats

ASSUME BoundsAssumption ==
    Timeout \in Nat \ {0} /\ MaxLines \in Nat /\ MaxBeats \in Nat

VARIABLES
    budget,         \* replayBudget
    restoring,      \* restorePlan.active(): text may be kept back
    client,         \* "here", "stalled" (it does not read), or "gone" (r.Context())
    pc,             \* the handler
    try,            \* the attempt under way, replays + 1
    bodies,         \* attempts whose body is open; the model slot goes with it
    wire, fate,     \* lines on the way, and how the response goes on
    buf, err,       \* the scanner's lines and its error
    dataSeen,       \* guard.dataSeen
    finish, sawDone, held,  \* finishReason, sawDone, text in the restorers
    watchdog, idle, \* idleReadCloser, and the ticks since its last
    silent,         \* history: ticks since the last line was sent; Timeout stays
    offered,        \* history: data lines sent before the first [DONE], and whether it came
    sent,           \* history: lines of this response
    heartbeat,      \* "on" until Stop has waited for the goroutine
    out             \* the frames written to the client

respVars == <<wire, fate, silent, offered, sent>>
scanVars == <<buf, err, finish, sawDone, held>>
dogVars == <<watchdog, idle>>
vars == <<budget, restoring, client, pc, try, bodies, respVars, scanVars,
          dataSeen, dogVars, heartbeat, out>>

Kinds == {"comment", "meta", "data", "finish", "done"}
Frame(k) == [kind |-> k, try |-> try]

NewResponse ==
    /\ wire' = <<>> /\ fate' = "sending" /\ silent' = 0
    /\ offered' = [data |-> 0, closed |-> FALSE] /\ sent' = 0
    /\ buf' = <<>> /\ err' = "none"
    /\ finish' = FALSE /\ sawDone' = FALSE /\ held' = FALSE
    /\ watchdog' = "armed" /\ idle' = 0

Init ==
    /\ budget \in {0, 1} /\ restoring \in BOOLEAN
    /\ client = "here" /\ pc = "scan" /\ try = 1 /\ bodies = {1}
    /\ wire = <<>> /\ fate = "sending" /\ silent = 0
    /\ offered = [data |-> 0, closed |-> FALSE] /\ sent = 0
    /\ buf = <<>> /\ err = "none"
    /\ finish = FALSE /\ sawDone = FALSE /\ held = FALSE /\ dataSeen = FALSE
    /\ watchdog = "armed" /\ idle = 0
    /\ heartbeat = "on" /\ out = <<>>

-----------------------------------------------------------------------------
(* The upstream, the client and the clock *)

UpstreamSends(k) ==
    /\ pc \in {"scan", "stamp"} /\ fate = "sending" /\ watchdog = "armed"
    /\ sent < MaxLines
    /\ wire' = Append(wire, k)
    /\ sent' = sent + 1
    /\ silent' = IF silent < Timeout THEN 0 ELSE Timeout
    /\ offered' = IF offered.closed THEN offered
                  ELSE [data |-> offered.data + IF k \in {"data", "finish"} THEN 1 ELSE 0,
                        closed |-> k = "done"]
    /\ UNCHANGED <<budget, restoring, client, pc, try, bodies, fate, scanVars,
                   dataSeen, dogVars, heartbeat, out>>

\* The end, a connection reset, or a line longer than the scanner takes.
UpstreamStops ==
    /\ pc \in {"scan", "stamp"} /\ fate = "sending" /\ watchdog = "armed"
    /\ fate' \in {"eof", "reset", "overlong"}
    /\ UNCHANGED <<budget, restoring, client, pc, try, bodies, wire, silent, offered,
                   sent, scanVars, dataSeen, dogVars, heartbeat, out>>

\* The client stops reading, comes back to it, or leaves.  What a client that does not
\* read is sent may still find room on the way, so a stall forbids no step; nothing
\* makes a write to it end either (Served).
ClientTurns ==
    /\ client # "gone" /\ pc # "returned"
    /\ client' \in {"here", "stalled", "gone"} \ {client}
    /\ UNCHANGED <<budget, restoring, pc, try, bodies, respVars, scanVars,
                   dataSeen, dogVars, heartbeat, out>>

\* Reading takes no time to speak of; writing takes what the client takes.
Tick ==
    /\ pc = "scan" /\ ~(buf = <<>> /\ wire # <<>>)
    /\ idle < Timeout
    /\ idle' = idle + 1
    /\ silent' = IF silent < Timeout THEN silent + 1 ELSE silent
    /\ UNCHANGED <<budget, restoring, client, pc, try, bodies, wire, fate, offered,
                   sent, scanVars, dataSeen, watchdog, heartbeat, out>>

-----------------------------------------------------------------------------
(* idleReadCloser.check and the heartbeat goroutine *)

\* Mutant: the watchdog waits for the first datum only.
checkFirst ==
    /\ watchdog = "armed" /\ idle >= Timeout /\ ~dataSeen
    /\ watchdog' = "fired"
    /\ UNCHANGED <<budget, restoring, client, pc, try, bodies, respVars, scanVars,
                   dataSeen, idle, heartbeat, out>>

check ==
    /\ watchdog = "armed" /\ idle >= Timeout
    /\ watchdog' = "fired"
    /\ UNCHANGED <<budget, restoring, client, pc, try, bodies, respVars, scanVars,
                   dataSeen, idle, heartbeat, out>>

Beats == Cardinality({i \in DOMAIN out : out[i].kind = "heartbeat"})

\* Mutant: the heartbeat does not look at what was written.
heartbeatUnguarded ==
    /\ heartbeat = "on" /\ Beats < MaxBeats
    /\ out' = Append(out, Frame("heartbeat"))
    /\ UNCHANGED <<budget, restoring, client, pc, try, bodies, respVars, scanVars,
                   dataSeen, dogVars, heartbeat>>

writeHeartbeat ==
    /\ heartbeat = "on" /\ Beats < MaxBeats
    /\ ~dataSeen
    /\ out' = Append(out, Frame("heartbeat"))
    /\ UNCHANGED <<budget, restoring, client, pc, try, bodies, respVars, scanVars,
                   dataSeen, dogVars, heartbeat>>

-----------------------------------------------------------------------------
(* Reading and forwarding *)

Read ==
    /\ pc = "scan" /\ buf = <<>> /\ wire # <<>>
    /\ buf' = wire /\ wire' = <<>>
    /\ pc' = "stamp"
    /\ UNCHANGED <<budget, restoring, client, try, bodies, fate, silent, offered, sent,
                   err, finish, sawDone, held, dataSeen, dogVars, heartbeat, out>>

\* The watchdog hears of what was read.
Stamp ==
    /\ pc = "stamp"
    /\ idle' = 0
    /\ pc' = "scan"
    /\ UNCHANGED <<budget, restoring, client, try, bodies, respVars, scanVars,
                   dataSeen, watchdog, heartbeat, out>>

\* The next line is a k.
Line(k) == pc = "scan" /\ buf # <<>> /\ Head(buf) = k /\ buf' = Tail(buf)

writeUpstreamComment ==
    /\ Line("comment")
    /\ out' = Append(out, Frame("comment"))
    /\ UNCHANGED <<budget, restoring, client, pc, try, bodies, respVars, err, finish,
                   sawDone, held, dataSeen, dogVars, heartbeat>>

SkipMetadata ==
    /\ Line("meta")
    /\ UNCHANGED <<budget, restoring, client, pc, try, bodies, respVars, err, finish,
                   sawDone, held, dataSeen, dogVars, heartbeat, out>>

\* A chunk is always written, if only with the part that is not kept back.
writeData ==
    /\ Line("data")
    /\ out' = Append(out, Frame("data"))
    /\ dataSeen' = TRUE
    /\ held' \in (IF restoring THEN BOOLEAN ELSE {FALSE})
    /\ UNCHANGED <<budget, restoring, client, pc, try, bodies, respVars, err, finish,
                   sawDone, dogVars, heartbeat>>

With(frames, k, there) == IF there THEN Append(frames, Frame(k)) ELSE frames

\* Where names are restored the chunk is split: its content, then what is kept back by
\* now, if anything, then a frame with nothing but the finish reason.
Finished(kept) == Append(With(Append(out, Frame("data")), "tail", kept), Frame("terminal"))

writeFinish ==
    /\ Line("finish")
    /\ \/ ~restoring /\ out' = Append(out, Frame("data"))
       \/ restoring /\ \E kept \in BOOLEAN : out' = Finished(kept)
    /\ dataSeen' = TRUE /\ held' = FALSE /\ finish' = TRUE
    /\ UNCHANGED <<budget, restoring, client, pc, try, bodies, respVars, err,
                   sawDone, dogVars, heartbeat>>

NoteDone ==
    /\ Line("done")
    /\ sawDone' = TRUE
    /\ pc' = "scanned"
    /\ UNCHANGED <<budget, restoring, client, try, bodies, respVars, err, finish,
                   held, dataSeen, dogVars, heartbeat, out>>

\* Read fails, or the response is at its end; a cancelled read may lose the wire.
ScanEnds ==
    /\ pc = "scan" /\ buf = <<>>
    /\ \/ wire = <<>> /\ fate = "eof" /\ err' = "none"
       \/ wire = <<>> /\ fate = "reset" /\ err' = "transient"
       \/ wire = <<>> /\ fate = "overlong" /\ err' = "permanent"
       \/ (watchdog = "fired" \/ client = "gone") /\ err' = "cancelled"
    /\ pc' = "scanned"
    /\ UNCHANGED <<budget, restoring, client, try, bodies, respVars, buf, finish,
                   sawDone, held, dataSeen, dogVars, heartbeat, out>>

-----------------------------------------------------------------------------
(* After the scan *)

\* Mutant: what the client has seen is not asked.
canReplayAnyway ==
    err \in {"cancelled", "transient"} /\ try <= budget /\ client # "gone"
canReplayStream ==
    /\ err \in {"cancelled", "transient"}
    /\ ~dataSeen /\ try <= budget /\ client # "gone"

\* Mutant: the body of the broken response is left open.
ReplayLeavesBody ==
    /\ pc = "scanned" /\ canReplayStream
    /\ pc' = "replay"
    /\ UNCHANGED <<budget, restoring, client, try, bodies, respVars, scanVars, dataSeen,
                   dogVars, heartbeat, out>>

Replay ==
    /\ pc = "scanned" /\ canReplayStream
    /\ bodies' = bodies \ {try}
    /\ watchdog' = "stopped"
    /\ pc' = "replay"
    /\ UNCHANGED <<budget, restoring, client, try, respVars, scanVars, dataSeen, idle,
                   heartbeat, out>>

\* replayUpstreamChat is the whole of AccountDispatch once more.
Replayed ==
    /\ pc = "replay"
    /\ try' = try + 1
    /\ bodies' = bodies \cup {try + 1}
    /\ NewResponse
    /\ pc' = "scan"
    /\ UNCHANGED <<budget, restoring, client, dataSeen, heartbeat, out>>

ReplayFails ==
    /\ pc = "replay"
    /\ out' = Append(out, Frame("error"))
    /\ dataSeen' = TRUE
    /\ pc' = "return"
    /\ UNCHANGED <<budget, restoring, client, try, bodies, respVars, scanVars, dogVars,
                   heartbeat>>

\* Interrupted, or closed without a finish reason.
WriteError ==
    /\ pc = "scanned" /\ ~canReplayStream
    /\ err # "none" \/ ~finish
    /\ out' = Append(out, Frame("error"))
    /\ dataSeen' = TRUE
    /\ pc' = "return"
    /\ UNCHANGED <<budget, restoring, client, try, bodies, respVars, scanVars, dogVars,
                   heartbeat>>

\* Mutant: the text kept back is flushed at a finish reason only.
CompleteUnflushed ==
    /\ pc = "scanned" /\ err = "none" /\ finish
    /\ out' = With(out, "done", sawDone)
    /\ pc' = "return"
    /\ UNCHANGED <<budget, restoring, client, try, bodies, respVars, scanVars,
                   dataSeen, dogVars, heartbeat>>

Complete ==
    /\ pc = "scanned" /\ err = "none" /\ finish
    /\ out' = With(With(out, "tail", held), "done", sawDone)
    /\ held' = FALSE
    /\ pc' = "return"
    /\ UNCHANGED <<budget, restoring, client, try, bodies, respVars, buf, err, finish,
                   sawDone, dataSeen, dogVars, heartbeat>>

\* The deferred calls: Stop waits for the goroutine, then the body is closed.
StopHeartbeat ==
    /\ pc = "return"
    /\ heartbeat' = "off"
    /\ pc' = "close"
    /\ UNCHANGED <<budget, restoring, client, try, bodies, respVars, scanVars,
                   dataSeen, dogVars, out>>

CloseBody ==
    /\ pc = "close"
    /\ bodies' = bodies \ {try}
    /\ watchdog' = "stopped"
    /\ pc' = "returned"
    /\ UNCHANGED <<budget, restoring, client, try, respVars, scanVars, dataSeen, idle,
                   heartbeat, out>>

Forward ==
    \/ Read \/ Stamp \/ writeUpstreamComment \/ SkipMetadata \/ writeData \/ writeFinish
    \/ NoteDone
Handler ==
    \/ Forward \/ ScanEnds \/ Replay \/ Replayed \/ ReplayFails \/ WriteError \/ Complete
    \/ StopHeartbeat \/ CloseBody

\* The handler's steps that nobody but the scheduler can hold up ...
Unhindered == Read \/ Stamp \/ SkipMetadata \/ NoteDone \/ ScanEnds \/ CloseBody
\* ... those that write to the client, or need guard.mu, which a heartbeat on its way
\* to the client may hold ...
Served ==
    /\ client # "stalled"
    /\ \/ writeUpstreamComment \/ writeData \/ writeFinish
       \/ Replay \/ WriteError \/ Complete \/ StopHeartbeat
\* ... and a replay, which waits for a slot as long as the client does.
ReplayEnds == client = "gone" /\ (Replayed \/ ReplayFails)

Returned == pc = "returned" /\ UNCHANGED vars

Next ==
    \/ \E k \in Kinds : UpstreamSends(k)
    \/ UpstreamStops \/ ClientTurns \/ Tick
    \/ check \/ writeHeartbeat
    \/ Handler \/ Returned

Spec == Init /\ [][Next]_vars

\* Goroutines run and time passes.  Nothing is assumed of a write to a client that does
\* not read (WriteTimeout is 0), nor of a replay while the client waits for it.
FairSpec ==
    /\ Spec
    /\ WF_vars(Unhindered) /\ WF_vars(Served) /\ WF_vars(ReplayEnds)
    /\ WF_vars(check) /\ WF_vars(Tick)

-----------------------------------------------------------------------------
(* Properties *)

FrameKinds == {"comment", "heartbeat", "data", "tail", "terminal", "error", "done"}
Has(k) == \E i \in DOMAIN out : out[i].kind = k
Shown == Cardinality({i \in DOMAIN out : out[i].kind = "data" /\ out[i].try = try})

\* Every variable keeps its type, and one replay is all there is (replayBudget).
TypeOK ==
    /\ budget \in {0, 1} /\ restoring \in BOOLEAN /\ client \in {"here", "stalled", "gone"}
    /\ pc \in {"scan", "stamp", "scanned", "replay", "return", "close", "returned"}
    /\ try \in 1 .. budget + 1 /\ bodies \subseteq 1 .. 2
    /\ wire \in Seq(Kinds) /\ fate \in {"sending", "eof", "reset", "overlong"}
    /\ buf \in Seq(Kinds) /\ err \in {"none", "transient", "permanent", "cancelled"}
    /\ {dataSeen, finish, sawDone, held} \subseteq BOOLEAN
    /\ watchdog \in {"armed", "fired", "stopped"}
    /\ idle \in 0 .. Timeout /\ silent \in 0 .. Timeout
    /\ offered \in [data : 0 .. MaxLines, closed : BOOLEAN] /\ sent \in 0 .. MaxLines
    /\ heartbeat \in {"on", "off"}
    /\ out \in Seq([kind : FrameKinds, try : 1 .. 2])

\* The client never sees data of two responses in one answer, whatever broke,
\* timed out or was replayed (canReplayStream, streamWriteGuard.dataSeen).
OneAnswer ==
    \A i, j \in DOMAIN out :
        {out[i].kind, out[j].kind} \subseteq {"data", "tail", "terminal", "done"} =>
            out[i].try = out[j].try

\* [DONE] is never made up, and an answer that is not whole is never ended
\* without an error: whole is every chunk the upstream sent before its end,
\* the text kept back by the identity restorers, and a finish reason.
TruthfulEnd ==
    pc = "returned" /\ (Has("done") \/ ~Has("error")) =>
        finish /\ ~held /\ Shown = offered.data

\* Nothing but the closing of the connection follows [DONE] or the error, and
\* no heartbeat follows the first datum: a client may stop reading there.
FramesInOrder ==
    \A i, j \in DOMAIN out : i < j =>
        /\ out[i].kind \notin {"done", "error"}
        /\ out[j].kind = "heartbeat" => out[i].kind \in {"heartbeat", "comment"}

\* An answer holds one response, and so one slot of its model, at a time, and
\* none when the handler has returned (resp, the deferred Close).
OneBodyAtATime ==
    /\ Cardinality(bodies) <= 1
    /\ pc = "returned" => bodies = {}

\* However silent the upstream is, and wherever it falls silent, the handler returns
\* (idleReadCloser), also to a client that has left.  Only two things may hold it for
\* ever, for which the code has no limit: a client that keeps ceasing to read
\* (servers.go:43), and a replay that finds no slot while its client waits.
HandlerReturns ==
    \/ <>(pc = "returned")
    \/ []<>(client = "stalled")
    \/ <>[](pc = "replay" /\ client # "gone")

\* main.go:3710 says that a stream that keeps sending is never cut: an upstream
\* that never paused for Timeout is not.
CutOnlyWhenSilent ==
    [][watchdog = "armed" /\ watchdog' = "fired" => silent >= Timeout]_vars
=============================================================================
