--------------------------- MODULE AnswerStreams ---------------------------
(***************************************************************************)
(* How the chunks of a chat completion become the answer of another        *)
(* protocol: the content blocks of a Messages answer (src/messages.go) and *)
(* the output items of a Responses answer (src/responses.go), streamed or  *)
(* as a whole; and a chat answer as a whole (a streamed one is passed on   *)
(* chunk by chunk, see ChatStream).  Identity restoring runs on the text   *)
(* in between.                                                             *)
(*                                                                         *)
(* h is the state the handler keeps in local variables: it reads a chunk,  *)
(* writes the events of it, and reads the next.  wire are the events       *)
(* written that the client has not read; the client is a reader who takes  *)
(* every event as it comes.  Usage, model names and the headers are left   *)
(* out; so is a client that does not read on, which the handler ignores.   *)
(***************************************************************************)
EXTENDS IdentityRestore

CONSTANTS Chunks,      \* what a chunk may say
          Declared,    \* the tools of a Responses request, in order
          MaxLength    \* bound: letters and runs of an answer

VARIABLES request,     \* protocol, stream, wanted (thinking) and restore
          upstream,    \* "open", "eof" or "error"
          h, wire, items, phase,
          said         \* what the upstream said, in runs: only for properties

vars == <<request, upstream, h, wire, items, phase, said>>

\* A chunk holds a piece of reasoning, a piece of text, fragments of calls and
\* whether it has a finish reason.
ChunksOK ==
  Chunks \subseteq
    [reasoning : Seq(STRING), text : Seq(STRING), finish : BOOLEAN,
     tools : Seq([index : Int, id : STRING, name : STRING, args : Seq(STRING)])]
ASSUME ChunksAssumption == ChunksOK

\* A map with an entry written.
Put(f, i, x) == [j \in DOMAIN f \cup {i} |-> IF j = i THEN x ELSE f[j]]

\* What is made of a state by every element of a sequence, one after the other.
Each(Op(_, _), s, seq) ==
  LET after[n \in 0 .. Len(seq)] == IF n = 0 THEN s ELSE Op(after[n - 1], seq[n])
  IN after[Len(seq)]

NoCall == [id |-> "", name |-> ""]

-----------------------------------------------------------------------------
(* The tools of a Responses request (src/responses_tools.go).              *)

flattenNamespaceToolName(namespace, name) ==
  IF namespace = "" THEN name ELSE namespace \o "__" \o name

\* The upstream knows a tool by its flat name; the first of a name is kept.
convertResponsesTools ==
  FoldLeft(LAMBDA tools, t :
             LET flat == flattenNamespaceToolName(t.namespace, t.name)
             IN IF flat \in DOMAIN tools THEN tools ELSE tools @@ (flat :> t),
           <<>>, Declared)

IsCustom(name) ==
  name \in DOMAIN convertResponsesTools /\ convertResponsesTools[name].kind = "custom"

\* The name under which the client knows the tool the upstream calls.
ItemName(name) ==
  IF name \in DOMAIN convertResponsesTools
  THEN LET t == convertResponsesTools[name]
       IN IF t.kind = "custom" \/ t.namespace # "" THEN t.name ELSE name
  ELSE name

\* The upstream wraps the input of a custom tool into an object.  What is taken out
\* of it, or what stands for it when the arguments are no such object, is not told
\* apart: the mark says that the arguments were converted, and once.
customToolInputFromArguments(args) == <<"input">> \o args

-----------------------------------------------------------------------------
(* What the handler keeps.                                                 *)

TextKinds == {"reasoning", "text"}

NoSlot == [open |-> FALSE, index |-> -1, buf |-> <<>>]

NewState(restore) ==
  [started |-> FALSE, next |-> 0,
   slot    |-> [k \in TextKinds |-> NoSlot],
   held    |-> [k \in TextKinds |-> newIdentityRestorer(restore)],
   tools   |-> <<>>, order |-> <<>>, finish |-> FALSE, out |-> <<>>]

Event(type, index, kind, text, call) ==
  [type |-> type, index |-> index, kind |-> kind, text |-> text, call |-> call]

Began           == <<Event("begin", -1, "", <<>>, NoCall)>>
Ended(type)     == <<Event(type, -1, "", <<>>, NoCall)>>
Opened(i, k, c) == <<Event("open", i, k, <<>>, c)>>
Delta(i, k, t)  == IF t = <<>> THEN <<>> ELSE <<Event("delta", i, k, t, NoCall)>>
Sum(i, k, t)    == <<Event("sum", i, k, t, NoCall)>>
Closed(i, k)    == <<Event("close", i, k, <<>>, NoCall)>>

emit(s, events) == [s EXCEPT !.out = @ \o events]

\* A block or item for a text is opened under the next index.
OpenSlot(s, k) ==
  emit([s EXCEPT !.slot[k] = [open |-> TRUE, index |-> s.next, buf |-> <<>>],
                 !.next    = s.next + 1],
       Opened(s.next, k, NoCall))

Opening(s, k) == IF s.slot[k].open THEN s ELSE OpenSlot(s, k)

\* What a restorer lets out goes on to the client.
SayWritten(s, k, w) ==
  emit([s EXCEPT !.held[k] = w.restorer, !.slot[k].buf = @ \o w.out],
       Delta(s.slot[k].index, k, w.out))

Say(s, k, piece) == SayWritten(s, k, Write(s.held[k], piece))

\* What the restorer keeps back is said before the text is closed.
SayTail(s, k) == SayWritten(s, k, Flush(s.held[k]))

CloseSlot(s, k) == emit([s EXCEPT !.slot[k].open = FALSE], Closed(s.slot[k].index, k))
SumUp(s, k) == emit(s, Sum(s.slot[k].index, k, s.slot[k].buf))

-----------------------------------------------------------------------------
(* Messages: content blocks.  One text at a time is open; calls of tools   *)
(* stay open to the end.                                                   *)

stopText(s) == IF s.slot["text"].open THEN CloseSlot(SayTail(s, "text"), "text") ELSE s

\* The signature covers the thinking as the client has it.
closeThinking(s) ==
  IF ~s.slot["reasoning"].open THEN s
  ELSE CloseSlot(SumUp(SayTail(s, "reasoning"), "reasoning"), "reasoning")

\* feed asks first whether there is a piece, and whether thinking is wanted.
appendThinking(s, piece) ==
  IF piece = <<>> \/ ~request.wanted THEN s
  ELSE Say(Opening(stopText(s), "reasoning"), "reasoning", piece)

appendText(s, piece) ==
  IF piece = <<>> THEN s ELSE Say(Opening(closeThinking(s), "text"), "text", piece)

\* A fragment is merged into the call it belongs to: a later id or name stands,
\* the arguments add up.
Merged(tool, f) ==
  [call  |-> [id   |-> IF f.id # "" THEN f.id ELSE tool.call.id,
              name |-> IF f.name # "" THEN f.name ELSE tool.call.name],
   args  |-> tool.args \o f.args,
   index |-> tool.index]

NewTool(index) == [call |-> NoCall, args |-> <<>>, index |-> index]

\* Mutant: the text is left open when a call begins.
appendToolCallBeside(s, f) ==
  LET known == f.index \in DOMAIN s.tools
      tool  == IF known THEN s.tools[f.index]
               ELSE [call |-> [id |-> f.id, name |-> f.name], args |-> <<>>, index |-> s.next]
  IN emit([s EXCEPT !.tools = Put(@, f.index, [tool EXCEPT !.args = @ \o f.args]),
                    !.order = IF known THEN @ ELSE Append(@, f.index),
                    !.next  = IF known THEN @ ELSE @ + 1],
          (IF known THEN <<>> ELSE Opened(tool.index, "tool", tool.call))
            \o Delta(tool.index, "tool", f.args))

\* A fragment of a call.  The first one opens its block, with the name as it
\* is then.
appendToolCall(s, f) ==
  LET known == f.index \in DOMAIN s.tools
      t     == stopText(closeThinking(s))
      next  == Merged(IF known THEN s.tools[f.index] ELSE NewTool(s.next), f)
  IN emit([t EXCEPT !.tools = Put(@, f.index, next),
                    !.order = IF known THEN @ ELSE Append(@, f.index),
                    !.next  = IF known THEN @ ELSE @ + 1],
          (IF known THEN <<>> ELSE Opened(next.index, "tool", next.call))
            \o Delta(next.index, "tool", f.args))

begin(s) == IF s.started THEN s ELSE emit([s EXCEPT !.started = TRUE], Began)

\* One chunk.
feed(s, chunk) ==
  LET spoken == appendText(appendThinking(begin(s), chunk.reasoning), chunk.text)
  IN [Each(appendToolCall, spoken, chunk.tools) EXCEPT !.finish = @ \/ chunk.finish]

CloseTool(s, i) == emit(s, Closed(s.tools[i].index, "tool"))
CloseTools(s)   == Each(CloseTool, s, s.order)
finishEvents(s) == emit(CloseTools(stopText(closeThinking(s))), Ended("complete"))

\* An item of an answer that is sent as a whole.
WholeItem(kind, text, sum, call) ==
  [kind |-> kind, open |-> FALSE, text |-> text, sum |-> sum, call |-> call]

\* The answer as a whole: what the state holds, in this order.
aggregate(s) ==
  LET Buf(k) == s.slot[k].buf \o (IF s.slot[k] = NoSlot THEN <<>> ELSE Flush(s.held[k]).out)
  IN (IF Buf("reasoning") = <<>> THEN <<>>
      ELSE <<WholeItem("reasoning", Buf("reasoning"), Buf("reasoning"), NoCall)>>)
     \o (IF Buf("text") = <<>> THEN <<>> ELSE <<WholeItem("text", Buf("text"), <<>>, NoCall)>>)
     \o [n \in 1 .. Len(s.order) |->
           WholeItem("tool", s.tools[s.order[n]].args, <<>>, s.tools[s.order[n]].call)]

-----------------------------------------------------------------------------
(* Responses: output items.  There is one for the reasoning, one for the   *)
(* message and one for every call; all stay open to the end.               *)

appendItem(s, k, piece) ==
  IF piece = <<>> THEN s ELSE Say(Opening(s, k), k, piece)

\* The calls are put together first; none has an item yet.
applyToolCallDelta(s, f) ==
  LET known == f.index \in DOMAIN s.tools
  IN [s EXCEPT !.tools = Put(@, f.index, Merged(IF known THEN @[f.index] ELSE NewTool(-1), f)),
               !.order = IF known THEN @ ELSE Append(@, f.index)]

\* A call without an id gets one.
CallItem(call) ==
  [id |-> IF call.id = "" THEN "generated" ELSE call.id, name |-> ItemName(call.name)]

addToolItem(s, i) ==
  emit([s EXCEPT !.tools[i].index = s.next, !.next = s.next + 1],
       Opened(s.next, "tool", CallItem(s.tools[i].call)))

\* The arguments follow when all new calls of the chunk have their item; those
\* of a custom tool wait for the end.
SayArgs(s, f) ==
  IF IsCustom(s.tools[f.index].call.name) THEN s
  ELSE emit(s, Delta(s.tools[f.index].index, "tool", f.args))

respondToolCalls(s, fragments) ==
  LET merged == Each(applyToolCallDelta, s, fragments)
      new    == SubSeq(merged.order, Len(s.order) + 1, Len(merged.order))
  IN Each(SayArgs, Each(addToolItem, merged, new), fragments)

respond(s, chunk) ==
  LET spoken == appendItem(appendItem(s, "reasoning", chunk.reasoning), "text", chunk.text)
  IN [respondToolCalls(spoken, chunk.tools) EXCEPT !.finish = @ \/ chunk.finish]

\* Mutant: an item is closed before its tail is said.
closeItemEarly(s, k) ==
  IF ~s.slot[k].open THEN s
  ELSE CloseSlot(SumUp(s, k), k)

closeItem(s, k) ==
  IF ~s.slot[k].open THEN s ELSE CloseSlot(SumUp(SayTail(s, k), k), k)

closeToolItem(s, i) ==
  LET tool  == s.tools[i]
      input == customToolInputFromArguments(tool.args)
  IN emit(s, (IF IsCustom(tool.call.name)
              THEN Delta(tool.index, "tool", input) \o Sum(tool.index, "tool", input)
              ELSE Sum(tool.index, "tool", tool.args))
             \o Closed(tool.index, "tool"))

\* An answer that says nothing is an empty message.
SaySomething(s) ==
  IF ~s.slot["reasoning"].open /\ ~s.slot["text"].open /\ s.order = <<>>
  THEN OpenSlot(s, "text") ELSE s
completeResponse(s) ==
  LET texts == closeItem(closeItem(SaySomething(s), "reasoning"), "text")
  IN emit(Each(closeToolItem, texts, s.order), Ended("complete"))

\* A client of chat or Responses that does not stream: the chat completion is
\* put together first.
aggregateCompletion(s, chunk) ==
  LET merged == Each(applyToolCallDelta, s, chunk.tools)
  IN [merged EXCEPT !.slot["reasoning"].buf = @ \o chunk.reasoning,
                    !.slot["text"].buf      = @ \o chunk.text,
                    !.finish             = @ \/ chunk.finish]

responsesToolCallItem(tool) ==
  LET text == IF IsCustom(tool.call.name) THEN customToolInputFromArguments(tool.args)
              ELSE tool.args
  IN WholeItem("tool", text, text, CallItem(tool.call))

restoreResponsesIdentity(text) == Restored(request.restore, text)

chatCompletionToResponses(s) ==
  LET Reasoning == restoreResponsesIdentity(s.slot["reasoning"].buf)
      Content   == restoreResponsesIdentity(s.slot["text"].buf)
  IN (IF s.slot["reasoning"].buf = <<>> THEN <<>>
      ELSE <<WholeItem("reasoning", Reasoning, Reasoning, NoCall)>>)
     \o (IF s.slot["text"].buf = <<>> /\ s.order # <<>> THEN <<>>
         ELSE <<WholeItem("text", Content, Content, NoCall)>>)
     \o [n \in 1 .. Len(s.order) |-> responsesToolCallItem(s.tools[s.order[n]])]

\* Chat: one message, whose content is there even if it is empty.
restoreChatCompletionIdentity(text) == Restored(request.restore, text)

chatCompletion(s) ==
  LET Reasoning == restoreChatCompletionIdentity(s.slot["reasoning"].buf)
      Content   == restoreChatCompletionIdentity(s.slot["text"].buf)
      CallOf(i) == [s.tools[i].call EXCEPT !.id = IF @ = "" THEN "generated" ELSE @]
  IN (IF s.slot["reasoning"].buf = <<>> THEN <<>>
      ELSE <<WholeItem("reasoning", Reasoning, <<>>, NoCall)>>)
     \o <<WholeItem("text", Content, <<>>, NoCall)>>
     \o [n \in 1 .. Len(s.order) |->
           WholeItem("tool", s.tools[s.order[n]].args, <<>>, CallOf(s.order[n]))]

-----------------------------------------------------------------------------
(* What the upstream says, for the properties: the reasoning, the text and *)
(* the calls in the order they came, what belongs together in one run.     *)

Run(kind, index, text, call) == [kind |-> kind, index |-> index, text |-> text, call |-> call]

Extend(runs, run) ==
  IF runs # <<>> /\ Last(runs).kind = run.kind /\ Last(runs).index = run.index
  THEN [runs EXCEPT ![Len(runs)].text = @ \o run.text]
  ELSE Append(runs, run)

Heard(chunk) ==
  (IF chunk.reasoning = <<>> \/ ~request.wanted THEN <<>>
   ELSE <<Run("reasoning", -1, chunk.reasoning, NoCall)>>)
  \o (IF chunk.text = <<>> THEN <<>> ELSE <<Run("text", -1, chunk.text, NoCall)>>)
  \o [n \in 1 .. Len(chunk.tools) |->
        LET f == chunk.tools[n]
        IN Run("tool", f.index, f.args, [id |-> f.id, name |-> f.name])]

Length(runs) == FoldLeft(LAMBDA n, run : n + 1 + Len(run.text), 0, runs)

-----------------------------------------------------------------------------
(* The behaviour.                                                          *)

Messages  == request.protocol = "messages"
Responses == request.protocol = "responses"

Init ==
  /\ request \in [protocol : {"messages", "responses", "chat"}, stream : BOOLEAN,
                   wanted : BOOLEAN, restore : BOOLEAN]
  /\ ~Messages => request.wanted
  /\ request.protocol = "chat" => ~request.stream
  /\ upstream = "open"
  /\ h = NewState(request.restore)
  /\ wire = IF Responses /\ request.stream THEN Began ELSE <<>>
  /\ items = [i \in {} |-> i]
  /\ phase = "idle"
  /\ said = <<>>

Reading == upstream = "open" /\ wire = <<>>

\* The handler reads a chunk and writes what it makes of it, and goes on after a
\* finish reason, as long as the upstream does.
ReadChunk(chunk) ==
  LET read == IF Messages THEN feed(h, chunk)
              ELSE IF request.stream THEN respond(h, chunk)
              ELSE aggregateCompletion(h, chunk)
  IN /\ Reading
     /\ Length(FoldLeft(Extend, said, Heard(chunk))) <= MaxLength
     \* The upstream names a call in its first fragment.
     /\ \A n \in 1 .. Len(chunk.tools) :
          chunk.tools[n].name # "" <=> chunk.tools[n].index \notin DOMAIN h.tools
     /\ said' = FoldLeft(Extend, said, Heard(chunk))
     /\ h' = [read EXCEPT !.out = <<>>]
     /\ wire' = IF request.stream THEN read.out ELSE <<>>
     /\ UNCHANGED <<request, upstream, items, phase>>

\* The upstream closes the stream, or reading it fails.
ScanEnds ==
  /\ Reading
  /\ upstream' \in {"eof", "error"}
  /\ UNCHANGED <<request, h, wire, items, phase, said>>

Finishing == upstream # "open" /\ wire = <<>> /\ phase \in {"idle", "begun"}
Finished  == upstream = "eof" /\ h.finish

\* A stream that was cut, or ended without a finish reason, is never given the
\* end of a complete answer.
EndStream(events) ==
  /\ Finishing /\ request.stream
  /\ wire' = IF Finished THEN events ELSE Ended("fail")
  /\ UNCHANGED <<request, upstream, h, items, phase, said>>

streamMessagesResponse  == Messages /\ EndStream(finishEvents(h).out)
streamResponsesResponse == Responses /\ EndStream(completeResponse(h).out)

AnswerWhole(all) ==
  /\ Finishing /\ ~request.stream
  /\ IF Finished
     THEN items' = [i \in 0 .. Len(all) - 1 |-> all[i + 1]] /\ phase' = "complete"
     ELSE phase' = "failed" /\ UNCHANGED items
  /\ UNCHANGED <<request, upstream, h, wire, said>>

writeMessagesAggregate  == Messages /\ AnswerWhole(aggregate(h))
writeResponsesAggregate == Responses /\ AnswerWhole(chatCompletionToResponses(h))
writeChatAggregate      == request.protocol = "chat" /\ AnswerWhole(chatCompletion(h))

\* What a reader makes of an event.  It does not check what fits: an event for
\* an item it does not know makes one.
Grown(item, e) ==
  CASE e.type = "open"  -> [item EXCEPT !.open = TRUE, !.call = e.call]
    [] e.type = "delta" -> [item EXCEPT !.text = @ \o e.text]
    [] e.type = "sum"   -> [item EXCEPT !.sum = e.text]
    [] OTHER            -> [item EXCEPT !.open = FALSE]

ItemsAfter(known, e) ==
  LET item == IF e.index \in DOMAIN known THEN known[e.index]
              ELSE WholeItem(e.kind, <<>>, <<>>, e.call)
  IN IF e.type \in {"begin", "complete", "fail"} THEN known
     ELSE Put(known, e.index, Grown(item, e))

PhaseAfter(p, e) ==
  CASE e.type = "begin"    -> "begun"
    [] e.type = "complete" -> "complete"
    [] e.type = "fail"     -> "failed"
    [] OTHER               -> p

\* The client reads the next event.
ClientReads ==
  /\ wire # <<>>
  /\ wire' = Tail(wire)
  /\ items' = ItemsAfter(items, Head(wire))
  /\ phase' = PhaseAfter(phase, Head(wire))
  /\ UNCHANGED <<request, upstream, h, said>>

Next ==
  \/ \E chunk \in Chunks : ReadChunk(chunk)
  \/ ScanEnds
  \/ streamMessagesResponse
  \/ streamResponsesResponse
  \/ writeMessagesAggregate
  \/ writeResponsesAggregate
  \/ writeChatAggregate
  \/ ClientReads

Spec == Init /\ [][Next]_vars

-----------------------------------------------------------------------------
(* What the answer should be.                                              *)

\* All that was said in runs of one kind and, for a call, one index.
Everything(run) ==
  FlattenSeq([n \in 1 .. Len(said) |->
    IF said[n].kind = run.kind /\ said[n].index = run.index THEN said[n].text ELSE <<>>])

IsFirst(n) ==
  \A m \in 1 .. n - 1 : said[m].kind # said[n].kind \/ said[m].index # said[n].index

\* The runs that have a block or an item: a block for every run of a streamed
\* Messages answer, one item for each kind and call otherwise.
Leading ==
  {n \in 1 .. Len(said) :
     IsFirst(n) \/ (Messages /\ request.stream /\ said[n].kind # "tool")}

Rank(n) == CASE said[n].kind = "reasoning" -> 0
             [] said[n].kind = "text" -> 1
             [] OTHER -> 1 + n

Ordered ==
  SetToSortSeq(Leading, LAMBDA m, n : IF request.stream THEN m < n ELSE Rank(m) < Rank(n))

ItemOf(n) ==
  LET run  == said[n]
      all  == Everything(run)
      text == IF run.kind # "tool"
              THEN Restored(request.restore,
                            IF Messages /\ request.stream THEN run.text ELSE all)
              ELSE IF Responses /\ IsCustom(run.call.name)
              THEN customToolInputFromArguments(all) ELSE all
  IN WholeItem(run.kind, text,
               IF Responses \/ (Messages /\ run.kind = "reasoning") THEN text ELSE <<>>,
               CASE Messages \/ run.kind # "tool" -> run.call
                 [] OTHER -> [id   |-> IF run.call.id = "" THEN "generated" ELSE run.call.id,
                              name |-> IF Responses THEN ItemName(run.call.name)
                                       ELSE run.call.name])

\* A Responses answer that says nothing is an empty message, and a chat answer
\* has one in any case.
Filled(told) ==
  LET Has(k)  == \E m \in DOMAIN told : told[m].kind = k
      empty   == <<WholeItem("text", <<>>, <<>>, NoCall)>>
      lacking == ~Has("text") /\ (\/ request.protocol = "chat"
                                  \/ Responses /\ told = <<>>
                                  \/ Responses /\ ~request.stream /\ ~Has("tool"))
      thought == SelectSeq(told, LAMBDA i : i.kind = "reasoning")
      rest    == SelectSeq(told, LAMBDA i : i.kind # "reasoning")
  IN IF lacking THEN thought \o empty \o rest ELSE told

Answer == Filled([m \in 1 .. Cardinality(Leading) |-> ItemOf(Ordered[m])])
ByIndex(answer) == [i \in 0 .. Len(answer) - 1 |-> answer[i + 1]]

\* The upstream did not come back to its reasoning or to its text.
OneRunEach == \A n \in 1 .. Len(said) : said[n].kind # "tool" => IsFirst(n)

AnswerTold ==
  phase = "complete" =>
    /\ upstream = "eof" /\ h.finish
    /\ items = ByIndex(Answer)

-----------------------------------------------------------------------------
(* Properties.                                                             *)

\* A complete answer is one the upstream has finished, and it holds all that
\* the upstream said: every run restored as if it had come in one piece, the
\* signature or final text of an item equal to what the client has put
\* together, every call under its own name with all its arguments
\* (messages.go:835 finishEvents, responses.go:1040-1130).  Of a Messages
\* answer sent as a whole this is claimed only when the upstream did not come
\* back to its reasoning or text: see AggregateIsWhole.
CompleteIsWhole == (Messages /\ ~request.stream /\ ~OneRunEach) \/ AnswerTold

\* What messages.go:569 and :880 say of aggregate: the whole Message.
AggregateIsWhole == Messages /\ ~request.stream => AnswerTold

PartOf(answer) ==
  \A i \in DOMAIN items :
    /\ i \in DOMAIN answer
    /\ items[i].kind = answer[i].kind
    /\ IsPrefix(items[i].text, answer[i].text)

\* At no time, and not when the answer fails either, does the client hold a
\* letter the upstream has not said or that is yet to be restored
\* (identity_restore.go:338-349).
NothingInvented == request.stream => PartOf(ByIndex(Answer))

\* The client of a streamed answer sees what the protocol promises: consecutive
\* indices, one open text at a time, one item per kind, nothing after a close,
\* and one end (messages.go:630-720, responses.go:808-1140).
Stream == INSTANCE EventStream WITH protocol <- request.protocol
KeepsProtocol == Stream!Spec
=============================================================================
