---------------------------- MODULE EventStream ----------------------------
(***************************************************************************)
(* What the Messages and the Responses protocol promise the reader of a    *)
(* streamed answer: the answer begins, items are opened one after the      *)
(* other under consecutive indices, only an open item grows, an item is    *)
(* closed once and then stays as it is, and the answer ends once: complete *)
(* when every item is closed, or failed, as it stands.                     *)
(***************************************************************************)
EXTENDS Integers, Sequences, FiniteSets

VARIABLES protocol,     \* "messages", "responses" or "chat"
          items,        \* what the reader has, by index
          phase         \* "idle", "begun", "complete" or "failed"

vars == <<protocol, items, phase>>

Init ==
  /\ protocol \in {"messages", "responses", "chat"}
  /\ items = [i \in {} |-> i]
  /\ phase = "idle"

\* A text of a Messages answer is written to the end before anything else
\* begins; a Responses answer has one item for its reasoning and one for its
\* message.
MayOpen(kind) ==
  \A i \in DOMAIN items :
    CASE protocol = "messages"  -> items[i].kind # "tool" => ~items[i].open
      [] protocol = "responses" -> kind # "tool" => items[i].kind # kind

Begin == phase = "idle" /\ phase' = "begun" /\ UNCHANGED <<protocol, items>>

Open(item) ==
  /\ phase = "begun" /\ protocol # "chat"
  /\ item.open /\ item.text = <<>> /\ item.sum = <<>>
  /\ MayOpen(item.kind)
  /\ items' = [i \in 0 .. Cardinality(DOMAIN items) |->
                 IF i \in DOMAIN items THEN items[i] ELSE item]
  /\ UNCHANGED <<protocol, phase>>

\* The item keeps its kind and its name, and what it said is not taken back.
Grow(i, item) ==
  /\ phase = "begun"
  /\ items[i].open
  /\ item.kind = items[i].kind /\ item.call = items[i].call
  /\ Len(item.text) >= Len(items[i].text)
  /\ SubSeq(item.text, 1, Len(items[i].text)) = items[i].text
  /\ items' = [items EXCEPT ![i] = item]
  /\ UNCHANGED <<protocol, phase>>

Complete ==
  /\ phase = "begun"
  /\ \A i \in DOMAIN items : ~items[i].open
  /\ phase' = "complete"
  /\ UNCHANGED <<protocol, items>>

\* An answer that is sent as a whole.
Whole(all) ==
  /\ phase = "idle"
  /\ \A i \in DOMAIN all : ~all[i].open
  /\ items' = all
  /\ phase' = "complete"
  /\ UNCHANGED protocol

Fail == phase \in {"idle", "begun"} /\ phase' = "failed" /\ UNCHANGED <<protocol, items>>

Next ==
  \/ Begin
  \/ \E i \in DOMAIN items' : Open(items'[i])
  \/ \E i \in DOMAIN items : i \in DOMAIN items' /\ Grow(i, items'[i])
  \/ Complete
  \/ Whole(items')
  \/ Fail

Spec == Init /\ [][Next]_vars
=============================================================================
