------------------------- MODULE RuntimeConfigProofs -------------------------
(***************************************************************************)
(* For every set of ports, keys and documents, and whatever the operator,  *)
(* other processes, the disk and a crash do between two steps: what is in  *)
(* force is what one text said, the process listens on its slots and       *)
(* nothing else, and an update that is refused has changed nothing.        *)
(*                                                                         *)
(* Between the steps of an operation these are not true as they stand.     *)
(* The invariant says what holds instead: how far the operation has come   *)
(* (OpOK), which listeners it has opened and not installed (PortsOK), what *)
(* of the document is in force already (HashOK), and that what was in      *)
(* force when it began still is, until it commits (BeforeOK).              *)
(***************************************************************************)
EXTENDS RuntimeConfig, TLAPS

\* An operation has these fields, whatever they hold.
Shaped(o) == o = [kind |-> o.kind, pc |-> o.pc, old |-> o.old, doc |-> o.doc,
                  opened |-> o.opened, before |-> o.before]

\* It works on a document with two ports, while the process runs.
OpOK ==
    /\ Shaped(op) /\ op.old \in Texts
    /\ op.pc # "idle" => Running /\ op.doc \in Documents /\ op.doc.api # op.doc.web
    /\ ~HoldsServers => op.opened = {}

\* There are listeners from the start to the shutdown, one in every role; a port
\* of the command line is never changed.
LifeOK ==
    /\ installed <=> life = "up"
    /\ ~installed => slots = [api |-> NoPort, web |-> NoPort] /\ op.opened = {}
    /\ installed => /\ slots.api \in Ports /\ slots.api # slots.web
                    /\ PortFlag # NoPort => slots.api = PortFlag
                    /\ slots.web \in IF WebUI THEN Ports ELSE {NoPort}
                    /\ port.api = slots.api /\ (WebUI => port.web = slots.web)

\* The process listens on its slots and what the operation has opened: the new
\* ports of the roles it has come to, and never one that is in use already.
PortsOK ==
    /\ Running => bound = ({slots.api, slots.web} \ {NoPort}) \cup op.opened
    /\ op.opened \cap {slots.api, slots.web} = {}
    /\ installed /\ HoldsServers =>
        /\ op.opened \subseteq {Wanted.api, Wanted.web}
        /\ Wanted.api \in bound
        /\ op.pc # "bindWeb" => Wanted.web \in bound \cup {NoPort}
        /\ Changes("api") \/ Changes("web") => ~Swaps

\* The known hash is that of what is in force; a document being committed is in
\* force section by section.
HashOK ==
    /\ hash # NoHash /\ op.pc \notin {"commit", "publish"} => InForce(hash)
    /\ op.pc \in {"commit", "publish"} /\ ~GatewayOnly => sink = op.doc.debug
    /\ op.pc = "publish" =>
        /\ ~GatewayOnly /\ gateway = GatewayOf(op.doc)
        /\ installed => port.api = ApiPort(op.doc) /\ (WebUI => port.web = op.doc.web)

\* Until it commits an operation has changed nothing but what it has opened.
BeforeOK ==
    op.pc \in {"recheck", "write", "writing", "apply", "bindWeb", "prepare"} /\ life = "up"
        => op.before = <<gateway, others, sink, port, slots, bound \ op.opened>>

IInv == TypeOK /\ OpOK /\ LifeOK /\ PortsOK /\ HashOK /\ BeforeOK

-----------------------------------------------------------------------------
(* Documents and operations. *)

\* The sections of a document, and what start-up makes of one.
LEMMA DocumentParts ==
    ASSUME NEW d \in Documents
    PROVE  /\ GatewayOf(d) \in [key : Keys \cup {NoKey}, api : Ports, web : Ports]
           /\ Effective(d) \in [debug : BOOLEAN, rest : Rests \ {"missing"}]
           /\ d.debug \in BOOLEAN /\ d.api \in Ports /\ d.web \in Ports
           /\ ApiPort(d) \in Ports /\ WebPort(d) \in IF WebUI THEN Ports ELSE {NoPort}
           /\ d \in Texts /\ d # NoHash
           /\ ApiPort(GatewayOf(d)) = ApiPort(d) /\ WebPort(GatewayOf(d)) = WebPort(d)
BY ConfigAssumption DEF Documents, GatewayOf, Effective, ApiPort, WebPort, Texts, NoHash, Rests

\* The defaults are a document, and two ports may be changed in one.
LEMMA DocumentsMade ==
    /\ Defaults \in Documents
    /\ \A d \in Documents :
        /\ \A a, w \in Ports : [d EXCEPT !.api = a, !.web = w] \in Documents
        /\ \A k \in Keys : [d EXCEPT !.key = k] \in Documents
        /\ \A r \in Rests : [d EXCEPT !.rest = r] \in Documents
<1>1. Defaults \in Documents
  BY ConfigAssumption DEF Defaults, Documents, Rests
<1>2. ASSUME NEW d \in Documents
      PROVE  /\ \A a, w \in Ports : [d EXCEPT !.api = a, !.web = w] \in Documents
             /\ \A k \in Keys : [d EXCEPT !.key = k] \in Documents
             /\ \A r \in Rests : [d EXCEPT !.rest = r] \in Documents
  BY DEF Documents
<1>3. QED
  BY <1>1, <1>2

\* The operation goes on to pc, having opened these listeners.
OpGoes(pc, opened) ==
    /\ Shaped(op') /\ op'.pc = pc /\ op'.opened = opened
    /\ op'.kind = op.kind /\ op'.old = op.old /\ op'.doc = op.doc /\ op'.before = op.before

\* It is over.
OpOver == /\ Shaped(op') /\ op'.pc = "idle" /\ op'.opened = {}
          /\ op'.doc = Absent /\ op'.old = Absent

\* How an operation is updated.
LEMMA OpUpdates ==
    ASSUME Shaped(op), NEW x, NEW y
    PROVE  /\ op' = [op EXCEPT !.pc = x] => OpGoes(x, op.opened)
           /\ op' = [op EXCEPT !.pc = x, !.opened = y] => OpGoes(x, y)
           /\ op' = NoOp => OpOver
<1>1. ASSUME op' = [op EXCEPT !.pc = x] PROVE OpGoes(x, op.opened)
  BY <1>1 DEF Shaped, OpGoes
<1>2. ASSUME op' = [op EXCEPT !.pc = x, !.opened = y] PROVE OpGoes(x, y)
  BY <1>2 DEF Shaped, OpGoes
<1>3. op' = NoOp => OpOver
  BY DEF NoOp, OpOver, Shaped
<1>4. QED
  BY <1>1, <1>2, <1>3

\* A failure ends the operation, or sends it to put the old text back.
LEMMA FailsEffect ==
    ASSUME Shaped(op), Fails
    PROVE  OpOver \/ OpGoes("restore", {})
BY OpUpdates DEF Fails

\* A role keeps its port, cannot have the new one, or has it besides.
LEMMA BindsEffect ==
    ASSUME Shaped(op), NEW role, NEW next, Binds(role, next)
    PROVE  \/ ~Changes(role) /\ OpGoes(next, op.opened) /\ bound' = bound
           \/ (OpOver \/ OpGoes("restore", {})) /\ bound' = bound \ op.opened
           \/ /\ Changes(role) /\ Wanted[role] \notin taken
              /\ OpGoes(next, op.opened \cup {Wanted[role]})
              /\ bound' = bound \cup {Wanted[role]}
<1>1. CASE ~Changes(role)
  BY <1>1, OpUpdates DEF Binds
<1>2. CASE Changes(role) /\ Wanted[role] \in taken
  BY <1>2, FailsEffect DEF Binds
<1>3. CASE Changes(role) /\ Wanted[role] \notin taken
  <2>1. op' = [op EXCEPT !.pc = next, !.opened = op.opened \cup {Wanted[role]}]
    BY <1>3 DEF Binds, Shaped
  <2>2. QED
    BY <1>3, <2>1, OpUpdates DEF Binds
<1>4. QED
  BY <1>1, <1>2, <1>3

\* An operation begins: with a document of two ports, from what is in force.
TwoPorts(doc) == doc \in Documents /\ doc.api # doc.web
Begins ==
    /\ op.pc = "idle" /\ Running /\ Shaped(op')
    /\ op'.pc \in {"recheck", "write", "apply"} /\ op'.opened = {} /\ op'.before = inForce
    /\ op'.old = file /\ TwoPorts(op'.doc)
    /\ UNCHANGED <<file, hash, inForce, installed, taken, page, life>>

LEMMA ParsesTwoPorts == \A text : Parses(text) => TwoPorts(text)
BY DEF Parses, TwoPorts

LEMMA OpBegins ==
    ASSUME reload \/ saveGatewaySettings \/ initializeAdminKey \/ savePolicyToggle
           \/ handleWebUIConfigEdit
    PROVE  Begins
<1>1. ASSUME NEW kind, NEW doc, TwoPorts(doc), Free, Begin(kind, doc),
             UNCHANGED <<file, hash, inForce, installed, taken, page, life>>
      PROVE  Begins
  BY <1>1 DEF Begin, Begins, Shaped, Free
<1>3. CASE reload
  BY <1>1, <1>3, ParsesTwoPorts DEF reload
<1>4. CASE saveGatewaySettings
  <2>1. PICK a \in Ports, w \in Ports :
          /\ Parses([file EXCEPT !.api = a, !.web = w])
          /\ Saves("gateway", [file EXCEPT !.api = a, !.web = w])
    BY <1>4 DEF saveGatewaySettings
  <2>2. QED
    BY <1>1, <1>4, <2>1, ParsesTwoPorts DEF saveGatewaySettings, SaveBegins, Saves
<1>5. CASE initializeAdminKey
  <2> DEFINE old == IF file = Absent THEN Defaults ELSE file
  <2>1. TwoPorts(Defaults)
    BY DocumentsMade, ConfigAssumption DEF TwoPorts, Defaults
  <2>2. TwoPorts(old)
    BY <1>5, <2>1, ParsesTwoPorts DEF initializeAdminKey
  <2>3. PICK k \in Keys : Saves("setup", [old EXCEPT !.key = k])
    BY <1>5 DEF initializeAdminKey
  <2> HIDE DEF old
  <2>4. [old EXCEPT !.key = k] \in Documents
    BY <2>2, DocumentsMade DEF TwoPorts
  <2>5. [old EXCEPT !.key = k].api = old.api /\ [old EXCEPT !.key = k].web = old.web
    BY <2>2 DEF TwoPorts, Documents
  <2>6. TwoPorts([old EXCEPT !.key = k])
    BY <2>2, <2>4, <2>5 DEF TwoPorts
  <2>7. QED
    BY <1>1, <1>5, <2>3, <2>6 DEF initializeAdminKey, SaveBegins, Saves
<1>6. CASE savePolicyToggle
  <2>1. PICK r \in Rests : Saves("policy", [file EXCEPT !.rest = r])
    BY <1>6 DEF savePolicyToggle
  <2>2. TwoPorts(file)
    BY <1>6, ParsesTwoPorts DEF savePolicyToggle, KeyIsCurrent
  <2>3. [file EXCEPT !.rest = r] \in Documents
    BY <2>2, DocumentsMade DEF TwoPorts
  <2>4. [file EXCEPT !.rest = r].api = file.api /\ [file EXCEPT !.rest = r].web = file.web
    BY <2>2 DEF TwoPorts, Documents
  <2>5. TwoPorts([file EXCEPT !.rest = r])
    BY <2>2, <2>3, <2>4 DEF TwoPorts
  <2>6. QED
    BY <1>1, <1>6, <2>1, <2>5 DEF savePolicyToggle, SaveBegins, Saves
<1>7. CASE handleWebUIConfigEdit
  <2>1. PICK doc \in Drafts :
          /\ Parses(doc)
          /\ op' = [kind |-> "editor", pc |-> "recheck", old |-> file, doc |-> doc,
                    opened |-> {}, before |-> inForce]
    BY <1>7 DEF handleWebUIConfigEdit
  <2>2. QED
    BY <1>7, <2>1, ParsesTwoPorts
       DEF handleWebUIConfigEdit, SaveBegins, Free, Begins, Shaped
<1>8. QED
  BY <1>3, <1>4, <1>5, <1>6, <1>7

-----------------------------------------------------------------------------
(* The invariant: the start, and what other programs do. *)

LEMMA InitIInv == Init => IInv
<1> SUFFICES ASSUME Init PROVE IInv
  OBVIOUS
<1>1. GatewayOf(Defaults) \in [key : Keys \cup {NoKey}, api : Ports, web : Ports]
      /\ Effective(Defaults) \in [debug : BOOLEAN, rest : Rests \ {"missing"}]
  BY DocumentsMade, DocumentParts
<1>2. TypeOK
  BY <1>1, ConfigAssumption DEF Init, TypeOK, Texts, NoOp, NoHash, NoPage
<1>3. OpOK /\ LifeOK /\ PortsOK /\ HashOK /\ BeforeOK
  BY DEF Init, OpOK, Shaped, NoOp, Texts, HoldsServers, LifeOK, PortsOK, Running, HashOK,
         BeforeOK, NoHash
<1>4. QED
  BY <1>2, <1>3 DEF IInv

\* What is in force, and what is under way, stays.
Kept == UNCHANGED <<hash, inForce, installed, op>>

LEMMA KeptStep ==
    ASSUME IInv, Kept, TypeOK', life' = life \/ (life = "down" /\ life' = "ensured")
    PROVE  IInv'
<1>1. OpOK' /\ LifeOK'
  BY DEF IInv, Kept, inForce, OpOK, LifeOK, Shaped, HoldsServers, Running
<1>2. PortsOK'
  BY DEF IInv, Kept, inForce, PortsOK, HoldsServers, Running, Wanted, Changes, Swaps
<1>3. HashOK' /\ BeforeOK'
  BY DEF IInv, Kept, inForce, HashOK, BeforeOK, InForce, GatewayOnly
<1>4. QED
  BY <1>1, <1>2, <1>3 DEF IInv

\* A completed document is a document.
LEMMA CompletedText == \A text \in Texts : Completed(text) \in Texts
<1> SUFFICES ASSUME NEW text \in Texts PROVE Completed(text) \in Texts
  OBVIOUS
<1>1. CASE text = Absent
  BY <1>1, DocumentsMade DEF Completed, Texts, Rests
<1>2. CASE text = Torn
  BY <1>2, ConfigAssumption DEF Completed, Texts
<1>3. CASE text \in Documents
  <2>1. Completed(text) = [text EXCEPT !.rest = IF text.rest = "missing" THEN "default"
                                                ELSE text.rest]
    BY <1>3, ConfigAssumption DEF Completed, Documents
  <2>2. (IF text.rest = "missing" THEN "default" ELSE text.rest) \in Rests
    BY <1>3 DEF Documents, Rests
  <2>3. QED
    BY <1>3, <2>1, <2>2, DocumentsMade DEF Texts
<1>4. QED
  BY <1>1, <1>2, <1>3 DEF Texts

LEMMA OutsideStep ==
    ASSUME IInv, ensureRuntimeConfigFile \/ Edit \/ Others \/ handleWebUIConfigLoad
                 \/ UNCHANGED vars
    PROVE  IInv'
<1>1. CASE ensureRuntimeConfigFile
  <2>1. TypeOK'
    <3>1. file' \in Texts
      BY <1>1, CompletedText DEF ensureRuntimeConfigFile, Texts, TypeOK, IInv
    <3>2. life' \in {"down", "ensured"}
      BY <1>1 DEF ensureRuntimeConfigFile
    <3>3. QED
      BY <1>1, <3>1, <3>2 DEF ensureRuntimeConfigFile, TypeOK, inForce, IInv
  <2>2. QED
    BY <1>1, <2>1, KeptStep DEF ensureRuntimeConfigFile, Kept, inForce
<1>2. CASE Edit
  <2>1. TypeOK'
    BY <1>2, ConfigAssumption DEF Edit, TypeOK, inForce, Texts, IInv
  <2>2. QED
    BY <1>2, <2>1, KeptStep DEF Edit, Kept
<1>3. CASE Others
  <2>1. TypeOK'
    BY <1>3 DEF Others, TypeOK, inForce, counters, IInv
  <2>2. QED
    BY <1>3, <2>1, KeptStep DEF Others, Kept
<1>4. CASE handleWebUIConfigLoad
  <2>1. TypeOK'
    BY <1>4 DEF handleWebUIConfigLoad, TypeOK, inForce, counters, IInv
  <2>2. QED
    BY <1>4, <2>1, KeptStep DEF handleWebUIConfigLoad, Kept
<1>5. CASE UNCHANGED vars
  <2>1. TypeOK'
    BY <1>5 DEF vars, TypeOK, IInv
  <2>2. Kept /\ life' = life
    BY <1>5 DEF vars, Kept, inForce
  <2>3. QED
    BY <2>1, <2>2, KeptStep
<1>6. QED
  BY <1>1, <1>2, <1>3, <1>4, <1>5

-----------------------------------------------------------------------------
(* The process starts and stops. *)

LEMMA BootStep == ASSUME IInv, Boot PROVE IInv'
<1> DEFINE text == IF file = Absent THEN Defaults ELSE file
<1> USE DEF IInv
<1>1. CASE Parses(text) /\ prepareGatewayServers(text) \cap taken = {}
  <2>1. /\ loadRuntimeConfig(text) /\ register(text) /\ life' = "up"
        /\ UNCHANGED <<file, taken, op, page, counters>>
    BY <1>1 DEF Boot
  <2>2. text \in Documents /\ (WebUI => ApiPort(text) # text.web) /\ text.api # text.web
    BY <1>1 DEF Parses
  <2> HIDE DEF text
  <2>3. /\ ApiPort(text) \in Ports /\ WebPort(text) \in IF WebUI THEN Ports ELSE {NoPort}
        /\ ApiPort(text) # WebPort(text) /\ (WebUI => WebPort(text) = text.web)
        /\ NoPort \notin Ports
        /\ PortFlag # NoPort => ApiPort(text) = PortFlag
    BY <2>2, DocumentParts, ConfigAssumption DEF WebPort, ApiPort
  <2>4. op.pc = "idle" /\ op.opened = {}
    <3>1. ~Running /\ ~installed
      BY DEF Boot, Running, LifeOK
    <3>2. QED
      BY <3>1 DEF OpOK, TypeOK, LifeOK
  <2>5. TypeOK'
    <3>1. GatewayOf(text) \in [key : Keys \cup {NoKey}, api : Ports, web : Ports]
          /\ Effective(text) \in [debug : BOOLEAN, rest : Rests \ {"missing"}]
          /\ text.debug \in BOOLEAN /\ text.web \in Ports
      BY <2>2, DocumentParts
    <3>2. bound' \subseteq Ports /\ bound' \cap taken' = {} /\ taken' = taken
      BY <1>1, <2>1, <2>3 DEF register, prepareGatewayServers
    <3>3. QED
      BY <2>1, <2>2, <2>3, <2>4, <3>1, <3>2
         DEF TypeOK, loadRuntimeConfig, register
  <2>6. OpOK' /\ LifeOK'
    BY <2>1, <2>3, <2>4 DEF OpOK, Shaped, HoldsServers, LifeOK, loadRuntimeConfig, register
  <2>7. PortsOK'
    BY <2>1, <2>3, <2>4 DEF PortsOK, HoldsServers, register, prepareGatewayServers, Running
  <2>8. HashOK' /\ BeforeOK'
    BY <2>1, <2>2, <2>4 DEF HashOK, InForce, BeforeOK, loadRuntimeConfig
  <2>9. QED
    BY <2>5, <2>6, <2>7, <2>8
<1>2. CASE ~(Parses(text) /\ prepareGatewayServers(text) \cap taken = {})
  <2>1. UNCHANGED <<file, taken, op, page, counters, hash, installed, inForce>>
        /\ life' = "down" /\ life = "ensured"
    BY <1>2 DEF Boot
  <2>2. op.pc = "idle" /\ op.opened = {} /\ ~installed
    BY <2>1 DEF OpOK, LifeOK, TypeOK, Running
  <2>3. TypeOK'
    BY <2>1 DEF TypeOK, inForce
  <2>4. OpOK' /\ LifeOK' /\ PortsOK' /\ BeforeOK'
    BY <2>1, <2>2 DEF OpOK, LifeOK, PortsOK, BeforeOK, Shaped, HoldsServers, inForce, Running
  <2>5. HashOK'
    BY <2>1, <2>2 DEF HashOK, InForce, inForce
  <2>6. QED
    BY <2>3, <2>4, <2>5
<1>3. QED
  BY <1>1, <1>2

LEMMA shutdownStep == ASSUME IInv, shutdown PROVE IInv'
<1> USE DEF IInv
<1>1. op.opened = {} /\ bound = {slots.api, slots.web} \ {NoPort}
  BY DEF shutdown, OpOK, PortsOK, Running
<1>2. TypeOK'
  BY ConfigAssumption, <1>1 DEF shutdown, TypeOK, counters
<1>3. OpOK' /\ LifeOK' /\ BeforeOK'
  BY <1>1 DEF shutdown, OpOK, LifeOK, BeforeOK, Shaped, HoldsServers, Running
<1>4. PortsOK'
  <2>1. bound' = {} /\ slots' = [api |-> NoPort, web |-> NoPort] /\ op' = op /\ ~installed'
    BY <1>1 DEF shutdown
  <2>2. QED
    BY <1>1, <2>1 DEF PortsOK
<1>5. HashOK'
  BY DEF shutdown, HashOK, InForce, GatewayOnly
<1>6. QED
  BY <1>2, <1>3, <1>4, <1>5

LEMMA GoneStep == ASSUME IInv, Gone PROVE IInv'
<1>1. GatewayOf(Defaults) \in [key : Keys \cup {NoKey}, api : Ports, web : Ports]
      /\ Effective(Defaults) \in [debug : BOOLEAN, rest : Rests \ {"missing"}]
  BY DocumentsMade, DocumentParts
<1>2. TypeOK'
  BY <1>1, ConfigAssumption DEF IInv, Gone, TypeOK, NoOp, NoHash
<1>3. OpOK' /\ LifeOK' /\ PortsOK' /\ HashOK' /\ BeforeOK'
  BY DEF Gone, OpOK, Shaped, NoOp, Texts, HoldsServers, LifeOK, PortsOK, Running, HashOK,
         BeforeOK, NoHash
<1>4. QED
  BY <1>2, <1>3 DEF IInv

-----------------------------------------------------------------------------
(* An operation begins, and writes the file. *)

LEMMA BeginStep == ASSUME IInv, Begins PROVE IInv'
<1> USE DEF Begins
<1>1. op.opened = {} /\ ~HoldsServers'
  BY DEF IInv, OpOK, HoldsServers
<1>2. TypeOK'
  BY DEF IInv, TypeOK, inForce
<1>3. OpOK' /\ LifeOK'
  BY <1>1 DEF IInv, OpOK, LifeOK, Running, inForce, TwoPorts, TypeOK
<1>4. PortsOK'
  BY <1>1 DEF IInv, PortsOK, Running, inForce
<1>5. HashOK' /\ BeforeOK'
  BY <1>1 DEF IInv, HashOK, BeforeOK, InForce, inForce
<1>6. QED
  BY <1>2, <1>3, <1>4, <1>5 DEF IInv

\* The file is written, or put back, and nothing else is done.
FileStep ==
    /\ UNCHANGED <<hash, inForce, installed, taken, page, life>>
    /\ file' \in Texts
    /\ \/ op.pc = "restore" /\ OpOver
       \/ /\ op.pc \in {"recheck", "write", "writing"}
          /\ OpOver \/ (\E pc \in {"write", "writing", "apply"} : OpGoes(pc, op.opened))

LEMMA FileStepKeeps == ASSUME IInv, FileStep PROVE IInv'
<1>1. op.opened = {} /\ ~HoldsServers' /\ op'.opened = {}
  BY DEF IInv, OpOK, HoldsServers, FileStep, OpOver, OpGoes
<1>2. TypeOK'
  BY <1>1 DEF IInv, TypeOK, inForce, FileStep, OpOver, OpGoes
<1>3. OpOK' /\ LifeOK'
  BY <1>1 DEF IInv, OpOK, LifeOK, Running, inForce, FileStep, OpOver, OpGoes, Texts
<1>4. PortsOK'
  BY <1>1 DEF IInv, PortsOK, Running, inForce, FileStep
<1>5. HashOK'
  BY DEF IInv, HashOK, InForce, inForce, FileStep, OpOver, OpGoes
<1>6. BeforeOK'
  BY <1>1 DEF IInv, BeforeOK, inForce, FileStep, OpOver, OpGoes
<1>7. QED
  BY <1>2, <1>3, <1>4, <1>5, <1>6 DEF IInv

LEMMA FileSteps == ASSUME IInv, recheck \/ BeginWrite \/ EndWrite \/ Restore PROVE FileStep
<1>1. Shaped(op) /\ op.old \in Texts /\ file \in Texts
  BY DEF IInv, OpOK, TypeOK
<1>2. CASE recheck
  BY <1>1, <1>2, OpUpdates DEF recheck, FileStep
<1>3. CASE BeginWrite
  BY <1>1, <1>3, OpUpdates DEF BeginWrite, FileStep, Texts
<1>4. CASE EndWrite
  <2>1. op.doc \in Texts
    BY <1>4 DEF EndWrite, IInv, OpOK, Texts
  <2>2. QED
    BY <1>1, <1>4, <2>1, OpUpdates DEF EndWrite, FileStep, Texts
<1>5. CASE Restore
  <2>1. op.doc \in Texts
    BY <1>5 DEF Restore, IInv, OpOK, Texts
  <2>2. QED
    BY <1>1, <1>5, <2>1, OpUpdates DEF Restore, FileStep, Texts
<1>6. QED
  BY <1>2, <1>3, <1>4, <1>5

-----------------------------------------------------------------------------
(* An operation is refused. *)

\* The listeners it has opened are closed; nothing else has been changed.
Refused ==
    /\ op.pc \in {"apply", "bindWeb", "prepare"}
    /\ OpOver \/ OpGoes("restore", {})
    /\ bound' = bound \ op.opened
    /\ UNCHANGED <<file, hash, gateway, others, sink, port, slots, installed, taken, page, life>>

LEMMA RefusedStep == ASSUME IInv, Refused PROVE IInv'
<1>1. ~HoldsServers' /\ op'.opened = {}
  BY DEF HoldsServers, Refused, OpOver, OpGoes
<1>2. TypeOK'
  BY <1>1 DEF IInv, TypeOK, Refused, OpOver, OpGoes
<1>3. OpOK' /\ LifeOK'
  BY <1>1 DEF IInv, OpOK, LifeOK, Running, Refused, OpOver, OpGoes, Texts
<1>4. PortsOK'
  BY <1>1 DEF IInv, PortsOK, Running, Refused
<1>5. HashOK' /\ BeforeOK'
  BY DEF IInv, HashOK, BeforeOK, InForce, Refused, OpOver, OpGoes
<1>6. QED
  BY <1>2, <1>3, <1>4, <1>5 DEF IInv

-----------------------------------------------------------------------------
(* An operation applies its document. *)

\* The ports it wants are two, or one without the web server; the operation may
\* go on as long as no live port is to change its role.
LEMMA WantedPorts ==
    ASSUME IInv, op.pc # "idle"
    PROVE  /\ Wanted.api \in Ports /\ Wanted.web \in IF WebUI THEN Ports ELSE {NoPort}
           /\ Wanted.api = ApiPort(op.doc) /\ (WebUI => Wanted.web = op.doc.web)
           /\ PortFlag # NoPort => Wanted.api = PortFlag
           /\ NoPort \notin Ports
           /\ installed => /\ Changes("web") => WebUI
                           /\ (Changes("api") \/ Changes("web") => ~Swaps)
                                  => Wanted.api # Wanted.web
<1>1. op.doc \in Documents /\ op.doc.api # op.doc.web
  BY DEF IInv, OpOK
<1>2. /\ ApiPort(op.doc) \in Ports /\ WebPort(op.doc) \in IF WebUI THEN Ports ELSE {NoPort}
      /\ WebUI => WebPort(op.doc) = op.doc.web
      /\ PortFlag # NoPort => ApiPort(op.doc) = PortFlag
      /\ PortFlag = NoPort => ApiPort(op.doc) = op.doc.api
      /\ NoPort \notin Ports
  BY <1>1, DocumentParts, ConfigAssumption DEF WebPort, ApiPort
<1>3. Wanted.api = ApiPort(op.doc) /\ Wanted.web = WebPort(op.doc)
  BY DEF Wanted
<1>4. ASSUME installed
      PROVE  /\ Changes("web") => WebUI
             /\ (Changes("api") \/ Changes("web") => ~Swaps) => Wanted.api # Wanted.web
  <2>1. /\ slots.api # slots.web /\ slots.web \in IF WebUI THEN Ports ELSE {NoPort}
        /\ PortFlag # NoPort => slots.api = PortFlag
    BY <1>4 DEF IInv, LifeOK
  <2>2. Wanted["api"] = Wanted.api /\ Wanted["web"] = Wanted.web
        /\ slots["api"] = slots.api /\ slots["web"] = slots.web
    OBVIOUS
  <2>3. QED
    BY <1>1, <1>2, <1>3, <1>4, <2>1, <2>2 DEF Changes, Swaps
<1>5. QED
  BY <1>2, <1>3, <1>4

\* It goes on to pc with these listeners opened and bound, and has not committed.
GoesOn(pc, opened) ==
    /\ op.pc \in {"apply", "bindWeb", "prepare"} /\ OpGoes(pc, opened)
    /\ pc \in {"bindWeb", "prepare", "commit"}
    /\ UNCHANGED <<file, hash, gateway, others, port, slots, installed, taken, page, life>>

\* What the operation is about stays.
LEMMA SameOperation ==
    ASSUME NEW pc, NEW opened, OpGoes(pc, opened), UNCHANGED <<slots, installed>>
    PROVE  /\ Wanted' = Wanted /\ GatewayOnly' = GatewayOnly /\ Swaps' = Swaps
           /\ \A role : Changes(role)' = Changes(role)
BY DEF OpGoes, Wanted, GatewayOnly, Swaps, Changes

LEMMA GoesOnKeeps ==
    ASSUME IInv, NEW pc, NEW opened, GoesOn(pc, opened),
           sink' \in BOOLEAN, pc # "commit" => sink' = sink,
           pc = "commit" /\ ~GatewayOnly => sink' = op.doc.debug,
           opened \subseteq bound', bound' \subseteq Ports, bound' \cap taken = {},
           PortsOK', bound' \ opened = bound \ op.opened,
           ~installed => opened = {}
    PROVE  IInv'
<1>1. TypeOK'
  BY DEF IInv, TypeOK, GoesOn, OpGoes
<1>2. OpOK' /\ LifeOK'
  BY DEF IInv, OpOK, LifeOK, Running, GoesOn, OpGoes, HoldsServers
<1>3. GatewayOnly' = GatewayOnly
  BY SameOperation DEF GoesOn
<1>4. HashOK'
  BY <1>3 DEF IInv, HashOK, InForce, GoesOn, OpGoes
<1>5. BeforeOK'
  BY DEF IInv, BeforeOK, GoesOn, OpGoes
<1>6. QED
  BY <1>1, <1>2, <1>4, <1>5 DEF IInv

LEMMA applyWithStep == ASSUME IInv, applyWith PROVE IInv'
<1> USE DEF applyWith
<1>1. Shaped(op) /\ op.opened = {} /\ op.doc \in Documents /\ Running
  BY DEF IInv, OpOK, HoldsServers
<1>2. CASE (Changes("api") \/ Changes("web")) /\ Swaps
  <2>1. Refused
    BY <1>1, <1>2, FailsEffect DEF Refused
  <2>2. QED
    BY <2>1, RefusedStep
<1>3. CASE ~((Changes("api") \/ Changes("web")) /\ Swaps)
  <2>1. Binds("api", "bindWeb")
    BY <1>3
  <2>2. CASE (OpOver \/ OpGoes("restore", {})) /\ bound' = bound \ op.opened
    <3>1. Refused
      BY <2>2 DEF Refused
    <3>2. QED
      BY <3>1, RefusedStep
  <2>3. bound = {slots.api, slots.web} \ {NoPort}
    BY <1>1 DEF IInv, PortsOK
  <2>4. CASE ~Changes("api") /\ OpGoes("bindWeb", op.opened) /\ bound' = bound
    <3>1. GoesOn("bindWeb", {})
      BY <1>1, <2>4 DEF GoesOn
    <3>2. installed => Wanted.api = slots.api /\ slots.api \in Ports /\ NoPort \notin Ports
      BY <2>4, WantedPorts DEF IInv, LifeOK, Changes
    <3>3. PortsOK'
      BY <1>1, <1>3, <2>3, <2>4, <3>1, <3>2, SameOperation
         DEF PortsOK, GoesOn, OpGoes, HoldsServers
    <3>4. QED
      BY <1>1, <2>4, <3>1, <3>3, GoesOnKeeps DEF IInv, TypeOK
  <2>5. CASE /\ Changes("api") /\ Wanted["api"] \notin taken
             /\ OpGoes("bindWeb", op.opened \cup {Wanted["api"]})
             /\ bound' = bound \cup {Wanted["api"]}
    <3>1. GoesOn("bindWeb", {Wanted.api})
      BY <1>1, <2>5 DEF GoesOn
    <3>2. installed /\ Wanted.api \in Ports /\ Wanted.api # slots.api /\ Wanted.api # slots.web
      BY <1>3, <2>5, WantedPorts DEF Changes, Swaps
    <3>3. Wanted.api \notin bound
      BY <2>3, <3>2
    <3>4. PortsOK'
      BY <1>1, <1>3, <2>3, <2>5, <3>1, <3>2, SameOperation
         DEF PortsOK, GoesOn, OpGoes, HoldsServers
    <3>5. QED
      BY <1>1, <2>5, <3>1, <3>2, <3>3, <3>4, GoesOnKeeps DEF IInv, TypeOK
  <2>6. QED
    BY <1>1, <2>1, <2>2, <2>4, <2>5, BindsEffect
<1>4. QED
  BY <1>2, <1>3

LEMMA BindWebStep == ASSUME IInv, BindWeb PROVE IInv'
<1> USE DEF BindWeb
<1>1. /\ Shaped(op) /\ op.doc \in Documents /\ Running /\ HoldsServers
      /\ ~installed => op.opened = {}
  BY DEF IInv, OpOK, HoldsServers, LifeOK
<1>2. CASE (OpOver \/ OpGoes("restore", {})) /\ bound' = bound \ op.opened
  <2>1. Refused
    BY <1>2 DEF Refused
  <2>2. QED
    BY <2>1, RefusedStep
<1>3. /\ bound = ({slots.api, slots.web} \ {NoPort}) \cup op.opened
      /\ op.opened \cap {slots.api, slots.web} = {}
      /\ installed => /\ op.opened \subseteq {Wanted.api, Wanted.web} /\ Wanted.api \in bound
                      /\ Changes("api") \/ Changes("web") => ~Swaps
  BY <1>1 DEF IInv, PortsOK
<1>4. CASE ~Changes("web") /\ OpGoes("prepare", op.opened) /\ bound' = bound
  <2>1. GoesOn("prepare", op.opened)
    BY <1>4 DEF GoesOn
  <2>2. installed => Wanted.web = slots.web /\ Wanted.web \in Ports \cup {NoPort}
    BY <1>4, WantedPorts DEF IInv, LifeOK, Changes
  <2>3. PortsOK'
    BY <1>1, <1>3, <1>4, <2>1, <2>2, SameOperation
       DEF PortsOK, GoesOn, OpGoes, HoldsServers
  <2>4. QED
    BY <1>1, <1>4, <2>1, <2>3, GoesOnKeeps DEF IInv, TypeOK
<1>5. CASE /\ Changes("web") /\ Wanted["web"] \notin taken
           /\ OpGoes("prepare", op.opened \cup {Wanted["web"]})
           /\ bound' = bound \cup {Wanted["web"]}
  <2>1. GoesOn("prepare", op.opened \cup {Wanted.web})
    BY <1>5 DEF GoesOn
  <2>2. installed /\ Wanted.web \in Ports /\ Wanted.web # slots.api /\ Wanted.web # slots.web
    BY <1>3, <1>5, WantedPorts DEF Changes, Swaps
  <2>3. bound' \ (op.opened \cup {Wanted.web}) = bound \ op.opened
    BY <1>3, <1>5, <2>2
  <2>4. PortsOK'
    BY <1>1, <1>3, <1>5, <2>1, <2>2, SameOperation
       DEF PortsOK, GoesOn, OpGoes, HoldsServers
  <2>5. QED
    BY <1>1, <1>5, <2>1, <2>2, <2>3, <2>4, GoesOnKeeps DEF IInv, TypeOK
<1>6. QED
  BY <1>1, <1>2, <1>4, <1>5, BindsEffect

LEMMA switchDebugLoggingStep == ASSUME IInv, switchDebugLogging PROVE IInv'
<1>1. /\ Shaped(op) /\ op.doc \in Documents /\ Running /\ HoldsServers /\ op.pc = "prepare"
      /\ ~installed => op.opened = {}
  BY DEF IInv, OpOK, HoldsServers, LifeOK, switchDebugLogging
<1>2. CASE Fails /\ bound' = bound \ op.opened /\ UNCHANGED sink
  <2>1. Refused
    BY <1>1, <1>2, FailsEffect DEF Refused, switchDebugLogging
  <2>2. QED
    BY <2>1, RefusedStep
<1>3. CASE /\ op' = [op EXCEPT !.pc = "commit"]
           /\ sink' = IF GatewayOnly THEN sink ELSE op.doc.debug
           /\ UNCHANGED bound
  <2>1. GoesOn("commit", op.opened)
    BY <1>1, <1>3, OpUpdates DEF GoesOn, switchDebugLogging
  <2>2. PortsOK'
    BY <1>1, <1>3, <2>1, SameOperation DEF IInv, PortsOK, GoesOn, OpGoes, HoldsServers
  <2>3. sink' \in BOOLEAN
    BY <1>1, <1>3, DocumentParts DEF IInv, TypeOK
  <2>4. QED
    BY <1>1, <1>3, <2>1, <2>2, <2>3, GoesOnKeeps DEF IInv, TypeOK
<1>4. QED
  BY <1>2, <1>3 DEF switchDebugLogging

LEMMA CommitStep == ASSUME IInv, Commit PROVE IInv'
<1>1. /\ Shaped(op) /\ op.doc \in Documents /\ Running /\ HoldsServers /\ op.pc = "commit"
      /\ ~installed => op.opened = {}
      /\ op.doc.api # op.doc.web /\ op.old \in Texts
  BY DEF IInv, OpOK, HoldsServers, LifeOK, Commit
<1>2. \/ OpOver /\ GatewayOnly /\ hash' = NoHash
      \/ OpGoes("publish", {}) /\ ~GatewayOnly /\ hash' = hash
  BY <1>1, OpUpdates DEF Commit
<1>3. op'.opened = {} /\ ~HoldsServers' /\ Shaped(op') /\ op'.pc \in {"idle", "publish"}
  BY <1>2 DEF OpOver, OpGoes, HoldsServers
<1>4. UNCHANGED <<file, others, sink, installed, taken, page, life>>
      /\ gateway' = GatewayOf(op.doc) /\ SwapListeners
  BY DEF Commit
<1>5. GatewayOf(op.doc) \in [key : Keys \cup {NoKey}, api : Ports, web : Ports]
  BY <1>1, DocumentParts
<1>6. CASE ~installed
  <2>1. slots' = slots /\ bound' = bound /\ port' = port
    BY <1>4, <1>6 DEF SwapListeners
  <2>2. TypeOK'
    BY <1>2, <1>3, <1>4, <1>5, <2>1 DEF IInv, TypeOK
  <2>3. OpOK' /\ LifeOK' /\ PortsOK' /\ BeforeOK'
    BY <1>1, <1>2, <1>3, <1>4, <1>6, <2>1
       DEF IInv, OpOK, LifeOK, PortsOK, BeforeOK, Running, OpOver, OpGoes, Texts
  <2>4. HashOK'
    BY <1>1, <1>2, <1>3, <1>4, <1>6
       DEF IInv, HashOK, InForce, OpOver, OpGoes, GatewayOnly
  <2>5. QED
    BY <2>2, <2>3, <2>4 DEF IInv
<1>7. CASE installed
  <2>1. /\ slots' = Wanted
        /\ bound' = bound \ ({slots.api, slots.web} \ {Wanted.api, Wanted.web})
        /\ port' = [api |-> Wanted.api, web |-> IF WebUI THEN Wanted.web ELSE port.web]
    BY <1>4, <1>7 DEF SwapListeners
  <2>2. /\ bound = ({slots.api, slots.web} \ {NoPort}) \cup op.opened
        /\ op.opened \subseteq {Wanted.api, Wanted.web}
        /\ Wanted.api \in bound /\ Wanted.web \in bound \cup {NoPort}
        /\ Changes("api") \/ Changes("web") => ~Swaps
    BY <1>1, <1>7 DEF IInv, PortsOK
  <2>3. /\ Wanted.api \in Ports /\ Wanted.web \in IF WebUI THEN Ports ELSE {NoPort}
        /\ Wanted.api = ApiPort(op.doc) /\ (WebUI => Wanted.web = op.doc.web)
        /\ PortFlag # NoPort => Wanted.api = PortFlag
        /\ NoPort \notin Ports /\ Wanted.api # Wanted.web
        /\ Wanted = [api |-> Wanted.api, web |-> Wanted.web]
    BY <1>1, <1>7, <2>2, WantedPorts DEF Wanted
  <2>4. bound \subseteq Ports /\ port \in [api : Ports, web : Ports]
    BY DEF IInv, TypeOK
  <2>5. bound' = {slots'.api, slots'.web} \ {NoPort}
    BY <2>1, <2>2, <2>3, <2>4
  <2>6. TypeOK'
    <3>1. slots' \in [api : Ports \cup {NoPort}, web : Ports \cup {NoPort}]
          /\ port' \in [api : Ports, web : Ports]
      BY <2>1, <2>3, <2>4
    <3>2. bound' \subseteq bound
      BY <2>1
    <3>3. QED
      BY <1>2, <1>3, <1>4, <1>5, <3>1, <3>2 DEF IInv, TypeOK
  <2>7. OpOK' /\ PortsOK' /\ BeforeOK'
    BY <1>1, <1>2, <1>3, <1>4, <2>5
       DEF IInv, OpOK, PortsOK, BeforeOK, Running, OpOver, OpGoes, Texts
  <2>8. LifeOK'
    BY <1>4, <1>7, <2>1, <2>3 DEF IInv, LifeOK
  <2>9. HashOK'
    BY <1>1, <1>2, <1>3, <1>4, <1>7, <2>1, <2>3
       DEF IInv, HashOK, OpOver, OpGoes, GatewayOnly
  <2>10. QED
    BY <2>6, <2>7, <2>8, <2>9 DEF IInv
<1>8. QED
  BY <1>6, <1>7

LEMMA applyRuntimeConfigStep == ASSUME IInv, applyRuntimeConfig PROVE IInv'
<1>1. Shaped(op) /\ op.pc = "publish" /\ op.doc \in Documents /\ op.opened = {}
  BY DEF IInv, OpOK, HoldsServers, applyRuntimeConfig
<1>2. OpOver
  BY <1>1, OpUpdates DEF applyRuntimeConfig
<1>3. /\ others' = Effective(op.doc) /\ hash' = op.doc
      /\ UNCHANGED <<file, gateway, sink, port, slots, installed, bound, taken, page, life>>
  BY DEF applyRuntimeConfig
<1>4. TypeOK'
  BY <1>1, <1>2, <1>3, DocumentParts DEF IInv, TypeOK, OpOver
<1>5. OpOK' /\ LifeOK' /\ PortsOK' /\ BeforeOK'
  BY <1>1, <1>2, <1>3 DEF IInv, OpOK, LifeOK, PortsOK, BeforeOK, Running, HoldsServers, OpOver,
                          Texts
<1>6. HashOK'
  BY <1>1, <1>2, <1>3 DEF IInv, HashOK, InForce, OpOver
<1>7. QED
  BY <1>4, <1>5, <1>6 DEF IInv

-----------------------------------------------------------------------------
(* The theorems. *)

LEMMA StepIInv == IInv /\ [Next]_vars => IInv'
<1> SUFFICES ASSUME IInv, [Next]_vars PROVE IInv'
  OBVIOUS
<1>1. CASE Boot \/ shutdown \/ Exit \/ Crash
  BY <1>1, BootStep, shutdownStep, GoneStep DEF Exit, Crash
<1>2. CASE ensureRuntimeConfigFile \/ Edit \/ Others \/ handleWebUIConfigLoad \/ UNCHANGED vars
  BY <1>2, OutsideStep
<1>3. CASE reload \/ saveGatewaySettings \/ initializeAdminKey \/ savePolicyToggle
           \/ handleWebUIConfigEdit
  BY <1>3, OpBegins, BeginStep
<1>4. CASE recheck \/ BeginWrite \/ EndWrite \/ Restore
  BY <1>4, FileSteps, FileStepKeeps
<1>5. CASE applyWith \/ BindWeb \/ switchDebugLogging \/ Commit \/ applyRuntimeConfig
  BY <1>5, applyWithStep, BindWebStep, switchDebugLoggingStep, CommitStep,
     applyRuntimeConfigStep
<1>6. QED
  BY <1>1, <1>2, <1>3, <1>4, <1>5 DEF Next, Console, Operation

\* The parts of the invariant, together, through every step.
THEOREM Invariance == Spec => []IInv
BY InitIInv, StepIInv, PTL DEF Spec

\* The settings, their hash and the listeners agree, for any set of ports, keys
\* and documents, with or without the web server and a port of the command line.
THEOREM AlwaysCoherent == Spec => []Coherent
<1>1. IInv => Coherent
  <2> SUFFICES ASSUME IInv PROVE Coherent
    OBVIOUS
  <2>1. TypeOK /\ HashTellsTruth
    BY DEF IInv, HashOK, HashTellsTruth
  <2>2. NoPortLeaked
    BY DEF IInv, PortsOK, OpOK, LifeOK, NoPortLeaked
  <2>3. NeverDeaf
    BY ConfigAssumption DEF IInv, PortsOK, LifeOK, NeverDeaf, Running
  <2>4. QED
    BY <2>1, <2>2, <2>3 DEF Coherent
<1>2. QED
  BY Invariance, <1>1, PTL

\* A step of the application is refused or goes on.
LEMMA RefusedOrGoesOn ==
    ASSUME IInv, applyWith \/ BindWeb \/ switchDebugLogging
    PROVE  Refused \/ op'.pc \in {"bindWeb", "prepare", "commit"}
<1>1. Shaped(op)
  BY DEF IInv, OpOK
<1>2. CASE applyWith
  <2>1. op.opened = {}
    BY <1>2 DEF IInv, OpOK, HoldsServers, applyWith
  <2>2. CASE Fails /\ UNCHANGED bound
    BY <1>1, <1>2, <2>1, <2>2, FailsEffect DEF applyWith, Refused
  <2>3. CASE Binds("api", "bindWeb")
    BY <1>1, <1>2, <2>3, BindsEffect DEF applyWith, Refused, OpGoes
  <2>4. QED
    BY <1>2, <2>2, <2>3 DEF applyWith
<1>3. CASE BindWeb
  BY <1>1, <1>3, BindsEffect DEF BindWeb, Refused, OpGoes
<1>4. CASE switchDebugLogging
  BY <1>1, <1>4, FailsEffect, OpUpdates DEF switchDebugLogging, Refused, OpGoes
<1>5. QED
  BY <1>2, <1>3, <1>4

\* A refused update leaves every setting, key and listener as the operation found
\* it when it took the lock, whichever of its three places refuses it.
THEOREM RefusalIsHarmless == Spec => RejectedChangesNothing
<1> DEFINE Rejected == /\ op.pc \in {"apply", "bindWeb", "prepare"}
                       /\ op'.pc \in {"idle", "restore"} /\ life = "up" /\ life' = "up"
<1>1. ASSUME IInv, [Next]_vars, Rejected PROVE inForce' = op.before
  <2>1. CASE Boot \/ shutdown \/ Exit \/ Crash
    BY <1>1, <2>1 DEF Boot, shutdown, Exit, Crash, Gone
  <2>2. CASE ensureRuntimeConfigFile \/ Edit \/ Others \/ handleWebUIConfigLoad
             \/ UNCHANGED vars
    BY <1>1, <2>2 DEF ensureRuntimeConfigFile, Edit, Others, handleWebUIConfigLoad, vars
  <2>3. CASE reload \/ saveGatewaySettings \/ initializeAdminKey \/ savePolicyToggle
             \/ handleWebUIConfigEdit
    BY <1>1, <2>3, OpBegins DEF Begins
  <2>4. CASE recheck \/ BeginWrite \/ EndWrite \/ Restore \/ Commit \/ applyRuntimeConfig
    BY <1>1, <2>4 DEF recheck, BeginWrite, EndWrite, Restore, Commit, applyRuntimeConfig
  <2>5. CASE applyWith \/ BindWeb \/ switchDebugLogging
    <3>1. Refused
      BY <1>1, <2>5, RefusedOrGoesOn
    <3>2. inForce' = <<gateway, others, sink, port, slots, bound \ op.opened>>
      BY <3>1 DEF Refused, inForce
    <3>3. QED
      BY <1>1, <3>2 DEF IInv, BeforeOK
  <2>6. QED
    BY <1>1, <2>1, <2>2, <2>3, <2>4, <2>5 DEF Next, Console, Operation
<1>2. IInv /\ [Next]_vars => [Rejected => inForce' = op.before]_vars
  BY <1>1
<1>3. QED
  BY Invariance, <1>2, PTL DEF Spec, RejectedChangesNothing
============================================================================
