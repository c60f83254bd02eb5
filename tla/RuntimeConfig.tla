----------------------------- MODULE RuntimeConfig -----------------------------
(* config.json and what is in force of it: the watcher that looks at the file   *)
(* every second, the saves of the console, the operator who edits the file with *)
(* any other program, and the listeners, which a change of ports replaces while *)
(* requests run (runtimeconfig.go, gatewayconfig.go, configedit.go,             *)
(* webpolicy.go, adminoperations.go, servers.go).                               *)
(*                                                                              *)
(* A document is the admin key, the two ports, the debug switch and the rest;   *)
(* what the text looks like is left out, and any text that does not parse is    *)
(* Torn. Everything in the process that reads and writes the file holds         *)
(* runtimeConfigMu from the read to the end: op is the one operation that may   *)
(* be under way. The operator, other processes' ports, faults of the disk and   *)
(* the death of the process come between any two steps.                         *)
EXTENDS Naturals, FiniteSets

CONSTANTS
    Ports,          \* ports a document may name
    DefaultApi,     \* defaultAPIPort
    DefaultWeb,     \* defaultWebPort
    Keys,           \* admin keys
    NoKey,          \* no admin key is set
    Drafts,         \* documents the operator or the editor of the console writes
    WebUI,          \* -webui
    PortFlag,       \* -port, or NoPort
    NoPort,
    Foreign,        \* ports another process may hold
    Absent, Torn,   \* in the place of a document: no file, a text that does not parse
    Nothing,        \* no hash, no page
    MaxEdits,       \* bound: edits by the operator
    MaxSaves,       \* bound: saves begun in the console
    MaxFaults,      \* bound: writes and log files that fail
    MaxCrashes      \* bound: deaths of the process

Rests == {"missing", "default", "custom"}
Documents == [key : Keys \cup {NoKey}, api : Ports, web : Ports,
              debug : BOOLEAN, rest : Rests]
Texts == Documents \cup {Absent, Torn}

ASSUME ConfigAssumption ==
    /\ DefaultApi \in Ports /\ DefaultWeb \in Ports /\ DefaultApi # DefaultWeb
    /\ Drafts \subseteq Documents
    /\ WebUI \in BOOLEAN
    /\ NoPort \notin Ports /\ PortFlag \in Ports \cup {NoPort}
    /\ NoKey \notin Keys
    /\ Foreign \subseteq Ports
    /\ {Absent, Torn, Nothing} \cap Documents = {}
    /\ Absent # Torn /\ Nothing \notin {Absent, Torn}

VARIABLES
    file,       \* config.json
    hash,       \* the text whose hash is runtimeAppliedHash, or NoHash
    gateway,    \* gatewaySettings with the keys: [key, api, web]
    others,     \* every other section in force: [debug, rest]
    sink,       \* debugSink # nil
    port,       \* cfg.Port and cfg.WebPort: [api, web]
    slots,      \* gatewayServers.api and .web, by port: [api, web]
    installed,  \* gatewayServers.installed
    bound,      \* the ports this process listens on
    taken,      \* the ports other processes listen on
    op,         \* the holder of runtimeConfigMu
    page,       \* the revision the editor page has loaded
    life,       \* "down", "ensured", "up", "stopping"
    edits, saves, faults, crashes

inForce == <<gateway, others, sink, port, slots, bound>>
counters == <<edits, saves, faults, crashes>>
vars == <<file, hash, gateway, others, sink, port, slots, installed, bound, taken,
          op, page, life, edits, saves, faults, crashes>>

NoHash == Nothing
NoPage == Nothing
NoOp == [kind |-> "none", pc |-> "idle", old |-> Absent, doc |-> Absent,
         opened |-> {}, before |-> <<>>]
Fault == faults < MaxFaults /\ faults' = faults + 1
-------------------------------------------------------------------------------
(* Documents.                                                                   *)

\* The configuration of "{}", which also stands for a missing file at start-up.
Defaults == [key |-> NoKey, api |-> DefaultApi, web |-> DefaultWeb,
             debug |-> FALSE, rest |-> "missing"]
GatewayOf(d) == [key |-> d.key, api |-> d.api, web |-> d.web]
\* The API port after the command line has had its say.
ApiPort(g) == IF PortFlag # NoPort THEN PortFlag ELSE g.api
WebPort(g) == IF WebUI THEN g.web ELSE NoPort

\* parseRuntimeConfig succeeds.
Parses(text) ==
    /\ text \in Documents
    /\ text.api # text.web
    /\ WebUI => ApiPort(text) # text.web

\* A section that is missing is in force with its defaults.
Effective(d) == [debug |-> d.debug, rest |-> IF d.rest = "missing" THEN "default" ELSE d.rest]
\* What start-up writes for a document: missing sections are filled in.
Completed(text) ==
    IF text = Absent THEN [Defaults EXCEPT !.rest = "default"]
    ELSE IF text = Torn THEN Torn
    ELSE [text EXCEPT !.rest = IF @ = "missing" THEN "default" ELSE @]
-------------------------------------------------------------------------------
(* The process starts and stops.                                                *)

Init ==
    /\ file \in Drafts \cup {Absent}
    /\ hash = NoHash /\ gateway = GatewayOf(Defaults) /\ others = Effective(Defaults)
    /\ sink = FALSE
    /\ port = [api |-> DefaultApi, web |-> DefaultWeb]
    /\ slots = [api |-> NoPort, web |-> NoPort]
    /\ installed = FALSE /\ bound = {} /\ taken = {}
    /\ op = NoOp /\ page = NoPage /\ life = "down"
    /\ edits = 0 /\ saves = 0 /\ faults = 0 /\ crashes = 0

\* Fills the file in by way of a temporary file and a rename, or writes a missing one
\* in place; when that fails the process goes on without, or with a file that may not
\* be on the disk yet (Sync). A death in the middle leaves half of a new file.
ensureRuntimeConfigFile ==
    /\ life = "down"
    /\ \/ /\ life' = "ensured" /\ UNCHANGED crashes
          /\ \/ file' = Completed(file) /\ UNCHANGED faults
             \/ Fault /\ file' \in {file} \cup (IF file = Absent THEN {Completed(file)} ELSE {})
       \/ /\ file = Absent /\ file' = Torn
          /\ crashes < MaxCrashes /\ crashes' = crashes + 1
          /\ UNCHANGED <<life, faults>>
    /\ UNCHANGED <<hash, gateway, others, sink, port, slots, installed, bound, taken,
                   op, page, edits, saves>>

\* "{}" stands for a file that is not there; anything else has to parse.
loadRuntimeConfig(text) ==
    /\ hash' = text
    /\ gateway' = GatewayOf(text) /\ others' = Effective(text) /\ sink' = text.debug
    /\ port' = [api |-> ApiPort(text), web |-> text.web]
\* The ports to bind before anything is started; all of them, or the process ends.
prepareGatewayServers(text) == {ApiPort(text), WebPort(text)} \ {NoPort}
\* Adopts the listeners already bound.
register(text) ==
    /\ slots' = [api |-> ApiPort(text), web |-> WebPort(text)]
    /\ bound' = prepareGatewayServers(text) /\ installed' = TRUE

Boot ==
    /\ life = "ensured"
    /\ LET text == IF file = Absent THEN Defaults ELSE file
       IN  IF Parses(text) /\ prepareGatewayServers(text) \cap taken = {}
           THEN loadRuntimeConfig(text) /\ register(text) /\ life' = "up"
           ELSE life' = "down" /\ UNCHANGED <<hash, installed, inForce>>
    /\ UNCHANGED <<file, taken, op, page, counters>>

\* gatewayServers.shutdown: it needs m.mu, which an operation holds while it
\* changes listeners. The process still serves what is under way.
HoldsServers == op.pc \in {"bindWeb", "prepare", "commit"}
shutdown ==
    /\ life = "up" /\ ~HoldsServers
    /\ life' = "stopping" /\ installed' = FALSE
    /\ slots' = [api |-> NoPort, web |-> NoPort] /\ bound' = bound \ {slots.api, slots.web}
    /\ UNCHANGED <<file, hash, gateway, others, sink, port, taken, op, page, counters>>

\* The process is gone, at its end or in the middle of anything.
Gone ==
    /\ life' = "down" /\ hash' = NoHash /\ op' = NoOp
    /\ gateway' = GatewayOf(Defaults) /\ others' = Effective(Defaults) /\ sink' = FALSE
    /\ port' = [api |-> DefaultApi, web |-> DefaultWeb]
    /\ slots' = [api |-> NoPort, web |-> NoPort] /\ installed' = FALSE /\ bound' = {}
    /\ UNCHANGED <<file, taken, page, edits, saves, faults>>
Exit == life = "stopping" /\ Gone /\ UNCHANGED crashes
Crash ==
    /\ life \in {"up", "stopping"} /\ crashes < MaxCrashes /\ crashes' = crashes + 1
    /\ Gone
-------------------------------------------------------------------------------
(* What the rest of the machine does.                                           *)

\* The operator saves, half saves or deletes the file. Not within the two system
\* calls with which the process overwrites it in place.
Edit ==
    /\ edits < MaxEdits /\ edits' = edits + 1
    /\ op.pc # "writing"
    /\ file' \in (Drafts \cup {Torn, Absent}) \ {file}
    /\ UNCHANGED <<hash, inForce, installed, taken, op, page, life, saves, faults, crashes>>

\* Another process takes a port, or all of them give theirs back.
Others ==
    /\ taken' \in {taken \cup {p} : p \in Foreign \ (taken \cup bound)}
                  \cup (IF taken # {} THEN {{}} ELSE {})
    /\ UNCHANGED <<file, hash, inForce, installed, op, page, life, counters>>
-------------------------------------------------------------------------------
(* Operations begin: they take runtimeConfigMu, read the file and decide.       *)

Running == life \in {"up", "stopping"}
Begin(kind, doc) ==
    op' = [kind |-> kind, pc |-> IF kind = "watch" THEN "apply" ELSE "write", old |-> file,
           doc |-> doc, opened |-> {}, before |-> inForce]
Free == Running /\ op.pc = "idle"

\* runtimeConfigWatcher.reload: nothing to do for a text already in force, and
\* nothing is changed by a file that is missing or does not parse.
reload ==
    /\ Free
    /\ Parses(file) /\ hash # file
    /\ Begin("watch", file)
    /\ UNCHANGED <<file, hash, inForce, installed, taken, page, life, counters>>

\* A save of the console: asked for by an administrator, on a file that can be read.
SaveBegins == Free /\ saves < MaxSaves /\ saves' = saves + 1
Saves(kind, doc) ==
    /\ Begin(kind, doc)
    /\ UNCHANGED <<file, hash, inForce, installed, taken, page, life, edits, faults, crashes>>

\* The key in the file is still the one in force: nobody has changed it outside.
KeyIsCurrent == gateway.key # NoKey /\ Parses(file) /\ file.key = gateway.key

\* saveGatewaySettings: new ports (or a new API key) in the document on disk.
saveGatewaySettings ==
    /\ SaveBegins /\ KeyIsCurrent
    /\ \E a, w \in Ports :
        LET doc == [file EXCEPT !.api = a, !.web = w]
        IN  Parses(doc) /\ Saves("gateway", doc)

\* initializeAdminKey: only where neither the process nor the file has a key. A
\* missing file counts as one without sections.
initializeAdminKey ==
    /\ SaveBegins /\ gateway.key = NoKey
    /\ file = Absent \/ Parses(file)
    /\ LET old == IF file = Absent THEN Defaults ELSE file
       IN  old.key = NoKey /\ \E k \in Keys : Saves("setup", [old EXCEPT !.key = k])

\* savePolicyToggle and saveLogRetention: one setting outside the gateway section.
savePolicyToggle ==
    /\ SaveBegins /\ KeyIsCurrent
    /\ \E r \in Rests \ {"missing"} : Saves("policy", [file EXCEPT !.rest = r])

\* The editor page loads the text with its revision.
handleWebUIConfigLoad ==
    /\ Free /\ gateway.key # NoKey
    /\ file # Absent
    /\ Parses(file) => file.key = gateway.key
    /\ page' = file
    /\ UNCHANGED <<file, hash, inForce, installed, taken, op, life, counters>>

\* It saves any document in place of the one it has loaded; whether the file is
\* still that one is looked at here and again, after the validation, in recheck.
handleWebUIConfigEdit ==
    /\ SaveBegins /\ gateway.key # NoKey
    /\ page # NoPage /\ file = page
    /\ Parses(file) => file.key = gateway.key
    /\ \E doc \in Drafts :
        /\ Parses(doc)
        /\ op' = [kind |-> "editor", pc |-> "recheck", old |-> file, doc |-> doc,
                  opened |-> {}, before |-> inForce]
    /\ UNCHANGED <<file, hash, inForce, installed, taken, page, life, edits, faults, crashes>>
recheck ==
    /\ op.pc = "recheck"
    /\ op' = IF file = op.old THEN [op EXCEPT !.pc = "write"] ELSE NoOp
    /\ UNCHANGED <<file, hash, inForce, installed, taken, page, life, counters>>
-------------------------------------------------------------------------------
(* writeConfigPreservingFile: over the old text, in place.                      *)

\* The file cannot be opened, or its first bytes are overwritten.
BeginWrite ==
    /\ op.pc = "write"
    /\ \/ Fault /\ op' = NoOp /\ UNCHANGED file
       \/ file' = Torn /\ op' = [op EXCEPT !.pc = "writing"] /\ UNCHANGED faults
    /\ UNCHANGED <<hash, inForce, installed, taken, page, life, edits, saves, crashes>>

\* The new text is complete; or the write fails, if only when it is synced, and the old
\* text is written back, if there was one and that does not fail as well.
EndWrite ==
    /\ op.pc = "writing"
    /\ \/ file' = op.doc /\ op' = [op EXCEPT !.pc = "apply"] /\ UNCHANGED faults
       \/ Fault /\ op' = NoOp /\ file' \in {Torn, op.doc} \cup ({op.old} \ {Absent})
    /\ UNCHANGED <<hash, inForce, installed, taken, page, life, edits, saves, crashes>>

\* The caller puts the old text back after the new one could not be applied. A
\* file that was missing comes back empty; a write that fails ends, in its turn,
\* with the new text, or half of one.
Restore ==
    /\ op.pc = "restore"
    /\ \/ file' = (IF op.old = Absent THEN Torn ELSE op.old) /\ UNCHANGED faults
       \/ Fault /\ file' \in {file, op.doc, Torn}
    /\ op' = NoOp
    /\ UNCHANGED <<hash, inForce, installed, taken, page, life, edits, saves, crashes>>
-------------------------------------------------------------------------------
(* applyRuntimeConfig and, for the gateway section alone,                       *)
(* persistGatewayConfigLocked: first what can fail, under gatewayServers.mu.    *)

\* Only the gateway section is applied.
GatewayOnly == op.kind \in {"gateway", "setup"}
Wanted == [api |-> ApiPort(op.doc), web |-> WebPort(op.doc)]
Changes(role) == installed /\ Wanted[role] # slots[role]

\* Nothing has been changed: listeners opened for it are closed again.
Fails == op' = IF op.kind = "watch" THEN NoOp ELSE [op EXCEPT !.pc = "restore", !.opened = {}]

\* One live port asked for in the place of the other cannot be bound first.
Swaps == \/ Wanted.api = slots.web
         \/ Wanted.web # NoPort /\ Wanted.web = slots.api
\* Mutant: the listener opened for the other role is forgotten.
BindsLeaky(role, next) ==
    IF ~Changes(role) THEN op' = [op EXCEPT !.pc = next] /\ UNCHANGED bound
    ELSE IF Wanted[role] \in taken THEN Fails /\ UNCHANGED bound
    ELSE /\ bound' = bound \cup {Wanted[role]}
         /\ op' = [op EXCEPT !.pc = next, !.opened = @ \cup {Wanted[role]}]
Binds(role, next) ==
    IF ~Changes(role) THEN op' = [op EXCEPT !.pc = next] /\ UNCHANGED bound
    ELSE IF Wanted[role] \in taken THEN Fails /\ bound' = bound \ op.opened
    ELSE /\ bound' = bound \cup {Wanted[role]}
         /\ op' = [op EXCEPT !.pc = next, !.opened = @ \cup {Wanted[role]}]

applyWith ==
    /\ op.pc = "apply"
    /\ IF (Changes("api") \/ Changes("web")) /\ Swaps THEN Fails /\ UNCHANGED bound
       ELSE Binds("api", "bindWeb")
    /\ UNCHANGED <<file, hash, gateway, others, sink, port, slots, installed, taken, page,
                   life, counters>>

BindWeb ==
    /\ op.pc = "bindWeb"
    /\ Binds("web", "prepare")
    /\ UNCHANGED <<file, hash, gateway, others, sink, port, slots, installed, taken, page,
                   life, counters>>

\* beforeCommit, switchDebugLogging: opening today's log may fail.
switchDebugLogging ==
    /\ op.pc = "prepare"
    /\ \/ /\ op' = [op EXCEPT !.pc = "commit"]
          /\ sink' = IF GatewayOnly THEN sink ELSE op.doc.debug
          /\ UNCHANGED <<bound, faults>>
       \/ /\ ~GatewayOnly /\ op.doc.debug /\ ~sink
          /\ Fault /\ Fails /\ bound' = bound \ op.opened
          /\ UNCHANGED sink
    /\ UNCHANGED <<file, hash, gateway, others, port, slots, installed, taken, page, life,
                   edits, saves, crashes>>

\* New listeners take over, old ones are closed; their connections live on.
SwapListeners ==
    /\ slots' = IF installed THEN Wanted ELSE slots
    /\ bound' = IF installed THEN bound \ ({slots.api, slots.web} \ {Wanted.api, Wanted.web})
                ELSE bound
    /\ port' = IF installed THEN [api |-> Wanted.api,
                                  web |-> IF WebUI THEN Wanted.web ELSE port.web]
               ELSE port

\* The gateway section is in force. With that alone in force no hash is known.
\* Mutant: the old hash is kept.
CommitUnmarked ==
    /\ op.pc = "commit" /\ SwapListeners
    /\ gateway' = GatewayOf(op.doc)
    /\ op' = IF GatewayOnly THEN NoOp ELSE [op EXCEPT !.pc = "publish", !.opened = {}]
    /\ UNCHANGED <<file, hash, others, sink, installed, taken, page, life, counters>>
Commit ==
    /\ op.pc = "commit" /\ SwapListeners
    /\ gateway' = GatewayOf(op.doc)
    /\ IF GatewayOnly THEN op' = NoOp /\ hash' = NoHash
                      ELSE /\ op' = [op EXCEPT !.pc = "publish", !.opened = {}]
                           /\ UNCHANGED hash
    /\ UNCHANGED <<file, others, sink, installed, taken, page, life, counters>>

\* Every other section, one after the other; requests begun now see them.
\* Mutant: only the watcher notes what it has applied.
applyRuntimeConfigUnnoted ==
    /\ op.pc = "publish"
    /\ others' = Effective(op.doc)
    /\ hash' = IF op.kind = "watch" THEN op.doc ELSE hash
    /\ op' = NoOp
    /\ UNCHANGED <<file, gateway, sink, port, slots, installed, bound, taken, page, life,
                   counters>>
applyRuntimeConfig ==
    /\ op.pc = "publish"
    /\ others' = Effective(op.doc)
    /\ hash' = op.doc
    /\ op' = NoOp
    /\ UNCHANGED <<file, gateway, sink, port, slots, installed, bound, taken, page, life,
                   counters>>
-------------------------------------------------------------------------------
Console == \/ saveGatewaySettings \/ initializeAdminKey \/ savePolicyToggle
           \/ handleWebUIConfigLoad \/ handleWebUIConfigEdit
Operation == \/ recheck \/ BeginWrite \/ EndWrite \/ Restore
             \/ applyWith \/ BindWeb \/ switchDebugLogging \/ Commit \/ applyRuntimeConfig
Next ==
    \/ ensureRuntimeConfigFile \/ Boot \/ shutdown \/ Exit \/ Crash
    \/ Edit \/ Others
    \/ reload \/ Console \/ Operation

Spec == Init /\ [][Next]_vars

\* The goroutine that holds the lock goes on, and the watcher looks every second
\* (runtimeConfigLoop). Nobody has to edit, save, start or stop anything.
FairSpec == Spec /\ WF_vars(Operation) /\ WF_vars(reload)
-------------------------------------------------------------------------------
(* Properties.                                                                  *)

TypeOK ==
    /\ file \in Texts /\ hash \in Documents \cup {NoHash}
    /\ gateway \in [key : Keys \cup {NoKey}, api : Ports, web : Ports]
    /\ others \in [debug : BOOLEAN, rest : Rests \ {"missing"}] /\ sink \in BOOLEAN
    /\ port \in [api : Ports, web : Ports]
    /\ slots \in [api : Ports \cup {NoPort}, web : Ports \cup {NoPort}]
    /\ installed \in BOOLEAN /\ bound \subseteq Ports /\ taken \subseteq Foreign
    /\ bound \cap taken = {}
    /\ page \in Texts \cup {NoPage} /\ life \in {"down", "ensured", "up", "stopping"}
    /\ op.pc \in {"idle", "recheck", "write", "writing", "apply", "bindWeb", "prepare",
                  "commit", "publish", "restore"}
    /\ op.opened \subseteq bound

\* What is in force is what this text says.
InForce(text) ==
    /\ text \in Documents
    /\ gateway = GatewayOf(text) /\ others = Effective(text) /\ sink = text.debug
    /\ installed => port.api = ApiPort(text) /\ (WebUI => port.web = text.web)

\* The hash the watcher skips by belongs to the configuration in force, all of it:
\* otherwise a change could go unnoticed for good (runtimeconfig.go:30).
HashTellsTruth == op.pc = "idle" /\ hash # NoHash => InForce(hash)

\* Outside a change of listeners the process listens on its slots and nothing
\* else, and the ports it reports are those (servers.go:183, gatewayconfig.go:191).
NoPortLeaked ==
    Running /\ ~HoldsServers =>
        /\ bound = {slots.api, slots.web} \ {NoPort}
        /\ installed => port.api = slots.api /\ (WebUI => port.web = slots.web)

\* From the start to the shutdown there is a listener in every role, also while
\* ports are changed and when that fails half way (servers.go:216).
NeverDeaf ==
    life = "up" => /\ slots.api \in bound
                   /\ WebUI => slots.web \in bound

\* The configuration and its listeners agree: types, the hash, the ports.
Coherent == TypeOK /\ HashTellsTruth /\ NoPortLeaked /\ NeverDeaf

\* An update that is refused, by a port or by the log file, has changed nothing:
\* not the listeners, not the keys, not the debug switch (user-guide.md:487).
RejectedChangesNothing ==
    [][/\ op.pc \in {"apply", "bindWeb", "prepare"} /\ op'.pc \in {"idle", "restore"}
       /\ life = "up" /\ life' = "up"
       => inForce' = op.before]_vars

\* The file parses and its ports can be had.
Bindable ==
    /\ Parses(file)
    /\ {ApiPort(file), WebPort(file)} \cap taken = {}
    /\ ApiPort(file) # slots.web /\ WebPort(file) # slots.api

\* A file that can be applied and is left alone is in force at last, whoever has
\* written it and whatever had failed before (user-guide.md:474, 486).
FileGetsInForce ==
    <>[](life = "up" /\ Bindable) => []<>(life = "up" => InForce(file))
-------------------------------------------------------------------------------
(* A promise the code does not keep; README, section 5.                         *)

\* A save that fails puts the old file back (user-guide.md:487), also where there
\* was none.
RestoreBringsBackTheFile ==
    [][op.pc = "restore" /\ faults' = faults /\ op'.pc = "idle" /\ life' # "down"
       => file' = op.old]_vars
===============================================================================
