------------------------------ MODULE SavedState ------------------------------
(***************************************************************************)
(* The settings that are kept in memory and in a JSON file under DataDir:  *)
(* addon sources, alias mappings and the Stremio key.  Each is changed by  *)
(* requests, which write the file themselves, and is read again by a       *)
(* restart.  The three follow different protocols:                         *)
(*   sources   change, serialise and write with sourcesMu held;            *)
(*   mappings  change, then a snapshot, then the write, without a lock;    *)
(*   stremio   change under a lock, then write one's own key, or remove    *)
(*             the file, after it was given up.                            *)
(* A behaviour is about one of them.  A setting is a set of names: of      *)
(* sources, of aliases, or of at most one key.                             *)
(*                                                                         *)
(* os.WriteFile empties the file and then writes it: two steps, between    *)
(* which the process may die.  Writes themselves do not fail.              *)
(***************************************************************************)
EXTENDS FiniteSets

CONSTANTS
    Writers,     \* requests that change the setting
    NoWriter,
    Names,
    Defaults     \* of each setting, when the file is missing or unreadable

Stores == {"sources", "mappings", "stremio"}

ASSUME SavedAssumption ==
    /\ NoWriter \notin Writers
    /\ Defaults \in [Stores -> SUBSET Names]
    /\ Defaults["stremio"] = {}

VARIABLES
    store,      \* the setting this behaviour is about
    memory,     \* its value
    file,       \* its file: whole, torn (does not parse), empty or absent
    lock,       \* who holds sourcesMu
    writer,     \* where each request stands, and the bytes it will write
    alone       \* no two requests have overlapped since all were last idle

savedVars == <<store, memory, file, lock, writer, alone>>

NoWrite == [pc |-> "idle", data |-> {}]

Whole(value) == [state |-> "whole", data |-> value]

Unusable(state) == [state |-> state, data |-> {}]

SavedTypeOK ==
    /\ store \in Stores
    /\ memory \subseteq Names
    /\ file \in [state : {"whole", "torn", "empty", "absent"}, data : SUBSET Names]
    /\ lock \in Writers \cup {NoWriter}
    /\ writer \in [Writers -> [pc : {"idle", "serialise", "open", "write", "unlinked", "remove"},
                               data : SUBSET Names]]
    /\ alone \in BOOLEAN

Loaded(f) == IF f.state = "whole" THEN f.data ELSE Defaults[store]

SavedInit ==
    /\ store \in Stores
    /\ file = Unusable("absent")
    /\ memory = Defaults[store]
    /\ lock = NoWriter
    /\ writer = [w \in Writers |-> NoWrite]
    /\ alone = TRUE

AllIdle == \A w \in Writers : writer[w].pc = "idle"

Begin(w, pc, data) ==
    /\ writer[w].pc = "idle"
    /\ writer' = [writer EXCEPT ![w] = [pc |-> pc, data |-> data]]
    /\ alone' = AllIdle

-----------------------------------------------------------------------------
(* The requests.                                                           *)

ReplaceUnlocked(w, value) ==
    /\ store = "sources"
    /\ memory' = value
    /\ Begin(w, "open", value)
    /\ UNCHANGED <<store, file, lock>>

\* PUT of the sources replaces them, discovery adds one, removal takes it out.
\* The lock is kept until the file is written.
ChangeSources(w, value) ==
    /\ store = "sources"
    /\ lock = NoWriter
    /\ lock' = w
    /\ memory' = value
    /\ Begin(w, "open", value)
    /\ UNCHANGED <<store, file>>

\* POST and DELETE of one alias.
ChangeMapping(w, name) ==
    /\ store = "mappings"
    /\ memory' \in {memory \cup {name}, memory \ {name}}
    /\ Begin(w, "serialise", {})
    /\ UNCHANGED <<store, file, lock>>

\* saveMappings ranges over the map; here in one step.
Serialise(w) ==
    /\ writer[w].pc = "serialise"
    /\ writer' = [writer EXCEPT ![w] = [pc |-> "open", data |-> memory]]
    /\ UNCHANGED <<store, memory, file, lock, alone>>

LoginUnsaved(w, key) ==
    /\ store = "stremio"
    /\ memory' = {key}
    /\ Begin(w, "open", memory)
    /\ UNCHANGED <<store, file, lock>>

Login(w, key) ==
    /\ store = "stremio"
    /\ memory' = {key}
    /\ Begin(w, "open", {key})
    /\ UNCHANGED <<store, file, lock>>

Disconnect(w) ==
    /\ store = "stremio"
    /\ memory' = {}
    /\ Begin(w, "remove", {})
    /\ UNCHANGED <<store, file, lock>>

-----------------------------------------------------------------------------
(* The file.                                                               *)

Open(w) ==
    /\ writer[w].pc = "open"
    /\ file' = Unusable("empty")
    /\ writer' = [writer EXCEPT ![w].pc = "write"]
    /\ UNCHANGED <<store, memory, lock, alone>>

\* A shorter text written over a longer one that came in between leaves the
\* rest of it; a file that was removed meanwhile is written in vain.
Write(w) ==
    /\ writer[w].pc \in {"write", "unlinked"}
    /\ file' \in CASE writer[w].pc = "unlinked" -> {file}
                   [] file.state = "empty" -> {Whole(writer[w].data)}
                   [] OTHER -> {Whole(writer[w].data), Unusable("torn")}
    /\ writer' = [writer EXCEPT ![w] = NoWrite]
    /\ lock' = IF lock = w THEN NoWriter ELSE lock
    /\ UNCHANGED <<store, memory, alone>>

Remove(w) ==
    /\ writer[w].pc = "remove"
    /\ file' = Unusable("absent")
    /\ writer' = [x \in Writers |->
                    CASE x = w -> NoWrite
                      [] writer[x].pc = "write" -> [writer[x] EXCEPT !.pc = "unlinked"]
                      [] OTHER -> writer[x]]
    /\ UNCHANGED <<store, memory, lock, alone>>

SavedRestart ==
    /\ memory' = Loaded(file)
    /\ lock' = NoWriter
    /\ writer' = [w \in Writers |-> NoWrite]
    /\ alone' = TRUE
    /\ UNCHANGED <<store, file>>

SavedNext ==
    \/ \E w \in Writers :
         \/ \E value \in SUBSET Names : ChangeSources(w, value)
         \/ \E name \in Names : ChangeMapping(w, name) \/ Login(w, name)
         \/ Disconnect(w) \/ Serialise(w) \/ Open(w) \/ Write(w) \/ Remove(w)
    \/ SavedRestart

SavedSpec == SavedInit /\ [][SavedNext]_savedVars

-----------------------------------------------------------------------------
\* "Save while still holding the lock to avoid race with other writers"
\* (api_addons.go:183): whenever nobody holds it, a restart would bring back
\* the sources in use, whichever requests crossed and wherever an earlier
\* process died.
SourcesSurviveRestart ==
    store = "sources" /\ lock = NoWriter => Loaded(file) = memory

\* The mappings and the Stremio key survive a restart too, unless requests
\* overlapped: then what is in memory and what was saved may differ for good
\* (api.go:350-352 and 504-517).
LoneRequestsAreSaved == AllIdle /\ alone => Loaded(file) = memory
=============================================================================
