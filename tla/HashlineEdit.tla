---------------------------- MODULE HashlineEdit ----------------------------
(***************************************************************************)
(* From reading a file to patching it.  A model is shown the lines of a     *)
(* file under a header [path#TAG]; later it answers with a patch that       *)
(* quotes the tag.  applyPatch (packages/hashline/src/apply.ts) accepts it  *)
(* if the file still has that tag and the lines it replaces still have the  *)
(* fingerprints in the snapshot store, a map shared by the whole process.   *)
(*                                                                          *)
(* Two clients use it.  The engine's tools (packages/engine/src/tool/       *)
(* read.ts, edit.ts) read the lines and the tagged content one after the    *)
(* other, and hold a lock per file while the edit asks for permission.  The *)
(* build agent (packages/agent/src/build-agent.ts) reads once, shows, tags  *)
(* and records the first 12 000 characters, takes no lock, and records the  *)
(* live file in the store just before it applies.                           *)
(*                                                                          *)
(* One file.  Tag is the sixteen-bit hash, as a function of the content: it *)
(* may or may not be injective on the contents the file goes through.       *)
(***************************************************************************)
EXTENDS Integers, FiniteSets

CONSTANTS
  Agents,      \* sessions, or plan steps, that work on the file
  Lines,       \* its line numbers
  Texts,       \* what a line may say
  Long,        \* the contents of more than 12 000 characters
  Beyond,      \* the lines of theirs that lie beyond those
  Cut,         \* "... (truncated": what the build agent shows in their place
  Tag,         \* contentTag, [Views -> anything]
  Format,      \* the formatter the engine runs on a written file
  MaxExternal, \* bound on edits by others: an editor, the write tool, a shell
  None         \* no snapshot, no holder of the lock, no edit

Contents == [Lines -> Texts]

(* What the build agent shows of a content, and tags. *)
Capped(c) ==
  IF c \in Long THEN [l \in Lines |-> IF l \in Beyond THEN Cut ELSE c[l]] ELSE c

Views == Contents \cup {Capped(c) : c \in Contents}

(* A replacement or deletion is checked against fingerprints, an insertion  *)
(* is not; what it does to the file is abstracted to a new text at a line.  *)
Ops   == [line : Lines, text : Texts, guarded : BOOLEAN]
Edits == [old : Contents, op : Ops]

ASSUME HashlineEditAssumption ==
  /\ Texts # {}
  /\ Format \in [Contents -> Contents]
  /\ MaxExternal \in Nat
  /\ Long \subseteq Contents
  /\ Beyond \subseteq Lines /\ Beyond # {} /\ Cut \notin Texts
  /\ None \notin Agents /\ None \notin Views /\ None \notin Edits
  /\ \A c \in Views : Tag[c] # None

VARIABLES
  engine,    \* whose process this is: the engine's tools or the build agent
  disk,      \* the file
  store,     \* its entry in globalSnapshotStore
  lock,      \* who holds the file's semaphore (engine)
  pc,        \* where each agent is
  shown,     \* the lines the model last saw
  tag,       \* the tag in the header it saw with them
  edit,      \* the edit under way: the file as it was read, and the patch
  external,  \* edits by others so far
  current    \* who has read since a patch was last applied or the file written

vars == <<engine, disk, store, lock, pc, shown, tag, edit, external, current>>

Init ==
  /\ engine \in BOOLEAN
  /\ disk \in Contents
  /\ store = None /\ lock = None
  /\ pc    = [a \in Agents |-> "idle"]
  /\ shown = [a \in Agents |-> None]
  /\ tag   = [a \in Agents |-> None]
  /\ edit  = [a \in Agents |-> None]
  /\ external = 0 /\ current = {}

-----------------------------------------------------------------------------
(* Reading.                                                                 *)

(* The read tool: first the lines it prints ... *)
ReadLines(a) ==
  /\ engine /\ pc[a] \in {"idle", "ready"}
  /\ shown' = [shown EXCEPT ![a] = disk]
  /\ pc' = [pc EXCEPT ![a] = "tagging"]
  /\ UNCHANGED <<disk, store, lock, tag, edit, external, current>>

(* Mutant of ReadTag: the snapshot goes into a store of its own. *)
ReadTagOnly(a) ==
  /\ pc[a] = "tagging"
  /\ tag' = [tag EXCEPT ![a] = Tag[disk]]
  /\ pc' = [pc EXCEPT ![a] = "ready"]
  /\ current' = current \cup {a}
  /\ UNCHANGED <<disk, store, lock, shown, edit, external>>

(* ... then, from a second read, the snapshot and its tag. *)
ReadTag(a) ==
  /\ pc[a] = "tagging"
  /\ tag' = [tag EXCEPT ![a] = Tag[disk]]
  /\ store' = disk
  /\ pc' = [pc EXCEPT ![a] = "ready"]
  /\ current' = current \cup {a}
  /\ UNCHANGED <<disk, lock, shown, edit, external>>

(* readExistingTargets: one read for both, when the prompt is built. *)
ReadOnce(a) ==
  /\ ~engine /\ pc[a] \in {"idle", "ready"}
  /\ shown' = [shown EXCEPT ![a] = Capped(disk)]
  /\ tag' = [tag EXCEPT ![a] = Tag[Capped(disk)]]
  /\ store' = Capped(disk)
  /\ pc' = [pc EXCEPT ![a] = "ready"]
  /\ current' = current \cup {a}
  /\ UNCHANGED <<disk, lock, edit, external>>

-----------------------------------------------------------------------------
(* Applying.                                                                *)

Begin(a) == \E op \in Ops : edit' = [edit EXCEPT ![a] = [old |-> disk, op |-> op]]

(* Mutant of Open: the edit does not take the lock. *)
OpenUnlocked(a) ==
  /\ pc[a] = "ready"
  /\ Begin(a)
  /\ pc' = [pc EXCEPT ![a] = "opened"]
  /\ UNCHANGED <<disk, store, lock, shown, tag, external, current>>

(* The answer arrives: the file is read again; the engine holds the lock.   *)
Open(a) ==
  /\ pc[a] = "ready"
  /\ engine => lock = None
  /\ lock' = IF engine THEN a ELSE lock
  /\ Begin(a)
  /\ pc' = [pc EXCEPT ![a] = "opened"]
  /\ UNCHANGED <<disk, store, shown, tag, external, current>>

(* The edit is over, one way or another. *)
Close(a) ==
  /\ edit' = [edit EXCEPT ![a] = None]
  /\ pc' = [pc EXCEPT ![a] = "ready"]
  /\ lock' = IF engine THEN None ELSE lock

(* The entry the fingerprints come from. *)
Snapshot(a) == IF engine THEN store ELSE edit[a].old

TagMatches(a) == tag[a] = Tag[edit[a].old]

(* Mutant of Accepts: the fingerprints alone decide. *)
AcceptsAnyTag(a) ==
  edit[a].op.guarded /\ Snapshot(a) # None =>
    Snapshot(a)[edit[a].op.line] = edit[a].old[edit[a].op.line]

(* preflightSection *)
Accepts(a) ==
  /\ TagMatches(a)
  /\ edit[a].op.guarded /\ Snapshot(a) # None =>
       Snapshot(a)[edit[a].op.line] = edit[a].old[edit[a].op.line]

(* The patch passes the preflight and goes to the syntax gate. *)
Preflight(a) ==
  /\ pc[a] = "opened" /\ Accepts(a)
  /\ store' = Snapshot(a)
  /\ pc' = [pc EXCEPT ![a] = "gate"]
  /\ UNCHANGED <<disk, lock, shown, tag, edit, external, current>>

(* "Re-read the file and re-anchor line numbers". *)
Stale(a) ==
  /\ pc[a] = "opened" /\ ~Accepts(a)
  /\ store' = Snapshot(a)
  /\ Close(a)
  /\ UNCHANGED <<disk, shown, tag, external, current>>

(* The syntax gate says no before anything is recorded. *)
GateRejects(a) ==
  /\ pc[a] = "gate"
  /\ Close(a)
  /\ UNCHANGED <<disk, store, shown, tag, external, current>>

Edited(a) == [edit[a].old EXCEPT ![edit[a].op.line] = edit[a].op.text]

(* applyPatch records the result before anybody has written it. *)
ApplyPatch(a) ==
  /\ pc[a] = "gate"
  /\ store' = Edited(a) /\ current' = {}
  /\ pc' = [pc EXCEPT ![a] = "commit"]
  /\ UNCHANGED <<disk, lock, shown, tag, edit, external>>

(* The user declines, or the write fails. *)
Declined(a) ==
  /\ pc[a] = "commit"
  /\ Close(a)
  /\ UNCHANGED <<disk, store, shown, tag, external, current>>

(* What ends up in the file. *)
Written(a) == IF engine THEN Format[Edited(a)] ELSE Edited(a)

(* The write.  The edit tool answers with the new tag, that of the text     *)
(* before the formatter; the build agent's model is told nothing.           *)
Write(a) ==
  /\ pc[a] = "commit"
  /\ disk' = Written(a)
  /\ shown' = IF engine THEN [shown EXCEPT ![a] = Edited(a)] ELSE shown
  /\ tag' = IF engine THEN [tag EXCEPT ![a] = Tag[Edited(a)]] ELSE tag
  /\ Close(a) /\ current' = {}
  /\ UNCHANGED <<store, external>>

(* Somebody who takes no lock. *)
ExternalEdit ==
  /\ external < MaxExternal
  /\ \E content \in Contents : disk' = content
  /\ external' = external + 1 /\ current' = {}
  /\ UNCHANGED <<store, lock, pc, shown, tag, edit>>

Next ==
  /\ \/ \E a \in Agents :
          \/ ReadLines(a) \/ ReadTag(a) \/ ReadOnce(a)
          \/ Open(a) \/ Preflight(a) \/ Stale(a) \/ GateRejects(a)
          \/ ApplyPatch(a) \/ Declined(a) \/ Write(a)
     \/ ExternalEdit
  /\ UNCHANGED engine

Spec == Init /\ [][Next]_vars

-----------------------------------------------------------------------------
Editing == {a \in Agents : pc[a] \in {"opened", "gate", "commit"}}

TypeOK ==
  /\ engine \in BOOLEAN
  /\ disk \in Contents /\ store \in Views \cup {None}
  /\ lock \in Agents \cup {None}
  /\ pc \in [Agents -> {"idle", "tagging", "ready", "opened", "gate", "commit"}]
  /\ shown \in [Agents -> Views \cup {None}]
  /\ tag \in [Agents -> {Tag[c] : c \in Views} \cup {None}]
  /\ edit \in [Agents -> Edits \cup {None}]
  /\ \A a \in Agents : a \in Editing <=> edit[a] # None
  /\ \A a \in Agents : lock = a <=> engine /\ a \in Editing
  /\ external \in 0 .. MaxExternal /\ current \subseteq Agents

(* The edit tool loses no update: from reading the file to writing it back, *)
(* with the user asked in between, the file does not change under it.       *)
NoLostUpdate == engine => \A a \in Editing : disk = edit[a].old

(* It does not as long as everybody who wrote the file took the lock.       *)
LockKeepsUpdates == external = 0 => NoLostUpdate

(* A patch is only ever applied to the content the model was shown: "A      *)
(* stale or misaligned patch is detected and rejected".                     *)
AppliedToWhatWasShown ==
  \A a \in Agents : pc[a] \in {"gate", "commit"} => edit[a].old = shown[a]

(* The build agent, which takes lines and tag from one read, keeps to that. *)
AgentAppliesToWhatWasShown == ~engine => AppliedToWhatWasShown

(* "Re-read the file and re-anchor": whatever declined and failed edits     *)
(* have left in the store, reading the file again puts it right: a patch    *)
(* made from a read is not called stale before a patch is applied or the    *)
(* file is written, and in the build agent if all of the file was shown.    *)
RereadingHelps ==
  \A a \in current :
    pc[a] = "opened" /\ (engine \/ edit[a].old \notin Long) => Accepts(a)
=============================================================================
