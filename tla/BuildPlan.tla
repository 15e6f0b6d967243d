----------------------------- MODULE BuildPlan -----------------------------
(***************************************************************************)
(* executePlan (packages/agent/src/build-agent.ts): the steps of a plan one *)
(* after the other.  A step may first write an executable check into the    *)
(* project (pre-step-check.ts), then asks the sampler for a verified        *)
(* change, applies it to the target files, keeps or removes its check, and  *)
(* records what it did (changes.ts, working-memory.ts).                     *)
(*                                                                          *)
(* The sampler appears here by its contract (module Sampling), which module *)
(* Sampler keeps: a passing change was verified on the project with its     *)
(* blocks written over it, and the files are back as they were; a call that *)
(* gives up or fails may leave files whose restore write was rejected, and  *)
(* restore writes still in flight.                                          *)
(*                                                                          *)
(* writeFile empties a file before it fills it, and the write is recorded   *)
(* when it has returned: three steps, and the plan may fail between them.   *)
(*                                                                          *)
(* Abstractions.  A file's content says which step wrote it and in which    *)
(* form: the code of a block, what a hashline patch made of the file, the   *)
(* raw text of a patch, a generated check, or a candidate left behind.      *)
(***************************************************************************)
EXTENDS Integers, FiniteSets

CONSTANTS
  NumSteps,   \* plan.steps.length
  Files,      \* the project files the plan targets
  Targets,    \* step.targetFiles, [Steps -> SUBSET Files]
  Checks,     \* paths of pre-step checks
  CheckPath,  \* the path createPreStepCheck derives from step.description
  CheckFirst, \* the steps that get a check: not creative, not opted out
  Absent,     \* the content of a file that does not exist
  Original,   \* the content a file had before the plan
  Torn,       \* nothing, or a part, of what was being written
  None        \* no check, no restore write in flight

Steps == 1 .. NumSteps
Paths == Files \cup Checks

ASSUME BuildPlanAssumption ==
  /\ NumSteps \in Nat
  /\ Files \cap Checks = {}
  /\ Targets \in [Steps -> SUBSET Files]
  /\ CheckPath \in [Steps -> Checks] /\ CheckFirst \subseteq Steps
  /\ None \notin Checks

Forms    == {"code", "edit", "patch", "check", "candidate"}
Writings == [by : Steps, form : Forms]
Contents == Writings \cup {Absent, Original, Torn}
Writing(s, form) == [by |-> s, form |-> form]

ASSUME ContentAssumption ==
  /\ Absent # Original /\ {Absent, Original, Torn, None} \cap Writings = {}
  /\ None \notin {Absent, Original} /\ Torn \notin {Absent, Original, None}

VARIABLES
  start,    \* the project when the plan began
  disk,     \* the project now
  pc,       \* the control point of executeStep
  step,     \* the loop index of executePlan, from 1
  check,    \* the check of this step, a path, or None
  answer,   \* the sampler's result: does it pass, and in which form
  verified, \* the target files as the pipeline saw them for that result
  toWrite,  \* target files applyChange has still to write
  writing,  \* the one it has opened and not recorded yet
  written,  \* the write tracker of changes.ts
  memory,   \* indexes of completedSteps in working memory
  late,     \* restore writes of the sampler still in flight, by file
  disturbed,\* files a rejected or late restore write left wrong
  stuck     \* checks whose write or removal the file system refused

change == <<answer, verified, toWrite, writing>>
books  == <<written, memory>>
upset  == <<late, disturbed, stuck>>
vars   == <<start, disk, pc, step, check, change, books, upset>>

Goto(label) == pc' = label
Current == Targets[step]

-----------------------------------------------------------------------------
Init ==
  /\ start \in {image \in [Paths -> {Absent, Original}] :
                  \A p \in Checks : image[p] = Absent}
  /\ disk = start
  /\ pc = "step" /\ step = 1 /\ check = None
  /\ answer = [passed |-> FALSE, patch |-> FALSE]
  /\ verified = start
  /\ toWrite = {} /\ writing = {} /\ written = {} /\ memory = {}
  /\ late = [f \in Files |-> None]
  /\ disturbed = {} /\ stuck = {}

(* The head of executeStep: capability, configuration, self-tuning.         *)
BeginStep ==
  /\ pc = "step" /\ step <= NumSteps
  /\ check' = None
  /\ Goto(IF step \in CheckFirst THEN "check" ELSE "sample")
  /\ UNCHANGED <<start, disk, step, change, books, upset>>

(* writeFile opens a file, which empties it. *)
Open(p) == disk' = [disk EXCEPT ![p] = Torn]

-----------------------------------------------------------------------------
(* createPreStepCheck, run under Effect.exit: whatever goes wrong in it     *)
(* means "no check", with the file left as it is.                           *)

(* Another language, no usable answer, a rejected model call. *)
NoCheck ==
  /\ pc = "check"
  /\ Goto("sample")
  /\ UNCHANGED <<start, disk, step, check, change, books, upset>>

(* Mutant of OpenCheck: every description has the same slug. *)
OpenSameCheck ==
  /\ pc = "check"
  /\ Open(CheckPath[1])
  /\ Goto("write")
  /\ UNCHANGED <<start, step, check, change, books, upset>>

OpenCheck ==
  /\ pc = "check"
  /\ Open(CheckPath[step])
  /\ Goto("write")
  /\ UNCHANGED <<start, step, check, change, books, upset>>

WriteCheck ==
  /\ pc = "write"
  /\ disk' = [disk EXCEPT ![CheckPath[step]] = Writing(step, "check")]
  /\ Goto("validate")
  /\ UNCHANGED <<start, step, check, change, books, upset>>

(* The write is rejected after it has opened the file. *)
CheckTorn ==
  /\ pc = "write"
  /\ stuck' = stuck \cup {CheckPath[step]}
  /\ Goto("sample")
  /\ UNCHANGED <<start, disk, step, check, change, books, late, disturbed>>

CheckIsRed ==
  /\ pc = "validate"
  /\ check' = CheckPath[step]
  /\ Goto("sample")
  /\ UNCHANGED <<start, disk, step, change, books, upset>>

(* rm(path, force); the file system may refuse it. *)
Remove(p) ==
  \/ disk' = [disk EXCEPT ![p] = Absent] /\ UNCHANGED stuck
  \/ stuck' = stuck \cup {p} /\ UNCHANGED disk

(* Mutant of CheckIsGreen: a vacuous check is given up but not removed. *)
GreenCheckStays ==
  /\ pc = "validate"
  /\ Goto("sample")
  /\ UNCHANGED <<start, disk, step, check, change, books, upset>>

CheckIsGreen ==
  /\ pc = "validate"
  /\ Remove(CheckPath[step])
  /\ Goto("sample")
  /\ UNCHANGED <<start, step, check, change, books, late, disturbed>>

-----------------------------------------------------------------------------
(* Sampler.sample, by its contract.                                         *)

(* What the pipeline sees of change c: the blocks, or the text of a patch,  *)
(* which applyGeneratedCode takes for the content of the file.              *)
Seen(touched, patch) ==
  [p \in Paths |-> IF p \in touched
                   THEN Writing(step, IF patch THEN "patch" ELSE "code")
                   ELSE disk[p]]

SamplePasses ==
  /\ pc = "sample"
  /\ \E touched \in SUBSET Current, patch \in BOOLEAN :
       /\ toWrite' = touched
       /\ answer' = [passed |-> TRUE, patch |-> patch]
       /\ verified' = Seen(touched, patch)
  /\ Goto("apply")
  /\ UNCHANGED <<start, disk, step, check, writing, books, upset>>

(* A restore write of the last verification was rejected for the files in   *)
(* lost; for those in flying it has not settled yet.  Some of them hold a   *)
(* candidate's block, some what a write left that did not end, and the      *)
(* others were not touched or not reached.                                  *)
LeaveBehind(lost, flying) ==
  /\ \E dirty, torn \in SUBSET (lost \cup flying) :
       disk' = [p \in Paths |-> IF p \in torn THEN Torn
                                ELSE IF p \in dirty THEN Writing(step, "candidate")
                                ELSE disk[p]]
  /\ late' = [f \in Files |-> IF f \in flying THEN disk[f] ELSE late[f]]
  /\ disturbed' = disturbed \cup lost \cup flying

(* The best failing candidate comes back, and is applied all the same. *)
SampleGivesUp ==
  /\ pc = "sample"
  /\ \E touched, lost, flying \in SUBSET Current, patch \in BOOLEAN :
       /\ toWrite' = touched
       /\ answer' = [passed |-> FALSE, patch |-> patch]
       /\ flying # {} => lost # {}
       /\ LeaveBehind(lost, flying \ lost)
  /\ Goto("apply")
  /\ UNCHANGED <<start, step, check, verified, writing, books, stuck>>

(* Retrieval, recon or the sampler fails, and with it the plan.  Whatever   *)
(* the step has done so far stays.                                          *)
SampleFails ==
  /\ pc = "sample"
  /\ \E lost, flying \in SUBSET Current :
       /\ flying # {} => lost # {}
       /\ LeaveBehind(lost, flying \ lost)
  /\ Goto("failed")
  /\ UNCHANGED <<start, step, check, change, books, stuck>>

(* A restore write the sampler no longer waits for empties its file. *)
LateOpen(f) ==
  /\ late[f] # None
  /\ Open(f)
  /\ UNCHANGED <<start, pc, step, check, change, books, upset>>

(* It ends: the file has its content, or what the writes that met in it     *)
(* left, or, when it is rejected, what it has now.                          *)
LateRestore(f) ==
  /\ late[f] # None
  /\ \E content \in {late[f], Torn, disk[f]} : disk' = [disk EXCEPT ![f] = content]
  /\ late' = [late EXCEPT ![f] = None]
  /\ UNCHANGED <<start, pc, step, check, change, books, disturbed, stuck>>

-----------------------------------------------------------------------------
(* applyChange and the bookkeeping after it.                                *)

(* Changes.recordWrite and WorkingMemory.appendStep: a later step with the  *)
(* same index replaces an earlier one.                                      *)
RecordWrite(p) == written' = written \cup {p}
AppendStep(i)  == memory' = memory \cup {i}

(* writeFileEnsuringDir on one target: it is opened, *)
OpenTarget(f) ==
  /\ pc = "apply" /\ f \in toWrite /\ writing = {}
  /\ Open(f)
  /\ writing' = {f}
  /\ disturbed' = IF late[f] = None THEN disturbed \ {f} ELSE disturbed
  /\ UNCHANGED <<start, pc, step, check, answer, verified, toWrite, books, late, stuck>>

(* has a block, or what the patch makes of the file, written to it, *)
ApplyTo(f) ==
  /\ pc = "apply" /\ f \in toWrite \cap writing
  /\ disk' = [disk EXCEPT ![f] = Writing(step, IF answer.patch THEN "edit" ELSE "code")]
  /\ toWrite' = toWrite \ {f}
  /\ UNCHANGED <<start, pc, step, check, answer, verified, writing, books, upset>>

(* Mutant of Track: what comes from a patch is not recorded. *)
TrackBlocks(f) ==
  /\ pc = "apply" /\ f \in writing \ toWrite
  /\ IF answer.patch THEN UNCHANGED written ELSE RecordWrite(f)
  /\ writing' = {}
  /\ UNCHANGED <<start, disk, pc, step, check, answer, verified, toWrite, memory, upset>>

(* and is recorded when the write has returned. *)
Track(f) ==
  /\ pc = "apply" /\ f \in writing \ toWrite
  /\ RecordWrite(f)
  /\ writing' = {}
  /\ UNCHANGED <<start, disk, pc, step, check, answer, verified, toWrite, memory, upset>>

(* Mutant of Applied: the writes are not awaited. *)
AppliedEarly ==
  /\ pc = "apply"
  /\ toWrite' = {}
  /\ Goto("settle")
  /\ UNCHANGED <<start, disk, step, check, answer, verified, writing, books, upset>>

Applied ==
  /\ pc = "apply" /\ toWrite = {} /\ writing = {}
  /\ Goto("settle")
  /\ UNCHANGED <<start, disk, step, check, change, books, upset>>

(* The head of a step, a stale patch, a syntax gate, a rejected read or     *)
(* write of the target, at any point of the write, pass rate or working     *)
(* memory: the plan fails where it stands.                                  *)
StepFails ==
  /\ \/ pc = "apply" /\ toWrite \cup writing # {}
     \/ pc \in {"step", "settle", "remember"}
  /\ Goto("failed")
  /\ UNCHANGED <<start, disk, step, check, change, books, upset>>

(* The check of a step that passed is a produced change; that of a step     *)
(* that gave up is removed.                                                 *)
SettleCheck ==
  /\ pc = "settle"
  /\ IF check # None /\ answer.passed THEN RecordWrite(check) ELSE UNCHANGED written
  /\ IF check # None /\ ~answer.passed THEN Remove(check) ELSE UNCHANGED <<disk, stuck>>
  /\ Goto("remember")
  /\ UNCHANGED <<start, step, check, change, memory, late, disturbed>>

(* WorkingMemory.appendStep, and the loop of executePlan. *)
Remember ==
  /\ pc = "remember"
  /\ AppendStep(step)
  /\ step' = step + 1
  /\ Goto(IF step = NumSteps THEN "done" ELSE "step")
  /\ UNCHANGED <<start, disk, check, change, written, upset>>

Next ==
  \/ BeginStep \/ NoCheck \/ OpenCheck \/ WriteCheck \/ CheckTorn \/ CheckIsRed \/ CheckIsGreen
  \/ SamplePasses \/ SampleGivesUp \/ SampleFails
  \/ \E f \in Files : \/ LateOpen(f) \/ LateRestore(f)
                     \/ OpenTarget(f) \/ ApplyTo(f) \/ Track(f)
  \/ Applied \/ StepFails \/ SettleCheck \/ Remember

Spec == Init /\ [][Next]_vars

-----------------------------------------------------------------------------
Images == [Paths -> Contents]

TypeOK ==
  /\ start \in Images /\ disk \in Images /\ verified \in Images
  /\ pc \in {"step", "check", "write", "validate", "sample", "apply", "settle", "remember",
             "done", "failed"}
  /\ step \in 1 .. NumSteps + 1
  /\ check \in Checks \cup {None}
  /\ answer \in [passed : BOOLEAN, patch : BOOLEAN]
  /\ toWrite \subseteq Files /\ writing \subseteq Files /\ written \subseteq Paths /\ memory \subseteq Steps
  /\ late \in [Files -> Contents \cup {None}]
  /\ disturbed \subseteq Files /\ stuck \subseteq Checks

(* Between steps, and after the plan, the checks in the project are exactly *)
(* the reported ones: a check on the disk was reported, unless its write or *)
(* its removal was refused, and a reported check is on the disk.            *)
ChecksAreReported ==
  pc \in {"step", "done"} =>
    \A p \in Checks : /\ p \in written => disk[p] # Absent
                      /\ disk[p] # Absent => p \in written \cup stuck

(* The report is complete and points at files that exist, at every instant  *)
(* and also when a step fails half way: a target file the plan changed is   *)
(* tracked, but for what the sampler left behind and for the one file that  *)
(* is being written.  Only a plan that fails in the middle of a write is    *)
(* over with such a file: the write tracker is told after the write.        *)
ChangesAreReported ==
  /\ \A f \in Files : disk[f] # start[f] => f \in written \cup disturbed \cup writing
  /\ \A f \in written \cap Files : disk[f] # Absent \/ f \in disturbed
  /\ pc \notin {"apply", "failed"} => writing = {}
  /\ \A f, g \in writing : f = g

(* The change of a step that passed, in blocks, lands as the pipeline saw   *)
(* it: once applied, the whole project is what was verified, apart from     *)
(* files an earlier verification left wrong.                                *)
LandsAsVerified ==
  pc \in {"settle", "remember"} /\ answer.passed /\ ~answer.patch =>
    \A f \in Files : disk[f] = verified[f] \/ f \in disturbed

(* A check that was reported as a produced change stays as it is: no later  *)
(* step rewrites or removes it.                                             *)
ReportedChecksStay ==
  [][\A p \in Checks : p \in written => disk'[p] = disk[p]]_vars
=============================================================================
