------------------------------ MODULE Sampler ------------------------------
(***************************************************************************)
(* One call of Sampler.sample (packages/consistency/src/sampler.ts):        *)
(* generate a batch of candidates, verify each one by writing it over the   *)
(* real project files, running the pipeline there and restoring the files,  *)
(* repair the failing ones, resample, escalate, give up.                    *)
(*                                                                          *)
(* The disk is the subject of this module.  A verification is a transaction *)
(* without isolation on the user's own files: the model keeps the save, the *)
(* block writes, the pipeline run and the restore as separate steps, each   *)
(* of which may fail, and lets the process die between any two of them.     *)
(* writeFile empties a file before it fills it: a write is two steps, and   *)
(* one that fails or dies in between leaves the file torn.                  *)
(*                                                                          *)
(* Abstractions.  A model's answer is an element of Changes; Touches says   *)
(* which target files applyGeneratedCode finds a block for.  The pipeline's *)
(* verdict and the scores that order candidates are nondeterministic.       *)
(* Prompts and timestamps are left out, and so are the directories that     *)
(* ensureParentDir creates.                                                 *)
(***************************************************************************)
EXTENDS Integers, FiniteSets, Sequences

CONSTANTS
  Files,        \* task.files
  Changes,      \* what a model may answer
  Touches,      \* the files a change has a block for, [Changes -> SUBSET Files]
  NumTemps,     \* temps.length: candidates in a batch
  MaxRetries,   \* config.consistency.maxRetries
  RepairBudget, \* config.consistency.maxRepairAttempts
  SelfTuning,   \* config.consistency.selfTuning, for a task that is not creative
  Escalation,   \* config.escalation.enabled, with a provider and a model
  Absent,       \* the content of a file that does not exist
  Original,     \* the content a file had before the call
  Torn,         \* nothing, or a part, of what was being written
  None          \* no candidate, no result

(* A step without target files has nothing to write, verify or restore. *)
ASSUME SamplerAssumption ==
  /\ Files # {}
  /\ Touches \in [Changes -> SUBSET Files]
  /\ NumTemps \in Nat \ {0} /\ MaxRetries \in Nat /\ RepairBudget \in Nat
  /\ SelfTuning \in BOOLEAN /\ Escalation \in BOOLEAN
  /\ Absent # Original /\ Torn \notin {Absent, Original}
  /\ {Absent, Original, Torn, None} \cap Changes = {}

VARIABLES
  start,      \* the project's files when sample() was called
  disk,       \* the project's files now
  pc,         \* the control point of the call
  retries,    \* depth of the recursion sample(task, retries)
  budget,     \* maxRepairAttempts of this batch (self-tuning may move it)
  slot,       \* the candidate at work; 0 is the escalation candidate
  stage,      \* why it is verified: "verify", "repair" or "escalate"
  cands,      \* the change of each candidate
  verdict,    \* what the pipeline said of it last
  seen,       \* the disk the pipeline saw when it said so
  attempts,   \* repair attempts of the candidate at work
  saved,      \* originals, read at the start of the verification
  toWrite,    \* block writes of applyGeneratedCode still to do
  restoring,  \* restore writes not settled yet
  writing,    \* the files that a write under way has emptied
  unrestored, \* files whose restore write was rejected
  telemetry,  \* the "passed" fields of this call's records, in order
  result      \* what sample() resolved to

diskVars  == <<disk, saved, toWrite, restoring, writing, unrestored>>
batchVars == <<cands, verdict, seen, budget>>
vars == <<start, pc, retries, slot, stage, attempts, telemetry, result,
          diskVars, batchVars>>

Contents == Changes \cup {Absent, Original, Torn}
Images   == [Files -> Contents]
Slots    == 0 .. NumTemps
NoImage  == [f \in Files |-> Absent]
Final    == {"returned", "failed", "crashed"}
Results  == [change : Changes, passed : BOOLEAN, escalated : BOOLEAN]

(* The project with the blocks of change c written over it. *)
Overlay(image, c) == [f \in Files |-> IF f \in Touches[c] THEN c ELSE image[f]]

Goto(label) == pc' = label

-----------------------------------------------------------------------------
Init ==
  /\ start \in [Files -> {Absent, Original}]
  /\ disk = start
  /\ pc = "begin"
  /\ retries = 0 /\ budget = 0 /\ slot = 1 /\ stage = "verify" /\ attempts = 0
  /\ cands = [i \in Slots |-> None]
  /\ verdict = [i \in Slots |-> "none"]
  /\ seen = [i \in Slots |-> NoImage]
  /\ saved = NoImage
  /\ toWrite = {} /\ restoring = {} /\ writing = {} /\ unrestored = {}
  /\ telemetry = <<>>
  /\ result = None

(* recommendRepairBudget: one more, at most 3; one less, at least 1; or no  *)
(* recommendation, which leaves the configured budget.                      *)
TunedBudgets ==
  {RepairBudget,
   IF RepairBudget + 1 > 3 THEN 3 ELSE RepairBudget + 1,
   IF RepairBudget - 1 < 1 THEN 1 ELSE RepairBudget - 1}

(* The head of sample.  Only the first call consults the policy: a retry    *)
(* falls back to the configured budget.                                     *)
Begin ==
  /\ pc = "begin"
  /\ budget' \in IF SelfTuning /\ retries = 0 THEN TunedBudgets ELSE {RepairBudget}
  /\ Goto("generate")
  /\ UNCHANGED <<start, diskVars, retries, slot, stage, attempts, cands, verdict,
                 seen, telemetry, result>>

(* Effect.all over the temperatures: no file is touched yet.  One rejected  *)
(* model call is a defect that ends the whole call.                         *)
Generate ==
  /\ pc = "generate"
  /\ \E batch \in [1 .. NumTemps -> Changes] :
       cands' = [i \in Slots |-> IF i = 0 THEN None ELSE batch[i]]
  /\ verdict' = [i \in Slots |-> "none"]
  /\ slot' = 1 /\ stage' = "verify"
  /\ Goto("save")
  /\ UNCHANGED <<start, diskVars, retries, attempts, budget, seen, telemetry, result>>

(* A rejection nothing in sample() catches: the configuration, the model's  *)
(* capability, a model call of the batch or of a repair, a failing grader,  *)
(* a failing read of the originals.                                         *)
Die ==
  /\ \/ pc \in {"begin", "generate", "repair"}
     \/ pc = "select" /\ \E i \in Slots : verdict[i] = "pass"
     \/ pc = "save" /\ stage # "escalate"
  /\ Goto("failed")
  /\ UNCHANGED <<start, diskVars, batchVars, retries, slot, stage, attempts,
                 telemetry, result>>

-----------------------------------------------------------------------------
(* verifyCandidate.                                                         *)

Save ==
  /\ pc = "save"
  /\ saved' = disk
  /\ toWrite' = Touches[cands[slot]]
  /\ Goto("apply")
  /\ UNCHANGED <<start, disk, restoring, writing, unrestored, batchVars, retries, slot,
                 stage, attempts, telemetry, result>>

(* writeFile opens a file, which empties it. *)
Open(f) ==
  /\ disk' = [disk EXCEPT ![f] = Torn]
  /\ writing' = writing \cup {f}

Fill(f, content) ==
  /\ disk' = [disk EXCEPT ![f] = content]
  /\ writing' = writing \ {f}

(* applyGeneratedCode writes one file after the other. *)
OpenBlock(f) ==
  /\ pc = "apply" /\ f \in toWrite /\ writing = {}
  /\ Open(f)
  /\ UNCHANGED <<start, pc, saved, toWrite, restoring, unrestored, batchVars, retries,
                 slot, stage, attempts, telemetry, result>>

WriteBlock(f) ==
  /\ pc = "apply" /\ f \in writing
  /\ Fill(f, cands[slot])
  /\ toWrite' = toWrite \ {f}
  /\ UNCHANGED <<start, pc, saved, restoring, unrestored, batchVars, retries, slot,
                 stage, attempts, telemetry, result>>

EnterFinally(word) ==
  /\ verdict' = [verdict EXCEPT ![slot] = word]
  /\ restoring' = Files
  /\ toWrite' = {} /\ writing' = {}
  /\ Goto("restore")
  /\ UNCHANGED <<start, disk, saved, unrestored, cands, budget, retries, slot, stage,
                 attempts, telemetry, result>>

(* A write is rejected, before or after it has emptied its file, or the     *)
(* pipeline throws: the finally block runs and the exception is rethrown.   *)
ThrowInTry ==
  /\ pc = "apply"
  /\ EnterFinally("threw")
  /\ UNCHANGED seen

(* Mutant of RunPipeline: a block write that nobody awaits. *)
RunPipelineEarly ==
  /\ pc = "apply"
  /\ \E word \in {"pass", "fail"} : EnterFinally(word)
  /\ seen' = [seen EXCEPT ![slot] = disk]

(* Pipeline.run(files, projectRoot) reads the files from the disk. *)
RunPipeline ==
  /\ pc = "apply" /\ toWrite = {}
  /\ \E word \in {"pass", "fail"} : EnterFinally(word)
  /\ seen' = [seen EXCEPT ![slot] = disk]

(* The value sample() returns when it gives up: the best failing candidate. *)
GiveUp(i) == [change |-> cands[i], passed |-> FALSE, escalated |-> FALSE]

(* verifyCandidate rejected: sample() fails, except under attemptEscalation, *)
(* whose Exit is turned into the give-up result.                            *)
Rejected ==
  IF stage = "escalate"
  THEN Goto("returned") /\ \E i \in 1 .. NumTemps : result' = GiveUp(i)
  ELSE Goto("failed") /\ UNCHANGED result

(* A file that existed is written again, one that did not is removed. *)
OpenOriginal(f) ==
  /\ pc \in {"restore", "returned", "failed"}
  /\ f \in restoring \ writing /\ saved[f] # Absent
  /\ Open(f)
  /\ UNCHANGED <<start, pc, saved, toWrite, restoring, unrestored, batchVars, retries,
                 slot, stage, attempts, telemetry, result>>

Restorable(f) == f \in restoring /\ (saved[f] # Absent => f \in writing)

(* Mutant of RestoreFile: a file that did not exist before is not removed. *)
RestoreFileKeepsNew(f) ==
  /\ pc = "restore" /\ Restorable(f)
  /\ Fill(f, IF saved[f] = Absent THEN disk[f] ELSE saved[f])
  /\ restoring' = restoring \ {f}
  /\ \/ restoring' # {} /\ UNCHANGED <<pc, result>>
     \/ restoring' = {} /\ verdict[slot] # "threw" /\ Goto("judge") /\ UNCHANGED result
     \/ restoring' = {} /\ verdict[slot] = "threw" /\ Rejected
  /\ UNCHANGED <<start, saved, toWrite, unrestored, batchVars, retries, slot, stage,
                 attempts, telemetry>>

(* The restore writes run in parallel under one Promise.all. *)
RestoreFile(f) ==
  /\ pc = "restore" /\ Restorable(f)
  /\ Fill(f, saved[f])
  /\ restoring' = restoring \ {f}
  /\ \/ restoring' # {} /\ UNCHANGED <<pc, result>>
     \/ restoring' = {} /\ verdict[slot] # "threw" /\ Goto("judge") /\ UNCHANGED result
     \/ restoring' = {} /\ verdict[slot] = "threw" /\ Rejected
  /\ UNCHANGED <<start, saved, toWrite, unrestored, batchVars, retries, slot, stage,
                 attempts, telemetry>>

(* A rejected write may have emptied its file.  Promise.all rejects with    *)
(* the first failure and does not wait for the other writes, which stay in  *)
(* flight.                                                                  *)
RestoreFails(f) ==
  /\ pc = "restore" /\ f \in restoring
  /\ restoring' = restoring \ {f} /\ writing' = writing \ {f}
  /\ unrestored' = unrestored \cup {f}
  /\ Rejected
  /\ UNCHANGED <<start, disk, saved, toWrite, batchVars, retries, slot, stage, attempts,
                 telemetry>>

(* A restore write that was still in flight settles after the rejection. *)
Straggler(f) ==
  /\ pc \in {"returned", "failed"} /\ f \in restoring
  /\ restoring' = restoring \ {f}
  /\ \/ Restorable(f) /\ Fill(f, saved[f]) /\ UNCHANGED unrestored
     \/ unrestored' = unrestored \cup {f} /\ writing' = writing \ {f} /\ UNCHANGED disk
  /\ UNCHANGED <<start, pc, saved, toWrite, batchVars, retries, slot, stage, attempts,
                 telemetry, result>>

-----------------------------------------------------------------------------
(* The loops around verifyCandidate.                                        *)

JudgeVerified ==
  /\ pc = "judge" /\ stage = "verify"
  /\ IF slot < NumTemps
     THEN slot' = slot + 1 /\ Goto("save") /\ UNCHANGED stage
     ELSE slot' = 1 /\ stage' = "repair" /\ Goto("repair")
  /\ attempts' = 0
  /\ UNCHANGED <<start, diskVars, batchVars, retries, telemetry, result>>

JudgeRepaired ==
  /\ pc = "judge" /\ stage = "repair"
  /\ Goto("repair")
  /\ UNCHANGED <<start, diskVars, batchVars, retries, slot, stage, attempts, telemetry,
                 result>>

(* Mutant of Repair: the attempt is not counted. *)
RepairUncounted ==
  /\ pc = "repair"
  /\ verdict[slot] # "pass" /\ attempts < budget
  /\ \E c \in Changes : cands' = [cands EXCEPT ![slot] = c]
  /\ verdict' = [verdict EXCEPT ![slot] = "none"]
  /\ Goto("save")
  /\ UNCHANGED <<start, diskVars, seen, budget, retries, slot, stage, attempts, telemetry,
                 result>>

(* Mutant of Repair: a candidate that passed is repaired all the same. *)
RepairPassing ==
  /\ pc = "repair"
  /\ attempts < budget
  /\ \E c \in Changes : cands' = [cands EXCEPT ![slot] = c]
  /\ verdict' = [verdict EXCEPT ![slot] = "none"]
  /\ attempts' = attempts + 1
  /\ Goto("save")
  /\ UNCHANGED <<start, diskVars, seen, budget, retries, slot, stage, telemetry, result>>

(* repairCandidate: the answer replaces the candidate. *)
Repair ==
  /\ pc = "repair"
  /\ verdict[slot] # "pass" /\ attempts < budget
  /\ \E c \in Changes : cands' = [cands EXCEPT ![slot] = c]
  /\ verdict' = [verdict EXCEPT ![slot] = "none"]
  /\ attempts' = attempts + 1
  /\ Goto("save")
  /\ UNCHANGED <<start, diskVars, seen, budget, retries, slot, stage, telemetry, result>>

RepairDone ==
  /\ pc = "repair"
  /\ verdict[slot] = "pass" \/ attempts = budget
  /\ IF slot < NumTemps THEN slot' = slot + 1 /\ UNCHANGED pc
                        ELSE slot' = 1 /\ Goto("select")
  /\ attempts' = 0
  /\ UNCHANGED <<start, diskVars, batchVars, retries, stage, telemetry, result>>

Passing == {i \in 1 .. NumTemps : verdict[i] = "pass"}

(* Telemetry.record, which reports a failed append but never raises it: the *)
(* variable holds what it was handed.                                       *)
Record(passed) == telemetry' = Append(telemetry, passed)

(* Grader.gradeAll and Voter.selectBest: some passing candidate wins. *)
SelectBest ==
  /\ pc = "select"
  /\ \E i \in Passing :
       result' = [change |-> cands[i], passed |-> TRUE, escalated |-> FALSE]
  /\ Record(TRUE)
  /\ Goto("returned")
  /\ UNCHANGED <<start, diskVars, batchVars, retries, slot, stage, attempts>>

Resample ==
  /\ pc = "select" /\ Passing = {} /\ retries < MaxRetries
  /\ retries' = retries + 1
  /\ Goto("begin")
  /\ UNCHANGED <<start, diskVars, batchVars, slot, stage, attempts, telemetry, result>>

(* Mutant of Exhausted: one retry short. *)
ExhaustedEarly ==
  /\ pc = "select" /\ Passing = {} /\ retries >= MaxRetries - 1
  /\ Record(FALSE)
  /\ IF Escalation
     THEN Goto("escalate") /\ UNCHANGED result
     ELSE Goto("returned") /\ \E i \in 1 .. NumTemps : result' = GiveUp(i)
  /\ UNCHANGED <<start, diskVars, batchVars, retries, slot, stage, attempts>>

(* Every retry is spent: the failure is recorded, then either the           *)
(* escalation model is asked once or the best failing candidate returned.   *)
Exhausted ==
  /\ pc = "select" /\ Passing = {} /\ retries = MaxRetries
  /\ Record(FALSE)
  /\ IF Escalation
     THEN Goto("escalate") /\ UNCHANGED result
     ELSE Goto("returned") /\ \E i \in 1 .. NumTemps : result' = GiveUp(i)
  /\ UNCHANGED <<start, diskVars, batchVars, retries, slot, stage, attempts>>

Escalate ==
  /\ pc = "escalate"
  /\ \E c \in Changes : cands' = [cands EXCEPT ![0] = c]
  /\ slot' = 0 /\ stage' = "escalate"
  /\ Goto("save")
  /\ UNCHANGED <<start, diskVars, verdict, seen, budget, retries, attempts, telemetry,
                 result>>

(* An unknown provider, an unreachable model, unreadable originals, a       *)
(* failing verdict or a failing grader: null, and the call gives up.        *)
EscalationFails ==
  /\ \/ pc = "escalate"
     \/ pc \in {"save", "judge"} /\ stage = "escalate"
  /\ Goto("returned")
  /\ \E i \in 1 .. NumTemps : result' = GiveUp(i)
  /\ UNCHANGED <<start, diskVars, batchVars, retries, slot, stage, attempts, telemetry>>

EscalationPasses ==
  /\ pc = "judge" /\ stage = "escalate" /\ verdict[0] = "pass"
  /\ result' = [change |-> cands[0], passed |-> TRUE, escalated |-> TRUE]
  /\ Record(TRUE)
  /\ Goto("returned")
  /\ UNCHANGED <<start, diskVars, batchVars, retries, slot, stage, attempts>>

(* The process is killed. *)
Crash ==
  /\ pc \notin Final
  /\ Goto("crashed")
  /\ restoring' = {} /\ toWrite' = {} /\ writing' = {}
  /\ UNCHANGED <<start, disk, saved, unrestored, batchVars, retries, slot, stage,
                 attempts, telemetry, result>>

Step ==
  \/ Begin \/ Generate \/ Die
  \/ Save \/ ThrowInTry \/ RunPipeline
  \/ \E f \in Files : \/ OpenBlock(f) \/ WriteBlock(f) \/ OpenOriginal(f) \/ RestoreFile(f)
                     \/ RestoreFails(f) \/ Straggler(f)
  \/ JudgeVerified \/ JudgeRepaired \/ Repair \/ RepairDone
  \/ SelectBest \/ Resample \/ Exhausted
  \/ Escalate \/ EscalationFails \/ EscalationPasses

Next == Step \/ Crash

Spec     == Init /\ [][Next]_vars
(* The runtime goes on with a call it has started; nothing makes it crash. *)
FairSpec == Spec /\ WF_vars(Step)

-----------------------------------------------------------------------------
TypeOK ==
  /\ start \in [Files -> {Absent, Original}]
  /\ disk \in Images /\ saved \in Images
  /\ pc \in {"begin", "generate", "save", "apply", "restore", "judge", "repair",
             "select", "escalate"} \cup Final
  /\ retries \in 0 .. MaxRetries /\ budget \in Nat /\ attempts \in Nat
  /\ slot \in Slots /\ stage \in {"verify", "repair", "escalate"}
  /\ cands \in [Slots -> Changes \cup {None}]
  /\ verdict \in [Slots -> {"none", "pass", "fail", "threw"}]
  /\ seen \in [Slots -> Images]
  /\ toWrite \subseteq Files /\ restoring \subseteq Files /\ unrestored \subseteq Files
  /\ writing \subseteq Files /\ telemetry \in Seq(BOOLEAN)
  /\ result \in Results \cup {None}

(* Between two verifications, and when the call is over, every target file  *)
(* has the content it had before the call, except a file whose own restore  *)
(* write was rejected or is still in flight.  In particular no verification *)
(* starts on a project an earlier one left dirty.                           *)
ProjectRestored ==
  /\ pc \notin {"apply", "restore"} \cup Final => disk = start
  /\ pc \in {"returned", "failed"} =>
       \A f \in Files : disk[f] = start[f] \/ f \in restoring \cup unrestored

(* A candidate that passed or failed was judged on the project as it was    *)
(* before the call with its own blocks written over it: no block of another *)
(* candidate, or of the candidate it repairs, was on the disk.              *)
VerdictIsOfTheCandidate ==
  \A i \in Slots :
    verdict[i] \in {"pass", "fail"} => seen[i] = Overlay(start, cands[i])

(* What sample() reports as passing was itself verified, on such a disk.    *)
(* A failing result only comes back when every retry was spent and the last *)
(* batch, repairs included, had nothing that passes.  The telemetry says    *)
(* the same: a failing record is written before escalating, and a call that *)
(* escalates with success adds a passing one.                               *)
ResultIsHonest ==
  /\ result # None =>
       IF result.passed
       THEN \E i \in Slots : /\ cands[i] = result.change /\ verdict[i] = "pass"
                             /\ seen[i] = Overlay(start, result.change)
                             /\ result.escalated <=> i = 0
       ELSE retries = MaxRetries /\ Passing = {}
  /\ pc = "returned" =>
       telemetry = IF ~result.passed THEN <<FALSE>>
                   ELSE IF result.escalated THEN <<FALSE, TRUE>> ELSE <<TRUE>>

(* Every call comes to an end with no write of its own left in flight,      *)
(* through the repair loop, the recursion and the escalation.               *)
Settles ==
  <>(pc = "crashed" \/ (pc \in {"returned", "failed"} /\ restoring = {}))

(* The call as its caller sees it, who does not look at the files before it *)
(* is over, keeps the contract of module Sampling.                          *)
Outcome ==
  CASE pc = "returned" -> IF result.passed THEN "passed" ELSE "gave up"
    [] pc \in {"failed", "crashed"} -> pc
    [] OTHER -> "none"

Passed == {[change |-> cands[i], on |-> seen[i]] : i \in {j \in Slots : verdict[j] = "pass"}}

Contract == INSTANCE Sampling WITH
  project <- IF pc \in Final THEN disk ELSE start,
  outcome <- Outcome,
  change  <- IF pc = "returned" THEN result.change ELSE None,
  passing <- Passed,
  lost    <- unrestored,
  flying  <- IF pc \in Final THEN restoring ELSE {}

KeepsItsContract == Contract!Spec
=============================================================================
