--------------------------- MODULE SamplerProofs ---------------------------
(* Invariance proofs for Sampler: the project is restored, and a verdict is *)
(* about its own candidate, for every set of files and changes and every    *)
(* budget.                                                                  *)
EXTENDS Sampler, TLAPS

(* The originals in memory are the project's, for as long as a restore may  *)
(* still write them back.                                                   *)
SavedIsStart ==
  pc \in {"apply", "restore"} \/ restoring # {} => saved = start

(* While blocks are written, what is on the disk is the project with the    *)
(* blocks written so far, and the file being written is torn.               *)
Applying ==
  pc = "apply" =>
    /\ cands[slot] \in Changes
    /\ writing \subseteq toWrite /\ toWrite \subseteq Touches[cands[slot]]
    /\ disk = [f \in Files |-> IF f \in writing THEN Torn
                               ELSE IF f \in Touches[cands[slot]] \ toWrite
                               THEN cands[slot] ELSE start[f]]

(* While originals are written back, the files already done are clean. *)
Restoring ==
  /\ pc \notin Final => unrestored = {}
  /\ pc = "restore" => \A f \in Files \ restoring : disk[f] = start[f]
  /\ pc \notin {"restore", "returned", "failed"} => restoring = {}
  /\ pc # "apply" => writing \subseteq restoring

(* A candidate about to be verified exists. *)
HasCandidates ==
  /\ pc \in {"save", "apply", "restore", "judge", "repair", "select", "escalate"} =>
       \A i \in 1 .. NumTemps : cands[i] \in Changes
  /\ pc \in {"save", "apply", "restore", "judge"} => cands[slot] \in Changes
  /\ pc \in {"repair", "select"} => slot \in 1 .. NumTemps
  /\ pc \in {"begin", "generate", "repair", "select"} => stage # "escalate"
  /\ stage # "escalate" => slot \in 1 .. NumTemps
  /\ stage = "escalate" => slot = 0 /\ pc # "escalate"
  /\ stage # "escalate" => verdict[0] = "none"

IInv ==
  /\ TypeOK /\ ProjectRestored /\ VerdictIsOfTheCandidate
  /\ SavedIsStart /\ Applying /\ Restoring /\ HasCandidates

LEMMA InitIInv == Init => IInv
<1> USE SamplerAssumption
<1> SUFFICES ASSUME Init PROVE IInv
  OBVIOUS
<1>1. TypeOK
  BY DEF Init, TypeOK, Images, Contents, Slots, NoImage
<1>2. ProjectRestored /\ VerdictIsOfTheCandidate
  BY DEF Init, ProjectRestored, VerdictIsOfTheCandidate, Final
<1>3. SavedIsStart /\ Applying /\ Restoring /\ HasCandidates
  BY DEF Init, SavedIsStart, Applying, Restoring, HasCandidates, Slots
<1> QED
  BY <1>1, <1>2, <1>3 DEF IInv

(* The outcomes of a rejected verification. *)
LEMMA RejectedType ==
  ASSUME IInv, pc = "restore", Rejected
  PROVE  /\ pc' \in {"returned", "failed"}
         /\ result' \in Results \cup {None}
<1> SUFFICES ASSUME stage = "escalate", NEW i \in 1 .. NumTemps, result' = GiveUp(i)
             PROVE  result' \in Results
  BY DEF Rejected, Goto, IInv, TypeOK
<1> QED
  BY DEF GiveUp, Results, IInv, HasCandidates

(* Every action keeps the types. *)
LEMMA TypeStep == IInv /\ [Next]_vars => TypeOK'
<1> USE SamplerAssumption DEF IInv, TypeOK, Images, Contents, Slots, NoImage, Final, Results, Goto
<1> SUFFICES ASSUME IInv, [Next]_vars PROVE TypeOK'
  OBVIOUS
<1>1. CASE Begin
  BY <1>1 DEF Begin, TunedBudgets, diskVars, batchVars
<1>2. CASE Generate
  BY <1>2 DEF Generate, diskVars, batchVars
<1>3. CASE Die
  BY <1>3 DEF Die, diskVars, batchVars
<1>4. CASE Save
  BY <1>4 DEF Save, batchVars, HasCandidates
<1>5. CASE ThrowInTry
  BY <1>5 DEF ThrowInTry, EnterFinally, diskVars, batchVars
<1>6. CASE RunPipeline
  BY <1>6 DEF RunPipeline, EnterFinally, diskVars, batchVars
<1>7. ASSUME NEW f \in Files, OpenBlock(f) \/ OpenOriginal(f) PROVE TypeOK'
  BY <1>7 DEF OpenBlock, OpenOriginal, Open, batchVars
<1>7a. ASSUME NEW f \in Files, WriteBlock(f) PROVE TypeOK'
  BY <1>7a DEF WriteBlock, Fill, batchVars, Applying
<1>8. ASSUME NEW f \in Files, RestoreFile(f) PROVE TypeOK'
  <2>1. disk' \in Images /\ restoring' \subseteq Files /\ writing' \subseteq Files
    BY <1>8 DEF RestoreFile, Fill
  <2>2. pc' \in Final \cup {"restore", "judge"} /\ result' \in Results \cup {None}
    BY <1>8, RejectedType DEF RestoreFile
  <2> QED
    BY <1>8, <2>1, <2>2 DEF RestoreFile, batchVars
<1>9. ASSUME NEW f \in Files, RestoreFails(f) PROVE TypeOK'
  <2>1. pc' \in Final /\ result' \in Results \cup {None}
    BY <1>9, RejectedType DEF RestoreFails
  <2> QED
    BY <1>9, <2>1 DEF RestoreFails, batchVars
<1>10. ASSUME NEW f \in Files, Straggler(f) PROVE TypeOK'
  BY <1>10 DEF Straggler, Fill, diskVars, batchVars
<1>11. CASE JudgeVerified
  BY <1>11 DEF JudgeVerified, diskVars, batchVars
<1>12. CASE JudgeRepaired
  BY <1>12 DEF JudgeRepaired, diskVars, batchVars
<1>13. CASE Repair
  BY <1>13 DEF Repair, diskVars, batchVars
<1>14. CASE RepairDone
  BY <1>14 DEF RepairDone, diskVars, batchVars
<1>15. CASE SelectBest
  BY <1>15 DEF SelectBest, Record, Passing, diskVars, batchVars, HasCandidates
<1>16. CASE Resample
  BY <1>16 DEF Resample, Passing, diskVars, batchVars
<1>17. CASE Exhausted
  <2>1. pc' \in Final \cup {"escalate"} /\ telemetry' \in Seq(BOOLEAN)
    BY <1>17 DEF Exhausted, Record
  <2>2. result' \in Results \cup {None}
    <3>1. CASE Escalation
      BY <1>17, <3>1 DEF Exhausted, Record
    <3>2. CASE ~Escalation
      <4>1. PICK i \in 1 .. NumTemps : result' = GiveUp(i)
        BY <1>17, <3>2 DEF Exhausted, Record
      <4>2. cands[i] \in Changes
        BY <1>17 DEF Exhausted, Record, HasCandidates
      <4> QED
        BY <4>1, <4>2 DEF GiveUp
    <3> QED
      BY <3>1, <3>2
  <2> QED
    BY <1>17, <2>1, <2>2 DEF Exhausted, Record, diskVars, batchVars
<1>18. CASE Escalate
  BY <1>18 DEF Escalate, diskVars, batchVars
<1>19. CASE EscalationFails
  BY <1>19 DEF EscalationFails, GiveUp, diskVars, batchVars, HasCandidates
<1>20. CASE EscalationPasses
  BY <1>20 DEF EscalationPasses, Record, diskVars, batchVars, HasCandidates
<1>21. CASE Crash
  BY <1>21 DEF Crash, diskVars, batchVars
<1>22. CASE UNCHANGED vars
  BY <1>22 DEF vars, diskVars, batchVars
<1> QED
  BY <1>1, <1>2, <1>3, <1>4, <1>5, <1>6, <1>7, <1>7a, <1>8, <1>9, <1>10, <1>11, <1>12,
     <1>13, <1>14, <1>15, <1>16, <1>17, <1>18, <1>19, <1>20, <1>21, <1>22
  DEF Next, Step

(* Every action keeps the part of the invariant about the disk. *)
LEMMA DiskStep == IInv /\ [Next]_vars => (ProjectRestored /\ SavedIsStart /\ Applying /\ Restoring)'
<1> USE SamplerAssumption DEF IInv, TypeOK, Images, Final, Goto, ProjectRestored, SavedIsStart, Applying, Restoring, HasCandidates
<1> SUFFICES ASSUME IInv, [Next]_vars PROVE (ProjectRestored /\ SavedIsStart /\ Applying /\ Restoring)'
  OBVIOUS
<1>1. CASE Begin
  BY <1>1 DEF Begin, TunedBudgets, diskVars, batchVars
<1>2. CASE Generate
  BY <1>2 DEF Generate, diskVars, batchVars
<1>3. CASE Die
  BY <1>3 DEF Die, diskVars, batchVars
<1>4. CASE Save
  BY <1>4 DEF Save, diskVars, batchVars
<1>5. CASE ThrowInTry
  BY <1>5 DEF ThrowInTry, EnterFinally, diskVars, batchVars
<1>6. CASE RunPipeline
  BY <1>6 DEF RunPipeline, EnterFinally, diskVars, batchVars
<1>7. ASSUME NEW f \in Files, OpenBlock(f) \/ OpenOriginal(f) PROVE (ProjectRestored /\ SavedIsStart /\ Applying /\ Restoring)'
  <2>1. CASE OpenBlock(f)
    <3>1. /\ pc = "apply" /\ f \in toWrite /\ writing' = {f}
          /\ disk' = [disk EXCEPT ![f] = Torn]
          /\ UNCHANGED <<start, pc, saved, toWrite, restoring, unrestored, cands, slot>>
      BY <2>1 DEF OpenBlock, Open, batchVars
    <3> DEFINE image == [g \in Files |-> IF g \in writing' THEN Torn
                                        ELSE IF g \in Touches[cands[slot]] \ toWrite
                                        THEN cands[slot] ELSE start[g]]
    <3>2. ASSUME NEW g \in Files PROVE disk'[g] = image[g]
      BY <2>1, <3>1 DEF OpenBlock
    <3>3. disk' = image
      BY <3>1, <3>2
    <3>4. Applying'
      BY <3>1, <3>3
    <3> QED
      BY <3>1, <3>4
  <2>2. CASE OpenOriginal(f)
    BY <2>2 DEF OpenOriginal, Open, batchVars
  <2> QED
    BY <1>7, <2>1, <2>2
<1>7a. ASSUME NEW f \in Files, WriteBlock(f) PROVE (ProjectRestored /\ SavedIsStart /\ Applying /\ Restoring)'
  <2>1. /\ pc = "apply" /\ f \in writing /\ writing' = writing \ {f} /\ toWrite' = toWrite \ {f}
        /\ disk' = [disk EXCEPT ![f] = cands[slot]]
        /\ UNCHANGED <<start, pc, saved, restoring, unrestored, cands, slot>>
    BY <1>7a DEF WriteBlock, Fill, batchVars
  <2> DEFINE image == [g \in Files |-> IF g \in writing' THEN Torn
                                      ELSE IF g \in Touches[cands[slot]] \ toWrite'
                                      THEN cands[slot] ELSE start[g]]
  <2>2. ASSUME NEW g \in Files PROVE disk'[g] = image[g]
    BY <2>1
  <2>3. disk' = image
    BY <2>1, <2>2
  <2>4. Applying'
    BY <2>1, <2>3
  <2> QED
    BY <2>1, <2>4
<1>8. ASSUME NEW f \in Files, RestoreFile(f) PROVE (ProjectRestored /\ SavedIsStart /\ Applying /\ Restoring)'
  BY <1>8 DEF RestoreFile, Restorable, Fill, Rejected, diskVars, batchVars
<1>9. ASSUME NEW f \in Files, RestoreFails(f) PROVE (ProjectRestored /\ SavedIsStart /\ Applying /\ Restoring)'
  BY <1>9 DEF RestoreFails, Rejected, diskVars, batchVars
<1>10. ASSUME NEW f \in Files, Straggler(f) PROVE (ProjectRestored /\ SavedIsStart /\ Applying /\ Restoring)'
  BY <1>10 DEF Straggler, Restorable, Fill, diskVars, batchVars
<1>11. CASE JudgeVerified
  BY <1>11 DEF JudgeVerified, diskVars, batchVars
<1>12. CASE JudgeRepaired
  BY <1>12 DEF JudgeRepaired, diskVars, batchVars
<1>13. CASE Repair
  BY <1>13 DEF Repair, diskVars, batchVars
<1>14. CASE RepairDone
  BY <1>14 DEF RepairDone, diskVars, batchVars
<1>15. CASE SelectBest
  BY <1>15 DEF SelectBest, Record, Passing, diskVars, batchVars
<1>16. CASE Resample
  BY <1>16 DEF Resample, Passing, diskVars, batchVars
<1>17. CASE Exhausted
  BY <1>17 DEF Exhausted, Record, Passing, diskVars, batchVars
<1>18. CASE Escalate
  BY <1>18 DEF Escalate, diskVars, batchVars
<1>19. CASE EscalationFails
  BY <1>19 DEF EscalationFails, diskVars, batchVars
<1>20. CASE EscalationPasses
  BY <1>20 DEF EscalationPasses, Record, diskVars, batchVars
<1>21. CASE Crash
  BY <1>21 DEF Crash, diskVars, batchVars
<1>22. CASE UNCHANGED vars
  BY <1>22 DEF vars, diskVars, batchVars
<1> QED
  BY <1>1, <1>2, <1>3, <1>4, <1>5, <1>6, <1>7, <1>7a, <1>8, <1>9, <1>10, <1>11, <1>12,
     <1>13, <1>14, <1>15, <1>16, <1>17, <1>18, <1>19, <1>20, <1>21, <1>22
  DEF Next, Step

(* Every action keeps the candidates it needs. *)
LEMMA CandidateStep == IInv /\ [Next]_vars => HasCandidates'
<1> USE SamplerAssumption DEF IInv, TypeOK, Slots, Goto, HasCandidates
<1> SUFFICES ASSUME IInv, [Next]_vars PROVE HasCandidates'
  OBVIOUS
<1>1. CASE Begin
  BY <1>1 DEF Begin, TunedBudgets, diskVars, batchVars
<1>2. CASE Generate
  BY <1>2 DEF Generate, diskVars, batchVars
<1>3. CASE Die
  BY <1>3 DEF Die, diskVars, batchVars
<1>4. CASE Save
  BY <1>4 DEF Save, diskVars, batchVars
<1>5. CASE ThrowInTry
  BY <1>5 DEF ThrowInTry, EnterFinally, diskVars, batchVars
<1>6. CASE RunPipeline
  BY <1>6 DEF RunPipeline, EnterFinally, diskVars, batchVars
<1>7. ASSUME NEW f \in Files, OpenBlock(f) \/ OpenOriginal(f) PROVE HasCandidates'
  BY <1>7 DEF OpenBlock, OpenOriginal, batchVars
<1>7a. ASSUME NEW f \in Files, WriteBlock(f) PROVE HasCandidates'
  BY <1>7a DEF WriteBlock, batchVars
<1>8. ASSUME NEW f \in Files, RestoreFile(f) PROVE HasCandidates'
  BY <1>8 DEF RestoreFile, Rejected, diskVars, batchVars
<1>9. ASSUME NEW f \in Files, RestoreFails(f) PROVE HasCandidates'
  BY <1>9 DEF RestoreFails, Rejected, diskVars, batchVars
<1>10. ASSUME NEW f \in Files, Straggler(f) PROVE HasCandidates'
  BY <1>10 DEF Straggler, diskVars, batchVars
<1>11. CASE JudgeVerified
  BY <1>11 DEF JudgeVerified, diskVars, batchVars
<1>12. CASE JudgeRepaired
  BY <1>12 DEF JudgeRepaired, diskVars, batchVars
<1>13. CASE Repair
  BY <1>13 DEF Repair, diskVars, batchVars
<1>14. CASE RepairDone
  BY <1>14 DEF RepairDone, diskVars, batchVars
<1>15. CASE SelectBest
  BY <1>15 DEF SelectBest, Record, Passing, diskVars, batchVars
<1>16. CASE Resample
  BY <1>16 DEF Resample, Passing, diskVars, batchVars
<1>17. CASE Exhausted
  BY <1>17 DEF Exhausted, Record, Passing, diskVars, batchVars
<1>18. CASE Escalate
  BY <1>18 DEF Escalate, diskVars, batchVars
<1>19. CASE EscalationFails
  BY <1>19 DEF EscalationFails, diskVars, batchVars
<1>20. CASE EscalationPasses
  BY <1>20 DEF EscalationPasses, Record, diskVars, batchVars
<1>21. CASE Crash
  BY <1>21 DEF Crash, diskVars, batchVars
<1>22. CASE UNCHANGED vars
  BY <1>22 DEF vars, diskVars, batchVars
<1> QED
  BY <1>1, <1>2, <1>3, <1>4, <1>5, <1>6, <1>7, <1>7a, <1>8, <1>9, <1>10, <1>11, <1>12,
     <1>13, <1>14, <1>15, <1>16, <1>17, <1>18, <1>19, <1>20, <1>21, <1>22
  DEF Next, Step

(* Every action keeps the verdicts attached to their candidates. *)
LEMMA VerdictStep == IInv /\ [Next]_vars => VerdictIsOfTheCandidate'
<1> USE SamplerAssumption DEF IInv, TypeOK, Slots, Overlay, Applying, HasCandidates, VerdictIsOfTheCandidate
<1> SUFFICES ASSUME IInv, [Next]_vars PROVE VerdictIsOfTheCandidate'
  OBVIOUS
<1>1. CASE Begin
  BY <1>1 DEF Begin, TunedBudgets, diskVars, batchVars
<1>2. CASE Generate
  BY <1>2 DEF Generate, diskVars, batchVars
<1>3. CASE Die
  BY <1>3 DEF Die, diskVars, batchVars
<1>4. CASE Save
  BY <1>4 DEF Save, diskVars, batchVars
<1>5. CASE ThrowInTry
  BY <1>5 DEF ThrowInTry, EnterFinally, diskVars, batchVars
<1>6. CASE RunPipeline
  <2>1. disk = Overlay(start, cands[slot])
    BY <1>6 DEF RunPipeline
  <2>2. UNCHANGED <<start, cands>> /\ seen' = [seen EXCEPT ![slot] = disk]
    BY <1>6 DEF RunPipeline, EnterFinally
  <2>3. ASSUME NEW i \in Slots \ {slot} PROVE verdict'[i] = verdict[i] /\ seen'[i] = seen[i]
    BY <1>6 DEF RunPipeline, EnterFinally
  <2>4. seen'[slot] = Overlay(start, cands[slot])
    BY <2>1, <2>2
  <2>5. ASSUME NEW i \in Slots, verdict'[i] \in {"pass", "fail"}
        PROVE  seen'[i] = Overlay(start, cands[i])
    <3>1. CASE i = slot
      BY <2>4, <3>1
    <3>2. CASE i # slot
      BY <2>3, <2>5, <3>2
    <3> QED
      BY <3>1, <3>2
  <2> QED
    BY <2>2, <2>5
<1>7. ASSUME NEW f \in Files, OpenBlock(f) \/ OpenOriginal(f) PROVE VerdictIsOfTheCandidate'
  BY <1>7 DEF OpenBlock, OpenOriginal, batchVars
<1>7a. ASSUME NEW f \in Files, WriteBlock(f) PROVE VerdictIsOfTheCandidate'
  BY <1>7a DEF WriteBlock, batchVars
<1>8. ASSUME NEW f \in Files, RestoreFile(f) PROVE VerdictIsOfTheCandidate'
  BY <1>8 DEF RestoreFile, Rejected, diskVars, batchVars
<1>9. ASSUME NEW f \in Files, RestoreFails(f) PROVE VerdictIsOfTheCandidate'
  BY <1>9 DEF RestoreFails, Rejected, diskVars, batchVars
<1>10. ASSUME NEW f \in Files, Straggler(f) PROVE VerdictIsOfTheCandidate'
  BY <1>10 DEF Straggler, diskVars, batchVars
<1>11. CASE JudgeVerified
  BY <1>11 DEF JudgeVerified, diskVars, batchVars
<1>12. CASE JudgeRepaired
  BY <1>12 DEF JudgeRepaired, diskVars, batchVars
<1>13. CASE Repair
  BY <1>13 DEF Repair, diskVars, batchVars
<1>14. CASE RepairDone
  BY <1>14 DEF RepairDone, diskVars, batchVars
<1>15. CASE SelectBest
  BY <1>15 DEF SelectBest, Record, Passing, diskVars, batchVars
<1>16. CASE Resample
  BY <1>16 DEF Resample, Passing, diskVars, batchVars
<1>17. CASE Exhausted
  BY <1>17 DEF Exhausted, Record, Passing, diskVars, batchVars
<1>18. CASE Escalate
  BY <1>18 DEF Escalate, diskVars, batchVars
<1>19. CASE EscalationFails
  BY <1>19 DEF EscalationFails, diskVars, batchVars
<1>20. CASE EscalationPasses
  BY <1>20 DEF EscalationPasses, Record, diskVars, batchVars
<1>21. CASE Crash
  BY <1>21 DEF Crash, diskVars, batchVars
<1>22. CASE UNCHANGED vars
  BY <1>22 DEF vars, diskVars, batchVars
<1> QED
  BY <1>1, <1>2, <1>3, <1>4, <1>5, <1>6, <1>7, <1>7a, <1>8, <1>9, <1>10, <1>11, <1>12,
     <1>13, <1>14, <1>15, <1>16, <1>17, <1>18, <1>19, <1>20, <1>21, <1>22
  DEF Next, Step

(* Every reachable state satisfies the inductive invariant. *)
THEOREM Invariance == Spec => []IInv
<1>1. IInv /\ [Next]_vars => IInv'
  BY TypeStep, DiskStep, CandidateStep, VerdictStep DEF IInv
<1> QED
  BY InitIInv, <1>1, PTL DEF Spec

(* The state of a call is always well typed. *)
THEOREM TypeCorrect == Spec => []TypeOK
<1>1. IInv => TypeOK
  BY DEF IInv
<1> QED
  BY Invariance, <1>1, PTL

(* However many candidates are verified, repaired, resampled and escalated, *)
(* every verification leaves the target files as it found them, save those  *)
(* whose own restore write failed or is in flight after the call ended.     *)
THEOREM RestoresProject == Spec => []ProjectRestored
<1>1. IInv => ProjectRestored
  BY DEF IInv
<1> QED
  BY Invariance, <1>1, PTL

(* No verdict is contaminated by another candidate's code. *)
THEOREM VerdictsAreClean == Spec => []VerdictIsOfTheCandidate
<1>1. IInv => VerdictIsOfTheCandidate
  BY DEF IInv
<1> QED
  BY Invariance, <1>1, PTL

-----------------------------------------------------------------------------
(* The result.                                                              *)

Escalating == stage = "escalate" \/ pc = "escalate"

(* Only the last batch is followed by an escalation, and none of it passes. *)
EscalatedLast == Escalating => retries = MaxRetries /\ Passing = {}

(* Until the call is over it has no result, and has recorded a failure if   *)
(* it escalates, nothing otherwise.                                         *)
RecordedSoFar ==
  /\ pc \notin Final => telemetry = IF Escalating THEN <<FALSE>> ELSE <<>>
  /\ pc # "returned" => result = None

HonestInv == EscalatedLast /\ RecordedSoFar /\ ResultIsHonest

LEMMA Records ==
  ASSUME NEW x, NEW y
  PROVE  Append(<<>>, x) = <<x>> /\ Append(<<x>>, y) = <<x, y>>
<1>1. <<x>> \in Seq({x, y}) /\ <<x, y>> \in Seq({x, y})
  OBVIOUS
<1>2. /\ Append(<<x>>, y) \in Seq({x, y}) /\ Len(Append(<<x>>, y)) = 2
      /\ Append(<<x>>, y)[1] = x /\ Append(<<x>>, y)[2] = y
  BY <1>1
<1>3. ASSUME NEW s \in Seq({x, y}), Len(s) = 2
      PROVE  s = <<s[1], s[2]>>
  BY <1>3
<1>4. Append(<<x>>, y) = <<x, y>>
  BY <1>2, <1>3
<1>5. Append(<<>>, x) = <<x>>
  OBVIOUS
<1> QED
  BY <1>4, <1>5

(* The call gives up with a failing candidate of the last batch. *)
LEMMA GivenUp ==
  ASSUME retries' = MaxRetries, Passing' = {}, telemetry' = <<FALSE>>, pc' = "returned",
         NEW i \in 1 .. NumTemps, result' = GiveUp(i)
  PROVE  (RecordedSoFar /\ ResultIsHonest)'
<1>1. result'.passed = FALSE
  BY DEF GiveUp
<1> QED
  BY <1>1 DEF RecordedSoFar, ResultIsHonest, Final

(* A step that leaves the verdicts, the result and the records alone, and   *)
(* begins or ends no escalation, unless it ends the call.                   *)
LEMMA Unrecorded ==
  ASSUME HonestInv, UNCHANGED <<retries, verdict, telemetry, result>>,
         Escalating' => Escalating, Escalating => Escalating' \/ pc' \in Final,
         pc \notin Final, pc' # "returned"
  PROVE  HonestInv'
<1>1. result = None
  BY DEF HonestInv, RecordedSoFar, Escalating, Final
<1> QED
  BY <1>1 DEF HonestInv, EscalatedLast, RecordedSoFar, ResultIsHonest, Passing, Final

(* Every action keeps the result honest. *)
LEMMA HonestStep == IInv /\ HonestInv /\ [Next]_vars => HonestInv'
<1> SUFFICES ASSUME IInv, HonestInv, [Next]_vars PROVE HonestInv'
  OBVIOUS
<1>a. pc # "returned" => result = None
  BY DEF HonestInv, RecordedSoFar
<1>1. CASE Begin
  BY <1>1, Unrecorded DEF Escalating, Begin, Goto, batchVars, Final
<1>2. CASE Generate
  <2>1. stage # "escalate" /\ stage' = "verify" /\ pc = "generate" /\ pc' = "save"
        /\ UNCHANGED <<telemetry, result>>
    BY <1>2 DEF Generate, Goto, IInv, HasCandidates
  <2> QED
    BY <1>a, <2>1 DEF HonestInv, EscalatedLast, RecordedSoFar, Escalating, ResultIsHonest, Final
<1>3. CASE Die
  BY <1>3, Unrecorded DEF Escalating, Die, Goto, batchVars, Final, IInv, HasCandidates
<1>4. CASE Save
  BY <1>4, Unrecorded DEF Escalating, Save, Goto, batchVars, Final
<1>5. ASSUME NEW word \in {"pass", "fail", "threw"}, pc = "apply", EnterFinally(word)
      PROVE  HonestInv'
  <2>1. /\ UNCHANGED <<retries, stage, telemetry, result>> /\ pc' = "restore"
        /\ verdict' = [verdict EXCEPT ![slot] = word]
    BY <1>5 DEF EnterFinally, Goto
  <2>2. stage = "escalate" => Passing' = Passing
    <3>1. ASSUME stage = "escalate", NEW i \in 1 .. NumTemps PROVE verdict'[i] = verdict[i]
      BY <2>1, <3>1 DEF IInv, HasCandidates, TypeOK
    <3> QED
      BY <3>1 DEF Passing
  <2> QED
    BY <1>5, <1>a, <2>1, <2>2 DEF HonestInv, EscalatedLast, RecordedSoFar, Escalating, ResultIsHonest, Final
<1>6. CASE ThrowInTry
  BY <1>5, <1>6 DEF ThrowInTry
<1>7. CASE RunPipeline
  BY <1>5, <1>7 DEF RunPipeline
<1>8. ASSUME UNCHANGED <<pc, cands, verdict, seen, start, retries, stage, telemetry, result>>
      PROVE  HonestInv'
  BY <1>8 DEF HonestInv, EscalatedLast, RecordedSoFar, Escalating, ResultIsHonest, Passing, Overlay
<1>12. ASSUME NEW f \in Files, OpenBlock(f) \/ WriteBlock(f) \/ OpenOriginal(f) PROVE HonestInv'
  BY <1>8, <1>12 DEF OpenBlock, WriteBlock, OpenOriginal, batchVars
<1>9. ASSUME pc = "restore", Rejected, UNCHANGED <<retries, stage, verdict, telemetry>>
      PROVE  HonestInv'
  <2>1. CASE stage = "escalate"
    <3>1. /\ pc' = "returned" /\ retries = MaxRetries /\ Passing = {} /\ telemetry = <<FALSE>>
      BY <1>9, <2>1
         DEF Rejected, Goto, HonestInv, EscalatedLast, RecordedSoFar, Escalating, Final
    <3>2. PICK i \in 1 .. NumTemps : result' = GiveUp(i)
      BY <1>9, <2>1 DEF Rejected
    <3>3. Passing' = Passing
      BY <1>9 DEF Passing
    <3>4. retries' = MaxRetries /\ Passing' = {} /\ telemetry' = <<FALSE>>
      BY <1>9, <3>1, <3>3
    <3>5. (RecordedSoFar /\ ResultIsHonest)'
      BY <3>1, <3>2, <3>4, GivenUp
    <3> QED
      BY <3>4, <3>5 DEF HonestInv, EscalatedLast
  <2>2. CASE stage # "escalate"
    BY <1>9, <2>2, Unrecorded DEF Escalating, Rejected, Goto, Final
  <2> QED
    BY <2>1, <2>2
<1>10. ASSUME NEW f \in Files, RestoreFile(f) PROVE HonestInv'
  <2>1. pc = "restore" /\ UNCHANGED <<retries, stage, verdict, telemetry>>
    BY <1>10 DEF RestoreFile, batchVars
  <2>2. CASE Rejected
    BY <1>9, <2>1, <2>2
  <2>3. CASE pc' \in {"restore", "judge"} /\ UNCHANGED result
    BY <2>1, <2>3, Unrecorded DEF Escalating, Final
  <2> QED
    BY <1>10, <2>1, <2>2, <2>3 DEF RestoreFile, Goto
<1>11. ASSUME NEW f \in Files, RestoreFails(f) PROVE HonestInv'
  BY <1>9, <1>11 DEF RestoreFails, batchVars
<1>13. ASSUME NEW f \in Files, Straggler(f) PROVE HonestInv'
  BY <1>8, <1>13 DEF Straggler, batchVars
<1>14. CASE JudgeVerified
  BY <1>14, Unrecorded DEF Escalating, JudgeVerified, Goto, batchVars, Final
<1>15. CASE JudgeRepaired
  BY <1>15, Unrecorded DEF Escalating, JudgeRepaired, Goto, batchVars, Final
<1>16. CASE Repair
  <2>1. stage # "escalate" /\ stage' = stage /\ pc = "repair" /\ pc' = "save"
        /\ UNCHANGED <<telemetry, result>>
    BY <1>16 DEF Repair, Goto, IInv, HasCandidates
  <2> QED
    BY <1>a, <2>1 DEF HonestInv, EscalatedLast, RecordedSoFar, Escalating, ResultIsHonest, Final
<1>17. CASE RepairDone
  BY <1>17, Unrecorded DEF Escalating, RepairDone, Goto, batchVars, Final
<1>18. CASE SelectBest
  <2>1. /\ pc = "select" /\ stage # "escalate" /\ pc' = "returned" /\ stage' = stage
        /\ telemetry' = Append(telemetry, TRUE) /\ UNCHANGED <<cands, verdict, seen, start>>
    BY <1>18 DEF SelectBest, Record, Goto, batchVars, IInv, HasCandidates
  <2>2. telemetry' = <<TRUE>>
    BY <2>1, Records DEF HonestInv, RecordedSoFar, Escalating, Final
  <2>3. PICK i \in Passing : result' = [change |-> cands[i], passed |-> TRUE, escalated |-> FALSE]
    BY <1>18 DEF SelectBest
  <2>4. i \in Slots /\ i # 0 /\ verdict[i] = "pass" /\ seen[i] = Overlay(start, cands[i])
    BY <2>3 DEF Passing, Slots, IInv, VerdictIsOfTheCandidate
  <2>5. result'.passed = TRUE /\ result'.escalated = FALSE /\ result'.change = cands[i]
    BY <2>3
  <2>6. seen'[i] = Overlay(start', result'.change)
    BY <2>1, <2>4, <2>5 DEF Overlay
  <2> QED
    BY <2>1, <2>2, <2>4, <2>5, <2>6
       DEF HonestInv, EscalatedLast, RecordedSoFar, Escalating, ResultIsHonest, Final
<1>19. CASE Resample
  <2>1. stage # "escalate" /\ stage' = stage /\ pc = "select" /\ pc' = "begin"
        /\ UNCHANGED <<telemetry, result>>
    BY <1>19 DEF Resample, Goto, IInv, HasCandidates
  <2> QED
    BY <1>a, <2>1 DEF HonestInv, EscalatedLast, RecordedSoFar, Escalating, ResultIsHonest, Final
<1>20. CASE Exhausted
  <2>1. /\ pc = "select" /\ stage # "escalate" /\ stage' = stage /\ retries' = MaxRetries
        /\ Passing = {} /\ verdict' = verdict /\ telemetry' = Append(telemetry, FALSE)
    BY <1>20 DEF Exhausted, Record, Goto, batchVars, IInv, HasCandidates
  <2>2. telemetry' = <<FALSE>> /\ Passing' = {}
    BY <2>1, Records DEF HonestInv, RecordedSoFar, Escalating, Final, Passing
  <2>3. CASE Escalation
    <3>1. pc' = "escalate" /\ result' = result
      BY <1>20, <2>3 DEF Exhausted, Goto
    <3> QED
      BY <1>a, <2>1, <2>2, <3>1
         DEF HonestInv, EscalatedLast, RecordedSoFar, Escalating, ResultIsHonest, Final
  <2>4. CASE ~Escalation
    <3>1. PICK i \in 1 .. NumTemps : pc' = "returned" /\ result' = GiveUp(i)
      BY <1>20, <2>4 DEF Exhausted, Goto
    <3> QED
      BY <2>1, <2>2, <3>1, GivenUp DEF HonestInv, EscalatedLast
  <2> QED
    BY <2>3, <2>4
<1>21. CASE Escalate
  BY <1>21, Unrecorded DEF Escalating, Escalate, Goto, Final
<1>22. CASE EscalationFails
  <2>1. /\ pc \notin Final /\ Escalating
        /\ pc' = "returned" /\ UNCHANGED <<retries, verdict, telemetry>>
    BY <1>22 DEF EscalationFails, Escalating, Goto, batchVars, Final
  <2>2. retries' = MaxRetries /\ Passing' = {} /\ telemetry' = <<FALSE>>
    BY <2>1 DEF HonestInv, EscalatedLast, RecordedSoFar, Escalating, Passing
  <2>3. PICK i \in 1 .. NumTemps : result' = GiveUp(i)
    BY <1>22 DEF EscalationFails
  <2> QED
    BY <2>1, <2>2, <2>3, GivenUp DEF HonestInv, EscalatedLast
<1>23. CASE EscalationPasses
  <2>1. /\ pc = "judge" /\ stage = "escalate" /\ verdict[0] = "pass"
        /\ result' = [change |-> cands[0], passed |-> TRUE, escalated |-> TRUE]
        /\ pc' = "returned" /\ stage' = stage /\ retries' = retries
        /\ telemetry' = Append(telemetry, TRUE) /\ UNCHANGED <<cands, verdict, seen, start>>
    BY <1>23 DEF EscalationPasses, Record, Goto, batchVars
  <2>2. telemetry = <<FALSE>> /\ retries' = MaxRetries /\ Passing' = {}
    BY <2>1 DEF HonestInv, EscalatedLast, RecordedSoFar, Escalating, Final, Passing
  <2>3. telemetry' = <<FALSE, TRUE>>
    BY <2>1, <2>2, Records
  <2>4. 0 \in Slots /\ seen[0] = Overlay(start, cands[0])
    BY <2>1, SamplerAssumption DEF Slots, IInv, VerdictIsOfTheCandidate
  <2>5. result'.passed = TRUE /\ result'.escalated = TRUE /\ result'.change = cands[0]
    BY <2>1
  <2>6. seen'[0] = Overlay(start', result'.change)
    BY <2>1, <2>4, <2>5 DEF Overlay
  <2> QED
    BY <2>1, <2>2, <2>3, <2>4, <2>5, <2>6
       DEF HonestInv, EscalatedLast, RecordedSoFar, Escalating, ResultIsHonest, Final
<1>24. CASE Crash
  BY <1>24, Unrecorded DEF Escalating, Crash, Goto, batchVars, Final, IInv, HasCandidates
<1>25. CASE UNCHANGED vars
  BY <1>8, <1>25 DEF vars, batchVars
<1> QED
  BY <1>1, <1>2, <1>3, <1>4, <1>6, <1>7, <1>10, <1>11, <1>12, <1>13, <1>14, <1>15, <1>16,
     <1>17, <1>18, <1>19, <1>20, <1>21, <1>22, <1>23, <1>24, <1>25
  DEF Next, Step

(* What sample() reports as passing passed on the project with its own      *)
(* changes and nobody else's; it gives up only when the last batch of the   *)
(* last retry has nothing that passes; and its records say the same, for    *)
(* any number of candidates, retries and repairs.                           *)
THEOREM ResultsAreHonest == Spec => []ResultIsHonest
<1>1. Init => HonestInv
  BY DEF Init, HonestInv, EscalatedLast, RecordedSoFar, Escalating, ResultIsHonest, Final
<1>2. HonestInv => ResultIsHonest
  BY DEF HonestInv
<1> QED
  BY <1>1, <1>2, Invariance, HonestStep, PTL DEF Spec

-----------------------------------------------------------------------------
(* The contract.                                                            *)

(* A verdict that is about to be given replaces no pass: what has passed is *)
(* neither verified again nor repaired, and a new batch only follows one    *)
(* without a pass.                                                          *)
NotYetPassed ==
  /\ pc \in {"begin", "generate"} => \A i \in Slots : verdict[i] # "pass"
  /\ pc \in {"save", "apply"} => verdict[slot] # "pass"
  /\ stage = "verify" /\ pc \in {"save", "apply", "restore", "judge"} =>
       \A i \in slot + 1 .. NumTemps : verdict[i] # "pass"
  /\ pc = "repair" => stage = "repair"

(* A file not restored yet holds its old content, the candidate's block, or *)
(* what a write left that has not ended.                                    *)
PartlyRestored ==
  pc = "restore" =>
    \A f \in Files : disk[f] \in {start[f], Overlay(start, cands[slot])[f], Torn}

(* A restore still under way after the call is not one that was rejected,   *)
(* and is there because another one was.                                    *)
LeftInFlight == restoring \cap unrestored = {}

ContractInv == NotYetPassed /\ PartlyRestored /\ LeftInFlight

(* Every action keeps the passes ahead of it unset. *)
LEMMA NotYetPassedStep == IInv /\ NotYetPassed /\ [Next]_vars => NotYetPassed'
<1> USE SamplerAssumption DEF Goto, diskVars, batchVars
<1> SUFFICES ASSUME IInv, NotYetPassed, [Next]_vars PROVE NotYetPassed'
  OBVIOUS
<1>t. /\ slot \in Slots /\ verdict \in [Slots -> {"none", "pass", "fail", "threw"}]
      /\ 1 \in Slots /\ NumTemps \in Nat \ {0}
      /\ \A i : i \in Slots <=> i \in Int /\ 0 <= i /\ i <= NumTemps
  BY DEF IInv, TypeOK, Slots
<1>s. /\ pc \in {"begin", "generate", "repair", "select"} => stage # "escalate"
      /\ stage # "escalate" => slot \in 1 .. NumTemps /\ verdict[0] = "none"
      /\ stage = "escalate" => slot = 0
  BY DEF IInv, HasCandidates
<1>1. CASE Begin \/ Die \/ Save \/ Crash
  BY <1>1, <1>t DEF Begin, Die, Save, Crash, NotYetPassed, Final
<1>2. CASE Generate
  BY <1>2, <1>t DEF Generate, NotYetPassed
<1>3. ASSUME NEW word \in {"pass", "fail", "threw"}, pc = "apply", EnterFinally(word)
      PROVE  NotYetPassed'
  <2>1. pc' = "restore" /\ slot' = slot /\ stage' = stage /\ verdict' = [verdict EXCEPT ![slot] = word]
    BY <1>3 DEF EnterFinally
  <2>2. ASSUME stage = "verify", NEW i \in slot + 1 .. NumTemps PROVE verdict'[i] # "pass"
    <3>1. i \in Slots /\ i # slot
      BY <1>t
    <3>2. verdict[i] # "pass"
      BY <1>3, <2>2 DEF NotYetPassed
    <3> QED
      BY <2>1, <1>t, <3>1, <3>2
  <2> QED
    BY <2>1, <2>2 DEF NotYetPassed
<1>4. CASE ThrowInTry \/ RunPipeline
  BY <1>3, <1>4 DEF ThrowInTry, RunPipeline
<1>5. ASSUME NEW f \in Files,
             \/ OpenBlock(f) \/ WriteBlock(f) \/ OpenOriginal(f)
             \/ RestoreFile(f) \/ RestoreFails(f) \/ Straggler(f)
      PROVE  NotYetPassed'
  <2>1. /\ UNCHANGED <<slot, stage, verdict>>
        /\ \/ pc' = pc
           \/ pc = "restore" /\ pc' \in {"judge", "returned", "failed"}
    BY <1>5 DEF OpenBlock, WriteBlock, OpenOriginal, RestoreFile, RestoreFails, Straggler, Rejected
  <2> QED
    BY <2>1 DEF NotYetPassed
<1>6. CASE JudgeVerified
  <2>1. stage = "verify" /\ pc = "judge" /\ verdict' = verdict
    BY <1>6 DEF JudgeVerified
  <2>2. CASE slot < NumTemps
    <3>1. slot' = slot + 1 /\ pc' = "save" /\ stage' = stage /\ slot \in Int
      BY <1>6, <1>t, <2>2 DEF JudgeVerified
    <3>2. \A i \in slot + 1 .. NumTemps : verdict[i] # "pass"
      BY <2>1 DEF NotYetPassed
    <3>3. slot' \in slot + 1 .. NumTemps /\ \A i \in slot' + 1 .. NumTemps : i \in slot + 1 .. NumTemps
      BY <1>t, <2>2, <3>1
    <3> QED
      BY <2>1, <3>1, <3>2, <3>3 DEF NotYetPassed
  <2>3. CASE ~(slot < NumTemps)
    BY <1>6, <2>3 DEF JudgeVerified, NotYetPassed
  <2> QED
    BY <2>2, <2>3
<1>7. CASE JudgeRepaired \/ RepairDone \/ SelectBest \/ Exhausted \/ EscalationFails \/ EscalationPasses
  <2>1. /\ pc' \in {"repair", "select", "returned", "escalate"}
        /\ pc' = "repair" => stage' = stage /\ (pc = "repair" \/ stage = "repair")
    BY <1>7 DEF JudgeRepaired, RepairDone, SelectBest, Exhausted, EscalationFails, EscalationPasses
  <2> QED
    BY <2>1 DEF NotYetPassed
<1>8. CASE Repair
  <2>1. /\ slot' = slot /\ stage' = stage /\ pc' = "save"
        /\ verdict' = [verdict EXCEPT ![slot] = "none"] /\ pc = "repair"
    BY <1>8 DEF Repair
  <2>2. verdict'[slot'] = "none" /\ stage' = "repair"
    BY <2>1, <1>t DEF NotYetPassed
  <2> QED
    BY <2>1, <2>2 DEF NotYetPassed
<1>9. CASE Resample
  <2>1. pc = "select" /\ pc' = "begin" /\ verdict' = verdict /\ Passing = {}
    BY <1>9 DEF Resample
  <2>2. ASSUME NEW i \in Slots PROVE verdict'[i] # "pass"
    <3>1. CASE i = 0
      BY <1>s, <2>1, <3>1
    <3>2. CASE i # 0
      BY <1>t, <2>1, <3>2 DEF Passing
    <3> QED
      BY <3>1, <3>2
  <2> QED
    BY <2>1, <2>2 DEF NotYetPassed
<1>10. CASE Escalate
  <2>1. stage # "escalate"
    BY <1>10 DEF Escalate, IInv, HasCandidates
  <2> QED
    BY <1>10, <1>s, <2>1 DEF Escalate, NotYetPassed
<1>11. CASE UNCHANGED vars
  BY <1>11 DEF vars, NotYetPassed
<1> QED
  BY <1>1, <1>2, <1>4, <1>5, <1>6, <1>7, <1>8, <1>9, <1>10, <1>11 DEF Next, Step

(* Until the files are restored, they hold a candidate's blocks or nothing  *)
(* new, and a restore is either rejected or under way.                      *)
LEMMA RestoreStep ==
  IInv /\ PartlyRestored /\ LeftInFlight /\ [Next]_vars => PartlyRestored' /\ LeftInFlight'
<1> USE DEF Goto, diskVars, batchVars, PartlyRestored
<1> SUFFICES ASSUME IInv, PartlyRestored, LeftInFlight, [Next]_vars
             PROVE  PartlyRestored' /\ LeftInFlight'
  OBVIOUS
<1>t. /\ disk \in [Files -> Contents] /\ restoring \subseteq Files
      /\ slot \in Slots /\ cands \in [Slots -> Changes \cup {None}]
  BY DEF IInv, TypeOK, Images
<1>1. ASSUME NEW word \in {"pass", "fail", "threw"}, pc = "apply", EnterFinally(word)
      PROVE  PartlyRestored' /\ LeftInFlight'
  <2>1. UNCHANGED <<disk, start, cands, slot, unrestored>>
    BY <1>1 DEF EnterFinally
  <2>2. \A f \in Files : disk[f] \in {start[f], Overlay(start, cands[slot])[f], Torn}
    BY <1>1 DEF Overlay, IInv, Applying
  <2>3. unrestored = {}
    BY <1>1 DEF IInv, Restoring, Final
  <2>4. (Overlay(start, cands[slot]))' = Overlay(start, cands[slot])
    BY <2>1 DEF Overlay
  <2> QED
    BY <2>1, <2>2, <2>3, <2>4 DEF LeftInFlight
<1>2. CASE ThrowInTry \/ RunPipeline
  BY <1>1, <1>2 DEF ThrowInTry, RunPipeline
<1>3. ASSUME NEW f \in Files, RestoreFile(f)
      PROVE  PartlyRestored' /\ LeftInFlight'
  <2>1. /\ pc = "restore" /\ UNCHANGED <<start, cands, slot, unrestored>>
        /\ disk' = [disk EXCEPT ![f] = start[f]] /\ restoring' = restoring \ {f}
    BY <1>3 DEF RestoreFile, Fill, IInv, SavedIsStart
  <2>2. (Overlay(start, cands[slot]))' = Overlay(start, cands[slot])
    BY <2>1 DEF Overlay
  <2> QED
    BY <1>t, <2>1, <2>2 DEF LeftInFlight
<1>4. ASSUME NEW f \in Files, RestoreFails(f)
      PROVE  PartlyRestored' /\ LeftInFlight'
  <2>1. pc' # "restore" /\ unrestored' = unrestored \cup {f} /\ restoring' = restoring \ {f}
    BY <1>4 DEF RestoreFails, Rejected
  <2> QED
    BY <2>1 DEF LeftInFlight
<1>5. ASSUME NEW f \in Files, Straggler(f)
      PROVE  PartlyRestored' /\ LeftInFlight'
  BY <1>5 DEF Straggler, LeftInFlight
<1>6. ASSUME NEW f \in Files, WriteBlock(f)
      PROVE  PartlyRestored' /\ LeftInFlight'
  BY <1>6 DEF WriteBlock, LeftInFlight
<1>6a. ASSUME NEW f \in Files, OpenBlock(f) \/ OpenOriginal(f)
       PROVE  PartlyRestored' /\ LeftInFlight'
  <2>1. /\ disk' = [disk EXCEPT ![f] = Torn]
        /\ UNCHANGED <<pc, start, cands, slot, restoring, unrestored>>
    BY <1>6a DEF OpenBlock, OpenOriginal, Open
  <2>2. (Overlay(start, cands[slot]))' = Overlay(start, cands[slot])
    BY <2>1 DEF Overlay
  <2> QED
    BY <1>t, <2>1, <2>2 DEF LeftInFlight
<1>7. CASE Begin \/ Generate \/ Die \/ Save \/ Crash
  <2>1. pc' # "restore" /\ restoring' \subseteq restoring /\ unrestored' = unrestored
    BY <1>7 DEF Begin, Generate, Die, Save, Crash
  <2> QED
    BY <2>1 DEF LeftInFlight
<1>8. CASE \/ JudgeVerified \/ JudgeRepaired \/ Repair \/ RepairDone
           \/ SelectBest \/ Resample \/ Exhausted
           \/ Escalate \/ EscalationFails \/ EscalationPasses
  <2>1. pc' # "restore"
    BY <1>8
       DEF JudgeVerified, JudgeRepaired, Repair, RepairDone, SelectBest, Resample, Exhausted,
       Escalate, EscalationFails, EscalationPasses
  <2>2. UNCHANGED <<restoring, unrestored>>
    BY <1>8
       DEF JudgeVerified, JudgeRepaired, Repair, RepairDone, SelectBest, Resample, Exhausted,
       Escalate, EscalationFails, EscalationPasses
  <2> QED
    BY <2>1, <2>2 DEF LeftInFlight
<1>9. CASE UNCHANGED vars
  BY <1>9 DEF vars, Overlay, LeftInFlight
<1> QED
  BY <1>2, <1>3, <1>4, <1>5, <1>6, <1>6a, <1>7, <1>8, <1>9 DEF Next, Step

(* A step of a running call that changes nothing the pipeline passed is not *)
(* seen from outside.                                                       *)
LEMMA Unseen ==
  ASSUME IInv, IInv', UNCHANGED start, pc \notin Final, pc' \notin Final, Passed' = Passed
  PROVE  UNCHANGED Contract!vars
<1>1. Outcome = "none" /\ Outcome' = "none"
  BY DEF Outcome, Final
<1>2. unrestored = {} /\ unrestored' = {}
  BY DEF IInv, Restoring
<1>3. pc # "returned" /\ pc' # "returned"
  BY DEF Final
<1> QED
  BY <1>1, <1>2, <1>3 DEF Contract!vars

(* What has passed depends on the slots that have passed. *)
LEMMA PassedKept ==
  ASSUME \A i \in Slots : /\ verdict'[i] = "pass" <=> verdict[i] = "pass"
                          /\ verdict[i] = "pass" => cands'[i] = cands[i] /\ seen'[i] = seen[i]
  PROVE  Passed' = Passed
BY DEF Passed

(* A call that ends without a change that passed keeps what the contract    *)
(* says of the files.                                                       *)
LEMMA Stops ==
  ASSUME IInv, IInv', LeftInFlight', UNCHANGED start, pc \notin Final, Passed' = Passed,
         \/ pc' = "failed"
         \/ pc' = "returned" /\ \E i \in 1 .. NumTemps : cands[i] \in Changes /\ result' = GiveUp(i),
         restoring' # {} => unrestored' # {},
         disk' = start \/ \E c \in Changes :
                            \A f \in Files : disk'[f] \in {start[f], Overlay(start, c)[f], Torn}
  PROVE  Contract!Stop
<1>1. Outcome = "none" /\ pc # "returned"
  BY DEF Outcome, Final
<1>2. \/ pc' = "failed" /\ Outcome' = "failed"
      \/ pc' = "returned" /\ Outcome' = "gave up" /\ result'.change \in Changes
  <2>1. CASE pc' = "failed"
    BY <2>1 DEF Outcome
  <2>2. ASSUME pc' = "returned", NEW i \in 1 .. NumTemps, cands[i] \in Changes, result' = GiveUp(i)
        PROVE  Outcome' = "gave up" /\ result'.change \in Changes
    <3>1. result'.passed = FALSE /\ result'.change = cands[i]
      BY <2>2 DEF GiveUp
    <3> QED
      BY <2>2, <3>1 DEF Outcome
  <2> QED
    BY <2>1, <2>2
<1>3. unrestored' \subseteq Files /\ restoring' \subseteq Files \ unrestored'
  BY DEF IInv, TypeOK, LeftInFlight
<1>4. /\ disk' \in [Files -> Contents]
      /\ \A f \in Files \ (unrestored' \cup restoring') : disk'[f] = start[f]
  BY DEF IInv, TypeOK, Images, ProjectRestored
<1>5. \A c : Contract!With(c) = Overlay(start, c)
  BY DEF Contract!With, Overlay
<1>6. pc' \in Final
  BY DEF Final
<1>7. Contract!Leave(unrestored' \cup restoring')
  BY <1>3, <1>4, <1>5, <1>6 DEF Contract!Leave
<1> QED
  BY <1>1, <1>2, <1>3, <1>6, <1>7 DEF Contract!Stop

(* A change that passed and comes back. *)
LEMMA Passes ==
  ASSUME IInv, pc \in {"select", "judge"}, pc' = "returned", UNCHANGED <<start, diskVars, batchVars>>,
         NEW i \in Slots, verdict[i] = "pass", result'.change = cands[i], result'.passed
  PROVE  cands[i] \in Changes => Contract!Pass(cands[i])
<1>1. Passed' = Passed
  BY PassedKept DEF batchVars
<1>2. [change |-> cands[i], on |-> seen[i]] \in Passed
  BY DEF Passed
<1>3. Outcome = "none" /\ Outcome' = "passed"
  BY DEF Outcome
<1>4. disk' = start /\ UNCHANGED unrestored /\ restoring' = {}
  BY DEF diskVars, IInv, ProjectRestored, Restoring, Final
<1> QED
  BY <1>1, <1>2, <1>3, <1>4 DEF Contract!Pass, Final

(* Every step of a call is a step the contract allows, or is not seen by    *)
(* the caller.                                                              *)
LEMMA ContractStep ==
  /\ IInv /\ HonestInv /\ ContractInv /\ [Next]_vars
  /\ IInv' /\ ContractInv'
  => [Contract!Next]_Contract!vars
<1> SUFFICES ASSUME IInv, HonestInv, ContractInv, [Next]_vars, IInv', ContractInv'
             PROVE  Contract!Next \/ UNCHANGED Contract!vars
  OBVIOUS
<1> USE DEF Goto
<1>a. NotYetPassed /\ PartlyRestored /\ LeftInFlight'
  BY DEF ContractInv
<1>b. pc \notin Final => unrestored = {}
  BY DEF IInv, Restoring
<1>c. pc \notin Final \cup {"apply", "restore"} => disk = start /\ restoring = {}
  BY DEF IInv, Restoring, ProjectRestored, Final
<1>d. /\ slot \in Slots /\ verdict \in [Slots -> {"none", "pass", "fail", "threw"}]
      /\ cands \in [Slots -> Changes \cup {None}] /\ seen \in [Slots -> Images]
  BY DEF IInv, TypeOK
<1>e. pc \in {"save", "apply", "restore", "judge", "repair", "select", "escalate"} =>
        \A i \in 1 .. NumTemps : cands[i] \in Changes
  BY DEF IInv, HasCandidates
<1>1. CASE Begin \/ Save \/ JudgeVerified \/ JudgeRepaired \/ RepairDone \/ Resample
  <2>1. UNCHANGED <<start, cands, verdict, seen>> /\ pc \notin Final /\ pc' \notin Final
    BY <1>1
       DEF Begin, Save, JudgeVerified, JudgeRepaired, RepairDone, Resample, diskVars, batchVars, Final
  <2> QED
    BY <2>1, PassedKept, Unseen
<1>2. ASSUME NEW f \in Files, OpenBlock(f) \/ WriteBlock(f) PROVE UNCHANGED Contract!vars
  <2>1. UNCHANGED <<start, cands, verdict, seen>> /\ pc \notin Final /\ pc' \notin Final
    BY <1>2 DEF OpenBlock, WriteBlock, batchVars, Final
  <2> QED
    BY <2>1, PassedKept, Unseen
<1>3. CASE Generate
  <2>1. UNCHANGED start /\ pc \notin Final /\ pc' \notin Final
    BY <1>3 DEF Generate, Final
  <2>2. \A i \in Slots : verdict[i] # "pass" /\ verdict'[i] # "pass"
    BY <1>3, <1>a DEF Generate, NotYetPassed
  <2> QED
    BY <2>1, <2>2, PassedKept, Unseen
<1>4. ASSUME verdict[slot] # "pass", UNCHANGED <<start, seen>>, pc \notin Final, pc' \notin Final,
             \A i \in Slots \ {slot} : cands'[i] = cands[i] /\ verdict'[i] = verdict[i],
             verdict'[slot] # "pass"
      PROVE  UNCHANGED Contract!vars
  <2>1. Passed' = Passed
    BY <1>4, PassedKept
  <2> QED
    BY <1>4, <2>1, Unseen
<1>5. CASE ThrowInTry
  BY <1>4, <1>5, <1>a, <1>d DEF ThrowInTry, EnterFinally, NotYetPassed, Final
<1>6. CASE Repair
  BY <1>4, <1>6, <1>d DEF Repair, Final
<1>7. CASE Escalate
  <2>1. UNCHANGED <<start, verdict, seen>> /\ pc \notin Final /\ pc' \notin Final /\ pc = "escalate"
        /\ \A i \in Slots \ {0} : cands'[i] = cands[i]
    BY <1>7, <1>d DEF Escalate, Final
  <2>2. verdict[0] # "pass"
    BY <2>1 DEF IInv, HasCandidates
  <2> QED
    BY <2>1, <2>2, PassedKept, Unseen
<1>8. CASE RunPipeline
  <2>1. /\ pc = "apply" /\ toWrite = {} /\ pc' = "restore" /\ UNCHANGED <<start, cands, unrestored>>
        /\ seen' = [seen EXCEPT ![slot] = disk]
    BY <1>8 DEF RunPipeline, EnterFinally
  <2>2. PICK word \in {"pass", "fail"} : verdict' = [verdict EXCEPT ![slot] = word]
    BY <1>8 DEF RunPipeline, EnterFinally
  <2>3. disk = Overlay(start, cands[slot]) /\ cands[slot] \in Changes
    BY <2>1 DEF IInv, Applying, Overlay
  <2>4. verdict[slot] # "pass"
    BY <2>1, <1>a DEF NotYetPassed
  <2>5. CASE word = "fail"
    <3>1. \A i \in Slots : /\ verdict'[i] = "pass" <=> verdict[i] = "pass"
                           /\ verdict[i] = "pass" => cands'[i] = cands[i] /\ seen'[i] = seen[i]
      BY <1>d, <2>1, <2>2, <2>4, <2>5
    <3>2. pc \notin Final /\ pc' \notin Final
      BY <2>1 DEF Final
    <3> QED
      BY <2>1, <3>1, <3>2, PassedKept, Unseen
  <2>6. CASE word = "pass"
    <3>1. /\ \A i \in Slots \ {slot} : verdict'[i] = verdict[i] /\ seen'[i] = seen[i]
          /\ verdict'[slot] = "pass" /\ seen'[slot] = disk
      BY <1>d, <2>1, <2>2, <2>6
    <3>2. Passed' = Passed \cup {[change |-> cands[slot], on |-> disk]}
      BY <1>d, <2>1, <2>4, <3>1 DEF Passed
    <3>3. Contract!With(cands[slot]) = disk
      BY <2>3 DEF Contract!With, Overlay
    <3>4. Outcome = "none" /\ Outcome' = "none"
      BY <2>1 DEF Outcome
    <3>5. pc \notin Final /\ pc' \notin Final /\ pc # "returned" /\ pc' # "returned"
      BY <2>1 DEF Final
    <3>6. Contract!Verify(cands[slot])
      BY <2>1, <3>2, <3>3, <3>4, <3>5 DEF Contract!Verify
    <3> QED
      BY <2>3, <3>6 DEF Contract!Next
  <2> QED
    BY <2>2, <2>5, <2>6
<1>9. CASE Die
  <2>1. pc' = "failed" /\ pc \notin Final \cup {"apply", "restore"}
        /\ UNCHANGED <<start, disk, restoring, cands, verdict, seen>>
    BY <1>9 DEF Die, diskVars, batchVars, Final
  <2>2. Passed' = Passed
    BY <2>1, PassedKept
  <2>3. Contract!Stop
    BY <1>a, <1>c, <2>1, <2>2, Stops
  <2> QED
    BY <2>3 DEF Contract!Next
<1>10. ASSUME pc = "restore", Rejected, UNCHANGED <<start, cands, verdict, seen>>,
              restoring' # {} => unrestored' # {},
              disk' = start \/ disk' = disk
       PROVE  Contract!Stop
  <2>1. Passed' = Passed
    BY <1>10, PassedKept
  <2>2. \/ pc' = "failed"
        \/ pc' = "returned" /\ \E i \in 1 .. NumTemps : cands[i] \in Changes /\ result' = GiveUp(i)
    BY <1>10, <1>e DEF Rejected
  <2>3. cands[slot] \in Changes
    BY <1>10 DEF IInv, HasCandidates
  <2>4. disk' = start \/ \A f \in Files : disk'[f] \in {start[f], Overlay(start, cands[slot])[f], Torn}
    BY <1>10, <1>a DEF PartlyRestored
  <2>5. pc \notin Final
    BY <1>10 DEF Final
  <2> QED
    BY <1>a, <1>10, <2>1, <2>2, <2>3, <2>4, <2>5, Stops
<1>11. ASSUME NEW f \in Files, RestoreFile(f) PROVE Contract!Stop \/ UNCHANGED Contract!vars
  <2>1. pc = "restore" /\ UNCHANGED <<start, cands, verdict, seen, unrestored>>
    BY <1>11 DEF RestoreFile, batchVars
  <2>2. CASE pc' \notin Final
    <3>1. pc \notin Final
      BY <2>1 DEF Final
    <3> QED
      BY <2>1, <2>2, <3>1, PassedKept, Unseen
  <2>3. CASE pc' \in Final
    <3>1. Rejected /\ restoring' = {} /\ pc' \in {"returned", "failed"}
      BY <1>11, <2>1, <2>3 DEF RestoreFile, Rejected, Final
    <3>2. unrestored' = {}
      BY <1>b, <2>1 DEF Final
    <3>3. \A g \in Files : disk'[g] = start'[g]
      BY <3>1, <3>2 DEF IInv, ProjectRestored
    <3>4. disk' = start
      BY <2>1, <3>3 DEF IInv, TypeOK, Images
    <3> QED
      BY <1>10, <2>1, <3>1, <3>4
  <2> QED
    BY <2>2, <2>3
<1>12. ASSUME NEW f \in Files, RestoreFails(f) PROVE Contract!Stop
  BY <1>10, <1>12 DEF RestoreFails, batchVars
<1>13. ASSUME NEW f \in Files, Straggler(f) PROVE Contract!Settle(f)
  <2>1. /\ pc \in {"returned", "failed"} /\ f \in restoring /\ restoring' = restoring \ {f}
        /\ UNCHANGED <<start, pc, saved, cands, verdict, seen, result>>
    BY <1>13 DEF Straggler, batchVars
  <2>2. saved = start
    BY <2>1 DEF IInv, SavedIsStart
  <2>3. \/ disk' = [disk EXCEPT ![f] = start[f]] /\ UNCHANGED unrestored
        \/ unrestored' = unrestored \cup {f} /\ UNCHANGED disk
    BY <1>13, <2>2 DEF Straggler, Fill
  <2>4. Passed' = Passed
    BY <2>1, PassedKept
  <2>5. Outcome # "none" /\ Outcome' = Outcome
    BY <2>1 DEF Outcome
  <2>6. pc \in Final /\ pc' \in Final
    BY <2>1 DEF Final
  <2> QED
    BY <2>1, <2>3, <2>4, <2>5, <2>6 DEF Contract!Settle
<1>13a. ASSUME NEW f \in Files, OpenOriginal(f) PROVE Contract!Open(f) \/ UNCHANGED Contract!vars
  <2>1. /\ pc \in {"restore", "returned", "failed"} /\ f \in restoring
        /\ disk' = [disk EXCEPT ![f] = Torn]
        /\ UNCHANGED <<start, pc, restoring, unrestored, cands, verdict, seen, result>>
    BY <1>13a DEF OpenOriginal, Open, batchVars
  <2>2. Passed' = Passed
    BY <2>1, PassedKept
  <2>3. CASE pc = "restore"
    BY <2>1, <2>2, <2>3, Unseen DEF Final
  <2>4. CASE pc # "restore"
    <3>1. pc \in Final /\ pc' \in Final /\ Outcome # "none" /\ Outcome' = Outcome
      BY <2>1, <2>4 DEF Outcome, Final
    <3> QED
      BY <2>1, <2>2, <3>1 DEF Contract!Open
  <2> QED
    BY <2>3, <2>4
<1>14. CASE SelectBest
  <2>1. pc = "select" /\ pc' = "returned" /\ UNCHANGED <<start, diskVars, batchVars>>
    BY <1>14 DEF SelectBest
  <2>2. PICK i \in Passing : result' = [change |-> cands[i], passed |-> TRUE, escalated |-> FALSE]
    BY <1>14 DEF SelectBest
  <2>3. i \in 1 .. NumTemps /\ i \in Slots /\ verdict[i] = "pass"
    BY <2>2, SamplerAssumption DEF Passing, Slots
  <2>4. cands[i] \in Changes
    BY <1>e, <2>1, <2>3
  <2>5. Contract!Pass(cands[i])
    BY <2>1, <2>2, <2>3, <2>4, Passes
  <2> QED
    BY <2>4, <2>5 DEF Contract!Next
<1>15. CASE EscalationPasses
  <2>1. /\ pc = "judge" /\ pc' = "returned" /\ UNCHANGED <<start, diskVars, batchVars>>
        /\ stage = "escalate" /\ verdict[0] = "pass"
        /\ result' = [change |-> cands[0], passed |-> TRUE, escalated |-> TRUE]
    BY <1>15 DEF EscalationPasses
  <2>2. 0 \in Slots
    BY SamplerAssumption DEF Slots
  <2>3. cands[0] \in Changes
    BY <2>1 DEF IInv, HasCandidates
  <2>4. Contract!Pass(cands[0])
    BY <2>1, <2>2, <2>3, Passes
  <2> QED
    BY <2>3, <2>4 DEF Contract!Next
<1>16. ASSUME pc \notin Final \cup {"apply", "restore"}, pc' = "returned",
              UNCHANGED <<start, diskVars, batchVars>>,
              NEW i \in 1 .. NumTemps, cands[i] \in Changes, result' = GiveUp(i)
       PROVE  Contract!Stop
  <2>1. Passed' = Passed /\ disk' = start /\ restoring' = {}
    BY <1>16, <1>c, PassedKept DEF diskVars, batchVars
  <2> QED
    BY <1>16, <1>a, <2>1, Stops
<1>17. CASE EscalationFails
  <2>1. PICK i \in 1 .. NumTemps : result' = GiveUp(i)
    BY <1>17 DEF EscalationFails
  <2>2. /\ pc \in {"escalate", "save", "judge"} /\ pc' = "returned"
        /\ UNCHANGED <<start, diskVars, batchVars>>
    BY <1>17 DEF EscalationFails
  <2>3. cands[i] \in Changes /\ pc \notin Final \cup {"apply", "restore"}
    BY <1>e, <2>2 DEF Final
  <2> QED
    BY <1>16, <2>1, <2>2, <2>3 DEF Contract!Next
<1>18. CASE Exhausted
  <2>1. pc = "select" /\ UNCHANGED <<start, diskVars, batchVars>>
    BY <1>18 DEF Exhausted
  <2>2. CASE Escalation
    <3>1. pc \notin Final /\ pc' \notin Final /\ UNCHANGED <<start, cands, verdict, seen>>
      BY <1>18, <2>1, <2>2 DEF Exhausted, Final, batchVars
    <3> QED
      BY <3>1, PassedKept, Unseen
  <2>3. CASE ~Escalation
    <3>1. PICK i \in 1 .. NumTemps : pc' = "returned" /\ result' = GiveUp(i)
      BY <1>18, <2>3 DEF Exhausted
    <3>2. cands[i] \in Changes /\ pc \notin Final \cup {"apply", "restore"}
      BY <1>e, <2>1 DEF Final
    <3> QED
      BY <1>16, <2>1, <3>1, <3>2 DEF Contract!Next
  <2> QED
    BY <2>2, <2>3
<1>19. CASE Crash
  <2>1. /\ pc \notin Final /\ pc' = "crashed" /\ restoring' = {}
        /\ UNCHANGED <<start, disk, unrestored, cands, verdict, seen, result>>
    BY <1>19 DEF Crash, batchVars
  <2>2. Passed' = Passed
    BY <2>1, PassedKept
  <2>3. Outcome = "none" /\ Outcome' = "crashed"
    BY <2>1 DEF Outcome, Final
  <2>4. disk = start \/ \E c \in Changes : \A f \in Files : disk[f] \in {start[f], Overlay(start, c)[f], Torn}
    <3>1. CASE pc = "apply"
      BY <3>1 DEF IInv, Applying, Overlay
    <3>2. CASE pc = "restore"
      BY <1>a, <3>2 DEF PartlyRestored, IInv, HasCandidates
    <3> QED
      BY <1>c, <2>1, <3>1, <3>2
  <2>5. disk \in [Files -> Contents] /\ \A c : Contract!With(c) = Overlay(start, c)
    BY DEF IInv, TypeOK, Images, Contract!With, Overlay
  <2>6. pc' \in Final /\ pc # "returned" /\ pc' # "returned"
    BY <2>1 DEF Final
  <2>7. Contract!Leave(Files)
    BY <2>1, <2>4, <2>5, <2>6 DEF Contract!Leave
  <2>8. Contract!Crash
    BY <2>1, <2>2, <2>3, <2>6, <2>7 DEF Contract!Crash
  <2> QED
    BY <2>8 DEF Contract!Next
<1>20. CASE UNCHANGED vars
  <2>1. UNCHANGED <<start, disk, pc, cands, verdict, seen, result, unrestored, restoring>>
    BY <1>20 DEF vars, diskVars, batchVars
  <2>2. Passed' = Passed /\ Outcome' = Outcome
    BY <2>1, PassedKept DEF Outcome
  <2> QED
    BY <2>1, <2>2 DEF Contract!vars
<1> QED
  BY <1>1, <1>2, <1>3, <1>5, <1>6, <1>7, <1>8, <1>9, <1>11, <1>12, <1>13, <1>13a, <1>14,
     <1>15, <1>17, <1>18, <1>19, <1>20
  DEF Next, Step, Contract!Next

(* Whatever it verifies, repairs, resamples and escalates, and wherever it  *)
(* fails, a call of sample() is one its caller's contract allows: this is   *)
(* what the model of the plan, which takes the sampler by its contract, may *)
(* assume.                                                                  *)
THEOREM ImplementsContract == Spec => KeepsItsContract
<1>1. Init => HonestInv /\ ContractInv /\ Contract!Init
  <2> SUFFICES ASSUME Init PROVE HonestInv /\ ContractInv /\ Contract!Init
    OBVIOUS
  <2>1. HonestInv
    BY DEF Init, HonestInv, EscalatedLast, RecordedSoFar, Escalating, ResultIsHonest, Final
  <2>2. ContractInv
    BY DEF Init, ContractInv, NotYetPassed, PartlyRestored, LeftInFlight
  <2>3. Passed = {} /\ Outcome = "none"
    BY DEF Init, Passed, Outcome
  <2>4. Contract!Init
    BY <2>3 DEF Init, Contract!Init, Final, Contents
  <2> QED
    BY <2>1, <2>2, <2>4
<1>2. IInv /\ ContractInv /\ [Next]_vars => ContractInv'
  BY NotYetPassedStep, RestoreStep DEF ContractInv
<1> QED
  BY <1>1, <1>2, Invariance, HonestStep, ContractStep, PTL DEF Spec, KeepsItsContract, Contract!Spec

-----------------------------------------------------------------------------
(* Why a call ends.                                                         *)

(* How far a round still has to go: a batch, its verification, its repairs, *)
(* the choice, the escalation.                                              *)
Phase ==
  CASE pc \in Final    -> 0
    [] pc = "begin"    -> 7
    [] pc = "generate" -> 6
    [] pc = "select"   -> 3
    [] pc = "escalate" -> 2
    [] pc \notin Final \cup {"begin", "generate", "select", "escalate"} ->
         IF stage = "verify" THEN 5 ELSE IF stage = "repair" THEN 4 ELSE 1

(* How far one verification still has to go. *)
Point ==
  CASE pc = "save"    -> 5
    [] pc = "apply"   -> 4
    [] pc = "restore" -> 3
    [] pc = "judge"   -> 2
    [] pc = "repair"  -> 1
    [] pc \notin {"save", "apply", "restore", "judge", "repair"} -> 0

(* The steps of the writes that are still to do: a file not opened yet is   *)
(* to be opened and to be filled, one being written only to be filled.      *)
Unwritten == IF pc = "apply" THEN toWrite ELSE restoring
Writes    == (Unwritten \ writing) \X {"open"} \cup Unwritten \X {"fill"}

(* The call has come nearer to its end: another retry is spent, or the      *)
(* round, the slot, its repairs, its verification, its writes are further.  *)
Descends ==
  \/ retries' > retries
  \/ /\ retries' = retries
     /\ \/ Phase' < Phase
        \/ /\ Phase' = Phase
           /\ \/ slot' > slot
              \/ slot' = slot /\ attempts' > attempts
              \/ /\ UNCHANGED <<slot, attempts>>
                 /\ \/ Point' < Point
                    \/ Point' = Point /\ Writes' \subseteq Writes /\ Writes' # Writes

(* What descends is bounded; retries and slots are by their types. *)
AttemptsAreBounded ==
  /\ attempts <= budget /\ budget <= RepairBudget + 1
  /\ \/ pc \in {"begin", "generate", "select", "escalate"}
     \/ stage # "repair" /\ pc \notin Final
     => attempts = 0

(* Every action keeps the repairs of a slot within the budget. *)
LEMMA BoundedStep ==
  IInv /\ NotYetPassed /\ AttemptsAreBounded /\ [Next]_vars => AttemptsAreBounded'
<1> SUFFICES ASSUME IInv, NotYetPassed, AttemptsAreBounded, [Next]_vars
             PROVE  AttemptsAreBounded'
  OBVIOUS
<1> USE SamplerAssumption DEF Goto, diskVars, batchVars, AttemptsAreBounded, Final
<1>t. budget \in Nat /\ attempts \in Nat
  BY DEF IInv, TypeOK
<1>1. CASE Begin
  BY <1>1, <1>t DEF Begin, TunedBudgets
<1>2. CASE Generate \/ Die \/ Save \/ Crash \/ Resample \/ Escalate
  BY <1>2, <1>t DEF Generate, Die, Save, Crash, Resample, Escalate
<1>3. CASE JudgeVerified \/ RepairDone
  <2>1. attempts' = 0 /\ budget' = budget
    BY <1>3 DEF JudgeVerified, RepairDone
  <2> QED
    BY <2>1, <1>t
<1>4. CASE JudgeRepaired
  BY <1>4 DEF JudgeRepaired
<1>5. CASE SelectBest \/ Exhausted \/ EscalationFails \/ EscalationPasses
  <2>1. UNCHANGED <<attempts, budget>> /\ pc' \in {"returned", "escalate"}
        /\ (pc' = "escalate" => pc = "select")
    BY <1>5 DEF SelectBest, Exhausted, EscalationFails, EscalationPasses
  <2> QED
    BY <2>1
<1>6. CASE ThrowInTry \/ RunPipeline
  BY <1>6, <1>t DEF ThrowInTry, RunPipeline, EnterFinally
<1>7. ASSUME NEW f \in Files,
             \/ OpenBlock(f) \/ WriteBlock(f) \/ OpenOriginal(f)
             \/ RestoreFile(f) \/ RestoreFails(f) \/ Straggler(f)
      PROVE  AttemptsAreBounded'
  BY <1>7, <1>t
     DEF OpenBlock, WriteBlock, OpenOriginal, RestoreFile, RestoreFails, Straggler, Rejected
<1>8. CASE Repair
  BY <1>8, <1>t DEF Repair, NotYetPassed
<1>9. CASE UNCHANGED vars
  BY <1>9 DEF vars
<1> QED
  BY <1>1, <1>2, <1>3, <1>4, <1>5, <1>6, <1>7, <1>8, <1>9 DEF Next, Step

(* Every step of the call itself descends. *)
LEMMA StepDescends == IInv /\ Step => Descends
<1> SUFFICES ASSUME IInv, Step PROVE Descends
  OBVIOUS
<1> USE SamplerAssumption DEF Goto, diskVars, batchVars, Final
<1>t. /\ retries \in Nat /\ slot \in Int /\ attempts \in Nat /\ budget \in Nat
      /\ restoring \subseteq Files /\ toWrite \subseteq Files
  BY DEF IInv, TypeOK, Slots
<1>s. /\ stage \in {"verify", "repair", "escalate"}
      /\ pc \in {"begin", "generate", "repair", "select"} => stage # "escalate"
      /\ stage = "escalate" => pc # "escalate"
  BY DEF IInv, TypeOK, HasCandidates
<1>1. CASE Begin
  BY <1>1, <1>t DEF Begin, Descends, Phase
<1>2. CASE Generate
  BY <1>2, <1>t DEF Generate, Descends, Phase
<1>3. CASE Die
  BY <1>3, <1>t, <1>s DEF Die, Descends, Phase
<1>4. CASE Save
  BY <1>4, <1>t, <1>s DEF Save, Descends, Phase, Point
<1>5. CASE ThrowInTry \/ RunPipeline
  BY <1>5, <1>t, <1>s DEF ThrowInTry, RunPipeline, EnterFinally, Descends, Phase, Point
<1>n. ASSUME UNCHANGED <<pc, stage, retries, slot, attempts>>, Writes' \subseteq Writes, Writes' # Writes
      PROVE  Descends
  <2>1. Phase' = Phase /\ Point' = Point
    BY <1>n DEF Phase, Point
  <2> QED
    BY <1>n, <2>1 DEF Descends
<1>o. ASSUME NEW f \in Unwritten, writing' = writing \cup {f}, f \notin writing, Unwritten' = Unwritten
      PROVE  Writes' \subseteq Writes /\ Writes' # Writes
  <2>1. <<f, "open">> \in Writes /\ <<f, "open">> \notin Writes'
    BY <1>o DEF Writes
  <2> QED
    BY <1>o, <2>1 DEF Writes
<1>f. ASSUME NEW f \in Unwritten, writing' = writing \ {f}, Unwritten' = Unwritten \ {f}
      PROVE  Writes' \subseteq Writes /\ Writes' # Writes
  <2>1. <<f, "fill">> \in Writes /\ <<f, "fill">> \notin Writes'
    BY <1>f DEF Writes
  <2> QED
    BY <1>f, <2>1 DEF Writes
<1>6. ASSUME NEW f \in Files, OpenBlock(f) \/ OpenOriginal(f) PROVE Descends
  <2>1. /\ f \in Unwritten /\ writing' = writing \cup {f} /\ f \notin writing /\ Unwritten' = Unwritten
        /\ UNCHANGED <<pc, stage, retries, slot, attempts>>
    BY <1>6 DEF OpenBlock, OpenOriginal, Open, Unwritten
  <2> QED
    BY <2>1, <1>o, <1>n
<1>6a. ASSUME NEW f \in Files, WriteBlock(f) PROVE Descends
  <2>1. /\ f \in Unwritten /\ writing' = writing \ {f} /\ Unwritten' = Unwritten \ {f}
        /\ UNCHANGED <<pc, stage, retries, slot, attempts>>
    BY <1>6a DEF WriteBlock, Fill, Unwritten, IInv, Applying
  <2> QED
    BY <2>1, <1>f, <1>n
<1>7. ASSUME pc = "restore", pc' \in {"judge", "returned", "failed"},
             UNCHANGED <<stage, retries, slot, attempts>>
      PROVE  Descends
  BY <1>7, <1>s DEF Descends, Phase, Point
<1>8. ASSUME NEW f \in Files, RestoreFile(f) PROVE Descends
  <2>1. pc = "restore" /\ f \in restoring /\ restoring' = restoring \ {f} /\ writing' = writing \ {f}
        /\ UNCHANGED <<stage, retries, slot, attempts>>
    BY <1>8 DEF RestoreFile, Restorable, Fill
  <2>2. CASE pc' = pc
    <3>1. f \in Unwritten /\ Unwritten' = Unwritten \ {f}
      BY <2>1, <2>2 DEF Unwritten
    <3> QED
      BY <2>1, <2>2, <3>1, <1>f, <1>n
  <2>3. CASE pc' \in {"judge", "returned", "failed"}
    BY <1>7, <2>1, <2>3
  <2> QED
    BY <1>8, <2>2, <2>3 DEF RestoreFile, Rejected
<1>9. ASSUME NEW f \in Files, RestoreFails(f) PROVE Descends
  BY <1>7, <1>9 DEF RestoreFails, Rejected
<1>10. ASSUME NEW f \in Files, Straggler(f) PROVE Descends
  <2>1. /\ f \in Unwritten /\ writing' = writing \ {f} /\ Unwritten' = Unwritten \ {f}
        /\ UNCHANGED <<pc, stage, retries, slot, attempts>>
    BY <1>10 DEF Straggler, Fill, Unwritten
  <2> QED
    BY <2>1, <1>f, <1>n
<1>11. CASE JudgeVerified
  <2>1. pc = "judge" /\ stage = "verify" /\ retries' = retries /\ Phase = 5
    BY <1>11 DEF JudgeVerified, Phase
  <2>2. CASE slot < NumTemps
    BY <1>11, <1>t, <2>1, <2>2 DEF JudgeVerified, Descends, Phase
  <2>3. CASE ~(slot < NumTemps)
    BY <1>11, <2>1, <2>3 DEF JudgeVerified, Descends, Phase
  <2> QED
    BY <2>2, <2>3
<1>12. CASE JudgeRepaired
  BY <1>12 DEF JudgeRepaired, Descends, Phase, Point
<1>13. CASE Repair
  <2>1. stage = "repair" \/ stage = "verify"
    BY <1>13, <1>s DEF Repair
  <2> QED
    BY <1>13, <1>t, <2>1 DEF Repair, Descends, Phase
<1>14. CASE RepairDone
  <2>1. pc = "repair" /\ UNCHANGED <<retries, stage>> /\ Phase \in {4, 5}
    BY <1>14, <1>s DEF RepairDone, Phase
  <2>2. CASE slot < NumTemps
    BY <1>14, <1>t, <2>1, <2>2 DEF RepairDone, Descends, Phase
  <2>3. CASE ~(slot < NumTemps)
    BY <1>14, <2>1, <2>3 DEF RepairDone, Descends, Phase
  <2> QED
    BY <2>2, <2>3
<1>15. CASE SelectBest \/ Exhausted
  <2>1. pc = "select" /\ pc' \in {"returned", "escalate"} /\ retries' = retries
    BY <1>15 DEF SelectBest, Exhausted
  <2> QED
    BY <2>1 DEF Descends, Phase
<1>16. CASE Resample
  BY <1>16, <1>t DEF Resample, Descends
<1>17. CASE Escalate
  BY <1>17 DEF Escalate, Descends, Phase
<1>18. CASE EscalationFails \/ EscalationPasses
  <2>1. /\ \/ pc = "escalate"
           \/ pc \in {"save", "judge"} /\ stage = "escalate"
        /\ pc' = "returned" /\ retries' = retries
    BY <1>18 DEF EscalationFails, EscalationPasses
  <2> QED
    BY <2>1 DEF Descends, Phase
<1> QED
  BY <1>1, <1>2, <1>3, <1>4, <1>5, <1>6, <1>6a, <1>8, <1>9, <1>10, <1>11, <1>12, <1>13,
     <1>14, <1>15, <1>16, <1>17, <1>18
  DEF Step

(* Every step of a call brings it nearer to its end, in an order in which   *)
(* there is no going down for ever: retries are at most MaxRetries, slots   *)
(* at most NumTemps, repairs of a slot at most RepairBudget + 1, and there  *)
(* are finitely many files.  This is what Settles rests on.                 *)
THEOREM CallsDescend == Spec => [](AttemptsAreBounded /\ TypeOK) /\ [][Step => Descends]_vars
<1>1. Init => AttemptsAreBounded
  BY SamplerAssumption DEF Init, AttemptsAreBounded, Final
<1>2. IInv => TypeOK
  BY DEF IInv
<1>3. Init => NotYetPassed
  BY DEF Init, NotYetPassed
<1>4. IInv /\ [Next]_vars => [Step => Descends]_vars
  BY StepDescends
<1> QED
  BY <1>1, <1>2, <1>3, <1>4, Invariance, BoundedStep, NotYetPassedStep, PTL DEF Spec
=============================================================================
