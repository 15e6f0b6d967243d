-------------------------- MODULE BuildPlanProofs --------------------------
(* Invariance proofs for BuildPlan, for every plan: the change list is      *)
(* complete and what lands is what was verified; and, when no two steps     *)
(* share a check path, the checks in the project are the reported ones.     *)
(* Then, for the tasks that have plans made and carried out (module Tasks,  *)
(* with constants and variables of its own): where they work, and that each *)
(* reports its own changes.                                                 *)
EXTENDS BuildPlan, TLAPS

CONSTANTS Sessions, Dirs, Home, Start, Names, Calls, Cancelling, Nobody
VARIABLES cwd, prepared, tracker, cancelled, of, stage, back, base, path, wrote,
          changed, heard, top, under, crossed, crowded, mixed, strayed

(* The tasks whose work the plans are, each of these as explained in Tasks.  *)
Task == INSTANCE Tasks
          WITH Files <- Names, None <- Nobody, step <- stage, answer <- heard,
               disturbed <- crowded

(* Inside a step there is a step. *)
InStep == pc \notin {"step", "done", "failed"} => step \in Steps

(* A file with a restore write in flight is known to be disturbed. *)
LateIsDisturbed == \A f \in Files : late[f] # None => f \in disturbed

(* A file that is being written exists, unless a late restore removes it.   *)
OpenedExists == \A f \in writing : disk[f] # Absent \/ f \in disturbed

(* Half way through applyChange: what is written is as verified, and what   *)
(* is left to write will be.                                                *)
Landing ==
  pc = "apply" /\ answer.passed /\ ~answer.patch =>
    \A f \in Files :
      IF f \in toWrite THEN verified[f] = Writing(step, "code")
                       ELSE disk[f] = verified[f] \/ f \in disturbed

IInv == TypeOK /\ InStep /\ LateIsDisturbed /\ OpenedExists /\ Landing
        /\ ChangesAreReported /\ LandsAsVerified

(* No two steps of the plan have the same check path. *)
DistinctPaths == \A s, t \in Steps : CheckPath[s] = CheckPath[t] => s = t

(* Reported checks exist and belong to steps that are over; any other check *)
(* on the disk is the one of the step at work.                              *)
Owned ==
  \A p \in written \cap Checks :
    /\ disk[p] # Absent
    /\ \E s \in Steps : /\ p = CheckPath[s]
                        /\ s < step \/ (s = step /\ pc \in {"remember", "failed"})
Unreported ==
  \A p \in Checks : disk[p] # Absent =>
    \/ p \in written \cup stuck \/ pc = "failed"
    \/ p = CheckPath[step] /\ pc \in {"write", "validate"}
    \/ p = check /\ pc \in {"sample", "apply", "settle"}
CheckOfStep ==
  /\ pc \in {"check", "write", "validate"} => check = None
  /\ pc \in {"write", "validate"} => disk[CheckPath[step]] # Absent
  /\ pc \in {"sample", "apply", "settle"} =>
       check = None \/ (check = CheckPath[step] /\ disk[check] # Absent)

CheckInv == TypeOK /\ InStep /\ Owned /\ Unreported /\ CheckOfStep

LEMMA WritingType == ASSUME NEW s \in Steps, NEW form \in Forms
                     PROVE  Writing(s, form) \in Contents \ {Absent, Original}
BY ContentAssumption DEF Writing, Contents, Writings

LEMMA InitIInv == Init => IInv /\ CheckInv
<1> USE BuildPlanAssumption, ContentAssumption
<1> SUFFICES ASSUME Init PROVE IInv /\ CheckInv
  OBVIOUS
<1>1. TypeOK /\ InStep
  BY DEF Init, TypeOK, InStep, Images, Contents, Steps, Paths
<1>2. LateIsDisturbed /\ OpenedExists /\ Landing /\ ChangesAreReported /\ LandsAsVerified
  BY DEF Init, LateIsDisturbed, OpenedExists, Landing, ChangesAreReported, LandsAsVerified
<1>3. Owned /\ Unreported /\ CheckOfStep
  BY DEF Init, Owned, Unreported, CheckOfStep, Paths
<1> QED
  BY <1>1, <1>2, <1>3 DEF IInv, CheckInv

(* Every step keeps the types. *)
LEMMA TypeStep ==
  TypeOK /\ InStep /\ [Next]_vars => TypeOK' /\ InStep'
<1> USE BuildPlanAssumption, ContentAssumption, WritingType DEF TypeOK, InStep, Images, Contents, Paths, Steps, Current, Goto, Forms, change, books, upset
<1> SUFFICES ASSUME TypeOK /\ InStep, [Next]_vars PROVE TypeOK' /\ InStep'
  OBVIOUS
<1>1. CASE BeginStep
  BY <1>1 DEF BeginStep
<1>2. CASE NoCheck
  BY <1>2 DEF NoCheck
<1>3. CASE OpenCheck \/ WriteCheck \/ CheckTorn
  <2>1. CASE OpenCheck
    BY <2>1 DEF OpenCheck, Open
  <2>2. CASE WriteCheck
    BY <2>2 DEF WriteCheck
  <2>3. CASE CheckTorn
    BY <2>3 DEF CheckTorn
  <2> QED
    BY <1>3, <2>1, <2>2, <2>3
<1>4. CASE CheckIsRed
  BY <1>4 DEF CheckIsRed
<1>5. CASE CheckIsGreen
  BY <1>5 DEF CheckIsGreen, Remove
<1>6. CASE SamplePasses
  BY <1>6 DEF SamplePasses, Seen
<1>7. CASE SampleGivesUp
  BY <1>7 DEF SampleGivesUp, LeaveBehind
<1>8. CASE SampleFails
  BY <1>8 DEF SampleFails, LeaveBehind
<1>9. ASSUME NEW f \in Files, LateOpen(f) \/ LateRestore(f) PROVE TypeOK' /\ InStep'
  <2>1. CASE LateOpen(f)
    BY <2>1 DEF LateOpen, Open
  <2>2. CASE LateRestore(f)
    BY <2>2 DEF LateRestore
  <2> QED
    BY <1>9, <2>1, <2>2
<1>10. ASSUME NEW f \in Files, OpenTarget(f) \/ ApplyTo(f) \/ Track(f) PROVE TypeOK' /\ InStep'
  <2>1. CASE OpenTarget(f)
    BY <2>1 DEF OpenTarget, Open
  <2>2. CASE ApplyTo(f)
    BY <2>2 DEF ApplyTo
  <2>3. CASE Track(f)
    BY <2>3 DEF Track, RecordWrite
  <2> QED
    BY <1>10, <2>1, <2>2, <2>3
<1>11. CASE Applied
  BY <1>11 DEF Applied
<1>12. CASE StepFails
  BY <1>12 DEF StepFails
<1>13. CASE SettleCheck
  BY <1>13 DEF SettleCheck, RecordWrite, Remove
<1>14. CASE Remember
  BY <1>14 DEF Remember, AppendStep
<1>15. CASE UNCHANGED vars
  BY <1>15 DEF vars
<1> QED
  BY <1>1, <1>2, <1>3, <1>4, <1>5, <1>6, <1>7, <1>8, <1>9, <1>10, <1>11, <1>12,
     <1>13, <1>14, <1>15
  DEF Next

(* A step that changes a file tracks it or knows it disturbed. *)
LEMMA ReportStep ==
  TypeOK /\ InStep /\ LateIsDisturbed /\ OpenedExists /\ ChangesAreReported /\ [Next]_vars => LateIsDisturbed' /\ OpenedExists' /\ ChangesAreReported'
<1> USE BuildPlanAssumption, ContentAssumption, WritingType DEF TypeOK, InStep, LateIsDisturbed, OpenedExists, ChangesAreReported, Images, Paths, Current, Goto, Forms, change, books, upset
<1> SUFFICES ASSUME TypeOK /\ InStep /\ LateIsDisturbed /\ OpenedExists /\ ChangesAreReported, [Next]_vars PROVE LateIsDisturbed' /\ OpenedExists' /\ ChangesAreReported'
  OBVIOUS
<1>1. CASE BeginStep
  BY <1>1 DEF BeginStep
<1>2. CASE NoCheck
  BY <1>2 DEF NoCheck
<1>3. CASE OpenCheck \/ WriteCheck \/ CheckTorn
  <2>1. CASE OpenCheck
    BY <2>1 DEF OpenCheck, Open
  <2>2. CASE WriteCheck
    BY <2>2 DEF WriteCheck
  <2>3. CASE CheckTorn
    BY <2>3 DEF CheckTorn
  <2> QED
    BY <1>3, <2>1, <2>2, <2>3
<1>4. CASE CheckIsRed
  BY <1>4 DEF CheckIsRed
<1>5. CASE CheckIsGreen
  BY <1>5 DEF CheckIsGreen, Remove
<1>6. CASE SamplePasses
  BY <1>6 DEF SamplePasses, Seen
<1>7. CASE SampleGivesUp
  BY <1>7 DEF SampleGivesUp, LeaveBehind
<1>8. CASE SampleFails
  BY <1>8 DEF SampleFails, LeaveBehind
<1>9. ASSUME NEW f \in Files, LateOpen(f) \/ LateRestore(f) PROVE LateIsDisturbed' /\ OpenedExists' /\ ChangesAreReported'
  <2>1. CASE LateOpen(f)
    BY <2>1 DEF LateOpen, Open
  <2>2. CASE LateRestore(f)
    BY <2>2 DEF LateRestore
  <2> QED
    BY <1>9, <2>1, <2>2
<1>10. ASSUME NEW f \in Files, OpenTarget(f) \/ ApplyTo(f) \/ Track(f) PROVE LateIsDisturbed' /\ OpenedExists' /\ ChangesAreReported'
  <2>1. CASE OpenTarget(f)
    BY <2>1 DEF OpenTarget, Open
  <2>2. CASE ApplyTo(f)
    BY <2>2 DEF ApplyTo
  <2>3. CASE Track(f)
    BY <2>3 DEF Track, RecordWrite
  <2> QED
    BY <1>10, <2>1, <2>2, <2>3
<1>11. CASE Applied
  BY <1>11 DEF Applied
<1>12. CASE StepFails
  BY <1>12 DEF StepFails
<1>13. CASE SettleCheck
  BY <1>13 DEF SettleCheck, RecordWrite, Remove
<1>14. CASE Remember
  BY <1>14 DEF Remember, AppendStep
<1>15. CASE UNCHANGED vars
  BY <1>15 DEF vars
<1> QED
  BY <1>1, <1>2, <1>3, <1>4, <1>5, <1>6, <1>7, <1>8, <1>9, <1>10, <1>11, <1>12,
     <1>13, <1>14, <1>15
  DEF Next

(* The change of a passing step comes to the disk as it was verified. *)
LEMMA LandStep ==
  IInv /\ [Next]_vars => Landing' /\ LandsAsVerified'
<1> USE BuildPlanAssumption, ContentAssumption, WritingType DEF IInv, TypeOK, InStep, LateIsDisturbed, Landing, LandsAsVerified, Images, Paths, Current, Goto, Forms, change, books, upset
<1> SUFFICES ASSUME IInv, [Next]_vars PROVE Landing' /\ LandsAsVerified'
  OBVIOUS
<1>1. CASE BeginStep
  BY <1>1 DEF BeginStep
<1>2. CASE NoCheck
  BY <1>2 DEF NoCheck
<1>3. CASE OpenCheck \/ WriteCheck \/ CheckTorn
  BY <1>3 DEF OpenCheck, WriteCheck, CheckTorn, Open
<1>4. CASE CheckIsRed
  BY <1>4 DEF CheckIsRed
<1>5. CASE CheckIsGreen
  BY <1>5 DEF CheckIsGreen, Remove
<1>6. CASE SamplePasses
  BY <1>6 DEF SamplePasses, Seen
<1>7. CASE SampleGivesUp
  BY <1>7 DEF SampleGivesUp, LeaveBehind
<1>8. CASE SampleFails
  BY <1>8 DEF SampleFails, LeaveBehind
<1>9. ASSUME NEW f \in Files, LateOpen(f) \/ LateRestore(f) PROVE Landing' /\ LandsAsVerified'
  BY <1>9 DEF LateOpen, LateRestore, Open
<1>10. ASSUME NEW f \in Files, OpenTarget(f) \/ ApplyTo(f) \/ Track(f) PROVE Landing' /\ LandsAsVerified'
  BY <1>10 DEF OpenTarget, ApplyTo, Track, Open, RecordWrite
<1>11. CASE Applied
  BY <1>11 DEF Applied
<1>12. CASE StepFails
  BY <1>12 DEF StepFails
<1>13. CASE SettleCheck
  BY <1>13 DEF SettleCheck, RecordWrite, Remove
<1>14. CASE Remember
  BY <1>14 DEF Remember, AppendStep
<1>15. CASE UNCHANGED vars
  BY <1>15 DEF vars
<1> QED
  BY <1>1, <1>2, <1>3, <1>4, <1>5, <1>6, <1>7, <1>8, <1>9, <1>10, <1>11, <1>12,
     <1>13, <1>14, <1>15
  DEF Next

(* A step touches no check but its own. *)
LEMMA CheckStep ==
  DistinctPaths /\ CheckInv /\ [Next]_vars => Owned' /\ Unreported' /\ CheckOfStep'
<1> USE BuildPlanAssumption, ContentAssumption, WritingType DEF CheckInv, TypeOK, InStep, Owned, Unreported, CheckOfStep, DistinctPaths, Images, Paths, Steps, Current, Goto, Forms, change, books, upset
<1> SUFFICES ASSUME DistinctPaths, CheckInv, [Next]_vars PROVE Owned' /\ Unreported' /\ CheckOfStep'
  OBVIOUS
<1>1. CASE BeginStep
  BY <1>1 DEF BeginStep
<1>2. CASE NoCheck
  BY <1>2 DEF NoCheck
<1>3. CASE OpenCheck \/ WriteCheck \/ CheckTorn
  BY <1>3 DEF OpenCheck, WriteCheck, CheckTorn, Open
<1>4. CASE CheckIsRed
  BY <1>4 DEF CheckIsRed
<1>5. CASE CheckIsGreen
  BY <1>5 DEF CheckIsGreen, Remove
<1>6. CASE SamplePasses
  BY <1>6 DEF SamplePasses, Seen
<1>7. CASE SampleGivesUp
  BY <1>7 DEF SampleGivesUp, LeaveBehind
<1>8. CASE SampleFails
  BY <1>8 DEF SampleFails, LeaveBehind
<1>9. ASSUME NEW f \in Files, LateOpen(f) \/ LateRestore(f) PROVE Owned' /\ Unreported' /\ CheckOfStep'
  BY <1>9 DEF LateOpen, LateRestore, Open
<1>10. ASSUME NEW f \in Files, OpenTarget(f) \/ ApplyTo(f) \/ Track(f) PROVE Owned' /\ Unreported' /\ CheckOfStep'
  BY <1>10 DEF OpenTarget, ApplyTo, Track, Open, RecordWrite
<1>11. CASE Applied
  BY <1>11 DEF Applied
<1>12. CASE StepFails
  BY <1>12 DEF StepFails
<1>13. CASE SettleCheck
  <2>0. /\ step \in Steps /\ step' = step /\ check' = check /\ pc' = "remember" /\ pc = "settle"
        /\ check \in {None, CheckPath[step]}
    BY <1>13 DEF SettleCheck, RecordWrite
  <2>1. CASE check = None
    BY <1>13, <2>0, <2>1 DEF SettleCheck, RecordWrite
  <2>2. CASE check # None /\ answer.passed
    <3>1. disk' = disk /\ stuck' = stuck /\ written' = written \cup {check}
      BY <1>13, <2>2 DEF SettleCheck, RecordWrite
    <3> QED
      BY <2>0, <2>2, <3>1
  <2>3. CASE check # None /\ ~answer.passed
    <3>1. written' = written
      BY <1>13, <2>3 DEF SettleCheck, RecordWrite
    <3>2. check \notin written
      BY <2>0, <2>3
    <3>3. \A p \in Checks : p # check => disk'[p] = disk[p]
      BY <1>13, <2>3 DEF SettleCheck, RecordWrite, Remove
    <3>4. disk'[check] = Absent \/ check \in stuck'
      BY <1>13, <2>0, <2>3 DEF SettleCheck, RecordWrite, Remove
    <3>5. stuck \subseteq stuck'
      BY <1>13, <2>3 DEF SettleCheck, RecordWrite, Remove
    <3> QED
      BY <2>0, <2>3, <3>1, <3>2, <3>3, <3>4, <3>5
  <2> QED
    BY <2>1, <2>2, <2>3
<1>14. CASE Remember
  BY <1>14 DEF Remember, AppendStep
<1>15. CASE UNCHANGED vars
  BY <1>15 DEF vars
<1> QED
  BY <1>1, <1>2, <1>3, <1>4, <1>5, <1>6, <1>7, <1>8, <1>9, <1>10, <1>11, <1>12,
     <1>13, <1>14, <1>15
  DEF Next

(* No step changes a reported check. *)
LEMMA ReportedStep ==
  DistinctPaths /\ CheckInv /\ [Next]_vars => (\A p \in Checks : p \in written => disk'[p] = disk[p])
<1> USE BuildPlanAssumption, ContentAssumption, WritingType DEF CheckInv, TypeOK, InStep, Owned, CheckOfStep, DistinctPaths, Images, Paths, Steps, Current, Goto, Forms, change, books, upset
<1> SUFFICES ASSUME DistinctPaths, CheckInv, [Next]_vars PROVE (\A p \in Checks : p \in written => disk'[p] = disk[p])
  OBVIOUS
<1>1. CASE BeginStep
  BY <1>1 DEF BeginStep
<1>2. CASE NoCheck
  BY <1>2 DEF NoCheck
<1>3. CASE OpenCheck \/ WriteCheck \/ CheckTorn
  BY <1>3 DEF OpenCheck, WriteCheck, CheckTorn, Open
<1>4. CASE CheckIsRed
  BY <1>4 DEF CheckIsRed
<1>5. CASE CheckIsGreen
  BY <1>5 DEF CheckIsGreen, Remove
<1>6. CASE SamplePasses
  BY <1>6 DEF SamplePasses, Seen
<1>7. CASE SampleGivesUp
  BY <1>7 DEF SampleGivesUp, LeaveBehind
<1>8. CASE SampleFails
  BY <1>8 DEF SampleFails, LeaveBehind
<1>9. ASSUME NEW f \in Files, LateOpen(f) \/ LateRestore(f) PROVE (\A p \in Checks : p \in written => disk'[p] = disk[p])
  BY <1>9 DEF LateOpen, LateRestore, Open
<1>10. ASSUME NEW f \in Files, OpenTarget(f) \/ ApplyTo(f) \/ Track(f) PROVE (\A p \in Checks : p \in written => disk'[p] = disk[p])
  BY <1>10 DEF OpenTarget, ApplyTo, Track, Open, RecordWrite
<1>11. CASE Applied
  BY <1>11 DEF Applied
<1>12. CASE StepFails
  BY <1>12 DEF StepFails
<1>13. CASE SettleCheck
  BY <1>13 DEF SettleCheck, RecordWrite, Remove
<1>14. CASE Remember
  BY <1>14 DEF Remember, AppendStep
<1>15. CASE UNCHANGED vars
  BY <1>15 DEF vars
<1> QED
  BY <1>1, <1>2, <1>3, <1>4, <1>5, <1>6, <1>7, <1>8, <1>9, <1>10, <1>11, <1>12,
     <1>13, <1>14, <1>15
  DEF Next

LEMMA Invariance == Spec => []IInv
<1>1. IInv /\ [Next]_vars => IInv'
  BY TypeStep, ReportStep, LandStep DEF IInv
<1> QED
  BY InitIInv, <1>1, PTL DEF Spec

LEMMA CheckInvariance == DistinctPaths => (Spec => []CheckInv)
<1> SUFFICES ASSUME DistinctPaths PROVE Spec => []CheckInv
  OBVIOUS
<1>1. CheckInv /\ [Next]_vars => CheckInv'
  BY TypeStep, CheckStep DEF CheckInv
<1> QED
  BY InitIInv, <1>1, PTL DEF Spec

(* Every reachable state of executePlan is well typed, for every plan.      *)
THEOREM TypeCorrect == Spec => []TypeOK
<1>1. IInv => TypeOK
  BY DEF IInv
<1> QED
  BY Invariance, <1>1, PTL

(* The write tracker of changes.ts misses no file a plan changed, but for   *)
(* one: the file being written, or half written when the plan failed.  When *)
(* the plan is done there is none: this is the list the orchestrator then   *)
(* reports and verifies.                                                    *)
THEOREM ReportIsComplete == Spec => []ChangesAreReported
<1>1. IInv => ChangesAreReported
  BY DEF IInv
<1> QED
  BY Invariance, <1>1, PTL

(* What applyChange puts on the disk for a passing answer in blocks is what *)
(* the verification pipeline saw.                                           *)
THEOREM VerifiedLands == Spec => []LandsAsVerified
<1>1. IInv => LandsAsVerified
  BY DEF IInv
<1> QED
  BY Invariance, <1>1, PTL

(* With distinct check paths, the checks createPreStepCheck left in the     *)
(* project are the reported ones whenever a step is over.                   *)
THEOREM ChecksReported == DistinctPaths => (Spec => []ChecksAreReported)
<1>1. CheckInv => ChecksAreReported
  BY DEF CheckInv, Owned, Unreported, ChecksAreReported
<1> QED
  BY CheckInvariance, <1>1, PTL

(* With distinct check paths, no step rewrites or removes a check that an   *)
(* earlier step reported.                                                   *)
THEOREM ChecksStay == DistinctPaths => (Spec => ReportedChecksStay)
<1> SUFFICES ASSUME DistinctPaths PROVE Spec => ReportedChecksStay
  OBVIOUS
<1>1. CheckInv /\ [Next]_vars => [\A p \in Checks : p \in written => disk'[p] = disk[p]]_vars
  BY ReportedStep
<1> QED
  BY CheckInvariance, <1>1, PTL DEF Spec, ReportedChecksStay
-----------------------------------------------------------------------------
(* Tasks, whose work the plans are: module Tasks, with constants and        *)
(* variables of its own.  For any number of sessions, prompts, directories  *)
(* and files: where tasks work, and what they report.                       *)

(* A prompt that is not in has nothing of its own.                          *)
OutsidersAreBlank ==
  \A p \in Task!Prompts :
    /\ p \notin Task!Inside => base[p] = Nobody
    /\ stage[p] \notin {"work", "verify", "fix", "review", "refix"} => wrote[p] = {}

(* Whom nobody has disturbed is in his session's directory, and has taken   *)
(* no other for a root.                                                     *)
UndisturbedAreHome ==
  \A p \in Task!Inside \ crowded :
    cwd = Home[of[p]] /\ base[p] \in {Nobody, Home[of[p]]}

Below(x) == IF x = Nobody THEN Start ELSE Home[of[x]]

(* Until one leaves too early, those who are in are a stack: each has       *)
(* another below, or none, and returns to the directory of that one.        *)
Stacked ==
  /\ cwd = Below(top) /\ top \in Task!Inside \cup {Nobody}
  /\ \A p \in Task!Inside :
       /\ under[p] \in Task!Inside \cup {Nobody} /\ (under[p] # Nobody => under[p] # top)
       /\ back[p] = Below(under[p])
  /\ \A p, q \in Task!Inside : under[p] = under[q] /\ under[p] # Nobody => p = q

(* What one who is alone with the tracker has written is in there, or about *)
(* to be, and nothing else is; then it is what he reports.                  *)
TrackerIsOwn ==
  \A p \in Task!Prompts \ mixed :
    /\ stage[p] = "work" =>
         wrote[p] = tracker \cup (IF path[p] = Nobody THEN {} ELSE {path[p]})
    /\ stage[p] \in {"verify", "fix", "review", "refix"} => changed[p] = wrote[p]

TasksInv ==
  /\ Task!TypeOK /\ OutsidersAreBlank
  /\ UndisturbedAreHome /\ strayed \subseteq crowded
  /\ ~crossed => Stacked
  /\ TrackerIsOwn

(* The task of p is over: how SetGoal, Chat, Take, Report and Fail end it.  *)
Leaves(p) ==
  /\ p \in Task!Inside /\ prepared' = prepared
  /\ \E how \in {"error", "reply", "report"} : Task!Leave(p, how)

(* The task of p goes on.                                                   *)
Stays(p) ==
  /\ p \in Task!Inside /\ UNCHANGED <<Task!request, Task!place>>
  /\ \E x \in Task!Within : stage' = [stage EXCEPT ![p] = x]
  /\ base' \in {base, [base EXCEPT ![p] = cwd]}
  /\ \/ strayed' = strayed \/ Task!Strays(p, cwd)
     \/ base[p] # Nobody /\ Task!Strays(p, base[p])

(* Each step is one of these.                                               *)
LEMMA TaskSteps ==
  ASSUME Task!TypeOK, Task!Next
  PROVE  \/ \E s \in Sessions : Task!Cancel(s) \/ \E p \in Task!Prompts : Task!Prompt(p, s)
         \/ \E p \in Task!Prompts : Task!Refuse(p) \/ Task!Enter(p) \/ Leaves(p) \/ Stays(p)
<1>0. \A p \in Task!Prompts : \A x : stage[p] = x /\ x \in Task!Within => p \in Task!Inside
  BY DEF Task!Inside
<1>00. \A p \in Task!Inside, x \in Task!Within :
         /\ stage' = [stage EXCEPT ![p] = x]
         /\ UNCHANGED <<Task!request, Task!place, base, strayed>>
         => Stays(p)
  BY DEF Stays
<1>1. ASSUME NEW p \in Task!Prompts, Task!MakeMemory(p) PROVE Stays(p)
  BY <1>1, <1>0, <1>00 DEF Task!MakeMemory, Task!Goto, Task!work, Task!Within
<1>2. ASSUME NEW p \in Task!Prompts, Task!SetGoal(p) PROVE Stays(p) \/ Leaves(p)
  <2>1. CASE prepared
    BY <2>1, <1>2, <1>0, <1>00 DEF Task!SetGoal, Task!Goto, Task!work, Task!Within
  <2>2. CASE ~prepared
    BY <2>2, <1>2, <1>0 DEF Task!SetGoal, Leaves, Task!Within
  <2> QED
    BY <2>1, <2>2
<1>3. ASSUME NEW p \in Task!Prompts, Task!Chat(p) PROVE Leaves(p)
  BY <1>3, <1>0 DEF Task!Chat, Leaves, Task!Within
<1>4. ASSUME NEW p \in Task!Prompts, Task!Begin(p) PROVE Stays(p)
  BY <1>4, <1>0, <1>00 DEF Task!Begin, Task!Goto, Task!Within
<1>5. ASSUME NEW p \in Task!Prompts, Task!Root(p) PROVE Stays(p)
  <2>1. p \in Task!Inside /\ "work" \in Task!Within /\ stage' = [stage EXCEPT ![p] = "work"]
    BY <1>5, <1>0 DEF Task!Root, Task!TypeOK, Task!Within
  <2> QED
    BY <2>1, <1>5 DEF Task!Root, Stays
<1>6. ASSUME NEW p \in Task!Prompts, NEW f \in Names, Task!Write(p, f) PROVE Stays(p)
  <2>1. /\ p \in Task!Inside /\ stage[p] \in Task!Within
        /\ stage' = [stage EXCEPT ![p] = stage[p]]
    BY <1>6, <1>0 DEF Task!Write, Task!TypeOK, Task!Within
  <2> QED
    BY <2>1, <1>6 DEF Task!Write, Stays
<1>7. ASSUME NEW p \in Task!Prompts, Task!Reproduce(p) PROVE Stays(p)
  <2>1. /\ p \in Task!Inside /\ stage[p] \in Task!Within
        /\ stage' = [stage EXCEPT ![p] = stage[p]]
    BY <1>7, <1>0 DEF Task!Reproduce, Task!TypeOK, Task!Within
  <2> QED
    BY <2>1, <1>7 DEF Task!Reproduce, Stays
<1>8. ASSUME NEW p \in Task!Prompts, Task!Record(p) PROVE Stays(p)
  <2>1. /\ p \in Task!Inside /\ stage[p] \in Task!Within
        /\ stage' = [stage EXCEPT ![p] = stage[p]]
    BY <1>8, <1>0 DEF Task!Record, Task!TypeOK, Task!Within
  <2> QED
    BY <2>1, <1>8, <1>00 DEF Task!Record
<1>9. ASSUME NEW p \in Task!Prompts, Task!Take(p) PROVE Stays(p) \/ Leaves(p)
  <2>1. CASE tracker # {}
    BY <2>1, <1>9, <1>0, <1>00 DEF Task!Take, Task!Goto, Task!Within
  <2>2. CASE tracker = {}
    BY <2>2, <1>9, <1>0 DEF Task!Take, Leaves, Task!Within
  <2> QED
    BY <2>1, <2>2
<1>10. ASSUME NEW p \in Task!Prompts, Task!Settle(p) PROVE Stays(p)
  BY <1>10, <1>0, <1>00 DEF Task!Settle, Task!Goto, Task!work, Task!Within
<1>11. ASSUME NEW p \in Task!Prompts, Task!Report(p) PROVE Leaves(p)
  BY <1>11, <1>0 DEF Task!Report, Leaves, Task!Within
<1>12. ASSUME NEW p \in Task!Prompts, Task!Fail(p) PROVE Leaves(p)
  BY <1>12 DEF Task!Fail, Leaves
<1> QED
  BY <1>1, <1>2, <1>3, <1>4, <1>5, <1>6, <1>7, <1>8, <1>9, <1>10, <1>11, <1>12 DEF Task!Next

LEMMA TasksInit ==
  ASSUME Task!TasksAssumption
  PROVE  Task!Init => TasksInv
<1> SUFFICES ASSUME Task!Init PROVE TasksInv
  OBVIOUS
<1>1. Task!Inside = {}
  BY DEF Task!Init, Task!Inside, Task!Within
<1>2. Task!TypeOK
  BY <1>1, Task!TasksAssumption DEF Task!Init, Task!TypeOK, Task!TasksAssumption,
     Task!Within
<1>3. OutsidersAreBlank /\ TrackerIsOwn
  BY DEF Task!Init, OutsidersAreBlank, TrackerIsOwn
<1>4. UndisturbedAreHome /\ Stacked
  BY <1>1 DEF Task!Init, UndisturbedAreHome, Stacked, Below
<1> QED
  BY <1>2, <1>3, <1>4 DEF Task!Init, TasksInv

(* Types of what a task that ends leaves behind.                            *)
LEMMA LeaveTypes ==
  ASSUME Task!TasksAssumption, Task!TypeOK, NEW p \in Task!Inside,
         NEW how \in {"error", "reply", "report"}, Task!Leave(p, how),
         prepared' = prepared
  PROVE  Task!TypeOK'
<1> USE DEF Task!TasksAssumption
<1>0. p \in Task!Prompts /\ of[p] \in Sessions /\ back[p] \in Dirs
  BY DEF Task!TypeOK, Task!Inside, Task!Within
<1>1. heard' \in [Sessions -> {Nobody, "refused", "cancelled", "error", "reply", "report"}]
  BY <1>0 DEF Task!TypeOK, Task!Leave, Task!Answer
<1>2. top' \in Task!Prompts \cup {Nobody} /\ crossed' \in BOOLEAN
  BY <1>0 DEF Task!TypeOK, Task!Leave, Task!Out
<1>3. /\ of' \in [Task!Prompts -> Sessions \cup {Nobody}]
      /\ stage' \in [Task!Prompts -> {"new", "model", "done"} \cup Task!Within]
      /\ back' \in [Task!Prompts -> Dirs \cup {Nobody}]
      /\ base' \in [Task!Prompts -> Dirs \cup {Nobody}]
      /\ path' \in [Task!Prompts -> Names \cup {Nobody}]
      /\ wrote' \in [Task!Prompts -> SUBSET Names]
      /\ changed' \in [Task!Prompts -> SUBSET Names]
      /\ under' \in [Task!Prompts -> Task!Prompts \cup {Nobody}]
  BY <1>0 DEF Task!TypeOK, Task!Leave, Task!Forget
<1>4. /\ cwd' \in Dirs /\ prepared' \in BOOLEAN /\ tracker' \subseteq Names
      /\ cancelled' \subseteq Sessions
      /\ crowded' \subseteq Task!Prompts /\ mixed' \subseteq Task!Prompts
      /\ strayed' \subseteq Task!Prompts
  BY <1>0 DEF Task!TypeOK, Task!Leave, Task!Forget, Task!Inside
<1>5. \A q \in Task!Prompts : /\ of'[q] = Nobody <=> stage'[q] = "new"
                              /\ q \in Task!Inside' <=> back'[q] # Nobody
                              /\ path'[q] # Nobody => stage'[q] \in {"work", "fix", "refix"}
  <2>1. \A q \in Task!Prompts : of'[q] = Nobody <=> stage'[q] = "new"
    BY <1>0 DEF Task!TypeOK, Task!Leave, Task!Forget
  <2>2. \A q \in Task!Prompts : q \in Task!Inside' <=> q \in Task!Inside \ {p}
    BY <1>0 DEF Task!TypeOK, Task!Leave, Task!Inside, Task!Within
  <2>3. \A q \in Task!Prompts : q \in Task!Inside' <=> back'[q] # Nobody
    BY <1>0, <2>2 DEF Task!TypeOK, Task!Leave, Task!Forget
  <2>4. \A q \in Task!Prompts : path'[q] # Nobody => stage'[q] \in {"work", "fix", "refix"}
    BY <1>0 DEF Task!TypeOK, Task!Leave, Task!Forget
  <2> QED
    BY <2>1, <2>3, <2>4
<1> QED
  BY <1>1, <1>2, <1>3, <1>4, <1>5 DEF Task!TypeOK

LEMMA TaskTypeStep ==
  ASSUME Task!TasksAssumption
  PROVE  Task!TypeOK /\ [Task!Next]_(Task!vars) => Task!TypeOK'
<1> SUFFICES ASSUME Task!TypeOK, [Task!Next]_(Task!vars) PROVE Task!TypeOK'
  OBVIOUS
<1> USE DEF Task!TasksAssumption
<1>1. ASSUME NEW s \in Sessions, Task!Cancel(s) PROVE Task!TypeOK'
  BY <1>1 DEF Task!TypeOK, Task!Cancel, Task!Inside, Task!Within, Task!place, Task!work
<1>2. ASSUME NEW p \in Task!Prompts, NEW s \in Sessions,
             Task!Prompt(p, s) PROVE Task!TypeOK'
  BY <1>2 DEF Task!TypeOK, Task!Inside, Task!Within, Task!request, Task!place, Task!work,
     Task!Prompt, Task!Goto
<1>3. ASSUME NEW p \in Task!Prompts, Task!Refuse(p) PROVE Task!TypeOK'
  BY <1>3 DEF Task!TypeOK, Task!Inside, Task!Within, Task!request, Task!place, Task!work,
     Task!Refuse, Task!Goto
<1>4. ASSUME NEW p \in Task!Prompts, Task!Enter(p) PROVE Task!TypeOK'
  BY <1>4 DEF Task!TypeOK, Task!Inside, Task!Within, Task!request, Task!place, Task!work,
     Task!Enter, Task!Goto
<1>5. ASSUME NEW p \in Task!Inside, NEW how \in {"error", "reply", "report"},
             Task!Leave(p, how),
             prepared' = prepared
      PROVE Task!TypeOK'
  BY <1>5, LeaveTypes
<1>6. ASSUME NEW p \in Task!Prompts, Task!MakeMemory(p) PROVE Task!TypeOK'
  BY <1>6 DEF Task!TypeOK, Task!Inside, Task!Within, Task!request, Task!place, Task!work,
     Task!MakeMemory, Task!Goto
<1>7. ASSUME NEW p \in Task!Prompts, Task!SetGoal(p) PROVE Task!TypeOK'
  <2>1. CASE prepared
    BY <2>1, <1>7 DEF Task!TypeOK, Task!Inside, Task!Within, Task!request, Task!place,
       Task!work, Task!SetGoal, Task!Goto
  <2>2. CASE ~prepared
    BY <2>2, <1>7, <1>5 DEF Task!SetGoal, Task!Inside, Task!Within
  <2> QED
    BY <2>1, <2>2
<1>8. ASSUME NEW p \in Task!Prompts, Task!Chat(p) PROVE Task!TypeOK'
  BY <1>8, <1>5 DEF Task!Chat, Task!Inside, Task!Within
<1>9. ASSUME NEW p \in Task!Prompts, Task!Begin(p) PROVE Task!TypeOK'
  BY <1>9 DEF Task!TypeOK, Task!Inside, Task!Within, Task!request, Task!place, Task!work,
     Task!Begin, Task!Goto, Task!Mixed, Task!Working
<1>10. ASSUME NEW p \in Task!Prompts, Task!Root(p) PROVE Task!TypeOK'
  BY <1>10 DEF Task!TypeOK, Task!Inside, Task!Within, Task!request, Task!place, Task!work,
     Task!Root
<1>11. ASSUME NEW p \in Task!Prompts, NEW f \in Names, Task!Write(p, f) PROVE Task!TypeOK'
  BY <1>11 DEF Task!TypeOK, Task!Inside, Task!Within, Task!request, Task!place, Task!work,
     Task!Write, Task!Strays
<1>12. ASSUME NEW p \in Task!Prompts, Task!Reproduce(p) PROVE Task!TypeOK'
  BY <1>12 DEF Task!TypeOK, Task!Inside, Task!Within, Task!request, Task!place, Task!work,
     Task!Reproduce, Task!Strays
<1>13. ASSUME NEW p \in Task!Prompts, Task!Record(p) PROVE Task!TypeOK'
  BY <1>13 DEF Task!TypeOK, Task!Inside, Task!Within, Task!request, Task!place, Task!work,
     Task!Record, Task!Mixed, Task!Working
<1>14. ASSUME NEW p \in Task!Prompts, Task!Take(p) PROVE Task!TypeOK'
  <2>1. CASE tracker # {}
    BY <2>1, <1>14 DEF Task!TypeOK, Task!Inside, Task!Within, Task!request, Task!place,
       Task!work, Task!Take, Task!Goto, Task!Mixed, Task!Working
  <2>2. CASE tracker = {}
    BY <2>2, <1>14, <1>5 DEF Task!Take, Task!Inside, Task!Within
  <2> QED
    BY <2>1, <2>2
<1>15. ASSUME NEW p \in Task!Prompts, Task!Settle(p) PROVE Task!TypeOK'
  BY <1>15 DEF Task!TypeOK, Task!Inside, Task!Within, Task!request, Task!place, Task!work,
     Task!Settle, Task!Goto
<1>16. ASSUME NEW p \in Task!Prompts, Task!Report(p) \/ Task!Fail(p) PROVE Task!TypeOK'
  BY <1>16, <1>5 DEF Task!Report, Task!Fail, Task!Inside, Task!Within
<1>17. ASSUME UNCHANGED Task!vars PROVE Task!TypeOK'
  BY <1>17 DEF Task!TypeOK, Task!Inside, Task!vars, Task!request, Task!place, Task!work
<1> QED
  BY <1>1, <1>2, <1>3, <1>4, <1>6, <1>7, <1>8, <1>9, <1>10, <1>11, <1>12, <1>13, <1>14,
     <1>15, <1>16, <1>17 DEF Task!Next

(* Types hold, for every choice of the constants.                           *)
THEOREM TasksTypeCorrect ==
  ASSUME Task!TasksAssumption
  PROVE  Task!Spec => []Task!TypeOK
<1>1. Task!Init => Task!TypeOK
  BY TasksInit DEF TasksInv
<1> QED
  BY <1>1, TaskTypeStep, PTL DEF Task!Spec

(* Who is in, after each kind of step.                                      *)
LEMMA InsideStep ==
  ASSUME Task!TypeOK, NEW p \in Task!Prompts
  PROVE  /\ \A s \in Sessions :
              Task!Prompt(p, s) => Task!Inside' = Task!Inside /\ p \notin Task!Inside
         /\ Task!Refuse(p) => Task!Inside' = Task!Inside /\ p \notin Task!Inside
         /\ Task!Enter(p) => Task!Inside' = Task!Inside \cup {p} /\ p \notin Task!Inside
         /\ Leaves(p) => Task!Inside' = Task!Inside \ {p} /\ p \in Task!Inside
         /\ Stays(p) => Task!Inside' = Task!Inside
<1>1. ASSUME NEW s \in Sessions,
             Task!Prompt(p, s) PROVE Task!Inside' = Task!Inside /\ p \notin Task!Inside
  BY <1>1 DEF Task!TypeOK, Task!Inside, Task!Prompt, Task!Goto, Task!Within
<1>2. ASSUME Task!Refuse(p) PROVE Task!Inside' = Task!Inside /\ p \notin Task!Inside
  BY <1>2 DEF Task!TypeOK, Task!Inside, Task!Refuse, Task!Goto, Task!Within
<1>3. ASSUME Task!Enter(p) PROVE Task!Inside' = Task!Inside \cup {p} /\ p \notin Task!Inside
  BY <1>3 DEF Task!TypeOK, Task!Inside, Task!Enter, Task!Goto, Task!Within
<1>4. ASSUME Leaves(p) PROVE Task!Inside' = Task!Inside \ {p} /\ p \in Task!Inside
  BY <1>4 DEF Task!TypeOK, Task!Inside, Leaves, Task!Leave, Task!Within
<1>5. ASSUME Stays(p) PROVE Task!Inside' = Task!Inside
  BY <1>5 DEF Task!TypeOK, Task!Inside, Stays, Task!Within
<1> QED
  BY <1>1, <1>2, <1>3, <1>4, <1>5

(* Entering and leaving disturb, and nothing else changes the directory.    *)
LEMMA HomeStep ==
  ASSUME Task!TypeOK, Task!TypeOK', OutsidersAreBlank, UndisturbedAreHome,
         strayed \subseteq crowded,
         [Task!Next]_(Task!vars)
  PROVE  UndisturbedAreHome' /\ (strayed \subseteq crowded)'
<1>1. ASSUME NEW s \in Sessions, Task!Cancel(s)
      PROVE  UndisturbedAreHome' /\ (strayed \subseteq crowded)'
  BY <1>1 DEF Task!Cancel, UndisturbedAreHome, Task!Inside, Task!place, Task!work
<1>2. ASSUME NEW p \in Task!Prompts, NEW s \in Sessions, Task!Prompt(p, s)
      PROVE  UndisturbedAreHome' /\ (strayed \subseteq crowded)'
  <2>1. Task!Inside' = Task!Inside /\ p \notin Task!Inside
    BY <1>2, InsideStep
  <2>2. \A q \in Task!Inside : of'[q] = of[q]
    BY <1>2, <2>1 DEF Task!Prompt, Task!TypeOK, Task!Inside
  <2> QED
    BY <1>2, <2>1, <2>2 DEF Task!Prompt, UndisturbedAreHome, Task!place, Task!work
<1>3. ASSUME NEW p \in Task!Prompts, Task!Refuse(p)
      PROVE  UndisturbedAreHome' /\ (strayed \subseteq crowded)'
  BY <1>3, InsideStep DEF Task!Refuse, UndisturbedAreHome, Task!place, Task!work
<1>4. ASSUME NEW p \in Task!Prompts, Task!Enter(p)
      PROVE  UndisturbedAreHome' /\ (strayed \subseteq crowded)'
  <2>1. base[p] = Nobody /\ of' = of /\ base' = base /\ cwd' = Home[of[p]]
    BY <1>4, InsideStep DEF Task!Enter, Task!request, Task!work, OutsidersAreBlank
  <2>2. Task!Inside' \ crowded' \subseteq {p}
    BY <1>4, InsideStep DEF Task!Enter
  <2> QED
    BY <1>4, <2>1, <2>2 DEF Task!Enter, UndisturbedAreHome, Task!work
<1>5. ASSUME NEW p \in Task!Prompts, Leaves(p)
      PROVE  UndisturbedAreHome' /\ (strayed \subseteq crowded)'
  <2>1. Task!Inside' \ crowded' = {} /\ (strayed \subseteq crowded)'
    BY <1>5, InsideStep DEF Leaves, Task!Leave, Task!Forget
  <2> QED
    BY <2>1 DEF UndisturbedAreHome
<1>6. ASSUME NEW p \in Task!Prompts, Stays(p)
      PROVE  UndisturbedAreHome' /\ (strayed \subseteq crowded)'
  <2>1. /\ Task!Inside' = Task!Inside /\ of' = of /\ cwd' = cwd
        /\ crowded' = crowded /\ p \in Task!Inside
        /\ base' \in {base, [base EXCEPT ![p] = cwd]}
    BY <1>6, InsideStep DEF Stays, Task!request, Task!place
  <2>2. UndisturbedAreHome'
    BY <2>1 DEF UndisturbedAreHome, Task!TypeOK, Task!Inside
  <2>3. ASSUME p \notin crowded PROVE strayed' = strayed
    BY <2>1, <2>3, <1>6 DEF Stays, Task!Strays, UndisturbedAreHome
  <2>4. strayed' \in {strayed, strayed \cup {p}}
    BY <1>6 DEF Stays, Task!Strays
  <2> QED
    BY <2>1, <2>2, <2>3, <2>4
<1>7. ASSUME UNCHANGED Task!vars PROVE UndisturbedAreHome' /\ (strayed \subseteq crowded)'
  BY <1>7 DEF Task!vars, UndisturbedAreHome, Task!Inside, Task!request, Task!place,
     Task!work
<1> QED
  BY <1>1, <1>2, <1>3, <1>4, <1>5, <1>6, <1>7, TaskSteps

(* As long as who leaves is the last to have entered, the stack is one.     *)
LEMMA StackStep ==
  ASSUME Task!TasksAssumption, Task!TypeOK, Task!TypeOK', ~crossed => Stacked,
         [Task!Next]_(Task!vars), ~crossed'
  PROVE  Stacked'
<1> USE DEF Task!TasksAssumption
<1>1. ASSUME NEW s \in Sessions, Task!Cancel(s) PROVE Stacked'
  BY <1>1 DEF Task!Cancel, Stacked, Below, Task!Inside, Task!place, Task!work
<1>2. ASSUME NEW p \in Task!Prompts, NEW s \in Sessions, Task!Prompt(p, s) PROVE Stacked'
  <2>0. Task!Inside' = Task!Inside /\ p \notin Task!Inside
    BY <1>2, InsideStep
  <2>1. UNCHANGED Task!place /\ \A q \in Task!Inside : of'[q] = of[q]
    BY <1>2, <2>0 DEF Task!Prompt, Task!TypeOK, Task!Inside
  <2>2. Stacked
    BY <2>1 DEF Task!place
  <2>3. \A x \in Task!Inside \cup {Nobody} : Below(x)' = Below(x)
    BY <2>1 DEF Below
  <2> QED
    BY <2>0, <2>1, <2>2, <2>3 DEF Stacked, Task!place
<1>3. ASSUME NEW p \in Task!Prompts, Task!Refuse(p) PROVE Stacked'
  BY <1>3, InsideStep DEF Task!Refuse, Stacked, Below, Task!place
<1>4. ASSUME NEW p \in Task!Prompts, Task!Enter(p) PROVE Stacked'
  <2>1. /\ Task!Inside' = Task!Inside \cup {p} /\ p \notin Task!Inside /\ of' = of /\ p # Nobody
        /\ cwd' = Home[of[p]] /\ top' = p
        /\ under' = [under EXCEPT ![p] = top] /\ back' = [back EXCEPT ![p] = cwd]
    BY <1>4, InsideStep DEF Task!Enter, Task!request
  <2>2. Stacked
    BY <1>4 DEF Task!Enter
  <2>3. \A x : Below(x)' = Below(x)
    BY <2>1 DEF Below
  <2>4. cwd' = Below(top)' /\ top' \in Task!Inside' \cup {Nobody}
    BY <2>1 DEF Below
  <2>5. /\ under'[p] = top /\ back'[p] = cwd
        /\ \A q \in Task!Inside : under'[q] = under[q] /\ back'[q] = back[q]
    BY <2>1 DEF Task!TypeOK, Task!Inside
  <2>6. \A q \in Task!Inside' : /\ under'[q] \in Task!Inside' \cup {Nobody}
                                /\ under'[q] # Nobody => under'[q] # top'
                                /\ back'[q] = Below(under'[q])
    BY <2>1, <2>2, <2>5 DEF Stacked
  <2>7. \A q, r \in Task!Inside' : under'[q] = under'[r] /\ under'[q] # Nobody => q = r
    BY <2>1, <2>2, <2>5 DEF Stacked
  <2> QED
    BY <2>3, <2>4, <2>6, <2>7 DEF Stacked
<1>5. ASSUME NEW p \in Task!Prompts, Leaves(p) PROVE Stacked'
  <2>1. /\ Task!Inside' = Task!Inside \ {p} /\ p \in Task!Inside /\ of' = of
        /\ p = top /\ top' = under[p] /\ cwd' = back[p]
        /\ \A q \in Task!Inside' : under'[q] = under[q] /\ back'[q] = back[q]
    BY <1>5, InsideStep DEF Leaves, Task!Leave, Task!Out, Task!Forget, Task!TypeOK,
       Task!Inside
  <2>2. Stacked
    BY <1>5, <2>1 DEF Leaves, Task!Leave, Task!Out
  <2>3. \A x : Below(x)' = Below(x)
    BY <2>1 DEF Below
  <2>4. under[p] \in Task!Inside' \cup {Nobody}
    BY <2>1, <2>2 DEF Stacked
  <2>5. \A q \in Task!Inside' : /\ under[q] \in Task!Inside' \cup {Nobody}
                                /\ under[q] # Nobody => under[q] # under[p]
                                /\ back[q] = Below(under[q])
    BY <2>1, <2>2 DEF Stacked
  <2>6. cwd' = Below(under[p])
    BY <2>1, <2>2 DEF Stacked
  <2> QED
    BY <2>1, <2>2, <2>3, <2>4, <2>5, <2>6 DEF Stacked
<1>6. ASSUME NEW p \in Task!Prompts, Stays(p) PROVE Stacked'
  BY <1>6, InsideStep DEF Stays, Stacked, Below, Task!request, Task!place
<1>7. ASSUME UNCHANGED Task!vars PROVE Stacked'
  BY <1>7 DEF Task!vars, Stacked, Below, Task!Inside, Task!request, Task!place
<1> QED
  BY <1>1, <1>2, <1>3, <1>4, <1>5, <1>6, <1>7, TaskSteps

Blank(p) == p \notin Task!Inside => base[p] = Nobody
NoWork(p) == stage[p] \notin {"work", "verify", "fix", "review", "refix"} => wrote[p] = {}
Own(p) ==
  p \notin mixed =>
    /\ stage[p] = "work" =>
         wrote[p] = tracker \cup (IF path[p] = Nobody THEN {} ELSE {path[p]})
    /\ stage[p] \in {"verify", "fix", "review", "refix"} => changed[p] = wrote[p]

LEMMA ByPrompt ==
  /\ OutsidersAreBlank <=> \A p \in Task!Prompts : Blank(p) /\ NoWork(p)
  /\ TrackerIsOwn <=> \A p \in Task!Prompts : Own(p)
BY DEF OutsidersAreBlank, Blank, NoWork, TrackerIsOwn, Own

LEMMA OthersKeepWork ==
  ASSUME NEW q \in Task!Prompts, NoWork(q), Own(q),
         stage'[q] = stage[q], wrote'[q] = wrote[q], path'[q] = path[q],
         changed'[q] = changed[q],
         q \in mixed => q \in mixed',
         stage[q] = "work" => tracker' = tracker \/ q \in mixed'
  PROVE  NoWork(q)' /\ Own(q)'
BY DEF NoWork, Own

(* Whoever uses the tracker mixes up those who work; and who alone does has *)
(* the tracker to himself.                                                  *)
LEMMA OwnStep ==
  ASSUME Task!TasksAssumption, Task!TypeOK, Task!TypeOK', [Task!Next]_(Task!vars),
         NEW q \in Task!Prompts, NoWork(q), Own(q)
  PROVE  NoWork(q)' /\ Own(q)'
<1> USE DEF Task!TasksAssumption
<1>0. ASSUME UNCHANGED <<stage, Task!work>> PROVE NoWork(q)' /\ Own(q)'
  BY <1>0, OthersKeepWork DEF Task!work
<1>1. ASSUME NEW p \in Task!Prompts, UNCHANGED Task!work, NEW x,
             stage' = [stage EXCEPT ![p] = x],
             \/ x \in {"model", "goal", "save", "classify", "done"}
                /\ stage[p] \in {"new", "model", "goal", "save"}
             \/ {x, stage[p]} \subseteq {"verify", "fix", "review", "refix"}
      PROVE  NoWork(q)' /\ Own(q)'
  <2>1. CASE q # p
    BY <2>1, <1>1, OthersKeepWork DEF Task!TypeOK, Task!work
  <2>2. CASE q = p
    <3>1. stage'[q] = x
      BY <2>2, <1>1 DEF Task!TypeOK
    <3> QED
      BY <2>2, <3>1, <1>1 DEF Task!work, NoWork, Own
  <2> QED
    BY <2>1, <2>2
<1>2. ASSUME NEW p \in Task!Prompts, Leaves(p) PROVE NoWork(q)' /\ Own(q)'
  <2>1. CASE q # p
    BY <2>1, <1>2, OthersKeepWork DEF Task!TypeOK, Leaves, Task!Leave, Task!Forget
  <2>2. CASE q = p
    <3>1. stage'[q] = "done" /\ wrote'[q] = {}
      BY <2>2, <1>2 DEF Task!TypeOK, Leaves, Task!Leave, Task!Forget
    <3> QED
      BY <3>1 DEF NoWork, Own
  <2> QED
    BY <2>1, <2>2
<1>3. ASSUME NEW s \in Sessions, Task!Cancel(s) PROVE NoWork(q)' /\ Own(q)'
  BY <1>3, <1>0 DEF Task!Cancel
<1>4. ASSUME NEW p \in Task!Prompts, NEW s \in Sessions,
             Task!Prompt(p, s) PROVE NoWork(q)' /\ Own(q)'
  BY <1>4, <1>1 DEF Task!Prompt, Task!Goto
<1>5. ASSUME NEW p \in Task!Prompts, Task!Refuse(p) PROVE NoWork(q)' /\ Own(q)'
  BY <1>5, <1>1 DEF Task!Refuse, Task!Goto
<1>6. ASSUME NEW p \in Task!Prompts, Task!Enter(p) PROVE NoWork(q)' /\ Own(q)'
  BY <1>6, <1>1 DEF Task!Enter, Task!Goto
<1>7. ASSUME NEW p \in Task!Prompts, Task!MakeMemory(p) PROVE NoWork(q)' /\ Own(q)'
  BY <1>7, <1>1 DEF Task!MakeMemory, Task!Goto
<1>8. ASSUME NEW p \in Task!Prompts, Task!SetGoal(p) PROVE NoWork(q)' /\ Own(q)'
  <2>1. CASE prepared
    BY <2>1, <1>8, <1>1 DEF Task!SetGoal, Task!Goto
  <2>2. CASE ~prepared
    BY <2>2, <1>8, <1>2 DEF Task!SetGoal, Leaves, Task!Inside, Task!Within
  <2> QED
    BY <2>1, <2>2
<1>9. ASSUME NEW p \in Task!Prompts, Task!Chat(p) PROVE NoWork(q)' /\ Own(q)'
  BY <1>9, <1>2 DEF Task!Chat, Leaves, Task!Inside, Task!Within
<1>10. ASSUME NEW p \in Task!Prompts, Task!Begin(p) PROVE NoWork(q)' /\ Own(q)'
  <2>1. CASE q # p
    BY <2>1, <1>10, OthersKeepWork DEF Task!TypeOK, Task!Begin, Task!Goto, Task!Mixed,
       Task!Working
  <2>2. CASE q = p
    <3>1. stage[q] = "classify" /\ stage'[q] = "work" /\ path'[q] = Nobody
      BY <2>2, <1>10 DEF Task!TypeOK, Task!Begin, Task!Goto
    <3>2. wrote'[q] = {} /\ tracker' = {}
      BY <3>1, <2>2, <1>10 DEF Task!Begin, NoWork
    <3> QED
      BY <3>1, <3>2 DEF NoWork, Own
  <2> QED
    BY <2>1, <2>2
<1>11. ASSUME NEW p \in Task!Prompts,
              Task!Root(p) \/ Task!Reproduce(p) PROVE NoWork(q)' /\ Own(q)'
  BY <1>11, OthersKeepWork DEF Task!Root, Task!Reproduce
<1>12. ASSUME NEW p \in Task!Prompts, NEW f \in Names,
              Task!Write(p, f) PROVE NoWork(q)' /\ Own(q)'
  <2>1. CASE q # p
    BY <2>1, <1>12, OthersKeepWork DEF Task!TypeOK, Task!Write
  <2>2. CASE q = p /\ stage[p] = "work"
    <3>1. /\ stage'[q] = "work" /\ path[q] = Nobody /\ path'[q] = f /\ f # Nobody
          /\ wrote'[q] = wrote[q] \cup {f} /\ tracker' = tracker /\ mixed' = mixed
      BY <2>2, <1>12 DEF Task!TypeOK, Task!Write
    <3> QED
      BY <2>2, <3>1 DEF NoWork, Own
  <2>3. CASE q = p /\ stage[p] # "work"
    <3>1. /\ stage'[q] = stage[q] /\ wrote'[q] = wrote[q]
          /\ changed'[q] = changed[q] /\ mixed' = mixed
      BY <2>3, <1>12 DEF Task!TypeOK, Task!Write
    <3> QED
      BY <2>3, <3>1 DEF NoWork, Own
  <2> QED
    BY <2>1, <2>2, <2>3
<1>13. ASSUME NEW p \in Task!Prompts, Task!Record(p) PROVE NoWork(q)' /\ Own(q)'
  <2>1. CASE q # p
    BY <2>1, <1>13, OthersKeepWork DEF Task!TypeOK, Task!Record, Task!Mixed, Task!Working
  <2>2. CASE q = p
    <3>1. /\ stage' = stage /\ path[q] # Nobody /\ path'[q] = Nobody /\ wrote' = wrote
          /\ tracker' = tracker \cup {path[q]}
          /\ changed' = changed /\ (q \in mixed => q \in mixed')
      BY <2>2, <1>13 DEF Task!TypeOK, Task!Record, Task!Mixed
    <3> QED
      BY <3>1 DEF NoWork, Own
  <2> QED
    BY <2>1, <2>2
<1>14. ASSUME NEW p \in Task!Prompts, Task!Take(p) PROVE NoWork(q)' /\ Own(q)'
  <2>1. CASE tracker = {}
    BY <2>1, <1>14, <1>2 DEF Task!Take, Leaves, Task!Inside, Task!Within
  <2>2. CASE tracker # {} /\ q # p
    BY <2>2, <1>14, OthersKeepWork DEF Task!TypeOK, Task!Take, Task!Goto, Task!Mixed,
       Task!Working
  <2>3. CASE tracker # {} /\ q = p
    <3>1. /\ stage[q] = "work" /\ path[q] = Nobody /\ stage'[q] = "verify"
          /\ changed'[q] = tracker /\ wrote' = wrote /\ (q \in mixed => q \in mixed')
      BY <2>3, <1>14 DEF Task!TypeOK, Task!Take, Task!Goto, Task!Mixed
    <3> QED
      BY <3>1 DEF NoWork, Own
  <2> QED
    BY <2>1, <2>2, <2>3
<1>15. ASSUME NEW p \in Task!Prompts, Task!Settle(p) PROVE NoWork(q)' /\ Own(q)'
  BY <1>15, <1>1 DEF Task!Settle, Task!Goto
<1>16. ASSUME NEW p \in Task!Prompts,
              Task!Report(p) \/ Task!Fail(p) PROVE NoWork(q)' /\ Own(q)'
  BY <1>16, <1>2 DEF Task!Report, Task!Fail, Leaves, Task!Inside, Task!Within
<1>17. ASSUME UNCHANGED Task!vars PROVE NoWork(q)' /\ Own(q)'
  BY <1>17, <1>0 DEF Task!vars
<1> QED
  BY <1>3, <1>4, <1>5, <1>6, <1>7, <1>8, <1>9, <1>10, <1>11, <1>12, <1>13, <1>14, <1>15,
     <1>16, <1>17 DEF Task!Next

(* Who is not in has no root.                                               *)
LEMMA BlankStep ==
  ASSUME Task!TypeOK, [Task!Next]_(Task!vars), \A q \in Task!Prompts : Blank(q)
  PROVE  \A q \in Task!Prompts : Blank(q)'
<1>1. ASSUME NEW s \in Sessions, Task!Cancel(s) PROVE \A q \in Task!Prompts : Blank(q)'
  BY <1>1 DEF Task!Cancel, Blank, Task!Inside, Task!work
<1>2. ASSUME NEW p \in Task!Prompts, NEW s \in Sessions, Task!Prompt(p, s)
      PROVE  \A q \in Task!Prompts : Blank(q)'
  BY <1>2, InsideStep DEF Task!Prompt, Blank, Task!work
<1>3. ASSUME NEW p \in Task!Prompts,
             Task!Refuse(p) \/ Task!Enter(p) PROVE \A q \in Task!Prompts : Blank(q)'
  BY <1>3, InsideStep DEF Task!Refuse, Task!Enter, Blank, Task!work
<1>4. ASSUME NEW p \in Task!Prompts, Leaves(p) PROVE \A q \in Task!Prompts : Blank(q)'
  <2>1. Task!Inside' = Task!Inside \ {p}
    BY <1>4, InsideStep
  <2>2. \A q \in Task!Prompts : base'[q] = IF q = p THEN Nobody ELSE base[q]
    BY <1>4 DEF Leaves, Task!Leave, Task!Forget, Task!TypeOK
  <2> QED
    BY <2>1, <2>2 DEF Blank
<1>5. ASSUME NEW p \in Task!Prompts, Stays(p) PROVE \A q \in Task!Prompts : Blank(q)'
  <2>1. /\ base' \in {base, [base EXCEPT ![p] = cwd]}
        /\ p \in Task!Inside /\ Task!Inside' = Task!Inside
    BY <1>5, InsideStep DEF Stays
  <2>2. \A q \in Task!Prompts : q # p => base'[q] = base[q]
    BY <2>1 DEF Task!TypeOK
  <2> QED
    BY <2>1, <2>2 DEF Blank
<1>6. ASSUME UNCHANGED Task!vars PROVE \A q \in Task!Prompts : Blank(q)'
  BY <1>6 DEF Task!vars, Blank, Task!Inside, Task!work
<1> QED
  BY <1>1, <1>2, <1>3, <1>4, <1>5, <1>6, TaskSteps

LEMMA TasksStep ==
  ASSUME Task!TasksAssumption
  PROVE  TasksInv /\ [Task!Next]_(Task!vars) => TasksInv'
<1> SUFFICES ASSUME TasksInv, [Task!Next]_(Task!vars) PROVE TasksInv'
  OBVIOUS
<1>1. Task!TypeOK /\ Task!TypeOK'
  BY TaskTypeStep DEF TasksInv
<1>2. OutsidersAreBlank' /\ TrackerIsOwn'
  BY <1>1, OwnStep, BlankStep, ByPrompt DEF TasksInv, OutsidersAreBlank, TrackerIsOwn,
     Blank, NoWork, Own
<1>3. UndisturbedAreHome' /\ (strayed \subseteq crowded)'
  BY <1>1, HomeStep DEF TasksInv
<1>4. (~crossed => Stacked)'
  BY <1>1, StackStep DEF TasksInv
<1> QED
  BY <1>1, <1>2, <1>3, <1>4 DEF TasksInv

LEMMA TasksInvariance ==
  ASSUME Task!TasksAssumption
  PROVE  Task!Spec => []TasksInv
BY TasksInit, TasksStep, PTL DEF Task!Spec

(* However many prompts overlap, who works undisturbed writes where he      *)
(* should, and prompts that leave in order restore the directory.           *)
THEOREM DirectoriesKept ==
  ASSUME Task!TasksAssumption
  PROVE  Task!Spec => []Task!DirectoriesAreKept
<1>1. TasksInv => Task!DirectoriesAreKept
  BY DEF TasksInv, Task!DirectoriesAreKept, Stacked, Below
<1> QED
  BY <1>1, TasksInvariance, PTL

(* However many use the one tracker in turn, each reports its own work.     *)
THEOREM OwnWorkReported ==
  ASSUME Task!TasksAssumption
  PROVE  Task!Spec => []Task!ReportsOwnWork
<1>1. TasksInv => Task!ReportsOwnWork
  BY DEF TasksInv, Task!ReportsOwnWork, TrackerIsOwn
<1> QED
  BY <1>1, TasksInvariance, PTL
=============================================================================
