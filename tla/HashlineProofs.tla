--------------------------- MODULE HashlineProofs ---------------------------
(* The hashline package: what the lock of the edit tool and the tag of the  *)
(* patch are worth, for any number of agents and any file, and why the      *)
(* operations of a patch are applied from the bottom of the file to the     *)
(* top, for every file and every patch.                                     *)
(*                                                                          *)
(* The lock alone keeps the edit tool from losing updates, as long as       *)
(* everybody takes it; an injective tag alone keeps the build agent from    *)
(* applying a patch to anything but what its model was shown; and reading a *)
(* file again makes up for whatever was left in the store.  Applying the    *)
(* operations is module PatchOps, with constants and variables of its own:  *)
(* what is done is done below what is not, so that the file is always its   *)
(* original lines followed by what the patch means for the others.          *)
EXTENDS HashlineEdit, SequenceTheorems, WellFoundedInduction, TLAPS

CONSTANTS Original, Bodies, MaxOps   \* of PatchOps, where each is explained
VARIABLES ops, lines, todo, changed

Patch == INSTANCE PatchOps

(* Results of an edit are contents. *)
LEMMA EditedType ==
  ASSUME NEW a \in Agents, edit[a] \in Edits
  PROVE  /\ Edited(a) \in Contents /\ Written(a) \in Contents
         /\ edit[a].old \in Contents
<1>1. /\ edit[a].old \in [Lines -> Texts] /\ edit[a].op.line \in Lines
      /\ edit[a].op.text \in Texts
  BY DEF Edits, Ops, Contents
<1>2. Edited(a) \in Contents
  BY <1>1 DEF Edited, Contents
<1> QED
  BY <1>1, <1>2, HashlineEditAssumption DEF Written, Contents

(* The build agent shows a short content as it is, of a long one no content. *)
LEMMA CappedType ==
  ASSUME NEW c \in Contents
  PROVE  /\ Capped(c) \in Views /\ c \in Views
         /\ c \notin Long => Capped(c) = c
         /\ c \in Long => Capped(c) \notin Contents
<1>1. ASSUME c \in Long PROVE Capped(c) \notin Contents
  <2>1. PICK l \in Lines : l \in Beyond
    BY HashlineEditAssumption
  <2>2. Capped(c)[l] = Cut
    BY <1>1, <2>1 DEF Capped
  <2>3. ASSUME Capped(c) \in Contents PROVE Capped(c)[l] \in Texts
    BY <2>1, <2>3 DEF Contents
  <2> QED
    BY <2>2, <2>3, HashlineEditAssumption
<1> QED
  BY <1>1 DEF Views, Capped

LEMMA TypeInit == Init => TypeOK
BY HashlineEditAssumption DEF Init, TypeOK, Editing

(* No step of anybody breaks the type invariant. *)
LEMMA TypeStep ==
  TypeOK /\ [Next]_vars => TypeOK'
<1> USE HashlineEditAssumption
<1> SUFFICES ASSUME TypeOK, [Next]_vars PROVE TypeOK'
  OBVIOUS
<1>0. engine' = engine
  BY DEF Next, vars
<1>1. ASSUME NEW a \in Agents, ReadLines(a) PROVE TypeOK'
  BY <1>0, <1>1 DEF ReadLines, TypeOK, Editing, Views
<1>2. ASSUME NEW a \in Agents, ReadTag(a) PROVE TypeOK'
  BY <1>0, <1>2 DEF ReadTag, TypeOK, Editing, Views
<1>3. ASSUME NEW a \in Agents, ReadOnce(a) PROVE TypeOK'
  <2>1. Capped(disk) \in Views
    BY CappedType DEF TypeOK
  <2> QED
    BY <1>0, <1>3, <2>1 DEF ReadOnce, TypeOK, Editing
<1>4. ASSUME NEW a \in Agents, Open(a) PROVE TypeOK'
  <2>1. PICK op \in Ops : edit' = [edit EXCEPT ![a] = [old |-> disk, op |-> op]]
    BY <1>0, <1>4 DEF Open, Begin
  <2>2. [old |-> disk, op |-> op] \in Edits
    BY <2>1 DEF TypeOK, Edits
  <2> QED
    BY <1>0, <1>4, <2>1, <2>2 DEF Open, TypeOK, Editing
<1>5. ASSUME NEW a \in Agents, Preflight(a) PROVE TypeOK'
  <2>1. edit[a] \in Edits /\ a \in Editing
    BY <1>0, <1>5 DEF Preflight, TypeOK, Editing
  <2>2. Edited(a) \in Contents /\ Written(a) \in Contents /\ edit[a].old \in Contents
    BY <2>1, EditedType
  <2> QED
    BY <1>0, <1>5, <2>1, <2>2 DEF Preflight, TypeOK, Editing, Snapshot, Close, Views
<1>6. ASSUME NEW a \in Agents, Stale(a) PROVE TypeOK'
  <2>1. edit[a] \in Edits /\ a \in Editing
    BY <1>0, <1>6 DEF Stale, TypeOK, Editing
  <2>2. Edited(a) \in Contents /\ Written(a) \in Contents /\ edit[a].old \in Contents
    BY <2>1, EditedType
  <2> QED
    BY <1>0, <1>6, <2>1, <2>2 DEF Stale, TypeOK, Editing, Snapshot, Close, Views
<1>7. ASSUME NEW a \in Agents, GateRejects(a) PROVE TypeOK'
  <2>1. edit[a] \in Edits /\ a \in Editing
    BY <1>0, <1>7 DEF GateRejects, TypeOK, Editing
  <2>2. Edited(a) \in Contents /\ Written(a) \in Contents /\ edit[a].old \in Contents
    BY <2>1, EditedType
  <2> QED
    BY <1>0, <1>7, <2>1, <2>2 DEF GateRejects, TypeOK, Editing, Snapshot, Close
<1>8. ASSUME NEW a \in Agents, ApplyPatch(a) PROVE TypeOK'
  <2>1. edit[a] \in Edits /\ a \in Editing
    BY <1>0, <1>8 DEF ApplyPatch, TypeOK, Editing
  <2>2. Edited(a) \in Contents /\ Written(a) \in Contents /\ edit[a].old \in Contents
    BY <2>1, EditedType
  <2> QED
    BY <1>0, <1>8, <2>1, <2>2 DEF ApplyPatch, TypeOK, Editing, Snapshot, Close, Views
<1>9. ASSUME NEW a \in Agents, Declined(a) PROVE TypeOK'
  <2>1. edit[a] \in Edits /\ a \in Editing
    BY <1>0, <1>9 DEF Declined, TypeOK, Editing
  <2>2. Edited(a) \in Contents /\ Written(a) \in Contents /\ edit[a].old \in Contents
    BY <2>1, EditedType
  <2> QED
    BY <1>0, <1>9, <2>1, <2>2 DEF Declined, TypeOK, Editing, Snapshot, Close
<1>10. ASSUME NEW a \in Agents, Write(a) PROVE TypeOK'
  <2>1. edit[a] \in Edits /\ a \in Editing
    BY <1>0, <1>10 DEF Write, TypeOK, Editing
  <2>2. Edited(a) \in Contents /\ Written(a) \in Contents /\ edit[a].old \in Contents
    BY <2>1, EditedType
  <2> QED
    BY <1>0, <1>10, <2>1, <2>2 DEF Write, TypeOK, Editing, Snapshot, Close, Views
<1>11. CASE ExternalEdit
  BY <1>0, <1>11 DEF ExternalEdit, TypeOK, Editing
<1>12. CASE UNCHANGED vars
  BY <1>0, <1>12 DEF vars, TypeOK, Editing
<1> QED
  BY <1>1, <1>2, <1>3, <1>4, <1>5, <1>6, <1>7, <1>8, <1>9, <1>10, <1>11, <1>12
  DEF Next

(* The file, the snapshot and every edit under way are well formed, and the *)
(* semaphore is held by exactly the agent that edits.                       *)
THEOREM TypeCorrect == Spec => []TypeOK
<1> QED
  BY TypeInit, TypeStep, PTL DEF Spec

-----------------------------------------------------------------------------
(* The lock.                                                                *)

(* Only the holder of the lock writes, and only for itself. *)
LEMMA LockStep ==
  TypeOK /\ LockKeepsUpdates /\ [Next]_vars => LockKeepsUpdates'
<1> USE HashlineEditAssumption
<1> SUFFICES ASSUME TypeOK /\ LockKeepsUpdates, [Next]_vars PROVE LockKeepsUpdates'
  OBVIOUS
<1>0. engine' = engine
  BY DEF Next, vars
<1>1. ASSUME NEW a \in Agents, ReadLines(a) PROVE LockKeepsUpdates'
  BY <1>0, <1>1 DEF ReadLines, LockKeepsUpdates, NoLostUpdate, Editing, TypeOK
<1>2. ASSUME NEW a \in Agents, ReadTag(a) PROVE LockKeepsUpdates'
  BY <1>0, <1>2 DEF ReadTag, LockKeepsUpdates, NoLostUpdate, Editing, TypeOK
<1>3. ASSUME NEW a \in Agents, ReadOnce(a) PROVE LockKeepsUpdates'
  BY <1>0, <1>3 DEF ReadOnce, LockKeepsUpdates, NoLostUpdate, Editing, TypeOK
<1>4. ASSUME NEW a \in Agents, Open(a) PROVE LockKeepsUpdates'
  <2>1. PICK op \in Ops : edit' = [edit EXCEPT ![a] = [old |-> disk, op |-> op]]
    BY <1>0, <1>4 DEF Open, Begin
  <2> QED
    BY <1>0, <1>4, <2>1 DEF Open, TypeOK, Editing, LockKeepsUpdates, NoLostUpdate
<1>5. ASSUME NEW a \in Agents, Preflight(a) PROVE LockKeepsUpdates'
  BY <1>0, <1>5 DEF Preflight, LockKeepsUpdates, NoLostUpdate, Editing, TypeOK
<1>6. ASSUME NEW a \in Agents, Stale(a) PROVE LockKeepsUpdates'
  BY <1>0, <1>6 DEF Stale, Close, LockKeepsUpdates, NoLostUpdate, Editing, TypeOK
<1>7. ASSUME NEW a \in Agents, GateRejects(a) PROVE LockKeepsUpdates'
  BY <1>0, <1>7 DEF GateRejects, Close, LockKeepsUpdates, NoLostUpdate, Editing, TypeOK
<1>8. ASSUME NEW a \in Agents, ApplyPatch(a) PROVE LockKeepsUpdates'
  BY <1>0, <1>8 DEF ApplyPatch, LockKeepsUpdates, NoLostUpdate, Editing, TypeOK
<1>9. ASSUME NEW a \in Agents, Declined(a) PROVE LockKeepsUpdates'
  BY <1>0, <1>9 DEF Declined, Close, LockKeepsUpdates, NoLostUpdate, Editing, TypeOK
<1>10. ASSUME NEW a \in Agents, Write(a) PROVE LockKeepsUpdates'
  <2>1. engine => lock = a /\ \A b \in Agents : b # a => b \notin Editing
    BY <1>0, <1>10 DEF Write, TypeOK, Editing
  <2> QED
    BY <1>0, <1>10, <2>1 DEF Write, Close, LockKeepsUpdates, NoLostUpdate, Editing, TypeOK
<1>11. CASE ExternalEdit
  BY <1>0, <1>11 DEF ExternalEdit, TypeOK, LockKeepsUpdates
<1>12. CASE UNCHANGED vars
  BY <1>0, <1>12 DEF vars, LockKeepsUpdates, NoLostUpdate, Editing
<1> QED
  BY <1>1, <1>2, <1>3, <1>4, <1>5, <1>6, <1>7, <1>8, <1>9, <1>10, <1>11, <1>12
  DEF Next

(* If nobody goes round the lock the edit tool loses no update, however     *)
(* long the user takes to answer.                                           *)
THEOREM LockedEditsLoseNothing ==
  Spec => []LockKeepsUpdates
<1>1. Init => LockKeepsUpdates
  BY DEF Init, LockKeepsUpdates, NoLostUpdate, Editing
<1>2. TypeOK /\ LockKeepsUpdates /\ [Next]_vars => LockKeepsUpdates'
  BY LockStep
<1> QED
  BY <1>1, <1>2, TypeCorrect, PTL DEF Spec

-----------------------------------------------------------------------------
(* The tag.                                                                 *)

Injective == \A c, d \in Views : Tag[c] = Tag[d] => c = d

(* The build agent shows lines and tag of one and the same text, in one      *)
(* step.                                                                    *)
TagOfWhatWasShown ==
  \A a \in Agents : pc[a] # "idle" =>
    pc[a] # "tagging" /\ shown[a] \in Views /\ tag[a] = Tag[shown[a]]

TagInv == ~engine => TagOfWhatWasShown /\ AppliedToWhatWasShown

(* The preflight lets through only the content whose tag was shown. *)
LEMMA TagStep ==
  Injective /\ TypeOK /\ TagInv /\ [Next]_vars => TagInv'
<1> USE HashlineEditAssumption
<1> SUFFICES ASSUME Injective, TypeOK /\ TagInv, [Next]_vars PROVE TagInv'
  OBVIOUS
<1>0. engine' = engine
  BY DEF Next, vars
<1>1. ASSUME NEW a \in Agents, ReadLines(a) PROVE TagInv'
  BY <1>0, <1>1 DEF ReadLines, TagInv, TagOfWhatWasShown, AppliedToWhatWasShown, TypeOK
<1>2. ASSUME NEW a \in Agents, ReadTag(a) PROVE TagInv'
  BY <1>0, <1>2 DEF ReadTag, TagInv, TagOfWhatWasShown, AppliedToWhatWasShown, TypeOK
<1>3. ASSUME NEW a \in Agents, ReadOnce(a) PROVE TagInv'
  <2>1. Capped(disk) \in Views
    BY CappedType DEF TypeOK
  <2> QED
    BY <1>0, <1>3, <2>1 DEF ReadOnce, TagInv, TagOfWhatWasShown, AppliedToWhatWasShown, TypeOK
<1>4. ASSUME NEW a \in Agents, Open(a) PROVE TagInv'
  <2>1. PICK op \in Ops : edit' = [edit EXCEPT ![a] = [old |-> disk, op |-> op]]
    BY <1>0, <1>4 DEF Open, Begin
  <2> QED
    BY <1>0, <1>4, <2>1 DEF Open, TagInv, TagOfWhatWasShown, AppliedToWhatWasShown, TypeOK
<1>5. ASSUME NEW a \in Agents, Preflight(a) PROVE TagInv'
  <2>1. edit[a] \in Edits /\ (~engine => Tag[shown[a]] = Tag[edit[a].old])
    BY <1>0, <1>5 DEF Preflight, TypeOK, Editing, Accepts, TagMatches, TagInv, TagOfWhatWasShown
  <2>2. ~engine => edit[a].old = shown[a]
    BY <1>0, <1>5, <2>1, EditedType DEF Preflight, TagInv, TagOfWhatWasShown, Injective, Views
  <2> QED
    BY <1>0, <1>5, <2>2 DEF Preflight, TagInv, TagOfWhatWasShown, AppliedToWhatWasShown, TypeOK
<1>6. ASSUME NEW a \in Agents, Stale(a) PROVE TagInv'
  BY <1>0, <1>6 DEF Stale, Close, TagInv, TagOfWhatWasShown, AppliedToWhatWasShown, TypeOK
<1>7. ASSUME NEW a \in Agents, GateRejects(a) PROVE TagInv'
  BY <1>0, <1>7 DEF GateRejects, Close, TagInv, TagOfWhatWasShown, AppliedToWhatWasShown, TypeOK
<1>8. ASSUME NEW a \in Agents, ApplyPatch(a) PROVE TagInv'
  BY <1>0, <1>8 DEF ApplyPatch, TagInv, TagOfWhatWasShown, AppliedToWhatWasShown, TypeOK
<1>9. ASSUME NEW a \in Agents, Declined(a) PROVE TagInv'
  BY <1>0, <1>9 DEF Declined, Close, TagInv, TagOfWhatWasShown, AppliedToWhatWasShown, TypeOK
<1>10. ASSUME NEW a \in Agents, Write(a) PROVE TagInv'
  BY <1>0, <1>10 DEF Write, Close, TagInv, TagOfWhatWasShown, AppliedToWhatWasShown, TypeOK
<1>11. CASE ExternalEdit
  BY <1>0, <1>11 DEF ExternalEdit, TagInv, TagOfWhatWasShown, AppliedToWhatWasShown, TypeOK
<1>12. CASE UNCHANGED vars
  BY <1>0, <1>12 DEF vars, TagInv, TagOfWhatWasShown, AppliedToWhatWasShown
<1> QED
  BY <1>1, <1>2, <1>3, <1>4, <1>5, <1>6, <1>7, <1>8, <1>9, <1>10, <1>11, <1>12
  DEF Next

(* While tags do not collide, the build agent applies a patch only to the   *)
(* content its model was shown, whoever else edits the file and whatever    *)
(* they left in the snapshot store.                                         *)
THEOREM StalePatchesAreRejected ==
  ASSUME Injective
  PROVE  Spec => []AgentAppliesToWhatWasShown
<1>1. Init => TagInv
  BY DEF Init, TagInv, TagOfWhatWasShown, AppliedToWhatWasShown
<1>2. TypeOK /\ TagInv /\ [Next]_vars => TagInv'
  BY TagStep
<1>3. TagInv => AgentAppliesToWhatWasShown
  BY DEF TagInv, AgentAppliesToWhatWasShown
<1> QED
  BY <1>1, <1>2, <1>3, TypeCorrect, PTL DEF Spec

-----------------------------------------------------------------------------
(* Reading again.                                                           *)

(* Who has read since a patch was applied or the file was written has the   *)
(* tag of what is there, edits what is there, and for the engine the store  *)
(* has the fingerprints of it.                                              *)
Refreshed(a) ==
  /\ pc[a] # "idle"
  /\ tag[a] = Tag[IF engine THEN disk ELSE Capped(disk)]
  /\ engine => store = disk
  /\ a \in Editing => edit[a].old = disk

CurrentAreRefreshed ==
  /\ \A a \in current : Refreshed(a)
  /\ \A a \in Agents : pc[a] = "tagging" => engine

LEMMA RefreshStep ==
  TypeOK /\ CurrentAreRefreshed /\ [Next]_vars => CurrentAreRefreshed'
<1> USE HashlineEditAssumption
<1> SUFFICES ASSUME TypeOK /\ CurrentAreRefreshed, [Next]_vars PROVE CurrentAreRefreshed'
  OBVIOUS
<1>0. engine' = engine
  BY DEF Next, vars
<1>1. ASSUME NEW a \in Agents, ReadLines(a) PROVE CurrentAreRefreshed'
  BY <1>0, <1>1 DEF ReadLines, CurrentAreRefreshed, Refreshed, Editing, TypeOK
<1>2. ASSUME NEW a \in Agents, ReadTag(a) PROVE CurrentAreRefreshed'
  BY <1>0, <1>2 DEF ReadTag, CurrentAreRefreshed, Refreshed, Editing, TypeOK
<1>3. ASSUME NEW a \in Agents, ReadOnce(a) PROVE CurrentAreRefreshed'
  BY <1>0, <1>3 DEF ReadOnce, CurrentAreRefreshed, Refreshed, Editing, TypeOK
<1>4. ASSUME NEW a \in Agents, Open(a) PROVE CurrentAreRefreshed'
  <2>1. PICK op \in Ops : edit' = [edit EXCEPT ![a] = [old |-> disk, op |-> op]]
    BY <1>4 DEF Open, Begin
  <2> QED
    BY <1>0, <1>4, <2>1 DEF Open, CurrentAreRefreshed, Refreshed, Editing, TypeOK
<1>5. ASSUME NEW a \in Agents, Preflight(a) PROVE CurrentAreRefreshed'
  BY <1>0, <1>5 DEF Preflight, Snapshot, CurrentAreRefreshed, Refreshed, Editing, TypeOK
<1>6. ASSUME NEW a \in Agents, Stale(a) PROVE CurrentAreRefreshed'
  BY <1>0, <1>6 DEF Stale, Close, Snapshot, CurrentAreRefreshed, Refreshed, Editing, TypeOK
<1>7. ASSUME NEW a \in Agents, GateRejects(a) PROVE CurrentAreRefreshed'
  BY <1>0, <1>7 DEF GateRejects, Close, CurrentAreRefreshed, Refreshed, Editing, TypeOK
<1>8. ASSUME NEW a \in Agents, ApplyPatch(a) PROVE CurrentAreRefreshed'
  BY <1>0, <1>8 DEF ApplyPatch, CurrentAreRefreshed, Refreshed, Editing, TypeOK
<1>9. ASSUME NEW a \in Agents, Declined(a) PROVE CurrentAreRefreshed'
  BY <1>0, <1>9 DEF Declined, Close, CurrentAreRefreshed, Refreshed, Editing, TypeOK
<1>10. ASSUME NEW a \in Agents, Write(a) PROVE CurrentAreRefreshed'
  BY <1>0, <1>10 DEF Write, Close, CurrentAreRefreshed, Refreshed, Editing, TypeOK
<1>11. CASE ExternalEdit
  BY <1>0, <1>11 DEF ExternalEdit, CurrentAreRefreshed, TypeOK
<1>12. CASE UNCHANGED vars
  BY <1>0, <1>12 DEF vars, CurrentAreRefreshed, Refreshed, Editing
<1> QED
  BY <1>1, <1>2, <1>3, <1>4, <1>5, <1>6, <1>7, <1>8, <1>9, <1>10, <1>11, <1>12
  DEF Next

(* "Re-read the file and re-anchor" helps, whatever declined and failed     *)
(* edits have left in the store and whether or not tags collide: a patch    *)
(* made from a read is not called stale before a patch is applied or the    *)
(* file is written, if the build agent has shown all of the file.           *)
THEOREM RereadersAreHeard == Spec => []RereadingHelps
<1>1. Init => CurrentAreRefreshed
  BY DEF Init, CurrentAreRefreshed
<1>2. ASSUME TypeOK, CurrentAreRefreshed PROVE RereadingHelps
  <2> SUFFICES ASSUME NEW a \in current, pc[a] = "opened",
                      engine \/ edit[a].old \notin Long
               PROVE  Accepts(a)
    BY DEF RereadingHelps
  <2>1. edit[a].old = disk /\ disk \in Contents /\ (engine => store = disk)
    BY <1>2 DEF CurrentAreRefreshed, Refreshed, Editing, TypeOK
  <2>2. tag[a] = Tag[disk]
    BY <1>2, <2>1, CappedType DEF CurrentAreRefreshed, Refreshed
  <2> QED
    BY <2>1, <2>2 DEF Accepts, TagMatches, Snapshot
<1> QED
  BY <1>1, <1>2, RefreshStep, TypeCorrect, PTL DEF Spec

-----------------------------------------------------------------------------
(* Applying the operations of a patch: an operation leaves the lines above  *)
(* it alone, and those still to come are all above it.                      *)

(* Enough lines are left for the operations still to apply. *)
LinesAreThere == Patch!Separate => \A i \in todo : ops[i].end <= Len(lines)

PatchInv == Patch!TypeOK /\ Patch!NumbersStayValid /\ LinesAreThere

(* The facts about an operation that do not depend on its kind. *)
LEMMA OpType ==
  ASSUME Patch!PatchOpsAssumption, NEW op \in Patch!Ops
  PROVE  /\ op.start \in Nat /\ op.end \in Nat /\ op.end <= Len(Original)
         /\ op.start = 0 => op.end = 0 /\ op.kind \in {"head", "tail"}
         /\ op.start # 0 => op.kind \in {"replace", "delete", "before", "after"}
         /\ op.start <= op.end
         /\ op.lines \in Seq(Texts)
         /\ op.kind \in {"replace", "delete", "before", "after", "head", "tail"}
<1>0. Len(Original) \in Nat /\ <<>> \in Seq(Texts)
  OBVIOUS
<1>1. CASE \E r \in Patch!LineNumbers \X Patch!LineNumbers, body \in Bodies :
             r[1] <= r[2] /\ op = Patch!Replace(r[1], r[2], body)
  BY <1>0, <1>1 DEF Patch!LineNumbers, Patch!Replace
<1>2. CASE \E r \in Patch!LineNumbers \X Patch!LineNumbers : r[1] <= r[2] /\ op = Patch!Delete(r[1], r[2])
  BY <1>0, <1>2 DEF Patch!LineNumbers, Patch!Delete
<1>3. CASE \E where \in {"before", "after"}, n \in Patch!LineNumbers, body \in Bodies :
             op = Patch!Insert(where, n, body)
  BY <1>0, <1>3 DEF Patch!LineNumbers, Patch!Insert
<1>4. CASE \E where \in {"head", "tail"}, body \in Bodies : op = Patch!Insert(where, 0, body)
  BY <1>0, <1>4 DEF Patch!Insert
<1> QED
  BY <1>1, <1>2, <1>3, <1>4 DEF Patch!Ops

(* The first k lines of s are also those of t. *)
SameAbove(s, t, k) ==
  t \in Seq(Texts) /\ Len(t) >= k /\ \A n \in 1 .. k : t[n] = s[n]

(* Splicing at a line leaves the lines before it alone. *)
LEMMA SpliceKeeps ==
  ASSUME NEW s \in Seq(Texts), NEW body \in Seq(Texts),
         NEW at \in Nat \ {0}, NEW count \in Nat, at <= Len(s) + 1
  PROVE  SameAbove(s, Patch!Splice(s, at, count, body), at - 1)
<1> DEFINE rest == SubSeq(s, at - 1 + count + 1, Len(s))
<1>0. Len(s) \in Nat /\ ~(at - 1 > Len(s))
  OBVIOUS
<1>1. Patch!Splice(s, at, count, body) = SubSeq(s, 1, at - 1) \o body \o rest
  BY <1>0 DEF Patch!Splice
<1>2. SameAbove(s, SubSeq(s, 1, at - 1), at - 1) /\ Len(SubSeq(s, 1, at - 1)) = at - 1
  BY DEF SameAbove
<1>3. rest \in Seq(Texts)
  OBVIOUS
<1> HIDE DEF rest
<1> QED
  BY <1>1, <1>2, <1>3 DEF SameAbove

LEMMA AbsorbType ==
  ASSUME NEW s \in Seq(Texts), NEW n \in Nat, NEW body \in Seq(Texts)
  PROVE  Patch!Absorb(s, n, body) \in Seq(Texts)
BY DEF Patch!Absorb

(* Whatever the operation, the result is a file. *)
LEMMA ApplyType ==
  ASSUME Patch!PatchOpsAssumption, NEW s \in Seq(Texts), NEW op \in Patch!Ops
  PROVE  Patch!Apply(s, op) \in Seq(Texts)
<1>0. /\ op.start \in Nat /\ op.end \in Nat /\ op.start <= op.end
      /\ op.lines \in Seq(Texts) /\ Patch!Absorb(s, op.start, op.lines) \in Seq(Texts)
      /\ op.start = 0 => op.kind \in {"head", "tail"}
      /\ op.kind \in {"replace", "delete", "before", "after", "head", "tail"}
  BY OpType, AbsorbType
<1>1. ASSUME NEW at \in Nat \ {0}, NEW count \in Nat, NEW body \in Seq(Texts)
      PROVE  Patch!Splice(s, at, count, body) \in Seq(Texts)
  <2> DEFINE before == IF at - 1 > Len(s) THEN Len(s) ELSE at - 1
  <2>1. before \in Nat /\ before <= Len(s)
    OBVIOUS
  <2>2. Patch!Splice(s, at, count, body) =
          SubSeq(s, 1, before) \o body \o SubSeq(s, before + count + 1, Len(s))
    BY DEF Patch!Splice
  <2> HIDE DEF before
  <2>3. SubSeq(s, 1, before) \in Seq(Texts) /\ SubSeq(s, before + count + 1, Len(s)) \in Seq(Texts)
    BY <2>1
  <2> QED
    BY <2>2, <2>3
<1>2. CASE Patch!Removes(op)
  <2>1. Patch!Apply(s, op) = Patch!Splice(s, op.start, op.end - op.start + 1, op.lines)
    BY <1>2 DEF Patch!Apply, Patch!Removes
  <2>2. op.start \in Nat \ {0} /\ op.end - op.start + 1 \in Nat
    BY <1>0, <1>2 DEF Patch!Removes
  <2> QED
    BY <1>0, <1>1, <2>1, <2>2, Zenon
<1>3. CASE op.kind \in {"head", "tail"}
  BY <1>0, <1>3 DEF Patch!Apply, Patch!Removes
<1>4. CASE op.kind = "before"
  <2>1. Patch!Apply(s, op) = Patch!Splice(s, op.start, 0, op.lines)
    BY <1>4 DEF Patch!Apply, Patch!Removes
  <2>2. op.start \in Nat \ {0} /\ 0 \in Nat
    BY <1>0, <1>4
  <2> QED
    BY <1>0, <1>1, <2>1, <2>2, Zenon
<1>5. CASE op.kind = "after"
  <2>1. Patch!Apply(s, op) = Patch!Splice(s, op.start + 1, 0, Patch!Absorb(s, op.start, op.lines))
    BY <1>5 DEF Patch!Apply, Patch!Removes
  <2>2. op.start + 1 \in Nat \ {0} /\ 0 \in Nat
    BY <1>0, <1>5
  <2> QED
    BY <1>0, <1>1, <2>1, <2>2, Zenon
<1> QED
  BY <1>0, <1>2, <1>3, <1>4, <1>5 DEF Patch!Removes

(* An operation leaves the lines above its own alone. *)
LEMMA ApplyKeeps ==
  ASSUME Patch!PatchOpsAssumption, NEW s \in Seq(Texts), NEW op \in Patch!Ops, op.end <= Len(s)
  PROVE  /\ Patch!Apply(s, op) \in Seq(Texts)
         /\ op.start > 0 => SameAbove(s, Patch!Apply(s, op), op.start - 1)
<1>0. /\ op.start \in Nat /\ op.end \in Nat /\ op.start <= op.end
      /\ op.lines \in Seq(Texts) /\ Len(s) \in Nat
  BY OpType
<1>a. ASSUME NEW at \in Nat \ {0}, NEW count \in Nat, NEW body \in Seq(Texts),
             at = op.start \/ at = op.start + 1, op.start > 0,
             Patch!Apply(s, op) = Patch!Splice(s, at, count, body)
      PROVE  Patch!Apply(s, op) \in Seq(Texts) /\ SameAbove(s, Patch!Apply(s, op), op.start - 1)
  <2>1. at <= Len(s) + 1
    BY <1>0, <1>a
  <2>2. SameAbove(s, Patch!Splice(s, at, count, body), at - 1)
    BY <2>1, SpliceKeeps
  <2>3. SameAbove(s, Patch!Apply(s, op), at - 1)
    BY <1>a, <2>2, Zenon
  <2>4. ASSUME NEW t, NEW k \in Int, NEW m \in Int, m <= k, SameAbove(s, t, k)
        PROVE  SameAbove(s, t, m)
    BY <2>4 DEF SameAbove
  <2>5. op.start - 1 \in Int /\ at - 1 \in Int /\ op.start - 1 <= at - 1
    BY <1>0, <1>a
  <2>6. SameAbove(s, Patch!Apply(s, op), op.start - 1)
    BY <2>3, <2>4, <2>5, Zenon
  <2> QED
    BY <2>6 DEF SameAbove
<1>1. CASE Patch!Removes(op)
  <2>1. op.start > 0 /\ Patch!Apply(s, op) = Patch!Splice(s, op.start, op.end - op.start + 1, op.lines)
    BY <1>1, OpType DEF Patch!Apply, Patch!Removes
  <2>2. op.start \in Nat \ {0} /\ op.end - op.start + 1 \in Nat
    BY <1>0, <2>1
  <2> QED
    BY <1>0, <1>a, <2>1, <2>2, Zenon
<1>2. CASE op.kind \in {"head", "tail"}
  <2>1. op.start = 0
    BY <1>2, OpType
  <2>2. Patch!Apply(s, op) \in Seq(Texts)
    BY <1>0, <1>2 DEF Patch!Apply, Patch!Removes
  <2> QED
    BY <2>1, <2>2
<1>3. CASE op.kind = "before"
  <2>1. op.start > 0 /\ Patch!Apply(s, op) = Patch!Splice(s, op.start, 0, op.lines)
    BY <1>0, <1>3, OpType DEF Patch!Apply, Patch!Removes
  <2>2. op.start \in Nat \ {0} /\ 0 \in Nat
    BY <1>0, <2>1
  <2> QED
    BY <1>0, <1>a, <2>1, <2>2, Zenon
<1>4. CASE op.kind = "after"
  <2> DEFINE body == Patch!Absorb(s, op.start, op.lines)
  <2>1. op.start > 0 /\ Patch!Apply(s, op) = Patch!Splice(s, op.start + 1, 0, body)
    BY <1>0, <1>4, OpType DEF Patch!Apply, Patch!Removes
  <2>2. body \in Seq(Texts)
    BY <1>0, AbsorbType
  <2>3. op.start + 1 \in Nat \ {0} /\ 0 \in Nat
    BY <1>0, <2>1
  <2> HIDE DEF body
  <2> QED
    BY <1>0, <1>a, <2>1, <2>2, <2>3, Zenon
<1> QED
  BY <1>1, <1>2, <1>3, <1>4, OpType DEF Patch!Removes

LEMMA PatchInit ==
  ASSUME Patch!PatchOpsAssumption
  PROVE  Patch!Init => PatchInv
<1> SUFFICES ASSUME Patch!Init PROVE PatchInv
  OBVIOUS
<1>1. PICK n \in 1 .. MaxOps : ops \in [1 .. n -> Patch!Ops]
  BY DEF Patch!Init
<1>2. Patch!TypeOK
  BY Patch!PatchOpsAssumption, <1>1 DEF Patch!Init, Patch!TypeOK
<1>3. \A i \in todo : ops[i] \in Patch!Ops
  BY <1>1 DEF Patch!Init
<1>4. LinesAreThere
  BY <1>3, OpType DEF Patch!Init, LinesAreThere
<1>5. Patch!NumbersStayValid
  BY DEF Patch!Init, Patch!NumbersStayValid
<1> QED
  BY <1>2, <1>4, <1>5 DEF PatchInv

LEMMA PatchStep ==
  ASSUME Patch!PatchOpsAssumption
  PROVE  PatchInv /\ [Patch!Next]_(Patch!vars) => PatchInv'
<1> SUFFICES ASSUME PatchInv, [Patch!Next]_(Patch!vars) PROVE PatchInv'
  OBVIOUS
<1>1. CASE UNCHANGED Patch!vars
  BY <1>1 DEF Patch!vars, PatchInv, Patch!TypeOK, Patch!NumbersStayValid, LinesAreThere, Patch!Separate
<1>2. ASSUME NEW i \in DOMAIN ops, Patch!Step(i) PROVE PatchInv'
  <2> DEFINE op == ops[i]
  <2>0. /\ i \in todo /\ op \in Patch!Ops /\ \A j \in todo : ops[j] \in Patch!Ops
        /\ lines \in Seq(Texts) /\ todo \subseteq DOMAIN ops
        /\ ops' = ops /\ todo' = todo \ {i} /\ lines' = Patch!Apply(lines, op)
    BY <1>2 DEF Patch!Step, PatchInv, Patch!TypeOK
  <2>1. changed' \subseteq Nat \ {0}
    <3>1. Patch!Reports(lines, op) \subseteq Nat \ {0}
      <4>1. /\ op.start \in Nat /\ op.lines \in Seq(Texts) /\ Len(lines) \in Nat
            /\ op.start = 0 => op.kind \in {"head", "tail"}
            /\ op.kind \in {"replace", "delete", "before", "after", "head", "tail"}
        BY <2>0, OpType
      <4>2. \A body \in Seq(Texts) : Len(body) \in Nat
        OBVIOUS
      <4>3. Patch!Absorb(lines, op.start, op.lines) \in Seq(Texts)
        BY <2>0, <4>1, AbsorbType
      <4>4. \A n \in Nat \ {0}, k \in Nat : n .. n + k - 1 \subseteq Nat \ {0}
        OBVIOUS
      <4> DEFINE body == IF op.kind = "after" THEN Patch!Absorb(lines, op.start, op.lines)
                                            ELSE op.lines
      <4>5. Len(body) \in Nat
        BY <4>1, <4>2, <4>3
      <4> HIDE DEF body
      <4>6. CASE op.kind \in {"replace", "before"}
        <5>1. Patch!Reports(lines, op) = op.start .. op.start + Len(op.lines) - 1
          BY <4>6 DEF Patch!Reports
        <5>2. op.start \in Nat \ {0} /\ Len(op.lines) \in Nat
          BY <4>1, <4>2, <4>6
        <5> QED
          BY <5>1, <5>2
      <4>7. CASE op.kind = "delete"
        BY <4>1, <4>7 DEF Patch!Reports
      <4>8. CASE op.kind = "head"
        <5>1. Patch!Reports(lines, op) = 1 .. 1 + Len(op.lines) - 1
          BY <4>8 DEF Patch!Reports
        <5> QED
          BY <4>1, <4>2, <5>1
      <4>9. CASE op.kind = "tail"
        <5> DEFINE m == Len(lines) + 1
        <5>1. m \in Nat \ {0}
          BY <4>1
        <5>2. Patch!Reports(lines, op) = m .. m + Len(op.lines) - 1
          <6> HIDE DEF m
          <6>1. Patch!Reports(lines, op) = Len(lines) + 1 .. Len(lines) + 1 + Len(op.lines) - 1
            BY <4>9, SMTT(60) DEF Patch!Reports
          <6> QED
            BY <6>1 DEF m
        <5> HIDE DEF m
        <5> QED
          BY <4>1, <4>2, <5>1, <5>2
      <4>10. CASE op.kind = "after"
        <5>1. body = Patch!Absorb(lines, op.start, op.lines)
          BY <4>10 DEF body
        <5>2. Patch!Reports(lines, op) = op.start + 1 .. op.start + 1 + Len(body) - 1
          BY <4>10, <5>1 DEF Patch!Reports
        <5> QED
          BY <4>1, <4>5, <5>2
      <4> QED
        BY <4>1, <4>6, <4>7, <4>8, <4>9, <4>10
    <3> QED
      BY <1>2, <3>1 DEF Patch!Step, PatchInv, Patch!TypeOK
  <2>2. lines' \in Seq(Texts)
    BY <2>0, ApplyType
  <2>3. ASSUME Patch!Separate, NEW j \in todo \ {i}
        PROVE  /\ ops[j].end <= Len(lines')
               /\ \A n \in 1 .. ops[j].end : lines'[n] = Original[n]
    <3>0. /\ ops[j] \in Patch!Ops /\ j \in DOMAIN ops /\ Patch!Precedes(i, j)
          /\ op.end <= Len(lines) /\ ops[j].end <= Len(lines)
          /\ \A n \in 1 .. ops[j].end : lines[n] = Original[n]
      BY <1>2, <2>0, <2>3 DEF Patch!Step, PatchInv, Patch!NumbersStayValid, LinesAreThere
    <3>1. /\ op.start \in Nat /\ ops[j].start \in Nat /\ ops[j].end \in Nat
          /\ ops[j].start <= ops[j].end /\ op.start <= op.end /\ op.end \in Nat
          /\ ops[j].start = 0 => ops[j].end = 0
      BY <2>0, <3>0, OpType
    <3>2. ops[j].start <= op.start
      BY <3>0, <3>1 DEF Patch!Precedes
    <3>3. CASE ops[j].start = 0
      BY <2>2, <3>1, <3>3
    <3>4. CASE ops[j].start > 0
      <4>1. Patch!Span(op) \cap Patch!Span(ops[j]) = {}
        BY <2>0, <2>3, <3>0, <3>1, <3>2, <3>4 DEF Patch!Separate
      <4>2. ops[j].end <= op.start - 1
        <5>1. op.start \in Patch!Span(op)
          BY <3>1 DEF Patch!Span
        <5>2. op.start \notin Patch!Span(ops[j])
          BY <4>1, <5>1
        <5> QED
          BY <3>1, <3>2, <5>2 DEF Patch!Span
      <4>3. SameAbove(lines, lines', op.start - 1)
        BY <2>0, <3>0, <3>1, <3>2, <3>4, ApplyKeeps
      <4> QED
        BY <3>0, <3>1, <4>2, <4>3 DEF SameAbove
    <3> QED
      BY <3>1, <3>3, <3>4
  <2>4. Patch!Separate' <=> Patch!Separate
    BY <2>0 DEF Patch!Separate
  <2> QED
    BY <2>0, <2>1, <2>2, <2>3, <2>4 DEF PatchInv, Patch!TypeOK, Patch!NumbersStayValid, LinesAreThere
<1> QED
  BY <1>1, <1>2 DEF Patch!Next

LEMMA PatchInvariance ==
  ASSUME Patch!PatchOpsAssumption
  PROVE  Patch!Spec => []PatchInv
BY PatchInit, PatchStep, PTL DEF Patch!Spec

(* Every state of applyOps is well typed, also for overlapping operations.  *)
THEOREM PatchTypeCorrect ==
  ASSUME Patch!PatchOpsAssumption
  PROVE  Patch!Spec => []Patch!TypeOK
<1>1. PatchInv => Patch!TypeOK
  BY DEF PatchInv
<1> QED
  BY PatchInvariance, <1>1, PTL

(* "original line numbers stay stable": for every file and every patch      *)
(* whose operations speak of different lines, applying them in descending   *)
(* order keeps the lines the remaining ones speak of, and all lines before, *)
(* where they were.                                                         *)
THEOREM NumbersAreStable ==
  ASSUME Patch!PatchOpsAssumption
  PROVE  Patch!Spec => []Patch!NumbersStayValid
<1>1. PatchInv => Patch!NumbersStayValid
  BY DEF PatchInv
<1> QED
  BY PatchInvariance, <1>1, PTL

-----------------------------------------------------------------------------
(* What a patch means is a concatenation, which is given step by step.      *)

LEMMA LeastOf ==
  ASSUME NEW S, S \subseteq Nat, S # {}
  PROVE  \E x \in S : \A y \in S : x <= y
<1> DEFINE R == OpToRel(<, Nat)
<1>1. IsWellFoundedOn(R, Nat)
  BY NatLessThanWellFounded
<1>2. R = {p \in Nat \X Nat : p[1] < p[2]}
  BY DEF OpToRel
<1> HIDE DEF R
<1>3. PICK x \in S : \A y \in S : <<y, x>> \notin R
  BY <1>1, WFMin, Zenon
<1>4. ASSUME NEW y \in S PROVE x <= y
  <2>1. <<y, x>> \in Nat \X Nat /\ <<y, x>>[1] = y /\ <<y, x>>[2] = x
    OBVIOUS
  <2>2. ~(y < x)
    BY <1>2, <1>3, <2>1
  <2> QED
    BY <2>1, <2>2
<1> QED
  BY <1>4

(* The prefixes of the concatenation of parts.                              *)
Prefixes(f, parts) ==
  /\ f[0] = <<>>
  /\ \A i \in 1 .. Len(parts) : f[i] = f[i - 1] \o parts[i]

(* What FlattenSeq is defined by.                                           *)
Unfolded(f, parts) ==
  f = [i \in 1 .. Len(parts) |-> IF i = 1 THEN parts[i] ELSE f[i - 1] \o parts[i]]

LEMMA Unfolding ==
  ASSUME NEW parts, parts \in Seq(Seq(Texts)), parts # <<>>
  PROVE  \E f : Unfolded(f, parts)
<1> DEFINE N == Len(parts)
           Upto(g, n) == \A i \in 1 .. n : g[i] = IF i = 1 THEN parts[i] ELSE g[i - 1] \o parts[i]
           Without == {n \in 1 .. N : ~\E g : g = [i \in 1 .. n |-> g[i]] /\ Upto(g, n)}
<1>1. N \in Nat \ {0}
  BY EmptySeq
<1> HIDE DEF N
<1>2. Without = {}
  <2> SUFFICES ASSUME Without # {} PROVE FALSE
    OBVIOUS
  <2>1. Without \subseteq Nat
    BY <1>1
  <2>2. PICK n \in Without : \A m \in Without : n <= m
    <3> HIDE DEF Without
    <3> QED
      BY <2>1, LeastOf
  <2>3. n \in 1 .. N
    OBVIOUS
  <2>4. CASE n = 1
    <3> DEFINE g == [i \in 1 .. 1 |-> parts[i]]
    <3>1. g = [i \in 1 .. 1 |-> g[i]] /\ Upto(g, 1)
      OBVIOUS
    <3> QED
      BY <2>4, <3>1
  <2>5. CASE n # 1
    <3>1. n - 1 \in 1 .. N /\ n - 1 \notin Without
      <4>1. n - 1 \in 1 .. N /\ ~(n <= n - 1)
        BY <1>1, <2>3, <2>5
      <4> QED
        BY <2>2, <4>1
    <3>2. PICK g : g = [i \in 1 .. n - 1 |-> g[i]] /\ Upto(g, n - 1)
      BY <3>1
    <3> DEFINE h == [i \in 1 .. n |-> IF i = n THEN g[n - 1] \o parts[n] ELSE g[i]]
    <3>3. \A i \in 1 .. n - 1 : h[i] = g[i]
      BY <1>1, <2>3
    <3>4. h[n] = h[n - 1] \o parts[n]
      <4>1. n - 1 \in 1 .. n - 1 /\ n \in 1 .. n
        BY <1>1, <2>3, <2>5
      <4>2. h[n] = g[n - 1] \o parts[n]
        BY <4>1
      <4> HIDE DEF h
      <4> QED
        BY <3>3, <4>1, <4>2
    <3>5. h = [i \in 1 .. n |-> h[i]]
      OBVIOUS
    <3> HIDE DEF h
    <3>6. Upto(h, n)
      <4> SUFFICES ASSUME NEW i \in 1 .. n
                   PROVE  h[i] = IF i = 1 THEN parts[i] ELSE h[i - 1] \o parts[i]
        OBVIOUS
      <4>1. CASE i = n
        BY <2>5, <3>4, <4>1
      <4>2. CASE i # n
        <5>1. i \in 1 .. n - 1 /\ (i # 1 => i - 1 \in 1 .. n - 1)
          BY <1>1, <2>3, <4>2
        <5> QED
          BY <3>2, <3>3, <5>1
      <4> QED
        BY <4>1, <4>2
    <3> QED
      BY <2>2, <3>5, <3>6
  <2> QED
    BY <2>4, <2>5
<1>3. N \in 1 .. N
  BY <1>1
<1>4. PICK g : g = [i \in 1 .. N |-> g[i]] /\ Upto(g, N)
  BY <1>2, <1>3
<1>5. g = [i \in 1 .. N |-> IF i = 1 THEN parts[i] ELSE g[i - 1] \o parts[i]]
  BY <1>4
<1> QED
  BY <1>5 DEF Unfolded, N

LEMMA Flattened ==
  ASSUME NEW parts, parts \in Seq(Seq(Texts)), parts # <<>>
  PROVE  \E f \in [0 .. Len(parts) -> Seq(Texts)] :
           Prefixes(f, parts) /\ Patch!FlattenSeq(parts) = f[Len(parts)]
<1> DEFINE g == CHOOSE f : Unfolded(f, parts)
           N == Len(parts)
<1>1. Unfolded(g, parts)
  BY Unfolding
<1>2. Patch!FlattenSeq(parts) = g[N]
  <2>1. N # 0
    BY EmptySeq
  <2> QED
    BY <2>1 DEF Patch!FlattenSeq, Unfolded
<1>3. N \in Nat \ {0}
  BY EmptySeq
<1>4. \A i \in 1 .. N : g[i] = IF i = 1 THEN parts[i] ELSE g[i - 1] \o parts[i]
  BY <1>1 DEF Unfolded
<1> HIDE DEF g
<1>5. \A i \in 1 .. N : parts[i] \in Seq(Texts)
  OBVIOUS
<1> HIDE DEF N
<1> DEFINE Off == {n \in 1 .. N : g[n] \notin Seq(Texts)}
<1>6. Off = {}
  <2> SUFFICES ASSUME Off # {} PROVE FALSE
    OBVIOUS
  <2>1. Off \subseteq Nat
    BY <1>3
  <2>2. PICK n \in Off : \A m \in Off : n <= m
    <3> HIDE DEF Off
    <3> QED
      BY <2>1, LeastOf
  <2>3. n \in 1 .. N /\ g[n] \notin Seq(Texts)
    OBVIOUS
  <2>4. n # 1
    BY <1>4, <1>5, <2>3
  <2>5. n - 1 \in 1 .. N /\ ~(n <= n - 1)
    BY <1>3, <2>3, <2>4
  <2>6. g[n - 1] \in Seq(Texts)
    BY <2>2, <2>5
  <2>7. g[n] = g[n - 1] \o parts[n] /\ parts[n] \in Seq(Texts)
    BY <1>4, <1>5, <2>3, <2>4
  <2> QED
    BY <2>3, <2>6, <2>7, ConcatProperties
<1> DEFINE f == [i \in 0 .. N |-> IF i = 0 THEN <<>> ELSE g[i]]
<1>7. f \in [0 .. N -> Seq(Texts)]
  <2>1. ASSUME NEW i \in 0 .. N, i # 0 PROVE g[i] \in Seq(Texts)
    <3>1. i \in 1 .. N
      BY <1>3, <2>1
    <3> QED
      BY <1>6, <3>1
  <2>2. <<>> \in Seq(Texts)
    OBVIOUS
  <2> QED
    BY <2>1, <2>2
<1>8. f[0] = <<>> /\ \A i \in 1 .. N : f[i] = g[i]
  BY <1>3
<1> HIDE DEF f
<1>9. \A i \in 1 .. N : f[i] = f[i - 1] \o parts[i]
  <2> SUFFICES ASSUME NEW i \in 1 .. N PROVE f[i] = f[i - 1] \o parts[i]
    OBVIOUS
  <2>1. CASE i = 1
    <3>1. f[i - 1] = <<>> /\ f[i] = parts[i]
      BY <1>4, <1>8, <2>1
    <3> QED
      BY <1>5, <3>1, ConcatEmptySeq
  <2>2. CASE i # 1
    <3>1. i - 1 \in 1 .. N
      BY <1>3, <2>2
    <3> QED
      BY <1>4, <1>8, <2>2, <3>1
  <2> QED
    BY <2>1, <2>2
<1>10. Prefixes(f, parts)
  BY <1>8, <1>9 DEF Prefixes, N
<1>11. Patch!FlattenSeq(parts) = f[N]
  BY <1>2, <1>3, <1>8
<1> QED
  BY <1>7, <1>10, <1>11 DEF N

LEMMA EmptyConcat ==
  /\ <<>> \in Seq(Texts) /\ <<>> \o <<>> = <<>>
  /\ \A s \in Seq(Texts) : <<>> \o s = s /\ s \o <<>> = s
BY ConcatEmptySeq

(* The lines that no operation speaks of stay; an operation alone is what   *)
(* is put around its line.                                                  *)
PatchTyped == \E n \in 1 .. MaxOps : ops \in [1 .. n -> Patch!Ops]

LEMMA OpsTyped ==
  ASSUME Patch!PatchOpsAssumption, PatchTyped, NEW i \in DOMAIN ops
  PROVE  /\ ops[i] \in Patch!Ops
         /\ ops[i].start \in Nat /\ ops[i].end \in Nat /\ ops[i].end <= Len(Original)
         /\ ops[i].start <= ops[i].end /\ ops[i].lines \in Seq(Texts)
         /\ ops[i].kind \in {"replace", "delete", "before", "after", "head", "tail"}
         /\ ops[i].start = 0 => ops[i].end = 0 /\ ops[i].kind \in {"head", "tail"}
         /\ ops[i].start # 0 => ops[i].kind \in {"replace", "delete", "before", "after"}
<1>1. ops[i] \in Patch!Ops
  BY DEF PatchTyped
<1> QED
  BY <1>1, OpType

LEMMA OpShape ==
  ASSUME Patch!PatchOpsAssumption, NEW op \in Patch!Ops
  PROVE  /\ op.kind = "delete" => op.lines = <<>>
         /\ op.kind \in {"before", "after"} => op.end = op.start
<1>1. CASE \E r \in Patch!LineNumbers \X Patch!LineNumbers, body \in Bodies :
             r[1] <= r[2] /\ op = Patch!Replace(r[1], r[2], body)
  BY <1>1 DEF Patch!Replace
<1>2. CASE \E r \in Patch!LineNumbers \X Patch!LineNumbers :
             r[1] <= r[2] /\ op = Patch!Delete(r[1], r[2])
  BY <1>2 DEF Patch!Delete
<1>3. CASE \E where \in {"before", "after"}, n \in Patch!LineNumbers, body \in Bodies :
             op = Patch!Insert(where, n, body)
  BY <1>3 DEF Patch!Insert
<1>4. CASE \E where \in {"head", "tail"}, body \in Bodies : op = Patch!Insert(where, 0, body)
  BY <1>4 DEF Patch!Insert
<1> QED
  BY <1>1, <1>2, <1>3, <1>4 DEF Patch!Ops

(* What stands where an operation of that kind does. *)
Body(i) ==
  IF ops[i].kind = "after" THEN Patch!Absorb(Original, ops[i].start, ops[i].lines)
                           ELSE ops[i].lines

LEMMA BodyType ==
  ASSUME Patch!PatchOpsAssumption, PatchTyped, NEW i \in DOMAIN ops
  PROVE  Body(i) \in Seq(Texts)
<1>1. Original \in Seq(Texts)
  BY DEF Patch!PatchOpsAssumption
<1> QED
  BY <1>1, OpsTyped, AbsorbType DEF Body

LEMMA AtNone ==
  ASSUME NEW kind, NEW n, \A i \in DOMAIN ops : ops[i].kind = kind => ops[i].start # n
  PROVE  Patch!At(kind, n) = <<>>
<1>1. {i \in DOMAIN ops : ops[i].kind = kind /\ ops[i].start = n} = {}
  OBVIOUS
<1> QED
  BY <1>1 DEF Patch!At

LEMMA AtOne ==
  ASSUME NEW i \in DOMAIN ops,
         \A j \in DOMAIN ops : j # i => ops[j].kind # ops[i].kind \/ ops[j].start # ops[i].start
  PROVE  Patch!At(ops[i].kind, ops[i].start) = Body(i)
<1> DEFINE here == {j \in DOMAIN ops : ops[j].kind = ops[i].kind /\ ops[j].start = ops[i].start}
<1>1. here = {i}
  OBVIOUS
<1>2. here # {} /\ (CHOOSE j \in here : TRUE) = i
  BY <1>1
<1> HIDE DEF here
<1>3. Patch!At(ops[i].kind, ops[i].start) =
        IF ops[i].kind = "after"
          THEN Patch!Absorb(Original, ops[i].start, ops[CHOOSE j \in here : TRUE].lines)
          ELSE ops[CHOOSE j \in here : TRUE].lines
  BY <1>2 DEF Patch!At, here
<1> QED
  BY <1>2, <1>3 DEF Body

LEMMA AtType ==
  ASSUME Patch!PatchOpsAssumption, PatchTyped, NEW kind, NEW n \in Nat
  PROVE  Patch!At(kind, n) \in Seq(Texts)
<1> DEFINE here == {j \in DOMAIN ops : ops[j].kind = kind /\ ops[j].start = n}
           c == CHOOSE j \in here : TRUE
<1>1. CASE here = {}
  BY <1>1 DEF Patch!At
<1>2. CASE here # {}
  <2>1. c \in here
    BY <1>2
  <2>2. c \in DOMAIN ops
    BY <2>1
  <2>3. Patch!At(kind, n) =
          IF kind = "after" THEN Patch!Absorb(Original, n, ops[c].lines) ELSE ops[c].lines
    BY <1>2 DEF Patch!At
  <2> HIDE DEF c, here
  <2>4. ops[c].lines \in Seq(Texts) /\ Original \in Seq(Texts)
    BY <2>2, OpsTyped DEF Patch!PatchOpsAssumption
  <2> QED
    BY <2>3, <2>4, AbsorbType
<1> QED
  BY <1>1, <1>2

LEMMA AroundType ==
  ASSUME Patch!PatchOpsAssumption, PatchTyped, NEW n \in Patch!LineNumbers
  PROVE  Patch!AroundLine(n) \in Seq(Texts)
<1>1. n \in Nat /\ Original[n] \in Texts
  BY DEF Patch!PatchOpsAssumption, Patch!LineNumbers
<1> DEFINE kept == IF Patch!Kept(n) THEN <<Original[n]>> ELSE <<>>
<1>2. kept \in Seq(Texts)
  BY <1>1
<1>3. Patch!AroundLine(n) =
        Patch!At("before", n) \o Patch!At("replace", n) \o kept \o Patch!At("after", n)
  BY DEF Patch!AroundLine
<1> HIDE DEF kept
<1> QED
  BY <1>1, <1>2, <1>3, AtType, ConcatProperties

LEMMA AroundUntouched ==
  ASSUME Patch!PatchOpsAssumption, PatchTyped, NEW n \in Patch!LineNumbers,
         \A i \in DOMAIN ops : n \notin Patch!Span(ops[i])
  PROVE  Patch!AroundLine(n) = <<Original[n]>>
<1>1. n \in Nat /\ Original[n] \in Texts
  BY DEF Patch!PatchOpsAssumption, Patch!LineNumbers
<1>2. \A i \in DOMAIN ops : ops[i].start # n
  BY <1>1, OpsTyped DEF Patch!Span
<1>3. /\ Patch!At("before", n) = <<>> /\ Patch!At("replace", n) = <<>>
      /\ Patch!At("after", n) = <<>>
  BY <1>2, AtNone
<1>4. Patch!Kept(n)
  BY DEF Patch!Kept
<1>5. <<Original[n]>> \in Seq(Texts)
  BY <1>1
<1>6. Patch!AroundLine(n) = <<>> \o <<>> \o <<Original[n]>> \o <<>>
  BY <1>3, <1>4, Zenon DEF Patch!AroundLine
<1> QED
  BY <1>5, <1>6, EmptyConcat

(* What stands around the lines of an operation that shares them with no    *)
(* other.                                                                   *)
Around(i) ==
  CASE Patch!Removes(ops[i])    -> ops[i].lines
    [] ops[i].kind = "before" -> ops[i].lines \o <<Original[ops[i].start]>>
    [] ops[i].kind = "after"  -> <<Original[ops[i].start]>> \o Body(i)

LEMMA AroundOne ==
  ASSUME Patch!PatchOpsAssumption, PatchTyped, Patch!Separate,
         NEW i \in DOMAIN ops, ops[i].start > 0
  PROVE  /\ Around(i) \in Seq(Texts)
         /\ Patch!AroundLine(ops[i].start) = Around(i)
         /\ \A n \in ops[i].start + 1 .. ops[i].end : Patch!AroundLine(n) = <<>>
<1> DEFINE op == ops[i]
           a == ops[i].start
<1>0. /\ op \in Patch!Ops /\ a \in Nat \ {0} /\ op.end \in Nat /\ op.end <= Len(Original)
      /\ a <= op.end /\ op.lines \in Seq(Texts)
      /\ op.kind \in {"replace", "delete", "before", "after"}
      /\ op.kind = "delete" => op.lines = <<>>
      /\ op.kind \in {"before", "after"} => op.end = a
      /\ Original \in Seq(Texts) /\ Body(i) \in Seq(Texts)
  BY OpsTyped, OpShape, BodyType DEF Patch!PatchOpsAssumption
<1>1. /\ a \in Patch!LineNumbers /\ Original[a] \in Texts
      /\ <<Original[a]>> \in Seq(Texts)
  BY <1>0 DEF Patch!LineNumbers
<1>2. ASSUME NEW j \in DOMAIN ops, j # i, NEW n \in a .. op.end
      PROVE  n \notin Patch!Span(ops[j]) /\ ops[j].start # n
  <2>1. n \in Patch!Span(op) /\ n \in Nat \ {0}
    BY <1>0 DEF Patch!Span
  <2>2. CASE ops[j].start > 0
    <3>1. n \notin Patch!Span(ops[j])
      BY <1>2, <2>1, <2>2 DEF Patch!Separate
    <3> QED
      BY <2>1, <3>1, OpsTyped DEF Patch!Span
  <2>3. CASE ops[j].start = 0
    BY <2>1, <2>3, OpsTyped DEF Patch!Span
  <2> QED
    BY <2>2, <2>3, OpsTyped
<1>3. a \in a .. op.end
  BY <1>0
<1>4. Patch!At(op.kind, a) = Body(i)
  BY <1>2, <1>3, AtOne
<1>5. ASSUME NEW kind, kind # op.kind PROVE Patch!At(kind, a) = <<>>
  BY <1>2, <1>3, <1>5, AtNone
<1>6. ASSUME NEW n \in a .. op.end
      PROVE  Patch!Kept(n) <=> ~Patch!Removes(op)
  <2>1. n \in Patch!Span(op)
    BY DEF Patch!Span
  <2> QED
    BY <1>2, <2>1 DEF Patch!Kept
<1>7. CASE Patch!Removes(op)
  <2>1. Patch!At("replace", a) = op.lines
    <3>1. CASE op.kind = "replace"
      BY <1>4, <3>1 DEF Body
    <3>2. CASE op.kind = "delete"
      BY <1>0, <1>5, <3>2
    <3> QED
      BY <1>7, <3>1, <3>2 DEF Patch!Removes
  <2>2. Patch!At("before", a) = <<>> /\ Patch!At("after", a) = <<>>
    BY <1>5, <1>7 DEF Patch!Removes
  <2>3. ~Patch!Kept(a)
    BY <1>3, <1>6, <1>7
  <2>4. Patch!AroundLine(a) = op.lines
    BY <1>0, <2>1, <2>2, <2>3, ConcatEmptySeq DEF Patch!AroundLine
  <2>5. ASSUME NEW n \in a + 1 .. op.end PROVE Patch!AroundLine(n) = <<>>
    <3>1. n \in a .. op.end /\ n # a
      BY <1>0
    <3>2. \A j \in DOMAIN ops : ops[j].start # n
      BY <1>2, <3>1
    <3>3. \A kind : Patch!At(kind, n) = <<>>
      BY <3>2, AtNone
    <3>4. ~Patch!Kept(n)
      BY <1>6, <1>7, <3>1
    <3> QED
      BY <3>3, <3>4, ConcatEmptySeq DEF Patch!AroundLine
  <2>6. Around(i) = op.lines
    BY <1>7 DEF Around, Patch!Removes
  <2> QED
    BY <1>0, <2>4, <2>5, <2>6
<1>8. CASE op.kind = "before"
  <2>1. Patch!At("before", a) = op.lines
    BY <1>4, <1>8 DEF Body
  <2>2. Patch!At("replace", a) = <<>> /\ Patch!At("after", a) = <<>>
    BY <1>5, <1>8
  <2>3. Patch!Kept(a) /\ ~Patch!Removes(op)
    BY <1>3, <1>6, <1>8 DEF Patch!Removes
  <2>4. Patch!AroundLine(a) = op.lines \o <<Original[a]>>
    <3>1. Patch!AroundLine(a) = op.lines \o <<>> \o <<Original[a]>> \o <<>>
      BY <2>1, <2>2, <2>3, Zenon DEF Patch!AroundLine
    <3>2. op.lines \o <<Original[a]>> \in Seq(Texts)
      BY <1>0, <1>1, ConcatProperties
    <3> QED
      BY <1>0, <3>1, <3>2, EmptyConcat
  <2> QED
    BY <1>0, <1>1, <1>8, <2>3, <2>4, ConcatProperties DEF Around
<1>9. CASE op.kind = "after"
  <2>1. Patch!At("after", a) = Body(i)
    BY <1>4, <1>9
  <2>2. Patch!At("replace", a) = <<>> /\ Patch!At("before", a) = <<>>
    BY <1>5, <1>9
  <2>3. Patch!Kept(a) /\ ~Patch!Removes(op)
    BY <1>3, <1>6, <1>9 DEF Patch!Removes
  <2>4. Patch!AroundLine(a) = <<Original[a]>> \o Body(i)
    BY <1>0, <1>1, <2>1, <2>2, <2>3, ConcatEmptySeq, ConcatProperties DEF Patch!AroundLine
  <2> QED
    BY <1>0, <1>1, <1>9, <2>3, <2>4, ConcatProperties DEF Around
<1> QED
  BY <1>0, <1>7, <1>8, <1>9 DEF Patch!Removes

-----------------------------------------------------------------------------
(* The lines are, up to an operation, those of the original; what follows   *)
(* is what the patch means there.                                           *)

Parts == [n \in Patch!LineNumbers |-> Patch!AroundLine(n)]

(* A function that gives the meaning of the first lines.                    *)
Meaning(f) ==
  /\ f \in [0 .. Len(Original) -> Seq(Texts)] /\ f[0] = <<>>
  /\ \A n \in Patch!LineNumbers : f[n] = f[n - 1] \o Patch!AroundLine(n)

LEMMA SomeMeaning ==
  ASSUME Patch!PatchOpsAssumption, PatchTyped
  PROVE  \E f : /\ Meaning(f)
                /\ Patch!Meant =
                     Patch!At("head", 0) \o f[Len(Original)] \o Patch!At("tail", 0)
<1> DEFINE N == Len(Original)
<1>1. Original \in Seq(Texts) /\ Original # <<>> /\ N \in Nat \ {0}
  BY EmptySeq DEF Patch!PatchOpsAssumption
<1>2. Patch!LineNumbers = 1 .. N
  BY DEF Patch!LineNumbers
<1>3. Parts \in Seq(Seq(Texts)) /\ Len(Parts) = N
      /\ \A n \in 1 .. N : Parts[n] = Patch!AroundLine(n)
  BY <1>1, <1>2, AroundType DEF Parts
<1>4. Parts # <<>>
  BY <1>1, <1>3
<1>5. PICK f \in [0 .. Len(Parts) -> Seq(Texts)] :
        Prefixes(f, Parts) /\ Patch!FlattenSeq(Parts) = f[Len(Parts)]
  BY <1>3, <1>4, Flattened
<1>6. Meaning(f)
  BY <1>2, <1>3, <1>5 DEF Meaning, Prefixes
<1>7. Patch!Meant = Patch!At("head", 0) \o Patch!FlattenSeq(Parts) \o Patch!At("tail", 0)
  BY DEF Patch!Meant, Parts
<1> QED
  BY <1>3, <1>5, <1>6, <1>7

(* Lines around which there is nothing mean nothing.                        *)
LEMMA NothingThere ==
  ASSUME NEW f, Meaning(f), NEW k \in 0 .. Len(Original), NEW m \in k .. Len(Original),
         \A n \in k + 1 .. m : Patch!AroundLine(n) = <<>>
  PROVE  f[m] = f[k]
<1> DEFINE Off == {n \in k .. m : f[n] # f[k]}
<1>0. k \in Nat /\ m \in Nat /\ k <= m /\ m <= Len(Original) /\ Len(Original) \in Nat
  OBVIOUS
<1>1. Off = {}
  <2> SUFFICES ASSUME Off # {} PROVE FALSE
    OBVIOUS
  <2>1. Off \subseteq Nat
    <3>1. \A n \in k .. m : n \in Nat
      BY <1>0
    <3>2. Off \subseteq k .. m
      OBVIOUS
    <3> HIDE DEF Off
    <3> QED
      BY <3>1, <3>2
  <2>2. PICK n \in Off : \A j \in Off : n <= j
    <3> HIDE DEF Off
    <3> QED
      BY <2>1, LeastOf
  <2>3. n \in k + 1 .. m /\ n - 1 \in k .. m /\ ~(n <= n - 1) /\ n - 1 \in 0 .. Len(Original)
    BY <1>0
  <2>4. f[n - 1] = f[k]
    BY <2>2, <2>3
  <2>5. n \in Patch!LineNumbers /\ f[n - 1] \in Seq(Texts)
    <3>1. n \in Patch!LineNumbers
      BY <1>0, <2>3 DEF Patch!LineNumbers
    <3>2. f \in [0 .. Len(Original) -> Seq(Texts)]
      BY DEF Meaning
    <3> QED
      BY <2>3, <3>1, <3>2
  <2>6. f[n] = f[n - 1] \o <<>>
    BY <2>3, <2>5 DEF Meaning
  <2> QED
    BY <2>4, <2>5, <2>6, EmptyConcat
<1>2. m \in k .. m
  BY <1>0
<1> QED
  BY <1>1, <1>2

(* Lines that stay mean themselves.                                         *)
LEMMA StayThere ==
  ASSUME Patch!PatchOpsAssumption, NEW f, Meaning(f),
         NEW k \in 0 .. Len(Original), NEW m \in k .. Len(Original),
         \A n \in k + 1 .. m : Patch!AroundLine(n) = <<Original[n]>>
  PROVE  f[m] = f[k] \o SubSeq(Original, k + 1, m)
<1> DEFINE Off == {n \in k .. m : f[n] # f[k] \o SubSeq(Original, k + 1, n)}
<1>0. k \in Nat /\ m \in Nat /\ k <= m /\ m <= Len(Original) /\ Len(Original) \in Nat
      /\ Original \in Seq(Texts)
  BY DEF Patch!PatchOpsAssumption
<1>1. Off = {}
  <2> SUFFICES ASSUME Off # {} PROVE FALSE
    OBVIOUS
  <2>1. Off \subseteq Nat
    <3>1. \A n \in k .. m : n \in Nat
      BY <1>0
    <3>2. Off \subseteq k .. m
      OBVIOUS
    <3> HIDE DEF Off
    <3> QED
      BY <3>1, <3>2
  <2>2. PICK n \in Off : \A j \in Off : n <= j
    <3> HIDE DEF Off
    <3> QED
      BY <2>1, LeastOf
  <2>3. n \in k .. m /\ n \in Nat
    BY <1>0
  <2>4. f[k] \in Seq(Texts)
    BY <1>0 DEF Meaning
  <2>5. CASE n = k
    <3>1. SubSeq(Original, k + 1, n) = <<>>
      BY <1>0, <2>5, SubSeqEmpty
    <3>2. f[n] = f[k] \o SubSeq(Original, k + 1, n)
      BY <2>4, <2>5, <3>1, EmptyConcat
    <3> QED
      BY <2>2, <3>2
  <2>6. CASE n # k
    <3>1. /\ n \in k + 1 .. m /\ n - 1 \in k .. m /\ ~(n <= n - 1)
          /\ n \in Patch!LineNumbers /\ k + 1 \in 1 .. Len(Original)
          /\ n \in k + 1 .. Len(Original)
      BY <1>0, <2>3, <2>6 DEF Patch!LineNumbers
    <3>2. f[n - 1] = f[k] \o SubSeq(Original, k + 1, n - 1)
      BY <2>2, <3>1
    <3>3. f[n] = f[n - 1] \o <<Original[n]>>
      BY <3>1 DEF Meaning
    <3>4. SubSeq(Original, k + 1, n) = SubSeq(Original, k + 1, n - 1) \o <<Original[n]>>
      BY <1>0, <3>1, SubSeqRecursiveSecond
    <3>5. SubSeq(Original, k + 1, n - 1) \in Seq(Texts) /\ <<Original[n]>> \in Seq(Texts)
      BY <1>0, <2>3, <3>1 DEF Patch!LineNumbers
    <3>6. f[n] = f[k] \o SubSeq(Original, k + 1, n)
      <4>1. \A a, b, c \in Seq(Texts) : (a \o b) \o c = a \o (b \o c)
        BY ConcatAssociative
      <4>2. (f[k] \o SubSeq(Original, k + 1, n - 1)) \o <<Original[n]>>
              = f[k] \o (SubSeq(Original, k + 1, n - 1) \o <<Original[n]>>)
        BY <2>4, <3>5, <4>1
      <4> QED
        BY <3>2, <3>3, <3>4, <4>2, Zenon
    <3> QED
      BY <2>2, <3>6
  <2> QED
    BY <2>5, <2>6
<1>2. m \in k .. m
  BY <1>0
<1> QED
  BY <1>1, <1>2

(* The operations at the ends that are done.                                *)
Done(kind) ==
  IF \E i \in DOMAIN ops \ todo : ops[i].kind = kind THEN Patch!At(kind, 0) ELSE <<>>

(* Below the operations that are done, and not below one that is not.       *)
Between(k) ==
  \A i \in DOMAIN ops :
    /\ i \in todo => ops[i].end <= k
    /\ i \notin todo => k < ops[i].start

(* The order of the operations.                                             *)
DoneFirst == \A i \in DOMAIN ops \ todo, j \in todo : ops[j].start <= ops[i].start

LinesMean(f) ==
  /\ \A k \in 0 .. Len(Original) : Between(k) =>
       \E rest \in Seq(Texts) : /\ f[Len(Original)] = f[k] \o rest
                                /\ lines = SubSeq(Original, 1, k) \o rest
  /\ (\E i \in DOMAIN ops \ todo : ops[i].start = 0) =>
       lines = Done("head") \o f[Len(Original)] \o Done("tail")

LinesAreMeant == Patch!Separate => \A f : Meaning(f) => LinesMean(f)

-----------------------------------------------------------------------------
(* What splicing does to a file whose first lines are still the original    *)
(* ones.                                                                    *)

LEMMA Concats ==
  /\ \A s, t \in Seq(Texts) : s \o t \in Seq(Texts)
  /\ \A s, t, u \in Seq(Texts) : (s \o t) \o u = s \o (t \o u)
BY ConcatAssociative, ConcatProperties

LEMMA PartOf ==
  ASSUME NEW s \in Seq(Texts), NEW m \in Nat \ {0}, NEW n \in 0 .. Len(s)
  PROVE  /\ SubSeq(s, m, n) \in Seq(Texts)
         /\ Len(SubSeq(s, m, n)) = IF m <= n THEN n - m + 1 ELSE 0
         /\ \A j \in 1 .. n - m + 1 : SubSeq(s, m, n)[j] = s[m + j - 1]
<1>1. Len(s) \in Nat
  OBVIOUS
<1>2. m \in Int /\ n \in Int /\ \A j \in m .. n : s[j] \in Texts
  BY <1>1
<1> QED
  BY <1>2, SubSeqProperties

LEMMA FirstPart ==
  ASSUME NEW s \in Seq(Texts), NEW n \in 0 .. Len(s)
  PROVE  /\ SubSeq(s, 1, n) \in Seq(Texts) /\ Len(SubSeq(s, 1, n)) = n
         /\ \A j \in 1 .. n : SubSeq(s, 1, n)[j] = s[j]
<1>1. n \in Nat /\ 1 \in Nat \ {0} /\ Len(s) \in Nat
  OBVIOUS
<1> QED
  BY <1>1, PartOf

LEMMA PartBefore ==
  ASSUME NEW o \in Seq(Texts), NEW rest \in Seq(Texts),
         NEW b \in 0 .. Len(o), NEW k \in 0 .. b
  PROVE  SubSeq(SubSeq(o, 1, b) \o rest, 1, k) = SubSeq(o, 1, k)
<1> DEFINE p == SubSeq(o, 1, b)
           s == p \o rest
<1>1. Len(o) \in Nat /\ Len(rest) \in Nat /\ b \in Nat /\ k \in Nat /\ k <= b /\ k <= Len(o)
  OBVIOUS
<1>2. p \in Seq(Texts) /\ Len(p) = b /\ \A j \in 1 .. b : p[j] = o[j]
  BY <1>1, PartOf
<1> HIDE DEF p
<1>3. /\ s \in Seq(Texts) /\ Len(s) = b + Len(rest)
      /\ \A j \in 1 .. b : s[j] = o[j]
  <2>1. /\ s \in Seq(Texts) /\ Len(s) = Len(p) + Len(rest)
        /\ \A j \in 1 .. Len(p) + Len(rest) :
             s[j] = IF j <= Len(p) THEN p[j] ELSE rest[j - Len(p)]
    BY <1>2, ConcatProperties
  <2> HIDE DEF s
  <2> QED
    BY <1>1, <1>2, <2>1
<1> HIDE DEF s
<1>4. k \in 0 .. Len(s) /\ k \in 0 .. Len(o) /\ 1 \in Nat \ {0}
  BY <1>1, <1>3
<1>5. /\ SubSeq(s, 1, k) \in Seq(Texts) /\ Len(SubSeq(s, 1, k)) = k
      /\ \A j \in 1 .. k : SubSeq(s, 1, k)[j] = s[j]
  BY <1>1, <1>3, <1>4, PartOf
<1>6. /\ SubSeq(o, 1, k) \in Seq(Texts) /\ Len(SubSeq(o, 1, k)) = k
      /\ \A j \in 1 .. k : SubSeq(o, 1, k)[j] = o[j]
  BY <1>1, <1>4, PartOf
<1>7. \A j \in 1 .. k : SubSeq(s, 1, k)[j] = SubSeq(o, 1, k)[j]
  BY <1>1, <1>3, <1>5, <1>6
<1>8. SubSeq(s, 1, k) = SubSeq(o, 1, k)
  BY <1>5, <1>6, <1>7, SeqEqual
<1> QED
  BY <1>8 DEF s, p

LEMMA PartAfter ==
  ASSUME NEW o \in Seq(Texts), NEW rest \in Seq(Texts),
         NEW b \in 0 .. Len(o), NEW k \in 0 .. b
  PROVE  SubSeq(SubSeq(o, 1, b) \o rest, k + 1, Len(SubSeq(o, 1, b) \o rest))
           = SubSeq(o, k + 1, b) \o rest
<1> DEFINE p == SubSeq(o, 1, b)
           s == p \o rest
           q == SubSeq(o, k + 1, b)
           t == SubSeq(s, k + 1, Len(s))
<1>1. Len(o) \in Nat /\ Len(rest) \in Nat /\ b \in Nat /\ k \in Nat /\ k <= b
      /\ b \in 0 .. Len(o) /\ k + 1 \in Nat \ {0}
  OBVIOUS
<1>2. p \in Seq(Texts) /\ Len(p) = b /\ \A j \in 1 .. b : p[j] = o[j]
  BY <1>1, PartOf
<1>3. q \in Seq(Texts) /\ Len(q) = b - k /\ \A j \in 1 .. b - k : q[j] = o[k + j]
  <2>1. /\ q \in Seq(Texts) /\ Len(q) = IF k + 1 <= b THEN b - (k + 1) + 1 ELSE 0
        /\ \A j \in 1 .. b - (k + 1) + 1 : q[j] = o[k + 1 + j - 1]
    BY <1>1, PartOf, Zenon
  <2> HIDE DEF q
  <2> QED
    BY <1>1, <2>1
<1> HIDE DEF p, q
<1>4. /\ s \in Seq(Texts) /\ Len(s) = b + Len(rest)
      /\ \A j \in 1 .. b + Len(rest) : s[j] = IF j <= b THEN p[j] ELSE rest[j - b]
  BY <1>1, <1>2, ConcatProperties
<1> HIDE DEF s
<1>5. /\ t \in Seq(Texts) /\ Len(t) = b + Len(rest) - k
      /\ \A j \in 1 .. b + Len(rest) - k : t[j] = s[k + j]
  <2>1. Len(s) \in 0 .. Len(s)
    BY <1>1, <1>4
  <2>2. /\ t \in Seq(Texts) /\ Len(t) = IF k + 1 <= Len(s) THEN Len(s) - (k + 1) + 1 ELSE 0
        /\ \A j \in 1 .. Len(s) - (k + 1) + 1 : t[j] = s[k + 1 + j - 1]
    BY <1>1, <1>4, <2>1, PartOf, Zenon
  <2> HIDE DEF t
  <2> QED
    BY <1>1, <1>4, <2>2
<1> HIDE DEF t
<1>6. /\ q \o rest \in Seq(Texts) /\ Len(q \o rest) = b - k + Len(rest)
      /\ \A j \in 1 .. b - k + Len(rest) :
           (q \o rest)[j] = IF j <= b - k THEN q[j] ELSE rest[j - (b - k)]
  <2>1. /\ q \o rest \in Seq(Texts) /\ Len(q \o rest) = Len(q) + Len(rest)
        /\ \A j \in 1 .. Len(q) + Len(rest) :
             (q \o rest)[j] = IF j <= Len(q) THEN q[j] ELSE rest[j - Len(q)]
    BY <1>3, ConcatProperties
  <2>2. Len(q) = b - k
    BY <1>3
  <2> QED
    BY <2>1, <2>2, Zenon
<1>7. ASSUME NEW j \in 1 .. Len(t) PROVE t[j] = (q \o rest)[j]
  <2>1. j \in Nat /\ j <= b + Len(rest) - k /\ 1 <= j
    BY <1>1, <1>5
  <2>2. t[j] = s[k + j] /\ k + j \in 1 .. b + Len(rest) /\ j \in 1 .. b - k + Len(rest)
    BY <1>1, <1>5, <2>1
  <2>3. CASE j <= b - k
    <3>1. k + j \in 1 .. b /\ j \in 1 .. b - k
      BY <1>1, <2>1, <2>3
    <3>2. s[k + j] = o[k + j]
      BY <1>1, <1>2, <1>4, <2>2, <3>1
    <3> QED
      BY <1>3, <1>6, <2>2, <2>3, <3>1, <3>2
  <2>4. CASE ~(j <= b - k)
    <3>1. ~(k + j <= b) /\ k + j - b = j - (b - k)
      BY <1>1, <2>1, <2>4
    <3>2. s[k + j] = rest[k + j - b]
      BY <1>4, <2>2, <3>1
    <3>3. (q \o rest)[j] = rest[j - (b - k)]
      BY <1>6, <2>2, <2>4
    <3> QED
      BY <2>2, <3>1, <3>2, <3>3
  <2> QED
    BY <2>3, <2>4
<1>8. Len(t) = Len(q \o rest)
  BY <1>1, <1>5, <1>6
<1>9. t = q \o rest
  BY <1>5, <1>6, <1>7, <1>8, SeqEqual
<1> QED
  BY <1>9 DEF t, s, q, p

(* An operation puts what the patch means around its lines where they were. *)
LEMMA AppliedThere ==
  ASSUME Patch!PatchOpsAssumption, PatchTyped, NEW i \in DOMAIN ops, ops[i].start > 0,
         NEW rest \in Seq(Texts)
  PROVE  /\ Around(i) \in Seq(Texts)
         /\ Patch!Apply(SubSeq(Original, 1, ops[i].end) \o rest, ops[i])
              = SubSeq(Original, 1, ops[i].start - 1) \o (Around(i) \o rest)
<1> DEFINE op == ops[i]
           a == ops[i].start
           b == ops[i].end
           s == SubSeq(Original, 1, b) \o rest
           top == SubSeq(Original, 1, a - 1)
<1>0. /\ a \in Nat \ {0} /\ b \in Nat /\ b <= Len(Original)
      /\ a <= b /\ op.lines \in Seq(Texts)
      /\ op.kind \in {"replace", "delete", "before", "after"}
      /\ op.kind \in {"before", "after"} => b = a
      /\ Original \in Seq(Texts) /\ Body(i) \in Seq(Texts) /\ Len(Original) \in Nat
  BY OpsTyped, OpShape, BodyType DEF Patch!PatchOpsAssumption
<1>1. /\ a - 1 \in 0 .. b /\ a \in 0 .. b /\ b \in 0 .. Len(Original) /\ a - 1 + 1 = a
      /\ a \in 1 .. Len(Original) /\ a \in 1 .. b /\ 0 \in Nat /\ 1 \in Nat
      /\ b - a + 1 \in Nat /\ a - 1 + (b - a + 1) = b
      /\ a - 1 \in 0 .. Len(Original) /\ 1 \in Nat \ {0}
  BY <1>0
<1>2. /\ top \in Seq(Texts) /\ SubSeq(Original, 1, a) \in Seq(Texts)
      /\ <<Original[a]>> \in Seq(Texts)
      /\ SubSeq(Original, 1, a) = top \o <<Original[a]>>
      /\ SubSeq(Original, a, a) = <<Original[a]>>
      /\ SubSeq(Original, b + 1, b) = <<>> /\ SubSeq(Original, a + 1, a) = <<>>
  <2>1. top \in Seq(Texts) /\ SubSeq(Original, 1, a) \in Seq(Texts)
    <3>1. a \in 0 .. Len(Original)
      BY <1>0, <1>1
    <3> QED
      BY <1>0, <1>1, <3>1, PartOf
  <2>2. <<Original[a]>> \in Seq(Texts)
    BY <1>0, <1>1
  <2>3. SubSeq(Original, 1, a) = top \o <<Original[a]>>
    <3>1. 1 \in 1 .. Len(Original) /\ a \in 1 .. Len(Original)
      BY <1>0
    <3> QED
      BY <1>0, <3>1, SubSeqRecursiveSecond
  <2>4. SubSeq(Original, b + 1, b) = <<>> /\ SubSeq(Original, a + 1, a) = <<>>
    BY <1>0, SubSeqEmpty
  <2>5. SubSeq(Original, a, a) = <<Original[a]>>
    <3>1. a \in a .. Len(Original)
      BY <1>0
    <3>2. SubSeq(Original, a, a) = <<Original[a]>> \o SubSeq(Original, a + 1, a)
      BY <1>0, <1>1, <3>1, SubSeqRecursiveFirst
    <3> QED
      BY <2>2, <2>4, <3>2, EmptyConcat
  <2> QED
    BY <2>1, <2>2, <2>3, <2>4, <2>5
<1> HIDE DEF top
<1>a. ASSUME NEW k \in 0 .. b, NEW c \in Nat, k + c <= b, NEW body \in Seq(Texts),
             Patch!Apply(s, op) = Patch!Splice(s, k + 1, c, body)
      PROVE  Patch!Apply(s, op)
               = SubSeq(Original, 1, k) \o body \o (SubSeq(Original, k + c + 1, b) \o rest)
  <2> DEFINE at == k + 1
  <2>1. /\ b \in 0 .. Len(Original) /\ k + c \in 0 .. b /\ k \in 0 .. b
        /\ at \in Nat /\ at - 1 = k /\ at - 1 + c + 1 = k + c + 1
    BY <1>0, <1>a
  <2>2. Len(s) = b + Len(rest) /\ Len(rest) \in Nat
    <3>1. SubSeq(Original, 1, b) \in Seq(Texts) /\ Len(SubSeq(Original, 1, b)) = b
      BY <1>0, <2>1, FirstPart
    <3> QED
      BY <3>1, ConcatProperties
  <2>3. SubSeq(s, 1, k) = SubSeq(Original, 1, k)
    BY <1>0, <2>1, PartBefore
  <2>4. SubSeq(s, k + c + 1, Len(s)) = SubSeq(Original, k + c + 1, b) \o rest
    <3> DEFINE m == k + c
    <3>1. m \in 0 .. b
      BY <2>1
    <3> HIDE DEF m
    <3>2. SubSeq(s, m + 1, Len(s)) = SubSeq(Original, m + 1, b) \o rest
      BY <1>0, <2>1, <3>1, PartAfter
    <3> QED
      BY <3>2 DEF m
  <2>5. ~(at - 1 > Len(s))
    BY <1>0, <2>1, <2>2
  <2>6. Patch!Splice(s, at, c, body)
          = SubSeq(s, 1, at - 1) \o body \o SubSeq(s, at - 1 + c + 1, Len(s))
    <3> HIDE DEF at, s
    <3> QED
      BY <2>5 DEF Patch!Splice
  <2>7. Patch!Apply(s, op) = Patch!Splice(s, at, c, body)
    BY <1>a, Zenon
  <2> HIDE DEF at, s
  <2> QED
    BY <2>1, <2>3, <2>4, <2>6, <2>7, Zenon
<1> DEFINE applied == Patch!Apply(s, op)
<1>b. /\ Patch!Removes(op) => applied = Patch!Splice(s, a, b - a + 1, op.lines)
      /\ op.kind = "before" => applied = Patch!Splice(s, a, 0, op.lines)
      /\ op.kind = "after" => applied = Patch!Splice(s, a + 1, 0, Patch!Absorb(s, a, op.lines))
  <2> HIDE DEF s
  <2> QED
    BY DEF Patch!Apply, Patch!Removes
<1>3. CASE Patch!Removes(op)
  <2> DEFINE k == a - 1
             c == b - a + 1
  <2>1. k \in 0 .. b /\ c \in Nat /\ k + c <= b /\ k + 1 = a /\ k + c + 1 = b + 1
    BY <1>0
  <2> HIDE DEF k, c
  <2>2. Patch!Apply(s, op) = Patch!Splice(s, k + 1, c, op.lines)
    BY <1>3, <1>b, <2>1, Zenon DEF c
  <2>3. Patch!Apply(s, op) = SubSeq(Original, 1, k) \o op.lines \o (SubSeq(Original, b + 1, b) \o rest)
    <3>1. Patch!Apply(s, op)
            = SubSeq(Original, 1, k) \o op.lines \o (SubSeq(Original, k + c + 1, b) \o rest)
      BY <1>0, <1>a, <2>1, <2>2, Zenon
    <3> QED
      BY <2>1, <3>1, Zenon
  <2>4. Patch!Apply(s, op) = top \o op.lines \o rest
    <3>1. <<>> \o rest = rest
      BY EmptyConcat
    <3> QED
      BY <1>2, <2>3, <3>1, Zenon DEF top, k
  <2>5. Around(i) = op.lines
    <3> HIDE DEF s
    <3> QED
      BY <1>3 DEF Around, Patch!Removes
  <2>6. top \o op.lines \o rest = top \o (op.lines \o rest)
    <3>1. top \in Seq(Texts) /\ op.lines \in Seq(Texts)
      BY <1>0, <1>2
    <3> HIDE DEF op
    <3> QED
      BY <3>1, Concats, Zenon
  <2> QED
    BY <1>0, <2>4, <2>5, <2>6, Zenon DEF top
<1>4. CASE op.kind = "before"
  <2> DEFINE k == a - 1
  <2>0. b = a /\ ~Patch!Removes(op)
    BY <1>0, <1>4 DEF Patch!Removes
  <2>1. k \in 0 .. b /\ k + 0 <= b /\ k + 1 = a /\ k + 0 + 1 = a /\ 0 \in Nat
    BY <1>0
  <2> HIDE DEF k
  <2>2. Patch!Apply(s, op) = Patch!Splice(s, k + 1, 0, op.lines)
    BY <1>4, <1>b, <2>1, Zenon
  <2>3. Patch!Apply(s, op) = SubSeq(Original, 1, k) \o op.lines \o (SubSeq(Original, a, b) \o rest)
    <3>1. Patch!Apply(s, op)
            = SubSeq(Original, 1, k) \o op.lines \o (SubSeq(Original, k + 0 + 1, b) \o rest)
      BY <1>0, <1>a, <2>1, <2>2, Zenon
    <3> QED
      BY <2>1, <3>1, Zenon
  <2>4. Patch!Apply(s, op) = top \o op.lines \o (<<Original[a]>> \o rest)
    BY <1>2, <2>0, <2>3, Zenon DEF top, k
  <2>5. Around(i) = op.lines \o <<Original[a]>>
    BY <1>4, <2>0 DEF Around
  <2>6. /\ top \o op.lines \o (<<Original[a]>> \o rest) = top \o (op.lines \o <<Original[a]>> \o rest)
        /\ op.lines \o <<Original[a]>> \in Seq(Texts)
    <3> DEFINE l == <<Original[a]>>
    <3>1. l \in Seq(Texts)
      BY <1>2
    <3> HIDE DEF l
    <3>2. op.lines \o l \in Seq(Texts)
      BY <1>0, <3>1, ConcatProperties
    <3>3. top \in Seq(Texts) /\ op.lines \in Seq(Texts)
      BY <1>0, <1>2
    <3>4. l \o rest \in Seq(Texts)
      BY <3>1, Concats, Zenon
    <3>5. top \o op.lines \o (l \o rest) = top \o (op.lines \o (l \o rest))
      BY <3>3, <3>4, Concats, Zenon
    <3>6. op.lines \o (l \o rest) = op.lines \o l \o rest
      BY <3>1, <3>3, Concats, Zenon
    <3> QED
      BY <3>2, <3>5, <3>6, Zenon DEF l
  <2> QED
    BY <2>4, <2>5, <2>6, Zenon DEF top
<1>5. CASE op.kind = "after"
  <2>0. b = a /\ ~Patch!Removes(op)
    BY <1>0, <1>5 DEF Patch!Removes
  <2>1. Patch!Absorb(s, a, op.lines) = Body(i)
    <3> DEFINE p == SubSeq(Original, 1, b)
    <3>1. p \in Seq(Texts) /\ Len(p) = b /\ p[a] = Original[a]
      <4>1. /\ p \in Seq(Texts) /\ Len(p) = b
            /\ \A j \in 1 .. b : p[j] = Original[j]
        BY <1>0, <1>1, FirstPart
      <4> HIDE DEF p
      <4> QED
        BY <1>0, <4>1
    <3> HIDE DEF p
    <3>2. Len(p \o rest) = Len(p) + Len(rest) /\ (p \o rest)[a] = Original[a] /\ Len(rest) \in Nat
      <4>1. Len(rest) \in Nat /\ a \in 1 .. Len(p) + Len(rest) /\ a <= Len(p)
        BY <1>0, <3>1
      <4> QED
        BY <3>1, <4>1, ConcatProperties
    <3>3. a <= Len(p \o rest) /\ a <= Len(Original)
      BY <1>0, <3>1, <3>2
    <3>4. Patch!Absorb(p \o rest, a, op.lines) = Patch!Absorb(Original, a, op.lines)
      BY <3>2, <3>3 DEF Patch!Absorb
    <3> QED
      BY <1>5, <3>4 DEF Body, p
  <2>2. Patch!Apply(s, op) = Patch!Splice(s, a + 1, 0, Body(i))
    BY <1>5, <1>b, <2>1, Zenon
  <2>3. Patch!Apply(s, op) = SubSeq(Original, 1, a) \o Body(i) \o (SubSeq(Original, a + 1, b) \o rest)
    <3>1. a \in 0 .. b /\ a + 0 <= b /\ a + 0 + 1 = a + 1 /\ 0 \in Nat
      BY <1>0
    <3>2. Patch!Apply(s, op)
            = SubSeq(Original, 1, a) \o Body(i) \o (SubSeq(Original, a + 0 + 1, b) \o rest)
      BY <1>0, <1>a, <2>2, <3>1, Zenon
    <3> QED
      BY <3>1, <3>2, Zenon
  <2>4. Patch!Apply(s, op) = top \o <<Original[a]>> \o Body(i) \o rest
    <3>1. <<>> \o rest = rest
      BY EmptyConcat
    <3> QED
      BY <1>2, <2>0, <2>3, <3>1, Zenon
  <2>5. Around(i) = <<Original[a]>> \o Body(i)
    BY <1>5, <2>0 DEF Around
  <2>6. /\ top \o <<Original[a]>> \o Body(i) \o rest = top \o (<<Original[a]>> \o Body(i) \o rest)
        /\ <<Original[a]>> \o Body(i) \in Seq(Texts)
    <3> DEFINE l == <<Original[a]>>
    <3>1. l \in Seq(Texts)
      BY <1>2
    <3> HIDE DEF l
    <3>2. l \o Body(i) \in Seq(Texts)
      BY <1>0, <3>1, ConcatProperties
    <3>3. top \in Seq(Texts) /\ Body(i) \in Seq(Texts)
      BY <1>0, <1>2
    <3>4. top \o l \o Body(i) = top \o (l \o Body(i))
      BY <3>1, <3>3, Concats, Zenon
    <3>5. top \o (l \o Body(i)) \o rest = top \o (l \o Body(i) \o rest)
      BY <3>2, <3>3, Concats, Zenon
    <3> QED
      BY <3>2, <3>4, <3>5, Zenon DEF l
  <2> QED
    BY <2>4, <2>5, <2>6, Zenon DEF top
<1> QED
  BY <1>0, <1>3, <1>4, <1>5 DEF Patch!Removes

-----------------------------------------------------------------------------
(* Every step keeps that.                                                   *)

MeansInv == PatchInv /\ DoneFirst /\ LinesAreMeant

LEMMA InvTyped ==
  ASSUME PatchInv
  PROVE  PatchTyped /\ lines \in Seq(Texts) /\ todo \subseteq DOMAIN ops
BY DEF PatchInv, Patch!TypeOK, PatchTyped

LEMMA OriginalTyped ==
  ASSUME Patch!PatchOpsAssumption
  PROVE  /\ Original \in Seq(Texts) /\ Len(Original) \in Nat
         /\ Patch!LineNumbers = 1 .. Len(Original)
BY DEF Patch!PatchOpsAssumption, Patch!LineNumbers

LEMMA Untouched ==
  ASSUME Patch!PatchOpsAssumption, PatchTyped, NEW f, Meaning(f),
         NEW k \in 0 .. Len(Original), NEW m \in k .. Len(Original),
         \A n \in k + 1 .. m, i \in DOMAIN ops : n \notin Patch!Span(ops[i])
  PROVE  /\ SubSeq(Original, k + 1, m) \in Seq(Texts)
         /\ f[m] = f[k] \o SubSeq(Original, k + 1, m)
         /\ SubSeq(Original, 1, m) = SubSeq(Original, 1, k) \o SubSeq(Original, k + 1, m)
<1>0. /\ Original \in Seq(Texts) /\ Len(Original) \in Nat
      /\ Patch!LineNumbers = 1 .. Len(Original)
      /\ k \in Nat /\ m \in Nat /\ k <= m /\ m <= Len(Original)
  BY OriginalTyped
<1>1. ASSUME NEW n \in k + 1 .. m PROVE Patch!AroundLine(n) = <<Original[n]>>
  <2>1. n \in Patch!LineNumbers
    BY <1>0
  <2> QED
    BY <2>1, AroundUntouched
<1>2. f[m] = f[k] \o SubSeq(Original, k + 1, m)
  BY <1>1, StayThere
<1>3. SubSeq(Original, k + 1, m) \in Seq(Texts)
  <2>1. m \in 0 .. Len(Original) /\ k + 1 \in Nat \ {0}
    BY <1>0
  <2> QED
    BY <1>0, <2>1, PartOf
<1>4. SubSeq(Original, 1, k) \o SubSeq(Original, k + 1, m) = SubSeq(Original, 1, m)
  <2>1. 1 \in 1 .. Len(Original) + 1 /\ k \in 1 - 1 .. Len(Original) /\ m \in k .. Len(Original)
    BY <1>0
  <2> QED
    BY <1>0, <2>1, ConcatAdjacentSubSeq
<1> QED
  BY <1>2, <1>3, <1>4

LEMMA MeaningTyped ==
  ASSUME NEW f, Meaning(f), NEW k \in 0 .. Len(Original)
  PROVE  f[k] \in Seq(Texts)
BY DEF Meaning

LEMMA MeansInit ==
  ASSUME Patch!PatchOpsAssumption
  PROVE  Patch!Init => MeansInv
<1> SUFFICES ASSUME Patch!Init PROVE MeansInv
  OBVIOUS
<1>1. PatchInv /\ PatchTyped
  BY PatchInit, InvTyped
<1>2. DoneFirst
  BY DEF Patch!Init, DoneFirst
<1>3. ASSUME NEW f, Meaning(f) PROVE LinesMean(f)
  <2>0. Original \in Seq(Texts) /\ Len(Original) \in Nat
    BY OriginalTyped
  <2>1. ASSUME NEW k \in 0 .. Len(Original), Between(k)
        PROVE  \E rest \in Seq(Texts) : /\ f[Len(Original)] = f[k] \o rest
                                        /\ lines = SubSeq(Original, 1, k) \o rest
    <3>1. Len(Original) \in k .. Len(Original)
      BY <2>0
    <3>2. ASSUME NEW n \in k + 1 .. Len(Original), NEW i \in DOMAIN ops
          PROVE  n \notin Patch!Span(ops[i])
      <4>1. ops[i].end <= k /\ ops[i].start \in Nat /\ ops[i].end \in Nat
        BY <1>1, <2>1, OpsTyped DEF Between, Patch!Init
      <4> QED
        BY <4>1, <2>0 DEF Patch!Span
    <3>3. /\ SubSeq(Original, k + 1, Len(Original)) \in Seq(Texts)
          /\ f[Len(Original)] = f[k] \o SubSeq(Original, k + 1, Len(Original))
          /\ SubSeq(Original, 1, Len(Original))
               = SubSeq(Original, 1, k) \o SubSeq(Original, k + 1, Len(Original))
      BY <1>1, <1>3, <3>1, <3>2, Untouched
    <3>4. lines = SubSeq(Original, 1, Len(Original))
      BY <2>0, SubSeqFull DEF Patch!Init
    <3> QED
      BY <3>3, <3>4, Zenon
  <2>2. DOMAIN ops \ todo = {}
    BY DEF Patch!Init
  <2> QED
    BY <2>1, <2>2 DEF LinesMean
<1> QED
  BY <1>1, <1>2, <1>3 DEF MeansInv, LinesAreMeant

(* Before and after an operation on lines of the file. *)
LEMMA MeansInside ==
  ASSUME Patch!PatchOpsAssumption, PatchInv, DoneFirst, Patch!Separate,
         NEW f, Meaning(f), LinesMean(f),
         NEW i \in DOMAIN ops, Patch!Step(i), ops[i].start > 0
  PROVE  LinesMean(f)'
<1> DEFINE a == ops[i].start
           b == ops[i].end
           L == Len(Original)
<1>0. /\ PatchTyped /\ i \in todo /\ ops' = ops /\ todo' = todo \ {i}
      /\ lines' = Patch!Apply(lines, ops[i]) /\ todo \subseteq DOMAIN ops
      /\ \A j \in todo \ {i} : Patch!Precedes(i, j)
  BY InvTyped DEF Patch!Step
<1>1. /\ Original \in Seq(Texts) /\ L \in Nat /\ Patch!LineNumbers = 1 .. L
      /\ a \in Nat \ {0} /\ b \in Nat /\ a <= b /\ b <= L
  BY <1>0, OpsTyped, OriginalTyped
<1>2. ASSUME NEW d \in DOMAIN ops \ todo PROVE b < ops[d].start
  <2>1. /\ a <= ops[d].start /\ d # i /\ ops[d].start \in Nat /\ ops[d].end \in Nat
        /\ ops[d].start <= ops[d].end
    BY <1>0, OpsTyped DEF DoneFirst
  <2>2. Patch!Span(ops[i]) \cap Patch!Span(ops[d]) = {}
    BY <1>1, <2>1 DEF Patch!Separate
  <2>3. ops[d].start \in Patch!Span(ops[d])
    BY <2>1 DEF Patch!Span
  <2>4. ops[d].start \notin Patch!Span(ops[i])
    BY <2>2, <2>3
  <2> QED
    BY <1>1, <2>1, <2>4 DEF Patch!Span
<1>3. ASSUME NEW j \in todo \ {i} PROVE ops[j].end < a
  <2>1. /\ j \in DOMAIN ops /\ j # i /\ ops[j].start \in Nat /\ ops[j].end \in Nat
        /\ ops[j].start <= ops[j].end /\ ops[j].start = 0 => ops[j].end = 0
    BY <1>0, OpsTyped
  <2>2. ops[j].start <= a
    BY <1>0, <1>1, <2>1 DEF Patch!Precedes
  <2>3. CASE ops[j].start = 0
    BY <1>1, <2>1, <2>3
  <2>4. CASE ops[j].start > 0
    <3>1. Patch!Span(ops[i]) \cap Patch!Span(ops[j]) = {}
      BY <2>1, <2>4 DEF Patch!Separate
    <3>2. a \in Patch!Span(ops[i])
      BY <1>1 DEF Patch!Span
    <3>3. a \notin Patch!Span(ops[j])
      BY <3>1, <3>2
    <3> QED
      BY <1>1, <2>1, <2>2, <3>3 DEF Patch!Span
  <2> QED
    BY <2>1, <2>3, <2>4
<1>4. Between(b)
  <2>1. ASSUME NEW j \in todo PROVE ops[j].end <= b
    <3>1. CASE j = i
      BY <1>1, <3>1
    <3>2. CASE j # i
      <4>1. ops[j].end < a /\ ops[j].end \in Nat
        BY <1>0, <1>3, <3>2, OpsTyped
      <4> QED
        BY <1>1, <4>1
    <3> QED
      BY <3>1, <3>2
  <2> QED
    BY <1>2, <2>1 DEF Between
<1>5. PICK rest \in Seq(Texts) : /\ f[L] = f[b] \o rest
                                 /\ lines = SubSeq(Original, 1, b) \o rest
  <2>1. b \in 0 .. L
    BY <1>1
  <2> QED
    BY <1>4, <2>1 DEF LinesMean
<1>6. /\ Around(i) \in Seq(Texts)
      /\ lines' = SubSeq(Original, 1, a - 1) \o (Around(i) \o rest)
  <2>1. /\ Around(i) \in Seq(Texts)
        /\ Patch!Apply(SubSeq(Original, 1, b) \o rest, ops[i])
             = SubSeq(Original, 1, a - 1) \o (Around(i) \o rest)
    BY <1>0, AppliedThere
  <2> QED
    BY <1>0, <1>5, <2>1, Zenon
<1>7. f[b] = f[a - 1] \o Around(i)
  <2>1. /\ Patch!AroundLine(a) = Around(i)
        /\ \A n \in a + 1 .. b : Patch!AroundLine(n) = <<>>
    BY <1>0, AroundOne
  <2>2. f[b] = f[a]
    <3>1. a \in 0 .. L /\ b \in a .. L
      BY <1>1
    <3> HIDE DEF a, b
    <3> QED
      BY <2>1, <3>1, NothingThere
  <2>3. f[a] = f[a - 1] \o Patch!AroundLine(a)
    <3>1. a \in Patch!LineNumbers
      BY <1>1
    <3> HIDE DEF a
    <3> QED
      BY <3>1 DEF Meaning
  <2> QED
    BY <2>1, <2>2, <2>3, Zenon
<1>8. ASSUME NEW k \in 0 .. L, Between(k)'
      PROVE  \E r \in Seq(Texts) : f[L] = f[k] \o r /\ lines' = SubSeq(Original, 1, k) \o r
  <2> DEFINE part == SubSeq(Original, k + 1, a - 1)
             top == SubSeq(Original, 1, k)
             new == Around(i)
  <2>1. k < a /\ \A j \in todo \ {i} : ops[j].end <= k
    BY <1>0, <1>8 DEF Between
  <2>2. k \in Nat /\ a - 1 \in k .. L
    BY <1>1, <2>1
  <2>3. ASSUME NEW n \in k + 1 .. a - 1, NEW j \in DOMAIN ops
        PROVE  n \notin Patch!Span(ops[j])
    <3>0. n \in Nat /\ k < n /\ n < a /\ ops[j].start \in Nat /\ ops[j].end \in Nat
      BY <1>0, <1>1, <2>2, OpsTyped
    <3>1. CASE j = i
      BY <1>1, <3>0, <3>1 DEF Patch!Span
    <3>2. CASE j \in todo \ {i}
      <4>1. ops[j].end <= k
        BY <2>1, <3>2
      <4> QED
        BY <2>2, <3>0, <4>1 DEF Patch!Span
    <3>3. CASE j \notin todo
      <4>1. b < ops[j].start
        BY <1>2, <3>3
      <4> QED
        BY <1>1, <3>0, <4>1 DEF Patch!Span
    <3> QED
      BY <3>1, <3>2, <3>3
  <2>4. /\ part \in Seq(Texts) /\ f[a - 1] = f[k] \o part
        /\ SubSeq(Original, 1, a - 1) = top \o part
    <3> DEFINE m == a - 1
    <3>1. m \in k .. L /\ \A n \in k + 1 .. m, j \in DOMAIN ops : n \notin Patch!Span(ops[j])
      BY <2>2, <2>3
    <3> HIDE DEF m
    <3>2. /\ SubSeq(Original, k + 1, m) \in Seq(Texts)
          /\ f[m] = f[k] \o SubSeq(Original, k + 1, m)
          /\ SubSeq(Original, 1, m) = SubSeq(Original, 1, k) \o SubSeq(Original, k + 1, m)
      BY <1>0, <3>1, Untouched
    <3> QED
      BY <3>2 DEF m
  <2>5. f[k] \in Seq(Texts) /\ top \in Seq(Texts)
    BY <1>1, MeaningTyped, FirstPart
  <2> HIDE DEF part, top, new
  <2>6. new \in Seq(Texts)
    BY <1>6 DEF new
  <2>7. new \o rest \in Seq(Texts) /\ part \o (new \o rest) \in Seq(Texts)
    BY <2>4, <2>6, Concats
  <2>8. f[L] = f[k] \o part \o new \o rest
    BY <1>5, <1>7, <2>4, Zenon DEF new
  <2>9. f[k] \o part \o new \o rest = f[k] \o (part \o (new \o rest))
    <3>1. f[k] \o part \in Seq(Texts)
      BY <2>4, <2>5, Concats, Zenon
    <3>2. f[k] \o part \o new \o rest = f[k] \o part \o (new \o rest)
      BY <2>6, <3>1, Concats, Zenon
    <3>3. f[k] \o part \o (new \o rest) = f[k] \o (part \o (new \o rest))
      BY <2>4, <2>5, <2>7, Concats, Zenon
    <3> QED
      BY <3>2, <3>3, Zenon
  <2>10. lines' = top \o part \o (new \o rest)
    BY <1>6, <2>4, Zenon DEF new
  <2>11. top \o part \o (new \o rest) = top \o (part \o (new \o rest))
    BY <2>4, <2>5, <2>7, Concats, Zenon
  <2> QED
    BY <2>7, <2>8, <2>9, <2>10, <2>11, Zenon DEF top
<1>9. ~\E d \in DOMAIN ops' \ todo' : ops'[d].start = 0
  <2>1. ASSUME NEW d \in DOMAIN ops \ (todo \ {i}) PROVE ops[d].start # 0
    <3>1. CASE d = i
      BY <1>1, <3>1
    <3>2. CASE d # i
      <4>1. b < ops[d].start
        BY <1>2, <3>2
      <4> QED
        BY <1>1, <4>1
    <3> QED
      BY <3>1, <3>2
  <2> QED
    BY <1>0, <2>1
<1> QED
  BY <1>8, <1>9 DEF LinesMean


(* What is done at an end. *)
LEMMA DoneType ==
  ASSUME Patch!PatchOpsAssumption, PatchTyped, NEW kind
  PROVE  /\ Done(kind) \in Seq(Texts)
         /\ (\A i \in DOMAIN ops \ todo : ops[i].kind # kind) => Done(kind) = <<>>
<1>1. Patch!At(kind, 0) \in Seq(Texts)
  BY AtType
<1> QED
  BY <1>1, EmptyConcat DEF Done

(* Between the ends are the lines of the file. *)
LEMMA EndsAreDone ==
  ASSUME Patch!PatchOpsAssumption, PatchTyped, todo \subseteq DOMAIN ops,
         NEW f, Meaning(f), LinesMean(f), \A j \in todo : ops[j].start = 0
  PROVE  lines = Done("head") \o f[Len(Original)] \o Done("tail")
<1> DEFINE L == Len(Original)
<1>0. L \in Nat /\ 0 \in 0 .. L
  BY OriginalTyped
<1>1. CASE \E d \in DOMAIN ops \ todo : ops[d].start = 0
  BY <1>1 DEF LinesMean
<1>2. CASE \A d \in DOMAIN ops \ todo : ops[d].start # 0
  <2>1. Between(0)
    <3>1. ASSUME NEW j \in todo PROVE ops[j].end <= 0
      BY OpsTyped
    <3>2. ASSUME NEW d \in DOMAIN ops \ todo PROVE 0 < ops[d].start
      BY <1>2, OpsTyped
    <3> QED
      BY <3>1, <3>2 DEF Between
  <2>2. PICK rest \in Seq(Texts) : /\ f[L] = f[0] \o rest
                                   /\ lines = SubSeq(Original, 1, 0) \o rest
    BY <1>0, <2>1 DEF LinesMean
  <2>3. f[0] = <<>> /\ SubSeq(Original, 1, 0) = <<>>
    BY SubSeqEmpty DEF Meaning
  <2>4. lines = rest /\ f[L] = rest
    BY <2>2, <2>3, EmptyConcat
  <2>5. Done("head") = <<>> /\ Done("tail") = <<>>
    <3>1. \A d \in DOMAIN ops \ todo : ops[d].kind \notin {"head", "tail"}
      BY <1>2, OpsTyped
    <3> QED
      BY <3>1, DoneType
  <2>6. Done("head") \o f[L] \o Done("tail") = <<>> \o rest \o <<>>
    BY <2>4, <2>5, Zenon
  <2> QED
    BY <2>4, <2>6, EmptyConcat
<1> QED
  BY <1>1, <1>2

(* Before and after an operation on an end. *)
LEMMA MeansAtEnd ==
  ASSUME Patch!PatchOpsAssumption, PatchInv, DoneFirst, Patch!Separate,
         NEW f, Meaning(f), LinesMean(f),
         NEW i \in DOMAIN ops, Patch!Step(i), ops[i].start = 0,
         \A kind : Patch!At(kind, 0)' = Patch!At(kind, 0)
  PROVE  LinesMean(f)'
<1> DEFINE op == ops[i]
           middle == f[Len(Original)]
<1>0. /\ PatchTyped /\ i \in todo /\ ops' = ops /\ todo' = todo \ {i}
      /\ lines' = Patch!Apply(lines, op) /\ todo \subseteq DOMAIN ops
      /\ \A j \in todo \ {i} : Patch!Precedes(i, j) /\ lines \in Seq(Texts)
  BY InvTyped DEF Patch!Step
<1>1. op.kind \in {"head", "tail"} /\ op.lines \in Seq(Texts)
  BY <1>0, OpsTyped
<1>2. ASSUME NEW j \in todo PROVE ops[j].start = 0
  <2>1. CASE j # i
    <3>1. ops[j].start \in Nat /\ Patch!Precedes(i, j)
      BY <1>0, <2>1, OpsTyped
    <3> QED
      BY <3>1 DEF Patch!Precedes
  <2> QED
    BY <2>1
<1>3. lines = Done("head") \o middle \o Done("tail")
  BY <1>0, <1>2, EndsAreDone
<1>4. ASSUME NEW j \in DOMAIN ops, j # i PROVE ops[j].kind # op.kind
  BY <1>4 DEF Patch!Separate
<1>5. Done(op.kind) = <<>>
  <2>1. \A d \in DOMAIN ops \ todo : ops[d].kind # op.kind
    BY <1>0, <1>4
  <2> QED
    BY <1>0, <2>1, DoneType
<1>6. ASSUME NEW kind, kind = op.kind PROVE Done(kind)' = op.lines
  <2>1. Patch!At(kind, 0) = Body(i)
    BY <1>4, <1>6, AtOne
  <2>2. Body(i) = op.lines
    BY <1>1 DEF Body
  <2>3. \E d \in DOMAIN ops' \ todo' : ops'[d].kind = kind
    BY <1>0, <1>6
  <2>4. Patch!At(kind, 0)' = op.lines
    BY <2>1, <2>2
  <2> QED
    BY <2>3, <2>4 DEF Done
<1>7. ASSUME NEW kind, kind # op.kind PROVE Done(kind)' = Done(kind)
  <2>1. (\E d \in DOMAIN ops' \ todo' : ops'[d].kind = kind)
          <=> (\E d \in DOMAIN ops \ todo : ops[d].kind = kind)
    BY <1>0, <1>7
  <2>2. Patch!At(kind, 0)' = Patch!At(kind, 0)
    OBVIOUS
  <2> QED
    BY <2>1, <2>2 DEF Done
<1>8. /\ middle \in Seq(Texts)
      /\ Done("head") \in Seq(Texts) /\ Done("tail") \in Seq(Texts)
  <2>1. Len(Original) \in 0 .. Len(Original)
    BY OriginalTyped
  <2> QED
    BY <1>0, <2>1, MeaningTyped, DoneType
<1>9. lines' = Done("head")' \o middle \o Done("tail")'
  <2>1. CASE op.kind = "head"
    <3>1. Patch!Apply(lines, op) = op.lines \o lines
      BY <2>1 DEF Patch!Apply, Patch!Removes
    <3>2. Done("head") = <<>> /\ Done("head")' = op.lines /\ Done("tail")' = Done("tail")
      <4>1. "tail" # op.kind
        BY <2>1
      <4>2. Done("tail")' = Done("tail")
        BY <1>7, <4>1
      <4>3. Done("head") = <<>>
        BY <1>5, <2>1, Zenon
      <4>4. Done("head")' = op.lines
        BY <1>6, <2>1, Zenon
      <4> QED
        BY <4>2, <4>3, <4>4
    <3>3. lines = middle \o Done("tail")
      <4>1. <<>> \o middle = middle
        BY <1>8, EmptyConcat
      <4> QED
        BY <1>3, <3>2, <4>1, Zenon
    <3> DEFINE body == op.lines
               tail == Done("tail")
    <3>4. body \in Seq(Texts) /\ tail \in Seq(Texts)
      BY <1>1, <1>8
    <3> HIDE DEF middle, body, tail
    <3>5. body \o (middle \o tail) = body \o middle \o tail
      BY <1>8, <3>4, Concats, Zenon
    <3> QED
      BY <1>0, <3>1, <3>2, <3>3, <3>5, Zenon DEF body, tail
  <2>2. CASE op.kind = "tail"
    <3>1. Patch!Apply(lines, op) = lines \o op.lines
      BY <2>2 DEF Patch!Apply, Patch!Removes
    <3>2. Done("tail") = <<>> /\ Done("tail")' = op.lines /\ Done("head")' = Done("head")
      <4>1. "head" # op.kind
        BY <2>2
      <4>2. Done("head")' = Done("head")
        BY <1>7, <4>1
      <4>3. Done("tail") = <<>>
        BY <1>5, <2>2, Zenon
      <4>4. Done("tail")' = op.lines
        BY <1>6, <2>2, Zenon
      <4> QED
        BY <4>2, <4>3, <4>4
    <3>3. lines = Done("head") \o middle
      <4>1. Done("head") \o middle \in Seq(Texts)
        BY <1>8, Concats
      <4>2. Done("head") \o middle \o <<>> = Done("head") \o middle
        BY <4>1, EmptyConcat
      <4> QED
        BY <1>3, <3>2, <4>2, Zenon
    <3> QED
      BY <1>0, <3>1, <3>2, <3>3, Zenon
  <2> QED
    BY <1>1, <2>1, <2>2
<1>10. ASSUME NEW k \in 0 .. Len(Original), Between(k)' PROVE FALSE
  <2>1. i \in DOMAIN ops' /\ i \notin todo' /\ ops'[i].start = 0
    BY <1>0
  <2>2. k < 0
    BY <1>10, <2>1 DEF Between
  <2> QED
    BY <2>2, OriginalTyped
<1> QED
  BY <1>9, <1>10 DEF LinesMean

(* The meaning of a patch does not change while it is applied. *)
LEMMA SameMeaning ==
  ASSUME ops' = ops
  PROVE  /\ \A kind, n : Patch!At(kind, n)' = Patch!At(kind, n)
         /\ \A n : Patch!AroundLine(n)' = Patch!AroundLine(n)
         /\ Patch!Separate' <=> Patch!Separate
         /\ \A f : Meaning(f)' <=> Meaning(f)
<1>1. ASSUME NEW kind, NEW n PROVE Patch!At(kind, n)' = Patch!At(kind, n)
  BY DEF Patch!At
<1>2. ASSUME NEW n PROVE Patch!AroundLine(n)' = Patch!AroundLine(n)
  <2>1. Patch!Kept(n)' <=> Patch!Kept(n)
    BY DEF Patch!Kept
  <2>2. /\ Patch!At("before", n)' = Patch!At("before", n)
        /\ Patch!At("replace", n)' = Patch!At("replace", n)
        /\ Patch!At("after", n)' = Patch!At("after", n)
    BY <1>1
  <2> QED
    BY <2>1, <2>2, Zenon DEF Patch!AroundLine
<1>3. Patch!Separate' <=> Patch!Separate
  BY DEF Patch!Separate
<1>4. ASSUME NEW f PROVE Meaning(f)' <=> Meaning(f)
  BY <1>2 DEF Meaning
<1> QED
  BY <1>1, <1>2, <1>3, <1>4

LEMMA MeansStep ==
  ASSUME Patch!PatchOpsAssumption
  PROVE  MeansInv /\ [Patch!Next]_(Patch!vars) => MeansInv'
<1> SUFFICES ASSUME MeansInv, [Patch!Next]_(Patch!vars) PROVE MeansInv'
  OBVIOUS
<1>1. PatchInv' /\ PatchInv
  BY PatchStep DEF MeansInv
<1>2. CASE UNCHANGED Patch!vars
  <2>1. ops' = ops /\ lines' = lines /\ todo' = todo
    BY <1>2 DEF Patch!vars
  <2>2. DoneFirst'
    BY <2>1 DEF MeansInv, DoneFirst
  <2>3. LinesAreMeant'
    <3>1. ASSUME NEW f, LinesMean(f) PROVE LinesMean(f)'
      <4>1. \A kind : Done(kind)' = Done(kind)
        BY <2>1, SameMeaning DEF Done
      <4>2. \A k : Between(k)' <=> Between(k)
        BY <2>1 DEF Between
      <4> QED
        BY <2>1, <3>1, <4>1, <4>2 DEF LinesMean
    <3> QED
      BY <2>1, <3>1, SameMeaning DEF MeansInv, LinesAreMeant
  <2> QED
    BY <1>1, <2>2, <2>3 DEF MeansInv
<1>3. ASSUME NEW i \in DOMAIN ops, Patch!Step(i) PROVE MeansInv'
  <2>1. /\ ops' = ops /\ todo' = todo \ {i} /\ i \in todo /\ todo \subseteq DOMAIN ops
        /\ PatchTyped /\ \A j \in todo \ {i} : Patch!Precedes(i, j)
    BY <1>1, <1>3, InvTyped DEF Patch!Step
  <2>2. DoneFirst'
    <3>1. ASSUME NEW d \in DOMAIN ops \ (todo \ {i}), NEW j \in todo \ {i}
          PROVE  ops[j].start <= ops[d].start
      <4>1. CASE d = i
        BY <2>1, <4>1, OpsTyped DEF Patch!Precedes
      <4>2. CASE d # i
        BY <4>2 DEF MeansInv, DoneFirst
      <4> QED
        BY <4>1, <4>2
    <3> QED
      BY <2>1, <3>1 DEF DoneFirst
  <2>3. ASSUME Patch!Separate, NEW f, Meaning(f) PROVE LinesMean(f)'
    <3>1. LinesMean(f) /\ DoneFirst
      BY <2>3 DEF MeansInv, LinesAreMeant
    <3>2. CASE ops[i].start > 0
      BY <1>1, <1>3, <2>3, <3>1, <3>2, MeansInside
    <3>3. CASE ops[i].start = 0
      <4>1. \A kind : Patch!At(kind, 0)' = Patch!At(kind, 0)
        BY <2>1, SameMeaning
      <4> QED
        BY <1>1, <1>3, <2>3, <3>1, <3>3, <4>1, MeansAtEnd
    <3> QED
      BY <2>1, <3>2, <3>3, OpsTyped
  <2>4. LinesAreMeant'
    BY <2>1, <2>3, SameMeaning DEF LinesAreMeant
  <2> QED
    BY <1>1, <2>2, <2>4 DEF MeansInv
<1> QED
  BY <1>2, <1>3 DEF Patch!Next

LEMMA MeantAtLast ==
  ASSUME Patch!PatchOpsAssumption, MeansInv
  PROVE  Patch!AppliedAsMeant
<1> SUFFICES ASSUME todo = {}, Patch!Separate PROVE lines = Patch!Meant
  BY DEF Patch!AppliedAsMeant
<1>0. PatchTyped /\ todo \subseteq DOMAIN ops
  BY InvTyped DEF MeansInv
<1>1. PICK f : /\ Meaning(f)
               /\ Patch!Meant =
                    Patch!At("head", 0) \o f[Len(Original)] \o Patch!At("tail", 0)
  BY <1>0, SomeMeaning
<1>2. LinesMean(f)
  BY <1>1 DEF MeansInv, LinesAreMeant
<1>3. lines = Done("head") \o f[Len(Original)] \o Done("tail")
  BY <1>0, <1>1, <1>2, EndsAreDone
<1>4. ASSUME NEW kind PROVE Done(kind) = Patch!At(kind, 0)
  <2>1. CASE \E i \in DOMAIN ops : ops[i].kind = kind
    BY <2>1 DEF Done
  <2>2. CASE \A i \in DOMAIN ops : ops[i].kind # kind
    BY <2>2, AtNone DEF Done
  <2> QED
    BY <2>1, <2>2
<1> QED
  BY <1>1, <1>3, <1>4

(* Line numbers "do not shift between hunks in one patch": a patch whose    *)
(* operations speak of different lines gives the file it means, whatever    *)
(* the file, however many the operations and in whatever order it lists     *)
(* them.                                                                    *)
THEOREM PatchesDoWhatTheyMean ==
  ASSUME Patch!PatchOpsAssumption
  PROVE  Patch!Spec => []Patch!AppliedAsMeant
<1>1. Patch!Init => MeansInv
  BY MeansInit
<1>2. MeansInv /\ [Patch!Next]_(Patch!vars) => MeansInv'
  BY MeansStep
<1>3. MeansInv => Patch!AppliedAsMeant
  BY MeantAtLast
<1> QED
  BY <1>1, <1>2, <1>3, PTL DEF Patch!Spec
=============================================================================
