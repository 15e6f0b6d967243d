-------------------------- MODULE ProcessorProofs --------------------------
(* For any number of tool calls and attempts, and however tools, stream,    *)
(* failures, retries and the clean-up interleave: a call's part has one     *)
(* life that ends with its message, the work of a tool that returns after   *)
(* the cut is kept, a refusal is noticed, and a message ends whole.  Of the *)
(* loop that takes such steps: nobody is passed over, results are cared for.*)
EXTENDS Processor, WellFoundedInduction, TLAPS

CONSTANTS Prompts, Results, MaxIds, MaxStops, Nothing
VARIABLES last, log, loop, seen, own, status, idling, call, id, stops, read, missed, spoilt, cut, passed

(* The loop whose steps they are, each of these as explained in PromptLoop. *)
Loop == INSTANCE PromptLoop WITH None <- Nothing

Unsettled == {"pending", "running"}

(* The clean-up is through with the call.                                   *)
Passed(c) == pc = "over" \/ (pc = "sweep" /\ c \notin todo)

(* A call belongs to an attempt that was made.                              *)
CallsBelong ==
  \A c \in Calls :
    /\ at[c] <= attempt
    /\ heard[c] # "nothing" \/ tool[c] # "none" => at[c] > 0

(* A part is where the events of its call, that have been handled, took it, *)
(* or further; while its stream is open, it is not settled before its last  *)
(* event.                                                                   *)
PartsFollow ==
  \A c \in Calls :
    /\ heard[c] = "nothing" => part[c] = "absent"
    /\ heard[c] = "input" => part[c] # "absent"
    /\ heard[c] = "call" => part[c] \notin {"absent", "pending"}
    /\ heard[c] = "end" => part[c] \in Settled
    /\ heard[c] \in {"input", "call"} /\ ~Aborted(c) => part[c] \in Unsettled

(* Until the clean-up is through with a call, the context knows it exactly  *)
(* while its part is not settled; after that, its part is.                  *)
ContextIsTrue ==
  \A c \in Calls :
    /\ part[c] \in Unsettled => c \in toolcalls /\ ~Passed(c)
    /\ c \in toolcalls => part[c] \in Unsettled \/ Passed(c)
    /\ part[c] = "aborted" => Passed(c)

(* Only a tool that is done settles its part before the clean-up does.      *)
ToolsAreDone ==
  \A c \in Calls :
    /\ part[c] = "completed" => tool[c] = "returned"
    /\ part[c] = "error" => tool[c] \in {"failed", "rejected"}
    /\ returned[c] # None => tool[c] = "returned"

RetriesRemain == pc = "delay" => attempt < Attempts

CallInv ==
  /\ TypeOK /\ RetriesRemain /\ CallsBelong
  /\ PartsFollow /\ ContextIsTrue /\ ToolsAreDone /\ WorkIsKept

(* A refusal is remembered, and the outcome speaks of what is remembered.   *)
RefusalsCount ==
  /\ shouldBreak => \A c \in Calls : part[c] = "error" /\ tool[c] = "rejected" => blocked
  /\ result # None => pc = "over"
  /\ result = "continue" => ~blocked

(* From the cut on the message says how it ended; its text is ended first.  *)
EndIsSaid ==
  /\ pc = "drain" => finish
  /\ pc \in {"close", "grace", "sweep", "over"} =>
       finish \/ error # "none" \/ needsCompaction \/ interrupted = "delay"
  /\ pc \in {"grace", "sweep", "over"} => text[attempt] # "open"

IInv == CallInv /\ RefusalsCount /\ EndIsSaid

LEMMA Initially == Init => IInv
<1> SUFFICES ASSUME Init PROVE IInv
  OBVIOUS
<1>1. TypeOK
  <2>1. attempt \in 1 .. Attempts /\ at \in [Calls -> 0 .. Attempts]
    BY ProcessorAssumption DEF Init
  <2>2. {asking, shouldBreak, blocked, needsCompaction, finish} \subseteq BOOLEAN
    BY DEF Init
  <2> QED
    BY <2>1, <2>2 DEF Init, TypeOK
<1>2. RetriesRemain /\ CallsBelong /\ PartsFollow /\ ContextIsTrue /\ ToolsAreDone
  BY ProcessorAssumption
  DEF Init, RetriesRemain, CallsBelong, PartsFollow, ContextIsTrue, ToolsAreDone, Unsettled, Passed
<1>3. WorkIsKept /\ RefusalsCount /\ EndIsSaid
  BY ProcessorAssumption DEF Init, WorkIsKept, RefusalsCount, EndIsSaid
<1> QED
  BY <1>1, <1>2, <1>3 DEF IInv, CallInv

-----------------------------------------------------------------------------
(* What each kind of step does to the calls.                                *)

LEMMA Typed == TypeOK /\ RetriesRemain /\ [Next]_vars => TypeOK' /\ RetriesRemain'
<1> SUFFICES ASSUME TypeOK, RetriesRemain, [Next]_vars PROVE TypeOK' /\ RetriesRemain'
  OBVIOUS
<1> USE ProcessorAssumption DEF TypeOK, RetriesRemain, message, tools, ctx, Settled
<1>1. CASE TextStart \/ TextEnd \/ Allowed \/ Drained
  BY <1>1 DEF TextStart, TextEnd, Allowed, Drained, Reads
<1>2. ASSUME NEW c \in Calls, InputStart(c) \/ Call(c) PROVE TypeOK' /\ RetriesRemain'
  <2>1. MayBeDoomed \in BOOLEAN
    BY DEF MayBeDoomed
  <2>2. asking' \in BOOLEAN
    BY <1>2, <2>1 DEF InputStart, Call
  <2>3. CASE InputStart(c)
    BY <2>2, <2>3 DEF InputStart, Reads
  <2>4. CASE Call(c)
    BY <2>2, <2>4 DEF Call, Reads
  <2> QED
    BY <1>2, <2>3, <2>4
<1>3. ASSUME NEW c \in Calls, Result(c) PROVE TypeOK' /\ RetriesRemain'
  BY <1>3 DEF Result, Reads, Settle
<1>4. ASSUME NEW c \in Calls, Error(c) PROVE TypeOK' /\ RetriesRemain'
  BY <1>4 DEF Error, Reads, Settle
<1>5. ASSUME NEW overflow \in BOOLEAN, StepFinish(overflow) PROVE TypeOK' /\ RetriesRemain'
  BY <1>5 DEF StepFinish, Reads
<1>6. CASE TooLong \/ Fails \/ FailsForNow
  BY <1>6 DEF TooLong, Fails, FailsForNow, Open
<1>7. CASE Retry
  BY <1>7 DEF Retry
<1>8. CASE Interrupt \/ InterruptLate
  BY <1>8 DEF Interrupt, InterruptLate
<1>9. CASE CloseText
  BY <1>9 DEF CloseText
<1>10. CASE GraceOver
  BY <1>10 DEF GraceOver
<1>11. CASE Complete
  BY <1>11 DEF Complete, Outcome
<1>12. ASSUME NEW c \in Calls, Sweep(c) PROVE TypeOK' /\ RetriesRemain'
  BY <1>12 DEF Sweep
<1>13. ASSUME NEW c \in Calls, Begin(c) PROVE TypeOK' /\ RetriesRemain'
  BY <1>13 DEF Begin
<1>14. ASSUME NEW c \in Calls, Metadata(c) PROVE TypeOK' /\ RetriesRemain'
  BY <1>14 DEF Metadata
<1>15. ASSUME NEW c \in Calls, Return(c) PROVE TypeOK' /\ RetriesRemain'
  <2>1. Moment(c) \in {"streaming", "cut", "unheard", "late"}
    BY DEF Moment
  <2> QED
    BY <1>15, <2>1 DEF Return, Settle
<1>16. ASSUME NEW c \in Calls, NEW how \in {"failed", "rejected"}, Throw(c, how)
       PROVE TypeOK' /\ RetriesRemain'
  BY <1>16 DEF Throw
<1>17. CASE UNCHANGED vars
  BY <1>17 DEF vars
<1> QED
  BY <1>1, <1>2, <1>3, <1>4, <1>5, <1>6, <1>7, <1>8, <1>9, <1>10, <1>11, <1>12, <1>13,
     <1>14, <1>15, <1>16, <1>17
  DEF Next, Events, Ends, Cleanup, Tools


LEMMA CallsStep == CallInv /\ [Next]_vars => CallInv'
<1> SUFFICES ASSUME CallInv, [Next]_vars
             PROVE  CallsBelong' /\ PartsFollow' /\ ContextIsTrue' /\ ToolsAreDone' /\ WorkIsKept'
  BY Typed DEF CallInv
<1> DEFINE Goal == CallsBelong' /\ PartsFollow' /\ ContextIsTrue' /\ ToolsAreDone' /\ WorkIsKept'
<1>1. TypeOK /\ TypeOK'
  BY Typed DEF CallInv
<1> USE ProcessorAssumption, <1>1
        DEF CallInv, TypeOK, CallsBelong, PartsFollow, ContextIsTrue, ToolsAreDone, WorkIsKept,
            message, tools, ctx, Settled, Unsettled, Passed, Aborted, Open
<1>2. CASE TextStart \/ TextEnd
  BY <1>2 DEF TextStart, TextEnd, Reads
<1>3. CASE Allowed \/ Drained
  BY <1>3 DEF Allowed, Drained
<1>4. ASSUME NEW c \in Calls, InputStart(c) PROVE Goal
  BY <1>4 DEF InputStart, Reads, Here
<1>5. ASSUME NEW c \in Calls, Call(c) PROVE Goal
  BY <1>5 DEF Call, Reads, Here
<1>6. ASSUME NEW c \in Calls, Result(c) PROVE Goal
  BY <1>6 DEF Result, Reads, Here, Running, Settle
<1>7. ASSUME NEW c \in Calls, Error(c) PROVE Goal
  BY <1>7 DEF Error, Reads, Here, Running, Settle
<1>8. ASSUME NEW overflow \in BOOLEAN, StepFinish(overflow) PROVE Goal
  BY <1>8 DEF StepFinish, Reads
<1>9. CASE TooLong \/ Fails \/ FailsForNow
  BY <1>9 DEF TooLong, Fails, FailsForNow
<1>10. CASE Retry
  BY <1>10 DEF Retry, RetriesRemain
<1>11. CASE Interrupt \/ InterruptLate
  BY <1>11 DEF Interrupt, InterruptLate
<1>12. CASE CloseText
  BY <1>12 DEF CloseText
<1>13. CASE GraceOver
  BY <1>13 DEF GraceOver
<1>14. ASSUME NEW c \in Calls, Sweep(c) PROVE Goal
  BY <1>14 DEF Sweep
<1>15. CASE Complete
  BY <1>15 DEF Complete
<1>16. ASSUME NEW c \in Calls, Begin(c) PROVE Goal
  BY <1>16 DEF Begin, Here
<1>17. ASSUME NEW c \in Calls, Metadata(c) PROVE Goal
  BY <1>17 DEF Metadata
<1>18. ASSUME NEW c \in Calls, Return(c) PROVE Goal
  BY <1>18 DEF Return, Running, Settle, Moment
<1>19. ASSUME NEW c \in Calls, NEW how \in {"failed", "rejected"}, Throw(c, how) PROVE Goal
  BY <1>19 DEF Throw
<1>20. CASE UNCHANGED vars
  BY <1>20 DEF vars
<1> QED
  BY <1>2, <1>3, <1>4, <1>5, <1>6, <1>7, <1>8, <1>9, <1>10, <1>11, <1>12, <1>13, <1>14,
     <1>15, <1>16, <1>17, <1>18, <1>19, <1>20
  DEF Next, Events, Ends, Cleanup, Tools

LEMMA RefusalsStep == CallInv /\ RefusalsCount /\ [Next]_vars => RefusalsCount'
<1> SUFFICES ASSUME CallInv, RefusalsCount, [Next]_vars PROVE RefusalsCount'
  OBVIOUS
<1> USE ProcessorAssumption
    DEF CallInv, TypeOK, ToolsAreDone, RefusalsCount, message, tools, ctx, Settled
<1>1. CASE TextStart \/ TextEnd \/ Allowed \/ Drained
  BY <1>1 DEF TextStart, TextEnd, Allowed, Drained, Reads
<1>2. ASSUME NEW c \in Calls, InputStart(c) \/ Call(c) PROVE RefusalsCount'
  <2>1. /\ UNCHANGED <<pc, tool, result, shouldBreak, blocked>>
        /\ part' \in {[part EXCEPT ![c] = "pending"], [part EXCEPT ![c] = "running"]}
    BY <1>2 DEF InputStart, Call
  <2> QED
    BY <2>1
<1>3. ASSUME NEW c \in Calls, Metadata(c) \/ Sweep(c) PROVE RefusalsCount'
  BY <1>3 DEF Metadata, Sweep
<1>4. ASSUME NEW c \in Calls, Begin(c) PROVE RefusalsCount'
  BY <1>4 DEF Begin
<1>5. ASSUME NEW c \in Calls, Result(c) PROVE RefusalsCount'
  BY <1>5 DEF Result, Reads, Settle
<1>6. ASSUME NEW c \in Calls, Error(c) PROVE RefusalsCount'
  BY <1>6 DEF Error, Reads, Settle
<1>7. ASSUME NEW overflow \in BOOLEAN, StepFinish(overflow) PROVE RefusalsCount'
  BY <1>7 DEF StepFinish, Reads
<1>8. CASE TooLong \/ Fails \/ FailsForNow \/ Retry \/ Interrupt \/ InterruptLate
  BY <1>8 DEF TooLong, Fails, FailsForNow, Retry, Interrupt, InterruptLate, Open
<1>9. CASE CloseText \/ GraceOver
  BY <1>9 DEF CloseText, GraceOver
<1>10. CASE Complete
  BY <1>10 DEF Complete, Outcome
<1>11. ASSUME NEW c \in Calls, Return(c) PROVE RefusalsCount'
  BY <1>11 DEF Return, Settle
<1>12. ASSUME NEW c \in Calls, NEW how \in {"failed", "rejected"}, Throw(c, how)
       PROVE  RefusalsCount'
  BY <1>12 DEF Throw
<1>13. CASE UNCHANGED vars
  BY <1>13 DEF vars
<1> QED
  BY <1>1, <1>2, <1>3, <1>4, <1>5, <1>6, <1>7, <1>8, <1>9, <1>10, <1>11, <1>12, <1>13
  DEF Next, Events, Ends, Cleanup, Tools

LEMMA EndStep == CallInv /\ EndIsSaid /\ [Next]_vars => EndIsSaid'
<1> SUFFICES ASSUME CallInv, EndIsSaid, [Next]_vars PROVE EndIsSaid'
  OBVIOUS
<1> USE DEF EndIsSaid, message, tools, ctx
<1>1. CASE TextStart \/ TextEnd \/ Allowed \/ Drained
  BY <1>1 DEF TextStart, TextEnd, Allowed, Drained, Reads
<1>2. ASSUME NEW c \in Calls, \/ InputStart(c) \/ Call(c) \/ Result(c) \/ Error(c)
                              \/ Sweep(c) \/ Begin(c) \/ Metadata(c) \/ Return(c)
      PROVE  EndIsSaid'
  BY <1>2 DEF InputStart, Call, Result, Error, Sweep, Begin, Metadata, Return, Reads
<1>3. ASSUME NEW c \in Calls, NEW how \in {"failed", "rejected"}, Throw(c, how)
      PROVE  EndIsSaid'
  BY <1>3 DEF Throw
<1>4. ASSUME NEW overflow \in BOOLEAN, StepFinish(overflow) PROVE EndIsSaid'
  BY <1>4 DEF StepFinish, Reads
<1>5. CASE TooLong \/ Fails \/ FailsForNow \/ Retry
  BY <1>5 DEF TooLong, Fails, FailsForNow, Retry, Open
<1>6. CASE Interrupt \/ InterruptLate
  BY <1>6 DEF Interrupt, InterruptLate
<1>7. CASE CloseText
  BY <1>7 DEF CloseText, CallInv, TypeOK
<1>8. CASE GraceOver \/ Complete
  BY <1>8 DEF GraceOver, Complete
<1>9. CASE UNCHANGED vars
  BY <1>9 DEF vars
<1> QED
  BY <1>1, <1>2, <1>3, <1>4, <1>5, <1>6, <1>7, <1>8, <1>9
  DEF Next, Events, Ends, Cleanup, Tools

LEMMA Invariance == Spec => []IInv
<1>1. IInv /\ [Next]_vars => IInv'
  BY CallsStep, RefusalsStep, EndStep DEF IInv
<1> QED
  BY Initially, <1>1, PTL DEF Spec

-----------------------------------------------------------------------------
(* Processor, tools, parts and the message are well formed in every         *)
(* reachable state; an attempt is only waited for while there is one left.  *)
THEOREM TypeCorrect == Spec => []TypeOK
<1>1. IInv => TypeOK
  BY DEF IInv, CallInv
<1> QED
  BY Invariance, <1>1, PTL

(* completeToolCall and the clean-up: however late a tool returns after the *)
(* cut, and however many attempts later, its work is in its part if the     *)
(* clean-up had not come to its call.                                       *)
THEOREM WorkKept == Spec => []WorkIsKept
<1>1. IInv => WorkIsKept
  BY DEF IInv, CallInv
<1> QED
  BY Invariance, <1>1, PTL

(* failToolCall and ctx.blocked: a step in which the user refused a tool    *)
(* does not let the loop continue.                                          *)
THEOREM DenialsNoticed == Spec => []DenialIsNoticed
<1>1. IInv => DenialIsNoticed
  BY DEF IInv, RefusalsCount, DenialIsNoticed
<1> QED
  BY Invariance, <1>1, PTL

(* halt, step-finish and the clean-up: a completed message says how it      *)
(* ended, and the text of its last attempt has an end.                      *)
THEOREM MessagesAreWhole == Spec => []EndsAreWhole
<1>1. IInv => EndsAreWhole
  BY DEF IInv, EndIsSaid, EndsAreWhole
<1> QED
  BY Invariance, <1>1, PTL

-----------------------------------------------------------------------------
(* Every step of the processor or of a tool moves at most one part, along   *)
(* one of the lives that a part may have.                                   *)

LEMMA Moves ==
  ASSUME NEW c \in Calls, pc # "over", pc' # "over", NEW how,
         <<part[c], how>> \in Life!Lives, part' = [part EXCEPT ![c] = how]
  PROVE  Life!Next
<1>1. \E l \in Life!Lives : part[c] = l[1] /\ part' = [part EXCEPT ![c] = l[2]]
  <2> WITNESS <<part[c], how>> \in Life!Lives
  <2> QED
    OBVIOUS
<1> QED
  BY <1>1 DEF Life!Move, Life!Next

LEMMA LifeStep == CallInv /\ [Next]_vars => [Life!Next]_<<part, pc = "over">>
<1> SUFFICES ASSUME CallInv, [Next]_vars PROVE [Life!Next]_<<part, pc = "over">>
  OBVIOUS
<1> DEFINE Goal == [Life!Next]_<<part, pc = "over">>
<1> USE DEF CallInv, TypeOK, message, tools, ctx
<1>1. ASSUME part' = part, (pc = "over") = (pc' = "over") PROVE Goal
  BY <1>1
<1>2. CASE TextStart \/ TextEnd \/ Allowed \/ Drained
  BY <1>1, <1>2 DEF TextStart, TextEnd, Allowed, Drained, Reads
<1>3. ASSUME NEW c \in Calls, InputStart(c) PROVE Goal
  <2>1. part[c] = "absent"
    BY <1>3 DEF InputStart, PartsFollow
  <2>2. <<part[c], "pending">> \in Life!Lives
    BY <2>1 DEF Life!Lives
  <2>3. pc # "over" /\ pc' # "over" /\ part' = [part EXCEPT ![c] = "pending"]
    BY <1>3 DEF InputStart, Reads
  <2> QED
    BY <2>2, <2>3, Moves
<1>4. ASSUME NEW c \in Calls, Call(c) PROVE Goal
  <2>1. part[c] \in {"absent", "pending", "running"}
    BY <1>4 DEF Call, Reads, Here, PartsFollow, CallsBelong, Aborted, Open, Unsettled
  <2>2. CASE part[c] = "running"
    BY <1>1, <1>4, <2>2 DEF Call, Reads
  <2>3. CASE part[c] \in {"absent", "pending"}
    <3>1. <<part[c], "running">> \in Life!Lives
      BY <2>3 DEF Life!Lives
    <3>2. pc # "over" /\ pc' # "over" /\ part' = [part EXCEPT ![c] = "running"]
      BY <1>4 DEF Call, Reads
    <3> QED
      BY <3>1, <3>2, Moves
  <2> QED
    BY <2>1, <2>2, <2>3
<1>5. ASSUME NEW c \in Calls, Result(c) PROVE Goal
  BY <1>1, <1>5, Moves DEF Result, Reads, Running, Settle, Life!Lives
<1>6. ASSUME NEW c \in Calls, Error(c) PROVE Goal
  BY <1>1, <1>6, Moves DEF Error, Reads, Running, Settle, Life!Lives
<1>7. ASSUME NEW overflow \in BOOLEAN, StepFinish(overflow) PROVE Goal
  BY <1>1, <1>7 DEF StepFinish, Reads
<1>8. CASE TooLong \/ Fails \/ FailsForNow \/ Retry \/ Interrupt \/ InterruptLate
  BY <1>1, <1>8 DEF TooLong, Fails, FailsForNow, Retry, Interrupt, InterruptLate, Open
<1>9. CASE CloseText \/ GraceOver
  BY <1>1, <1>9 DEF CloseText, GraceOver
<1>10. ASSUME NEW c \in Calls, Sweep(c) PROVE Goal
  <2>1. CASE c \notin toolcalls
    BY <1>1, <1>10, <2>1 DEF Sweep
  <2>2. CASE c \in toolcalls
    <3>1. part[c] \in {"pending", "running"}
      BY <1>10, <2>2 DEF Sweep, ContextIsTrue, Passed, Unsettled
    <3>2. <<part[c], "aborted">> \in Life!Lives
      BY <3>1 DEF Life!Lives
    <3>3. pc # "over" /\ pc' # "over" /\ part' = [part EXCEPT ![c] = "aborted"]
      BY <1>10, <2>2 DEF Sweep
    <3> QED
      BY <3>2, <3>3, Moves
  <2> QED
    BY <2>1, <2>2
<1>11. CASE Complete
  <2>1. \A c \in Calls : part[c] \notin {"pending", "running"}
    BY <1>11 DEF Complete, ContextIsTrue, Passed, Unsettled
  <2> QED
    BY <1>11, <2>1 DEF Complete, Life!Close, Life!Next
<1>12. ASSUME NEW c \in Calls, Begin(c) PROVE Goal
  BY <1>1, <1>12 DEF Begin
<1>13. ASSUME NEW c \in Calls, Metadata(c) PROVE Goal
  <2>1. pc # "over" /\ pc' # "over"
    BY <1>13 DEF Metadata, ContextIsTrue, Passed, Unsettled
  <2>2. <<part[c], "running">> \in Life!Lives
    BY <1>13 DEF Metadata, Life!Lives
  <2>3. part' = [part EXCEPT ![c] = "running"]
    BY <1>13 DEF Metadata
  <2> QED
    BY <2>1, <2>2, <2>3, Moves
<1>14. ASSUME NEW c \in Calls, Return(c) PROVE Goal
  <2>1. CASE Aborted(c) /\ Running(c)
    <3>1. pc # "over" /\ pc' # "over"
      BY <1>14, <2>1 DEF Return, Running, ContextIsTrue, Passed, Unsettled
    <3> QED
      BY <1>14, <2>1, <3>1, Moves DEF Return, Running, Settle, Life!Lives
  <2> QED
    BY <1>1, <1>14, <2>1 DEF Return
<1>15. ASSUME NEW c \in Calls, NEW how \in {"failed", "rejected"}, Throw(c, how) PROVE Goal
  BY <1>1, <1>15 DEF Throw
<1>16. CASE UNCHANGED vars
  BY <1>1, <1>16 DEF vars
<1> QED
  BY <1>2, <1>3, <1>4, <1>5, <1>6, <1>7, <1>8, <1>9, <1>10, <1>11, <1>12, <1>13, <1>14,
     <1>15, <1>16
  DEF Next, Events, Ends, Cleanup, Tools

(* Processor and tools together implement the promise about the parts: one  *)
(* life each, none of it after the message is completed, whatever is cut,   *)
(* retried, late or swept.                                                  *)
THEOREM PartsLive == Spec => PartsLiveOnce
<1>1. Init => Life!Init
  BY DEF Init, Life!Init
<1>2. IInv /\ [Next]_vars => [Life!Next]_<<part, pc = "over">>
  BY LifeStep DEF IInv
<1> QED
  BY <1>1, <1>2, Invariance, PTL DEF Spec, PartsLiveOnce, Life!Spec

-----------------------------------------------------------------------------
(* The loop of a session whose steps these are: module PromptLoop, with     *)
(* constants and variables of its own.  For any number of prompts, results  *)
(* and messages: nobody is passed over, and results are cared for.          *)

(* A call's identifier is its own; no message is above the last one, and a  *)
(* call's message is in the log from when it has been logged on.            *)
Identified ==
  /\ \A i \in Loop!Ids : i > last => log[i] = Nothing
  /\ \A k \in Loop!Calls :
       /\ call[k] = "new" <=> id[k] = Nothing
       /\ id[k] # Nothing => id[k] <= last
       /\ call[k] = "made" => log[id[k]] = Nothing
       /\ call[k] \notin {"new", "made"} => id[k] \in Loop!Users
       /\ k \in Prompts => call[k] \in {"new", "made", "logged", "waits", "told"}
       /\ k \in Results => call[k] \in {"new", "made", "polls", "gone", "resumed"}
  /\ \A k, j \in Loop!Calls : id[k] = id[j] /\ id[k] # Nothing => k = j

(* A loop has something to read, and its step or compaction a message that  *)
(* comes after what it has read; who waits, waits for a loop.               *)
LoopIsSound ==
  /\ own # Nothing => own \in Loop!Logged \ Loop!Users
  /\ loop \in {"steps", "compacts"} =>
       own # Nothing /\ (log[own].summary <=> loop = "compacts")
  /\ loop # "idle" => Loop!Users # {}
  /\ loop = "read" => seen \cap Loop!Users # {}
  /\ loop = "compacts" => \A i \in seen : i < own
  /\ \A k \in Loop!Calls : call[k] = "waits" => loop # "idle"

(* Summaries are the loop's; its messages answer one that was there before. *)
ParentsComeBefore ==
  /\ \A i \in Loop!Users : ~log[i].summary
  /\ \A a \in Loop!Logged \ Loop!Users : log[a].parent \in Loop!Ids /\ log[a].parent < a

(* The user messages before this one have been read, missed or spoilt.      *)
Accounted  == read \cup missed \cup spoilt
Covered(a) == \A i \in Loop!Users : i < a => i \in Accounted

(* That is so for each step's message, and for each summary that the model  *)
(* has finished and that is over; ...                                       *)
Over(a) == /\ log[a].finish # Nothing \/ ~log[a].summary
           /\ ~(loop = "compacts" /\ a = own)
AnswersHaveRead == \A a \in Loop!Logged \ Loop!Users : Over(a) => Covered(a)

(* ... it will be so for the summary that is being made, ...                *)
CompactionKnows ==
  loop = "compacts" => \A i \in Loop!Users : i < own => i \in seen \cup Accounted

(* ... and it is for one that comes after what was read or passed over.     *)
ReadAreDone ==
  \A m \in read \cup passed :
    \E a \in Loop!Logged \ Loop!Users : m < a /\ Covered(a)

(* No unread message is lost sight of.                                      *)
Remembered ==
  \A m \in Loop!Unread :
    \/ loop # "idle" \/ m \in cut \cup passed
    \/ \E k \in Loop!Calls : id[k] = m /\ call[k] \in {"logged", "polls", "gone"}

GoneHasNewer == \A k \in Loop!Calls : call[k] = "gone" =>
  \E j \in Loop!Users : j > id[k]

(* A step other than the end of a loop's late "idle".                       *)
LoopWorks == Loop!Head \/ Loop!Steps \/ Loop!Compactions \/ Loop!Stop
LoopMoves == Loop!Others \/ LoopWorks

LoopInv ==
  /\ Loop!TypeOK /\ Identified /\ LoopIsSound /\ ParentsComeBefore
  /\ AnswersHaveRead /\ CompactionKnows /\ ReadAreDone /\ Loop!NobodyIsPassedOver
  /\ Remembered /\ GoneHasNewer

-----------------------------------------------------------------------------
(* The greatest member of a set of numbers.                                 *)

LEMMA Least ==
  ASSUME NEW T, T \subseteq Nat, T # {}
  PROVE  \E x \in T : \A y \in T : x <= y
<1> DEFINE R == OpToRel(<, Nat)
<1>1. IsWellFoundedOn(R, Nat)
  BY NatLessThanWellFounded
<1>2. R = {p \in Nat \X Nat : p[1] < p[2]}
  BY DEF OpToRel
<1> HIDE DEF R
<1>3. PICK x \in T : \A y \in T : <<y, x>> \notin R
  BY <1>1, WFMin, Zenon
<1>4. ASSUME NEW y \in T PROVE x <= y
  <2>1. <<y, x>> \in Nat \X Nat /\ <<y, x>>[1] = y /\ <<y, x>>[2] = x
    OBVIOUS
  <2>2. ~(y < x)
    BY <1>2, <1>3, <2>1
  <2> QED
    BY <2>1, <2>2
<1> QED
  BY <1>4

LEMMA Greatest ==
  ASSUME NEW n \in Nat, NEW T, T \subseteq 0 .. n, T # {}
  PROVE  Loop!Max(T) \in T /\ \A y \in T : y <= Loop!Max(T)
<1> DEFINE U == {n - t : t \in T}
<1>1. U \subseteq Nat /\ U # {}
  OBVIOUS
<1>2. PICK u \in U : \A v \in U : u <= v
  BY <1>1, Least
<1>3. PICK x \in T : u = n - x
  BY <1>2
<1>4. ASSUME NEW y \in T PROVE x >= y
  <2>1. u <= n - y
    BY <1>2
  <2>2. x \in 0 .. n /\ y \in 0 .. n
    OBVIOUS
  <2> HIDE DEF U
  <2> QED
    BY <1>3, <2>1, <2>2
<1>5. Loop!Max(T) \in T /\ \A y \in T : Loop!Max(T) >= y
  BY <1>4, Zenon DEF Loop!Max
<1>6. \A p, q \in 0 .. n : p >= q => q <= p
  OBVIOUS
<1> QED
  BY <1>5, <1>6

LEMMA Numbers ==
  ASSUME Loop!PromptLoopAssumption
  PROVE  /\ Loop!Ids \subseteq Nat \ {0} /\ Loop!Ids \subseteq 0 .. MaxIds
         /\ MaxIds \in Nat
         /\ Nothing \notin Loop!Ids /\ Nothing # 0
         /\ \A x \in {0} \cup Loop!Ids : x \in Nat
BY DEF Loop!PromptLoopAssumption, Loop!Ids

(* The last identifier of a set of messages, with 0 for none.               *)
LEMMA LastOf ==
  ASSUME Loop!PromptLoopAssumption, NEW S, S \subseteq Loop!Ids
  PROVE  /\ Loop!Max({0} \cup S) \in {0} \cup S
         /\ \A i \in S : i <= Loop!Max({0} \cup S)
         /\ S # {} => Loop!Max({0} \cup S) \in S
<1>1. {0} \cup S \subseteq 0 .. MaxIds /\ MaxIds \in Nat
  BY Numbers
<1>2. /\ Loop!Max({0} \cup S) \in {0} \cup S
      /\ \A i \in {0} \cup S : i <= Loop!Max({0} \cup S)
  BY <1>1, Greatest
<1>3. ASSUME NEW i \in S PROVE Loop!Max({0} \cup S) # 0
  <2>1. i \in Nat \ {0} /\ i <= Loop!Max({0} \cup S)
    BY <1>2, Numbers
  <2> QED
    BY <2>1
<1> QED
  BY <1>2, <1>3

(* What the loop sees when it reads has a user message, and the last of     *)
(* those is the last one there is.                                          *)
LEMMA VisibleUsers ==
  ASSUME Loop!PromptLoopAssumption
  PROVE  /\ Loop!Visible \subseteq Loop!Logged
         /\ Loop!Users # {} => Loop!Visible \cap Loop!Users # {}
         /\ \A i \in Loop!Users : i <= Loop!LastUser(Loop!Visible)
<1> DEFINE X == {i \in Loop!Users : log[i].task
                 /\ \E s \in Loop!Summaries : log[s].parent = i}
           from == Loop!Max({0} \cup X)
<1>1. X \subseteq Loop!Users /\ Loop!Users \subseteq Loop!Logged
      /\ Loop!Logged \subseteq Loop!Ids
  BY DEF Loop!Users, Loop!Logged
<1>2. from \in {0} \cup X
  BY <1>1, LastOf
<1>3. Loop!Visible = {i \in Loop!Logged : i >= from}
  BY DEF Loop!Visible
<1> HIDE DEF X, from
<1>4. \A i \in Loop!Users : i \in Loop!Visible
      \/ (from \in Loop!Visible /\ from \in Loop!Users /\ i <= from)
  BY <1>1, <1>2, <1>3, Numbers
<1>5. Loop!Visible \cap Loop!Users \subseteq Loop!Ids
  BY <1>1
<1>6. \A i \in Loop!Visible \cap Loop!Users : i <= Loop!LastUser(Loop!Visible)
  BY <1>5, LastOf DEF Loop!LastUser
<1>7. Loop!LastUser(Loop!Visible) \in Nat
  <2>1. Loop!LastUser(Loop!Visible) \in {0} \cup (Loop!Visible \cap Loop!Users)
    BY <1>5, LastOf DEF Loop!LastUser
  <2>2. Loop!LastUser(Loop!Visible) \in {0} \cup Loop!Ids
    BY <1>5, <2>1
  <2> QED
    BY <2>2, Numbers
<1>8. ASSUME NEW i \in Loop!Users PROVE i <= Loop!LastUser(Loop!Visible)
  <2>1. i \in Nat /\ from \in Nat
    BY <1>1, <1>2, Numbers
  <2> QED
    BY <1>4, <1>6, <1>7, <2>1
<1> QED
  BY <1>3, <1>4, <1>8

(* The loop takes a turn for answered only when all below its last message  *)
(* have been read, missed or spoilt.                                        *)
LEMMA AnsweredCovers ==
  ASSUME Loop!PromptLoopAssumption, Loop!TypeOK, AnswersHaveRead,
         loop = "head", Loop!Answered(Loop!Visible)
  PROVE  /\ \A i \in Loop!Users : i \in Accounted
         /\ \E a \in Loop!Logged \ Loop!Users :
              Covered(a) /\ \A i \in Loop!Users : i < a
<1> DEFINE a == Loop!LastAssistant(Loop!Visible)
<1>1. Loop!Visible \subseteq Loop!Logged /\ Loop!Logged \subseteq Loop!Ids
      /\ Loop!Users \subseteq Loop!Ids
  BY VisibleUsers DEF Loop!Logged, Loop!Users
<1>2. a # 0 /\ log[a].finish # Nothing /\ Loop!LastUser(Loop!Visible) < a
  BY DEF Loop!Answered, Loop!Final
<1>3. a \in {0} \cup (Loop!Visible \ Loop!Users)
  BY <1>1, LastOf DEF Loop!LastAssistant
<1>4. a \in Loop!Logged \ Loop!Users /\ a \in Loop!Ids
  BY <1>1, <1>2, <1>3
<1>5. Covered(a)
  BY <1>2, <1>4 DEF AnswersHaveRead, Over
<1>6. Loop!LastUser(Loop!Visible) \in {0} \cup (Loop!Visible \cap Loop!Users)
  BY <1>1, LastOf DEF Loop!LastUser
<1>7. Loop!LastUser(Loop!Visible) \in Nat
  <2>1. Loop!LastUser(Loop!Visible) \in {0} \cup Loop!Ids
    BY <1>1, <1>6
  <2> QED
    BY <2>1, Numbers
<1> HIDE DEF a
<1>8. \A i \in Loop!Users : i < a
  BY <1>1, <1>2, <1>4, <1>7, VisibleUsers, Numbers
<1> QED
  BY <1>4, <1>5, <1>8 DEF Covered

-----------------------------------------------------------------------------
(* What each kind of step does to the log.                                  *)

Same(i) ==
  /\ i \in Loop!Users' <=> i \in Loop!Users
  /\ log'[i].summary = log[i].summary /\ log'[i].parent = log[i].parent
  /\ log'[i].finish = log[i].finish \/ (i = own /\ loop \in {"steps", "compacts"})

(* The new messages, of users and of the loop.                              *)
Grown(us, as) ==
  /\ log' \in [Loop!Ids -> {Nothing} \cup Loop!Message]
  /\ (us \cup as) \cap Loop!Logged = {} /\ us \cup as \subseteq Loop!Ids
  /\ Loop!Logged' = Loop!Logged \cup us \cup as
  /\ Loop!Users' = Loop!Users \cup us
  /\ \A i \in Loop!Logged : Same(i)
  /\ \A i \in us : ~log'[i].summary

LEMMA Messages ==
  ASSUME Loop!PromptLoopAssumption, Loop!TypeOK
  PROVE  /\ \A i \in Loop!Logged : log[i] \in Loop!Message /\ i \in Loop!Ids
         /\ \A m \in Loop!Message : m # Nothing
         /\ \A task \in BOOLEAN : Loop!User(task) \in Loop!Message
            /\ Loop!User(task).role = "user" /\ ~Loop!User(task).summary
         /\ \A summary \in BOOLEAN, parent \in Loop!Ids :
              LET m == Loop!Assistant(summary, parent)
              IN  /\ m \in Loop!Message /\ m.role = "assistant"
                  /\ m.finish = Nothing /\ m.summary = summary /\ m.parent = parent
BY DEF Loop!PromptLoopAssumption, Loop!TypeOK, Loop!Logged, Loop!Message, Loop!User,
       Loop!Assistant

LEMMA LogUnchanged ==
  ASSUME Loop!TypeOK, log' = log
  PROVE  Grown({}, {})
BY DEF Loop!TypeOK, Grown, Same, Loop!Logged, Loop!Users

(* A message is put into the log.                                           *)
LEMMA LogPut ==
  ASSUME Loop!TypeOK, NEW i \in Loop!Ids, i \notin Loop!Logged,
         NEW m \in Loop!Message, m # Nothing, m.role = "user" => ~m.summary,
         log' = [log EXCEPT ![i] = m]
  PROVE  /\ m.role = "user" => Grown({i}, {})
         /\ m.role = "assistant" => Grown({}, {i})
         /\ log'[i] = m
<1>1. log' \in [Loop!Ids -> {Nothing} \cup Loop!Message] /\ log'[i] = m
  BY DEF Loop!TypeOK
<1>2. \A j \in Loop!Ids : j # i => log'[j] = log[j]
  BY DEF Loop!TypeOK
<1>3. Loop!Logged' = Loop!Logged \cup {i}
  BY <1>1, <1>2 DEF Loop!Logged
<1>4. \A j \in Loop!Logged : Same(j)
  BY <1>2, <1>3 DEF Same, Loop!Logged, Loop!Users
<1>5. m.role = "user" => Loop!Users' = Loop!Users \cup {i}
  BY <1>1, <1>2, <1>3 DEF Loop!Users, Loop!Logged
<1>6. m.role = "assistant" => Loop!Users' = Loop!Users
  BY <1>1, <1>2, <1>3 DEF Loop!Users, Loop!Logged
<1> QED
  BY <1>1, <1>3, <1>4, <1>5, <1>6 DEF Grown

(* The loop's own message has finished, or fails.                           *)
LEMMA LogEnding ==
  ASSUME Loop!PromptLoopAssumption, Loop!TypeOK, own \in Loop!Logged \ Loop!Users,
         NEW fin \in {Nothing, "stop", "tool-calls", "error"}, NEW fails \in BOOLEAN,
         fin = log[own].finish \/ loop \in {"steps", "compacts"},
         log' = [log EXCEPT ![own].finish = fin, ![own].failed = fails]
  PROVE  Grown({}, {}) /\ log'[own].finish = fin
<1> DEFINE m == [log[own] EXCEPT !.finish = fin, !.failed = fails]
<1>1. own \in Loop!Ids /\ log[own] \in Loop!Message /\ log[own].role # "user"
  BY Messages DEF Loop!Users
<1>2. /\ m \in Loop!Message /\ m.role # "user" /\ m.finish = fin
      /\ m.summary = log[own].summary /\ m.parent = log[own].parent
  BY <1>1 DEF Loop!Message
<1>3. log'[own] = m
  BY <1>1 DEF Loop!TypeOK
<1>4. /\ log' = [j \in Loop!Ids |-> log'[j]]
      /\ \A j \in Loop!Ids : j # own => log'[j] = log[j]
  BY DEF Loop!TypeOK
<1> HIDE DEF m
<1>5. m # Nothing
  BY <1>2, Messages
<1>6. log' \in [Loop!Ids -> {Nothing} \cup Loop!Message] /\ log'[own] = m
  BY <1>1, <1>2, <1>3, <1>4 DEF Loop!TypeOK
<1>7. Loop!Logged' = Loop!Logged
  BY <1>1, <1>4, <1>5, <1>6 DEF Loop!Logged
<1>8. Loop!Users' = Loop!Users
  BY <1>2, <1>4, <1>6, <1>7 DEF Loop!Users, Loop!Logged
<1>9. \A j \in Loop!Logged : Same(j)
  BY <1>2, <1>4, <1>6, <1>8 DEF Same, Loop!Logged
<1> QED
  BY <1>2, <1>6, <1>7, <1>8, <1>9 DEF Grown

LEMMA NextId ==
  ASSUME Loop!PromptLoopAssumption, Loop!TypeOK, Identified, last < MaxIds
  PROVE  /\ last + 1 \in Loop!Ids \ Loop!Logged
         /\ \A i \in Loop!Logged : i <= last
         /\ \A i \in Loop!Ids : i <= last => i < last + 1
<1>1. last \in Nat /\ MaxIds \in Nat /\ Loop!Logged \subseteq Loop!Ids
      /\ Loop!Ids \subseteq Nat
  BY Numbers DEF Loop!TypeOK, Loop!Logged
<1>2. last + 1 \in Loop!Ids /\ last + 1 > last
  BY <1>1 DEF Loop!Ids
<1>3. \A i \in Loop!Logged : ~(i > last)
  BY DEF Identified, Loop!Logged
<1> QED
  BY <1>1, <1>2, <1>3 DEF Loop!Logged

(* What has been read at some time has a last user message.                 *)
LEMMA SeenHasLast ==
  ASSUME Loop!PromptLoopAssumption, Loop!TypeOK, LoopIsSound, loop = "read"
  PROVE  Loop!LastUser(seen) \in Loop!Ids
<1>1. seen \cap Loop!Users # {} /\ seen \cap Loop!Users \subseteq Loop!Ids
  BY DEF LoopIsSound, Loop!Users, Loop!Logged
<1>2. Loop!LastUser(seen) \in seen \cap Loop!Users
  BY <1>1, LastOf DEF Loop!LastUser
<1> QED
  BY <1>1, <1>2

(* The log after each kind of step.                                         *)
LEMMA Growth ==
  ASSUME Loop!PromptLoopAssumption, Loop!TypeOK, Identified, LoopIsSound
  PROVE  /\ \A k \in Loop!Calls : Loop!Log(k) => Grown({id[k]}, {})
         /\ \A k \in Loop!Calls : Loop!Make(k) \/ Loop!Run(k) \/ Loop!Poll(k) =>
              Grown({}, {})
         /\ Loop!Head \/ Loop!Halt \/ Loop!Halted \/ Loop!Stop \/ Loop!StepDenied
            \/ Loop!StepDone \/ Loop!TooLong => Grown({}, {})
         /\ \A fin \in {"stop", "tool-calls"} : Loop!Finish(fin) => Grown({}, {})
         /\ Loop!NoRoom \/ Loop!StepFull \/ Loop!Compacted => Grown({last + 1}, {})
         /\ Loop!Begin =>
              /\ Grown({}, {last + 1}) /\ ~log'[last + 1].summary
              /\ log'[last + 1].parent = Loop!LastUser(seen)
         /\ Loop!BeginCompaction =>
              /\ Grown({}, {last + 1}) /\ log'[last + 1].finish = Nothing
              /\ log'[last + 1].summary
              /\ log'[last + 1].parent = Loop!LastUser(seen)
<1>1. ASSUME NEW k \in Loop!Calls, Loop!Log(k) PROVE Grown({id[k]}, {})
  <2>1. id[k] # Nothing /\ log[id[k]] = Nothing
    BY <1>1 DEF Loop!Log, Identified
  <2>2. id[k] \in Loop!Ids \ Loop!Logged
    BY <2>1 DEF Loop!TypeOK, Loop!Logged
  <2>3. log' = [log EXCEPT ![id[k]] = Loop!User(FALSE)]
    BY <1>1 DEF Loop!Log
  <2> QED
    BY <2>2, <2>3, LogPut, Messages
<1>2. ASSUME NEW k \in Loop!Calls, Loop!Make(k) \/ Loop!Run(k) \/ Loop!Poll(k)
      PROVE  Grown({}, {})
  BY <1>2, LogUnchanged DEF Loop!Make, Loop!Run, Loop!Poll
<1>3. ASSUME Loop!Head \/ Loop!Halted \/ Loop!StepDenied \/ Loop!StepDone
      PROVE  Grown({}, {})
  BY <1>3, LogUnchanged DEF Loop!Head, Loop!Halted, Loop!StepDenied, Loop!StepDone
<1>4. ASSUME own \in Loop!Logged \ Loop!Users
      PROVE  /\ own \in Loop!Ids
             /\ log[own].finish \in {Nothing, "stop", "tool-calls", "error"}
             /\ log[own].failed \in BOOLEAN
             /\ log = [log EXCEPT ![own].finish = log[own].finish,
                                  ![own].failed = log[own].failed]
             /\ \A fin : [log EXCEPT ![own].finish = fin]
                   = [log EXCEPT ![own].finish = fin, ![own].failed = log[own].failed]
             /\ [log EXCEPT ![own].failed = TRUE]
                   = [log EXCEPT ![own].finish = log[own].finish, ![own].failed = TRUE]
  <2>1. own \in Loop!Ids /\ log[own] \in Loop!Message
    BY <1>4, Messages
  <2> QED
    BY <2>1 DEF Loop!TypeOK, Loop!Message
<1>5. ASSUME NEW fin \in {"stop", "tool-calls"}, Loop!Finish(fin) PROVE Grown({}, {})
  <2>1. loop \in {"steps", "compacts"} /\ log' = [log EXCEPT ![own].finish = fin]
    BY <1>5 DEF Loop!Finish
  <2>2. own \in Loop!Logged \ Loop!Users
    BY <2>1 DEF LoopIsSound
  <2> QED
    BY <1>4, <2>1, <2>2, LogEnding
<1>6. ASSUME Loop!Fails, own \in Loop!Logged \ Loop!Users PROVE Grown({}, {})
  BY <1>4, <1>6, LogEnding DEF Loop!Fails
<1>7. ASSUME Loop!Halt PROVE Grown({}, {})
  BY <1>6, <1>7 DEF Loop!Halt, LoopIsSound
<1>8. ASSUME Loop!Stop PROVE Grown({}, {})
  BY <1>6, <1>8, LogUnchanged DEF Loop!Stop, LoopIsSound
<1>9. ASSUME Loop!TooLong PROVE Grown({}, {})
  <2>1. /\ loop = "compacts"
        /\ log' = [log EXCEPT ![own].finish = "error", ![own].failed = TRUE]
    BY <1>9 DEF Loop!TooLong
  <2>2. own \in Loop!Logged \ Loop!Users
    BY <2>1 DEF LoopIsSound
  <2> QED
    BY <2>1, <2>2, LogEnding
<1>10. ASSUME NEW n, n = last + 1, last < MaxIds
       PROVE  n \in Loop!Ids /\ n \notin Loop!Logged
  BY <1>10, NextId
<1>11. ASSUME NEW task \in BOOLEAN, Loop!Append(Loop!User(task))
       PROVE  Grown({last + 1}, {})
  <2> DEFINE n == last + 1
  <2>1. last < MaxIds /\ log' = [log EXCEPT ![n] = Loop!User(task)]
    BY <1>11 DEF Loop!Append
  <2>2. n \in Loop!Ids /\ n \notin Loop!Logged
    BY <1>10, <2>1
  <2> HIDE DEF n
  <2>3. Grown({n}, {})
    BY <2>1, <2>2, LogPut, Messages
  <2> QED
    BY <2>3 DEF n
<1>12. ASSUME Loop!NoRoom \/ Loop!StepFull \/ Loop!Compacted PROVE Grown({last + 1}, {})
  BY <1>11, <1>12 DEF Loop!NoRoom, Loop!StepFull, Loop!Compacted
<1>13. ASSUME NEW summary \in BOOLEAN, loop = "read",
              Loop!Append(Loop!Assistant(summary, Loop!LastUser(seen)))
       PROVE  /\ Grown({}, {last + 1})
              /\ log'[last + 1].finish = Nothing /\ log'[last + 1].summary = summary
              /\ log'[last + 1].parent = Loop!LastUser(seen)
  <2> DEFINE n == last + 1
             m == Loop!Assistant(summary, Loop!LastUser(seen))
  <2>1. n \in Loop!Ids /\ n \notin Loop!Logged
    BY <1>10, <1>13 DEF Loop!Append
  <2>2. /\ m \in Loop!Message /\ m.role = "assistant" /\ m # Nothing
        /\ m.finish = Nothing /\ m.summary = summary /\ m.parent = Loop!LastUser(seen)
    BY <1>13, SeenHasLast, Messages
  <2>3. log' = [log EXCEPT ![n] = m]
    BY <1>13 DEF Loop!Append
  <2> HIDE DEF n, m
  <2>4. Grown({}, {n}) /\ log'[n] = m
    BY <2>1, <2>2, <2>3, LogPut
  <2> QED
    BY <2>2, <2>4 DEF n
<1>14. ASSUME Loop!Begin
       PROVE  /\ Grown({}, {last + 1}) /\ ~log'[last + 1].summary
              /\ log'[last + 1].parent = Loop!LastUser(seen)
  BY <1>13, <1>14 DEF Loop!Begin
<1>15. ASSUME Loop!BeginCompaction
       PROVE  /\ Grown({}, {last + 1}) /\ log'[last + 1].finish = Nothing
              /\ log'[last + 1].summary
              /\ log'[last + 1].parent = Loop!LastUser(seen)
  BY <1>13, <1>15 DEF Loop!BeginCompaction
<1> QED
  BY <1>1, <1>2, <1>3, <1>5, <1>7, <1>8, <1>9, <1>12, <1>14, <1>15

-----------------------------------------------------------------------------
CallSteps == {"new", "made", "logged", "waits", "told", "polls", "gone", "resumed"}

LEMMA LogGrows ==
  ASSUME NEW us, NEW as, Grown(us, as)
  PROVE  Loop!Logged \subseteq Loop!Logged' /\ Loop!Users \subseteq Loop!Users'
BY DEF Grown

LEMMA EndsType ==
  ASSUME Loop!TypeOK, Loop!Ends
  PROVE  /\ loop' = "idle" /\ idling' = TRUE /\ own' = Nothing /\ seen' = {}
         /\ id' = id
         /\ call' \in [Loop!Calls -> CallSteps]
         /\ \A k \in Loop!Calls :
              call'[k] = IF call[k] = "waits" THEN "told" ELSE call[k]
BY DEF Loop!TypeOK, Loop!Ends, CallSteps

LEMMA EnsureType ==
  ASSUME Loop!TypeOK, Loop!EnsureRunning \/ UNCHANGED Loop!reader
  PROVE  /\ loop' \in {"idle", "head", "read", "steps", "compacts", "halts"}
         /\ status' = status /\ idling' = idling /\ seen' = seen /\ own' = own
         /\ loop # "idle" => loop' = loop
         /\ loop' \in {"read", "steps", "compacts"} => loop' = loop
BY DEF Loop!TypeOK, Loop!EnsureRunning, Loop!reader

LEMMA LoopTypeStep ==
  ASSUME Loop!PromptLoopAssumption, Loop!TypeOK, Identified, LoopIsSound, LoopMoves
  PROVE  Loop!TypeOK'
<1> USE DEF CallSteps
<1>0. Loop!Users \subseteq Loop!Logged /\ Loop!Logged \subseteq Loop!Ids
  BY DEF Loop!Users, Loop!Logged
<1>1. ASSUME NEW k \in Loop!Calls, Loop!Make(k) PROVE Loop!TypeOK'
  <2>1. last + 1 \in Loop!Ids /\ last + 1 \in 0 .. MaxIds
    BY <1>1, NextId, Numbers DEF Loop!Make
  <2>2. /\ last' \in 0 .. MaxIds /\ log' = log
        /\ call' \in [Loop!Calls -> CallSteps]
        /\ id' \in [Loop!Calls -> {Nothing} \cup Loop!Ids]
    BY <1>1, <2>1 DEF Loop!TypeOK, Loop!Make
  <2> QED
    BY <1>1, <2>2
    DEF Loop!TypeOK, Loop!Make, Loop!reader, Loop!ghosts, Loop!Logged, Loop!Users
<1>2. ASSUME NEW k \in Loop!Calls, Loop!Log(k) PROVE Loop!TypeOK'
  <2>1. Grown({id[k]}, {})
    BY <1>2, Growth
  <2>2. call' \in [Loop!Calls -> CallSteps] /\ id[k] \in Loop!Users'
    BY <1>2, <2>1 DEF Loop!TypeOK, Loop!Log, Grown
  <2>3. missed' \subseteq missed \cup {id[k]}
    BY <1>2 DEF Loop!Log
  <2>4. UNCHANGED <<last, loop, seen, own, status, idling, id, stops, read, spoilt, cut, passed>>
    BY <1>2 DEF Loop!Log, Loop!reader
  <2>5. log' \in [Loop!Ids -> {Nothing} \cup Loop!Message]
        /\ Loop!Logged \subseteq Loop!Logged' /\ Loop!Users \subseteq Loop!Users'
    BY <2>1, LogGrows DEF Grown
  <2>6. /\ seen' \subseteq Loop!Logged' /\ own' \in {Nothing} \cup Loop!Logged'
        /\ UNION {read', missed', spoilt', cut', passed'} \subseteq Loop!Users'
    BY <2>2, <2>3, <2>4, <2>5 DEF Loop!TypeOK
  <2> QED
    BY <2>2, <2>4, <2>5, <2>6 DEF Loop!TypeOK
<1>3. ASSUME NEW k \in Loop!Calls, Loop!Run(k) \/ Loop!Poll(k) PROVE Loop!TypeOK'
  <2>1. Loop!EnsureRunning \/ UNCHANGED Loop!reader
    BY <1>3 DEF Loop!Run, Loop!Poll
  <2>2. call' \in [Loop!Calls -> CallSteps]
    BY <1>3 DEF Loop!TypeOK, Loop!Run, Loop!Poll
  <2>3. UNCHANGED <<last, log, id, stops, read, missed, spoilt, cut, passed>>
    BY <1>3 DEF Loop!Run, Loop!Poll, Loop!ghosts
  <2> HIDE DEF CallSteps
  <2>4. /\ loop' \in {"idle", "head", "read", "steps", "compacts", "halts"}
        /\ UNCHANGED <<status, idling, seen, own>>
    BY <2>1, EnsureType
  <2>5. Loop!Logged' = Loop!Logged /\ Loop!Users' = Loop!Users
    BY <2>3 DEF Loop!Logged, Loop!Users
  <2> QED
    BY <2>2, <2>3, <2>4, <2>5 DEF Loop!TypeOK, CallSteps
<1>4. Loop!Unread \subseteq Loop!Users /\ Loop!Skipped \subseteq Loop!Users
  BY DEF Loop!Unread, Loop!Skipped
<1>5. ASSUME Loop!Spoils PROVE spoilt' \subseteq Loop!Users
  BY <1>4, <1>5 DEF Loop!Spoils, Loop!TypeOK
<1>6. ASSUME NEW us, Grown(us, {}), Loop!Ends, last' \in 0 .. MaxIds,
             status' \in {"idle", "busy"}, stops' \in 0 .. MaxStops, UNCHANGED <<read, missed>>,
             spoilt' \subseteq Loop!Users, cut' \subseteq Loop!Users,
             passed' \subseteq Loop!Users
      PROVE  Loop!TypeOK'
  BY <1>6, EndsType, LogGrows DEF Loop!TypeOK, Grown
<1>7. ASSUME NEW us, NEW as, Grown(us, as),
             UNCHANGED <<idling, Loop!caller, stops, cut, passed>>,
             last' \in 0 .. MaxIds,
             loop' \in {"head", "read", "steps", "compacts", "halts"},
             status' \in {"idle", "busy"},
             own' \in {Nothing} \cup Loop!Logged', seen' \subseteq Loop!Logged,
             read' \subseteq Loop!Users, missed' \subseteq Loop!Users,
             spoilt' \subseteq Loop!Users
      PROVE  Loop!TypeOK'
  BY <1>7, LogGrows DEF Loop!TypeOK, Grown, Loop!caller
<1>8. ASSUME last < MaxIds PROVE last + 1 \in 0 .. MaxIds /\ last + 1 \in Loop!Ids
  BY <1>8, NextId, Numbers
<1>9. CASE Loop!Head
  <2>1. CASE Loop!Answered(Loop!Visible)
    <3>1. /\ Loop!Ends /\ Grown({}, {}) /\ status' = "busy"
          /\ passed' = passed \cup Loop!Unread
          /\ UNCHANGED <<last, stops, read, missed, spoilt, cut>>
      BY <1>9, <2>1, Growth DEF Loop!Head
    <3> QED
      BY <3>1, <1>4, <1>6 DEF Loop!TypeOK
  <2>2. CASE ~Loop!Answered(Loop!Visible)
    <3>1. /\ loop' = "read" /\ status' = "busy" /\ seen' = Loop!Visible
          /\ Grown({}, {})
          /\ UNCHANGED <<last, own, idling, Loop!caller, stops, read, missed, spoilt, cut, passed>>
      BY <1>9, <2>2, Growth DEF Loop!Head
    <3> QED
      BY <3>1, <1>7, VisibleUsers, LogGrows DEF Loop!TypeOK
  <2> QED
    BY <2>1, <2>2
<1>10. CASE Loop!NoRoom \/ Loop!StepFull \/ Loop!Compacted
  <2>1. /\ loop' = "head" /\ own' = Nothing /\ seen' = {}
        /\ last < MaxIds /\ last' = last + 1
        /\ read' \subseteq read \cup (seen \cap Loop!Users)
        /\ UNCHANGED <<status, idling, Loop!caller, stops, missed, spoilt, cut, passed>>
    BY <1>10
    DEF Loop!NoRoom, Loop!StepFull, Loop!Compacted, Loop!Append, Loop!GoesOn, Loop!ghosts
  <2>2. Grown({last + 1}, {})
    BY <1>10, Growth
  <2> QED
    BY <1>7, <1>8, <2>1, <2>2 DEF Loop!TypeOK
<1>11. CASE Loop!Begin \/ Loop!BeginCompaction
  <2>1. /\ loop' \in {"steps", "compacts"} /\ own' = last + 1
        /\ last < MaxIds /\ last' = last + 1
        /\ UNCHANGED <<status, idling, Loop!caller, stops, spoilt, cut, passed>>
        /\ seen' \in {{}, seen}
        /\ read' \subseteq read \cup (seen \cap Loop!Users)
        /\ missed' = missed \cup Loop!Skipped
    BY <1>11 DEF Loop!Begin, Loop!BeginCompaction, Loop!Append
  <2>2. Grown({}, {last + 1})
    BY <1>11, Growth
  <2>3. own' \in Loop!Logged'
    BY <2>1, <2>2 DEF Grown
  <2> QED
    BY <1>4, <1>7, <1>8, <2>1, <2>2, <2>3 DEF Loop!TypeOK
<1>12. ASSUME NEW fin \in {"stop", "tool-calls"}, Loop!Finish(fin) PROVE Loop!TypeOK'
  <2>1. /\ loop \in {"steps", "compacts"}
        /\ UNCHANGED <<last, loop, seen, own, status, idling, Loop!caller, stops>>
        /\ UNCHANGED <<read, missed, spoilt, cut, passed>>
    BY <1>12 DEF Loop!Finish, Loop!ghosts, Loop!reader
  <2>2. Grown({}, {})
    BY <1>12, Growth
  <2> QED
    BY <1>7, <2>1, <2>2, LogGrows DEF Loop!TypeOK
<1>13. CASE Loop!StepDone
  <2>1. /\ loop' = "head" /\ own' = Nothing /\ seen' = {}
        /\ UNCHANGED <<last, status, idling, Loop!caller, stops>>
        /\ UNCHANGED <<read, missed, spoilt, cut, passed>>
    BY <1>13 DEF Loop!StepDone, Loop!GoesOn, Loop!ghosts
  <2>2. Grown({}, {})
    BY <1>13, Growth
  <2> QED
    BY <1>7, <2>1, <2>2 DEF Loop!TypeOK
<1>14. CASE Loop!StepDenied \/ Loop!Halted \/ Loop!TooLong
  <2>1. /\ Loop!Ends /\ Grown({}, {}) /\ cut' = cut \cup Loop!Unread
        /\ UNCHANGED <<last, status, stops, read, missed, passed>>
        /\ spoilt' = spoilt \/ Loop!Spoils
    BY <1>14, Growth DEF Loop!StepDenied, Loop!Halted, Loop!TooLong, Loop!Breaks
  <2> QED
    BY <1>4, <1>5, <1>6, <2>1 DEF Loop!TypeOK
<1>15. CASE Loop!Stop
  <2>1. /\ Loop!Ends /\ Grown({}, {}) /\ cut' = cut \cup Loop!Unread
        /\ stops < MaxStops /\ Loop!Spoils
        /\ stops' = stops + 1 /\ UNCHANGED <<last, status, read, missed, passed>>
    BY <1>15, Growth DEF Loop!Stop, Loop!Breaks
  <2>2. stops' \in 0 .. MaxStops
    BY <2>1 DEF Loop!PromptLoopAssumption, Loop!TypeOK
  <2> QED
    BY <1>4, <1>5, <1>6, <2>1, <2>2 DEF Loop!TypeOK
<1>16. CASE Loop!Halt
  <2>1. /\ Grown({}, {}) /\ loop' = "halts" /\ status' = "idle" /\ Loop!Spoils
        /\ UNCHANGED <<last, seen, own, idling, Loop!caller, stops, read, missed, cut, passed>>
    BY <1>16, Growth DEF Loop!Halt
  <2> QED
    BY <1>5, <1>7, <2>1, LogGrows DEF Loop!TypeOK
<1> QED
  BY <1>1, <1>2, <1>3, <1>9, <1>10, <1>11, <1>12, <1>13, <1>14, <1>15, <1>16
  DEF LoopMoves, LoopWorks, Loop!Others, Loop!Steps, Loop!Compactions

-----------------------------------------------------------------------------
(* The inductive invariant, part by part.                                   *)

LEMMA LoopInit ==
  ASSUME Loop!PromptLoopAssumption
  PROVE  Loop!Init => LoopInv
<1> SUFFICES ASSUME Loop!Init PROVE LoopInv
  OBVIOUS
<1>1. Loop!Logged = {} /\ Loop!Users = {} /\ Loop!Unread = {}
  BY DEF Loop!Init, Loop!Logged, Loop!Users, Loop!Unread
<1>2. \A k \in Loop!Calls : call[k] = "new" /\ id[k] = Nothing
  BY DEF Loop!Init
<1>3. 0 \in 0 .. MaxIds /\ 0 \in 0 .. MaxStops
  BY DEF Loop!PromptLoopAssumption
<1>4. Loop!TypeOK
  BY <1>1, <1>3 DEF Loop!Init, Loop!TypeOK
<1>5. Identified
  BY <1>2 DEF Loop!Init, Identified, Loop!Calls
<1> QED
  BY <1>1, <1>2, <1>4, <1>5
  DEF LoopInv, Loop!Init, LoopIsSound, ParentsComeBefore, AnswersHaveRead,
      CompactionKnows, ReadAreDone, Loop!NobodyIsPassedOver, Remembered, GoneHasNewer

(* A step other than one of a call takes no call further than being told.   *)
Told ==
  /\ call' \in [Loop!Calls -> CallSteps] /\ id' = id
  /\ \A k \in Loop!Calls : call'[k] = call[k]
     \/ (call[k] = "waits" /\ call'[k] = "told")

LEMMA OthersAreTold ==
  ASSUME Loop!TypeOK, LoopWorks
  PROVE  Told
<1>1. Loop!Ends \/ UNCHANGED Loop!caller
  BY DEF LoopWorks, Loop!Head, Loop!Steps, Loop!Compactions, Loop!Stop, Loop!Begin,
         Loop!BeginCompaction, Loop!NoRoom, Loop!Finish, Loop!StepDone,
         Loop!StepFull, Loop!StepDenied, Loop!Halt, Loop!Halted, Loop!Compacted,
         Loop!TooLong, Loop!Breaks, Loop!reader
<1> QED
  BY <1>1, EndsType DEF Loop!caller, Told, Loop!TypeOK, CallSteps

(* The last identifier grows, and the messages stay at or below it.         *)
LEMMA LogStep ==
  ASSUME Loop!PromptLoopAssumption, Loop!TypeOK, Identified, LoopIsSound,
         LoopWorks
  PROVE  \/ last' = last /\ Grown({}, {})
         \/ /\ last < MaxIds /\ last' = last + 1
            /\ Grown({last + 1}, {}) \/ Grown({}, {last + 1})
<1>1. CASE Loop!Begin \/ Loop!BeginCompaction
  BY <1>1, Growth DEF Loop!Begin, Loop!BeginCompaction, Loop!Append
<1>2. CASE Loop!NoRoom \/ Loop!StepFull \/ Loop!Compacted
  BY <1>2, Growth DEF Loop!NoRoom, Loop!StepFull, Loop!Compacted, Loop!Append
<1>3. ASSUME NEW fin \in {"stop", "tool-calls"}, Loop!Finish(fin)
      PROVE  last' = last /\ Grown({}, {})
  BY <1>3, Growth DEF Loop!Finish
<1>4. ASSUME Loop!Head \/ Loop!Halt \/ Loop!Halted \/ Loop!Stop \/ Loop!StepDenied
             \/ Loop!StepDone \/ Loop!TooLong
      PROVE  last' = last /\ Grown({}, {})
  BY <1>4, Growth DEF Loop!Head, Loop!Halt, Loop!Halted, Loop!Stop, Loop!StepDenied,
                      Loop!StepDone, Loop!TooLong
<1> QED
  BY <1>1, <1>2, <1>3, <1>4 DEF LoopWorks, Loop!Steps, Loop!Compactions

LEMMA LogStays ==
  ASSUME Loop!PromptLoopAssumption, Loop!TypeOK, Identified, LoopIsSound, LoopWorks
  PROVE  /\ \A i \in Loop!Logged : Same(i)
         /\ Loop!Logged \subseteq Loop!Logged' /\ Loop!Users \subseteq Loop!Users'
BY LogStep DEF Grown

LEMMA IdentifiedStep ==
  ASSUME Loop!PromptLoopAssumption, Loop!TypeOK, Identified, LoopIsSound, LoopMoves,
         Loop!TypeOK'
  PROVE  Identified'
<1>0. /\ Loop!Ids \subseteq Nat /\ last \in Nat /\ Nothing \notin Loop!Ids
      /\ \A i \in Loop!Logged : i <= last
      /\ id \in [Loop!Calls -> {Nothing} \cup Loop!Ids]
      /\ Loop!Logged \subseteq Loop!Ids
  <2>1. Loop!Ids \subseteq Nat /\ last \in Nat /\ Nothing \notin Loop!Ids
        /\ Loop!Logged \subseteq Loop!Ids
    BY Numbers DEF Loop!TypeOK, Loop!Logged
  <2>2. \A i \in Loop!Logged : ~(i > last)
    BY DEF Identified, Loop!Logged
  <2> QED
    BY <2>1, <2>2 DEF Loop!TypeOK
<1>1. ASSUME NEW k \in Loop!Calls, Loop!Make(k) PROVE Identified'
  <2>1. last + 1 \in Loop!Ids \ Loop!Logged /\ log[last + 1] = Nothing
        /\ last + 1 # Nothing
    BY <1>0, <1>1, NextId DEF Loop!Make, Loop!Logged
  <2>2. /\ last' = last + 1 /\ log' = log /\ call[k] = "new" /\ call'[k] = "made"
        /\ id'[k] = last + 1 /\ Loop!Users' = Loop!Users
    BY <1>0, <1>1 DEF Loop!TypeOK, Loop!Make, Loop!Users, Loop!Logged
  <2>3. \A j \in Loop!Calls : j # k => call'[j] = call[j] /\ id'[j] = id[j]
    BY <1>0, <1>1 DEF Loop!TypeOK, Loop!Make
  <2>4. \A j \in Loop!Calls : id[j] # Nothing =>
          id[j] \in Nat /\ id[j] <= last /\ id[j] # last + 1
    <3>1. \A j \in Loop!Calls : id[j] # Nothing => id[j] \in Nat /\ id[j] <= last
      BY <1>0 DEF Identified
    <3>2. \A n \in Nat : n <= last => n # last + 1
      BY <1>0
    <3> QED
      BY <3>1, <3>2
  <2>5. \A i \in Loop!Ids : i > last' => log'[i] = Nothing
    BY <1>0, <2>2 DEF Identified
  <2>6. \A j \in Loop!Calls : j # k =>
          /\ call'[j] = "new" <=> id'[j] = Nothing
          /\ id'[j] # Nothing => id'[j] <= last'
          /\ call'[j] = "made" => log'[id'[j]] = Nothing
          /\ call'[j] \notin {"new", "made"} => id'[j] \in Loop!Users'
          /\ j \in Prompts => call'[j] \in {"new", "made", "logged", "waits", "told"}
          /\ j \in Results => call'[j] \in {"new", "made", "polls", "gone", "resumed"}
    <3> TAKE j \in Loop!Calls
    <3> HAVE j # k
    <3>1. id[j] # Nothing => id[j] <= last'
      BY <1>0, <2>2, <2>4
    <3> QED
      BY <2>2, <2>3, <3>1 DEF Identified
  <2>7. \A j, l \in Loop!Calls : id'[j] = id'[l] /\ id'[j] # Nothing => j = l
    BY <2>2, <2>3, <2>4 DEF Identified
  <2>8. last + 1 <= last'
    BY <1>0, <2>2
  <2> QED
    BY <2>1, <2>2, <2>5, <2>6, <2>7, <2>8 DEF Identified
<1>2. ASSUME NEW k \in Loop!Calls, Loop!Log(k) PROVE Identified'
  <2>1. /\ id[k] \in Loop!Ids /\ log' = [log EXCEPT ![id[k]] = Loop!User(FALSE)]
        /\ last' = last /\ id' = id
        /\ call[k] = "made" /\ id[k] # Nothing /\ id[k] <= last
    BY <1>0, <1>2 DEF Loop!Log, Identified
  <2>2. Grown({id[k]}, {})
    BY <1>2, Growth
  <2>3. \A i \in Loop!Ids : i # id[k] => log'[i] = log[i]
    BY <2>1 DEF Loop!TypeOK
  <2>4. \A j \in Loop!Calls : j # k =>
          call'[j] = call[j] /\ (id[j] = Nothing \/ id[j] # id[k])
    BY <1>2, <2>1 DEF Loop!Log, Loop!TypeOK, Identified
  <2>5. call'[k] = IF k \in Results THEN "polls" ELSE "logged"
    BY <1>2 DEF Loop!Log, Loop!TypeOK
  <2>6. Loop!Users' = Loop!Users \cup {id[k]}
    BY <2>2 DEF Grown
  <2>7. \A i \in Loop!Ids : i > last' => log'[i] = Nothing
    <3> TAKE i \in Loop!Ids
    <3> HAVE i > last'
    <3>1. i # id[k]
      BY <1>0, <2>1
    <3> QED
      BY <2>1, <2>3, <3>1 DEF Identified
  <2>8. \A j \in Loop!Calls : call'[j] = "made" => log'[id'[j]] = Nothing
    BY <1>0, <2>1, <2>3, <2>4, <2>5 DEF Identified
  <2>9. k \in Prompts \/ k \in Results
    BY DEF Loop!Calls
  <2>10. \A j \in Loop!Calls :
           /\ call'[j] = "new" <=> id'[j] = Nothing
           /\ id'[j] # Nothing => id'[j] <= last'
           /\ call'[j] \notin {"new", "made"} => id'[j] \in Loop!Users'
    BY <2>1, <2>4, <2>5, <2>6 DEF Identified
  <2>11. \A j \in Loop!Calls :
           /\ j \in Prompts => call'[j] \in {"new", "made", "logged", "waits", "told"}
           /\ j \in Results => call'[j] \in 
                  {"new", "made", "polls", "gone", "resumed"}
    BY <2>4, <2>5, <2>9 DEF Loop!PromptLoopAssumption, Identified
  <2>12. \A j, l \in Loop!Calls : id'[j] = id'[l] /\ id'[j] # Nothing => j = l
    BY <2>1 DEF Identified
  <2> QED
    BY <2>7, <2>8, <2>10, <2>11, <2>12 DEF Identified
<1>3. ASSUME NEW k \in Loop!Calls, Loop!Run(k) \/ Loop!Poll(k) PROVE Identified'
  <2>1. last' = last /\ log' = log /\ id' = id /\ Loop!Users' = Loop!Users
    BY <1>3 DEF Loop!Run, Loop!Poll, Loop!Users, Loop!Logged
  <2>2. \/ call[k] = "logged" /\ call' = [call EXCEPT ![k] = "waits"]
        \/ call[k] = "polls"
           /\ call' \in {[call EXCEPT ![k] = "gone"], [call EXCEPT ![k] = "resumed"]}
    BY <1>3 DEF Loop!Run, Loop!Poll
  <2>3. \/ k \in Prompts /\ call[k] = "logged"
        \/ k \in Results /\ call[k] = "polls"
    <3>1. k \in Prompts \/ k \in Results
      BY DEF Loop!Calls
    <3>2. /\ k \in Prompts => call[k] # "polls"
          /\ k \in Results => call[k] # "logged"
      BY DEF Identified
    <3>3. call[k] = "logged" \/ call[k] = "polls"
      BY <2>2
    <3> QED
      BY <3>1, <3>2, <3>3
  <2>4. /\ call'[k] \in {"waits", "gone", "resumed"}
        /\ k \in Prompts => call'[k] = "waits"
        /\ k \in Results => call'[k] # "waits"
        /\ \A j \in Loop!Calls : j # k => call'[j] = call[j]
    BY <2>2, <2>3 DEF Loop!PromptLoopAssumption, Loop!TypeOK, Identified
  <2> QED
    BY <2>1, <2>3, <2>4 DEF Identified
<1>4. ASSUME LoopWorks
      PROVE  Identified'
  <2>1. Told
    BY <1>4, OthersAreTold
  <2>2. Loop!Users \subseteq Loop!Users' /\ Loop!Logged \subseteq Loop!Logged'
    BY <1>4, LogStep, LogGrows
  <2>3. /\ last <= last' /\ last' \in Nat
        /\ Loop!Logged' \subseteq Loop!Logged \cup {last + 1} 
        /\ last + 1 \in Loop!Logged' => last + 1 <= last' \/ last + 1 \in Loop!Logged
    BY <1>0, <1>4, LogStep DEF Grown
  <2>4. \A i \in Loop!Ids : i > last' => log'[i] = Nothing
    <3> SUFFICES ASSUME NEW i \in Loop!Logged', i > last' PROVE FALSE
      BY DEF Loop!Logged
    <3>1. i \in Nat
      BY <1>0 DEF Loop!Logged
    <3>2. i \in Loop!Logged \/ (i = last + 1 /\ last + 1 <= last')
      BY <2>3
    <3> QED
      BY <1>0, <2>3, <3>1, <3>2
  <2>5. \A k \in Loop!Calls : id[k] # Nothing => id[k] <= last'
    <3> SUFFICES ASSUME NEW k \in Loop!Calls, id[k] # Nothing PROVE id[k] <= last'
      OBVIOUS
    <3>1. id[k] \in Nat /\ id[k] <= last
      BY <1>0 DEF Identified
    <3> QED
      BY <1>0, <2>3, <3>1
  <2>6. \A k \in Loop!Calls : call[k] = "made" => log'[id[k]] = Nothing
    <3> SUFFICES ASSUME NEW k \in Loop!Calls, call[k] = "made"
                 PROVE  log'[id[k]] = Nothing
      OBVIOUS
    <3>1. id[k] \in Loop!Ids /\ id[k] <= last /\ log[id[k]] = Nothing
      BY <1>0 DEF Identified
    <3>2. id[k] \notin Loop!Logged /\ id[k] # last + 1
      BY <1>0, <3>1 DEF Loop!Logged
    <3>3. id[k] \notin Loop!Logged'
      BY <2>3, <3>2
    <3> QED
      BY <3>1, <3>3 DEF Loop!Logged
  <2>7. \A k \in Loop!Calls : call'[k] = call[k]
        \/ (call[k] = "waits" /\ call'[k] = "told")
    BY <2>1 DEF Told
  <2> QED
    BY <2>1, <2>2, <2>4, <2>5, <2>6, <2>7 DEF Told, Identified
<1> QED
  BY <1>1, <1>2, <1>3, <1>4 DEF LoopMoves, Loop!Others

(* A step of the loop, or its end.                                          *)
LEMMA LoopRuns ==
  ASSUME Loop!TypeOK, LoopWorks
  PROVE  /\ loop # "idle" /\ own' \in {own, Nothing, last + 1}
         /\ \/ Loop!Ends
            \/ UNCHANGED Loop!caller
               /\ loop' \in {"head", "read", "steps", "compacts", "halts"}
         /\ loop' = "read" => seen' = Loop!Visible
         /\ loop' = "steps" => Loop!Begin \/ UNCHANGED Loop!reader
         /\ loop' = "compacts" => Loop!BeginCompaction \/ UNCHANGED Loop!reader
         /\ own' # Nothing =>
              own' = own \/ Loop!Begin \/ Loop!BeginCompaction
<1>1. CASE Loop!Begin \/ Loop!BeginCompaction
  BY <1>1 DEF Loop!Begin, Loop!BeginCompaction
<1>2. CASE Loop!NoRoom \/ Loop!StepFull \/ Loop!Compacted \/ Loop!StepDone
  BY <1>2 DEF Loop!NoRoom, Loop!StepFull, Loop!Compacted, Loop!StepDone, Loop!GoesOn
<1>3. ASSUME NEW fin \in {"stop", "tool-calls"}, Loop!Finish(fin)
      PROVE  UNCHANGED <<Loop!reader, Loop!caller>> /\ loop \in {"steps", "compacts"}
  BY <1>3 DEF Loop!Finish
<1>4. CASE Loop!StepDenied \/ Loop!Halted \/ Loop!Stop \/ Loop!TooLong
  BY <1>4, EndsType
  DEF Loop!StepDenied, Loop!Halted, Loop!Stop, Loop!TooLong, Loop!Breaks
<1>5. CASE Loop!Head
  BY <1>5, EndsType DEF Loop!Head
<1>6. CASE Loop!Halt
  BY <1>6 DEF Loop!Halt
<1> QED
  BY <1>1, <1>2, <1>3, <1>4, <1>5, <1>6
  DEF LoopWorks, Loop!Steps, Loop!Compactions, Loop!reader

(* A step of a call: the loop goes on as it was, or is started.             *)
LEMMA CallKeepsLoop ==
  ASSUME Loop!TypeOK, NEW k \in Loop!Calls,
         Loop!Make(k) \/ Loop!Log(k) \/ Loop!Run(k) \/ Loop!Poll(k)
  PROVE  /\ seen' = seen /\ own' = own
         /\ \/ loop' = loop
            \/ loop = "idle" /\ loop' = "head" /\ (Loop!Run(k) \/ Loop!Poll(k))
         /\ \A j \in Loop!Calls : j # k => call'[j] = call[j]
         /\ call'[k] = "waits" => Loop!Run(k) /\ loop' # "idle"
<1>1. CASE Loop!Make(k) \/ Loop!Log(k)
  BY <1>1 DEF Loop!Make, Loop!Log, Loop!reader, Loop!TypeOK
<1>2. CASE Loop!Run(k)
  BY <1>2 DEF Loop!Run, Loop!EnsureRunning, Loop!reader, Loop!TypeOK
<1>3. CASE Loop!Poll(k)
  BY <1>3 DEF Loop!Poll, Loop!EnsureRunning, Loop!reader, Loop!TypeOK
<1> QED
  BY <1>1, <1>2, <1>3

LEMMA LoopStep ==
  ASSUME Loop!PromptLoopAssumption, Loop!TypeOK, Identified, LoopIsSound, LoopMoves
  PROVE  LoopIsSound'
<1>0. Loop!Users \subseteq Loop!Logged /\ Loop!Logged \subseteq Loop!Ids
  BY DEF Loop!Users, Loop!Logged
<1>1. ASSUME NEW k \in Loop!Calls,
             Loop!Make(k) \/ Loop!Log(k) \/ Loop!Run(k) \/ Loop!Poll(k)
      PROVE  LoopIsSound'
  <2>1. PICK us \in SUBSET Loop!Ids : Grown(us, {})
    BY <1>1, Growth DEF Grown
  <2>2. /\ seen' = seen /\ own' = own
        /\ \/ loop' = loop
           \/ loop = "idle" /\ loop' = "head" /\ (Loop!Run(k) \/ Loop!Poll(k))
        /\ \A j \in Loop!Calls : j # k => call'[j] = call[j]
        /\ call'[k] = "waits" => loop' # "idle"
    BY <1>1, CallKeepsLoop
  <2>3. /\ Loop!Logged \subseteq Loop!Logged' /\ Loop!Users \subseteq Loop!Users'
        /\ \A i \in Loop!Logged : (i \in Loop!Users' <=> i \in Loop!Users)
           /\ log'[i].summary = log[i].summary
    BY <2>1, LogGrows DEF Grown, Same
  <2>9. own' # Nothing => own' \in Loop!Logged' \ Loop!Users'
    BY <2>2, <2>3 DEF LoopIsSound
  <2>4. Loop!Run(k) \/ Loop!Poll(k) => Loop!Users # {}
    BY DEF Loop!Run, Loop!Poll, Identified
  <2>5. loop' \in {"steps", "compacts"} =>
          own' # Nothing /\ (log'[own'].summary <=> loop' = "compacts")
    BY <2>2, <2>3 DEF LoopIsSound
  <2>6. loop' # "idle" => Loop!Users' # {}
    BY <2>2, <2>3, <2>4 DEF LoopIsSound
  <2>7. /\ loop' = "read" => seen' \cap Loop!Users' # {}
        /\ loop' = "compacts" => \A i \in seen' : i < own'
    BY <2>2, <2>3 DEF LoopIsSound
  <2>8. \A j \in Loop!Calls : call'[j] = "waits" => loop' # "idle"
    BY <2>2 DEF LoopIsSound
  <2> QED
    BY <2>5, <2>6, <2>7, <2>8, <2>9 DEF LoopIsSound
<1>2. ASSUME LoopWorks
      PROVE  LoopIsSound'
  <2>1. Loop!Users \subseteq Loop!Users' /\ Loop!Users # {} /\ loop # "idle"
    BY <1>2, LogStep, LogGrows, LoopRuns DEF LoopIsSound
  <2>2. \A j \in Loop!Calls : call'[j] = "waits" => loop' # "idle"
    BY <1>2, LoopRuns, EndsType DEF Loop!caller
  <2>3. loop' = "read" => seen' \cap Loop!Users' # {}
    BY <1>2, <2>1, LoopRuns, VisibleUsers
  <2>4. ASSUME Loop!Begin
        PROVE  own' \in Loop!Logged' \ Loop!Users' /\ ~log'[own'].summary
               /\ loop' = "steps"
    <3>1. /\ loop' = "steps" /\ own' = last + 1 /\ last < MaxIds
      BY <2>4 DEF Loop!Begin, Loop!Append
    <3>2. Grown({}, {last + 1}) /\ ~log'[last + 1].summary
          /\ last + 1 \notin Loop!Logged
      BY <2>4, <3>1, Growth, NextId
    <3> QED
      BY <1>0, <3>1, <3>2 DEF Grown
  <2>5. ASSUME Loop!BeginCompaction
        PROVE  /\ own' \in Loop!Logged' \ Loop!Users' /\ log'[own'].summary
               /\ loop' = "compacts"
               /\ \A i \in seen' : i < own'
    <3>1. /\ loop' = "compacts" /\ own' = last + 1 /\ last < MaxIds /\ seen' = seen
      BY <2>5 DEF Loop!BeginCompaction, Loop!Append
    <3>2. /\ Grown({}, {last + 1}) /\ log'[last + 1].summary
          /\ last + 1 \notin Loop!Logged
          /\ \A i \in Loop!Logged : i < last + 1
      BY <1>0, <2>5, <3>1, Growth, NextId
    <3> QED
      BY <1>0, <3>1, <3>2 DEF Grown, Loop!TypeOK
  <2>6. own # Nothing =>
          own \in Loop!Logged' \ Loop!Users' /\ log'[own].summary = log[own].summary
    BY <1>2, LogStays DEF LoopIsSound, Same
  <2>7. own' # Nothing => own' \in Loop!Logged' \ Loop!Users'
    BY <1>2, <2>4, <2>5, <2>6, LoopRuns
  <2>8. /\ loop' = "steps" => Loop!Begin \/ UNCHANGED Loop!reader
        /\ loop' = "compacts" => Loop!BeginCompaction \/ UNCHANGED Loop!reader
        /\ UNCHANGED Loop!reader => loop' = loop /\ own' = own /\ seen' = seen
    BY <1>2, LoopRuns DEF Loop!reader
  <2>9. loop' \in {"steps", "compacts"} =>
          own' # Nothing /\ (log'[own'].summary <=> loop' = "compacts")
    <3>1. CASE Loop!Begin \/ Loop!BeginCompaction
      <4>1. own' = last + 1 /\ last + 1 \in Loop!Ids
        BY <3>1, NextId DEF Loop!Begin, Loop!BeginCompaction, Loop!Append
      <4> QED
        BY <2>4, <2>5, <3>1, <4>1, Numbers
    <3>2. CASE UNCHANGED Loop!reader
      BY <2>6, <2>8, <3>2 DEF LoopIsSound
    <3> QED
      BY <2>8, <3>1, <3>2
  <2>10. loop' = "compacts" => \A i \in seen' : i < own'
    BY <2>5, <2>8 DEF LoopIsSound
  <2> QED
    BY <2>1, <2>2, <2>3, <2>7, <2>9, <2>10 DEF LoopIsSound
<1> QED
  BY <1>1, <1>2 DEF LoopMoves, Loop!Others

(* What is known of messages is not forgotten; what is newly read, is what  *)
(* a step or a compaction to its end has read.                              *)
LEMMA MarksStay ==
  ASSUME LoopMoves
  PROVE  /\ read \subseteq read' /\ missed \subseteq missed' /\ spoilt \subseteq spoilt'
         /\ cut \subseteq cut' /\ passed \subseteq passed'
         /\ \/ read' = read
            \/ Loop!Begin
            \/ Loop!Compacted /\ log[own].finish # Nothing
               /\ read' = read \cup (seen \cap Loop!Users)
         /\ \/ passed' = passed
            \/ Loop!Head /\ Loop!Answered(Loop!Visible)
               /\ passed' = passed \cup Loop!Unread
<1>1. ASSUME NEW k \in Loop!Calls,
             Loop!Make(k) \/ Loop!Log(k) \/ Loop!Run(k) \/ Loop!Poll(k)
      PROVE  UNCHANGED <<read, spoilt, cut, passed>> /\ missed \subseteq missed'
  BY <1>1 DEF Loop!Make, Loop!Log, Loop!Run, Loop!Poll, Loop!ghosts
<1>2. CASE Loop!Head
  BY <1>2 DEF Loop!Head
<1>3. CASE Loop!Steps
  BY <1>3 DEF Loop!Steps, Loop!Begin, Loop!Finish, Loop!StepDone, Loop!StepFull,
              Loop!StepDenied, Loop!Halt, Loop!Halted, Loop!Breaks, Loop!Spoils,
              Loop!ghosts
<1>4. CASE Loop!Compactions
  BY <1>4 DEF Loop!Compactions, Loop!BeginCompaction, Loop!NoRoom, Loop!Compacted,
              Loop!TooLong, Loop!Breaks, Loop!Spoils, Loop!ghosts
<1>5. CASE Loop!Stop
  BY <1>5 DEF Loop!Stop, Loop!Breaks, Loop!Spoils
<1> QED
  BY <1>1, <1>2, <1>3, <1>4, <1>5 DEF LoopMoves, LoopWorks, Loop!Others

(* User messages that come in below one of the loop's are missed.           *)
LEMMA LateAreMissed ==
  ASSUME Loop!PromptLoopAssumption, Loop!TypeOK, Identified, LoopIsSound, LoopMoves
  PROVE  \A i \in Loop!Users' \ Loop!Users, j \in Loop!Logged \ Loop!Users : j > i =>
           i \in missed'
<1>0. Loop!Logged \subseteq Nat /\ last \in Nat
  <2>1. Loop!Logged \subseteq Loop!Ids /\ last \in 0 .. MaxIds
    BY DEF Loop!Logged, Loop!TypeOK
  <2> QED
    BY <2>1, Numbers
<1>1. ASSUME NEW k \in Loop!Calls, Loop!Log(k), NEW i \in Loop!Users' \ Loop!Users,
             NEW j \in Loop!Logged \ Loop!Users, j > i
      PROVE  i \in missed'
  <2>1. i = id[k]
    BY <1>1, Growth DEF Grown
  <2> QED
    BY <1>1, <2>1 DEF Loop!Log
<1>2. ASSUME NEW k \in Loop!Calls, Loop!Make(k) \/ Loop!Run(k) \/ Loop!Poll(k)
      PROVE  Loop!Users' = Loop!Users
  BY <1>2, Growth DEF Grown
<1>3. ASSUME LoopWorks, NEW i \in Loop!Users' \ Loop!Users,
             NEW j \in Loop!Logged \ Loop!Users, j > i
      PROVE  FALSE
  <2>1. last < MaxIds /\ i = last + 1
    BY <1>3, LogStep DEF Grown
  <2>2. j < last + 1
    BY <1>0, <1>3, <2>1, NextId
  <2> QED
    BY <1>0, <1>3, <2>1, <2>2
<1> QED
  BY <1>1, <1>2, <1>3 DEF LoopMoves, Loop!Others

LEMMA CoveredStays ==
  ASSUME Loop!PromptLoopAssumption, Loop!TypeOK, Identified, LoopIsSound, LoopMoves,
         NEW a \in Loop!Logged \ Loop!Users, Covered(a)
  PROVE  Covered(a)'
<1> SUFFICES ASSUME NEW i \in Loop!Users', i < a PROVE i \in Accounted'
  BY DEF Covered
<1>1. CASE i \in Loop!Users
  BY <1>1, MarksStay DEF Covered, Accounted
<1>2. CASE i \notin Loop!Users
  <2>1. i \in Nat /\ a \in Nat
    BY Numbers DEF Loop!Users, Loop!Logged
  <2> QED
    BY <1>2, <2>1, LateAreMissed DEF Accounted
<1> QED
  BY <1>1, <1>2

(* What filterCompacted hides has been read before, or need not be: it came *)
(* before a summary that was finished.                                      *)
LEMMA HiddenAreRead ==
  ASSUME Loop!PromptLoopAssumption, Loop!TypeOK, ParentsComeBefore, AnswersHaveRead,
         loop # "compacts",
         NEW i \in Loop!Users, i \notin Loop!Visible
  PROVE  i \in Accounted
<1> DEFINE X == {j \in Loop!Users : log[j].task
                 /\ \E s \in Loop!Summaries : log[s].parent = j}
           from == Loop!Max({0} \cup X)
<1>1. X \subseteq Loop!Users /\ Loop!Users \subseteq Loop!Logged
      /\ Loop!Logged \subseteq Loop!Ids
  BY DEF Loop!Users, Loop!Logged
<1>2. from \in {0} \cup X
  BY <1>1, LastOf
<1>3. Loop!Visible = {j \in Loop!Logged : j >= from}
  BY DEF Loop!Visible
<1>4. i \in Nat \ {0} /\ from \in Nat
  BY <1>1, <1>2, Numbers
<1> HIDE DEF from
<1>5. i < from
  BY <1>1, <1>3, <1>4
<1>6. PICK s \in Loop!Summaries : log[s].parent = from
  BY <1>2, <1>4, <1>5
<1>7. s \in Loop!Logged \ Loop!Users /\ log[s].finish # Nothing /\ log[s].summary
  <2>1. s \in Loop!Logged /\ log[s].summary /\ log[s].finish # Nothing
    BY DEF Loop!Summaries
  <2>2. s \notin Loop!Users
    BY <2>1 DEF ParentsComeBefore
  <2> QED
    BY <2>1, <2>2
<1>8. Covered(s) /\ from < s
  BY <1>6, <1>7 DEF AnswersHaveRead, ParentsComeBefore, Over
<1>9. i < s
  BY <1>1, <1>4, <1>5, <1>7, <1>8, Numbers
<1> QED
  BY <1>8, <1>9 DEF Covered

(* Begin reads all that is not missed or hidden.                            *)
LEMMA BeginReads ==
  ASSUME Loop!PromptLoopAssumption, Loop!TypeOK, Identified, LoopIsSound,
         ParentsComeBefore, AnswersHaveRead, Loop!Begin
  PROVE  \A i \in Loop!Users' : i \in Accounted'
<1>1. Loop!Users' = Loop!Users
  BY Growth DEF Grown
<1>2. loop # "compacts" /\ spoilt' = spoilt /\ read' = read \cup (seen \cap Loop!Users)
      /\ missed' = missed \cup ((Loop!Visible \cap Loop!Users) \ seen)
  BY DEF Loop!Begin, Loop!Skipped
<1>3. \A i \in Loop!Users : i \in Loop!Visible \/ i \in Accounted
  BY <1>2, HiddenAreRead
<1> QED
  BY <1>1, <1>2, <1>3 DEF Accounted

(* So does a compaction, of what came before its message, that is through   *)
(* or fails after it has finished.                                          *)
LEMMA CompactionReads ==
  ASSUME Loop!PromptLoopAssumption, Loop!TypeOK, Identified, LoopIsSound,
         CompactionKnows, LoopMoves, loop = "compacts",
         seen \cap Loop!Users \subseteq Accounted', NEW a, a = own
  PROVE  Covered(a)'
<1>0. own \in Loop!Logged \ Loop!Users /\ Loop!Logged \subseteq Nat
      /\ Loop!Users \subseteq Loop!Logged
  BY Numbers DEF LoopIsSound, Loop!Users, Loop!Logged
<1> SUFFICES ASSUME NEW i \in Loop!Users', i < a PROVE i \in Accounted'
  BY DEF Covered
<1>1. i \in Nat
  BY Numbers DEF Loop!Users, Loop!Logged
<1>2. CASE i \in Loop!Users
  BY <1>2, MarksStay DEF CompactionKnows, Accounted
<1>3. CASE i \notin Loop!Users
  BY <1>0, <1>1, <1>3, LateAreMissed DEF Accounted
<1> QED
  BY <1>2, <1>3

LEMMA NewMessages ==
  ASSUME Loop!PromptLoopAssumption, Loop!TypeOK, Identified, LoopIsSound, LoopMoves
  PROVE  /\ \A i \in Loop!Logged : Same(i)
         /\ Loop!Logged \subseteq Loop!Logged' /\ Loop!Users \subseteq Loop!Users'
         /\ \A i \in Loop!Users' \ Loop!Users : ~log'[i].summary
         /\ \A a \in Loop!Logged' \ Loop!Logged :
              \/ a \in Loop!Users'
              \/ /\ a = last + 1 /\ last < MaxIds /\ loop = "read"
                 /\ log'[a].parent = Loop!LastUser(seen)
                 /\ \/ Loop!Begin
                    \/ Loop!BeginCompaction /\ log'[a].finish = Nothing /\ log'[a].summary
<1>1. ASSUME NEW us, Grown(us, {})
      PROVE  /\ \A i \in Loop!Logged : Same(i)
             /\ Loop!Logged \subseteq Loop!Logged' /\ Loop!Users \subseteq Loop!Users'
             /\ \A i \in Loop!Users' \ Loop!Users : ~log'[i].summary
             /\ \A a \in Loop!Logged' \ Loop!Logged : a \in Loop!Users'
  BY <1>1 DEF Grown
<1>2. ASSUME NEW k \in Loop!Calls,
             Loop!Make(k) \/ Loop!Log(k) \/ Loop!Run(k) \/ Loop!Poll(k)
      PROVE  \E us \in SUBSET Loop!Ids : Grown(us, {})
  BY <1>2, Growth DEF Grown
<1>3. ASSUME LoopWorks, ~Loop!Begin, ~Loop!BeginCompaction
      PROVE  \E us \in {{}, {last + 1}} : Grown(us, {})
  BY <1>3, Growth DEF LoopWorks, Loop!Steps, Loop!Compactions
<1>4. ASSUME Loop!Begin \/ Loop!BeginCompaction
      PROVE  /\ Grown({}, {last + 1}) /\ last < MaxIds /\ loop = "read"
             /\ log'[last + 1].parent = Loop!LastUser(seen)
             /\ Loop!BeginCompaction =>
                  log'[last + 1].finish = Nothing /\ log'[last + 1].summary
  BY <1>4, Growth DEF Loop!Begin, Loop!BeginCompaction, Loop!Append
<1>5. CASE Loop!Begin \/ Loop!BeginCompaction
  <2>1. /\ Loop!Logged' = Loop!Logged \cup {last + 1}
        /\ \A i \in Loop!Logged : Same(i)
        /\ Loop!Users' = Loop!Users
    BY <1>4, <1>5 DEF Grown
  <2> QED
    BY <1>4, <1>5, <2>1
<1> QED
  BY <1>1, <1>2, <1>3, <1>5 DEF LoopMoves, Loop!Others

LEMMA ParentsStep ==
  ASSUME Loop!PromptLoopAssumption, Loop!TypeOK, Identified, LoopIsSound,
         ParentsComeBefore, LoopMoves
  PROVE  ParentsComeBefore'
<1>0. Loop!Users \subseteq Loop!Logged
  BY DEF Loop!Users
<1>1. ASSUME NEW i \in Loop!Users' PROVE ~log'[i].summary
  BY <1>0, <1>1, NewMessages DEF ParentsComeBefore, Same
<1>2. ASSUME NEW a \in Loop!Logged' \ Loop!Users'
      PROVE  log'[a].parent \in Loop!Ids /\ log'[a].parent < a
  <2>1. CASE a \in Loop!Logged
    BY <1>2, <2>1, NewMessages DEF ParentsComeBefore, Same
  <2>2. CASE a \notin Loop!Logged
    <3>1. /\ a = last + 1 /\ last < MaxIds /\ loop = "read"
          /\ log'[a].parent = Loop!LastUser(seen)
      BY <1>2, <2>2, NewMessages
    <3>2. seen \cap Loop!Users # {} /\ seen \cap Loop!Users \subseteq Loop!Ids
      BY <3>1 DEF LoopIsSound, Loop!Users, Loop!Logged
    <3>3. Loop!LastUser(seen) \in seen \cap Loop!Users
      BY <3>2, LastOf DEF Loop!LastUser
    <3>4. Loop!LastUser(seen) \in Loop!Ids /\ Loop!LastUser(seen) < last + 1
      BY <1>0, <3>1, <3>2, <3>3, NextId
    <3> QED
      BY <3>1, <3>4
  <2> QED
    BY <2>1, <2>2
<1> QED
  BY <1>1, <1>2 DEF ParentsComeBefore

(* A summary that was being made is over: if the model had finished it, the *)
(* messages before it have been read or spoilt.                             *)
LEMMA CompactionEnds ==
  ASSUME Loop!PromptLoopAssumption, Loop!TypeOK, Identified, LoopIsSound,
         CompactionKnows, LoopMoves, loop = "compacts", loop' # "compacts",
         log'[own].finish # Nothing, NEW a, a = own
  PROVE  Covered(a)'
<1>1. ASSUME NEW k \in Loop!Calls,
             Loop!Make(k) \/ Loop!Log(k) \/ Loop!Run(k) \/ Loop!Poll(k)
      PROVE  FALSE
  BY <1>1, CallKeepsLoop
<1>2. seen \cap Loop!Users \subseteq (seen \cap Loop!Unread) \cup read
      /\ read \subseteq read' /\ own \in Loop!Logged \ Loop!Users
  BY MarksStay DEF Loop!Unread, LoopIsSound
<1>3. CASE Loop!Halt \/ Loop!TooLong \/ Loop!Stop
  BY <1>2, <1>3, CompactionReads
  DEF Loop!Halt, Loop!TooLong, Loop!Stop, Loop!Spoils, Accounted
<1>4. CASE Loop!Compacted
  <2>1. Grown({last + 1}, {}) /\ own # last + 1
    BY <1>2, <1>4, Growth, NextId DEF Loop!Compacted, Loop!Append
  <2>2. log'[own] = log[own]
    BY <1>2, <1>4, <2>1 DEF Loop!Compacted, Loop!Append, Loop!TypeOK, Loop!Logged
  <2>3. read' = read \cup (seen \cap Loop!Users)
    BY <1>4, <2>2 DEF Loop!Compacted
  <2> QED
    BY <2>3, CompactionReads DEF Accounted
<1>5. Loop!Halt \/ Loop!TooLong \/ Loop!Stop \/ Loop!Compacted
  BY <1>1
  DEF LoopMoves, LoopWorks, Loop!Others, Loop!Head, Loop!Steps, Loop!Compactions,
      Loop!Begin, Loop!BeginCompaction, Loop!NoRoom, Loop!Finish, Loop!StepDone,
      Loop!StepFull, Loop!StepDenied, Loop!Halted, Loop!reader
<1> QED
  BY <1>3, <1>4, <1>5

(* Begin has covered what its message comes after.                          *)
LEMMA AnswersStep ==
  ASSUME Loop!PromptLoopAssumption, Loop!TypeOK, Identified, LoopIsSound,
         ParentsComeBefore, AnswersHaveRead, CompactionKnows, LoopMoves
  PROVE  AnswersHaveRead'
<1> SUFFICES ASSUME NEW a \in Loop!Logged' \ Loop!Users',
                    log'[a].finish # Nothing \/ ~log'[a].summary,
                    ~(loop' = "compacts" /\ a = own')
             PROVE  Covered(a)'
  BY DEF AnswersHaveRead, Over
<1>1. CASE a \in Loop!Logged
  <2>1. a \notin Loop!Users /\ log'[a].summary = log[a].summary
    BY <1>1, NewMessages DEF Same
  <2>2. CASE a = own /\ loop = "compacts"
    <3>1. CASE loop' = "compacts"
      <4>1. own' = own
        BY <2>2, <3>1, CallKeepsLoop, LoopRuns
        DEF LoopMoves, Loop!Others, Loop!BeginCompaction, Loop!reader
      <4> QED
        BY <2>2, <3>1, <4>1
    <3>2. CASE loop' # "compacts"
      <4>1. log'[own].finish # Nothing
        BY <2>1, <2>2 DEF LoopIsSound
      <4> QED
        BY <2>2, <3>2, <4>1, CompactionEnds
    <3> QED
      BY <3>1, <3>2
  <2>3. CASE ~(a = own /\ loop = "compacts")
    <3>1. log'[a].finish = log[a].finish \/ ~log[a].summary
      BY <1>1, <2>3, NewMessages DEF Same, LoopIsSound
    <3>2. Over(a)
      BY <2>1, <2>3, <3>1 DEF Over
    <3>3. Covered(a)
      BY <1>1, <2>1, <3>2 DEF AnswersHaveRead
    <3> QED
      BY <1>1, <2>1, <3>3, CoveredStays
  <2> QED
    BY <2>2, <2>3
<1>2. CASE a \notin Loop!Logged
  <2>1. Loop!Begin
    BY <1>2, NewMessages
  <2> QED
    BY <2>1, BeginReads DEF Covered
<1> QED
  BY <1>1, <1>2

LEMMA CompactionStep ==
  ASSUME Loop!PromptLoopAssumption, Loop!TypeOK, Identified, LoopIsSound,
         ParentsComeBefore, AnswersHaveRead, CompactionKnows, LoopMoves
  PROVE  CompactionKnows'
<1> SUFFICES ASSUME loop' = "compacts", NEW i \in Loop!Users', i < own'
             PROVE  i \in seen' \cup Accounted'
  BY DEF CompactionKnows
<1>1. CASE Loop!BeginCompaction
  <2>1. Loop!Users' = Loop!Users
    BY <1>1, Growth DEF Grown
  <2>2. loop # "compacts" /\ spoilt' = spoilt /\ read' = read /\ seen' = seen
        /\ missed' = missed \cup ((Loop!Visible \cap Loop!Users) \ seen)
    BY <1>1 DEF Loop!BeginCompaction, Loop!Skipped
  <2>3. i \in Loop!Visible \/ i \in Accounted
    BY <2>1, <2>2, HiddenAreRead
  <2> QED
    BY <2>1, <2>2, <2>3 DEF Accounted
<1>2. CASE ~Loop!BeginCompaction
  <2>1. loop = "compacts" /\ seen' = seen /\ own' = own
    <3>1. ASSUME NEW k \in Loop!Calls,
                 Loop!Make(k) \/ Loop!Log(k) \/ Loop!Run(k) \/ Loop!Poll(k)
          PROVE  loop = "compacts" /\ seen' = seen /\ own' = own
      BY <3>1, CallKeepsLoop
    <3>2. CASE LoopWorks
      BY <1>2, <3>2, LoopRuns DEF Loop!reader
    <3> QED
      BY <3>1, <3>2 DEF LoopMoves, Loop!Others
  <2>2. own \in Loop!Logged \ Loop!Users /\ i \in Nat /\ own \in Nat
    BY <2>1, Numbers DEF LoopIsSound, Loop!Users, Loop!Logged
  <2>3. CASE i \in Loop!Users
    BY <2>1, <2>3, MarksStay DEF CompactionKnows, Accounted
  <2>4. CASE i \notin Loop!Users
    BY <2>1, <2>2, <2>4, LateAreMissed DEF Accounted
  <2> QED
    BY <2>3, <2>4
<1> QED
  BY <1>1, <1>2

LEMMA ReadStep ==
  ASSUME Loop!PromptLoopAssumption, Loop!TypeOK, Identified, LoopIsSound,
         ParentsComeBefore, AnswersHaveRead, CompactionKnows, ReadAreDone, LoopMoves
  PROVE  ReadAreDone'
<1>0. Loop!Users \subseteq Loop!Logged /\ Loop!Logged \subseteq Nat
  BY Numbers DEF Loop!Users, Loop!Logged
<1>1. ASSUME NEW m, NEW a \in Loop!Logged \ Loop!Users, m < a, Covered(a)'
      PROVE  \E b \in Loop!Logged' \ Loop!Users' : m < b /\ Covered(b)'
  BY <1>1, NewMessages DEF Same
<1> SUFFICES ASSUME NEW m \in read' \cup passed'
             PROVE  \E a \in Loop!Logged' \ Loop!Users' : m < a /\ Covered(a)'
  BY DEF ReadAreDone
<1>2. CASE m \in read \cup passed
  <2>1. PICK a \in Loop!Logged \ Loop!Users : m < a /\ Covered(a)
    BY <1>2 DEF ReadAreDone
  <2> QED
    BY <1>1, <2>1, CoveredStays
<1>3. CASE Loop!Begin /\ m \notin read \cup passed
  <2>1. /\ m \in seen \cap Loop!Users /\ last < MaxIds
        /\ passed' = passed /\ read' = read \cup (seen \cap Loop!Users)
    BY <1>3 DEF Loop!Begin, Loop!Append
  <2>2. /\ last + 1 \in Loop!Logged' \ Loop!Users' /\ m < last + 1
    BY <1>0, <1>3, <2>1, Growth, NextId DEF Grown, Loop!Logged
  <2> QED
    BY <1>3, <2>2, BeginReads DEF Covered
<1>4. CASE /\ m \notin read \cup passed /\ passed' = passed
           /\ Loop!Compacted /\ log[own].finish # Nothing
           /\ read' = read \cup (seen \cap Loop!Users)
  <2>1. m \in seen \cap Loop!Users /\ loop = "compacts"
    BY <1>4 DEF Loop!Compacted
  <2>2. PICK a \in Loop!Logged \ Loop!Users : a = own /\ m < a
    BY <2>1 DEF LoopIsSound
  <2>3. Covered(a)'
    BY <1>4, <2>1, <2>2, CompactionReads DEF Accounted
  <2> QED
    BY <1>1, <2>2, <2>3
<1>5. CASE Loop!Head /\ Loop!Answered(Loop!Visible)
           /\ m \notin read \cup passed /\ passed' = passed \cup Loop!Unread
  <2>1. read' = read /\ loop = "head" /\ m \in Loop!Users
    BY <1>5 DEF Loop!Head, Loop!Unread
  <2>2. PICK a \in Loop!Logged \ Loop!Users :
          Covered(a) /\ \A i \in Loop!Users : i < a
    BY <1>5, <2>1, AnsweredCovers
  <2> QED
    BY <1>1, <2>1, <2>2, CoveredStays
<1>6. Loop!Begin => passed' = passed
  BY DEF Loop!Begin
<1>7. Loop!Head => read' = read
  BY DEF Loop!Head
<1> QED
  BY <1>2, <1>3, <1>4, <1>5, <1>6, <1>7, MarksStay

LEMMA PassedStep ==
  ASSUME Loop!PromptLoopAssumption, Loop!TypeOK, AnswersHaveRead,
         Loop!NobodyIsPassedOver, LoopMoves
  PROVE  Loop!NobodyIsPassedOver'
<1>1. Loop!Head /\ Loop!Answered(Loop!Visible) => Loop!Unread \subseteq missed \cup spoilt
  BY AnsweredCovers DEF Loop!Unread, Loop!Head, Accounted
<1> QED
  BY <1>1, MarksStay DEF Loop!NobodyIsPassedOver

(* A loop that ends leaves a mark at each message that it has not read.     *)
LEMMA EndsMark ==
  ASSUME LoopWorks, Loop!Ends,
         loop' = "idle"
  PROVE  Loop!Unread \subseteq cut' \cup passed'
BY DEF LoopWorks, Loop!Head, Loop!Steps, Loop!Compactions, Loop!Stop, Loop!Begin,
       Loop!BeginCompaction, Loop!NoRoom, Loop!Finish, Loop!StepDone, Loop!StepFull,
       Loop!StepDenied, Loop!Halt, Loop!Halted, Loop!Compacted, Loop!TooLong,
       Loop!Breaks, Loop!GoesOn, Loop!reader

(* A call is for the same message still, and goes on from it as it may.     *)
LEMMA CallKeepsOn ==
  ASSUME Loop!TypeOK, LoopMoves, NEW k \in Loop!Calls, call[k] # "new"
  PROVE  /\ id'[k] = id[k]
         /\ call[k] = "gone" => call'[k] = "gone"
         /\ call[k] \in {"logged", "polls"} =>
              call'[k] \in {call[k], "gone"} \/ loop' # "idle"
         /\ call'[k] = "gone" =>
              call[k] = "gone" \/ (id[k] # Loop!Max(Loop!Users) /\ call[k] = "polls")
<1>1. ASSUME NEW j \in Loop!Calls, Loop!Make(j) \/ Loop!Log(j)
      PROVE  /\ id'[k] = id[k]
             /\ \/ call'[k] = call[k]
                \/ call[k] = "made" /\ call'[k] \in {"logged", "polls"}
  BY <1>1 DEF Loop!Make, Loop!Log, Loop!TypeOK
<1>2. ASSUME NEW j \in Loop!Calls, Loop!Run(j)
      PROVE  /\ id' = id
             /\ \/ call'[k] = call[k]
                \/ call[k] = "logged" /\ call'[k] = "waits" /\ loop' # "idle"
  BY <1>2, CallKeepsLoop DEF Loop!Run, Loop!TypeOK
<1>3. ASSUME NEW j \in Loop!Calls, Loop!Poll(j)
      PROVE  /\ id' = id
             /\ \/ call'[k] = call[k]
                \/ call[k] = "polls" /\ call'[k] = "gone"
                   /\ id[k] # Loop!Max(Loop!Users)
                \/ call[k] = "polls" /\ call'[k] = "resumed" /\ loop' # "idle"
  BY <1>3 DEF Loop!Poll, Loop!EnsureRunning, Loop!TypeOK, Loop!reader
<1>4. ASSUME LoopWorks PROVE Told
  BY <1>4, OthersAreTold
<1> QED
  BY <1>1, <1>2, <1>3, <1>4 DEF LoopMoves, Loop!Others, Told

LEMMA RememberedStep ==
  ASSUME Loop!PromptLoopAssumption, Loop!TypeOK, Identified, LoopIsSound, Remembered,
         LoopMoves
  PROVE  Remembered'
<1> SUFFICES ASSUME NEW m \in Loop!Users', m \notin read', loop' = "idle",
                    m \notin cut' \cup passed'
             PROVE  \E k \in Loop!Calls : id'[k] = m
                    /\ call'[k] \in {"logged", "polls", "gone"}
  BY DEF Remembered, Loop!Unread
<1>1. CASE m \in Loop!Users
  <2>1. m \in Loop!Unread /\ m \notin cut \cup passed
    BY <1>1, MarksStay DEF Loop!Unread
  <2>2. loop = "idle"
    <3>1. ASSUME NEW j \in Loop!Calls,
                 Loop!Make(j) \/ Loop!Log(j) \/ Loop!Run(j) \/ Loop!Poll(j)
          PROVE  loop = "idle"
      BY <3>1, CallKeepsLoop
    <3>2. ASSUME LoopWorks PROVE FALSE
      BY <2>1, <3>2, LoopRuns, EndsMark
    <3> QED
      BY <3>1, <3>2 DEF LoopMoves, Loop!Others
  <2>3. PICK k \in Loop!Calls : id[k] = m /\ call[k] \in {"logged", "polls", "gone"}
    BY <2>1, <2>2 DEF Remembered
  <2>4. /\ id'[k] = id[k]
        /\ call[k] = "gone" => call'[k] = "gone"
        /\ call[k] \in {"logged", "polls"} => call'[k] \in {call[k], "gone"}
    BY <2>3, CallKeepsOn
  <2> QED
    BY <2>3, <2>4
<1>2. CASE m \notin Loop!Users
  <2>1. ASSUME NEW k \in Loop!Calls, Loop!Log(k)
        PROVE  id'[k] = m /\ call'[k] \in {"logged", "polls", "gone"}
    <3>1. m = id[k]
      BY <1>2, <2>1, Growth DEF Grown
    <3> QED
      BY <2>1, <3>1 DEF Loop!Log, Loop!TypeOK
  <2>2. ASSUME NEW k \in Loop!Calls, Loop!Make(k) \/ Loop!Run(k) \/ Loop!Poll(k)
        PROVE  FALSE
    BY <1>2, <2>2, Growth DEF Grown
  <2>3. ASSUME LoopWorks PROVE FALSE
    <3>1. Loop!Head \/ Loop!StepDenied \/ Loop!Halt \/ Loop!Halted \/ Loop!TooLong
          \/ Loop!Stop \/ Loop!Begin \/ Loop!BeginCompaction \/ Loop!StepDone
          => Loop!Users' = Loop!Users
      BY Growth DEF Grown
    <3>2. \A fin \in {"stop", "tool-calls"} : Loop!Finish(fin) =>
            Loop!Users' = Loop!Users
      BY Growth DEF Grown
    <3>3. Loop!NoRoom \/ Loop!StepFull \/ Loop!Compacted => loop' = "head"
      BY DEF Loop!NoRoom, Loop!StepFull, Loop!Compacted, Loop!GoesOn
    <3> QED
      BY <1>2, <2>3, <3>1, <3>2, <3>3 DEF LoopWorks, Loop!Steps, Loop!Compactions
  <2> QED
    BY <2>1, <2>2, <2>3 DEF LoopMoves, Loop!Others
<1> QED
  BY <1>1, <1>2

LEMMA GoneStep ==
  ASSUME Loop!PromptLoopAssumption, Loop!TypeOK, Identified, LoopIsSound,
         GoneHasNewer, LoopMoves
  PROVE  GoneHasNewer'
<1> SUFFICES ASSUME NEW k \in Loop!Calls, call'[k] = "gone"
             PROVE  \E j \in Loop!Users' : j > id'[k]
  BY DEF GoneHasNewer
<1>1. call[k] # "new"
  <2>1. ASSUME call[k] = "new", NEW j \in Loop!Calls,
               Loop!Make(j) \/ Loop!Log(j) \/ Loop!Run(j) \/ Loop!Poll(j)
        PROVE  FALSE
    BY <2>1 DEF Loop!Make, Loop!Log, Loop!Run, Loop!Poll, Loop!TypeOK
  <2>2. ASSUME call[k] = "new",
               LoopWorks
        PROVE  FALSE
    BY <2>2, OthersAreTold DEF Told
  <2> QED
    BY <2>1, <2>2 DEF LoopMoves, Loop!Others
<1>2. id'[k] = id[k]
      /\ (call[k] = "gone" \/ (id[k] # Loop!Max(Loop!Users) /\ call[k] = "polls"))
  BY <1>1, CallKeepsOn
<1>3. CASE call[k] = "gone"
  BY <1>2, <1>3, NewMessages DEF GoneHasNewer
<1>4. CASE id[k] # Loop!Max(Loop!Users) /\ call[k] = "polls"
  <2>1. id[k] \in Loop!Users /\ Loop!Users \subseteq Loop!Ids
    BY <1>4 DEF Identified, Loop!Users, Loop!Logged
  <2>2. Loop!Max(Loop!Users) \in Loop!Users
        /\ \A i \in Loop!Users : i <= Loop!Max(Loop!Users)
    BY <2>1, Numbers, Greatest
  <2>3. id[k] \in Nat /\ Loop!Max(Loop!Users) \in Nat
    BY <2>1, <2>2, Numbers
  <2>4. Loop!Max(Loop!Users) > id[k]
    BY <1>4, <2>1, <2>2, <2>3
  <2> QED
    BY <1>2, <2>2, <2>4, NewMessages
<1> QED
  BY <1>2, <1>3, <1>4

(* Of the late "idle" the invariant says nothing.                           *)
LEMMA LoopRests ==
  ASSUME LoopInv,
         UNCHANGED <<last, log, loop, seen, own, call, id, stops>>,
         UNCHANGED <<read, missed, spoilt, cut, passed>>,
         status' \in {"idle", "busy"}, idling' \in BOOLEAN
  PROVE  LoopInv'
<1>1. Loop!Logged' = Loop!Logged /\ Loop!Users' = Loop!Users
      /\ Loop!Unread' = Loop!Unread
  BY DEF Loop!Logged, Loop!Users, Loop!Unread
<1>2. Accounted' = Accounted
  BY DEF Accounted
<1>3. \A a : Covered(a)' <=> Covered(a)
  BY <1>1, <1>2 DEF Covered
<1>4. \A a : Over(a)' <=> Over(a)
  BY DEF Over
<1>5. Loop!TypeOK' /\ Identified' /\ LoopIsSound' /\ ParentsComeBefore'
  BY <1>1 DEF LoopInv, Loop!TypeOK, Identified, LoopIsSound, ParentsComeBefore
<1>6. AnswersHaveRead' /\ CompactionKnows' /\ ReadAreDone'
  BY <1>1, <1>2, <1>3, <1>4 DEF LoopInv, AnswersHaveRead, CompactionKnows, ReadAreDone
<1>7. Loop!NobodyIsPassedOver' /\ Remembered' /\ GoneHasNewer'
  BY <1>1 DEF LoopInv, Loop!NobodyIsPassedOver, Remembered, GoneHasNewer
<1> QED
  BY <1>5, <1>6, <1>7 DEF LoopInv

LEMMA LoopInductive ==
  ASSUME Loop!PromptLoopAssumption
  PROVE  LoopInv /\ [Loop!Next]_(Loop!vars) => LoopInv'
<1> SUFFICES ASSUME LoopInv, [Loop!Next]_(Loop!vars) PROVE LoopInv'
  OBVIOUS
<1>1. CASE LoopMoves
  <2>1. /\ Loop!TypeOK' /\ LoopIsSound' /\ ParentsComeBefore'
        /\ AnswersHaveRead' /\ CompactionKnows' /\ ReadAreDone'
    BY <1>1, LoopTypeStep, LoopStep, ParentsStep, AnswersStep, CompactionStep, ReadStep
    DEF LoopInv
  <2>2. Identified' /\ Loop!NobodyIsPassedOver' /\ Remembered' /\ GoneHasNewer'
    BY <1>1, <2>1, IdentifiedStep, PassedStep, RememberedStep, GoneStep DEF LoopInv
  <2> QED
    BY <2>1, <2>2 DEF LoopInv
<1>2. CASE Loop!IdleLands
  <2>1. /\ UNCHANGED <<last, log, loop, seen, own, call, id, stops>>
        /\ UNCHANGED <<read, missed, spoilt, cut, passed>>
        /\ status' \in {"idle", "busy"} /\ idling' \in BOOLEAN
    BY <1>2 DEF Loop!IdleLands, Loop!caller, Loop!ghosts
  <2> QED
    BY <2>1, LoopRests
<1>3. CASE UNCHANGED Loop!vars
  <2>1. /\ UNCHANGED <<last, log, loop, seen, own, call, id, stops>>
        /\ UNCHANGED <<read, missed, spoilt, cut, passed>>
        /\ status' = status /\ idling' = idling
    BY <1>3 DEF Loop!vars, Loop!reader, Loop!caller, Loop!ghosts
  <2>2. status \in {"idle", "busy"} /\ idling \in BOOLEAN
    BY DEF LoopInv, Loop!TypeOK
  <2> QED
    BY <2>1, <2>2, LoopRests
<1> QED
  BY <1>1, <1>2, <1>3 DEF Loop!Next, LoopMoves, LoopWorks

LEMMA LoopInvariance ==
  ASSUME Loop!PromptLoopAssumption
  PROVE  Loop!Spec => []LoopInv
BY LoopInit, LoopInductive, PTL DEF Loop!Spec

(* The states of the loop, its calls and its messages, and that what is     *)
(* said to be read, missed, spoilt, cut or passed are its user messages.    *)
THEOREM LoopTypeCorrect ==
  ASSUME Loop!PromptLoopAssumption
  PROVE  Loop!Spec => []Loop!TypeOK
<1>1. LoopInv => Loop!TypeOK
  BY DEF LoopInv
<1> QED
  BY <1>1, LoopInvariance, PTL

(* A loop that ends since the last message is answered has read them all,   *)
(* but for those that it missed, and those of a summary that failed after   *)
(* the model had finished it.                                               *)
THEOREM NobodyPassed ==
  ASSUME Loop!PromptLoopAssumption
  PROVE  Loop!Spec => []Loop!NobodyIsPassedOver
<1>1. LoopInv => Loop!NobodyIsPassedOver
  BY DEF LoopInv
<1> QED
  BY <1>1, LoopInvariance, PTL

(* The newest message there is, by which the resumption of a result goes,   *)
(* has not been read if the result has not, since what was read or passed   *)
(* over covers what came before it; so somebody cares for that one.         *)
LEMMA NewestIsCaredFor ==
  ASSUME Loop!PromptLoopAssumption
  PROVE  LoopInv => Loop!ResultsAreCaredFor
<1> SUFFICES ASSUME LoopInv, NEW k \in Results, id[k] \in Loop!Unread \ (missed \cup spoilt),
                    call[k] # "resumed", loop = "idle", ~\E j \in cut : j > id[k]
             PROVE  Loop!Cared(id[k])
  BY DEF Loop!ResultsAreCaredFor
<1>0. k \in Loop!Calls /\ Loop!Users \subseteq Loop!Ids /\ id[k] \in Loop!Users
      /\ id[k] \notin read
  BY DEF Loop!Calls, Loop!Users, Loop!Logged, Loop!Unread
<1>1. call[k] \in {"polls", "gone"}
  BY <1>0, Numbers DEF LoopInv, Identified, Loop!Unread, Loop!Users, Loop!Logged
<1>2. CASE call[k] = "polls"
  <2>1. id[k] \in Nat /\ id[k] \in Loop!Unread
    BY <1>0, Numbers
  <2>2. id[k] >= id[k]
    BY <2>1
  <2> QED
    BY <1>0, <1>2, <2>1, <2>2 DEF Loop!Cared
<1>3. CASE call[k] = "gone"
  <2> DEFINE m == Loop!Max(Loop!Users)
  <2>1. m \in Loop!Users /\ \A i \in Loop!Users : i <= m
    BY <1>0, Numbers, Greatest
  <2>2. PICK j \in Loop!Users : j > id[k]
    BY <1>0, <1>3 DEF LoopInv, GoneHasNewer
  <2>3. m \in Nat /\ j \in Nat /\ id[k] \in Nat
    BY <1>0, <2>1, Numbers
  <2> HIDE DEF m
  <2>4. m > id[k]
    BY <2>1, <2>2, <2>3
  <2>5. m \notin read \cup passed
    <3>1. ASSUME m \in read \cup passed PROVE FALSE
      <4>1. PICK a \in Loop!Logged \ Loop!Users : m < a /\ Covered(a)
        BY <3>1 DEF LoopInv, ReadAreDone
      <4>2. a \in Nat /\ id[k] < a
        BY <2>3, <2>4, <4>1, Numbers DEF Loop!Logged
      <4> QED
        BY <1>0, <4>1, <4>2 DEF Covered, Accounted
    <3> QED
      BY <3>1
  <2>6. m \in Loop!Unread /\ m \notin cut
    BY <2>1, <2>4, <2>5 DEF Loop!Unread
  <2>7. PICK l \in Loop!Calls : id[l] = m /\ call[l] \in {"logged", "polls", "gone"}
    BY <2>5, <2>6 DEF LoopInv, Remembered
  <2>8. call[l] # "gone"
    BY <2>1, <2>3, <2>7, <1>0, Numbers DEF LoopInv, GoneHasNewer
  <2> QED
    BY <2>3, <2>4, <2>6, <2>7, <2>8 DEF Loop!Cared
<1> QED
  BY <1>1, <1>2, <1>3

(* A result that nobody has read will be, when the loop that was to read it *)
(* is cancelled or fails: a loop runs, or somebody has still to run one.    *)
THEOREM ResultsCaredFor ==
  ASSUME Loop!PromptLoopAssumption
  PROVE  Loop!Spec => []Loop!ResultsAreCaredFor
BY LoopInvariance, NewestIsCaredFor, PTL
=============================================================================
