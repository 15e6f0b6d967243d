----------------------------- MODULE Processor -----------------------------
(***************************************************************************)
(* One step of a session's loop: packages/engine/src/session/processor.ts  *)
(* (process, its event handler and its clean-up), with the tools that the   *)
(* model calls (session/tools.ts) and the retries (session/retry.ts).       *)
(*                                                                          *)
(* The processor reads a stream of events and writes the parts of one       *)
(* assistant message.  The tools run beside it: each begins when its call   *)
(* has come in, which may be before the processor has handled the event     *)
(* that says so, and its result comes back as another event.  When the      *)
(* stream is cut, by a failure, a retry or an interruption, the tools learn *)
(* of it by their abort signal, and a tool that returns after that hands    *)
(* its result in by itself.                                                 *)
(*                                                                          *)
(* Each action is a section between two suspensions; a write of a part is   *)
(* one with the read before it, since the store is a local database that    *)
(* is called without suspending.                                            *)
(***************************************************************************)
EXTENDS Naturals, FiniteSets

CONSTANTS
  Calls,          \* of tools, by all the attempts together
  Attempts,       \* how often the stream is opened at most: the code has no limit
  DoomThreshold,  \* as many calls in a row that are all the same are a loop
  None

ASSUME ProcessorAssumption ==
  /\ Attempts \in Nat \ {0} /\ DoomThreshold \in Nat \ {0}
  /\ None \notin {"streaming", "cut", "unheard", "late"}
  /\ None \notin {"interrupted", "compact", "stop", "continue"}

VARIABLES
  pc,               \* of the processor
  attempt,
  text,             \* of each attempt: its text part
  part,             \* of each call: its tool part
  toolcalls,        \* ctx.toolcalls: the calls that are not settled
  todo,             \* those that the clean-up has still to look at
  heard,            \* of each call: its last event that was handled
  at,               \* the attempt that it belongs to
  tool,             \* what has become of the tool itself
  returned,         \* and when it returned
  asking,           \* the processor asks the user about a loop
  shouldBreak, blocked, needsCompaction,
  finish, error,    \* of the message
  interrupted,      \* where the processor was interrupted
  result

ctx     == <<blocked, needsCompaction, finish, error>>
tools   == <<at, tool, returned>>
message == <<text, part, toolcalls, heard>>
vars    == <<pc, attempt, message, todo, tools, asking, shouldBreak, ctx, interrupted, result>>

Settled == {"completed", "error", "aborted"}

Init ==
  /\ pc = "stream" /\ attempt = 1
  /\ text = [a \in 1 .. Attempts |-> "none"]
  /\ part = [c \in Calls |-> "absent"] /\ toolcalls = {} /\ todo = {}
  /\ heard = [c \in Calls |-> "nothing"] /\ at = [c \in Calls |-> 0]
  /\ tool = [c \in Calls |-> "none"] /\ returned = [c \in Calls |-> None]
  /\ asking = FALSE /\ shouldBreak \in BOOLEAN
  /\ blocked = FALSE /\ needsCompaction = FALSE /\ finish = FALSE
  /\ error = "none" /\ interrupted = "no" /\ result = None

(* The stream of the attempt is open; after step-finish it only ends. *)
Open     == pc \in {"stream", "drain"}
(* The call comes, or has come, in this attempt. *)
Here(c)  == at[c] \in {0, attempt}
(* The abort signal of the attempt in which the call came. *)
Aborted(c) == at[c] < attempt \/ ~Open
(* completeToolCall and failToolCall do nothing about any other call. *)
Running(c) == c \in toolcalls /\ part[c] = "running"

(* The call's part gets its final form, and settleToolCall. *)
Settle(c, how) ==
  /\ part' = [part EXCEPT ![c] = how]
  /\ toolcalls' = toolcalls \ {c}

-----------------------------------------------------------------------------
(* The events of the stream.                                                *)

Reads == pc = "stream" /\ ~asking

TextStart ==
  /\ Reads /\ text[attempt] = "none"
  /\ text' = [text EXCEPT ![attempt] = "open"]
  /\ UNCHANGED <<pc, attempt, part, toolcalls, heard, todo, tools, asking, shouldBreak, ctx,
                 interrupted, result>>

TextEnd ==
  /\ Reads /\ text[attempt] = "open"
  /\ text' = [text EXCEPT ![attempt] = "ended"]
  /\ UNCHANGED <<pc, attempt, part, toolcalls, heard, todo, tools, asking, shouldBreak, ctx,
                 interrupted, result>>

(* tool-input-start, by ensureToolCall. *)
InputStart(c) ==
  /\ Reads /\ heard[c] = "nothing" /\ Here(c)
  /\ heard' = [heard EXCEPT ![c] = "input"] /\ at' = [at EXCEPT ![c] = attempt]
  /\ part' = [part EXCEPT ![c] = "pending"] /\ toolcalls' = toolcalls \cup {c}
  /\ UNCHANGED <<pc, attempt, text, todo, tool, returned, asking, shouldBreak, ctx,
                 interrupted, result>>

(* The message ends in calls that are all the same, the last one included. *)
MayBeDoomed == Cardinality({c \in Calls : part'[c] \notin {"absent", "pending"}}) >= DoomThreshold

(* tool-call: the part runs, if it did not already, and the user may be asked. *)
Call(c) ==
  /\ Reads /\ heard[c] \in {"nothing", "input"} /\ Here(c)
  /\ heard' = [heard EXCEPT ![c] = "call"] /\ at' = [at EXCEPT ![c] = attempt]
  /\ part' = [part EXCEPT ![c] = "running"] /\ toolcalls' = toolcalls \cup {c}
  /\ asking' \in {FALSE, MayBeDoomed}
  /\ UNCHANGED <<pc, attempt, text, todo, tool, returned, shouldBreak, ctx, interrupted, result>>

(* The user lets the loop go on. *)
Allowed ==
  /\ pc = "stream" /\ asking /\ asking' = FALSE
  /\ UNCHANGED <<pc, attempt, message, todo, tools, shouldBreak, ctx, interrupted, result>>

(* tool-result: completeToolCall. *)
Result(c) ==
  /\ Reads /\ heard[c] = "call" /\ Here(c) /\ tool[c] = "returned"
  /\ heard' = [heard EXCEPT ![c] = "end"]
  /\ IF Running(c) THEN Settle(c, "completed") ELSE UNCHANGED <<part, toolcalls>>
  /\ UNCHANGED <<pc, attempt, text, todo, tools, asking, shouldBreak, ctx, interrupted, result>>

(* Mutant of Error: a rejection is an error like any other. *)
ErrorOnly(c) ==
  /\ Reads /\ heard[c] = "call" /\ Here(c) /\ tool[c] \in {"failed", "rejected"}
  /\ heard' = [heard EXCEPT ![c] = "end"]
  /\ IF Running(c) THEN Settle(c, "error") ELSE UNCHANGED <<part, toolcalls>>
  /\ UNCHANGED <<pc, attempt, text, todo, tools, asking, shouldBreak, ctx, interrupted, result>>

(* tool-error: failToolCall. *)
Error(c) ==
  /\ Reads /\ heard[c] = "call" /\ Here(c) /\ tool[c] \in {"failed", "rejected"}
  /\ heard' = [heard EXCEPT ![c] = "end"]
  /\ IF Running(c)
       THEN /\ Settle(c, "error")
            /\ blocked' = IF tool[c] = "rejected" THEN shouldBreak ELSE blocked
       ELSE UNCHANGED <<part, toolcalls, blocked>>
  /\ UNCHANGED <<pc, attempt, text, todo, tools, asking, shouldBreak, needsCompaction, finish,
                 error, interrupted, result>>

(* step-finish, which comes when all tools of the attempt have been heard.  *)
(* If the context is full, nothing is read after it.                        *)
StepFinish(overflow) ==
  /\ Reads /\ finish' = TRUE
  /\ \A c \in Calls : at[c] = attempt => heard[c] = "end"
  /\ needsCompaction' = overflow /\ pc' = IF overflow THEN "close" ELSE "drain"
  /\ UNCHANGED <<attempt, message, todo, tools, asking, shouldBreak, blocked, error,
                 interrupted, result>>

Drained ==
  /\ pc = "drain" /\ pc' = "close"
  /\ UNCHANGED <<attempt, message, todo, tools, asking, shouldBreak, ctx, interrupted, result>>

-----------------------------------------------------------------------------
(* How the stream ends otherwise.                                           *)

(* An error that says that the context is too long. *)
TooLong ==
  /\ Open /\ ~asking /\ pc' = "close" /\ needsCompaction' = TRUE
  /\ UNCHANGED <<attempt, message, todo, tools, asking, shouldBreak, blocked, finish, error,
                 interrupted, result>>

(* An error that is not worth a retry, a user's refusal of the loop among them. *)
Fails ==
  /\ Open /\ pc' = "close" /\ error' = "failed" /\ asking' = FALSE
  /\ UNCHANGED <<attempt, message, todo, tools, shouldBreak, blocked, needsCompaction, finish,
                 interrupted, result>>

FailsForNow ==
  /\ Open /\ ~asking /\ attempt < Attempts /\ pc' = "delay"
  /\ UNCHANGED <<attempt, message, todo, tools, asking, shouldBreak, ctx, interrupted, result>>

(* Mutant of Retry: the attempt begins with no calls, as it does with no text. *)
RetryClean ==
  /\ pc = "delay" /\ pc' = "stream" /\ attempt' = attempt + 1 /\ toolcalls' = {}
  /\ UNCHANGED <<text, part, heard, todo, tools, asking, shouldBreak, ctx, interrupted, result>>

(* The stream is opened anew.  ctx.currentText is forgotten, not ended. *)
Retry ==
  /\ pc = "delay" /\ pc' = "stream" /\ attempt' = attempt + 1
  /\ UNCHANGED <<message, todo, tools, asking, shouldBreak, ctx, interrupted, result>>

(* Mutant of Interrupt: the message does not say so. *)
InterruptQuietly ==
  /\ pc \in {"stream", "drain", "delay"} /\ pc' = "close"
  /\ interrupted' = pc /\ asking' = FALSE /\ error' = "none"
  /\ UNCHANGED <<attempt, message, todo, tools, shouldBreak, blocked, needsCompaction, finish,
                 result>>

(* Mutant of Interrupt: it does not spare the clean-up. *)
InterruptAnywhere ==
  /\ pc # "over" /\ pc' = "close"
  /\ interrupted' = pc /\ asking' = FALSE
  /\ error' = IF pc = "delay" THEN error ELSE "aborted"
  /\ UNCHANGED <<attempt, message, todo, tools, shouldBreak, blocked, needsCompaction, finish,
                 result>>

(* The handler that records the interruption is inside what is retried: it  *)
(* is not there while the next attempt is waited for.                       *)
Interrupt ==
  /\ pc \in {"stream", "drain", "delay"} /\ pc' = "close"
  /\ interrupted' = pc /\ asking' = FALSE
  /\ error' = IF pc = "delay" THEN error ELSE "aborted"
  /\ UNCHANGED <<attempt, message, todo, tools, shouldBreak, blocked, needsCompaction, finish,
                 result>>

(* The clean-up is a finalizer, which an interruption waits for. *)
InterruptLate ==
  /\ pc \in {"close", "grace", "sweep"} /\ interrupted = "no" /\ interrupted' = "cleanup"
  /\ UNCHANGED <<pc, attempt, message, todo, tools, asking, shouldBreak, ctx, result>>

-----------------------------------------------------------------------------
(* cleanup.                                                                 *)

(* The text that is open is ended. *)
CloseText ==
  /\ pc = "close" /\ pc' = "grace"
  /\ text' = [text EXCEPT ![attempt] = IF @ = "open" THEN "ended" ELSE @]
  /\ UNCHANGED <<attempt, part, toolcalls, heard, todo, tools, asking, shouldBreak, ctx,
                 interrupted, result>>

(* All calls are settled, or 250 ms are over. *)
GraceOver ==
  /\ pc = "grace" /\ pc' = "sweep" /\ todo' = toolcalls
  /\ UNCHANGED <<attempt, message, tools, asking, shouldBreak, ctx, interrupted, result>>

(* A call is marked as aborted, unless it has been settled since. *)
Sweep(c) ==
  /\ pc = "sweep" /\ c \in todo /\ todo' = todo \ {c}
  /\ part' = [part EXCEPT ![c] = IF c \in toolcalls THEN "aborted" ELSE @]
  /\ UNCHANGED <<pc, attempt, text, toolcalls, heard, tools, asking, shouldBreak, ctx,
                 interrupted, result>>

Outcome ==
  CASE interrupted # "no"            -> "interrupted"
    [] needsCompaction               -> "compact"
    [] blocked \/ error # "none"     -> "stop"
    [] OTHER                         -> "continue"

(* The message is completed, and process returns. *)
Complete ==
  /\ pc = "sweep" /\ todo = {} /\ pc' = "over" /\ toolcalls' = {} /\ result' = Outcome
  /\ UNCHANGED <<attempt, text, part, heard, todo, tools, asking, shouldBreak, ctx, interrupted>>

-----------------------------------------------------------------------------
(* The tools.                                                               *)

Begin(c) ==
  /\ pc = "stream" /\ tool[c] = "none" /\ Here(c)
  /\ tool' = [tool EXCEPT ![c] = "works"] /\ at' = [at EXCEPT ![c] = attempt]
  /\ UNCHANGED <<pc, attempt, message, todo, returned, asking, shouldBreak, ctx, interrupted,
                 result>>

(* ctx.metadata: updateToolCall, which marks a pending part as running. *)
Metadata(c) ==
  /\ tool[c] = "works" /\ c \in toolcalls /\ part[c] = "pending"
  /\ part' = [part EXCEPT ![c] = "running"]
  /\ UNCHANGED <<pc, attempt, text, toolcalls, heard, todo, tools, asking, shouldBreak, ctx,
                 interrupted, result>>

(* When a tool returned: while its result could still travel by the stream, *)
(* when the clean-up was through with its call, and, between these, before  *)
(* or after the event of its call had been handled.                         *)
Moment(c) ==
  CASE ~Aborted(c)                                            -> "streaming"
    [] pc = "over" \/ (pc = "sweep" /\ c \notin todo)         -> "late"
    [] heard[c] # "call"                                      -> "unheard"
    [] OTHER                                                  -> "cut"

(* Mutant of Return: the part gets its result whatever it says. *)
ReturnAnyway(c) ==
  /\ tool[c] = "works" /\ tool' = [tool EXCEPT ![c] = "returned"]
  /\ returned' = [returned EXCEPT ![c] = Moment(c)]
  /\ IF Aborted(c) /\ c \in toolcalls THEN Settle(c, "completed") ELSE UNCHANGED <<part, toolcalls>>
  /\ UNCHANGED <<pc, attempt, text, heard, todo, at, asking, shouldBreak, ctx, interrupted, result>>

(* A tool that finds its signal aborted completes its call by itself. *)
Return(c) ==
  /\ tool[c] = "works" /\ tool' = [tool EXCEPT ![c] = "returned"]
  /\ returned' = [returned EXCEPT ![c] = Moment(c)]
  /\ IF Aborted(c) /\ Running(c) THEN Settle(c, "completed") ELSE UNCHANGED <<part, toolcalls>>
  /\ UNCHANGED <<pc, attempt, text, heard, todo, at, asking, shouldBreak, ctx, interrupted, result>>

(* It fails, or the user rejects what it asks for. *)
Throw(c, how) ==
  /\ tool[c] = "works" /\ tool' = [tool EXCEPT ![c] = how]
  /\ UNCHANGED <<pc, attempt, message, todo, at, returned, asking, shouldBreak, ctx, interrupted,
                 result>>

-----------------------------------------------------------------------------
Events  == \/ TextStart \/ TextEnd \/ Allowed \/ Drained
           \/ \E c \in Calls : InputStart(c) \/ Call(c) \/ Result(c) \/ Error(c)
           \/ \E overflow \in BOOLEAN : StepFinish(overflow)
Ends    == TooLong \/ Fails \/ FailsForNow \/ Retry \/ Interrupt \/ InterruptLate
Cleanup == CloseText \/ GraceOver \/ Complete \/ \E c \in Calls : Sweep(c)
Tools   == \E c \in Calls : \/ Begin(c) \/ Metadata(c) \/ Return(c)
                            \/ \E how \in {"failed", "rejected"} : Throw(c, how)

Next == Events \/ Ends \/ Cleanup \/ Tools

Spec == Init /\ [][Next]_vars

-----------------------------------------------------------------------------
TypeOK ==
  /\ pc \in {"stream", "drain", "delay", "close", "grace", "sweep", "over"}
  /\ attempt \in 1 .. Attempts /\ text \in [1 .. Attempts -> {"none", "open", "ended"}]
  /\ part \in [Calls -> {"absent", "pending", "running"} \cup Settled]
  /\ toolcalls \subseteq Calls /\ todo \subseteq Calls
  /\ heard \in [Calls -> {"nothing", "input", "call", "end"}] /\ at \in [Calls -> 0 .. Attempts]
  /\ tool \in [Calls -> {"none", "works", "returned", "failed", "rejected"}]
  /\ returned \in [Calls -> {None, "streaming", "cut", "unheard", "late"}]
  /\ {asking, shouldBreak, blocked, needsCompaction, finish} \subseteq BOOLEAN
  /\ error \in {"none", "failed", "aborted"}
  /\ interrupted \in {"no", "stream", "drain", "delay", "cleanup"}
  /\ result \in {None, "interrupted", "compact", "stop", "continue"}

(* Whatever the tools do when the stream has been cut, each part has one    *)
(* life, which ends before the message is completed; a late return or       *)
(* report of a tool does not move it again (completeToolCall's and          *)
(* metadata's tests of the status, settleToolCall).                         *)
Life == INSTANCE ToolParts WITH closed <- pc = "over"
PartsLiveOnce == Life!Spec

(* The result of a tool that returned after the cut, and before the         *)
(* clean-up came to its call, is kept, even if that is attempts later.  Two *)
(* kinds of results are lost, their calls marked as aborted: those that     *)
(* were on their way by the stream when it was cut, and those of tools that *)
(* returned after the cut without the event of their call having been       *)
(* handled.                                                                 *)
WorkIsKept == \A c \in Calls : returned[c] = "cut" => part[c] = "completed"

(* The loop does not go on as if nothing had happened when the user has     *)
(* refused a tool what it asked for, unless the configuration wants it to   *)
(* (continue_loop_on_deny).                                                 *)
DenialIsNoticed ==
  result = "continue" /\ shouldBreak =>
    \A c \in Calls : ~ (part[c] = "error" /\ tool[c] = "rejected")

(* A completed message is whole.  It says how it ended: by the model's own  *)
(* finish, by an error, or with a request for compaction; the exception is  *)
(* a step that was interrupted while it waited to retry.  And its text has  *)
(* an end, but for texts of attempts that were given up.                    *)
EndsAreWhole ==
  pc = "over" =>
    /\ finish \/ error # "none" \/ needsCompaction \/ interrupted = "delay"
    /\ text[attempt] # "open"
=============================================================================
