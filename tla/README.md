# TLA+ verification of monkeyDcode

monkeyDcode is a terminal coding agent. It asks weak models for several
candidate changes, verifies each one with real tools in the user's own project,
repairs and resamples, and applies what passed. This directory holds TLA+
modules translated from its source, TLC configurations that check them on small
instances, and proofs for every instance, checked by TLAPS.

`PROJECT.json` is the index: it maps definitions to source lines, lists the
runs, the mutated definition that must break each property, the hazards, the
findings and the theorems.

To check: `tlc -config Sampler.cfg MCSampler` (and so on for each `.cfg`),
`tlapm SamplerProofs.tla` (and so on for each `*Proofs.tla`).

Contents: [1 The system](#1-the-system) ·
[2 The modules](#2-the-modules) · [3 The runs](#3-the-runs) ·
[4 Fairness](#4-fairness) · [5 The proofs](#5-the-proofs) ·
[6 Findings](#6-findings) · [7 What is not modelled](#7-what-is-not-modelled) ·
[8 Plan](#8-plan)

## 1 The system

The repository is a monorepo (`src/packages/`). Paths below are relative to it.
Two programs share most of the code. The *agent* (`agent`, `consistency`,
`hashline`, `context`, `llm`) executes a task: plan, sample, verify, apply,
review. The *engine* (`engine`, `core`) is a session server in the Effect
library: prompts, shell commands, tools, permissions, events.

### Parts that decide whether the user's files survive

**Sampler** (`consistency/src/sampler.ts`). State: a batch of candidates with
verdicts, the originals of the target files in memory, retry and repair
counters. One call generates a batch and, for each candidate, saves the target
files, writes the candidate's blocks over them, runs the pipeline on the
project, and restores the files; it repairs failing candidates against their
errors, resamples with an error prompt, escalates to a stronger model, or gives
up with the best failing candidate. It calls the LLM runtime, the pipeline, the
grader, the voter and telemetry. *Hard:* a verification is a transaction without
isolation on real files; every step can fail; `Promise.all` rejects with the
first failed restore and leaves the others in flight; the process may die.
*Correct when:* the files are back afterwards, a verdict is about the candidate
it is filed under, a "passed" result was verified, the call ends.

**Build agent** (`agent/src/build-agent.ts`, `pre-step-check.ts`, `changes.ts`,
`working-memory.ts`). State: position in the plan, the check of the current
step, the module-global set of written files, a JSON file of completed steps.
For each step it may write an executable check and keep it only if it is red,
asks the sampler for a change, applies blocks or hashline patches, keeps or
removes the check, remembers the step. It is called by the orchestrator and the
sub-agents. *Hard:* any call may fail and ends the plan where it stands; what
is applied need not be what was verified; late writes of a failed verification.
*Correct when:* what lands is what was verified, everything written is tracked,
no failing check outlives its step.

**Hashline** (`hashline/src`). State: one process-wide map from path to
the content's tag and line fingerprints. Operations: format a file with a
tagged header, parse a patch, preflight it (tag, fingerprints, ranges), apply
its operations from the bottom up, record the result. The engine's read and
edit tools and the build agent are its clients. *Hard:* arithmetic of shifting
line numbers; reads, tags, permission requests and writes of several sessions
interleave; the store is updated before the file. *Correct when:* a patch
means what its numbers say, is applied only to what its author saw, and is not
refused as stale for what other edits have left behind once the file was read again.

**Session runner** (`engine/src/effect/runner.ts`,
`engine/src/session/run-state.ts`, `status.ts`). State: a registry from session
to runner; a runner is idle, running the loop, running a shell command, or
running one with a prompt queued behind it. Operations: ensureRunning (start,
join or queue), startShell (start or refuse), cancel. Called by the
session's prompt handlers. *Hard:* a cancellation frees the runner before what
it interrupted is gone, so new work overlaps with the end of the old; a queued
run must be answered though it never ran. *Correct when:* a runner never takes
the end of old work for the end of new work, nobody waits forever for cancelled
work, a session has one worker.

**File locks** (`core/src/util/flock.ts`, `effect-flock.ts`). State: on the disk, a
lock directory with a heartbeat and the owner's token, and a breaker directory.
Operations: acquire (try, judge stale, break, make anew, retry, time out),
heartbeat, release. Several processes, each of which may die. *Hard:* every
file operation is a step; staleness is judged by age, file by file, and acted on later.
*Correct when:* one holder at a time, his directory is his, a dead holder
keeps nobody out.

**Permission and question** (`engine/src/permission/index.ts`,
`engine/src/question/index.ts`). State: pending requests in the order in which
they were made, each with a Deferred, and approved rules. Operations: ask,
reply, reject, dispose. Called by tools (ask) and clients (reply). *Hard:* a
reply cascades over the map and is suspended at each event it publishes.
*Correct when:* an answer has a cause, nobody is lost, a cascade is complete.

**Background jobs** (`engine/src/background/job.ts`, `tool/task.ts`,
`session/run-state.ts`). State: a table from a child session to its job.
Operations: start, finish, wait, cancel; the cancellation of a session with all
jobs below it. *Hard:* an identifier is used again while who cancelled its last
bearer still waits. *Correct when:* an end belongs to the job that ended, a
cancellation leaves none of the jobs it listed, those who wait are told.

**Orchestrator and ACP agent** (`agent/src/orchestrator.ts`, `changes.ts`,
`working-memory.ts`, `acp/src/agent.ts`). State: the process's working directory,
the tracker of written files, a file of working memory; sessions with a
directory and a mark of cancellation. Operations: prompt, cancel; set the goal,
classify, work, take the tracker, verify, fix, review, report. *Hard:* prompts of
several sessions share the directory and the tracker. *Correct when:* a session's
work happens in its directory, and a task reports its own writes.

**Session processor** (`engine/src/session/processor.ts`, `tools.ts`, `retry.ts`).
State: one assistant message: its texts, the status of its tool calls, how it
ended; the table of calls that are not settled. Operations: handle an event of
the stream, retry, halt, clean up; the tools' own reports. Called by the loop.
*Hard:* tools run beside the stream and return when it has been cut; a retry, an
overflow, a denial and an interruption compete for the step's end. *Correct when:*
each call has one life, work that was done is recorded, the message ends and says
why, a denial is not overlooked.

**Session loop** (`engine/src/session/prompt.ts`, `compaction.ts`,
`message-v2.ts`, `tool/task.ts`). State: the session's messages, ordered by
identifier; its status. Operations: prompt, one turn of the loop, request and do a
compaction, put a background task's result in, resume. *Hard:* messages arrive
while the loop works and it decides by comparing identifiers; who comes while it
runs joins it. *Correct when:* no message is taken for answered that nobody read,
and what was put in is read in the end.

### Parts around them

| part | state | operations | hard, and correct when |
|---|---|---|---|
| plan, review and sub-agents | none that lasts | a model call, a parse, a fallback | a plan is always produced |
| tool loop | transcript, iteration count | model turn, tool call, permission prompt | bounded; each call answered once |
| verification pipeline | none | stages in order with weights and timeouts | a timed-out stage's tools go on running; a stage passes only if its tool ran |
| grader, feedback, model capability | recorded samples | score, tune | tuned budgets stay in range |
| instances | per-directory state | create, share, dispose | finalizers run once, nobody is left pending |
| session revert and summaries | git snapshots | revert, unrevert, diff | refused while the session is busy |
| MCP, LSP, PTY | external processes | connect, call, dispose | mostly protocol libraries |
| storage, snapshot, worktree | database, git | read, write, track, restore | transactions of the database and git |
| context, LLM runtime, catalog, plugins | caches | retrieve, route | rebuilt on demand |
| TUI, MCP server, SDK, Python bridge, Copilot provider | presentation | front ends | no state of interest here |

### How the modelled parts meet

```
 Tasks: sessions' prompts, each a task of the orchestrator
     |  executePlan (any writes, each recorded; any failure)
     v
 BuildPlan  --sample()-->  Sampler  --pipeline-->  (verdict: free choice)
     |  applyChange            |  implements Sampling
     |                         \__ writes over and restores the same files
     v
 HashlineEdit --preflight, store--  PatchOps (what the operations do)
     ^                                        Flock  implements  Lock
     |  read and edit tools                   (between processes, on its own)
 RunState: loops and shell commands of a session
     |  one loop at a time
     v
 PromptLoop: messages and what to do next <--result of a background task--+
     |  one step, whose ways to end are StepDone, StepFull, ...            |
     v                                                                     |
 Processor: a stream, its tools, one message   implements  ToolParts       |
     |  a tool asks and waits             |  the task tool starts a job    |
     v                                    v                                |
 Pending: permissions, questions,       Jobs: the table, its fibers, ------+
          their replies, cascades             cancellation of a tree
```

`BuildPlan` takes the sampler by the contract `Sampling`, which `Sampler` implements:
a passing answer was judged on the project with its blocks over it and the files are
restored (`Sampling!Pass`, `SamplePasses`); a call that gives up or fails (`Stop`,
`SampleGivesUp` and `SampleFails`) may leave a file unrestored, or a restore in flight
(`Settle`, `LateRestore`). A call that dies takes the plan with it, and a restore that
is rejected late is one that never comes. That the plan's three actions are the
contract's, with every change called a "candidate", is read and not proved: the
contract is one call's, the plan has one in each step.
`HashlineEdit` abstracts what a patch does to the text; `PatchOps` is that part.
`PromptLoop` takes a step by `Processor`'s results ("continue", "compact", "stop",
interrupted) and the finish and error it leaves in the message.
`Tasks` takes a plan by what `BuildPlan`'s `ChangesAreReported` says: each write is
recorded after it, and the plan may fail in between. `Jobs` models the part of `SessionRunState.cancel` that comes before what
`RunState` models, and sees of a loop only whether it runs and for whom.

## 2 The modules

### Sampling and Sampler
One action per suspension of `sample`, `verifyCandidate`, `repairCandidate` and
`attemptEscalation`: `Save`, `OpenBlock(f)`, `WriteBlock(f)`, `ThrowInTry`, `RunPipeline`,
`OpenOriginal(f)`, `RestoreFile(f)`, `RestoreFails(f)`, `Straggler(f)` (a restore nobody
waits for),
`JudgeVerified`, `Repair`, `JudgeRepaired`, `RepairDone`, `SelectBest`,
`Resample`, `Exhausted`, `Escalate`, `EscalationPasses`, `EscalationFails`, `Die`
(a rejection nobody catches) and `Crash`. `disk` is the project, `start` its
content at the call, `saved` the originals, `seen[i]` the disk on which verdict
`i` was given. `writeFile` empties a file before it fills it: a write is opened and
then done, the files in `writing` are `Torn`, and so is a file whose write was
rejected in between or was under way when the process died. A change is an element of `Changes`; `Touches` gives the files it
has a block for, which stands for block extraction and matching. Verdicts and
scores are free choices. `telemetry` is what `Telemetry.record` was handed; it
never raises a failed append.

`Sampling` is the contract of a call with a caller who waits for it. He sees
nothing of the project until the call is over; then a change that comes back as
passing (`Pass`) is one the pipeline passed on the project with that change alone
(`Verify`), and his files are as they were. Any other end (`Stop`) may leave files
behind, lost or with a restore still `flying`, but none in flight unless another was
rejected, and all with their part of one and the same change or torn by a write that did
not end. `Open` and `Settle` are such a restore. `Crash` leaves any of them with its part
of one change, or torn. `KeepsItsContract`
is the refinement: `project` is `start` until the call is over and the disk after
that; `passing` is what the slots with a pass hold, which only ever grows.

### BuildPlan
`executePlan`, step by step: `BeginStep`, `OpenCheck`, `WriteCheck`, `CheckTorn`,
`CheckIsRed`, `CheckIsGreen`, `NoCheck`; `SamplePasses`, `SampleGivesUp`,
`SampleFails`, `LateOpen(f)`, `LateRestore(f)`; `OpenTarget(f)`, `ApplyTo(f)`, `Track(f)`,
`Applied`, `StepFails`; `SettleCheck`, `Remember`.
A target is opened, which empties it, filled, and recorded when the write has
returned (`build-agent.ts:366-367`); `writing` is the file between the first and the
last of these, and a plan may fail there: `ChangesAreReported` excepts that file and says
that a plan that is done has none.
A file's content says which step wrote it and in which form: a block, what a patch
made of it, the raw text of a patch, a check, an unrestored candidate, or `Torn`.
`verified` is what the pipeline saw for the accepted answer.

### PatchOps
`applyOps` on any patch of up to `MaxOps` operations: `Ops` are those preflight
lets through, `Precedes` the order of the stable sort, `Step(i)` one iteration
of the loop with the anchor echo (`Absorb`), splices (`Splice`, JavaScript's
clamping included) and report (`Reports`). `Meant` is the reference: the file
the operations describe when every number is one of the original. The text
format is abstracted to the operations it yields.

### HashlineEdit
Several agents, one file. The engine reads lines and tag separately
(`ReadLines`, `ReadTag`), takes the file's lock (`Open`), checks
(`Preflight`, `Stale`), gates (`GateRejects`), records in the store
(`ApplyPatch`), asks the user (`Declined`, or `Write` with the formatter). The
build agent reads once (`ReadOnce`), shows, tags and records at most 12 000 characters
(`Capped`: of a `Long` content the lines `Beyond` them are one `Cut`), takes no lock and
records the live file before it applies. `current` is a history variable: who has read
since a patch was last applied or the file written. `ExternalEdit` is anybody who takes no lock: an editor, a
shell command, the write tool. `engine`, chosen once, says which of the two
clients the process is. `Tag` may collide; the run and the theorem about tags
say where they assume it does not.

### RunState
One session. A call (`Callers`) is a prompt or a shell command and names the
work it brings; a runner is named by the call it was made for. Actions:
`StartRun`, `JoinRun`, `QueueRun`, `StartShell`, `ShellStarts`, `Busy`, `GetInLine`,
`GiveUp`, `Announce`, `ShellReady`, `CallerGone`, `FinishRun`, `FinishShell`, `HandOver`,
`IdleLands`, `NothingToCancel`, `Cancel`, `InterruptShell`, `CancelDone`,
`IdleIfCurrent`, `CancelLands`. Each is the section between two suspensions;
`SynchronizedRef.modify` makes the state changes of a runner atomic. Setting the
status publishes it first, which suspends: a runner that falls idle leaves the
registry at once (`FallIdle`) and its fiber, "idling", writes the status and answers
when it has published (`IdleLands`); so does a cancellation (`CancelLands`). A shell
command is announced as busy under the runner's lock: until it has started
(`ShellStarts`), its runner is idle and whoever wants it waits in line (`Claimed`).
The loop's own announcement is a write at any time (`Announce`). `overtaken` and
`late` are history variables: work has started while a cancellation still waited for
its fiber, or with a runner that the registry no longer has; a shell command has
started while an "idle" was being published.

### Lock and Flock
`Lock` is the promise: a set of `holders`, and `broken`, after which nothing is
promised. `Flock` has one step per file operation of `acquire` and `release`,
named after what it does (`Try`, `LookOn`, `Judge`, `Claim`, `Look`, `Unbreak`,
`Recheck`, `Unlink`, `Rmdir`, `Remake`, `Unclaim`, `WriteHeartbeat`, `WriteMeta`,
`Retry`, `GiveUp`, `Beat`, `Release`, `CheckToken`), and the environment: `Die`,
`GrowsOld`, `BreakerGrowsOld`. `rm` is an `Unlink` per file, in any order, and an
`Rmdir` that waits until nothing is left; `stale()` looks at the heartbeat, then at
meta.json, then at the directory (`stat`), by the time at which it began (`now`: what
was old then). Time is the age of each of the three, and of the breaker. A living
caller's heartbeat grows old only if he sleeps; his meta.json does in any case, and is
what is judged once a release has unlinked the heartbeat. `disturbed` says that who had
the breaker found a living caller's lock stale in one of these two ways, or that a
breaker has grown old: the code cannot tell these from a dead process, and
section 6 says what follows. What the removal of a dead caller's lock, a release cut by
a death, and checks that interleave with either do to the lock is not exempt.
The breaker is removed in one step, nothing being ever put into it, and meta.json is
written in one, nobody but its writer reading his token in it. `IsALock` is the refinement
(`INSTANCE Lock WITH holders <- Held, broken <- disturbed`).

### Pending
One instance. Calls of `ask` are numbered in the order of the map. `Ask` decides by
rules or puts the request into the map; `Reply` takes one out; `TellNext` and
`TellLast` are the sections of its walk between two published events; `Interrupt`
and `Cut` interrupt an asker and a replier; `Dispose` is the finalizer.
`reply[k]` holds how far call `k` has walked, as an iterator over a JavaScript map
does: a request added behind it is still met. A wildcard is the set of patterns
it matches. The rows of `PermissionTable` are absent, because nothing in the
repository writes them. A question is a request without rules and without walk.

### Jobs
A tree of sessions; a job's identifier is the child session's. `Start` is the task
tool, `End` and `Perish` the two ends of a job's fiber, `Finish` the update of the
table they share with `Awaited`. A cancellation (`CancelSession`) lists the running
jobs, goes on in batches (`NextBatch`), each of which looks jobs up (`Look`),
interrupts and awaits their fibers, and ends with `StopLoop`; it may be interrupted
itself (`Drop`). Fibers and Deferreds are kept for each generation of a job, which
the code's table does not: this is what `EndsAreTheirOwn` and `ListedJobsEnd`
compare. `overtaken` is a history variable. That a job fails is an end like its
completion; a wait's timeout only ends the wait.

### Tasks
`Prompt`, `Refuse`, `Cancel`, `Enter` and `Leave` are `handlePrompt` and
`handleCancel` of the ACP agent: `Enter` changes the directory, `Leave` changes it
back, whatever became of the task. Between them is `handle` of the
orchestrator: `MakeMemory`, `SetGoal`, `Chat`, `Begin` (the tracker is reset), `Root`
(a sub-agent takes the working directory for its root), `Write` and `Record`,
`Reproduce`, `Take` (the tracker is emptied into the report), `Settle` (verification,
review, their fix plans), `Report`, `Fail`. A file is its name; whether its path
is relative or begins with the root is a choice at each write. `top`, `under`,
`crossed`, `disturbed`, `mixed` and `strayed` are history variables: the order of
entering, whether somebody left out of order, who was not alone, who wrote elsewhere.

### ToolParts and Processor
`ToolParts` is what a message promises of its tool calls: one life each, over before
the message is. `Processor` is one step: the handler's events (`TextStart`, `TextEnd`,
`InputStart`, `Call`, `Allowed`, `Result`, `Error`, `StepFinish`, `Drained`), the other
ends of the stream (`TooLong`, `Fails`, `FailsForNow`, `Retry`, `Interrupt`,
`InterruptLate`), the clean-up (`CloseText`, `GraceOver`, `Sweep`, `Complete`) and the
tools (`Begin`, `Metadata`, `Return`, `Throw`). A tool begins when its call has come,
before or after the handler's event; its abort signal is that of its attempt
(`Aborted`). `shouldBreak`, from the configuration, is chosen at the start.
`Life == INSTANCE ToolParts WITH closed <- pc = "over"` is the refinement. `returned`
is a history variable: the moment at which a tool returned.

### PromptLoop
The log is a function from identifiers. `Make` takes an identifier and `Log` puts the
message in; `Run` is ensureRunning, `Poll` the waiting of a background task's result
for an idle session. A turn of the loop is `Head` (which reads the log and may end the
loop), then one of `NoRoom`, `BeginCompaction`, `Begin`. The model may `Finish`: from then
on the message says so, and it keeps saying so whatever follows. The step or compaction
ends by `StepDone`, `StepFull`, `StepDenied`, `Halt` and `Halted`, `Compacted` or
`TooLong`; `Stop` cancels; an error stands beside the finish. `IdleLands` is the "idle" of
a loop that is over, which is published before it is written. `Visible`, `LastUser`,
`LastAssistant`, `LastFinished` and `Tasks` are `filterCompacted` and `latest`.

The history variables: `read`, what a step, or a compaction to its end, has read; `cut`,
what waited when a loop was stopped; `passed`, what was unread when one ended by itself;
`missed`, what came into the log after the loop had read it, with an identifier below
that of what the loop then began; `spoilt`, what a summary was to cover that failed after
it had finished. `NobodyIsPassedOver` allows for the last two only, and TLC finds a
violation if either is taken away: the code passes those over (section 6).

## 3 The runs

"Holds" runs finish without error; each of their properties is broken by the
mutated definition that stands before the original in its module
(`PROJECT.json`, "mutants"). The "violated" run checks one property, a sentence of
the repository that the code does not keep (section 6).

| run | module | states | what it shows |
|---|---|---|---|
| `sampler` | MCSampler | 70 k | holds: project restored, verdicts of the right candidate, honest result and telemetry, every call settles, the contract with the caller is kept |
| `build_plan` | MCBuildPlan | 484 k | holds: checks on the disk are the reported ones, changes are tracked on every exit, but for a file in the middle of its write, blocks land as verified, a reported check stays |
| `patch_ops` | MCPatchOps | 449 k | holds: operations on different lines come out as meant, whatever their order |
| `hashline_edit` | MCHashlineEdit | 329 k | holds: the lock keeps updates; the build agent applies to what was shown; reading again makes up for what was left in the store |
| `run_state` | MCRunState | 1 381 k | holds: runners keep their work, nobody is forgotten, work is registered and one at a time unless a cancellation was overtaken, status is honest but for a command that starts while an idle is being published, cancelled work is answered |
| `flock` | MCFlock | 646 k | holds: the directories implement a lock, releases are not refused, every call ends |
| `pending` | MCPending | 783 k | holds: answers have a cause, nobody is forgotten, cascades are complete, an answer that was given arrives |
| `jobs` | MCJobs | 724 k | holds: what is called running runs, ends are their own generation's, a cancellation has ended what it listed, those who wait are told |
| `tasks` | MCTasks | 1 734 k | holds: who is undisturbed works in his directory, leaving in order restores it, a task alone with the tracker reports its own writes |
| `tasks_stray` | MCTasks | | violated: a session's work happens in its directory |
| `processor` | MCProcessor | 1 825 k | holds: tool parts implement their one life, work returned after a cut is kept, denials are noticed, ends are explained and texts ended |
| `prompt_loop` | MCPromptLoop | 9 616 k | holds: nobody unread is passed over but whom the loop missed and those of a summary that failed after it had finished, a task's result stays somebody's business |

Most type invariants are proved (section 5) and not run, and so is
`MutualExclusion` of `Flock`, which `IsALock` contains.

**Bounds.** *Sampler:* two files, so that a block write, a restore or a
rejection can fall between two others; two changes, one touching both files and
one only the first, so that a leftover of the one shows under the other; two
candidates, one retry, and a repair budget the tuning may raise from one to
two; escalation on. A third candidate or retry repeats the loop from a
state that `ProjectRestored` says is the same. *BuildPlan:* two steps, because
every hazard is of a step with its predecessor (a file changed twice, a late
restore from an earlier step, a reported check); the first targets both files.
*PatchOps:* three lines and up to three operations, with empty, longer and
echoing bodies: every relative position of two operations and a third between
them. *HashlineEdit:* two agents, a file of two lines with two texts (so that a
replaced line and an untouched line are told apart), two of the four contents too long
to be shown, one outside edit, a formatter that changes one content. The agents are symmetric. *RunState:* three calls
(one works, one is queued or joins, one overtakes) and two cancellations (one
may come while the other waits). *Flock:* three processes (a dead owner, a breaker
and one who comes between them), two deaths (owner and breaker), one nap.
*Pending:* three requests of two sessions with two patterns and two replies: a
reply's target, another that goes along, and one that must not or that arrives
during the walk; the two replies may walk at once. *Jobs:* a root, a task and a task of
the task, the first started twice (a generation after the other), two
cancellations at different levels of the tree, of which one may be interrupted.
*Tasks:* two sessions in two directories, one that the process was started in,
and four prompts, so that each session has a later one that meets what an earlier
one left; one file, which tells "nothing" from "something" written. *Processor:* two
calls and two attempts: the calls are of one attempt or of two, and the second attempt
meets what the first one left; `DoomThreshold` is two instead of three, so that two
calls reach it. *PromptLoop:* seven messages are a prompt, its step, a request for
compaction, a summary, the message that goes on, and two that come between any of
these; two prompts (one starts the loop, the other joins it, is late or finds it
stopped) and one result of a task; one cancellation. The prompts are symmetric.

**Deadlock** is not checked: a sampling call, a plan, a patch and a number of
prompts come to an end, a lock's callers are done or dead, an idle session with
all its calls made rests, a completed message stays, nobody has to prompt or to
reply to a request. That nobody is
stuck before that is what `Settles`, `NobodyIsForgotten`, `CancelledIsAnswered`,
`EveryCallEnds`, `EveryAnswerArrives` and `CancelledAreTold` say.

## 4 Fairness

`Sampler!FairSpec` is weak fairness of `Step` as a whole: the JavaScript runtime
continues a call whose awaited operation has settled. File operations and model
calls settle, with success or failure: the stages have timeouts, and so has a
model call (`llm/src/llm.ts:53`) unless its configuration switches it off. Nothing makes `Crash` happen. No single outcome is fair, so `Settles`
rests on the counters (retries, repair attempts) and not on luck.

`RunState!FairSpec` is weak fairness, for each work, of winding down once it was
interrupted (Effect runs an interrupted fiber's finalizers), of a shell
command's start (its announcement returns, and the readiness latch is opened by an
`ensuring`) and of what follows a published "idle", and, for each
cancellation, of its next step: the bus only hands events to queues, so that
publishing returns. Nothing makes a loop or a shell command end that
nobody interrupts; they may run forever, and no property says otherwise.

`Flock!FairSpec` is weak fairness of each living caller's next file operation,
giving a lock back included (the callers' work under a lock is a file update, and
`await using` releases it), and of the ageing of what a dead caller left. Nothing
makes a process die or a lock time out.

`Pending!FairSpec` is weak fairness of each reply's walk, as long as its fiber is
not interrupted; nothing makes a user reply.

`Jobs!FairSpec` is weak fairness of cancellations (some step of some
cancellation) and of the end of interrupted fibers. Each has finitely much to do,
so that it does not matter in which order. Nothing makes a task's loop end.

The other modules state safety only.

## 5 The proofs

All theorems hold for every value of the constants that satisfies the
module's named assumptions (sizes are natural numbers, null values differ from
values). Each proof follows the same line: an inductive invariant `IInv` that
strengthens the properties, one step per action, then `PTL`.

| module | theorems | the strengthening and why it is needed |
|---|---|---|
| SamplerProofs | `TypeCorrect`, `RestoresProject`, `VerdictsAreClean`, `ResultsAreHonest`, `ImplementsContract`, `CallsDescend` | `SavedIsStart`: what is in memory is the project. `Applying`: mid-write, the disk is the project with the blocks written so far and the file being written torn. `Restoring`: files already written back are clean. `HasCandidates`: the slot at work holds one. Without them nothing relates a half-written disk to the start. `EscalatedLast`: an escalation comes after the retries, when nothing passed; `RecordedSoFar`: the telemetry has one entry for each round that is over. For the contract, `NotYetPassed`: a slot about to be judged holds no pass, nor any slot after it in the first round, nor any slot when a batch begins, so that no pass is ever taken back; `PartlyRestored`: a file not restored yet holds its old content, the candidate's block or what a write left that has not ended; `LeftInFlight`: a restore in flight is not one that was rejected. `ImplementsContract` maps each step to a step of `Sampling` or a stutter. `CallsDescend`: the repairs of a slot are bounded (`AttemptsAreBounded`), as retries, slots and files are by their types, and each step that is not the process's death goes down in the order of retries, phases of a round, slots, repairs, points of a verification and steps of its writes. |
| BuildPlanProofs | of BuildPlan: `TypeCorrect`, `ReportIsComplete`, `VerifiedLands`, `ChecksReported`, `ChecksStay`; of Tasks (`Task`): `TasksTypeCorrect`, `DirectoriesKept`, `OwnWorkReported` | `Landing`: mid-apply, written files are as verified and the others will be. `OpenedExists`: a file being written is there when it comes to be recorded. `LateIsDisturbed`: a restore in flight is known. `Owned`: reported checks exist and belong to steps that are over. `ChecksReported` and `ChecksStay` assume `DistinctPaths`: no two steps share a check path. Of tasks: `UndisturbedAreHome`: who is undisturbed is in his directory and has no other root. `Stacked`: as long as nobody left out of order, those who are in form a stack, each with the one he entered upon below him and that one's directory to return to. `TrackerIsOwn`: who is alone with the tracker has in it what he wrote, but for the file just written. `OutsidersAreBlank`: a new prompt starts from nothing. |
| HashlineProofs | of HashlineEdit: `TypeCorrect`, `LockedEditsLoseNothing`, `StalePatchesAreRejected`, `RereadersAreHeard`; of PatchOps (`Patch`): `PatchTypeCorrect`, `NumbersAreStable`, `PatchesDoWhatTheyMean` | with the lock, only its holder writes; an injective tag that matches was computed from what was shown, and the tag of a capped text is no content's. `CurrentAreRefreshed`: who has read again has the tag of what is there, and the engine's store has its fingerprints. `LinesAreThere`: the array is at least as long as what remaining operations speak of; the prefix up to them is the original's, and `ApplyKeeps` says what one operation leaves alone. `LinesAreMeant`: where everything done is below line k and everything else is not, the file is the first k original lines followed by what the patch means for the lines after k (`Between`, `LinesMean`), and the insertions at the ends, which come last, are put around that. `DoneFirst`: the sort makes it so. The meaning concatenates over all lines by a recursive function; that this function exists and what it gives for each prefix (`Unfolding`, `Flattened`) follows from the well-foundedness of the numbers, and a line nothing speaks of means itself (`StayThere`). Any file, any number of operations. |
| RunStateProofs | `TypeCorrect`, `RunnersAreTruthful`, `NobodyForgotten`, `OneWorker`, `HonestStatus`, `CancellationsComeToAnEnd` | `HandlesAreTrue` (what a runner names is its own live work), `WorkIsHeld`, `EndIsTold`, `CallsLeaveTraces`, `StopsAreReal` and `CondemnedIsReleased` (what a cancellation took, no runner holds). The last is what keeps a late end of old work from touching new work. `StoppingIsHeld`: work that winds down is still its runner's, or in a cancellation's hands. `OneAtATime`: unless a cancellation was overtaken, the registered runner is the only one that is not idle, and none is not while a cancellation waits. `ClaimsAreAlone`: a runner whose lock a shell command holds is idle, and one command holds it. `NoIdleIsLate`: unless one was late, no "idle" is on its way while a shell command runs. For the end of cancellations, `UnendedIsOpen`: only work that has ended is answered for, and `WorkIsAsked`: whatever winds down has a handler that ends it. |
| FlockProofs | `TypeCorrect`, `Implements`, `OneHolder`, `ReleasesSucceed` | `OwnersMadeIt`: an owner's directory is his, with exactly what he has written. `RemovalIsOfTheDead`: who breaks removes, file by file, only what a dead caller left, so no owner is beside him. `BreakersAreOwn`: the breaker is that of the one who breaks. `MakersHaveCalled`, `RemakersHaveNotMade`: bookkeeping of who may appear as what. `Implements` maps each step to a step of `Lock` or a stutter. |
| PendingProofs | `TypeCorrect`, `NobodyForgotten`, `AnswersCaused`, `CascadesComplete` | `RepliesAreSound`: a reply that was found has in its hands what is out of the map, and a walk that has not begun is at the start. `NothingDeniedWaits`, `CascadesHaveCause`: what is in the map, or in a reply's hands, may be granted, and is there for a reason. `GivenIsApproved`: a reply's rules are in force before its walk goes on. `WalksAreThorough`: a rejecting walk has left nothing of its session behind it. The module assumes that questions have no patterns, which they have not. |
| JobsProofs | `TypeCorrect`, `RunningJobsAreAlive`, `OwnEnds`, `ListedJobsHaveEnded`, `CondemnedAreSeenTo` | `GenerationsFollow`: earlier generations have been told, later ones have no trace, so that the table's one entry is the last one's. `CondemnedIsAwaited`: an interrupted fiber of a running job has somebody who waits for it, or did until he was interrupted. `HuntsAreCurrent`: who waits for a fiber that nobody overtook waits for the last one. `HuntsAreTracked`: what a cancellation is done with it knows, and has ended as far as listed. The action property adds that the jobs known to a cancellation with no batch left are closed under listed parents. For those who wait, `WaitedIsCondemned`: the fiber a cancellation waits for has been interrupted, and `DropsAreCounted`: a cancellation that was interrupted is known. |
| ProcessorProofs | of Processor: `TypeCorrect`, `WorkKept`, `DenialsNoticed`, `MessagesAreWhole`, `PartsLive`; of PromptLoop (`Loop`): `LoopTypeCorrect`, `NobodyPassed`, `ResultsCaredFor` | `PartsFollow`: a part is where the events of its call took it, or further, and is not settled before its last event while its stream is open. `ContextIsTrue`: until the clean-up is through with a call, the context knows it exactly while its part is unsettled; after that its part is settled. `ToolsAreDone`: only a tool that is done settles its part earlier. `RefusalsCount`, `EndIsSaid`: refusals are remembered, and from the cut on the message says how it ended. `PartsLive` maps each step to a step of `ToolParts` or a stutter. Of the loop, where a message is covered when every user message below it was read, missed or spoilt: `AnswersHaveRead`: a step's message is covered, and so is a summary that the model had finished when it was over, with success or not. `CompactionKnows`: what a summary under way will cover has been seen. `ParentsComeBefore`: a message answers one below it, so that what `filterCompacted` hides lies below a covered summary (`HiddenAreRead`). `ReadAreDone`: what was read or passed over lies below a covered message. `Remembered`: an unread message is before a running loop, was left behind by one, or is still a caller's. `GoneHasNewer`: who gave up did so for a newer message. The loop goes by the last identifiers of sets of messages; that these exist and are the greatest (`Greatest`, `LastOf`) follows from the well-foundedness of the numbers. |

Assumptions that are part of a statement, not of a module: `DistinctPaths`
(BuildPlan), `Separate` (inside `NumbersStayValid` and `AppliedAsMeant`),
injective tags (`StalePatchesAreRejected`), no writer outside the lock
(`external = 0` inside `LockKeepsUpdates`), no living caller's lock found stale
under the breaker and no breaker grown old (`disturbed`, in Flock).

Tasks, PatchOps and PromptLoop are proved about as instances (`Task`, `Patch`, `Loop`)
with constants and variables of their own; their assumptions are hypotheses of each
theorem.

**Only model-checked.** Liveness (`Settles`, `CancelledIsAnswered`, `EveryCallEnds`,
`EveryAnswerArrives`, `CancelledAreTold`) is beyond the prover, which knows neither
fairness nor ENABLED. What three of them rest on is proved as safety and stated
without ENABLED. `CallsDescend`, for `Settles`: every step of a call descends in a
well-founded order. `CancellationsComeToAnEnd`, for `CancelledIsAnswered`, and
`CondemnedAreSeenTo`, for `CancelledAreTold`: who waits for what is being cancelled has
been told, or somebody has a step to take towards it, and no step takes anything back.
That such a step is then taken, and that finitely many of them suffice, is the part
left to TLC. Every safety property and action property that a passing run checks is
proved.

## 6 Findings

The run `tasks_stray` prints a counterexample: `process.chdir` is of the process, and
prompts of two sessions overlap, so that work lands in the other session's directory,
against `acp/src/agent.ts:87-89`. The MCP server avoids this and says why
(`mcp-server/src/tools/build.ts:9-16`).

Seen while modelling; the models do the same, and no run is spent on them:

- The edit tool writes, after the user's answer, over whatever writers without the
  lock have done since it read the file (`edit.ts:144`): `NoLostUpdate` of
  `HashlineEdit` need not hold once `external` is not 0.
- Cancelling a background job interrupts the fiber that waits for the child
  session's loop, not the loop: the task works on while its status says "Task was
  cancelled." (`task_status.ts:70`). A foreground task's interruption does cancel
  the child (`task.ts:327`).
- A step in which a call was denied and whose context is full ends as "compact"
  (`processor.ts:846`), and the loop goes on, though to "continue the agent loop when a
  tool call is denied" is an option that is off (`config.ts:300`).
- `halt` calls the session idle (`processor.ts:778`) while the failing loop still cleans
  up: a background task's result that polls then joins that loop, which ends without
  reading it, after the user was told "Resuming the main thread." (`task.ts:230`).
  A started loop also ends at once if the result's identifier lies below an answer's.
- The loop reads the log (`prompt.ts:1252`), and only later takes the identifier of its
  step (`:1333`). A prompt that is logged in between has a lower one, and the exit goes by
  identifiers (`:1272`): when the step has answered what it read, the prompt counts as
  answered, though nobody read it, and waits until somebody prompts again. The same
  befalls a message whose identifier was taken earlier and that is logged later.
- A message keeps the finish that was stored with it (`processor.ts:577,590`) when its
  step fails or is cancelled after that (`:773`), and a summary that is too long is given
  one (`compaction.ts:466`). For a summary that means: the next loop ends at once, since
  its last message has a finish (`prompt.ts:1268-1273`), while `filterCompacted` does not
  count it, since it has an error (`message-v2.ts:1035`). The prompts it was to make room
  for wait until somebody prompts again.
- A status is published before it is written (`status.ts:77-86`), and a runner leaves the
  registry before its "idle" is published (`run-state.ts:60`): when the next prompt's
  runner starts a shell command meanwhile, the older "idle" is written after the
  command's "busy", and the session is shown as idle while the command runs.
- The sampler verifies a hashline answer by writing the patch *text* into the
  file; what is then applied was never verified (`STATE.md:50` knows).
- A write of the plan that is rejected after it has emptied its file leaves a changed
  file that `recordWrite` never hears of (`build-agent.ts:366-367`), though the tracker
  is "the source of truth for 'were changes produced'" (`changes.ts:1-2`). A check whose
  write is rejected so stays in the project, and the step goes on without it.
- A step that fails between the creation of a check and the lines that settle it
  leaves a failing test in the project, against the comment at `build-agent.ts:179`.
- The build agent tags a file of more than 12 000 characters by what it shows of it
  (`build-agent.ts:267-271`), so that every patch to it is called stale, "File changed
  since last read", although it did not; `hashline/test/adversarial.test.ts:473-491`
  asserts that such a patch is accepted.
- Operations of a patch at one line: "insert before N" with "replace N..N" loses
  the insertion (`hashline/test/adversarial.test.ts` records it). The changed-line
  numbers reported are those of an intermediate array.
- The read tool takes lines and tag from two reads; a declined edit leaves its
  result in the snapshot store, and the next valid patch is called stale.
- A lock held for longer than staleMs can be broken while it is being released. The
  release unlinks file by file (`flock.ts:264`); with the heartbeat gone, `stale` judges
  meta.json (`flock.ts:136`), which is as old as the lock. A caller who looks just then
  removes the lock beside its holder, and each of the two removals can take a third
  caller's fresh lock with it, against "Token check prevents deleting a lock that was
  re-acquired by another process" (`flock.ts:259`). No death and no sleep is needed.
- A lock's breaker is judged old and removed without a second look
  (`flock.ts:172`); it can be somebody's new one.
- "Always" releases the waiting requests of its own session only, though the
  rule holds for all (`permission/index.ts:256`).
- A reply that is interrupted while it publishes leaves its asker waiting where no
  other reply finds him; an asker interrupted while he publishes stays in the list.
- A job started anew while a cancellation waits for its last fiber is marked as
  cancelled and runs on (`job.ts:190`); a task started after a cancellation listed
  the jobs survives it (`run-state.ts:119`).
- A session that was cancelled once answers "cancelled" to every later prompt,
  whose work is done nevertheless (`acp/src/agent.ts:98`).
- Files that fix plans write (`orchestrator.ts:142`), and the test that
  `sub-agents/bugfix.ts:53` writes, are not reported, though the comments at
  `orchestrator.ts:82` and `build-agent.ts:175` take it that they are.
- The working memory's directory is made in the current directory, its file
  written where the process was started (`working-memory.ts:22,36`): a prompt in
  another directory fails at its first step unless that one was prepared.
- The index of the project is made once per process (`orchestrator.ts:90`), for the
  directory of the first task.
- A tool's result that is on its way when the stream is cut is lost, and its call
  marked as aborted, though the work was done; so is that of a tool that returns
  after the cut, before the event of its call was handled (`processor.ts:179,730`).
- An interruption in the delay before a retry is not recorded in the message
  (`processor.ts:799`); text that a failed attempt left open is not ended (`:788`).
- To refuse to go on with equal calls is an error, and ends the loop whatever
  `continue_loop_on_deny` says (`processor.ts:442`).
- A compaction is filed under the last prompt, not under its request
  (`prompt.ts:1298`): with a prompt in between, its summary hides nothing.
- Who prompted and joined a loop that is stopped is told the loop's last message,
  which answers somebody else.

Kept out of the properties by a named condition: two step descriptions with the
same forty-character slug share a check path (`DistinctPaths`); sixteen-bit tags
can collide, and since the build agent records the live file just before it
applies, its fingerprints cannot notice (injective tags); a process killed during
a verification leaves the candidate in the files (`Crash`, of which
`ProjectRestored` says nothing); the end of an overtaken cancellation can remove
the registry entry of a newer runner, or end a newer job (`overtaken`); an "idle" that
is being published when a shell command starts (`RunState`'s `late`); messages that
the loop missed, or whose summary failed after it had finished, wait for the next prompt
(`PromptLoop`'s `missed` and `spoilt`).

## 7 What is not modelled

`PROJECT.json` lists every part with its reason. In the modelled parts: prompts,
wording, timestamps and scores; directories that are created on the way; the
lexical form of patches and code blocks; the edit tool's search-and-replace
form; the contents of the working memory, and lost updates of it by tasks that
overlap; the ACP agent's histories; of the session's steps, reasoning (which goes the
way of texts), snapshots, calls that the provider executes, subtasks, structured output,
the tail that a compaction retains, a compaction that the user asks for, a plugin that
keeps the loop from going on after one, and identifiers that a client supplies;
retries and reporting of `effect-flock.ts`; the verification stages, which appear as a
verdict. A stage that times out leaves its
tools running: they are not actors of `Sampler` yet, and the hazard is listed as
open.

Of the repository's lines the map covers little. Most of them are generated
(the SDK), adapted from other projects (the Copilot provider), presentation
(the TUI), tables of models and of language servers, or prompts; and what
remains of the engine's logic (providers, protocol adapters, configuration) has no
state that outlives a call.

## 8 Plan

Done: the modules above with their runs, and proofs about all of them.

Next, in this order:

1. **Stages**: the pipeline's order, weights and timeouts with lingering tools,
   as actors on `Sampler`'s disk.
2. **Instances**: loading and disposal of per-directory state. Today nothing in
   the repository reloads or disposes of one but the end of the process.
