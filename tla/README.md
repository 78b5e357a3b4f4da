# FABULA engine: verification project

TLA+ models of the part of FABULA that decides what a session does next: who may
run, who waits, when the loop calls the model again and when a turn is over, and of
the parts that work beside it: subagents, their mail, checkpoint writers, permission
asks, workflow runs and the gate in front of the model server.
Each module is translated from the TypeScript under `src/engine/packages/opencode/src`
(paths below are relative to that directory unless they start with another one).
`PROJECT.json` maps every definition to the lines it stands for and lists the
runs, the mutants, the findings, the hazards and the theorems.

- [1. The system](#1-the-system)
- [2. The modules](#2-the-modules)
- [3. The runs](#3-the-runs)
- [4. What is proved](#4-what-is-proved)
- [5. Where the code and its words disagree](#5-where-the-code-and-its-words-disagree)
- [6. What is not modelled](#6-what-is-not-modelled)
- [7. What is left](#7-what-is-left)

## 1. The system

FABULA is an agent harness around a language model: an engine (a server written in
TypeScript over the Effect library), plugins loaded into it, a Python adapter in front
of a local model server, and desktop shells. A *session* is a conversation in a
database. Its *main agent* answers the user; *subagents* share the session id and
have slices of the transcript of their own.

### Parts, their state and how they interact

| Part | State it keeps | Operations | Talks to |
|---|---|---|---|
| Runner (`effect/runner.ts`) | one `State` in a `SynchronizedRef`: Idle, Running, Shell, ShellThenRun; a fiber and a Deferred per run | `ensureRunning`, `startShell`, `cancel`, the fibers' `onExit` | its callers, `onIdle`/`onBusy` of run state |
| Run state, status (`session/run-state.ts`, `status.ts`) | map (session, agent) -> Runner; busy/idle per session, in memory | `ensureRunning`, `startShell`, `cancel`, `cancelActor`, `assertNotBusy` | Runner below; prompt, routes, actors above |
| Turn loop (`session/prompt.ts` `runLoop`) | about 14 local counters; reads the transcript | `prompt`, `loop`, `command`, one iteration at a time | processor, inbox, goal, task gate, checkpoint, compaction |
| Classifier and gates (`session/classify.ts`, `invalid-output.ts`, `verify-gate.ts`, `task/gate.ts`, `goal.ts`) | the goal and its `react` per session, the task gate's counter per session, both in memory | pure decisions; `set`, `bumpReact`, `clear`, `evaluate` (asks a judge model) | turn loop |
| Checkpoints and context boundaries (`session/checkpoint.ts`, `prune.ts`, `compaction.ts`) | marker messages, `checkpoint.md`, a writer slot per session, a watermark | `fireCheckpoints`, `create`, `process`, `insertRebuildBoundary`, `tryStartCheckpointWriter`, `waitForWriter`, `drainWriters` | turn loop, actors (the writer is a subagent) |
| Actors (`actor/`) | a row per actor (pending, running, idle; outcome), forked work fibers | `spawn`, `runTurn`, `cancel` with cascade, `waitFor`, orphan recovery at start | prompt (as source `spawn`), run state, inbox |
| Inbox (`inbox/`) | durable rows per receiver | `send` (row, event, wake-up through `loop`), `drain` | turn loop, actors |
| Task registry (`task/registry.ts`) | a row per task with status and clean-up time | `create`, `start`, `block`, `unblock`, `done`, `abandon` | tools, task gate |
| Permission, question (`permission/`, `question/`) | a Deferred per pending ask, rules approved so far | `ask`, `reply`, `reject`, disposal | tools, HTTP |
| Workflow runtime (`workflow/`) | a row and an entry per run, an agent pool, a journal and a script file | `start`, `agent`, `cancel`, `resume` | actors |
| Sync events, storage (`sync/`, `storage/`) | events numbered per aggregate, projections | `run`, `replay`, `replayAll` | everything persistent |
| Admission gate (`src/proxy/adapter_util.py`) | slots in use, a priority queue of waiting threads | `acquire`, `release` | threads of the adapter |

The remaining parts (message processor, tools, HTTP routes, providers, MCP/LSP/ACP hosts, memory, files, CLI,
desktop shells, the other packages, plugins) are listed in `PROJECT.json` with the reason
why they are not modelled.

How a prompt travels: a route calls `prompt`, which persists a user message, clears the
task gate's counter, may arm a goal and calls `loop`; `loop` calls `ensureRunning` of run
state, which finds or makes the Runner of (session, agent); the Runner starts `runLoop` in
a fiber or lets the caller join the one under way. Each iteration of `runLoop` drains the
inbox, reads the transcript and either ends the turn through the gates or calls the model.

How a subagent answers: a tool spawns an actor, whose fiber runs turns of the same `prompt`
under a key of its own; hooks and open tasks add turns; at the end the fiber writes a note
to the parent's inbox, whose wake-up is a call of the parent's `loop`, and completes the
outcome that the spawning call waits for. A checkpoint writer is such an actor: the main
loop claims a threshold, a batch waits for the session to be quiet, and a watcher of the
writer moves the watermark from which the next range starts. A workflow run spawns actors
from a script in a sandbox and journals their results. All model calls of a local server
pass through the adapter's admission gate, a thread per request.

### What is hard here, and what makes it correct

- **Runner**: callers, fibers and cancels interleave between any two effects; only
  `SynchronizedRef.modify` is atomic, and what a modify *returns* is executed later by the
  same fiber. Correct means: work is exclusive per runner, a fiber is never lost to later
  cancels, nobody joins a finished run, and nobody waits for a Deferred that no one will
  complete (a cancel during a shell with a run queued behind it is the difficult case).
- **Run state**: the map is looked up in one step and used in a later one, and `onIdle`
  deletes a *key*, whatever runner is under it by then. Correct means: a busy session
  becomes idle, an idle report follows every busy, an abort reaches the loop,
  `assertNotBusy` protects message edits from a loop at work.
- **Turn loop**: `while (true)` with about a dozen reasons to go round again, each with a
  cap of its own; counters of three lifetimes (run, turn, session); a transcript whose
  visible part starts at the newest context boundary; messages, goals, subagents and
  cancels that arrive between read and use. Correct means: a run ends, re-entries compose
  as a sum and not as a product, a turn is not ended by a stale answer, and a turn that
  stops with unverified edits says so.
- **Checkpoint**: the slot is looked up first and taken several awaits later; messages,
  watermark and file are read and written by calls, writers, watchers and rebuilds that
  overlap. Correct means: one writer at a time (they write one file), nothing up to the
  watermark is missing from the checkpoint, a queued request is called for, a claim of a
  threshold is not lost to another batch.
- **Actors**: one row written by turns, by cancels and by orphan recovery; a wait that looks
  at the row, subscribes and looks again; hooks that add turns after the answer was given.
  Correct means: an active row has a fiber, the parent hears one verdict, no call and no
  wait misses the end.
- **Inbox**: three transactions where one would be atomic, cut off by cancels and restarts,
  over rows whose ids are in the order of sending only from one millisecond to the next.
  Correct means: at least once, in order across milliseconds, a second copy only after an
  interruption.
- **Admission gate**: a caller gives the lock up to write a keepalive, keeps its place, and
  may run out of time. Correct means: the cap holds, the order is kept, everybody proceeds.
- **Permission**: between the settling of a Deferred and the step in which its caller
  resumes there may be cancels, further replies and a disposal. Correct means: the list of
  pending requests and the callers agree, a deny wins, a reply grants one request by hand.
- **Workflow**: a launch, its guest, its calls, cancels that take their time, the resumes and
  deaths of the launch and of the process share a row, a journal and a script. Correct means:
  at most one launch runs, it settles, and a resume replays all that was paid for.

## 2. The modules

```
SingleFlight <--implements-- RunnerRefinement --EXTENDS--> Runner <--EXTENDS-- RunState
                                    ^                                             ^
                                    +----------------- RunnerProofs --------------+
DurableQueue <--implements-- Inbox <-- InboxProofs
TurnLoop   <-- TurnLoopProofs        Checkpoint <-- CheckpointProofs
Actors     <-- ActorsProofs          Admission  <-- AdmissionProofs
Permission <-- PermissionProofs      Workflow   <-- WorkflowProofs
```

Each component is a machine of its own, and the others appear in it as far as it sees them:
TurnLoop has subagent turns and mail, Checkpoint has the loop and the messages it adds, Inbox
has the receiver's run with its drain and its gates, Actors has the result of a prompt.
RunState and Runner are composed in full.

`<Module>Proofs` EXTENDS a module and TLAPS and holds its theorems; RunnerProofs holds those of
RunState too. `MC<Module>` modules add the model values and symmetry sets of the instances; each
`MC<Module>_<run>.cfg` is one run.
Definitions called "A mutant of ..." in the modules are small plausible faults; each
property is shown to notice at least one of them (`PROJECT.json`, "mutants").

### Runner

One state machine per runner object, with callers, fibers and cancellers as separate actors.

| Code | Model |
|---|---|
| `SynchronizedRef` holding `State` | `ref[r]`, changed by one action per `modify` |
| `modifyEffect` that suspends (`onBusy` in `startShell`) | `lock[r]`: `BeginShell` takes it, `StartShell` gives it back; every other transition needs `Free(r)` |
| `ensureRunning` | `Lookup`, then `JoinRun` / `QueueRun` / `StartRun`, then `ReturnRun` |
| `startShell` | `Lookup`, `RejectShell` or `BeginShell` + `StartShell`, `ReturnShell` |
| the work ends, fails, or is interrupted | `WorkEnds(c, e)` |
| `finishRun`, `finishShell`, `onIdle`, `complete` | `FinishRun`, `FinishShell`, `FiberIdleBegin/End`, `Settle` |
| `cancel` | `Cancel` (state to Idle), `FailPending`, `Interrupt`, `AwaitExit`, `IdleIfCurrent`, `CancelIdleBegin/End` |
| interruption of a caller | `Abandon` |

Run and shell ids (1, 2, ...) only tell runs apart, so the caller that supplies the work
names it, its fiber and its Deferred. A run's fiber is forked in the runner's scope and goes
on after its caller gave up; a shell is interrupted with its caller.

### SingleFlight and RunnerRefinement

`SingleFlight` is what a Runner promises callers of `ensureRunning`, without fibers, locks
or shells: at most one joinable flight per runner, a call opens one or joins it, a flight
lands once and only after it stopped being joinable, each call returns what its flight
landed with, and (`Lands`) every flight lands and everyone on it is answered.
`RunnerRefinement` gives the mapping: the joinable flight is the `run` handle in the state,
a landing is the completion of the run's Deferred.

### RunState

`RunState` EXTENDS `Runner` and adds the map, the status and the message edits of one
session. `Obtain` is `runner()`; `Unmap` and `ReportIdle` are the two effects of `onIdle`;
`ReportBusy` is the first statement of a loop iteration; `SeekBusy`/`SeekIdle` are the two
branches of `cancel` and `cancelActor`; `AssertNotBusy`/`EditEnds` are the routes that edit
messages. Subagents have keys of their own and never touch the status. `UnpreemptedSpec`
is the same machine under a scheduler that does not preempt a fiber between a lookup and
its use; `MCRunState_abort.cfg` uses it, so that its finding does not rest on an unlikely
preemption.

### TurnLoop

One session's main agent. `pc` is where the loop is: `look` (top of an iteration), `call`
(about to call the model), `compactAuto/Manual`, the six gates (`tasks`, `verify`, `stall`,
`goal`, `judge`, `guard`), `leave`, `idle`.

The transcript is abstracted to what the loop reads of it, `win`, the live window that
starts at the newest context boundary: the kind of the newest assistant message and whether
it carries an error, whether it is newer than the newest user message (`fresh`), whether
source edits are unverified (`dirty`), whether the newest verify was red (`red`), progress
and evidence of work, whether tools were at work right before the boundary (`fence`), and a
compaction marker that is due (`marker`). What an iteration read and uses later is in
`seen`, so that it can be stale. The locals of `runLoop` are `cnt`; the counters that
outlive a run, `taskReact` and `goal`, are variables of their own.

| Code (`session/prompt.ts`) | Model |
|---|---|
| top of an iteration: busy, drain, read, classification of what is there | `Look` (`Class` is `classifyAssistantStep`, `Read` the locals) |
| the model step and what follows it | `UseTools`, `Answer`, `Misstep`, `Fail`, `Repeat`, `ProviderOverflow`, all through `Settle` (text-loop detection and the end of the iteration) |
| `autoContinueOutputLength`, `autoRetryTextToolCall`, `autoContinueInvalidOutput` | `OnCut`, `OnProse`, `OnThink`, chosen by `Mend` |
| overflow check before a step; compaction branch; rescue | `Overflow`, `StartCompaction`, `Compacted`, `CompactionFails` |
| `taskGate`, `autoContinueUnverified`, post-compaction stall, `goalGate`, finish guard | `TaskGate`, `VerifyGate`, `StallGate`, `GoalGate` + `Judge`, `FinishGuard` |
| leaving the loop | `Leave` |
| `prompt`, `/goal clear`, a subagent's turn, `Inbox.send`, the summarize route, abort, process crash | `Prompt`, `ClearGoal`, `SubagentTurn`, `Send`, `Summarize`, `Cancel`, `Crash` |

The judge's call is a step of its own (`GoalGate`, then `Judge`), because goals change
while it is out. Both doors of a turn, the answer found by an iteration and the `break` of a
step, pass the gates that the code makes them pass: only an answer meets the stall gate and
the finish guard.

`owed`, `stamp`, `tally` and `left` are ghosts: what the user is owed, which message is
stamped, how often gates sent the turn back, and what is left of the bounds.


### Checkpoint

One session: the calls of `tryStartCheckpointWriter` (those of batches, and those a watcher
makes for a queued request), their writers, the main loop as far as it fires checkpoints,
waits for writers and rebuilds, and a restart. Messages are numbered, a marker stands after
one of them, and a window starts at the newest marker.

| Code | Model |
|---|---|
| `fireCheckpoints` (`prune.ts`): no writer is at work; later, thresholds claimed, a batch forked | `FireLooks`, `FireClaims`, `FirePasses`; `NewlyCrossed` |
| the batch waits for quiet, gives its claim back or calls | `Due`, `NeverQuiet` with `GiveBack`, `BatchReturns` |
| the watcher of failures | `RetryLooks`, `RetryHearsSuccess`, `RetryHearsFailure` |
| `tryStartCheckpointWriter`: lookup, early returns, messages, watermark, spawn, slot | `Enter`, `QueueUp`, `SkipCall`, `CallDies`, `ReadMessages`, `ReadWatermark`, `Spawn`, `TakeSlot`, `Started` |
| the watcher of a writer | `Settle` (`Advance`, `FreeSlot`, and the next call, one of `Redrives`) |
| the loop's overflow check, `waitForWriter`, `insertRebuildBoundary` | `CheckPasses`, `AwaitWriter`, `WaitIsOver`, `HideAll`, `Rebuild` |

Calls overlap freely. `raced` is a history variable: it is set when a call passes the lookup
(`checkpoint.ts:551`) while another is on its way from there to the slot (`:920`), which nothing
in the code prevents (section 5). The properties that this race can break say what holds up to
it, so they leave out no behaviour: only the race itself is an excuse. `NeverQuiet` needs
nothing of this session's loop, because a batch waits for the main agents of all sessions.

### Actors

The fiber of an actor with its three loops of turns (preStop hooks, the gate of open tasks,
postStop hooks), its row, and the calls of spawn, wait and cancel around it.

| Code | Model |
|---|---|
| `spawnSubagent`: the row, the fork, an end between the two | `Register`, `Fork`, `SpawnDies` |
| `forkWork` | `EnterLoop`, `AnotherTurn`, `LeaveLoop`, `TurnDies` |
| `runTurn`: mark running, run, mark idle | `BeginTurn`, `EndTurn` through `UpdateStatus` |
| `notify`, delivery of the outcome | `Notify`, `Settle` |
| `tool/actor.ts`: join the fiber, await the outcome, time out | `Joined`, `CallReturns`, `CallTimesOut` |
| `cancel`: stamp the row, then cancel the run | `CancelStamp`, `CancelRun` |
| `wait`: look, subscribe, look again, callback, time out | `WaitCall`, `Subscribe`, `Recheck`, `LookAgain`, `WaitTimesOut` |
| orphan recovery at start | `Restart` (`Orphan`) |

A turn of the gate or of postStop that dies takes the fiber with it (`dead`), and the call that
joins it fails with the same defect, which `Effect.ignore` does not catch. A spawn that ends
between row and fork leaves a pending row without a fiber (`unborn`) until the next restart.

### Inbox

One receiver. `Send` writes the row, `Wake` is the forked call of `loop`; `ReadRows`,
`WriteMessage` and `DeleteRows` are the three transactions of `drain`; `Step`, `Gates` and
`NothingToDo` are what the receiver's run does between two drains; `Cancel` and `Restart` cut
it off anywhere; `Restart` also expires old rows (`gcInboxRows`). Notes are numbers in the
order of their row ids. An id is a ulid: `Time` is its millisecond, later sends have no earlier
one, and within a millisecond the order of ids is that of random digits, so `Send` gives any
id of the present millisecond next.

`DurableQueue` is what a sender may rely on, without runs and transactions: items have ages and
are accepted in the order of these, no item is delivered before an older one, those delivered
together are acknowledged before anything more is delivered, an acknowledgement takes exactly
what was delivered, and a reader that is cut off has its items delivered again. In the mapping
(`Queue` in `Inbox`) a copy in the transcript is a delivery, the deletion of the rows the
acknowledgement, and what is written and not yet deleted is in flight.

### Admission

The threads of `src/proxy/lmstudio-adapter.py` at the gate of `adapter_util.py`. `Acquire`
takes a ticket and passes, or waits; `Wake` is the return of `cv.wait`, with the lock given up
for the keepalive; `Look` is the condition, checked again with the lock; `Expire` lets a
budget run out; `Block` and `Unblock` are a client that stops reading. `AcquireAgain` and
`ReleaseInner` are a request inside a request of the same thread; `Release` gives a slot back.
The queue, sorted by rank and ticket, is a set of entries and its head the least one.

### Permission

The asks of one instance. `Ask` decides by ruleset and approvals or enters the map;
`ReplyOnce`, `ReplyAlways`, `ReplyReject` settle requests; `Resume` is the caller going on and
taking its entry out; `Cancel` is the abort of its run; `Dispose` the finalizer of the
instance. `KindOf` tells tools (abort signal), the loop (fiber interruption) and the bridge of
`llm.ts` (neither) apart. A pattern and the rules that match it are one value; the patterns that
an "always" approves are chosen by the tool and may be any. A tool's ask is an `Effect.race` of
its Deferred with the abort signal, which ends with the first success: `RaceIsOver` holds a
rejected tool back until its signal aborts.

### Workflow

One run id. `Start` and `Lock`/`Refuse`/`Relaunch` (resume under its lock) launch; a launch
records itself (`Record`), writes the script it has read (`WriteScript`), clears a journal of
another script (`Fresh`, `ClearJournal`), loads it, forks its work (`Load`) and evaluates the
guest. `LaunchDies` is its end at any point before the fork: the lock goes back (`GiveBack`),
the entry stays. `Call` answers from the journal or queues, `Spawn` takes a
slot of the pool, `AgentAnswers` appends to the journal and answers the guest. `Return`,
`Throw`, `Deadline` end the guest; `Complete`, `Reclaim`, `Fail` write the end; `CancelStart`
and `CancelEnd` are the guard and the end of a cancel, with whatever it reclaims between them;
cancels of a launch may overlap (`MaxCancels`), and none has to end. `Crash` kills the process
and may leave half a line; `Edit` changes the script on disk, or puts it back to an earlier
content. `since` and `got` are history: the launch that recorded the present script, and the
calls whose result a guest has received since.

## 3. The runs

| Run | Instance | States | Shows |
|---|---|---|---|
| `runner_refines` | 1 runner, 2 calls of either kind, 1 cancel, fairness | 27 k | the safety of Runner, that it implements SingleFlight, and that calls and cancels return |
| `runstate_live` | 1 agent, 2 runners, 2 calls, 1 cancel, 1 edit, fairness | 0.61 M | nothing is left at rest, what `assertNotBusy` overlooks, a busy session becomes idle |
| `turn_gates` | end gates capped at 1 (goal: 0 soft, 1 hard), one each of tool step, subagent turn, message, prompt or goal command, and cancel or crash | 4.5 M | the gates compose as a sum; no silent unverified stop; no stale stop |
| `turn_live` | repairs of a step capped at 1, one tool step, one overflow, one summarize call, fairness | 0.61 M | every run ends |
| `checkpoint_slot` | 3 batches, 1 queued request, 2 thresholds, 3 messages, 1 rebuild, 1 restart, fairness | 0.20 M | claims; up to a race for the slot one writer and no gap under the watermark; queued requests are called for |
| `checkpoint_overlap` | 2 batches | 2 k | `OneWriter` violated (section 5) |
| `actors_settle` | 1 actor, the code's limits of 3, 2 and 3 turns, 1 restart, fairness | 29 k | active rows have fibers, a joined call's outcome is settled, one verdict, waits and calls hear the end |
| `inbox_notes` | 4 notes, two of one millisecond, batches of 2, 2 interruptions, 2 prompts, fairness | 0.11 M | at least once, in order across milliseconds, rows within the limit are drained, and Inbox implements DurableQueue |
| `admission_cap` | 3 threads, 2 ranks, 1 slot, 4 tickets, nesting of 2, fairness | 44 k | cap, order, everybody proceeds, a timeout frees its caller |
| `permission_replies` | 2 tools and the loop, 2 sessions, 2 patterns, 1 disposal, fairness | 0.14 M | the map and its callers agree, deny wins, one grant by hand and none in another session, cancelled asks return |
| `workflow_resume` | 1 call, 3 launches that may die, 2 resumers, cancels that may hang, fairness | 0.34 M | one launch runs, and it settles |
| `workflow_replay` | 2 calls, 3 launches, 1 agent slot, 2 edits, 1 cancel each, 1 death, 1 torn line | 2.1 M | a resume replays all results of its script but for one per torn line |

**Larger and further configurations** that are not among the runs: `MCRunner_safety.cfg` (3
calls, 2 cancels, 1.7 M states), `MCRunState_agents.cfg` (2 agents, 2 cancels, 1.2 M states),
`MCRunnerRefinement_live.cfg` (the live half of SingleFlight) pass; those of section 5 end in
a counterexample.

**Why these bounds.** In Runner a scenario needs at most a shell, a run queued behind it
and a newcomer, and two cancels that overlap: `MCRunner_safety.cfg` has all of it, and what it
checks is proved for any number. A runner does not know its number, so one runner is enough
there, while RunState needs two because the map's hazard is a second runner under one key. In
TurnLoop the caps are constants of the model and of the code; with a cap of 1 a gate may send
the turn back, be at its cap, or never fire, and the theorems hold for all caps. Tool steps
are bounded because a model that calls tools for ever makes progress in the sense of the code:
no cap of the code ends that. `EndlessOverflow`, the second unbounded edge, is switched on in
`MCTurnLoop_overflow.cfg`. `turn_gates` has no context boundaries, and `turn_live` has no
gates; `MCTurnLoop_open.cfg` has both. In Checkpoint two thresholds give an ordinary and the
maximal one, three batches let one hold the slot, one queue up and one claim anew, or two race
while a third has a request queued; one rebuild hides messages from a writer's range, and
`MCCheckpoint_rebuild.cfg` has the two after which a boundary lies before a marker. Actors of
one session share nothing but the process, so one is enough with the theorems for any number.
Four notes and batches of two leave rows for the next drain, and two notes of one millisecond
with one before and one after them let ids of a millisecond swap, across a batch's end too.
Three threads at one slot give a holder, a head of the queue and one behind it. Two launches
give an old and a new one; a third is for a second resumer, or to replay what a second launch has appended after a torn line.
Two edits put a script back to its first content, after a launch of the second. Workflow's two
concerns are in two runs because both at once are beyond what TLC finishes; `workflow_replay`
has one resumer since the lock that orders resumers is the subject of the other, and one cancel
per launch: with `MaxCancels = 2`, cancels that overlap, the instance passes as well (8.1 M
states), and the theorems hold for any number.

**Deadlock.** All models but Runner, RunState and the refinement stop by design when calls
and bounds are used up, and are checked without deadlock detection.

**Fairness.** No user, model, client or crash is ever assumed to act.
`Runner!FairSpec`: the Effect runtime schedules every fiber that can take a step, and an
interrupted fiber ends; nothing makes work end by itself. `WorkIsFinite` is assumed only where
the property says so (`CallsReturn`, `BusyEnds`, `ImplementsSingleFlightLive`): model and tool
calls carry timeouts. `TurnLoop!FairSpec` is weak fairness of `Loop` as a whole: the run's
fiber is scheduled and the calls it waits for return; which answer the model gives is open. In
the other modules `LiveSpec` is weak fairness of the steps a fiber, thread or timer takes once
it can: `Checkpoint` the calls and the end of a writer (the actor's limits); `Actors` the
fiber and the ends of its turns (the stream's time limits), the spawning call, the two looks
of a wait and the second half of a cancel, but not the time limits of call and wait;
`Permission` only the resumption of an ask that its race lets go on; `Workflow` the steps of a
launch, the sandbox's deadline, and a resume that has the lock. No cancel of a workflow has to
end: it removes worktrees and cancels child runs without a limit.
Strong fairness is used twice. In `Inbox` the gates come back to `idle` and a step comes
to the gates if they can again and again, which is TurnLoop's `RunEnds`. In
`Admission` a request is released: nested requests disable the release in between, and a
request does not nest for ever; the watchdog of the upstream call ends it.

**Properties.** One type invariant per module is proved and not repeated in the runs.

- `NoLostFiber`, `ExclusiveWork`, `WaitersAreServed`, `InterruptedOnlyByCancel` (Runner): see
  section 1. `CancelReturns` and `CancelReleases` hold although the cancelled work need not
  end by itself.
- `RestLeavesNothing`, `BusyEnds` (RunState): clients wait for the idle report, so it must
  follow in every mixture of runs, shells and cancels. `OverlooksOnlyDisowned` is the
  strongest guarantee that `assertNotBusy` gives: a check that passes overlooks a loop only
  while a cancel takes that loop down, or when the loop's runner has been unmapped.
- `TaskBudget`, `SumOfCaps` (TurnLoop): `session/loopgraph.ts` and `task/gate.ts` want the
  bounds of the gates to add up. They do, with one further round for each subagent turn and
  one for a goal cleared while the judge is out. `HonestStop`: the NOT DONE marker of the
  verify gate; it holds as long as no context boundary hides the edits. `NoStaleStop`: a final
  answer is newer than every message the loop has read. `RunEnds`: the liveness of
  `while (true)`.
- `ClaimHeld` (Checkpoint): thresholds claimed by a waiting batch are given to no other.
  `OneWriterUnlessRaced`, `ProgressUnlessRaced`: until two calls have been between the lookup
  and the slot at once, no order of settles, redrives, failures, calls that die, rebuilds and
  restarts brings a second writer about or lets the watermark pass what the file holds.
  `PendingServed`: a queued request has a call made for it; that its flag is cleared is not
  enough, which is what the second of two racing calls does to it.
- `ActiveRowHasFiber` (Actors): reminders and stuck detection believe the row.
  `AwaitedIsSettled`: a call that has joined its fiber and goes on to the outcome finds it
  settled, however the fiber ended, so its time limit never decides. `CallComesBack`: without
  that limit, to an outcome or to the fiber's defect. `OneVerdict`: notification and outcome
  are given once and agree. `WaitHearsTheEnd`: no lost wake-up between look and subscription.
- `NothingLost`, `InOrder`, `ImplementsDurableQueue`, `FirstRowsAreDrained` (Inbox): the promise
  of a durable queue. `InOrder` compares notes of different milliseconds: within one the code
  gives no order. `FirstRowsAreDrained` is for a row in reach of the drain a run comes to,
  whatever is sent in the row's millisecond before it reads. `OnceUnlessInterrupted`, which
  counts the duplicates, is proved.
- `CapHolds`, `InTurn`, `EveryCallerProceeds`, `TimeoutFreesCaller` (Admission). With a
  client that does not read, `EveryCallerProceeds` promises nothing, `TimeoutFreesCaller` still
  does.
- `PendingIsWaiting`, `DenyWins`, `OneGrantByHand`, `CancelledAskReturns` (Permission): the third
  looks at all that one step grants, which is of one session, and of which at most one request
  is covered by neither its ruleset nor the approvals.
- `RunningIsCurrent`, `RunSettles`, `ReplayMissesTornOnly` (Workflow): a run settles unless its
  launch died before it forked the work (section 5, `RunningHasAFiber`). The last is what is
  true of `ReplayIsComplete`, which section 5 refutes: a launch replays every result that a
  guest has received since the script was recorded, but for one result per line of the journal
  that a death has cut in half.

## 4. What is proved

For every value of the constants, by TLAPS, from the named assumptions of the modules:
`NoOneAssumption` and `MainAssumption` (the absence value is no caller, runner or agent; the
main agent is an agent), `CapsAssumption` (caps and bounds are natural numbers), and
`CheckpointAssumption`, `ActorsAssumption`, `InboxAssumption`, `AdmissionAssumption`,
`PermissionAssumption`, `WorkflowAssumption` (limits are natural numbers, positive where zero
would stop everything; sets of threads and notes are finite; calls of batches and of watchers
are distinct; the milliseconds of notes do not decrease with their ids).
TLC evaluates all of them on the instances.

Every invariant, action property and refinement that a run checks is a theorem here; what is
left to TLC alone is liveness, whose parts that need no fairness are proved as well (below).

| Module | Theorems | Inductive invariant |
|---|---|---|
| RunnerProofs | `TypeCorrect`, `NoFiberIsLost`, `JoinedInTime`, `WorkIsExclusive`, `NobodyIsStranded`, `InterruptionsAreCancels`; `RunnerKeepsItsPromise`: `Spec => Promise!Spec`, the safety part of the refinement; `CancelsAreServed`, `CancelledWorkIsDoomed`, `MovesRunOut` | `IInv`, on it `WaitInv`, `ExitInv`, `MarkInv`, `DoomInv` |
| RunnerProofs, on RunState | `RunnersBehave`: `RSpec => Spec`, so all of Runner carries over; `RTypeCorrect`, `BusyIsAlwaysOwed`, `NothingIsLeft`, `CheckMissesOnlyDisowned` | `MapInv`, on it and `IInv`: `RestInv` |
| TurnLoopProofs | `TurnTypes`, `TaskBudgetHolds`, `SumOfCapsHolds`, `TurnInvHolds`, `NoStaleStopHolds`; `HonestStopHolds` under `NoBoundaries`; `RunDescends`, `BelowIsWellFounded`, `RankIsWord` | `Shape`, `TurnInv`, `FreshInv`, `HonestInv`, `MarkInv` |
| CheckpointProofs | `TypeCorrect`, `SlotsAreWatched`, `ClaimsAreExclusive`, `OneWriterAtATime`, `ProgressIsRecorded`, `QueuedRequestsHaveHeirs`, `RequestsAreCalledFor` | `TypeInv`, `ClaimHeld`, `HasWriter`, and `Unraced`: `SlotInv` and `RangeInv` until `raced` |
| ActorsProofs | `TypeCorrect`, `ActiveRowsHaveFibers`, `VerdictsAreFinal`, `WakeupsAreKept`, `AwaitedOutcomesAreSettled`, `JoinedFibersMove`, `FibersEnd` | `TurnsAreLimited`, `SaidOnce`, `CallInv` |
| InboxProofs | `TypeCorrect`, `NoNoteIsLost`, `CopiesNeedInterrupts`, `NotesComeInOrder`, `DrainsTakeRowsInReach`; `InboxIsDurableQueue`: `Spec => Queue!Spec` | `DrainState`, `BatchIsOldest`, `CopiesAreBounded` |
| AdmissionProofs | `TypeCorrect`, `CapIsKept`, `QueueIsCallers`, `CallersPassInTurn`, `GateStaysOpen`, `QueuesOnlyShorten` | `DepthIsHeld`, `TicketsDiffer`, `QueueEntries`, `QueueCounted` |
| PermissionProofs | `TypeCorrect`, `PendingRequestsWait`, `DenyAlwaysWins`, `GrantsAreCovered`, `RejectionsStayInSession`, `CancelledAsksAreSettled` | `Asked`, `PassedTheRuleset` |
| WorkflowProofs | `TypeCorrect`, `OneLaunchRuns`, `MissesAreTorn`, `ReplayIsWhole`, `RunsAreNeverStuck`, `RunsWindDown` | `LockInv`, `LaunchInv`, `RunInv`, `SinceInv`, `ReplayInv`, `TornInv`, `EndInv` |

**Runner.** `NoLostFiber` is not inductive alone. `IInv` adds what the handles in the state
mean (`RefInv`: the run of a Running state is at work and its Deferred is open, the run
queued behind a shell has no fiber), who holds the lock (`LockInv`: the holder is starting a
shell and the state is still Idle), what a canceller took with it (`CancelInv`), and that a
call that has not been admitted has no fiber and no Deferred (`CallInv`). `Step` goes
through the actions one by one. Given `IInv`, `WaitInv` says that every open Deferred is
*served* (its fiber is alive, it is queued, or a canceller is about to fail it) and yields
`NobodyIsStranded`. `MarkInv` traces an interrupted Deferred back to the cancel that took the
work from the state. The refinement proof needs `IInv`, `WaitInv` and `ExitInv` (a fiber past
its work has an exit); every action is a step of SingleFlight or a stutter.

**RunState.** Every step is a step of Runner or leaves Runner's variables alone, which is
`RunnersBehave`. `MapInv`: a runner under a key was made for that key. For the map and the
status at rest, `RestInv` says that a mapped runner *owes an onIdle* (its state is not Idle, or
a fiber or cancel of it has its onIdle ahead) or has a caller about to use it, and that busy
means a runner of the main agent owes an onIdle or is in the middle of one. The step from a
lookup to its use is the difficult case, hence `OwnTarget` and `ShellsAreMains`.

**TurnLoop.** `TurnInv` charges every re-entry to the counter that allows it: the verify
gate, the finish guard and the stall gate to locals of the run, the task gate to `tally`,
bounded by `taskReact` and the subagent turns (`TaskShare`), the goal gate to the goal's
`react`. A goal that is cleared takes its `react` with it, hence the three cases of
`GoalShare`. `HonestStop` needs that what the user is owed is visible in the window, which is
what a boundary breaks; under `NoBoundaries` (no overflow, no summarize call, a verify gate
with at least one turn) `HonestInv` carries it from the edit to the stop.

**The others.** In Checkpoint, `SlotInv` says that one call at most starts, holds the slot or
has a writer at work, and `RangeInv` that all before a writer's range is recorded or hidden.
Neither survives the race, which `raced` remembers, so the inductive invariant is
`~ raced => SlotInv /\ RangeInv`, and the step to prove is the one that does not race: a call
that enters finds the slot free and, by `SlotInv` and `~ raced'`, nobody starting. No assumption
on how calls are scheduled enters the theorems. `RequestsAreCalledFor` is about steps: the flag
of a queued request falls only in one that makes a call for it, dies with the process, or comes
after a race. In Actors, `AwaitedIsSettled` needs that a fiber that is over has settled its
outcome, which `SaidOnce` says. In Inbox, what a drain has not read is no older than what it
has, and a row has been written at most once per interruption unless it is in a batch just
written. In Admission, two callers that wait have different tickets below the next one, so the
set of entries is as large as the set of callers.

**Inbox and its queue.** `InboxIsDurableQueue` has one lemma per action that the queue sees:
`SendAccepts` needs that the clock does not go back, `WriteDelivers` that no row of an earlier
millisecond is outside the batch, `DeleteAcknowledges` that a batch is kept between write and
deletion, `RestartDrops` that old rows are the oldest. All other actions are stutters. That
ids of one millisecond have no order is in the theorem: nothing is assumed of it.
`DrainsTakeRowsInReach` counts what may come before a row, the rows that are there and the
notes of its millisecond that are yet to be sent (`MayPrecede`): no step adds to them, so a row
within the limit when a run comes to its drain is still within it when the drain reads.

**Workflow.** `RunningIsCurrent` is not inductive: between the moment a resume looks at the row
and the one at which its launch records itself, nothing may have come to run. `LockInv` says
who is past the lock, `LaunchInv` that only the last launch is still on its way to running, and
that on behalf of the first start or of the holder of the lock, and `RunInv` that a launch that
records itself finds nothing running. For the replay, edits may bring an earlier script back, so
a guest cannot be told by the script it runs, and `since` names the launch that recorded the
present one. `SinceInv`: a launch on its way to clearing the journal is that launch, and no
guest has received anything since; `ReplayInv`: what a guest of that launch or a later one
replays is still in the journal; and `TornInv` counts the results that are lost against the
lines that a death has torn. Where no append is cut short nothing is lost, which is `ReplayIsWhole`.

**What is proved of liveness.** A liveness property has a part that needs fairness (whoever can
take a step takes it) and parts that do not: that someone can take a step, that nothing
undoes what was reached, and that the steps run out. The latter are safety and are proved for
all values of the constants; they carry what a change of the code would break.

| Property, checked by TLC under fairness | What is proved of it |
|---|---|
| `RunEnds` | `RunDescends`: each step of the loop lowers a rank of seven numbers (budgets of tools and overflows, the run itself, the caps, what it has not read, the place in the turn, the patience with mere thinking, the place in the iteration); `RankIsWord` and `BelowIsWellFounded`: no such descent is infinite. So between two events from outside a run takes finitely many steps, for all caps, with boundaries and gates at once, which no run of TLC covers. Only `EndlessOverflow` is excepted (section 5) |
| `CallComesBack` | `JoinedFibersMove`, `FibersEnd`: the joined fiber exists, is not stuck and has at most `5 * Bound + 10` moves; `AwaitedOutcomesAreSettled`: what the call awaits then is there |
| `WaitHearsTheEnd` | `WakeupsAreKept`: a wait on an actor that is over has an event ahead and a row that resolves it |
| `EveryCallerProceeds` | `GateStaysOpen`, `QueuesOnlyShorten`: slots and places are not leaked, and only a better rank gets in front |
| `PendingServed` | `RequestsAreCalledFor`: a queued request goes only in a step that makes a call for it, unless the process dies or calls have raced; `QueuedRequestsHaveHeirs`: it has a writer whose watcher is yet to settle |
| `CancelledAskReturns` | `CancelledAsksAreSettled`: only the caller's resumption is left |
| `RunSettles` | `RunsAreNeverStuck`, `RunsWindDown`: a run has a move, and at most six, unless its launch died before the fork |
| `FirstRowsAreDrained` | `DrainsTakeRowsInReach`: a drain takes every row in reach, and writes what it took |
| `CallsReturn`, `BusyEnds` | `NobodyIsStranded`, `BusyIsAlwaysOwed`: each open Deferred has someone who will complete it, and a busy session someone who will report idle |
| `CancelReturns`, `CancelReleases` (Runner) | `CancelsAreServed`, `CancelledWorkIsDoomed`: a cancel that waits waits for work that is interrupted, and so does everyone it releases; `MovesRunOut`: no call, fiber or cancel ever starts over |

**Only model-checked.** The liveness properties themselves, in the table above and
`TimeoutFreesCaller` and the live half of the refinement of SingleFlight: they rest on fairness, and with it on
ENABLED, which TLAPS does not reach.

## 5. Where the code and its words disagree

Each row is a finding in `PROJECT.json`, with the sentence of the repository that says
otherwise. The configuration ends in a counterexample; where one lists several properties,
TLC stops at the first, and the others are there as comments to be activated one at a time.

| Configuration | Property | In short |
|---|---|---|
| `MCRunState_abort` | `AbortReachesLoop` | a cancel that returns late deletes the key of a newer runner; an abort then finds nothing and the loop runs on |
| `MCTurnLoop_open` | `TaskBudgetOfTurn` | a subagent's turn re-arms the task gate in the middle of the main agent's turn |
| `MCTurnLoop_open` | `PromptAnswered` | a prompt that comes after the loop's last read joins the ending run and is not read until something else starts one |
| `MCTurnLoop_open` | `GoalNotClobbered` | a verdict on an automatic goal clears the explicit goal that replaced it |
| `MCTurnLoop_open` | `MarkerProcessed` | a drained inbox message buries a compaction marker |
| `MCTurnLoop_overflow` | `RunEnds` | overflows that the provider reports are not counted |
| `MCCheckpoint_overlap` | `OneWriter` | batches that wake together each find the slot free |
| `MCCheckpoint_rebuild` | `RebuildKeepsTail` | a second rebuild with no newer checkpoint hides everything written since |
| `MCActors_open` | `CancelSticks` | the end of a cancelled turn overwrites the cancelled row with success |
| `MCActors_open` | `OutcomeReached` | a turn of the gate that dies ends the fiber without an outcome, and the foreground call fails with its defect |
| `MCActors_open` | `PostStopIsForgotten` | a foreground call does wait for the postStop turns |
| `MCInbox_served` | `RowIsServed` | a note that arrives while the gates end the run wakes nobody |
| `MCAdmission_idle` | `FreeSlotIsUsed` | the head of the queue, stuck in a write, keeps a free slot from the rest |
| `MCPermission_bridge` | `EveryCancelledAskReturns` | the approval of a workflow's tools hears no cancel |
| `MCPermission_open` | `AlwaysAnswersCovered` | an "always" does not count what the ruleset allows as well |
| `MCPermission_open` | `ApprovalsLast` | a reload of the configuration forgets the approvals |
| `MCPermission_open` | `OverIsNotShown` | no event tells clients of an ask that ended with a cancel |
| `MCPermission_open` | `RejectedAskReturns` | a tool whose ask is rejected by a reply or by the disposal waits on for its abort signal |
| `MCWorkflow_torn` | `EndStopsTheWork` | queued calls still spawn agents after the run has ended |
| `MCWorkflow_torn` | `ReplayIsComplete` | a result appended to half a line is lost with it |
| `MCWorkflow_open` | `RunningHasAFiber` | a launch that dies before its fork leaves an entry that runs for ever, and every resume finds it live |
| `MCWorkflow_open` | `ToldIsRecorded` | a run completes in the window of its cancel: waiters hear completed, the row says cancelled |
| `MCWorkflow_open` | `RowSaysRunning` | the end of an old launch writes the row of the new one |
| `MCWorkflow_open` | `ReplayIsOfThisScript` | the new hash is recorded before the old journal is cleared |

Six smaller ones are reproduced and not listed as findings: `HonestStop` fails in
`MCTurnLoop_open.cfg` when an overflow puts the edits behind a boundary; `MarkerOnFinal` and
`GuardAtEveryEnd` there (the marker can be stamped on a message that is not the last one; a
turn that ends by `break` does not meet the finish guard); `NotBusyMeansNoLoop` in
`MCRunState_notbusy.cfg`; `QueuedWorkIsDone` in `MCRunner_queue.cfg` (work passed to
`ensureRunning` while another run is under way is dropped, and the caller gets the other run's
result; the comment says it is queued); and `PostStopIsContained` in `MCActors_open.cfg` (a
turn of postStop that dies fails the call whose outcome is already settled).

## 6. What is not modelled

- **Runner**: the interruption of a runner's scope when the instance is disposed; work whose
  exit is an interruption although nobody interrupted it; interruption of a caller that
  waits for the lock. A forked fiber that is interrupted before its first step is assumed to
  still execute its `onExit`, which is the Effect runtime's doing.
- **RunState**: the finalizer of the instance, the `retry` status; `status.set` (map and
  publication) is one step; there are as many runner objects as a run can need.
- **TurnLoop**: `json_schema` requests, max mode, subtasks, cancellation by plugins,
  per-turn tool stripping, the warning of a length stop that has tool calls, a cut-off
  answer without text as a kind of its own. The loops of subagents run the same code without
  the gates and are only seen through `SubagentTurn`. The summarize route is not called
  while a reply is on its way. Caps are those of one run, as in the code; re-entries for a
  step without a usable answer are not in `tally.total`, because they end no turn.
  How a summary is made, what a checkpoint contains, streaming and retries of the provider
  are below the model: a step yields one of the kinds in `Kinds`.
  Goals and counters in memory are lost by `Crash`, as in the code. `Look` takes the drain of
  the inbox as complete; one that fails, and rows beyond its limit, leave mail for the next
  iteration (Inbox has the drain in full).
- **Checkpoint**: `drainWriters` at shutdown, the texts of prompts and rebuilds, the clearing
  of tool results, the retry of a writer whose files fail their checks (part of its time), and
  a defect of the watcher itself (`checkpoint.ts:941-980`), which would leave the slot held.
- **Actors**: peers in sessions of their own, fork contexts, the allocation of ids (taken as
  distinct; a clash is a defect of the second spawn), the cascade of a cancel to children.
- **Inbox**: several receivers, which share nothing; the contents of a note. `WriteMessage` is
  the message and its parts in one step (`inbox.ts:177-195`): a run cut off between them leaves
  a message that lacks parts, and its rows are written again all the same. The clock does not
  go back.
- **Admission**: the rest of the adapter (repair of requests and streams, idle baseline).
- **Permission**: rules and patterns are matched as sets, a reply's publications do not suspend
  it. That `Effect.race` waits for the first success is the library's behaviour. Question is
  the same map with fewer paths and has no module.
- **Workflow**: nested runs, model groups and caps, file hooks, the counters and lines for the
  view; isolated agents, which run in worktrees and are never journaled (`runtime.ts:842`). What
  a cancel waits for besides its agents (worktrees, child runs; `runtime.ts:362-385`) is only the
  time until `CancelEnd`, which need not come. A death tears at most the last line of the
  journal and no line of the script file. A database that fails in the work after the fork
  (`runtime.ts:1096-1130`) is left out.
- **Without a module**: the task registry (single updates of a row each), sync events (one
  process writes through one connection; replay serves the control plane), the message
  processor and its retries (TurnLoop takes the kind of message they leave), summaries, tools,
  routes, providers, protocol clients, memory and files (I/O, text or derived data), and the
  other packages: clients, generated code, plugins made of prompts, launchers. Most of the
  repository's lines are of this last kind, which is why the map covers few of them.

## 7. What is left

1. A proof of the same kind for `TimeoutFreesCaller` of Admission.
2. Compositions: Actors with RunState through `cancelActor`, with a cascade over a small tree
   of actors; Inbox with Actors, for the note that ends a turn of the parent.
3. The message processor (`session/processor.ts`): parts of a stream, retries, and what an
   abort leaves of a tool call that is under way.
4. `sync/index.ts`: numbers without gaps per aggregate when a replay meets a run.
