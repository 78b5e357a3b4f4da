------------------------------ MODULE Checkpoint ------------------------------
(***************************************************************************)
(* session/checkpoint.ts and session/prune.ts: the checkpoint writers of   *)
(* one session, and the rebuilds of the main loop that rely on them.       *)
(*                                                                         *)
(* When the conversation crosses a threshold, fireCheckpoints claims it    *)
(* and forks a batch that waits until no main agent is busy and then calls *)
(* tryStartCheckpointWriter.  The call looks the session's slot up, reads  *)
(* the messages and the watermark, spawns a writer with the messages       *)
(* between the two, takes the slot, and forks a watcher.  The watcher      *)
(* moves the watermark when the writer has changed the checkpoint file,    *)
(* frees the slot and calls again for a request that was queued meanwhile. *)
(*                                                                         *)
(* Messages are numbered in the order of their time.  A rebuild puts a     *)
(* marker after one of them, and the window that the loop and the calls    *)
(* see starts at the newest marker.                                        *)
(***************************************************************************)
EXTENDS Integers, FiniteSets

CONSTANTS
  Batches,      \* calls made by a batch of claimed thresholds
  Redrives,     \* calls made by a watcher for a queued request
  None,         \* no call
  Top,          \* number of thresholds, the last is the maximal one
  MaxFailures,  \* max_writer_failures
  MaxMessages,  \* bound on the messages of the session
  MaxRebuilds,  \* bound on the rebuilds
  MaxCrashes    \* bound on the restarts of the process

Calls == Batches \cup Redrives

ASSUME CheckpointAssumption ==
  /\ Batches \cap Redrives = {} /\ None \notin Calls
  /\ Top \in Nat /\ MaxFailures \in Nat \ {0}
  /\ MaxMessages \in Nat /\ MaxRebuilds \in Nat /\ MaxCrashes \in Nat

VARIABLES
  pc,        \* pc[s]: how far call s has got
  keys,      \* keys[s]: the thresholds that batch s has claimed
  linked,    \* linked[s]: the set batch s claimed in is still the map's
  view,      \* view[s]: the window and the end of the range, as call s read them
  lo,        \* lo[s]: the first message handed to the writer
  writer,    \* writer[s]: the writer that call s has spawned
  touched,   \* touched[s]: the file has changed since the stat of call s
  retry,     \* retry[s]: the watcher of failures that batch s has forked
  slot,      \* the session's entry of the writers map: a call, or None
  pending,   \* the entry's pending request
  raced,     \* history: two calls have been between the lookup and the slot
             \* at once
  crossed,   \* thresholds that are claimed
  maxCrossed,
  failures,  \* consecutive failures of writers
  loop,      \* the main agent's loop
  skip,      \* skipOverflowCheck
  awaited,   \* the writer the loop waits for
  level,     \* thresholds that the size of the conversation exceeds
  len,       \* number of messages
  base,      \* the newest marker is after message base
  marks,     \* number of markers
  watermark, \* last_checkpoint_message_id
  recorded,  \* messages whose content the checkpoint file holds
  present,    \* there is a checkpoint file, if only the template
  hidden,    \* messages that a marker hid and no checkpoint covered then
  crashes

starts  == <<pc, keys, linked, view, lo>>
entry   == <<slot, pending, raced>>
claims  == <<crossed, maxCrossed>>
turn    == <<loop, skip, awaited, level>>
history == <<len, base, marks, hidden>>
file    == <<recorded, present, touched>>
vars    == <<starts, writer, retry, entry, claims, failures, turn, history,
             watermark, file, crashes>>

(* A message, or the marker of rebuild number mark, which is after it.       *)
Id(at, mark) == [at |-> at, mark |-> mark]
Ids == [at : 0..MaxMessages, mark : 0..MaxRebuilds]

(* The window that starts at marker number m, after message b, shows it.     *)
Shows(b, m, id) == IF id.mark = 0 THEN id.at > b ELSE id.mark = m

NoView == [base |-> 0, mark |-> 0, end |-> Id(0, 0)]

Starting == {"reading", "dated", "spawning", "spawned"}
Phases == {"new", "waiting", "called", "statting", "watching", "finished"} \cup Starting

TypeOK ==
  /\ pc \in [Calls -> Phases]
  /\ keys \in [Calls -> SUBSET (1..Top)]
  /\ linked \in [Calls -> BOOLEAN]
  /\ view \in [Calls -> [base : 0..MaxMessages, mark : 0..MaxRebuilds, end : Ids]]
  /\ lo \in [Calls -> 0..MaxMessages + 1]
  /\ writer \in [Calls -> {"none", "running", "success", "failure"}]
  /\ touched \in [Calls -> BOOLEAN]
  /\ retry \in [Calls -> Calls \cup {None, "off", "forked"}]
  /\ slot \in Calls \cup {None} /\ pending \in BOOLEAN /\ raced \in BOOLEAN
  /\ crossed \in SUBSET (1..Top) /\ maxCrossed \in BOOLEAN
  /\ failures \in Nat
  /\ loop \in {"idle", "top", "looked", "check", "stepping", "waiting", "rebuilding"}
  /\ skip \in BOOLEAN /\ awaited \in Calls \cup {None}
  /\ level \in 0..Top /\ len \in 0..MaxMessages
  /\ base \in 0..MaxMessages /\ marks \in 0..MaxRebuilds
  /\ watermark \in Ids
  /\ recorded \in SUBSET (1..MaxMessages) /\ hidden \in SUBSET (1..MaxMessages)
  /\ present \in BOOLEAN /\ crashes \in 0..MaxCrashes

Init ==
  /\ pc = [s \in Calls |-> "new"]
  /\ keys = [s \in Calls |-> {}]
  /\ linked = [s \in Calls |-> FALSE]
  /\ view = [s \in Calls |-> NoView]
  /\ lo = [s \in Calls |-> 0]
  /\ writer = [s \in Calls |-> "none"]
  /\ touched = [s \in Calls |-> FALSE]
  /\ retry = [s \in Calls |-> "off"]
  /\ slot = None /\ pending = FALSE /\ raced = FALSE
  /\ crossed = {} /\ maxCrossed = FALSE /\ failures = 0
  /\ loop = "idle" /\ skip = FALSE /\ awaited = None /\ level = 0
  /\ len = 0 /\ base = 0 /\ marks = 0
  /\ watermark = Id(0, 0)
  /\ recorded = {} /\ present = FALSE /\ hidden = {}
  /\ crashes = 0

-----------------------------------------------------------------------------
(* prune.ts: batches of thresholds.                                          *)

Finished(s) ==
  /\ pc' = [pc EXCEPT ![s] = "finished"]
  /\ keys' = [keys EXCEPT ![s] = {}]
  /\ linked' = [linked EXCEPT ![s] = FALSE]
  /\ view' = [view EXCEPT ![s] = NoView]
  /\ lo' = [lo EXCEPT ![s] = 0]

(* crossed.delete: what is claimed from now on is claimed in another set.    *)
ForgetClaims ==
  /\ crossed' = {} /\ maxCrossed' = FALSE
  /\ linked' = [s \in Calls |-> FALSE]

Unused(S) == {s \in S : pc[s] = "new"}

(* Thresholds that are crossed and not claimed.                              *)
NewlyCrossed == (1..level) \ crossed

(* fireCheckpoints, at the top of an iteration of the loop: a writer at work *)
(* is a reason not to claim anything.  The configuration is read between     *)
(* this look and the claims.                                                 *)
FireLooks ==
  /\ loop = "top" /\ ~ skip /\ slot = None
  /\ loop' = "looked"
  /\ UNCHANGED <<starts, writer, retry, entry, claims, failures, skip, awaited,
                 level, history, watermark, file, crashes>>

FireClaims ==
  LET s == CHOOSE b \in Batches : pc[b] = "new"
  IN  /\ loop = "looked" /\ NewlyCrossed # {} /\ Unused(Batches) # {}
      /\ pc' = [pc EXCEPT ![s] = "waiting"]
      /\ keys' = [keys EXCEPT ![s] = NewlyCrossed]
      /\ linked' = [linked EXCEPT ![s] = TRUE]
      /\ crossed' = crossed \cup NewlyCrossed
      /\ loop' = "check"
      /\ UNCHANGED <<view, lo, writer, retry, entry, maxCrossed, failures, skip,
                     awaited, level, history, watermark, file, crashes>>

FirePasses ==
  /\ \/ loop = "top" /\ (skip \/ slot # None)
     \/ loop = "looked" /\ (NewlyCrossed = {} \/ Unused(Batches) = {})
  /\ loop' = "check"
  /\ UNCHANGED <<starts, writer, retry, entry, claims, failures, skip, awaited,
                 level, history, watermark, file, crashes>>

(* A mutant of GiveBack: the thresholds leave the map's set, whichever it is *)
GiveBackByName(s) == crossed' = crossed \ keys[s]

(* already.delete, for the thresholds of batch s: of the set they were       *)
(* claimed in, which need not be the map's any more.                         *)
GiveBack(s) == crossed' = IF linked[s] THEN crossed \ keys[s] ELSE crossed

(* waitForQuiet gives up after MAX_WAIT_MS, though this session's loop may   *)
(* be idle: it waits for the main agents of all sessions.                    *)
NeverQuiet(s) ==
  /\ pc[s] = "waiting"
  /\ GiveBack(s)
  /\ Finished(s)
  /\ UNCHANGED <<writer, retry, entry, maxCrossed, failures, turn, history,
                 watermark, file, crashes>>

(* What a batch does when its call has returned, whatever the outcome.       *)
BatchReturns(s) == maxCrossed' = (maxCrossed \/ (Top > 0 /\ Top \in keys[s]))

(* The watcher of failures reads the slot, which may be another writer's.    *)
RetryLooks(s) ==
  /\ retry[s] = "forked"
  /\ retry' = [retry EXCEPT ![s] = IF slot = None THEN "off" ELSE slot]
  /\ UNCHANGED <<starts, writer, entry, claims, failures, turn, history,
                 watermark, file, crashes>>

(* waitForWriter has returned to it: success.                                *)
RetryHearsSuccess(s) ==
  /\ retry[s] \in Calls /\ writer[retry[s]] = "success"
  /\ failures' = 0
  /\ retry' = [retry EXCEPT ![s] = "off"]
  /\ UNCHANGED <<starts, writer, entry, claims, turn, history, watermark, file,
                 crashes>>

(* Failure, or five minutes without an outcome.                              *)
RetryHearsFailure(s) ==
  /\ retry[s] \in Calls /\ writer[retry[s]] # "success"
  /\ failures' = failures + 1
  /\ \/ failures + 1 < MaxFailures /\ ForgetClaims
     \/ failures + 1 >= MaxFailures /\ UNCHANGED <<claims, linked>>
  /\ retry' = [retry EXCEPT ![s] = "off"]
  /\ UNCHANGED <<pc, keys, view, lo, writer, entry, turn, history, watermark,
                 file, crashes>>

-----------------------------------------------------------------------------
(* checkpoint.ts: tryStartCheckpointWriter.                                  *)

(* A batch calls in the step that finds everything quiet.                    *)
Due(s) == pc[s] = "called" \/ (pc[s] = "waiting" /\ loop = "idle")

(* A writer is running: the request is kept, and replaces an earlier one.    *)
QueueUp(s) ==
  /\ Due(s) /\ slot # None /\ (pending \/ Unused(Redrives) # {})
  /\ pending' = TRUE
  /\ BatchReturns(s)
  /\ Finished(s)
  /\ UNCHANGED <<writer, retry, slot, raced, crossed, failures, turn, history,
                 watermark, file, crashes>>

Races(s) == raced' = (raced \/ \E t \in Calls \ {s} : pc[t] \in Starting)

(* A mutant of Enter: the slot is not looked at.                             *)
EnterAnyTime(s) ==
  /\ Due(s)
  /\ pc' = [pc EXCEPT ![s] = "reading"]
  /\ Races(s)
  /\ UNCHANGED <<keys, linked, view, lo, writer, retry, slot, pending, claims,
                 failures, turn, history, watermark, file, crashes>>

(* The slot is free, and stays so until some call takes it.                  *)
Enter(s) ==
  /\ Due(s) /\ slot = None
  /\ pc' = [pc EXCEPT ![s] = "reading"]
  /\ Races(s)
  /\ UNCHANGED <<keys, linked, view, lo, writer, retry, slot, pending, claims,
                 failures, turn, history, watermark, file, crashes>>

(* No actor service, no messages, a system-spawned session.                  *)
SkipCall(s) ==
  /\ pc[s] \in {"reading", "dated"}
  /\ BatchReturns(s)
  /\ Finished(s)
  /\ UNCHANGED <<writer, retry, entry, crossed, failures, turn, history,
                 watermark, file, crashes>>

(* A defect, of a read or of a directory that cannot be made: the batch ends *)
(* with its call, and what it has claimed stays claimed.                     *)
CallDies(s) ==
  /\ pc[s] \in {"reading", "dated", "spawning"}
  /\ Finished(s)
  /\ UNCHANGED <<writer, retry, entry, claims, failures, turn, history,
                 watermark, file, crashes>>

(* The ids computeBoundary may choose in the window: the first, which is the *)
(* newest marker if there is one, or one before the last message, which      *)
(* depends on how long the messages are.                                     *)
First == IF marks > 0 THEN Id(base, marks) ELSE Id(1, 0)

Boundaries == {First} \cup {Id(m, 0) : m \in base + 1 .. len - 1}

ReadMessages(s) ==
  /\ pc[s] = "reading" /\ len > 0
  /\ \E end \in Boundaries :
        view' = [view EXCEPT ![s] = [base |-> base, mark |-> marks, end |-> end]]
  /\ pc' = [pc EXCEPT ![s] = "dated"]
  /\ UNCHANGED <<keys, linked, lo, writer, retry, entry, claims, failures, turn,
                 history, watermark, file, crashes>>

Touch == touched' = [s \in Calls |-> touched[s] \/ pc[s] = "watching"]

(* The template is written if there is no file; then the watermark is read.  *)
(* The range starts after it, or with the window if the window does not show *)
(* it, or earlier, because it starts with a user's message.                  *)
ReadWatermark(s) ==
  LET v == view[s]
      next == IF Shows(v.base, v.mark, watermark) THEN watermark.at + 1 ELSE v.base + 1
  IN  /\ pc[s] = "dated"
      /\ \E from \in {v.base + 1, next} :
            /\ \/ v.end.at >= from
               \/ v.end.mark > 0 /\ from = v.base + 1
            /\ lo' = [lo EXCEPT ![s] = from]
      /\ pc' = [pc EXCEPT ![s] = "spawning"]
      /\ present' = TRUE
      /\ IF present THEN UNCHANGED touched ELSE Touch
      /\ UNCHANGED <<keys, linked, view, writer, retry, entry, claims, failures,
                     turn, history, watermark, recorded, crashes>>

(* actor.spawn: the writer is at work before its call takes the slot.        *)
Spawn(s) ==
  /\ pc[s] = "spawning"
  /\ writer' = [writer EXCEPT ![s] = "running"]
  /\ pc' = [pc EXCEPT ![s] = "spawned"]
  /\ UNCHANGED <<keys, linked, view, lo, retry, entry, claims, failures, turn,
                 history, watermark, file, crashes>>

(* writers.set: whatever the entry held, a queued request too, is replaced.  *)
TakeSlot(s) ==
  /\ pc[s] = "spawned"
  /\ slot' = s /\ pending' = FALSE /\ UNCHANGED raced
  /\ pc' = [pc EXCEPT ![s] = "statting"]
  /\ UNCHANGED <<keys, linked, view, lo, writer, retry, claims, failures, turn,
                 history, watermark, file, crashes>>

(* The file's stat is taken, the watcher forked, "started" returned.         *)
Started(s) ==
  /\ pc[s] = "statting"
  /\ pc' = [pc EXCEPT ![s] = "watching"]
  /\ touched' = [touched EXCEPT ![s] = FALSE]
  /\ BatchReturns(s)
  /\ keys' = [keys EXCEPT ![s] = {}]
  /\ linked' = [linked EXCEPT ![s] = FALSE]
  /\ retry' = [retry EXCEPT ![s] = IF s \in Batches THEN "forked" ELSE "off"]
  /\ UNCHANGED <<view, lo, writer, entry, crossed, failures, turn, history,
                 watermark, recorded, present, crashes>>

-----------------------------------------------------------------------------
(* The writer: a subagent that may or may not write, and ends either way.    *)

WriterWrites(s) ==
  /\ writer[s] = "running"
  /\ recorded' = recorded \cup (lo[s] .. view[s].end.at)
  /\ Touch
  /\ <<recorded, touched>>' # <<recorded, touched>>
  /\ UNCHANGED <<starts, writer, retry, entry, claims, failures, turn, history,
                 watermark, present, crashes>>

WriterEnds(s) ==
  /\ writer[s] = "running"
  /\ \E o \in {"success", "failure"} : writer' = [writer EXCEPT ![s] = o]
  /\ UNCHANGED <<starts, retry, entry, claims, failures, turn, history,
                 watermark, file, crashes>>

(* A mutant of Advance: the model's word instead of the file's.              *)
AdvanceOnSuccess(s) ==
  watermark' = IF writer[s] = "success" THEN view[s].end ELSE watermark

(* The watermark moves only if the writer succeeded and the file changed.    *)
Advance(s) ==
  watermark' = IF writer[s] = "success" /\ touched[s] THEN view[s].end ELSE watermark

(* writers.delete(sessionID), whoever has the slot.                          *)
FreeSlot == slot' = None /\ pending' = FALSE /\ UNCHANGED raced

(* A mutant of Redrive: the request is looked for when the entry is gone.    *)
ForgetRequest(s) == pc' = [pc EXCEPT ![s] = "finished"]

(* The watcher of call s calls for what was queued when it freed the slot.   *)
Redrive(s) ==
  LET r == CHOOSE n \in Redrives : pc[n] = "new"
  IN  pc' = IF pending THEN [pc EXCEPT ![s] = "finished", ![r] = "called"]
                       ELSE [pc EXCEPT ![s] = "finished"]

(* The watcher of call s has the outcome.                                    *)
Settle(s) ==
  /\ pc[s] = "watching" /\ writer[s] # "running"
  /\ Advance(s)
  /\ FreeSlot
  /\ Redrive(s)
  /\ view' = [view EXCEPT ![s] = NoView]
  /\ lo' = [lo EXCEPT ![s] = 0]
  /\ touched' = [touched EXCEPT ![s] = FALSE]
  /\ UNCHANGED <<keys, linked, writer, retry, claims, failures, turn,
                 history, recorded, present, crashes>>

-----------------------------------------------------------------------------
(* The main agent's loop (prompt.ts), as far as it concerns checkpoints.     *)

LoopStep(from, to) == loop = from /\ loop' = to

Prompt ==
  /\ LoopStep("idle", "top") /\ len < MaxMessages
  /\ len' = len + 1
  /\ skip' = FALSE
  /\ UNCHANGED <<starts, writer, retry, entry, claims, failures, awaited, level,
                 base, marks, hidden, watermark, file, crashes>>

(* Below the limits, or the last step was an answer.                         *)
CheckPasses ==
  /\ LoopStep("check", "stepping")
  /\ skip' = FALSE
  /\ UNCHANGED <<starts, writer, retry, entry, claims, failures, awaited, level,
                 history, watermark, file, crashes>>

StepEnds ==
  /\ loop = "stepping"
  /\ \/ loop' = "idle" /\ UNCHANGED <<level, len>>
     \/ /\ len < MaxMessages
        /\ len' = len + 1
        /\ loop' \in {"top", "idle"}
        /\ level' \in level..Top
  /\ UNCHANGED <<starts, writer, retry, entry, claims, failures, skip, awaited,
                 base, marks, hidden, watermark, file, crashes>>

(* A marker after message at: the window restarts there.                     *)
Insert(at) ==
  /\ base' = at
  /\ marks' = marks + 1
  /\ hidden' = hidden \cup {m \in base + 1 .. at : m > watermark.at}
  /\ ForgetClaims
  /\ level' = 0
  /\ loop' = "top"
  /\ UNCHANGED <<pc, keys, view, lo, writer, retry, entry, failures, awaited,
                 len, watermark, file, crashes>>

(* An overflow: either the sizes say so, and the next check is skipped, or   *)
(* the provider reports it.  The loop waits for the writer in the slot.      *)
Overflows ==
  \/ loop = "check" /\ ~ skip /\ (maxCrossed \/ (Top > 0 /\ level = Top)) /\ skip' = TRUE
  \/ loop = "stepping" /\ UNCHANGED skip

AwaitWriter ==
  /\ Overflows /\ marks < MaxRebuilds
  /\ present \/ (loop = "stepping" /\ slot # None)
  /\ awaited' = slot
  /\ loop' = "waiting"
  /\ UNCHANGED <<starts, writer, retry, entry, claims, failures, level, history,
                 watermark, file, crashes>>

(* No checkpoint: everything is hidden (a marker after the last message, or  *)
(* a compaction, whose summary stands for it).                               *)
HideAll ==
  /\ Overflows /\ marks < MaxRebuilds
  /\ ~ (present \/ (loop = "stepping" /\ slot # None))
  /\ Insert(len)

(* The writer has an outcome, or there is none, or five minutes have passed. *)
WaitIsOver ==
  /\ LoopStep("waiting", "rebuilding")
  /\ awaited' = None
  /\ UNCHANGED <<starts, writer, retry, entry, claims, failures, skip, level,
                 history, watermark, file, crashes>>

(* Where insertRebuildBoundary puts the marker: after the message that the   *)
(* watermark names, if the window shows it, and otherwise at the end.        *)
MarkerPlace == IF Shows(base, marks, watermark) THEN watermark.at ELSE len

Rebuild ==
  /\ loop = "rebuilding"
  /\ Insert(MarkerPlace)
  /\ UNCHANGED skip

-----------------------------------------------------------------------------
(* The process dies: the maps and the fibers go, rows and files stay.        *)
Crash ==
  /\ crashes < MaxCrashes
  /\ crashes' = crashes + 1
  /\ pc' = [s \in Calls |-> IF pc[s] = "new" THEN "new" ELSE "finished"]
  /\ keys' = [s \in Calls |-> {}]
  /\ linked' = [s \in Calls |-> FALSE]
  /\ view' = [s \in Calls |-> NoView]
  /\ lo' = [s \in Calls |-> 0]
  /\ writer' = [s \in Calls |-> IF writer[s] = "none" THEN "none" ELSE "failure"]
  /\ touched' = [s \in Calls |-> FALSE]
  /\ retry' = [s \in Calls |-> "off"]
  /\ slot' = None /\ pending' = FALSE /\ UNCHANGED raced
  /\ crossed' = {} /\ maxCrossed' = FALSE /\ failures' = 0
  /\ loop' = "idle" /\ skip' = FALSE /\ awaited' = None /\ level' = 0
  /\ UNCHANGED <<history, watermark, recorded, present>>

CallStep(s) ==
  \/ QueueUp(s) \/ Enter(s) \/ SkipCall(s) \/ ReadMessages(s) \/ ReadWatermark(s)
  \/ Spawn(s) \/ TakeSlot(s) \/ Started(s) \/ Settle(s)

RetryStep(s) == RetryLooks(s) \/ RetryHearsSuccess(s) \/ RetryHearsFailure(s)

LoopSteps ==
  \/ FireLooks \/ FireClaims \/ FirePasses \/ CheckPasses \/ StepEnds
  \/ AwaitWriter \/ HideAll \/ WaitIsOver \/ Rebuild

Next ==
  \/ \E s \in Calls :
        CallStep(s) \/ CallDies(s) \/ NeverQuiet(s) \/ RetryStep(s) \/ WriterWrites(s) \/ WriterEnds(s)
  \/ Prompt
  \/ LoopSteps
  \/ Crash

Spec == Init /\ [][Next]_vars

(* Fibers proceed, the loop and the writers end their work.  Prompts,        *)
(* overflows and crashes are not assumed.                                    *)
LiveSpec ==
  /\ Spec
  /\ \A s \in Calls : WF_vars(CallStep(s)) /\ WF_vars(WriterEnds(s))

-----------------------------------------------------------------------------
Running == {s \in Calls : writer[s] = "running"}

(* At most one checkpoint writer is at work: they write the same file        *)
(* (checkpoint.ts:86 and :561, the guard that the slot is for).              *)
OneWriter == \A s, t \in Running : s = t

(* Two writers are at work only after two calls have passed the guard while  *)
(* neither had taken the slot: settles, redrives, failures, rebuilds and     *)
(* restarts in any order do not bring a second one about.                    *)
OneWriterUnlessRaced == ~ raced => OneWriter

(* The checkpoint holds every message up to the watermark that a writer      *)
(* could see: the range of the next writer starts after it, so what is not   *)
(* in the file then is never given to one (checkpoint.ts:945-975).  Again    *)
(* only that race can make the watermark pass what was written.              *)
ProgressUnlessRaced ==
  ~ raced => \A m \in 1..watermark.at : m \in recorded \cup hidden

(* Whoever finds the slot taken leaves its request to a watcher that is yet  *)
(* to look: the slot is never held by a call that has settled.               *)
SlotIsWatched ==
  /\ slot # None => pc[slot] \in {"statting", "watching"}
  /\ pending => slot # None

(* Thresholds that a batch holds in the session's present set stay claimed   *)
(* until it has called, whatever other batches give back: no second batch    *)
(* claims them (prune.ts:360-383, 404-410).                                  *)
ClaimHeld ==
  \A s \in Batches : pc[s] = "waiting" /\ linked[s] =>
     /\ keys[s] \subseteq crossed
     /\ \A t \in Batches \ {s} : pc[t] = "waiting" /\ linked[t] => keys[s] \cap keys[t] = {}

Redriven == Cardinality({r \in Redrives : pc[r] # "new"})

(* A request that was queued behind a writer is called for when the writer   *)
(* is done (checkpoint.ts:1010), unless the process dies or two calls race:  *)
(* then the second one's entry replaces the first's, and its request.        *)
PendingServed ==
  \A n \in 0..Cardinality(Redrives), k \in 0..MaxCrashes :
    (pending /\ Redriven = n /\ crashes = k) ~> (Redriven > n \/ crashes > k \/ raced)

-----------------------------------------------------------------------------
(* What comments say and the code does not do.                               *)

(* "messages strictly newer than the boundary will survive" a rebuild        *)
(* (checkpoint.ts:1552): what is after the watermark is not hidden.          *)
RebuildKeepsTail ==
  loop = "rebuilding" /\ watermark # Id(0, 0) =>
     \A m \in base + 1 .. MarkerPlace : m <= watermark.at

=============================================================================
