------------------------------- MODULE Workflow -------------------------------
(***************************************************************************)
(* workflow/runtime.ts, sandbox.ts and persistence.ts: one workflow run,   *)
(* launched, cancelled, killed with the process and resumed under the same *)
(* id, with the journal that lets a resume replay the agents of earlier    *)
(* launches.                                                               *)
(*                                                                         *)
(* A launch has a guest (the script in its sandbox), the calls of agent    *)
(* the guest has made, and a fiber that waits for the guest and then       *)
(* writes the outcome.  A cancel interrupts the fiber; nothing tells the   *)
(* guest or the calls that wait for a slot.                                *)
(***************************************************************************)
EXTENDS Naturals, FiniteSets

CONSTANTS
  NumCalls,     \* calls of agent in the script, made in this order
  MaxLaunches,  \* bound on launches: the start and the resumes
  MaxAgents,    \* maxConcurrentAgents
  Resumers,     \* callers of resume
  MaxEdits,     \* bound on edits of the persisted script
  MaxCancels,   \* bound on the cancels of one launch that overlap
  MaxCrashes,   \* bound on the deaths of the process
  MaxTorn       \* bound on appends that a death cuts short

ASSUME WorkflowAssumption ==
  /\ "free" \notin Resumers
  /\ NumCalls \in Nat \ {0} /\ MaxLaunches \in Nat \ {0}
  /\ MaxAgents \in Nat \ {0} /\ MaxCancels \in Nat
  /\ MaxEdits \in Nat /\ MaxCrashes \in Nat /\ MaxTorn \in Nat

Calls == 1..NumCalls
Launches == 1..MaxLaunches
Versions == 0..MaxEdits   \* what the script may say
Nothing == MaxEdits + 1   \* no result in the journal

VARIABLES
  script,   \* the script, by its version
  saved,    \* it is on disk
  row,      \* the run's row: its status and the hash of the script
  journal,  \* journal[k]: the script that made the last whole line of call k
  torn,     \* the file ends in a part of a line
  since,    \* the launch that recorded the hash the row has
  got,      \* calls whose result a guest has received since then
  born,     \* launches so far
  current,  \* the launch in the map of runs, or 0
  phase,    \* phase[e]: how far launch e has come
  version,  \* version[e]: the script launch e runs
  cache,    \* cache[e]: the journal it has loaded
  status,   \* status[e]: the status of its entry
  guest,    \* guest[e]: the script in the sandbox
  call,     \* call[e][k]: the call of agent
  told,     \* told[e]: what its deferred was completed with
  cancel,   \* cancel[e]: how many calls of cancel are under way
  lock,     \* the holder of the write lock of the run's id, or "free"
  resumer,  \* resumer[r]: where the call of resume is
  edits, crashes, tears

disk == <<script, saved, row, journal, torn>>
history == <<since, got>>
entry == <<phase, version, cache, status, guest, call, told, cancel>>
process == <<born, current, entry>>
locks == <<lock, resumer>>
faults == <<edits, crashes, tears>>
vars == <<disk, history, process, locks, faults>>

Statuses == {"none", "running", "completed", "failed", "cancelled"}

TypeOK ==
  /\ script \in Versions /\ saved \in BOOLEAN /\ torn \in BOOLEAN
  /\ row \in [status : Statuses, sha : Versions]
  /\ journal \in [Calls -> Versions \cup {Nothing}]
  /\ since \in 0..born /\ got \subseteq Calls
  /\ born \in 0..MaxLaunches /\ current \in 0..born
  /\ phase \in [Launches -> {"unborn", "record", "write", "rewrite", "clear",
                             "load", "eval", "reclaim", "dead", "done"}]
  /\ version \in [Launches -> Versions]
  /\ cache \in [Launches -> [Calls -> Versions \cup {Nothing}]]
  /\ status \in [Launches -> Statuses]
  /\ guest \in [Launches -> {"off", "on", "returned", "threw"}]
  /\ call \in [Launches -> [Calls -> {"no", "queued", "up", "back"}]]
  /\ told \in [Launches -> Statuses]
  /\ cancel \in [Launches -> 0..MaxCancels]
  /\ lock \in Resumers \cup {"free"}
  /\ resumer \in [Resumers -> {"idle", "holds", "launches", "back"}]
  /\ edits \in 0..MaxEdits /\ crashes \in 0..MaxCrashes
  /\ tears \in 0..MaxTorn

Init ==
  /\ script = 0 /\ saved = FALSE /\ row = [status |-> "none", sha |-> 0]
  /\ journal = [k \in Calls |-> Nothing] /\ torn = FALSE
  /\ since = 0 /\ got = {}
  /\ born = 0 /\ current = 0
  /\ phase = [e \in Launches |-> "unborn"]
  /\ version = [e \in Launches |-> 0]
  /\ cache = [e \in Launches |-> [k \in Calls |-> Nothing]]
  /\ status = [e \in Launches |-> "none"]
  /\ guest = [e \in Launches |-> "off"]
  /\ call = [e \in Launches |-> [k \in Calls |-> "no"]]
  /\ told = [e \in Launches |-> "none"]
  /\ cancel = [e \in Launches |-> 0]
  /\ lock = "free" /\ resumer = [r \in Resumers |-> "idle"]
  /\ edits = 0 /\ crashes = 0 /\ tears = 0

-----------------------------------------------------------------------------
(* start, resume and launch.                                                 *)

(* A new launch of the script.                                               *)
Begin(e) ==
  /\ born < MaxLaunches /\ e = born + 1 /\ born' = e
  /\ phase' = [phase EXCEPT ![e] = "record"]
  /\ version' = [version EXCEPT ![e] = script]
  /\ UNCHANGED <<current, cache, status, guest, call, told, cancel>>

(* start mints the id, so there is nothing to guard.                         *)
Start ==
  /\ born = 0 /\ Begin(1)
  /\ UNCHANGED <<disk, history, locks, faults>>

(* A mutant of Lock: resumes of one id are not serialized.                   *)
LockShared(r) ==
  /\ resumer[r] = "idle" /\ row.status # "none" /\ lock' = r
  /\ resumer' = [resumer EXCEPT ![r] = "holds"]
  /\ UNCHANGED <<disk, history, process, faults>>

(* A call of resume gets the write lock of the id, in its turn.              *)
Lock(r) ==
  /\ resumer[r] = "idle" /\ row.status # "none"
  /\ lock = "free" /\ lock' = r
  /\ resumer' = [resumer EXCEPT ![r] = "holds"]
  /\ UNCHANGED <<disk, history, process, faults>>

Live == current # 0 /\ status[current] = "running"

(* The live guard; then the row and the script are read, the hashes          *)
(* compared, and the launch begins.  The lock is given back on every path.   *)
Refuse(r) ==
  /\ resumer[r] = "holds" /\ (Live \/ ~ saved \/ born = MaxLaunches)
  /\ resumer' = [resumer EXCEPT ![r] = "back"] /\ lock' = "free"
  /\ UNCHANGED <<disk, history, process, faults>>

Relaunch(r) ==
  /\ resumer[r] = "holds" /\ ~ Live /\ saved
  /\ Begin(born + 1)
  /\ resumer' = [resumer EXCEPT ![r] = "launches"]
  /\ UNCHANGED <<disk, history, lock, faults>>

(* A mutant of Fresh: the two hashes are never the same.                     *)
FreshAlways(e) == row.status # "none"

(* A hash that differs from the recorded one asks for a new journal.         *)
Fresh(e) == row.status # "none" /\ row.sha # version[e]

(* launch: the entry, and recordStart with the hash of the script.           *)
Record(e) ==
  /\ phase[e] = "record"
  /\ phase' = [phase EXCEPT ![e] = IF Fresh(e) THEN "rewrite" ELSE "write"]
  /\ current' = e /\ status' = [status EXCEPT ![e] = "running"]
  /\ row' = [status |-> "running", sha |-> version[e]]
  /\ IF row.sha # version[e] THEN since' = e /\ got' = {}
                             ELSE UNCHANGED history
  /\ UNCHANGED <<script, saved, journal, torn, born, version, cache, guest,
                 call, told, cancel, locks, faults>>

(* writeScript puts down what was read, whatever an edit has made of it.     *)
WriteScript(e) ==
  /\ phase[e] \in {"write", "rewrite"}
  /\ phase' = [phase EXCEPT ![e] = IF @ = "rewrite" THEN "clear" ELSE "load"]
  /\ script' = version[e] /\ saved' = TRUE
  /\ UNCHANGED <<row, journal, torn, history, born, current, version, cache,
                 status, guest, call, told, cancel, locks, faults>>

ClearJournal(e) ==
  /\ phase[e] = "clear" /\ phase' = [phase EXCEPT ![e] = "load"]
  /\ journal' = [k \in Calls |-> Nothing] /\ torn' = FALSE
  /\ UNCHANGED <<script, saved, row, history, born, current, version, cache,
                 status, guest, call, told, cancel, locks, faults>>

(* A resume gives back the lock when its launch, which is the last, is over. *)
GiveBack(e) ==
  IF e = born /\ lock # "free" /\ resumer[lock] = "launches"
    THEN resumer' = [resumer EXCEPT ![lock] = "back"] /\ lock' = "free"
    ELSE UNCHANGED locks

(* loadJournal, and the fork of the work.                                    *)
Load(e) ==
  /\ phase[e] = "load" /\ phase' = [phase EXCEPT ![e] = "eval"]
  /\ cache' = [cache EXCEPT ![e] = journal]
  /\ guest' = [guest EXCEPT ![e] = "on"]
  /\ GiveBack(e)
  /\ UNCHANGED <<disk, history, born, current, version, status, call, told,
                 cancel, faults>>

(* The launch dies before it has forked the work: its caller is interrupted, *)
(* or the database or a file fails, as a defect that Effect.ignore lets      *)
(* pass.  The entry, which is there by then, stays.                          *)
LaunchDies(e) ==
  /\ phase[e] \in {"record", "write", "rewrite", "clear", "load"}
  /\ phase' = [phase EXCEPT ![e] = "dead"]
  /\ IF phase[e] = "record"
       THEN current' = e /\ status' = [status EXCEPT ![e] = "running"]
       ELSE UNCHANGED <<current, status>>
  /\ GiveBack(e)
  /\ UNCHANGED <<disk, history, born, version, cache, guest, call, told,
                 cancel, faults>>

-----------------------------------------------------------------------------
(* The guest and its agents.                                                 *)

SetCall(e, k, s) == call' = [call EXCEPT ![e][k] = s]
Up == {c \in Launches \X Calls : call[c[1]][c[2]] = "up"}

Back(e, k) == SetCall(e, k, IF guest[e] = "on" THEN "back" ELSE "no")

Receive(e, k) ==
  /\ got' = IF guest[e] = "on" /\ e >= since THEN got \cup {k} ELSE got
  /\ UNCHANGED since

(* The guest calls agent without waiting, or after it has waited, for the    *)
(* calls before: a result of the journal comes back at once.                 *)
Call(e, k) ==
  /\ guest[e] = "on" /\ call[e][k] = "no"
  /\ \A j \in Calls : j < k => call[e][j] # "no"
  /\ IF cache[e][k] # Nothing
       THEN SetCall(e, k, "back") /\ Receive(e, k)
       ELSE SetCall(e, k, "queued") /\ UNCHANGED history
  /\ UNCHANGED <<disk, born, current, phase, version, cache, status, guest,
                 told, cancel, locks, faults>>

(* A slot of the semaphore: the spawn asks nothing about the run.            *)
Spawn(e, k) ==
  /\ call[e][k] = "queued" /\ Cardinality(Up) < MaxAgents
  /\ SetCall(e, k, "up")
  /\ UNCHANGED <<disk, history, born, current, phase, version, cache, status,
                 guest, told, cancel, locks, faults>>

(* appendJournalSync: a line behind a torn one is part of that line.         *)
Append(e, k) ==
  /\ journal' = IF torn THEN journal ELSE [journal EXCEPT ![k] = version[e]]
  /\ torn' = FALSE

(* The agent ends, and its slot is free.  A result is appended before the    *)
(* guest gets it.                                                            *)
AgentAnswers(e, k) ==
  /\ call[e][k] = "up" /\ Back(e, k)
  /\ Append(e, k)
  /\ Receive(e, k)
  /\ UNCHANGED <<script, saved, row, born, current, phase, version, cache,
                 status, guest, told, cancel, locks, faults>>

(* It fails, is cancelled or takes too long: no result, and no line.         *)
AgentFails(e, k) ==
  /\ call[e][k] = "up" /\ Back(e, k)
  /\ UNCHANGED <<disk, history, born, current, phase, version, cache, status,
                 guest, told, cancel, locks, faults>>

(* The sandbox is disposed, with the answers it holds.                       *)
Dispose(e, how) ==
  /\ guest' = [guest EXCEPT ![e] = IF phase[e] = "eval" THEN how ELSE "off"]
  /\ cache' = [cache EXCEPT ![e] = [k \in Calls |-> Nothing]]
  /\ call' = [call EXCEPT ![e] = [k \in Calls |->
                IF call[e][k] = "back" THEN "no" ELSE call[e][k]]]

(* The script returns when all its calls are back; it may throw at any time. *)
Return(e) ==
  /\ guest[e] = "on" /\ \A k \in Calls : call[e][k] = "back"
  /\ Dispose(e, "returned")
  /\ UNCHANGED <<disk, history, born, current, phase, version, status, told,
                 cancel, locks, faults>>

Throw(e) ==
  /\ guest[e] = "on" /\ Dispose(e, "threw")
  /\ UNCHANGED <<disk, history, born, current, phase, version, status, told,
                 cancel, locks, faults>>

(* A mutant of Deadline: it reaches only a guest that waits for nothing.     *)
DeadlineOfBusy(e) ==
  /\ \A k \in Calls : call[e][k] \notin {"queued", "up"}
  /\ Throw(e)

(* The timer of evalScript, whatever the guest waits for.                    *)
Deadline(e) == Throw(e)

-----------------------------------------------------------------------------
(* How a run ends.                                                           *)

(* The entry, the row if there is one, and the deferred, which keeps its     *)
(* first value.                                                              *)
End(e, s) ==
  /\ status' = [status EXCEPT ![e] = s]
  /\ row' = [row EXCEPT !.status = IF @ = "none" THEN @ ELSE s]
  /\ told' = IF told[e] = "none" THEN [told EXCEPT ![e] = s] ELSE told

Complete(e) ==
  /\ phase[e] = "eval" /\ guest[e] = "returned"
  /\ phase' = [phase EXCEPT ![e] = "done"] /\ End(e, "completed")
  /\ guest' = [guest EXCEPT ![e] = "off"]
  /\ UNCHANGED <<script, saved, journal, torn, history, born, current, version, cache,
                 call, cancel, locks, faults>>

(* The failure cancels the children, which may take a while, and then ends.  *)
Reclaim(e) ==
  /\ phase[e] = "eval" /\ guest[e] = "threw"
  /\ phase' = [phase EXCEPT ![e] = "reclaim"]
  /\ guest' = [guest EXCEPT ![e] = "off"]
  /\ UNCHANGED <<disk, history, born, current, version, cache, status, call, told,
                 cancel, locks, faults>>

Fail(e) ==
  /\ phase[e] = "reclaim"
  /\ phase' = [phase EXCEPT ![e] = "done"] /\ End(e, "failed")
  /\ UNCHANGED <<script, saved, journal, torn, history, born, current, version, cache,
                 guest, call, cancel, locks, faults>>

(* cancelEntry: the guard, and then the reclaim.                             *)
CancelStart(e) ==
  /\ current = e /\ status[e] = "running" /\ cancel[e] < MaxCancels
  /\ cancel' = [cancel EXCEPT ![e] = @ + 1]
  /\ UNCHANGED <<disk, history, born, current, phase, version, cache, status,
                 guest, call, told, locks, faults>>

(* The children have had their time, and worktrees and child runs theirs:    *)
(* the fiber, if the launch has forked it, is interrupted.                   *)
CancelEnd(e) ==
  /\ cancel[e] > 0 /\ cancel' = [cancel EXCEPT ![e] = @ - 1]
  /\ phase' = [phase EXCEPT ![e] =
                 IF @ \in {"write", "rewrite", "clear", "load"} THEN @ ELSE "done"]
  /\ End(e, "cancelled")
  /\ UNCHANGED <<script, saved, journal, torn, history, born, current, version,
                 cache, guest, call, locks, faults>>

-----------------------------------------------------------------------------
(* The world.                                                                *)

(* The persisted script is edited, or put back to what it was before.        *)
Edit ==
  /\ saved /\ edits < MaxEdits /\ edits' = edits + 1
  /\ script' \in Versions \ {script}
  /\ UNCHANGED <<saved, row, journal, torn, history, process, locks, crashes,
                 tears>>

(* The process dies, perhaps in the middle of an append.                     *)
Crash ==
  /\ crashes < MaxCrashes /\ crashes' = crashes + 1
  /\ \/ UNCHANGED <<torn, tears>>
     \/ /\ tears < MaxTorn /\ \E e \in Launches, k \in Calls : call[e][k] = "up"
        /\ torn' = TRUE /\ tears' = tears + 1
  /\ current' = 0
  /\ phase' = [e \in Launches |-> IF e <= born THEN "done" ELSE "unborn"]
  /\ status' = [e \in Launches |-> "none"]
  /\ guest' = [e \in Launches |-> "off"]
  /\ call' = [e \in Launches |-> [k \in Calls |-> "no"]]
  /\ version' = [e \in Launches |-> 0]
  /\ cache' = [e \in Launches |-> [k \in Calls |-> Nothing]]
  /\ cancel' = [e \in Launches |-> 0] /\ told' = [e \in Launches |-> "none"]
  /\ lock' = "free"
  /\ resumer' = [r \in Resumers |-> IF resumer[r] = "idle" THEN "idle"
                                                          ELSE "back"]
  /\ UNCHANGED <<script, saved, row, journal, history, born, edits>>

-----------------------------------------------------------------------------
(* The fiber of a launch, and then the fiber of its work.                    *)
FiberStep(e) ==
  \/ Record(e) \/ WriteScript(e) \/ ClearJournal(e) \/ Load(e)
  \/ Complete(e) \/ Reclaim(e) \/ Fail(e)

Next ==
  \/ Start \/ Edit \/ Crash
  \/ \E r \in Resumers : Lock(r) \/ Refuse(r) \/ Relaunch(r)
  \/ \E e \in Launches :
       \/ Record(e) \/ WriteScript(e) \/ ClearJournal(e) \/ Load(e)
       \/ LaunchDies(e)
       \/ Complete(e) \/ Reclaim(e) \/ Fail(e) \/ Return(e) \/ Throw(e)
       \/ CancelStart(e) \/ CancelEnd(e)
       \/ \E k \in Calls :
            \/ Call(e, k) \/ Spawn(e, k)
            \/ AgentAnswers(e, k) \/ AgentFails(e, k)

Spec == Init /\ [][Next]_vars

(* Fibers and timers go on: the steps of a launch, the deadline of the       *)
(* sandbox, what follows the end of a guest, the steps of a resume.  No      *)
(* agent has to answer, no guest has to do anything, no cancel has to end:   *)
(* it removes worktrees and cancels child runs without a limit.              *)
LiveSpec ==
  /\ Spec
  /\ \A e \in Launches :
       WF_vars(FiberStep(e)) /\ WF_vars(Deadline(e))
  /\ \A r \in Resumers : WF_vars(Refuse(r) \/ Relaunch(r))

-----------------------------------------------------------------------------
(* Properties.                                                               *)

(* A launch that runs is the one in the map, where status, cancel and the    *)
(* guard of resume find it, however many resumes compete.                    *)
RunningIsCurrent == \A e \in Launches : status[e] = "running" => e = current

(* What a guest has received since the script was recorded, every later      *)
(* launch of that script replays, wherever launches and the process die:     *)
(* only a result that was appended to half a line is missing, one for each   *)
(* line that a death cut short.                                              *)
Missed(e) == {k \in got : cache[e][k] = Nothing}

ReplayMissesTornOnly ==
  [][\A e \in Launches : phase[e] = "load" /\ phase'[e] = "eval" =>
       Cardinality(Missed(e)') <= tears]_vars

(* A run that runs comes to an end, whatever its agents do, whatever the     *)
(* guest waits for, and though a cancel may never come back: all but the run *)
(* of a launch that has died before it forked the work.                      *)
RunSettles == \A e \in Launches :
  status[e] = "running" ~> status[e] # "running" \/ phase[e] = "dead"

(* A death of the process costs no agent its work (the code does not keep    *)
(* it: the result after a torn line is lost with that line).                 *)
ReplayIsComplete ==
  [][\A e \in Launches : phase[e] = "load" /\ phase'[e] = "eval" =>
       \A k \in Calls :
         k \in got => cache'[e][k] # Nothing]_vars

(* A run that has ended starts no agent (the code does not keep it: nothing  *)
(* stops the guest, nor the calls that wait for a slot).                     *)
EndStopsTheWork ==
  [][\A e \in Launches, k \in Calls :
       call[e][k] = "queued" /\ call'[e][k] = "up" => told[e] = "none"]_vars

(* A run that says it runs has a fiber that runs it (the code does not keep  *)
(* it: an entry that its launch has left behind is found live for ever).     *)
RunningHasAFiber == \A e \in Launches : status[e] = "running" => phase[e] # "dead"

(* Who waits is told what the row says (the code does not keep it: a run     *)
(* completes in the window of its own cancel).                               *)
ToldIsRecorded ==
  born = 1 /\ told[1] # "none" => row.status = told[1]

(* While a launch runs the row says so (the code does not keep it: the end   *)
(* of a cancel, or of an earlier launch, writes the row of the next).        *)
RowSaysRunning ==
  Live /\ phase[current] \in {"eval", "reclaim"} => row.status = "running"

(* A launch replays the results of its own script only (the code does not    *)
(* keep it: the new hash is recorded before the journal is cleared, and a    *)
(* guest that nobody has stopped appends to it later).                       *)
ReplayIsOfThisScript == \A e \in Launches, k \in Calls :
  cache[e][k] \in {Nothing, version[e]}
=============================================================================
