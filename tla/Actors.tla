-------------------------------- MODULE Actors --------------------------------
(***************************************************************************)
(* actor/spawn.ts, actor/turn.ts, actor/registry.ts and actor/waiter.ts:   *)
(* the subagents of one session, from their spawn to the end of the fiber  *)
(* that works for them.                                                    *)
(* The fiber runs a turn, then further turns as long as the preStop hooks  *)
(* ask for one, then those that open tasks of the actor call for, then it  *)
(* notifies the parent and settles the outcome, and then it runs the turns *)
(* that the postStop hooks ask for.  Every turn marks the actor's row      *)
(* running and then idle.  Beside the fiber there are the call that        *)
(* spawned the actor and joins its fiber, a call of wait that watches the  *)
(* row, and a call of cancel that writes to the row and stops the run.     *)
(***************************************************************************)
EXTENDS Naturals

CONSTANTS
  Actors,      \* spawned subagents
  MaxPre,      \* MAX_PRE_REACT
  MaxGate,     \* MAX_TASK_GATE_SUBAGENT_REACT
  MaxPost,     \* MAX_POST_REACT
  MaxCrashes   \* bound on the restarts of the process

ASSUME ActorsAssumption ==
  MaxPre \in Nat /\ MaxGate \in Nat /\ MaxPost \in Nat /\ MaxCrashes \in Nat

VARIABLES
  input,    \* input[a]: whether its parent joins it, and its lifecycle
  row,      \* row[a]: status and last_outcome in the registry
  pc,       \* pc[a]: how far the fiber of actor a has got
  phase,    \* phase[a]: the loop it is in
  turns,    \* turns[a]: turns that this loop has run
  note,     \* note[a]: the notification it has sent to its parent
  outcome,  \* outcome[a]: the Deferred of its outcome
  call,     \* call[a]: the tool call that spawned it
  cancel,   \* cancel[a]: the call that cancels it
  wait,     \* wait[a]: the call that waits for it
  poke,     \* poke[a]: an event of its row has made the wait look again
  crashes

fiber == <<pc, phase, turns>>
answer == <<note, outcome>>
vars == <<input, row, fiber, answer, call, cancel, wait, poke, crashes>>

Statuses == {"absent", "pending", "running", "idle"}
Outcomes == {"none", "success", "failure", "cancelled"}
Rows == [status : Statuses, last : Outcomes]

Inputs == [joined : BOOLEAN, ephemeral : BOOLEAN]

Bound == MaxPre + MaxGate + MaxPost + 1

FlagTypes ==
  /\ input \in [Actors -> Inputs]
  /\ poke \in [Actors -> BOOLEAN]

StateTypes ==
  /\ row \in [Actors -> Rows]
  /\ pc \in [Actors -> {"new", "registered", "forked", "begin", "turn",
                        "stopped", "check", "again", "notify", "settle",
                        "over", "dead", "unborn", "lost"}]
  /\ phase \in [Actors -> {"pre", "gate", "post", "failed"}]
  /\ turns \in [Actors -> 0..Bound]
  /\ note \in [Actors -> Outcomes] /\ outcome \in [Actors -> Outcomes]
  /\ call \in [Actors -> {"none", "joining", "awaiting", "returned",
                          "failed", "timeout"}]
  /\ cancel \in [Actors -> {"none", "stamped", "done"}]
  /\ wait \in [Actors -> {"none", "subscribing", "rechecking", "awaiting",
                          "answered", "timeout"}]
  /\ crashes \in 0..MaxCrashes

TypeOK == FlagTypes /\ StateTypes

Init ==
  /\ input \in [Actors -> Inputs]
  /\ row = [a \in Actors |-> [status |-> "absent", last |-> "none"]]
  /\ pc = [a \in Actors |-> "new"]
  /\ phase = [a \in Actors |-> "pre"]
  /\ turns = [a \in Actors |-> 0]
  /\ note = [a \in Actors |-> "none"] /\ outcome = [a \in Actors |-> "none"]
  /\ call = [a \in Actors |-> "none"]
  /\ cancel = [a \in Actors |-> "none"]
  /\ wait = [a \in Actors |-> "none"]
  /\ poke = [a \in Actors |-> FALSE]
  /\ crashes = 0

Goes(a, at) == pc' = [pc EXCEPT ![a] = at]

(* The fiber has come to its end, or a defect has ended it.                  *)
Ended(a) == pc[a] \in {"over", "dead"}

(* updateStatus: the row is written and the event makes a wait that has      *)
(* subscribed look at the row again.  A status without an outcome keeps the  *)
(* outcome that the row has.                                                 *)
UpdateStatus(a, status, last) ==
  /\ row' = [row EXCEPT ![a] = [status |-> status, last |-> last]]
  /\ poke' = [poke EXCEPT ![a] = @ \/ wait[a] \in {"rechecking", "awaiting"}]

-----------------------------------------------------------------------------
(* The fiber of an actor: forkWork and runTurn.                              *)

Register(a) ==
  /\ pc[a] = "new" /\ Goes(a, "registered")
  /\ row' = [row EXCEPT ![a] = [status |-> "pending", last |-> "none"]]
  /\ UNCHANGED <<input, phase, turns, answer, call, cancel, wait, poke, crashes>>

(* The agent has been read, twice, and the task marked as started.  Only a   *)
(* call in the foreground joins the fiber.                                   *)
Fork(a) ==
  /\ pc[a] = "registered" /\ Goes(a, "forked")
  /\ call' = IF input[a].joined THEN [call EXCEPT ![a] = "joining"] ELSE call
  /\ UNCHANGED <<input, row, phase, turns, answer, cancel, wait, poke, crashes>>

(* The spawning call is interrupted, or dies, before the fork.               *)
SpawnDies(a) ==
  /\ pc[a] = "registered" /\ Goes(a, "unborn")
  /\ UNCHANGED <<input, row, phase, turns, answer, call, cancel, wait, poke, crashes>>

BeginTurn(a) ==
  /\ pc[a] \in {"forked", "again"} /\ Goes(a, "begin")
  /\ UpdateStatus(a, "running", row[a].last)
  /\ UNCHANGED <<input, phase, turns, answer, call, cancel, wait, crashes>>

(* The prompt has written its message and its loop is in a runner.           *)
EnterLoop(a) ==
  /\ pc[a] = "begin" /\ Goes(a, "turn")
  /\ UNCHANGED <<input, row, phase, turns, answer, call, cancel, wait, poke, crashes>>

(* The loop has ended, or its runner was cancelled, which gives the prompt   *)
(* the last message as its result.  A turn of the last loop that says        *)
(* nothing is the last one.                                                  *)
EndTurn(a) ==
  /\ pc[a] \in {"turn", "stopped"}
  /\ UpdateStatus(a, "idle", "success")
  /\ turns' = [turns EXCEPT ![a] = @ + 1]
  /\ \/ Goes(a, "check")
     \/ phase[a] = "post" /\ Goes(a, "over")
  /\ UNCHANGED <<input, phase, answer, call, cancel, wait, crashes>>

(* A mutant of TurnDies: the handler of failures is around the later turns   *)
(* as well.                                                                  *)
DiesAnswered(a) ==
  /\ pc[a] \in {"begin", "turn"}
  /\ UpdateStatus(a, "idle", "failure")
  /\ Goes(a, "notify") /\ phase' = [phase EXCEPT ![a] = "failed"]
  /\ UNCHANGED <<input, turns, answer, call, cancel, wait, crashes>>

(* The prompt dies.  In the first loop the failure is answered to the        *)
(* parent; the handlers around the later turns are for typed failures, which *)
(* a prompt does not have, and the fiber dies with it.                       *)
TurnDies(a) ==
  /\ pc[a] \in {"begin", "turn"}
  /\ UpdateStatus(a, "idle", "failure")
  /\ \/ /\ phase[a] = "pre" /\ Goes(a, "notify")
        /\ phase' = [phase EXCEPT ![a] = "failed"]
     \/ /\ phase[a] \in {"gate", "post"} /\ Goes(a, "dead")
        /\ UNCHANGED phase
  /\ UNCHANGED <<input, turns, answer, call, cancel, wait, crashes>>

Limit(p) == CASE p = "pre" -> MaxPre + 1 [] p = "gate" -> MaxGate
              [] p = "post" -> MaxPost [] OTHER -> 0

(* A hook, or a task that is still open, asks for another turn.              *)
AnotherTurn(a) ==
  /\ pc[a] = "check" /\ turns[a] < Limit(phase[a])
  /\ Goes(a, "again")
  /\ UNCHANGED <<input, row, phase, turns, answer, call, cancel, wait, poke, crashes>>

(* Nothing asks for another turn, or the limit of the loop is reached.       *)
LeaveLoop(a) ==
  /\ pc[a] = "check"
  /\ \/ /\ phase[a] = "pre"
        /\ phase' = [phase EXCEPT ![a] = "gate"]
        /\ turns' = [turns EXCEPT ![a] = 0]
        /\ UNCHANGED pc
     \/ phase[a] = "gate" /\ Goes(a, "notify") /\ UNCHANGED <<phase, turns>>
     \/ phase[a] = "post" /\ Goes(a, "over") /\ UNCHANGED <<phase, turns>>
  /\ UNCHANGED <<input, row, answer, call, cancel, wait, poke, crashes>>

Verdict(a) == IF phase[a] = "failed" THEN "failure" ELSE "success"

(* notify, which does nothing for a call that is still there to be answered. *)
Notify(a) ==
  /\ pc[a] = "notify" /\ Goes(a, "settle")
  /\ note' = IF input[a].joined THEN note ELSE [note EXCEPT ![a] = Verdict(a)]
  /\ UNCHANGED <<input, row, phase, turns, outcome, call, cancel, wait, poke, crashes>>

(* A mutant of Settle: the handler of failures leaves the outcome alone.     *)
SettleSuccess(a) ==
  /\ pc[a] = "settle"
  /\ outcome' = IF phase[a] = "failed" THEN outcome ELSE [outcome EXCEPT ![a] = Verdict(a)]
  /\ \/ phase[a] = "failed" /\ Goes(a, "over") /\ UNCHANGED <<phase, turns>>
     \/ /\ phase[a] = "gate" /\ Goes(a, "check")
        /\ phase' = [phase EXCEPT ![a] = "post"]
        /\ turns' = [turns EXCEPT ![a] = 0]
  /\ UNCHANGED <<input, row, note, call, cancel, wait, poke, crashes>>

Settle(a) ==
  /\ pc[a] = "settle"
  /\ outcome' = [outcome EXCEPT ![a] = Verdict(a)]
  /\ \/ phase[a] = "failed" /\ Goes(a, "over") /\ UNCHANGED <<phase, turns>>
     \/ /\ phase[a] = "gate" /\ Goes(a, "check")
        /\ phase' = [phase EXCEPT ![a] = "post"]
        /\ turns' = [turns EXCEPT ![a] = 0]
  /\ UNCHANGED <<input, row, note, call, cancel, wait, poke, crashes>>

-----------------------------------------------------------------------------
(* The calls around it.                                                      *)

(* A mutant of Joined: a join that ignores defects too.                      *)
JoinSwallows(a) ==
  /\ call[a] = "joining" /\ Ended(a)
  /\ call' = [call EXCEPT ![a] = "awaiting"]
  /\ UNCHANGED <<input, row, fiber, answer, cancel, wait, poke, crashes>>

(* Fiber.join of a call in the foreground.  Effect.ignore drops a failure of *)
(* the fiber; a defect it does not drop, and the call fails with it.         *)
Joined(a) ==
  /\ call[a] = "joining" /\ Ended(a)
  /\ call' = [call EXCEPT ![a] = IF pc[a] = "dead" THEN "failed" ELSE "awaiting"]
  /\ UNCHANGED <<input, row, fiber, answer, cancel, wait, poke, crashes>>

CallReturns(a) ==
  /\ call[a] = "awaiting" /\ outcome[a] # "none"
  /\ call' = [call EXCEPT ![a] = "returned"]
  /\ UNCHANGED <<input, row, fiber, answer, cancel, wait, poke, crashes>>

CallTimesOut(a) ==
  /\ call[a] = "awaiting"
  /\ call' = [call EXCEPT ![a] = "timeout"]
  /\ UNCHANGED <<input, row, fiber, answer, cancel, wait, poke, crashes>>

(* cancel: the row first, then the run, if one is under way.                 *)
CancelStamp(a) ==
  /\ cancel[a] = "none" /\ row[a].status # "absent"
  /\ cancel' = [cancel EXCEPT ![a] = "stamped"]
  /\ UpdateStatus(a, "idle", "cancelled")
  /\ UNCHANGED <<input, fiber, answer, call, wait, crashes>>

CancelRun(a) ==
  /\ cancel[a] = "stamped"
  /\ cancel' = [cancel EXCEPT ![a] = "done"]
  /\ pc' = IF pc[a] = "turn" THEN [pc EXCEPT ![a] = "stopped"] ELSE pc
  /\ UNCHANGED <<input, row, phase, turns, answer, call, wait, poke, crashes>>

(* isWaitResolving.                                                          *)
Resolving(a) ==
  /\ row[a].status = "idle"
  /\ input[a].ephemeral \/ row[a].last \notin {"none", "success"}

WaitCall(a) ==
  /\ wait[a] = "none" /\ row[a].status # "absent"
  /\ wait' = [wait EXCEPT ![a] = IF Resolving(a) THEN "answered" ELSE "subscribing"]
  /\ UNCHANGED <<input, row, fiber, answer, call, cancel, poke, crashes>>

Subscribe(a) ==
  /\ wait[a] = "subscribing"
  /\ wait' = [wait EXCEPT ![a] = "rechecking"]
  /\ UNCHANGED <<input, row, fiber, answer, call, cancel, poke, crashes>>

(* A mutant of Recheck: no second look at the row after the subscription.    *)
NoRecheck(a) ==
  /\ wait[a] = "rechecking"
  /\ wait' = [wait EXCEPT ![a] = "awaiting"]
  /\ UNCHANGED <<input, row, fiber, answer, call, cancel, poke, crashes>>

Recheck(a) ==
  /\ wait[a] = "rechecking"
  /\ wait' = [wait EXCEPT ![a] = IF Resolving(a) THEN "answered" ELSE "awaiting"]
  /\ poke' = IF Resolving(a) THEN [poke EXCEPT ![a] = FALSE] ELSE poke
  /\ UNCHANGED <<input, row, fiber, answer, call, cancel, crashes>>

(* The callback reads the row again: by then it may be another one.          *)
LookAgain(a) ==
  /\ wait[a] = "awaiting" /\ poke[a]
  /\ poke' = [poke EXCEPT ![a] = FALSE]
  /\ wait' = IF Resolving(a) THEN [wait EXCEPT ![a] = "answered"] ELSE wait
  /\ UNCHANGED <<input, row, fiber, answer, call, cancel, crashes>>

WaitTimesOut(a) ==
  /\ wait[a] = "awaiting"
  /\ wait' = [wait EXCEPT ![a] = "timeout"]
  /\ poke' = [poke EXCEPT ![a] = FALSE]
  /\ UNCHANGED <<input, row, fiber, answer, call, cancel, crashes>>

(* A mutant of Orphan: orphan recovery that overlooks the rows that no turn  *)
(* has marked yet.                                                           *)
OrphanRunning(r) ==
  IF r.status = "running" THEN [status |-> "idle", last |-> "failure"] ELSE r

(* Orphan recovery, when the registry starts: a row that is active was left  *)
(* by a process that is gone.                                                *)
Orphan(r) ==
  IF r.status \in {"pending", "running"}
    THEN [status |-> "idle", last |-> "failure"] ELSE r

(* The process ends and starts again: fibers and calls are gone.             *)
Restart ==
  /\ crashes < MaxCrashes /\ crashes' = crashes + 1
  /\ row' = [a \in Actors |-> Orphan(row[a])]
  /\ pc' = [a \in Actors |->
              IF pc[a] \in {"new", "unborn"} \/ Ended(a) THEN pc[a] ELSE "lost"]
  /\ call' = [a \in Actors |->
                IF call[a] \in {"joining", "awaiting"} THEN "none" ELSE call[a]]
  /\ cancel' = [a \in Actors |-> IF cancel[a] = "stamped" THEN "done" ELSE cancel[a]]
  /\ wait' = [a \in Actors |->
                IF wait[a] \in {"answered", "timeout"} THEN wait[a] ELSE "none"]
  /\ poke' = [a \in Actors |-> FALSE]
  /\ UNCHANGED <<input, phase, turns, answer>>

Next ==
  \/ \E a \in Actors :
       \/ Register(a) \/ Fork(a) \/ SpawnDies(a)
       \/ BeginTurn(a) \/ EnterLoop(a) \/ EndTurn(a) \/ TurnDies(a)
       \/ AnotherTurn(a) \/ LeaveLoop(a) \/ Notify(a) \/ Settle(a)
       \/ Joined(a) \/ CallReturns(a) \/ CallTimesOut(a)
       \/ CancelStamp(a) \/ CancelRun(a)
       \/ WaitCall(a) \/ Subscribe(a) \/ Recheck(a) \/ LookAgain(a) \/ WaitTimesOut(a)
  \/ Restart

Spec == Init /\ [][Next]_vars

(* A fiber that can go on goes on, a turn ends, since the time limits of the *)
(* model's stream end it; nothing makes a parent spawn, wait or cancel, or   *)
(* the time limit of a call run out.                                         *)
LiveSpec ==
  /\ Spec
  /\ \A a \in Actors :
       /\ WF_vars(BeginTurn(a)) /\ WF_vars(EnterLoop(a)) /\ WF_vars(EndTurn(a))
       /\ WF_vars(AnotherTurn(a) \/ LeaveLoop(a))
       /\ WF_vars(Notify(a)) /\ WF_vars(Settle(a))
       /\ WF_vars(Joined(a)) /\ WF_vars(CallReturns(a))
       /\ WF_vars(CancelRun(a))
       /\ WF_vars(Subscribe(a)) /\ WF_vars(Recheck(a)) /\ WF_vars(LookAgain(a))

-----------------------------------------------------------------------------
(* Safety.                                                                   *)

(* A row that says running stands for a turn that is at work in this         *)
(* process, and one that says pending for a fiber to come: the orphans of an *)
(* earlier process have been marked, and a turn never ends without taking    *)
(* its mark back.  Only a spawn that dies between its row and its fork       *)
(* leaves an active row behind.  listActive, the reminder in the prompt and  *)
(* the stuck detection rely on it.                                           *)
ActiveRowHasFiber ==
  \A a \in Actors :
    /\ row[a].status = "running" => pc[a] \in {"begin", "turn", "stopped"}
    /\ row[a].status = "pending" => pc[a] \in {"registered", "forked", "unborn"}

(* The parent hears one verdict: what the fiber has notified or settled it   *)
(* never says again in other words, whatever the turns after it do.          *)
OneVerdict ==
  [][\A a \in Actors :
       /\ note[a] # "none" => pc'[a] # "notify" /\ note'[a] = note[a]
       /\ outcome[a] # "none" => outcome'[a] = outcome[a]
       /\ outcome'[a] # "none" => note'[a] \in {"none", outcome'[a]}]_vars

(* A call that has joined a fiber and goes on to the outcome finds it        *)
(* settled, in whichever of its loops the fiber has ended or died: the call  *)
(* does not depend on the ten minutes of its time limit (tool/actor.ts:747). *)
AwaitedIsSettled == \A a \in Actors : call[a] = "awaiting" => outcome[a] # "none"

-----------------------------------------------------------------------------
(* Liveness.                                                                 *)

(* A wait on an ephemeral actor does not miss the actor's end, wherever it   *)
(* falls between the look at the row, the subscription and the second look.  *)
WaitHearsTheEnd ==
  \A a \in Actors :
    (input[a].ephemeral /\ wait[a] \in {"subscribing", "awaiting"} /\ Ended(a))
      ~> (wait[a] \in {"answered", "timeout", "none"})

(* The tool call that runs an actor in the foreground comes back without the *)
(* help of its time limit, also when the fiber dies without an outcome.      *)
CallComesBack ==
  \A a \in Actors : (call[a] = "joining") ~> (call[a] \notin {"joining", "awaiting"})

-----------------------------------------------------------------------------
(* What the code says of itself.                                             *)

(* spawn.ts: a cancelled actor is recorded as such, and stays so.            *)
CancelSticks ==
  [][\A a \in Actors : cancel[a] = "done" /\ row[a].last = "cancelled"
       => row'[a] = row[a]]_vars

(* spawn.ts: the gate's and the postStop turns may fail, the parent is       *)
(* answered all the same.                                                    *)
OutcomeReached == \A a \in Actors : Ended(a) => outcome[a] # "none"

(* tool/actor.ts: a run in the foreground is answered before the postStop    *)
(* turns, which nobody waits for.                                            *)
PostStopIsForgotten ==
  \A a \in Actors : phase[a] = "post" /\ turns[a] > 0 => call[a] # "joining"

(* spawn.ts: a failure of a postStop turn is not propagated: a call whose    *)
(* actor has succeeded does not fail with it.                                *)
PostStopIsContained ==
  \A a \in Actors : outcome[a] = "success" => call[a] # "failed"

=============================================================================
