------------------------------- MODULE Runner -------------------------------
(***************************************************************************)
(* effect/runner.ts: the executor that carries the work of one             *)
(* (session, agent) pair.  A Runner admits either one run (an agent loop   *)
(* that any number of callers may join) or one shell command (exclusive),  *)
(* lets one run queue behind a shell, and can be cancelled at any time.    *)
(*                                                                         *)
(* Concurrency.  Every transition of the runner's state is one             *)
(* SynchronizedRef.modify, hence atomic; the effect that a modify returns  *)
(* is executed by the same fiber afterwards, in steps of its own, so other *)
(* fibers interleave with it.  A modifyEffect that has to wait (onBusy in  *)
(* startShell) keeps the lock while it waits.                              *)
(*                                                                         *)
(* A caller makes one call.  The work it supplies, the fiber that carries  *)
(* that work, and the Deferred of the run it creates are all named by the  *)
(* caller, which stands for the ids 1, 2, ... of the source: they serve    *)
(* only to be told apart.                                                  *)
(***************************************************************************)
CONSTANTS Runners,     \* runner objects
          Callers,     \* calls of ensureRunning and startShell, with their work
          Cancellers,  \* calls of cancel
          NoOne        \* absence of a caller, or of a runner

ASSUME NoOneAssumption == NoOne \notin Callers /\ NoOne \notin Runners

VARIABLES
  ref,      \* ref[r]: the State of runner r: its tag, run and shell handles
  lock,     \* lock[r]: the caller inside a suspended modifyEffect of r
  home,     \* home[c]: the runner that call c is made on
  op,       \* op[c]: which operation c calls
  pc,       \* pc[c]: how far the call of c has come
  awaits,   \* awaits[c]: the caller whose Deferred or fiber c waits for
  result,   \* result[c]: what the call of c returned
  fiber,    \* fiber[c]: the progress of the fiber carrying c's work
  exit,     \* exit[c]: how c's work ended
  intr,     \* the fibers that were sent an interruption
  done,     \* done[c]: the Deferred of the run that c created
  cpc,      \* cpc[k]: the progress of canceller k
  chome,    \* chome[k]: the runner that k cancels
  target,   \* target[k]: the fiber that k has to interrupt
  pend      \* pend[k]: the queued run that k has to fail

callVars   == <<home, op, pc, awaits, result>>
fiberVars  == <<fiber, exit, intr, done>>
cancelVars == <<cpc, chome, target, pend>>
vars       == <<ref, lock, callVars, fiberVars, cancelVars>>

-----------------------------------------------------------------------------
Ops    == {"run", "shell"}
Exits  == {"ok", "fail", "interrupt"}
IdleState          == [tag |-> "Idle",         run |-> NoOne, shell |-> NoOne]
RunningState(c)    == [tag |-> "Running",      run |-> c,     shell |-> NoOne]
ShellState(c)      == [tag |-> "Shell",        run |-> NoOne, shell |-> c]
ShellThenRunState(c, p) == [tag |-> "ShellThenRun", run |-> p, shell |-> c]

MaybeCaller == Callers \cup {NoOne}
MaybeRunner == Runners \cup {NoOne}

TypeOK ==
  /\ ref \in [Runners -> [tag : {"Idle", "Running", "Shell", "ShellThenRun"},
                          run : MaybeCaller, shell : MaybeCaller]]
  /\ lock \in [Runners -> MaybeCaller]
  /\ home \in [Callers -> MaybeRunner]
  /\ op \in [Callers -> Ops]
  /\ pc \in [Callers -> {"new", "ready", "starting", "waiting", "returned"}]
  /\ awaits \in [Callers -> MaybeCaller]
  /\ result \in [Callers -> {"none", "ok", "fail", "interrupted", "busy", "gone"}]
  /\ fiber \in [Callers -> {"none", "working", "ended", "onIdle", "inIdle",
                            "settle", "exited"}]
  /\ exit \in [Callers -> {"none"} \cup Exits]
  /\ intr \subseteq Callers
  /\ done \in [Callers -> {"none", "open", "ok", "fail", "cancelled"}]
  /\ cpc \in [Cancellers -> {"new", "ready", "failPending", "interrupt", "await",
                             "recheck", "onIdle", "inIdle", "finished"}]
  /\ chome \in [Cancellers -> MaybeRunner]
  /\ target \in [Cancellers -> MaybeCaller]
  /\ pend \in [Cancellers -> MaybeCaller]

Init ==
  /\ ref = [r \in Runners |-> IdleState]
  /\ lock = [r \in Runners |-> NoOne]
  /\ home = [c \in Callers |-> NoOne]
  /\ op = [c \in Callers |-> "run"]
  /\ pc = [c \in Callers |-> "new"]
  /\ awaits = [c \in Callers |-> NoOne]
  /\ result = [c \in Callers |-> "none"]
  /\ fiber = [c \in Callers |-> "none"]
  /\ exit = [c \in Callers |-> "none"]
  /\ intr = {}
  /\ done = [c \in Callers |-> "none"]
  /\ cpc = [k \in Cancellers |-> "new"]
  /\ chome = [k \in Cancellers |-> NoOne]
  /\ target = [k \in Cancellers |-> NoOne]
  /\ pend = [k \in Cancellers |-> NoOne]

Free(r) == lock[r] = NoOne

-----------------------------------------------------------------------------
(* A caller obtains the runner object it is going to call.  Which one it is  *)
(* is decided outside the runner (SessionRunState looks it up in a map).     *)
Lookup(c, r, o) ==
  /\ pc[c] = "new"
  /\ pc' = [pc EXCEPT ![c] = "ready"]
  /\ home' = [home EXCEPT ![c] = r]
  /\ op' = [op EXCEPT ![c] = o]
  /\ UNCHANGED <<ref, lock, awaits, result, fiberVars, cancelVars>>

Calls(c, o) == pc[c] = "ready" /\ op[c] = o /\ Free(home[c])

(* ensureRunning in Running or ShellThenRun: the work handed in is not used, *)
(* the caller awaits the Deferred of the run that is already there.          *)
JoinRun(c) ==
  /\ Calls(c, "run")
  /\ ref[home[c]].tag \in {"Running", "ShellThenRun"}
  /\ awaits' = [awaits EXCEPT ![c] = ref[home[c]].run]
  /\ pc' = [pc EXCEPT ![c] = "waiting"]
  /\ UNCHANGED <<ref, lock, home, op, result, fiberVars, cancelVars>>

(* ensureRunning in Shell: the work is queued behind the shell command.      *)
QueueRun(c) ==
  /\ Calls(c, "run")
  /\ ref[home[c]].tag = "Shell"
  /\ ref' = [ref EXCEPT ![home[c]] = ShellThenRunState(@.shell, c)]
  /\ done' = [done EXCEPT ![c] = "open"]
  /\ awaits' = [awaits EXCEPT ![c] = c]
  /\ pc' = [pc EXCEPT ![c] = "waiting"]
  /\ UNCHANGED <<lock, home, op, result, fiber, exit, intr, cancelVars>>

(* A mutant of StartRun: a run is started beside a shell command.            *)
StartRunAnyTime(c) ==
  /\ Calls(c, "run")
  /\ ref[home[c]].tag \in {"Idle", "Shell"}
  /\ ref' = [ref EXCEPT ![home[c]] = RunningState(c)]
  /\ done' = [done EXCEPT ![c] = "open"]
  /\ fiber' = [fiber EXCEPT ![c] = "working"]
  /\ awaits' = [awaits EXCEPT ![c] = c]
  /\ pc' = [pc EXCEPT ![c] = "waiting"]
  /\ UNCHANGED <<lock, home, op, result, exit, intr, cancelVars>>

(* ensureRunning in Idle: startRun forks the work into the runner's scope.   *)
StartRun(c) ==
  /\ Calls(c, "run")
  /\ ref[home[c]].tag = "Idle"
  /\ ref' = [ref EXCEPT ![home[c]] = RunningState(c)]
  /\ done' = [done EXCEPT ![c] = "open"]
  /\ fiber' = [fiber EXCEPT ![c] = "working"]
  /\ awaits' = [awaits EXCEPT ![c] = c]
  /\ pc' = [pc EXCEPT ![c] = "waiting"]
  /\ UNCHANGED <<lock, home, op, result, exit, intr, cancelVars>>

(* startShell in any state but Idle throws the busy error.                   *)
RejectShell(c) ==
  /\ Calls(c, "shell")
  /\ ref[home[c]].tag # "Idle"
  /\ pc' = [pc EXCEPT ![c] = "returned"]
  /\ result' = [result EXCEPT ![c] = "busy"]
  /\ UNCHANGED <<ref, lock, home, op, awaits, fiberVars, cancelVars>>

(* startShell in Idle: onBusy runs with the lock held ...                    *)
BeginShell(c) ==
  /\ Calls(c, "shell")
  /\ ref[home[c]].tag = "Idle"
  /\ lock' = [lock EXCEPT ![home[c]] = c]
  /\ pc' = [pc EXCEPT ![c] = "starting"]
  /\ UNCHANGED <<ref, home, op, awaits, result, fiberVars, cancelVars>>

(* ... then the work is forked and the state becomes Shell.                  *)
StartShell(c) ==
  /\ pc[c] = "starting"
  /\ lock' = [lock EXCEPT ![home[c]] = NoOne]
  /\ ref' = [ref EXCEPT ![home[c]] = ShellState(c)]
  /\ fiber' = [fiber EXCEPT ![c] = "working"]
  /\ awaits' = [awaits EXCEPT ![c] = c]
  /\ pc' = [pc EXCEPT ![c] = "waiting"]
  /\ UNCHANGED <<home, op, result, exit, intr, done, cancelVars>>

(* The wait of ensureRunning ends when the Deferred is completed; Cancelled  *)
(* is replaced by the value of onInterrupt.                                  *)
ReturnRun(c) ==
  /\ pc[c] = "waiting" /\ op[c] = "run"
  /\ done[awaits[c]] \in {"ok", "fail", "cancelled"}
  /\ pc' = [pc EXCEPT ![c] = "returned"]
  /\ result' = [result EXCEPT ![c] =
                  IF done[awaits[c]] = "cancelled" THEN "interrupted" ELSE done[awaits[c]]]
  /\ UNCHANGED <<ref, lock, home, op, awaits, fiberVars, cancelVars>>

(* The wait of startShell ends when the shell's fiber has exited.            *)
ReturnShell(c) ==
  /\ pc[c] = "waiting" /\ op[c] = "shell"
  /\ fiber[c] = "exited"
  /\ pc' = [pc EXCEPT ![c] = "returned"]
  /\ result' = [result EXCEPT ![c] =
                  IF exit[c] = "interrupt" THEN "interrupted" ELSE exit[c]]
  /\ UNCHANGED <<ref, lock, home, op, awaits, fiberVars, cancelVars>>

(* A waiting caller is itself interrupted.  A run lives in the runner's      *)
(* scope and goes on without it; a shell is a child of its caller's fiber    *)
(* and is interrupted with it.                                               *)
Abandon(c) ==
  /\ pc[c] = "waiting"
  /\ pc' = [pc EXCEPT ![c] = "returned"]
  /\ result' = [result EXCEPT ![c] = "gone"]
  /\ intr' = IF op[c] = "shell" THEN intr \cup {c} ELSE intr
  /\ UNCHANGED <<ref, lock, home, op, awaits, fiber, exit, done, cancelVars>>

-----------------------------------------------------------------------------
(* The work of c ends.  Interrupted work ends interrupted, or fails while it *)
(* cleans up; it takes its time either way.                                  *)
WorkEnds(c, e) ==
  /\ fiber[c] = "working"
  /\ e \in IF c \in intr THEN {"interrupt", "fail"} ELSE {"ok", "fail"}
  /\ fiber' = [fiber EXCEPT ![c] = "ended"]
  /\ exit' = [exit EXCEPT ![c] = e]
  /\ UNCHANGED <<ref, lock, callVars, intr, done, cancelVars>>

(* Mutants of FinishRun: the id of the current run is not compared ...       *)
FinishRunAnyRun(c) ==
  /\ fiber[c] = "ended" /\ op[c] = "run" /\ Free(home[c])
  /\ IF ref[home[c]].tag = "Running"
     THEN /\ ref' = [ref EXCEPT ![home[c]] = IdleState]
          /\ fiber' = [fiber EXCEPT ![c] = "onIdle"]
     ELSE /\ fiber' = [fiber EXCEPT ![c] = "settle"]
          /\ UNCHANGED ref
  /\ UNCHANGED <<lock, callVars, exit, intr, done, cancelVars>>

(* ... or a run that is no longer the current one is not completed.          *)
FinishRunIfCurrent(c) ==
  /\ fiber[c] = "ended" /\ op[c] = "run" /\ Free(home[c])
  /\ IF ref[home[c]] = RunningState(c)
     THEN /\ ref' = [ref EXCEPT ![home[c]] = IdleState]
          /\ fiber' = [fiber EXCEPT ![c] = "onIdle"]
     ELSE /\ fiber' = [fiber EXCEPT ![c] = "exited"]
          /\ UNCHANGED ref
  /\ UNCHANGED <<lock, callVars, exit, intr, done, cancelVars>>

(* finishRun: the state becomes Idle, and onIdle is due, only if this run is *)
(* still the current one.                                                    *)
FinishRun(c) ==
  /\ fiber[c] = "ended" /\ op[c] = "run" /\ Free(home[c])
  /\ IF ref[home[c]] = RunningState(c)
     THEN /\ ref' = [ref EXCEPT ![home[c]] = IdleState]
          /\ fiber' = [fiber EXCEPT ![c] = "onIdle"]
     ELSE /\ fiber' = [fiber EXCEPT ![c] = "settle"]
          /\ UNCHANGED ref
  /\ UNCHANGED <<lock, callVars, exit, intr, done, cancelVars>>

(* A mutant of FinishShell: the run queued behind the shell is dropped.      *)
FinishShellDropsQueue(c) ==
  /\ fiber[c] = "ended" /\ op[c] = "shell" /\ Free(home[c])
  /\ IF ref[home[c]].shell = c
     THEN /\ ref' = [ref EXCEPT ![home[c]] = IdleState]
          /\ fiber' = [fiber EXCEPT ![c] = "onIdle"]
     ELSE /\ fiber' = [fiber EXCEPT ![c] = "exited"]
          /\ UNCHANGED ref
  /\ UNCHANGED <<lock, callVars, exit, intr, done, cancelVars>>

(* finishShell: back to Idle, or start of the queued run, or nothing if a    *)
(* cancel came first.                                                        *)
FinishShell(c) ==
  /\ fiber[c] = "ended" /\ op[c] = "shell" /\ Free(home[c])
  /\ \/ /\ ref[home[c]] = ShellState(c)
        /\ ref' = [ref EXCEPT ![home[c]] = IdleState]
        /\ fiber' = [fiber EXCEPT ![c] = "onIdle"]
     \/ /\ ref[home[c]].tag = "ShellThenRun" /\ ref[home[c]].shell = c
        /\ ref' = [ref EXCEPT ![home[c]] = RunningState(@.run)]
        /\ fiber' = [fiber EXCEPT ![c] = "exited", ![ref[home[c]].run] = "working"]
     \/ /\ ref[home[c]].shell # c
        /\ fiber' = [fiber EXCEPT ![c] = "exited"]
        /\ UNCHANGED ref
  /\ UNCHANGED <<lock, callVars, exit, intr, done, cancelVars>>

(* The fiber executes onIdle, which is itself an effect of several steps.    *)
FiberIdleBegin(c) ==
  /\ fiber[c] = "onIdle"
  /\ fiber' = [fiber EXCEPT ![c] = "inIdle"]
  /\ UNCHANGED <<ref, lock, callVars, exit, intr, done, cancelVars>>

FiberIdleEnd(c) ==
  /\ fiber[c] = "inIdle"
  /\ fiber' = [fiber EXCEPT ![c] = IF op[c] = "run" THEN "settle" ELSE "exited"]
  /\ UNCHANGED <<ref, lock, callVars, exit, intr, done, cancelVars>>

(* A mutant of Settle: every failure is taken for an interruption.           *)
SettleFailureAsCancelled(c) ==
  /\ fiber[c] = "settle"
  /\ fiber' = [fiber EXCEPT ![c] = "exited"]
  /\ done' = [done EXCEPT ![c] = IF @ # "open" THEN @
                                 ELSE IF exit[c] = "ok" THEN "ok" ELSE "cancelled"]
  /\ UNCHANGED <<ref, lock, callVars, exit, intr, cancelVars>>

(* complete: the Deferred takes the exit of the work, and the fiber exits.   *)
Settle(c) ==
  /\ fiber[c] = "settle"
  /\ fiber' = [fiber EXCEPT ![c] = "exited"]
  /\ done' = [done EXCEPT ![c] = IF @ # "open" THEN @
                                 ELSE IF exit[c] = "interrupt" THEN "cancelled"
                                 ELSE exit[c]]
  /\ UNCHANGED <<ref, lock, callVars, exit, intr, cancelVars>>

-----------------------------------------------------------------------------
(* A canceller obtains the runner it is going to cancel, or finds none that  *)
(* is busy; both are decided outside the runner.                             *)
Seek(k, r) ==
  /\ cpc[k] = "new"
  /\ cpc' = [cpc EXCEPT ![k] = "ready"]
  /\ chome' = [chome EXCEPT ![k] = r]
  /\ UNCHANGED <<ref, lock, callVars, fiberVars, target, pend>>

SeekNothing(k) ==
  /\ cpc[k] = "new"
  /\ cpc' = [cpc EXCEPT ![k] = "finished"]
  /\ UNCHANGED <<ref, lock, callVars, fiberVars, chome, target, pend>>

(* Mutants of Cancel: a cancelled shell leaves its queued run in the state   *)
(* ...                                                                       *)
CancelKeepsQueue(k) ==
  LET st == ref[chome[k]]
  IN  /\ cpc[k] = "ready" /\ Free(chome[k])
      /\ ref' = IF st.tag = "ShellThenRun" THEN ref
                ELSE [ref EXCEPT ![chome[k]] = IdleState]
      /\ cpc' = [cpc EXCEPT ![k] = CASE st.tag = "Idle"         -> "finished"
                                     [] st.tag = "ShellThenRun" -> "failPending"
                                     [] OTHER                   -> "interrupt"]
      /\ target' = [target EXCEPT ![k] = IF st.tag = "Running" THEN st.run ELSE st.shell]
      /\ pend' = [pend EXCEPT ![k] = IF st.tag = "ShellThenRun" THEN st.run ELSE NoOne]
      /\ UNCHANGED <<lock, callVars, fiberVars, chome>>

(* ... or forgets to fail it.                                                *)
CancelForgetsQueue(k) ==
  LET st == ref[chome[k]]
  IN  /\ cpc[k] = "ready" /\ Free(chome[k])
      /\ ref' = [ref EXCEPT ![chome[k]] = IdleState]
      /\ cpc' = [cpc EXCEPT ![k] = IF st.tag = "Idle" THEN "finished" ELSE "interrupt"]
      /\ target' = [target EXCEPT ![k] = IF st.tag = "Running" THEN st.run ELSE st.shell]
      /\ pend' = [pend EXCEPT ![k] = IF st.tag = "ShellThenRun" THEN st.run ELSE NoOne]
      /\ UNCHANGED <<lock, callVars, fiberVars, chome>>

(* cancel: the state is Idle at once, before the work has been interrupted;  *)
(* the handles it held are the canceller's to deal with.                     *)
Cancel(k) ==
  LET st == ref[chome[k]]
  IN  /\ cpc[k] = "ready" /\ Free(chome[k])
      /\ ref' = [ref EXCEPT ![chome[k]] = IdleState]
      /\ cpc' = [cpc EXCEPT ![k] = CASE st.tag = "Idle"         -> "finished"
                                     [] st.tag = "ShellThenRun" -> "failPending"
                                     [] OTHER                   -> "interrupt"]
      /\ target' = [target EXCEPT ![k] = IF st.tag = "Running" THEN st.run ELSE st.shell]
      /\ pend' = [pend EXCEPT ![k] = IF st.tag = "ShellThenRun" THEN st.run ELSE NoOne]
      /\ UNCHANGED <<lock, callVars, fiberVars, chome>>

(* The run queued behind a cancelled shell fails with Cancelled.             *)
FailPending(k) ==
  /\ cpc[k] = "failPending"
  /\ done' = [done EXCEPT ![pend[k]] = IF @ = "open" THEN "cancelled" ELSE @]
  /\ cpc' = [cpc EXCEPT ![k] = "interrupt"]
  /\ UNCHANGED <<ref, lock, callVars, fiber, exit, intr, chome, target, pend>>

(* Fiber.interrupt delivers the interruption ...                             *)
Interrupt(k) ==
  /\ cpc[k] = "interrupt"
  /\ intr' = intr \cup {target[k]}
  /\ cpc' = [cpc EXCEPT ![k] = "await"]
  /\ UNCHANGED <<ref, lock, callVars, fiber, exit, done, chome, target, pend>>

(* ... and waits for the fiber to exit; for a run, cancel then also awaits   *)
(* its Deferred.                                                             *)
AwaitExit(k) ==
  /\ cpc[k] = "await"
  /\ fiber[target[k]] = "exited"
  /\ op[target[k]] = "run" => done[target[k]] # "open"
  /\ cpc' = [cpc EXCEPT ![k] = "recheck"]
  /\ UNCHANGED <<ref, lock, callVars, fiberVars, chome, target, pend>>

(* A mutant of IdleIfCurrent: cancel leaves onIdle to the fiber.             *)
IdleNever(k) ==
  /\ cpc[k] = "recheck" /\ Free(chome[k])
  /\ cpc' = [cpc EXCEPT ![k] = "finished"]
  /\ UNCHANGED <<ref, lock, callVars, fiberVars, chome, target, pend>>

(* idleIfCurrent: onIdle is due unless other work was admitted meanwhile.    *)
IdleIfCurrent(k) ==
  /\ cpc[k] = "recheck" /\ Free(chome[k])
  /\ cpc' = [cpc EXCEPT ![k] = IF ref[chome[k]].tag = "Idle" THEN "onIdle" ELSE "finished"]
  /\ UNCHANGED <<ref, lock, callVars, fiberVars, chome, target, pend>>

CancelIdleBegin(k) ==
  /\ cpc[k] = "onIdle"
  /\ cpc' = [cpc EXCEPT ![k] = "inIdle"]
  /\ UNCHANGED <<ref, lock, callVars, fiberVars, chome, target, pend>>

CancelIdleEnd(k) ==
  /\ cpc[k] = "inIdle"
  /\ cpc' = [cpc EXCEPT ![k] = "finished"]
  /\ UNCHANGED <<ref, lock, callVars, fiberVars, chome, target, pend>>

-----------------------------------------------------------------------------
(* Nothing is left to do: every call has returned and no fiber is left.      *)
Quiescent ==
  /\ \A c \in Callers : pc[c] = "returned" /\ fiber[c] \in {"none", "exited"}
  /\ \A k \in Cancellers : cpc[k] = "finished"

Rest == Quiescent /\ UNCHANGED vars

CallerReturns(c) == ReturnRun(c) \/ ReturnShell(c)

(* The steps of c's call after it has its runner, but for giving up.         *)
CallerStep(c) ==
  \/ JoinRun(c) \/ QueueRun(c) \/ StartRun(c)
  \/ RejectShell(c) \/ BeginShell(c) \/ StartShell(c)
  \/ CallerReturns(c)

(* The steps of c's fiber once its work has ended.                           *)
FiberStep(c) ==
  \/ FinishRun(c) \/ FinishShell(c)
  \/ FiberIdleBegin(c) \/ FiberIdleEnd(c) \/ Settle(c)

CancelStep(k) ==
  \/ Cancel(k) \/ FailPending(k) \/ Interrupt(k) \/ AwaitExit(k)
  \/ IdleIfCurrent(k) \/ CancelIdleBegin(k) \/ CancelIdleEnd(k)

Next ==
  \/ \E c \in Callers :
        \/ \E r \in Runners, o \in Ops : Lookup(c, r, o)
        \/ CallerStep(c)
        \/ Abandon(c)
        \/ \E e \in Exits : WorkEnds(c, e)
        \/ FiberStep(c)
  \/ \E k \in Cancellers :
        \/ \E r \in Runners : Seek(k, r)
        \/ SeekNothing(k)
        \/ CancelStep(k)
  \/ Rest

Spec == Init /\ [][Next]_vars

(* What the Effect runtime guarantees: a fiber that can take a step takes    *)
(* it, and an interrupted fiber ends.  Nothing makes work end by itself.     *)
FairSpec ==
  /\ Spec
  /\ \A c \in Callers :
        /\ WF_vars(CallerStep(c))
        /\ WF_vars(FiberStep(c))
        /\ WF_vars(c \in intr /\ \E e \in Exits : WorkEnds(c, e))
  /\ \A k \in Cancellers : WF_vars(CancelStep(k))

(* ... and, further, all work ends sooner or later.                          *)
WorkIsFinite == \A c \in Callers : WF_vars(\E e \in Exits : WorkEnds(c, e))

LiveSpec == FairSpec /\ WorkIsFinite

-----------------------------------------------------------------------------
(* The caller's fiber is alive and the runner's state still refers to it.    *)
Current(c) == \E r \in Runners : ref[r].shell = c \/ ref[r] = RunningState(c)

(* A cancel has taken c's fiber out of the state and will see it exit.       *)
BeingCancelled(c) ==
  \E k \in Cancellers : target[k] = c /\ cpc[k] \in {"failPending", "interrupt", "await"}

(* No fiber is lost: while work is under way, either the runner still knows  *)
(* its fiber, so that a later cancel reaches it, or a cancel has taken it on *)
(* and has yet to see it exit (runner.ts: cancel hands over the handle it    *)
(* removes from the state).                                                  *)
NoLostFiber ==
  \A c \in Callers : fiber[c] \in {"working", "ended"} => Current(c) \/ BeingCancelled(c)

(* Work is exclusive: two fibers of one runner are at work at the same time  *)
(* only if a cancel is taking one of them down (the shell "runs              *)
(* exclusively", a run is joined and never doubled).                         *)
ExclusiveWork ==
  \A c, d \in Callers :
    /\ c # d /\ home[c] = home[d]
    /\ fiber[c] = "working" /\ fiber[d] = "working"
    => BeingCancelled(c) \/ BeingCancelled(d)

(* A run that can still be joined has not been completed, and a queued run   *)
(* has not started: nobody joins a result of the past, and the work queued   *)
(* behind a shell is started once.                                           *)
JoinableIsOpen ==
  \A r \in Runners :
    ref[r].run # NoOne =>
      /\ done[ref[r].run] = "open"
      /\ ref[r].tag = "ShellThenRun" <=> fiber[ref[r].run] = "none"

(* Somebody is responsible for every Deferred that a caller waits on: it is  *)
(* complete, or the run's fiber is alive, or the run is queued in the state, *)
(* or a canceller is about to fail it.                                       *)
WaitersAreServed ==
  \A c \in Callers :
    pc[c] = "waiting" /\ op[c] = "run" /\ done[awaits[c]] = "open" =>
      LET d == awaits[c]
      IN  \/ fiber[d] \in {"working", "ended", "onIdle", "inIdle", "settle"}
          \/ \E r \in Runners : ref[r].tag = "ShellThenRun" /\ ref[r].run = d
          \/ \E k \in Cancellers : cpc[k] = "failPending" /\ pend[k] = d

(* A call reports an interruption (it returns the value of onInterrupt) only *)
(* if some cancel took down the work it waited for.                          *)
InterruptedOnlyByCancel ==
  \A c \in Callers :
    result[c] = "interrupted" =>
      \E k \in Cancellers : awaits[c] \in {target[k], pend[k]}

(* cancel comes back: it may not hang, whatever starts in the meantime and   *)
(* however long the cancelled work takes to clean up.                        *)
CancelReturns == \A k \in Cancellers : cpc[k] # "new" ~> cpc[k] = "finished"

(* A cancel releases everybody who waits for the work it takes down, even if *)
(* that work would never end by itself.                                      *)
CancelReleases ==
  \A c \in Callers, k \in Cancellers :
    (pc[c] = "waiting" /\ awaits[c] \in {target[k], pend[k]}) ~> pc[c] = "returned"

(* "ensureRunning silently queues the new work behind the existing runner"   *)
(* (server/routes/instance/session.ts): a call that returns a success has    *)
(* had its own work carried out.                                             *)
QueuedWorkIsDone ==
  \A c \in Callers : op[c] = "run" /\ result[c] = "ok" => fiber[c] = "exited"

(* When all work ends, every call returns.                                   *)
CallsReturn ==
  WorkIsFinite => \A c \in Callers : pc[c] # "new" ~> pc[c] = "returned"
=============================================================================
