---------------------------- MODULE RunnerProofs ----------------------------
(***************************************************************************)
(* Proofs about Runner, that it implements SingleFlight, and about         *)
(* RunState, whose steps are Runner's: for any sets of runners, callers    *)
(* and cancellers, and any agents and editors that share the runners.      *)
(***************************************************************************)
EXTENDS RunState, RunnerRefinement, Naturals, TLAPS

(***************************************************************************)
(* The inductive invariant.  RefInv says what the handles in a runner's    *)
(* state refer to, LockInv that a suspended modifyEffect is a startShell   *)
(* on an idle runner, CancelInv that a run a canceller is about to fail   *)
(* can neither start nor be joined any more.                               *)
(***************************************************************************)
AtWork(c) == fiber[c] \in {"working", "ended"}

HomeInv ==
  /\ \A c \in Callers : pc[c] # "new" => home[c] \in Runners
  /\ \A k \in Cancellers : cpc[k] \notin {"new", "finished"} => chome[k] \in Runners

CallInv ==
  \A c \in Callers :
    /\ pc[c] \in {"new", "ready", "starting"} =>
         fiber[c] = "none" /\ done[c] = "none" /\ awaits[c] = NoOne
    /\ done[c] # "none" => op[c] = "run"

RefInv ==
  \A r \in Runners :
    LET st == ref[r]
    IN  /\ st.tag \in {"Idle", "Running"} => st.shell = NoOne
        /\ st.tag \in {"Idle", "Shell"} => st.run = NoOne
        /\ st.tag \in {"Shell", "ShellThenRun"} =>
             /\ st.shell \in Callers /\ home[st.shell] = r
             /\ op[st.shell] = "shell" /\ AtWork(st.shell)
        /\ st.tag \in {"Running", "ShellThenRun"} =>
             /\ st.run \in Callers /\ home[st.run] = r
             /\ op[st.run] = "run" /\ done[st.run] = "open"
        /\ st.tag = "Running" => AtWork(st.run)
        /\ st.tag = "ShellThenRun" => fiber[st.run] = "none"

LockInv ==
  /\ \A r \in Runners : lock[r] # NoOne =>
       ref[r].tag = "Idle" /\ pc[lock[r]] = "starting" /\ home[lock[r]] = r
  /\ \A c \in Callers : pc[c] = "starting" => op[c] = "shell" /\ lock[home[c]] = c

CancelInv ==
  \A k \in Cancellers :
    /\ cpc[k] \in {"failPending", "interrupt", "await"} => target[k] \in Callers
    /\ cpc[k] = "failPending" =>
         /\ pend[k] \in Callers /\ op[pend[k]] = "run"
         /\ fiber[pend[k]] = "none" /\ done[pend[k]] # "none"
         /\ \A r \in Runners : ref[r].run # pend[k]

IInv == TypeOK /\ HomeInv /\ CallInv /\ RefInv /\ LockInv /\ CancelInv /\ NoLostFiber

-----------------------------------------------------------------------------
THEOREM Step == IInv /\ [Next]_vars => IInv'
<1> SUFFICES ASSUME IInv, [Next]_vars PROVE IInv'
  OBVIOUS
<1> USE NoOneAssumption DEF IInv, TypeOK, vars, callVars, fiberVars, cancelVars, MaybeCaller,
        MaybeRunner, Ops, Exits, Free
<1>1. ASSUME NEW c \in Callers, NEW r \in Runners, NEW o \in Ops, Lookup(c, r, o) PROVE IInv'
  <2>1. TypeOK'
    BY <1>1 DEF Lookup, HomeInv, RefInv
  <2>2. HomeInv'
    BY <1>1 DEF Lookup, HomeInv
  <2>3. CallInv'
    BY <1>1 DEF Lookup, HomeInv, CallInv
  <2>4. RefInv'
    BY <1>1 DEF Lookup, HomeInv, CallInv, RefInv, LockInv, AtWork, CancelInv
  <2>5. LockInv'
    BY <1>1 DEF Lookup, HomeInv, CallInv, RefInv, LockInv, AtWork
  <2>6. CancelInv'
    BY <1>1 DEF Lookup, HomeInv, CallInv, RefInv, LockInv, CancelInv, AtWork
  <2>7. NoLostFiber'
    BY <1>1 DEF Lookup, NoLostFiber, Current, BeingCancelled, HomeInv, CallInv, RefInv, LockInv, AtWork, RunningState
  <2>. QED BY <2>1, <2>2, <2>3, <2>4, <2>5, <2>6, <2>7
<1>2. ASSUME NEW c \in Callers, JoinRun(c) PROVE IInv'
  <2>1. TypeOK'
    BY <1>2 DEF JoinRun, Calls, HomeInv, RefInv
  <2>2. HomeInv'
    BY <1>2 DEF JoinRun, Calls, HomeInv
  <2>3. CallInv'
    BY <1>2 DEF JoinRun, Calls, HomeInv, CallInv
  <2>4. RefInv'
    BY <1>2 DEF JoinRun, Calls, HomeInv, CallInv, RefInv, LockInv, AtWork, CancelInv
  <2>5. LockInv'
    BY <1>2 DEF JoinRun, Calls, HomeInv, CallInv, RefInv, LockInv, AtWork
  <2>6. CancelInv'
    BY <1>2 DEF JoinRun, Calls, HomeInv, CallInv, RefInv, LockInv, CancelInv, AtWork
  <2>7. NoLostFiber'
    BY <1>2 DEF JoinRun, Calls, NoLostFiber, Current, BeingCancelled, HomeInv, CallInv, RefInv, LockInv, AtWork, RunningState
  <2>. QED BY <2>1, <2>2, <2>3, <2>4, <2>5, <2>6, <2>7
<1>3. ASSUME NEW c \in Callers, QueueRun(c) PROVE IInv'
  <2>1. TypeOK'
    BY <1>3 DEF QueueRun, Calls, ShellThenRunState, HomeInv, RefInv
  <2>2. HomeInv'
    BY <1>3 DEF QueueRun, Calls, ShellThenRunState, HomeInv
  <2>3. CallInv'
    BY <1>3 DEF QueueRun, Calls, ShellThenRunState, HomeInv, CallInv
  <2>4. RefInv'
    BY <1>3 DEF QueueRun, Calls, ShellThenRunState, HomeInv, CallInv, RefInv, LockInv, AtWork, CancelInv
  <2>5. LockInv'
    BY <1>3 DEF QueueRun, Calls, ShellThenRunState, HomeInv, CallInv, RefInv, LockInv, AtWork
  <2>6. CancelInv'
    BY <1>3 DEF QueueRun, Calls, ShellThenRunState, HomeInv, CallInv, RefInv, LockInv, CancelInv, AtWork
  <2>7. NoLostFiber'
    BY SMTT(30), <1>3 DEF QueueRun, Calls, ShellThenRunState, NoLostFiber, Current, BeingCancelled, HomeInv, CallInv, RefInv, LockInv, AtWork, RunningState
  <2>. QED BY <2>1, <2>2, <2>3, <2>4, <2>5, <2>6, <2>7
<1>4. ASSUME NEW c \in Callers, StartRun(c) PROVE IInv'
  <2>1. TypeOK'
    BY <1>4 DEF StartRun, Calls, RunningState, HomeInv, RefInv
  <2>2. HomeInv'
    BY <1>4 DEF StartRun, Calls, RunningState, HomeInv
  <2>3. CallInv'
    BY <1>4 DEF StartRun, Calls, RunningState, HomeInv, CallInv
  <2>4. RefInv'
    BY <1>4 DEF StartRun, Calls, RunningState, HomeInv, CallInv, RefInv, LockInv, AtWork, CancelInv
  <2>5. LockInv'
    BY <1>4 DEF StartRun, Calls, RunningState, HomeInv, CallInv, RefInv, LockInv, AtWork
  <2>6. CancelInv'
    BY <1>4 DEF StartRun, Calls, RunningState, HomeInv, CallInv, RefInv, LockInv, CancelInv, AtWork
  <2>7. NoLostFiber'
    BY <1>4 DEF StartRun, Calls, RunningState, NoLostFiber, Current, BeingCancelled, HomeInv, CallInv, RefInv, LockInv, AtWork
  <2>. QED BY <2>1, <2>2, <2>3, <2>4, <2>5, <2>6, <2>7
<1>5. ASSUME NEW c \in Callers, RejectShell(c) PROVE IInv'
  <2>1. TypeOK'
    BY <1>5 DEF RejectShell, Calls, HomeInv, RefInv
  <2>2. HomeInv'
    BY <1>5 DEF RejectShell, Calls, HomeInv
  <2>3. CallInv'
    BY <1>5 DEF RejectShell, Calls, HomeInv, CallInv
  <2>4. RefInv'
    BY <1>5 DEF RejectShell, Calls, HomeInv, CallInv, RefInv, LockInv, AtWork, CancelInv
  <2>5. LockInv'
    BY <1>5 DEF RejectShell, Calls, HomeInv, CallInv, RefInv, LockInv, AtWork
  <2>6. CancelInv'
    BY <1>5 DEF RejectShell, Calls, HomeInv, CallInv, RefInv, LockInv, CancelInv, AtWork
  <2>7. NoLostFiber'
    BY <1>5 DEF RejectShell, Calls, NoLostFiber, Current, BeingCancelled, HomeInv, CallInv, RefInv, LockInv, AtWork, RunningState
  <2>. QED BY <2>1, <2>2, <2>3, <2>4, <2>5, <2>6, <2>7
<1>6. ASSUME NEW c \in Callers, BeginShell(c) PROVE IInv'
  <2>1. TypeOK'
    BY <1>6 DEF BeginShell, Calls, HomeInv, RefInv
  <2>2. HomeInv'
    BY <1>6 DEF BeginShell, Calls, HomeInv
  <2>3. CallInv'
    BY <1>6 DEF BeginShell, Calls, HomeInv, CallInv
  <2>4. RefInv'
    BY <1>6 DEF BeginShell, Calls, HomeInv, CallInv, RefInv, LockInv, AtWork, CancelInv
  <2>5. LockInv'
    BY <1>6 DEF BeginShell, Calls, HomeInv, CallInv, RefInv, LockInv, AtWork
  <2>6. CancelInv'
    BY <1>6 DEF BeginShell, Calls, HomeInv, CallInv, RefInv, LockInv, CancelInv, AtWork
  <2>7. NoLostFiber'
    BY <1>6 DEF BeginShell, Calls, NoLostFiber, Current, BeingCancelled, HomeInv, CallInv, RefInv, LockInv, AtWork, RunningState
  <2>. QED BY <2>1, <2>2, <2>3, <2>4, <2>5, <2>6, <2>7
<1>7. ASSUME NEW c \in Callers, StartShell(c) PROVE IInv'
  <2>1. TypeOK'
    BY <1>7 DEF StartShell, ShellState, HomeInv, RefInv
  <2>2. HomeInv'
    BY <1>7 DEF StartShell, ShellState, HomeInv
  <2>3. CallInv'
    BY <1>7 DEF StartShell, ShellState, HomeInv, CallInv
  <2>4. RefInv'
    BY <1>7 DEF StartShell, ShellState, HomeInv, CallInv, RefInv, LockInv, AtWork, CancelInv
  <2>5. LockInv'
    BY <1>7 DEF StartShell, ShellState, HomeInv, CallInv, RefInv, LockInv, AtWork
  <2>6. CancelInv'
    BY <1>7 DEF StartShell, ShellState, HomeInv, CallInv, RefInv, LockInv, CancelInv, AtWork
  <2>7. NoLostFiber'
    BY <1>7 DEF StartShell, ShellState, NoLostFiber, Current, BeingCancelled, HomeInv, CallInv, RefInv, LockInv, AtWork, RunningState
  <2>. QED BY <2>1, <2>2, <2>3, <2>4, <2>5, <2>6, <2>7
<1>8. ASSUME NEW c \in Callers, ReturnRun(c) PROVE IInv'
  <2>1. TypeOK'
    BY <1>8 DEF ReturnRun, HomeInv, RefInv
  <2>2. HomeInv'
    BY <1>8 DEF ReturnRun, HomeInv
  <2>3. CallInv'
    BY <1>8 DEF ReturnRun, HomeInv, CallInv
  <2>4. RefInv'
    BY <1>8 DEF ReturnRun, HomeInv, CallInv, RefInv, LockInv, AtWork, CancelInv
  <2>5. LockInv'
    BY <1>8 DEF ReturnRun, HomeInv, CallInv, RefInv, LockInv, AtWork
  <2>6. CancelInv'
    BY <1>8 DEF ReturnRun, HomeInv, CallInv, RefInv, LockInv, CancelInv, AtWork
  <2>7. NoLostFiber'
    BY <1>8 DEF ReturnRun, NoLostFiber, Current, BeingCancelled, HomeInv, CallInv, RefInv, LockInv, AtWork, RunningState
  <2>. QED BY <2>1, <2>2, <2>3, <2>4, <2>5, <2>6, <2>7
<1>9. ASSUME NEW c \in Callers, ReturnShell(c) PROVE IInv'
  <2>1. TypeOK'
    BY <1>9 DEF ReturnShell, HomeInv, RefInv
  <2>2. HomeInv'
    BY <1>9 DEF ReturnShell, HomeInv
  <2>3. CallInv'
    BY <1>9 DEF ReturnShell, HomeInv, CallInv
  <2>4. RefInv'
    BY <1>9 DEF ReturnShell, HomeInv, CallInv, RefInv, LockInv, AtWork, CancelInv
  <2>5. LockInv'
    BY <1>9 DEF ReturnShell, HomeInv, CallInv, RefInv, LockInv, AtWork
  <2>6. CancelInv'
    BY <1>9 DEF ReturnShell, HomeInv, CallInv, RefInv, LockInv, CancelInv, AtWork
  <2>7. NoLostFiber'
    BY <1>9 DEF ReturnShell, NoLostFiber, Current, BeingCancelled, HomeInv, CallInv, RefInv, LockInv, AtWork, RunningState
  <2>. QED BY <2>1, <2>2, <2>3, <2>4, <2>5, <2>6, <2>7
<1>10. ASSUME NEW c \in Callers, Abandon(c) PROVE IInv'
  <2>1. TypeOK'
    BY <1>10 DEF Abandon, HomeInv, RefInv
  <2>2. HomeInv'
    BY <1>10 DEF Abandon, HomeInv
  <2>3. CallInv'
    BY <1>10 DEF Abandon, HomeInv, CallInv
  <2>4. RefInv'
    BY <1>10 DEF Abandon, HomeInv, CallInv, RefInv, LockInv, AtWork, CancelInv
  <2>5. LockInv'
    BY <1>10 DEF Abandon, HomeInv, CallInv, RefInv, LockInv, AtWork
  <2>6. CancelInv'
    BY <1>10 DEF Abandon, HomeInv, CallInv, RefInv, LockInv, CancelInv, AtWork
  <2>7. NoLostFiber'
    BY <1>10 DEF Abandon, NoLostFiber, Current, BeingCancelled, HomeInv, CallInv, RefInv, LockInv, AtWork, RunningState
  <2>. QED BY <2>1, <2>2, <2>3, <2>4, <2>5, <2>6, <2>7
<1>11. ASSUME NEW c \in Callers, NEW e \in Exits, WorkEnds(c, e) PROVE IInv'
  <2>1. TypeOK'
    BY <1>11 DEF WorkEnds, HomeInv, RefInv
  <2>2. HomeInv'
    BY <1>11 DEF WorkEnds, HomeInv
  <2>3. CallInv'
    BY <1>11 DEF WorkEnds, HomeInv, CallInv
  <2>4. RefInv'
    BY <1>11 DEF WorkEnds, HomeInv, CallInv, RefInv, LockInv, AtWork, CancelInv
  <2>5. LockInv'
    BY <1>11 DEF WorkEnds, HomeInv, CallInv, RefInv, LockInv, AtWork
  <2>6. CancelInv'
    BY <1>11 DEF WorkEnds, HomeInv, CallInv, RefInv, LockInv, CancelInv, AtWork
  <2>7. NoLostFiber'
    BY <1>11 DEF WorkEnds, NoLostFiber, Current, BeingCancelled, HomeInv, CallInv, RefInv, LockInv, AtWork, RunningState
  <2>. QED BY <2>1, <2>2, <2>3, <2>4, <2>5, <2>6, <2>7
<1>12. ASSUME NEW c \in Callers, FinishRun(c) PROVE IInv'
  <2>0. home[c] \in Runners /\ fiber[c] = "ended"
    BY <1>12 DEF FinishRun, HomeInv, CallInv
  <2>1. CASE ref[home[c]] = RunningState(c)
    <3> ref' = [ref EXCEPT ![home[c]] = IdleState] /\ fiber' = [fiber EXCEPT ![c] = "onIdle"]
      BY <1>12, <2>1 DEF FinishRun
    <3>1. TypeOK'
      BY <1>12 DEF FinishRun, IdleState
    <3>2. HomeInv' /\ CallInv' /\ RefInv' /\ LockInv'
      BY <1>12, <2>0, <2>1 DEF FinishRun, IdleState, RunningState, HomeInv, CallInv, RefInv, LockInv, AtWork
    <3>3. CancelInv'
      BY <1>12, <2>0 DEF FinishRun, IdleState, CancelInv
    <3>4. NoLostFiber'
      BY <1>12, <2>0, <2>1 DEF FinishRun, IdleState, RunningState, NoLostFiber, Current, BeingCancelled
    <3>. QED BY <3>1, <3>2, <3>3, <3>4
  <2>2. CASE ref[home[c]] # RunningState(c)
    <3> ref' = ref /\ fiber' = [fiber EXCEPT ![c] = "settle"]
      BY <1>12, <2>2 DEF FinishRun
    <3>1. TypeOK' /\ HomeInv' /\ CallInv' /\ LockInv'
      BY <1>12, <2>0 DEF FinishRun, HomeInv, CallInv, LockInv
    <3>2. RefInv'
      BY <1>12, <2>0, <2>2 DEF FinishRun, RunningState, RefInv, AtWork
    <3>3. CancelInv'
      BY <1>12, <2>0 DEF FinishRun, CancelInv
    <3>4. NoLostFiber'
      BY <1>12, <2>0 DEF FinishRun, NoLostFiber, Current, BeingCancelled
    <3>. QED BY <3>1, <3>2, <3>3, <3>4
  <2>. QED BY <2>1, <2>2
<1>13. ASSUME NEW c \in Callers, FinishShell(c) PROVE IInv'
  <2>0. home[c] \in Runners /\ fiber[c] = "ended" /\ op[c] = "shell"
    BY <1>13 DEF FinishShell, HomeInv, CallInv
  <2>1. CASE ref[home[c]] = ShellState(c)
    <3> ref' = [ref EXCEPT ![home[c]] = IdleState] /\ fiber' = [fiber EXCEPT ![c] = "onIdle"]
      BY <1>13, <2>1 DEF FinishShell, ShellState
    <3>1. TypeOK'
      BY <1>13 DEF FinishShell, IdleState
    <3>2. HomeInv' /\ CallInv' /\ RefInv' /\ LockInv'
      BY <1>13, <2>0, <2>1 DEF FinishShell, IdleState, ShellState, HomeInv, CallInv, RefInv, LockInv, AtWork
    <3>3. CancelInv'
      BY <1>13, <2>0 DEF FinishShell, IdleState, CancelInv
    <3>4. NoLostFiber'
      BY <1>13, <2>0, <2>1 DEF FinishShell, IdleState, ShellState, RunningState, NoLostFiber, Current, BeingCancelled
    <3>. QED BY <3>1, <3>2, <3>3, <3>4
  <2>2. CASE ref[home[c]].tag = "ShellThenRun" /\ ref[home[c]].shell = c
    <3> DEFINE p == ref[home[c]].run
    <3>0. p \in Callers /\ p # c /\ fiber[p] = "none" /\ op[p] = "run" /\ done[p] = "open" /\ home[p] = home[c]
      BY <2>0, <2>2 DEF RefInv
    <3>a. ref' = [ref EXCEPT ![home[c]] = RunningState(p)]
      BY <1>13, <2>2 DEF FinishShell, ShellState
    <3>b. fiber' = [fiber EXCEPT ![c] = "exited", ![p] = "working"]
      BY <1>13, <2>2 DEF FinishShell, ShellState
    <3>1. TypeOK'
      BY <1>13, <3>0, <3>a, <3>b DEF FinishShell, RunningState
    <3>p. pc[p] \notin {"new", "ready", "starting"}
      BY <3>0 DEF CallInv
    <3>2. HomeInv' /\ CallInv'
      BY <1>13, <2>0, <3>0, <3>a, <3>b, <3>p DEF FinishShell, HomeInv, CallInv
    <3>3. RefInv'
      BY SMTT(30), <1>13, <2>0, <2>2, <3>0, <3>a, <3>b DEF FinishShell, RunningState, RefInv, AtWork
    <3>4. LockInv'
      BY <1>13, <2>0, <2>2, <3>a, <3>b DEF FinishShell, RunningState, LockInv
    <3>5. CancelInv'
      BY <1>13, <2>0, <2>2, <3>0, <3>a, <3>b DEF FinishShell, RunningState, CancelInv
    <3>6. NoLostFiber'
      BY <1>13, <2>0, <2>2, <3>0, <3>a, <3>b DEF FinishShell, RunningState, NoLostFiber, RefInv, Current, BeingCancelled
    <3>. QED BY <3>1, <3>2, <3>3, <3>4, <3>5, <3>6
  <2>3. CASE ref[home[c]].shell # c
    <3> ref' = ref /\ fiber' = [fiber EXCEPT ![c] = "exited"]
      BY <1>13, <2>3 DEF FinishShell, ShellState
    <3>1. TypeOK' /\ HomeInv' /\ CallInv' /\ LockInv'
      BY <1>13, <2>0 DEF FinishShell, HomeInv, CallInv, LockInv
    <3>2. RefInv'
      BY <1>13, <2>0, <2>3 DEF FinishShell, RefInv, AtWork
    <3>3. CancelInv'
      BY <1>13, <2>0 DEF FinishShell, CancelInv
    <3>4. NoLostFiber'
      BY <1>13, <2>0 DEF FinishShell, NoLostFiber, Current, BeingCancelled
    <3>. QED BY <3>1, <3>2, <3>3, <3>4
  <2>. QED BY <1>13, <2>1, <2>2, <2>3 DEF FinishShell
<1>14. ASSUME NEW c \in Callers, FiberIdleBegin(c) PROVE IInv'
  <2>1. TypeOK'
    BY <1>14 DEF FiberIdleBegin, HomeInv, RefInv
  <2>2. HomeInv'
    BY <1>14 DEF FiberIdleBegin, HomeInv
  <2>3. CallInv'
    BY <1>14 DEF FiberIdleBegin, HomeInv, CallInv
  <2>4. RefInv'
    BY <1>14 DEF FiberIdleBegin, HomeInv, CallInv, RefInv, LockInv, AtWork, CancelInv
  <2>5. LockInv'
    BY <1>14 DEF FiberIdleBegin, HomeInv, CallInv, RefInv, LockInv, AtWork
  <2>6. CancelInv'
    BY <1>14 DEF FiberIdleBegin, HomeInv, CallInv, RefInv, LockInv, CancelInv, AtWork
  <2>7. NoLostFiber'
    BY <1>14 DEF FiberIdleBegin, NoLostFiber, Current, BeingCancelled, HomeInv, CallInv, RefInv, LockInv, AtWork, RunningState
  <2>. QED BY <2>1, <2>2, <2>3, <2>4, <2>5, <2>6, <2>7
<1>15. ASSUME NEW c \in Callers, FiberIdleEnd(c) PROVE IInv'
  <2>1. TypeOK'
    BY <1>15 DEF FiberIdleEnd, HomeInv, RefInv
  <2>2. HomeInv'
    BY <1>15 DEF FiberIdleEnd, HomeInv
  <2>3. CallInv'
    BY <1>15 DEF FiberIdleEnd, HomeInv, CallInv
  <2>4. RefInv'
    BY <1>15 DEF FiberIdleEnd, HomeInv, CallInv, RefInv, LockInv, AtWork, CancelInv
  <2>5. LockInv'
    BY <1>15 DEF FiberIdleEnd, HomeInv, CallInv, RefInv, LockInv, AtWork
  <2>6. CancelInv'
    BY <1>15 DEF FiberIdleEnd, HomeInv, CallInv, RefInv, LockInv, CancelInv, AtWork
  <2>7. NoLostFiber'
    BY <1>15 DEF FiberIdleEnd, NoLostFiber, Current, BeingCancelled, HomeInv, CallInv, RefInv, LockInv, AtWork, RunningState
  <2>. QED BY <2>1, <2>2, <2>3, <2>4, <2>5, <2>6, <2>7
<1>16. ASSUME NEW c \in Callers, Settle(c) PROVE IInv'
  <2>1. TypeOK'
    BY <1>16 DEF Settle, HomeInv, RefInv
  <2>2. HomeInv'
    BY <1>16 DEF Settle, HomeInv
  <2>3. CallInv'
    BY <1>16 DEF Settle, HomeInv, CallInv
  <2>4. RefInv'
    BY <1>16 DEF Settle, HomeInv, CallInv, RefInv, LockInv, AtWork, CancelInv
  <2>5. LockInv'
    BY <1>16 DEF Settle, HomeInv, CallInv, RefInv, LockInv, AtWork
  <2>6. CancelInv'
    BY <1>16 DEF Settle, HomeInv, CallInv, RefInv, LockInv, CancelInv, AtWork
  <2>7. NoLostFiber'
    BY <1>16 DEF Settle, NoLostFiber, Current, BeingCancelled, HomeInv, CallInv, RefInv, LockInv, AtWork, RunningState
  <2>. QED BY <2>1, <2>2, <2>3, <2>4, <2>5, <2>6, <2>7
<1>17. ASSUME NEW k \in Cancellers, NEW r \in Runners, Seek(k, r) PROVE IInv'
  <2>1. TypeOK'
    BY <1>17 DEF Seek, HomeInv, RefInv
  <2>2. HomeInv'
    BY <1>17 DEF Seek, HomeInv
  <2>3. CallInv'
    BY <1>17 DEF Seek, HomeInv, CallInv
  <2>4. RefInv'
    BY <1>17 DEF Seek, HomeInv, CallInv, RefInv, LockInv, AtWork, CancelInv
  <2>5. LockInv'
    BY <1>17 DEF Seek, HomeInv, CallInv, RefInv, LockInv, AtWork
  <2>6. CancelInv'
    BY <1>17 DEF Seek, HomeInv, CallInv, RefInv, LockInv, CancelInv, AtWork
  <2>7. NoLostFiber'
    BY <1>17 DEF Seek, NoLostFiber, Current, BeingCancelled, HomeInv, CallInv, RefInv, LockInv, AtWork, RunningState
  <2>. QED BY <2>1, <2>2, <2>3, <2>4, <2>5, <2>6, <2>7
<1>18. ASSUME NEW k \in Cancellers, SeekNothing(k) PROVE IInv'
  <2>1. TypeOK'
    BY <1>18 DEF SeekNothing, HomeInv, RefInv
  <2>2. HomeInv'
    BY <1>18 DEF SeekNothing, HomeInv
  <2>3. CallInv'
    BY <1>18 DEF SeekNothing, HomeInv, CallInv
  <2>4. RefInv'
    BY <1>18 DEF SeekNothing, HomeInv, CallInv, RefInv, LockInv, AtWork, CancelInv
  <2>5. LockInv'
    BY <1>18 DEF SeekNothing, HomeInv, CallInv, RefInv, LockInv, AtWork
  <2>6. CancelInv'
    BY <1>18 DEF SeekNothing, HomeInv, CallInv, RefInv, LockInv, CancelInv, AtWork
  <2>7. NoLostFiber'
    BY <1>18 DEF SeekNothing, NoLostFiber, Current, BeingCancelled, HomeInv, CallInv, RefInv, LockInv, AtWork, RunningState
  <2>. QED BY <2>1, <2>2, <2>3, <2>4, <2>5, <2>6, <2>7
<1>19. ASSUME NEW k \in Cancellers, Cancel(k) PROVE IInv'
  <2>1. TypeOK'
    BY <1>19 DEF Cancel, IdleState, HomeInv, RefInv
  <2>2. HomeInv'
    BY <1>19 DEF Cancel, IdleState, HomeInv
  <2>3. CallInv'
    BY <1>19 DEF Cancel, IdleState, HomeInv, CallInv
  <2>4. RefInv'
    BY <1>19 DEF Cancel, IdleState, HomeInv, CallInv, RefInv, LockInv, AtWork, CancelInv
  <2>5. LockInv'
    BY <1>19 DEF Cancel, IdleState, HomeInv, CallInv, RefInv, LockInv, AtWork
  <2>6. CancelInv'
    BY <1>19 DEF Cancel, IdleState, HomeInv, CallInv, RefInv, LockInv, CancelInv, AtWork
  <2>7. NoLostFiber'
    BY <1>19 DEF Cancel, IdleState, NoLostFiber, Current, BeingCancelled, HomeInv, CallInv, RefInv, LockInv, AtWork, RunningState
  <2>. QED BY <2>1, <2>2, <2>3, <2>4, <2>5, <2>6, <2>7
<1>20. ASSUME NEW k \in Cancellers, FailPending(k) PROVE IInv'
  <2>1. TypeOK'
    BY <1>20 DEF FailPending, HomeInv, RefInv
  <2>2. HomeInv'
    BY <1>20 DEF FailPending, HomeInv
  <2>3. CallInv'
    BY <1>20 DEF FailPending, HomeInv, CallInv
  <2>4. RefInv'
    BY <1>20 DEF FailPending, HomeInv, CallInv, RefInv, LockInv, AtWork, CancelInv
  <2>5. LockInv'
    BY <1>20 DEF FailPending, HomeInv, CallInv, RefInv, LockInv, AtWork
  <2>6. CancelInv'
    BY <1>20 DEF FailPending, HomeInv, CallInv, RefInv, LockInv, CancelInv, AtWork
  <2>7. NoLostFiber'
    BY <1>20 DEF FailPending, NoLostFiber, Current, BeingCancelled, HomeInv, CallInv, RefInv, LockInv, AtWork, RunningState
  <2>. QED BY <2>1, <2>2, <2>3, <2>4, <2>5, <2>6, <2>7
<1>21. ASSUME NEW k \in Cancellers, Interrupt(k) PROVE IInv'
  <2>1. TypeOK'
    BY <1>21 DEF Interrupt, CancelInv
  <2>2. HomeInv'
    BY <1>21 DEF Interrupt, HomeInv
  <2>3. CallInv'
    BY <1>21 DEF Interrupt, HomeInv, CallInv
  <2>4. RefInv'
    BY <1>21 DEF Interrupt, HomeInv, CallInv, RefInv, LockInv, AtWork, CancelInv
  <2>5. LockInv'
    BY <1>21 DEF Interrupt, HomeInv, CallInv, RefInv, LockInv, AtWork
  <2>6. CancelInv'
    BY <1>21 DEF Interrupt, HomeInv, CallInv, RefInv, LockInv, CancelInv, AtWork
  <2>7. NoLostFiber'
    BY <1>21 DEF Interrupt, NoLostFiber, Current, BeingCancelled, HomeInv, CallInv, RefInv, LockInv, AtWork, RunningState
  <2>. QED BY <2>1, <2>2, <2>3, <2>4, <2>5, <2>6, <2>7
<1>22. ASSUME NEW k \in Cancellers, AwaitExit(k) PROVE IInv'
  <2>1. TypeOK'
    BY <1>22 DEF AwaitExit, HomeInv, RefInv
  <2>2. HomeInv'
    BY <1>22 DEF AwaitExit, HomeInv
  <2>3. CallInv'
    BY <1>22 DEF AwaitExit, HomeInv, CallInv
  <2>4. RefInv'
    BY <1>22 DEF AwaitExit, HomeInv, CallInv, RefInv, LockInv, AtWork, CancelInv
  <2>5. LockInv'
    BY <1>22 DEF AwaitExit, HomeInv, CallInv, RefInv, LockInv, AtWork
  <2>6. CancelInv'
    BY <1>22 DEF AwaitExit, HomeInv, CallInv, RefInv, LockInv, CancelInv, AtWork
  <2>7. NoLostFiber'
    BY <1>22 DEF AwaitExit, NoLostFiber, Current, BeingCancelled, HomeInv, CallInv, RefInv, LockInv, AtWork, RunningState
  <2>. QED BY <2>1, <2>2, <2>3, <2>4, <2>5, <2>6, <2>7
<1>23. ASSUME NEW k \in Cancellers, IdleIfCurrent(k) PROVE IInv'
  <2>1. TypeOK'
    BY <1>23 DEF IdleIfCurrent, HomeInv, RefInv
  <2>2. HomeInv'
    BY <1>23 DEF IdleIfCurrent, HomeInv
  <2>3. CallInv'
    BY <1>23 DEF IdleIfCurrent, HomeInv, CallInv
  <2>4. RefInv'
    BY <1>23 DEF IdleIfCurrent, HomeInv, CallInv, RefInv, LockInv, AtWork, CancelInv
  <2>5. LockInv'
    BY <1>23 DEF IdleIfCurrent, HomeInv, CallInv, RefInv, LockInv, AtWork
  <2>6. CancelInv'
    BY <1>23 DEF IdleIfCurrent, HomeInv, CallInv, RefInv, LockInv, CancelInv, AtWork
  <2>7. NoLostFiber'
    BY <1>23 DEF IdleIfCurrent, NoLostFiber, Current, BeingCancelled, HomeInv, CallInv, RefInv, LockInv, AtWork, RunningState
  <2>. QED BY <2>1, <2>2, <2>3, <2>4, <2>5, <2>6, <2>7
<1>24. ASSUME NEW k \in Cancellers, CancelIdleBegin(k) PROVE IInv'
  <2>1. TypeOK'
    BY <1>24 DEF CancelIdleBegin, HomeInv, RefInv
  <2>2. HomeInv'
    BY <1>24 DEF CancelIdleBegin, HomeInv
  <2>3. CallInv'
    BY <1>24 DEF CancelIdleBegin, HomeInv, CallInv
  <2>4. RefInv'
    BY <1>24 DEF CancelIdleBegin, HomeInv, CallInv, RefInv, LockInv, AtWork, CancelInv
  <2>5. LockInv'
    BY <1>24 DEF CancelIdleBegin, HomeInv, CallInv, RefInv, LockInv, AtWork
  <2>6. CancelInv'
    BY <1>24 DEF CancelIdleBegin, HomeInv, CallInv, RefInv, LockInv, CancelInv, AtWork
  <2>7. NoLostFiber'
    BY <1>24 DEF CancelIdleBegin, NoLostFiber, Current, BeingCancelled, HomeInv, CallInv, RefInv, LockInv, AtWork, RunningState
  <2>. QED BY <2>1, <2>2, <2>3, <2>4, <2>5, <2>6, <2>7
<1>25. ASSUME NEW k \in Cancellers, CancelIdleEnd(k) PROVE IInv'
  <2>1. TypeOK'
    BY <1>25 DEF CancelIdleEnd, HomeInv, RefInv
  <2>2. HomeInv'
    BY <1>25 DEF CancelIdleEnd, HomeInv
  <2>3. CallInv'
    BY <1>25 DEF CancelIdleEnd, HomeInv, CallInv
  <2>4. RefInv'
    BY <1>25 DEF CancelIdleEnd, HomeInv, CallInv, RefInv, LockInv, AtWork, CancelInv
  <2>5. LockInv'
    BY <1>25 DEF CancelIdleEnd, HomeInv, CallInv, RefInv, LockInv, AtWork
  <2>6. CancelInv'
    BY <1>25 DEF CancelIdleEnd, HomeInv, CallInv, RefInv, LockInv, CancelInv, AtWork
  <2>7. NoLostFiber'
    BY <1>25 DEF CancelIdleEnd, NoLostFiber, Current, BeingCancelled, HomeInv, CallInv, RefInv, LockInv, AtWork, RunningState
  <2>. QED BY <2>1, <2>2, <2>3, <2>4, <2>5, <2>6, <2>7
<1>26. CASE UNCHANGED vars
  BY <1>26 DEF HomeInv, CallInv, RefInv, LockInv, CancelInv, NoLostFiber, AtWork, Current, BeingCancelled
<1>. QED
  BY SMTT(30), <1>1, <1>2, <1>3, <1>4, <1>5, <1>6, <1>7, <1>8, <1>9, <1>10,
     <1>11, <1>12, <1>13, <1>14, <1>15, <1>16, <1>17, <1>18, <1>19, <1>20, <1>21,
     <1>22, <1>23, <1>24, <1>25, <1>26
     DEF Next, CallerStep, CallerReturns, FiberStep, CancelStep, Rest

-----------------------------------------------------------------------------
THEOREM Initially == Init => IInv
  BY NoOneAssumption DEF Init, IInv, TypeOK, HomeInv, CallInv, RefInv, LockInv, CancelInv,
     NoLostFiber, IdleState, MaybeCaller, MaybeRunner, Ops, Exits

(* The inductive invariant holds in every reachable state.                   *)
THEOREM Inductive == Spec => []IInv
  BY Initially, Step, PTL DEF Spec

(* Type correctness of every operation of runner.ts.                         *)
THEOREM TypeCorrect == Spec => []TypeOK
  BY Inductive, PTL DEF IInv

(* No fiber at work is ever out of the reach of a cancel: the state refers   *)
(* to it or a cancel has taken it on (runner.ts: finishRun's id check, and   *)
(* cancel's handing over of the handle it removes).                          *)
THEOREM NoFiberIsLost == Spec => []NoLostFiber
  BY Inductive, PTL DEF IInv

(* A run that can be joined is not complete, and a queued one not started.   *)
THEOREM JoinedInTime == Spec => []JoinableIsOpen
<1>1. IInv => JoinableIsOpen
  <2> SUFFICES ASSUME IInv, NEW r \in Runners, ref[r].run # NoOne
               PROVE  /\ done[ref[r].run] = "open"
                      /\ ref[r].tag = "ShellThenRun" <=> fiber[ref[r].run] = "none"
    BY DEF JoinableIsOpen
  <2>1. ref[r].tag \in {"Running", "ShellThenRun"}
    BY DEF IInv, TypeOK, RefInv
  <2>. QED BY <2>1 DEF IInv, RefInv, AtWork
<1>. QED BY <1>1, Inductive, PTL

(* Two fibers of one runner are at work together only while a cancel is      *)
(* taking one of them down.                                                  *)
THEOREM WorkIsExclusive == Spec => []ExclusiveWork
<1>1. IInv => ExclusiveWork
  <2> SUFFICES ASSUME IInv, NEW c \in Callers, NEW d \in Callers, c # d,
                      home[c] = home[d], fiber[c] = "working", fiber[d] = "working",
                      ~ BeingCancelled(c), ~ BeingCancelled(d)
               PROVE  FALSE
    BY DEF ExclusiveWork
  <2>1. ASSUME NEW x \in {c, d}
        PROVE  \/ ref[home[c]].shell = x
               \/ ref[home[c]].tag = "Running" /\ ref[home[c]].run = x
    <3>1. PICK r \in Runners : ref[r].shell = x \/ ref[r] = RunningState(x)
      BY DEF IInv, NoLostFiber, Current
    <3>2. CASE ref[r].shell = x
      <4>1. ref[r].tag \in {"Shell", "ShellThenRun"}
        BY <3>2, NoOneAssumption DEF IInv, TypeOK, RefInv
      <4>. QED BY <3>2, <4>1 DEF IInv, RefInv
    <3>3. CASE ref[r] = RunningState(x)
      BY <3>3 DEF IInv, RefInv, RunningState
    <3>. QED BY <3>1, <3>2, <3>3
  <2>2. home[c] \in Runners
    BY NoOneAssumption DEF IInv, HomeInv, CallInv
  <2>. QED BY <2>1, <2>2, NoOneAssumption DEF IInv, TypeOK, RefInv
<1>. QED BY <1>1, Inductive, PTL

-----------------------------------------------------------------------------
(***************************************************************************)
(* Waiting.  Served(d) names who is responsible for completing the         *)
(* Deferred of d's run.                                                    *)
(***************************************************************************)
Served(d) ==
  \/ fiber[d] \in {"working", "ended", "onIdle", "inIdle", "settle"}
  \/ \E r \in Runners : ref[r].tag = "ShellThenRun" /\ ref[r].run = d
  \/ \E k \in Cancellers : cpc[k] = "failPending" /\ pend[k] = d

WaitInv ==
  /\ \A c \in Callers :
        /\ pc[c] = "waiting" => awaits[c] \in Callers
        /\ pc[c] # "returned" => result[c] = "none"
  /\ \A d \in Callers : done[d] = "open" => Served(d)

LEMMA WaitStep == IInv /\ IInv' /\ WaitInv /\ [Next]_vars => WaitInv'
<1> SUFFICES ASSUME IInv, IInv', WaitInv, [Next]_vars PROVE WaitInv'
  OBVIOUS
<1> USE NoOneAssumption DEF IInv, TypeOK, vars, callVars, fiberVars, cancelVars, MaybeCaller,
        MaybeRunner, Ops, Exits, WaitInv, Served
<1>1. ASSUME NEW c \in Callers, NEW r \in Runners, NEW o \in Ops, Lookup(c, r, o) PROVE WaitInv'
  BY <1>1 DEF Lookup, HomeInv, CallInv, RefInv, CancelInv
<1>2. ASSUME NEW c \in Callers, JoinRun(c) PROVE WaitInv'
  BY <1>2 DEF JoinRun, Calls, HomeInv, CallInv, RefInv, CancelInv
<1>3. ASSUME NEW c \in Callers, QueueRun(c) PROVE WaitInv'
  BY <1>3 DEF QueueRun, Calls, ShellThenRunState, HomeInv, CallInv, RefInv, CancelInv
<1>4. ASSUME NEW c \in Callers, StartRun(c) PROVE WaitInv'
  BY <1>4 DEF StartRun, Calls, RunningState, HomeInv, CallInv, RefInv, CancelInv
<1>5. ASSUME NEW c \in Callers, RejectShell(c) PROVE WaitInv'
  BY <1>5 DEF RejectShell, Calls, HomeInv, CallInv, RefInv, CancelInv
<1>6. ASSUME NEW c \in Callers, BeginShell(c) PROVE WaitInv'
  BY <1>6 DEF BeginShell, Calls, HomeInv, CallInv, RefInv, CancelInv
<1>7. ASSUME NEW c \in Callers, StartShell(c) PROVE WaitInv'
  BY <1>7 DEF StartShell, ShellState, HomeInv, LockInv
<1>8. ASSUME NEW c \in Callers, ReturnRun(c) PROVE WaitInv'
  BY <1>8 DEF ReturnRun, HomeInv, CallInv, RefInv, CancelInv
<1>9. ASSUME NEW c \in Callers, ReturnShell(c) PROVE WaitInv'
  BY <1>9 DEF ReturnShell, HomeInv, CallInv, RefInv, CancelInv
<1>10. ASSUME NEW c \in Callers, Abandon(c) PROVE WaitInv'
  BY <1>10 DEF Abandon, HomeInv, CallInv, RefInv, CancelInv
<1>11. ASSUME NEW c \in Callers, NEW e \in Exits, WorkEnds(c, e) PROVE WaitInv'
  BY <1>11 DEF WorkEnds, HomeInv, CallInv, RefInv, CancelInv
<1>12. ASSUME NEW c \in Callers, FinishRun(c) PROVE WaitInv'
  <2>1. CASE ref[home[c]] = RunningState(c)
    <3>1. /\ ref' = [ref EXCEPT ![home[c]] = IdleState]
          /\ fiber' = [fiber EXCEPT ![c] = "onIdle"]
      BY <1>12, <2>1 DEF FinishRun
    <3>2. home[c] \in Runners /\ ref[home[c]].tag = "Running"
      BY <1>12, <2>1 DEF FinishRun, HomeInv, CallInv, RunningState
    <3>. QED BY <1>12, <3>1, <3>2 DEF FinishRun
  <2>2. CASE ref[home[c]] # RunningState(c)
    <3>1. ref' = ref /\ fiber' = [fiber EXCEPT ![c] = "settle"]
      BY <1>12, <2>2 DEF FinishRun
    <3>. QED BY <1>12, <3>1 DEF FinishRun
  <2>. QED BY <2>1, <2>2
<1>13. ASSUME NEW c \in Callers, FinishShell(c) PROVE WaitInv'
  <2>0. home[c] \in Runners /\ done[c] # "open"
    BY <1>13 DEF FinishShell, HomeInv, CallInv
  <2>1. CASE ref[home[c]] = ShellState(c)
    <3>1. /\ ref' = [ref EXCEPT ![home[c]] = IdleState]
          /\ fiber' = [fiber EXCEPT ![c] = "onIdle"]
      BY <1>13, <2>1 DEF FinishShell, ShellState
    <3>2. ref[home[c]].tag = "Shell"
      BY <2>1 DEF ShellState
    <3>. QED BY <1>13, <2>0, <3>1, <3>2 DEF FinishShell
  <2>2. CASE ref[home[c]].tag = "ShellThenRun" /\ ref[home[c]].shell = c
    <3>1. ref[home[c]].run \in Callers /\ ref[home[c]].run # c
      BY <1>13, <2>0, <2>2 DEF RefInv, FinishShell
    <3>2. /\ ref' = [ref EXCEPT ![home[c]] = RunningState(ref[home[c]].run)]
          /\ fiber' = [fiber EXCEPT ![c] = "exited", ![ref[home[c]].run] = "working"]
      BY <1>13, <2>2 DEF FinishShell, ShellState
    <3>. QED BY <1>13, <2>0, <3>1, <3>2 DEF FinishShell, RunningState
  <2>3. CASE ref[home[c]].shell # c
    <3>1. ref' = ref /\ fiber' = [fiber EXCEPT ![c] = "exited"]
      BY <1>13, <2>3 DEF FinishShell, ShellState
    <3>. QED BY <1>13, <2>0, <3>1 DEF FinishShell
  <2>. QED BY <1>13, <2>1, <2>2, <2>3 DEF FinishShell
<1>14. ASSUME NEW c \in Callers, FiberIdleBegin(c) PROVE WaitInv'
  BY <1>14 DEF FiberIdleBegin, HomeInv, CallInv, RefInv, CancelInv
<1>15. ASSUME NEW c \in Callers, FiberIdleEnd(c) PROVE WaitInv'
  <2>1. CASE op[c] = "run"
    BY <1>15, <2>1 DEF FiberIdleEnd
  <2>2. CASE op[c] = "shell"
    <3>1. done[c] # "open"
      BY <2>2 DEF CallInv
    <3>. QED BY <1>15, <2>2, <3>1 DEF FiberIdleEnd
  <2>. QED BY <2>1, <2>2
<1>16. ASSUME NEW c \in Callers, Settle(c) PROVE WaitInv'
  BY <1>16 DEF Settle, HomeInv, CallInv, RefInv, CancelInv
<1>17. ASSUME NEW k \in Cancellers, NEW r \in Runners, Seek(k, r) PROVE WaitInv'
  BY <1>17 DEF Seek, HomeInv, CallInv, RefInv, CancelInv
<1>18. ASSUME NEW k \in Cancellers, SeekNothing(k) PROVE WaitInv'
  BY <1>18 DEF SeekNothing, HomeInv, CallInv, RefInv, CancelInv
<1>19. ASSUME NEW k \in Cancellers, Cancel(k) PROVE WaitInv'
  BY <1>19 DEF Cancel, IdleState, HomeInv, CallInv, RefInv, CancelInv
<1>20. ASSUME NEW k \in Cancellers, FailPending(k) PROVE WaitInv'
  BY <1>20 DEF FailPending, HomeInv, CallInv, RefInv, CancelInv
<1>21. ASSUME NEW k \in Cancellers, Interrupt(k) PROVE WaitInv'
  BY <1>21 DEF Interrupt, HomeInv, CallInv, RefInv, CancelInv
<1>22. ASSUME NEW k \in Cancellers, AwaitExit(k) PROVE WaitInv'
  BY <1>22 DEF AwaitExit, HomeInv, CallInv, RefInv, CancelInv
<1>23. ASSUME NEW k \in Cancellers, IdleIfCurrent(k) PROVE WaitInv'
  BY <1>23 DEF IdleIfCurrent, HomeInv, CallInv, RefInv, CancelInv
<1>24. ASSUME NEW k \in Cancellers, CancelIdleBegin(k) PROVE WaitInv'
  BY <1>24 DEF CancelIdleBegin, HomeInv, CallInv, RefInv, CancelInv
<1>25. ASSUME NEW k \in Cancellers, CancelIdleEnd(k) PROVE WaitInv'
  BY <1>25 DEF CancelIdleEnd, HomeInv, CallInv, RefInv, CancelInv
<1>26. CASE UNCHANGED vars
  BY <1>26
<1> HIDE DEF IInv, TypeOK, WaitInv, Served
<1>. QED
  BY <1>1, <1>2, <1>3, <1>4, <1>5, <1>6, <1>7, <1>8, <1>9, <1>10, <1>11, <1>12, <1>13, <1>14, <1>15, <1>16, <1>17, <1>18, <1>19, <1>20, <1>21, <1>22, <1>23, <1>24, <1>25, <1>26 DEF Next, CallerStep, CallerReturns, FiberStep, CancelStep, Rest

THEOREM WaitInductive == Spec => []WaitInv
<1>1. Init => WaitInv
  BY DEF Init, WaitInv
<1>. QED BY <1>1, WaitStep, Inductive, PTL DEF Spec

(* A fiber past its work knows how the work ended.                           *)
ExitInv ==
  \A d \in Callers : fiber[d] \notin {"none", "working"} => exit[d] \in Exits

THEOREM ExitInductive == Spec => []ExitInv
<1>1. Init => ExitInv
  BY DEF Init, ExitInv
<1>2. IInv /\ ExitInv /\ [Next]_vars => ExitInv'
  <2> SUFFICES ASSUME IInv, ExitInv, [Next]_vars PROVE ExitInv'
    OBVIOUS
  <2> USE DEF ExitInv, IInv, TypeOK
  <2>1. ASSUME NEW c \in Callers, FinishShell(c) PROVE ExitInv'
    <3>1. CASE fiber' = [fiber EXCEPT ![c] = "exited", ![ref[home[c]].run] = "working"]
      BY <2>1, <3>1 DEF FinishShell
    <3>. QED BY <2>1, <3>1 DEF FinishShell
  <2>2. ASSUME NEW c \in Callers, NEW e \in Exits, WorkEnds(c, e) PROVE ExitInv'
    BY <2>2 DEF WorkEnds
  <2>3. ASSUME NEW c \in Callers, NEW s, fiber' = [fiber EXCEPT ![c] = s], exit' = exit,
               s = "working" \/ fiber[c] \notin {"none", "working"}
        PROVE  ExitInv'
    BY <2>3
  <2>4. ASSUME NEW c \in Callers,
               \/ StartRun(c) \/ StartShell(c) \/ FinishRun(c)
               \/ FiberIdleBegin(c) \/ FiberIdleEnd(c) \/ Settle(c)
        PROVE  ExitInv'
    <3>1. exit' = exit
      BY <2>4 DEF StartRun, StartShell, FinishRun, FiberIdleBegin, FiberIdleEnd, Settle
    <3>2. \E s : /\ fiber' = [fiber EXCEPT ![c] = s]
                 /\ s = "working" \/ fiber[c] \notin {"none", "working"}
      BY <2>4 DEF StartRun, StartShell, FinishRun, FiberIdleBegin, FiberIdleEnd, Settle
    <3>. QED BY <2>3, <3>1, <3>2
  <2>5. ASSUME UNCHANGED <<fiber, exit>> PROVE ExitInv'
    BY <2>5
  <2> HIDE DEF ExitInv, IInv, TypeOK
  <2>6. ASSUME NEW c \in Callers,
               \/ JoinRun(c) \/ QueueRun(c) \/ RejectShell(c) \/ BeginShell(c)
               \/ ReturnRun(c) \/ ReturnShell(c) \/ Abandon(c)
               \/ \E r \in Runners, o \in Ops : Lookup(c, r, o)
        PROVE  ExitInv'
    BY <2>5, <2>6 DEF JoinRun, QueueRun, RejectShell, BeginShell, ReturnRun, ReturnShell,
                      Abandon, Lookup, fiberVars
  <2>7. ASSUME NEW k \in Cancellers,
               CancelStep(k) \/ SeekNothing(k) \/ \E r \in Runners : Seek(k, r)
        PROVE  ExitInv'
    BY <2>5, <2>7 DEF CancelStep, Cancel, FailPending, Interrupt, AwaitExit, IdleIfCurrent,
                      CancelIdleBegin, CancelIdleEnd, SeekNothing, Seek, fiberVars
  <2>8. CASE UNCHANGED vars
    BY <2>5, <2>8 DEF vars, fiberVars
  <2>. QED BY <2>1, <2>2, <2>4, <2>6, <2>7, <2>8
           DEF Next, CallerStep, CallerReturns, FiberStep, Rest
<1>. QED BY <1>1, <1>2, Inductive, PTL DEF Spec

(* Somebody is responsible for every Deferred a caller waits on, so that no  *)
(* sequence of runs, shells and cancels strands a caller of ensureRunning.   *)
THEOREM NobodyIsStranded == Spec => []WaitersAreServed
<1>1. IInv /\ WaitInv => WaitersAreServed
  BY DEF WaitInv, WaitersAreServed, Served
<1>. QED BY <1>1, Inductive, WaitInductive, PTL

-----------------------------------------------------------------------------
(***************************************************************************)
(* Interruptions.  A mark, once a canceller has it, stays; and whatever    *)
(* was interrupted or failed as cancelled has a mark, but for a shell      *)
(* whose caller gave up.                                                   *)
(***************************************************************************)
Marked(d) == \E k \in Cancellers : d \in {target[k], pend[k]}

MarkInv ==
  /\ \A k \in Cancellers :
        cpc[k] \in {"new", "ready"} => target[k] = NoOne /\ pend[k] = NoOne
  /\ \A c \in Callers :
        /\ c \in intr => Marked(c) \/ (op[c] = "shell" /\ pc[c] = "returned")
        /\ exit[c] = "interrupt" => c \in intr
        /\ done[c] = "cancelled" => Marked(c)
        /\ op[c] = "shell" /\ pc[c] = "waiting" => awaits[c] = c
        /\ result[c] = "interrupted" => awaits[c] \in Callers /\ Marked(awaits[c])

(* Only Cancel gives marks, and to a canceller that has none.                *)
LEMMA MarksStay ==
  ASSUME TypeOK, MarkInv, [Next]_vars, NEW d \in Callers, Marked(d) PROVE Marked(d)'
<1>1. PICK k \in Cancellers : d \in {target[k], pend[k]}
  BY DEF Marked
<1>2. cpc[k] \notin {"new", "ready"}
  BY <1>1, NoOneAssumption DEF MarkInv
<1>3. target'[k] = target[k] /\ pend'[k] = pend[k]
  <2>1. ASSUME NEW j \in Cancellers, CancelStep(j)
        PROVE  target'[k] = target[k] /\ pend'[k] = pend[k]
    BY <2>1, <1>2 DEF TypeOK, CancelStep, Cancel, FailPending, Interrupt, AwaitExit,
                      IdleIfCurrent, CancelIdleBegin, CancelIdleEnd
  <2>2. ASSUME NEW c \in Callers, CallerStep(c) \/ FiberStep(c) \/ Abandon(c)
        PROVE  UNCHANGED <<target, pend>>
    BY <2>2 DEF CallerStep, CallerReturns, FiberStep, JoinRun, QueueRun, StartRun,
                RejectShell, BeginShell, StartShell, ReturnRun, ReturnShell, Abandon,
                FinishRun, FinishShell, FiberIdleBegin, FiberIdleEnd, Settle, cancelVars
  <2>3. CASE UNCHANGED vars
    BY <2>3 DEF vars, cancelVars
  <2> QED
    BY <2>1, <2>2, <2>3 DEF Next, Lookup, WorkEnds, Seek, SeekNothing, Rest, cancelVars
<1> QED BY <1>1, <1>3 DEF Marked

LEMMA MarkStep == IInv /\ WaitInv /\ MarkInv /\ [Next]_vars => MarkInv'
<1> SUFFICES ASSUME IInv, WaitInv, MarkInv, [Next]_vars PROVE MarkInv'
  OBVIOUS
<1> USE NoOneAssumption DEF IInv, TypeOK, MaybeCaller, fiberVars, callVars, cancelVars, MarkInv
<1>m. \A d \in Callers : Marked(d) => Marked(d)'
  BY MarksStay DEF MarkInv
<1>w. \A c \in Callers : /\ pc[c] # "returned" => result[c] = "none"
                         /\ pc[c] = "waiting" => awaits[c] \in Callers
                         /\ done[c] # "none" => op[c] = "run"
                         /\ pc[c] = "starting" => op[c] = "shell"
  BY DEF WaitInv, CallInv, LockInv
<1>c. \A k \in Cancellers :
        /\ cpc[k] = "interrupt" => target[k] \in Callers /\ Marked(target[k])
        /\ cpc[k] = "failPending" => pend[k] \in Callers /\ Marked(pend[k])
  BY DEF CancelInv, Marked
<1>1. ASSUME NEW c \in Callers, NEW r \in Runners, NEW o \in Ops, Lookup(c, r, o) PROVE MarkInv'
  BY <1>m, <1>1 DEF Lookup
<1>2. ASSUME NEW c \in Callers, NEW e \in Exits, WorkEnds(c, e) PROVE MarkInv'
  BY <1>m, <1>2 DEF WorkEnds
<1>3. ASSUME NEW k \in Cancellers, NEW r \in Runners, Seek(k, r) PROVE MarkInv'
  BY <1>m, <1>3 DEF Seek
<1>4. ASSUME NEW c \in Callers, JoinRun(c) PROVE MarkInv'
  BY <1>m, <1>w, <1>4 DEF JoinRun, Calls
<1>5. ASSUME NEW c \in Callers, QueueRun(c) PROVE MarkInv'
  BY <1>m, <1>w, <1>5 DEF QueueRun, Calls
<1>6. ASSUME NEW c \in Callers, StartRun(c) PROVE MarkInv'
  BY <1>m, <1>w, <1>6 DEF StartRun, Calls
<1>7. ASSUME NEW c \in Callers, RejectShell(c) PROVE MarkInv'
  BY <1>m, <1>7 DEF RejectShell, Calls
<1>8. ASSUME NEW c \in Callers, BeginShell(c) PROVE MarkInv'
  BY <1>m, <1>8 DEF BeginShell, Calls
<1>9. ASSUME NEW c \in Callers, StartShell(c) PROVE MarkInv'
  BY <1>m, <1>w, <1>9 DEF StartShell
<1>10. ASSUME NEW c \in Callers, ReturnRun(c) PROVE MarkInv'
  BY <1>m, <1>w, <1>10 DEF ReturnRun
<1>11. ASSUME NEW c \in Callers, ReturnShell(c) PROVE MarkInv'
  <2>1. exit[c] = "interrupt" => Marked(c) /\ awaits[c] = c
    BY <1>11 DEF ReturnShell
  <2>2. result'[c] = "interrupted" => exit[c] = "interrupt"
    BY <1>11 DEF ReturnShell, Exits
  <2> QED
    BY <1>m, <1>w, <1>11, <2>1, <2>2 DEF ReturnShell
<1>12. ASSUME NEW c \in Callers, Abandon(c) PROVE MarkInv'
  BY <1>m, <1>12 DEF Abandon
<1>13. ASSUME NEW c \in Callers, FinishRun(c) PROVE MarkInv'
  BY <1>m, <1>13 DEF FinishRun
<1>14. ASSUME NEW c \in Callers, FinishShell(c) PROVE MarkInv'
  BY <1>m, <1>14 DEF FinishShell
<1>15. ASSUME NEW c \in Callers, FiberIdleBegin(c) PROVE MarkInv'
  BY <1>m, <1>15 DEF FiberIdleBegin
<1>16. ASSUME NEW c \in Callers, FiberIdleEnd(c) PROVE MarkInv'
  BY <1>m, <1>16 DEF FiberIdleEnd
<1>17. ASSUME NEW c \in Callers, Settle(c) PROVE MarkInv'
  <2>1. done'[c] = "cancelled" => done[c] = "cancelled" \/ Marked(c)
    BY <1>w, <1>17 DEF Settle, Exits
  <2> QED
    BY <1>m, <1>17, <2>1 DEF Settle
<1>18. ASSUME NEW k \in Cancellers, SeekNothing(k) PROVE MarkInv'
  BY <1>m, <1>18 DEF SeekNothing
<1>19. ASSUME NEW k \in Cancellers, Cancel(k) PROVE MarkInv'
  BY <1>m, <1>19 DEF Cancel
<1>20. ASSUME NEW k \in Cancellers, FailPending(k) PROVE MarkInv'
  BY <1>m, <1>c, <1>20 DEF FailPending
<1>21. ASSUME NEW k \in Cancellers, Interrupt(k) PROVE MarkInv'
  BY <1>m, <1>c, <1>21 DEF Interrupt
<1>22. ASSUME NEW k \in Cancellers, AwaitExit(k) PROVE MarkInv'
  BY <1>m, <1>22 DEF AwaitExit
<1>23. ASSUME NEW k \in Cancellers, IdleIfCurrent(k) PROVE MarkInv'
  BY <1>m, <1>23 DEF IdleIfCurrent
<1>24. ASSUME NEW k \in Cancellers, CancelIdleBegin(k) PROVE MarkInv'
  BY <1>m, <1>24 DEF CancelIdleBegin
<1>25. ASSUME NEW k \in Cancellers, CancelIdleEnd(k) PROVE MarkInv'
  BY <1>m, <1>25 DEF CancelIdleEnd
<1>26. CASE UNCHANGED vars
  BY <1>m, <1>26 DEF vars
<1> HIDE DEF IInv, TypeOK, MarkInv
<1> QED
  BY <1>1, <1>2, <1>3, <1>4, <1>5, <1>6, <1>7, <1>8, <1>9, <1>10, <1>11, <1>12, <1>13, <1>14, <1>15, <1>16, <1>17, <1>18, <1>19, <1>20, <1>21, <1>22, <1>23, <1>24, <1>25, <1>26 DEF Next, CallerStep, CallerReturns, FiberStep, CancelStep, Rest

(* A call reports an interruption only if a cancel took down the work it     *)
(* waited for: no failure, and no other caller's departure, is taken for one *)
(* (runner.ts: complete, and the catch of Cancelled in ensureRunning).       *)
THEOREM InterruptionsAreCancels == Spec => []InterruptedOnlyByCancel
<1>1. Init => MarkInv
  BY DEF Init, MarkInv
<1>2. MarkInv => InterruptedOnlyByCancel
  BY DEF MarkInv, InterruptedOnlyByCancel, Marked
<1> QED
  BY <1>1, <1>2, MarkStep, Inductive, WaitInductive, PTL DEF Spec

-----------------------------------------------------------------------------
(***************************************************************************)
(* Cancels come back.  What a canceller took down is interrupted or failed *)
(* once it is past the step that does it, and stays so.                    *)
(***************************************************************************)
DoomInv ==
  \A k \in Cancellers :
    /\ target[k] # NoOne =>
         /\ target[k] \in Callers /\ fiber[target[k]] # "none"
         /\ cpc[k] \in {"failPending", "interrupt"} \/ target[k] \in intr
    /\ pend[k] # NoOne =>
         /\ pend[k] \in Callers /\ done[pend[k]] # "none"
         /\ cpc[k] = "failPending" \/ done[pend[k]] # "open"

(* A canceller that waits has work to wait for that is interrupted and has   *)
(* steps to take, or is over and settled; and a lock that keeps it waiting   *)
(* is held by a startShell that is about to give it back.                    *)
CancelIsServed ==
  \A k \in Cancellers :
    /\ cpc[k] = "await" =>
         LET d == target[k]
         IN  /\ d \in intr
             /\ \/ fiber[d] \in {"working", "ended", "onIdle", "inIdle", "settle"}
                \/ fiber[d] = "exited" /\ (op[d] = "run" => done[d] # "open")
    /\ cpc[k] \in {"ready", "recheck"} =>
         Free(chome[k]) \/ pc[lock[chome[k]]] = "starting"

(* Whoever waits for work that a cancel takes down is released: the cancel   *)
(* has still to deal with the work, or the work is interrupted, or its       *)
(* Deferred is complete.                                                     *)
CancelledIsDoomed ==
  \A c \in Callers, k \in Cancellers :
    pc[c] = "waiting" /\ awaits[c] \in {target[k], pend[k]} =>
      \/ cpc[k] \in {"failPending", "interrupt"}
      \/ awaits[c] \in intr
      \/ done[awaits[c]] # "open"

(* How far calls, fibers and cancels are from their ends.                    *)
CallLeft(s) ==
  CASE s = "new" -> 4 [] s = "ready" -> 3 [] s = "starting" -> 2
    [] s = "waiting" -> 1 [] s = "returned" -> 0

FiberLeft(s) ==
  CASE s = "none" -> 6 [] s = "working" -> 5 [] s = "ended" -> 4 [] s = "onIdle" -> 3
    [] s = "inIdle" -> 2 [] s = "settle" -> 1 [] s = "exited" -> 0

CancelLeft(s) ==
  CASE s = "new" -> 8 [] s = "ready" -> 7 [] s = "failPending" -> 6
    [] s = "interrupt" -> 5 [] s = "await" -> 4 [] s = "recheck" -> 3
    [] s = "onIdle" -> 2 [] s = "inIdle" -> 1 [] s = "finished" -> 0

(* Every step of a call, a fiber or a cancel brings it nearer to its end,    *)
(* and no step of another takes it back.                                     *)
EveryStepAdvances ==
  [][/\ \A c \in Callers :
          /\ pc'[c] = pc[c] \/ CallLeft(pc'[c]) < CallLeft(pc[c])
          /\ fiber'[c] = fiber[c] \/ FiberLeft(fiber'[c]) < FiberLeft(fiber[c])
     /\ \A k \in Cancellers :
          cpc'[k] = cpc[k] \/ CancelLeft(cpc'[k]) < CancelLeft(cpc[k])]_vars

(* What has begun does not become new again, and what is over stays so.      *)
LEMMA EndsStay ==
  ASSUME IInv, ExitInv, [Next]_vars, NEW d \in Callers
  PROVE  /\ fiber[d] # "none" => fiber'[d] # "none"
         /\ d \in intr => d \in intr'
         /\ done[d] # "none" => done'[d] # "none"
         /\ done[d] \notin {"none", "open"} => done'[d] = done[d]
<1> USE DEF TypeOK
<1>1. ASSUME NEW c \in Callers,
             JoinRun(c) \/ QueueRun(c) \/ StartRun(c) \/ RejectShell(c) \/ BeginShell(c)
      PROVE  /\ fiber[d] # "none" => fiber'[d] # "none"
             /\ intr' = intr
             /\ done[d] # "none" => done'[d] = done[d]
  BY <1>1 DEF JoinRun, QueueRun, StartRun, RejectShell, BeginShell, Calls, IInv, CallInv,
              fiberVars
<1>2. ASSUME NEW c \in Callers, StartShell(c) \/ ReturnRun(c) \/ ReturnShell(c) \/ Abandon(c)
      PROVE  /\ fiber[d] # "none" => fiber'[d] # "none"
             /\ intr \subseteq intr' /\ done' = done
  BY <1>2 DEF StartShell, ReturnRun, ReturnShell, Abandon, IInv, fiberVars
<1>3. ASSUME NEW c \in Callers, NEW e \in Exits, WorkEnds(c, e)
      PROVE  /\ fiber[d] # "none" => fiber'[d] # "none"
             /\ intr' = intr /\ done' = done
  BY <1>3 DEF WorkEnds, IInv
<1>4. ASSUME NEW c \in Callers, FinishRun(c) \/ FiberIdleBegin(c) \/ FiberIdleEnd(c)
      PROVE  /\ fiber[d] # "none" => fiber'[d] # "none"
             /\ intr' = intr /\ done' = done
  BY <1>4 DEF FinishRun, FiberIdleBegin, FiberIdleEnd, IInv
<1>5. ASSUME NEW c \in Callers, FinishShell(c)
      PROVE  /\ fiber[d] # "none" => fiber'[d] # "none"
             /\ intr' = intr /\ done' = done
  BY <1>5 DEF FinishShell, IInv
<1>6. ASSUME NEW c \in Callers, Settle(c)
      PROVE  /\ fiber[d] # "none" => fiber'[d] # "none"
             /\ intr' = intr
             /\ done[d] # "none" => done'[d] # "none"
             /\ done[d] \notin {"none", "open"} => done'[d] = done[d]
  BY <1>6 DEF Settle, IInv, ExitInv, Exits
<1>7. ASSUME NEW k \in Cancellers, CancelStep(k)
      PROVE  /\ fiber' = fiber /\ intr \subseteq intr'
             /\ done[d] # "none" => done'[d] # "none"
             /\ done[d] \notin {"none", "open"} => done'[d] = done[d]
  BY <1>7 DEF CancelStep, Cancel, FailPending, Interrupt, AwaitExit, IdleIfCurrent,
              CancelIdleBegin, CancelIdleEnd, IInv, fiberVars
<1> QED
  BY <1>1, <1>2, <1>3, <1>4, <1>5, <1>6, <1>7
     DEF Next, CallerStep, CallerReturns, FiberStep, Lookup, Seek, SeekNothing, Rest,
         vars, fiberVars

LEMMA DoomStep ==
  IInv /\ ExitInv /\ MarkInv /\ DoomInv /\ [Next]_vars => DoomInv'
<1> SUFFICES ASSUME IInv, ExitInv, MarkInv, DoomInv, [Next]_vars PROVE DoomInv'
  OBVIOUS
<1> DEFINE Doomed(k) ==
      /\ target[k] # NoOne =>
           /\ target[k] \in Callers /\ fiber[target[k]] # "none"
           /\ cpc[k] \in {"failPending", "interrupt"} \/ target[k] \in intr
      /\ pend[k] # NoOne =>
           /\ pend[k] \in Callers /\ done[pend[k]] # "none"
           /\ cpc[k] = "failPending" \/ done[pend[k]] # "open"
<1> SUFFICES ASSUME NEW k \in Cancellers PROVE Doomed(k)'
  BY DEF DoomInv
<1>1. Doomed(k)
  BY DEF DoomInv
<1>2. TypeOK
  BY DEF IInv
<1>3. \A d \in Callers : /\ fiber[d] # "none" => fiber'[d] # "none"
                         /\ d \in intr => d \in intr'
                         /\ done[d] # "none" => done'[d] # "none"
                         /\ done[d] \notin {"none", "open"} => done'[d] = done[d]
  BY EndsStay
<1>4. ASSUME target'[k] = target[k], pend'[k] = pend[k],
             \/ cpc'[k] = cpc[k]
             \/ cpc[k] \notin {"failPending", "interrupt"}
      PROVE  Doomed(k)'
  BY <1>1, <1>3, <1>4
<1>5. ASSUME Cancel(k) PROVE Doomed(k)'
  <2> DEFINE st == ref[chome[k]]
  <2>1. chome[k] \in Runners
    BY <1>5 DEF Cancel, IInv, HomeInv
  <2>2. /\ fiber' = fiber /\ done' = done /\ intr' = intr
        /\ target'[k] = IF st.tag = "Running" THEN st.run ELSE st.shell
        /\ pend'[k] = IF st.tag = "ShellThenRun" THEN st.run ELSE NoOne
        /\ cpc'[k] = CASE st.tag = "Idle"         -> "finished"
                       [] st.tag = "ShellThenRun" -> "failPending"
                       [] OTHER                   -> "interrupt"
    BY <1>2, <1>5 DEF Cancel, TypeOK, fiberVars
  <2>3. st.tag \in {"Idle", "Running", "Shell", "ShellThenRun"}
    BY <1>2, <2>1 DEF TypeOK
  <2>4. CASE st.tag = "Idle"
    <3>1. target'[k] = NoOne /\ pend'[k] = NoOne
      BY <2>1, <2>2, <2>4 DEF IInv, RefInv
    <3> QED
      BY <3>1
  <2>5. CASE st.tag = "Running"
    <3>1. target'[k] \in Callers /\ fiber[target'[k]] # "none" /\ pend'[k] = NoOne
          /\ cpc'[k] = "interrupt"
      BY <2>1, <2>2, <2>5 DEF IInv, RefInv, AtWork
    <3> QED
      BY <2>2, <3>1
  <2>6. CASE st.tag = "Shell"
    <3>1. target'[k] \in Callers /\ fiber[target'[k]] # "none" /\ pend'[k] = NoOne
          /\ cpc'[k] = "interrupt"
      BY <2>1, <2>2, <2>6 DEF IInv, RefInv, AtWork
    <3> QED
      BY <2>2, <3>1
  <2>7. CASE st.tag = "ShellThenRun"
    <3>1. /\ target'[k] \in Callers /\ fiber[target'[k]] # "none"
          /\ pend'[k] \in Callers /\ done[pend'[k]] # "none"
          /\ cpc'[k] = "failPending"
      BY <2>1, <2>2, <2>7 DEF IInv, RefInv, AtWork
    <3> QED
      BY <2>2, <3>1
  <2> QED
    BY <2>3, <2>4, <2>5, <2>6, <2>7
<1>6. ASSUME FailPending(k) PROVE Doomed(k)'
  <2>1. /\ target' = target /\ pend' = pend /\ intr' = intr /\ fiber' = fiber
        /\ cpc[k] = "failPending" /\ cpc'[k] = "interrupt"
    BY <1>2, <1>6 DEF FailPending, TypeOK
  <2>2. pend[k] \in Callers => done'[pend[k]] # "open"
    BY <1>2, <1>6 DEF FailPending, TypeOK
  <2> QED
    BY <1>1, <1>3, <2>1, <2>2
<1>7. ASSUME Interrupt(k) PROVE Doomed(k)'
  <2>1. /\ target' = target /\ pend' = pend /\ fiber' = fiber /\ done' = done
        /\ cpc[k] = "interrupt" /\ target[k] \in intr'
    BY <1>2, <1>7 DEF Interrupt, TypeOK
  <2> QED
    BY <1>1, <2>1
<1>8. ASSUME \/ AwaitExit(k) \/ IdleIfCurrent(k) \/ CancelIdleBegin(k) \/ CancelIdleEnd(k)
             \/ SeekNothing(k) \/ \E r \in Runners : Seek(k, r)
      PROVE  Doomed(k)'
  <2>1. target'[k] = target[k] /\ pend'[k] = pend[k]
        /\ cpc[k] \notin {"failPending", "interrupt"}
    BY <1>8 DEF AwaitExit, IdleIfCurrent, CancelIdleBegin, CancelIdleEnd, SeekNothing, Seek
  <2> QED
    BY <1>4, <2>1
<1>9. ASSUME NEW j \in Cancellers, j # k,
             CancelStep(j) \/ SeekNothing(j) \/ \E r \in Runners : Seek(j, r)
      PROVE  Doomed(k)'
  <2>1. target'[k] = target[k] /\ pend'[k] = pend[k] /\ cpc'[k] = cpc[k]
    BY <1>2, <1>9 DEF CancelStep, Cancel, FailPending, Interrupt, AwaitExit, IdleIfCurrent,
                CancelIdleBegin, CancelIdleEnd, SeekNothing, Seek, TypeOK
  <2> QED
    BY <1>4, <2>1
<1>10. ASSUME UNCHANGED cancelVars PROVE Doomed(k)'
  BY <1>4, <1>10 DEF cancelVars
<1> HIDE DEF Doomed
<1>11. ASSUME NEW c \in Callers, CallerStep(c) \/ FiberStep(c) \/ Abandon(c)
       PROVE  UNCHANGED cancelVars
  BY <1>11 DEF CallerStep, CallerReturns, FiberStep, JoinRun, QueueRun, StartRun,
               RejectShell, BeginShell, StartShell, ReturnRun, ReturnShell, Abandon,
               FinishRun, FinishShell, FiberIdleBegin, FiberIdleEnd, Settle
<1>12. CASE UNCHANGED vars
  BY <1>10, <1>12 DEF vars
<1> QED
  BY <1>5, <1>6, <1>7, <1>8, <1>9, <1>10, <1>11, <1>12
     DEF Next, CancelStep, Lookup, WorkEnds, Rest

LEMMA DoomInvariance == Spec => []DoomInv
<1>1. Init => DoomInv
  BY DEF Init, DoomInv
<1>2. Init => MarkInv
  BY DEF Init, MarkInv
<1> QED
  BY <1>1, <1>2, DoomStep, MarkStep, Inductive, WaitInductive, ExitInductive, PTL DEF Spec

(* No cancel hangs, whatever starts meanwhile and in whatever state it found *)
(* the runner: while it waits there is somebody with a step to take, and     *)
(* that step is one the runtime grants, or the wait is over.                 *)
THEOREM CancelsAreServed == Spec => []CancelIsServed
<1>1. IInv /\ WaitInv /\ DoomInv => CancelIsServed
  <2> SUFFICES ASSUME IInv, WaitInv, DoomInv, NEW k \in Cancellers
               PROVE  /\ cpc[k] = "await" =>
                           LET d == target[k]
                           IN  /\ d \in intr
                               /\ \/ fiber[d] \in {"working", "ended", "onIdle", "inIdle",
                                                   "settle"}
                                  \/ fiber[d] = "exited"
                                     /\ (op[d] = "run" => done[d] # "open")
                      /\ cpc[k] \in {"ready", "recheck"} =>
                           Free(chome[k]) \/ pc[lock[chome[k]]] = "starting"
    BY DEF CancelIsServed
  <2>1. ASSUME cpc[k] = "await"
        PROVE  /\ target[k] \in intr
               /\ \/ fiber[target[k]] \in {"working", "ended", "onIdle", "inIdle", "settle"}
                  \/ fiber[target[k]] = "exited"
                     /\ (op[target[k]] = "run" => done[target[k]] # "open")
    <3> DEFINE d == target[k]
    <3>1. d \in Callers
      BY <2>1 DEF IInv, CancelInv
    <3>2. d \in intr /\ fiber[d] # "none"
      BY <2>1, <3>1, NoOneAssumption DEF DoomInv
    <3>3. fiber[d] \in {"none", "working", "ended", "onIdle", "inIdle", "settle", "exited"}
      BY <3>1 DEF IInv, TypeOK
    <3>4. ASSUME fiber[d] = "exited", done[d] = "open" PROVE FALSE
      <4>1. Served(d)
        BY <3>1, <3>4 DEF WaitInv
      <4>2. ~ \E r \in Runners : ref[r].tag = "ShellThenRun" /\ ref[r].run = d
        BY <3>4 DEF IInv, RefInv
      <4>3. ~ \E j \in Cancellers : cpc[j] = "failPending" /\ pend[j] = d
        BY <3>4 DEF IInv, CancelInv
      <4> QED
        BY <3>4, <4>1, <4>2, <4>3 DEF Served
    <3> QED
      BY <3>2, <3>3, <3>4
  <2>2. ASSUME cpc[k] \in {"ready", "recheck"}, ~ Free(chome[k])
        PROVE  pc[lock[chome[k]]] = "starting"
    BY <2>2 DEF Free, IInv, HomeInv, LockInv
  <2> QED
    BY <2>1, <2>2
<1> QED
  BY <1>1, Inductive, WaitInductive, DoomInvariance, PTL

(* Nobody is left waiting for work that a cancel has taken down.             *)
THEOREM CancelledWorkIsDoomed == Spec => []CancelledIsDoomed
<1>1. IInv /\ WaitInv /\ DoomInv => CancelledIsDoomed
  <2> SUFFICES ASSUME WaitInv, DoomInv, NEW c \in Callers, NEW k \in Cancellers,
                      pc[c] = "waiting", awaits[c] \in {target[k], pend[k]}
               PROVE  \/ cpc[k] \in {"failPending", "interrupt"}
                      \/ awaits[c] \in intr
                      \/ done[awaits[c]] # "open"
    BY DEF CancelledIsDoomed
  <2>1. awaits[c] \in Callers /\ awaits[c] # NoOne
    BY NoOneAssumption DEF WaitInv
  <2> QED
    BY <2>1 DEF DoomInv
<1> QED
  BY <1>1, Inductive, WaitInductive, DoomInvariance, PTL

(* Calls, fibers and cancels run out of moves, in whatever order they take   *)
(* them: nothing starts over, so no cancel waits behind an endless sequence. *)
THEOREM MovesRunOut == Spec => EveryStepAdvances
<1> DEFINE Advances ==
      /\ \A c \in Callers :
           /\ pc'[c] = pc[c] \/ CallLeft(pc'[c]) < CallLeft(pc[c])
           /\ fiber'[c] = fiber[c] \/ FiberLeft(fiber'[c]) < FiberLeft(fiber[c])
      /\ \A k \in Cancellers : cpc'[k] = cpc[k] \/ CancelLeft(cpc'[k]) < CancelLeft(cpc[k])
<1>1. IInv /\ [Next]_vars => Advances
  <2> SUFFICES ASSUME IInv, [Next]_vars PROVE Advances
    OBVIOUS
  <2> USE DEF TypeOK, CallLeft, FiberLeft, CancelLeft
  <2>0. TypeOK /\ CallInv /\ RefInv
    BY DEF IInv
  <2>1. ASSUME NEW c \in Callers,
               \/ JoinRun(c) \/ QueueRun(c) \/ StartRun(c) \/ RejectShell(c)
               \/ BeginShell(c) \/ StartShell(c)
               \/ \E r \in Runners, o \in Ops : Lookup(c, r, o)
        PROVE  Advances
    BY <2>0, <2>1 DEF JoinRun, QueueRun, StartRun, RejectShell, BeginShell, StartShell,
                      Lookup, Calls, CallInv, fiberVars, cancelVars
  <2>2. ASSUME NEW c \in Callers, ReturnRun(c) \/ ReturnShell(c) \/ Abandon(c)
        PROVE  Advances
    BY <2>0, <2>2 DEF ReturnRun, ReturnShell, Abandon, fiberVars, cancelVars
  <2>3. ASSUME NEW c \in Callers,
               \/ \E e \in Exits : WorkEnds(c, e)
               \/ FinishRun(c) \/ FiberIdleBegin(c) \/ FiberIdleEnd(c) \/ Settle(c)
        PROVE  Advances
    BY <2>0, <2>3 DEF WorkEnds, FinishRun, FiberIdleBegin, FiberIdleEnd, Settle, callVars,
                      cancelVars
  <2>4. ASSUME NEW c \in Callers, FinishShell(c)
        PROVE  Advances
    <3>1. pc' = pc /\ cpc' = cpc /\ fiber[c] = "ended"
      BY <2>4 DEF FinishShell, callVars, cancelVars
    <3>2. CASE \E s \in {"onIdle", "exited"} : fiber' = [fiber EXCEPT ![c] = s]
      BY <2>0, <3>1, <3>2
    <3>3. ASSUME ref[home[c]].tag = "ShellThenRun",
                 fiber' = [fiber EXCEPT ![c] = "exited", ![ref[home[c]].run] = "working"]
          PROVE  Advances
      <4> DEFINE d == ref[home[c]].run
      <4>1. home[c] \in Runners
        BY <3>1, <2>0 DEF IInv, HomeInv, CallInv
      <4>2. d \in Callers /\ fiber[d] = "none" /\ d # c
        BY <2>0, <3>1, <3>3, <4>1 DEF RefInv
      <4> QED
        BY <2>0, <3>1, <3>3, <4>2
    <3> QED
      BY <2>4, <3>2, <3>3 DEF FinishShell
  <2>5. ASSUME NEW k \in Cancellers,
               CancelStep(k) \/ SeekNothing(k) \/ \E r \in Runners : Seek(k, r)
        PROVE  Advances
    BY <2>0, <2>5 DEF CancelStep, Cancel, FailPending, Interrupt, AwaitExit, IdleIfCurrent,
                CancelIdleBegin, CancelIdleEnd, SeekNothing, Seek, callVars, fiberVars
  <2>6. CASE UNCHANGED vars
    BY <2>6 DEF vars, callVars, fiberVars, cancelVars
  <2> HIDE DEF TypeOK, CallLeft, FiberLeft, CancelLeft, Advances
  <2> QED
    BY <2>1, <2>2, <2>3, <2>4, <2>5, <2>6
       DEF Next, CallerStep, CallerReturns, FiberStep, Rest
<1> QED
  BY <1>1, Inductive, PTL DEF Spec, EveryStepAdvances

-----------------------------------------------------------------------------
(***************************************************************************)
(* Runner implements SingleFlight (the safety part).                       *)
(***************************************************************************)
LEMMA InitRefines == Init => Promise!Init
  BY DEF Init, Promise!Init, joinableBar, flightBar, answerBar, Flight, Answer, IdleState

-----------------------------------------------------------------------------
(* How the three mapped functions change with the variables they read.       *)
LEMMA JoinableSame == ref' = ref => joinableBar' = joinableBar
  BY DEF joinableBar

LEMMA JoinableChange ==
  ASSUME TypeOK, NEW h \in Runners, NEW st, ref' = [ref EXCEPT ![h] = st]
  PROVE  joinableBar' = [joinableBar EXCEPT ![h] = st.run]
  BY DEF joinableBar, TypeOK

LEMMA FlightSame == awaits' = awaits /\ op' = op => flightBar' = flightBar
  BY DEF flightBar, Flight

LEMMA FlightChange ==
  ASSUME TypeOK, NEW c \in Callers, NEW d, op' = op, awaits' = [awaits EXCEPT ![c] = d]
  PROVE  flightBar' = IF op[c] = "run" THEN [flightBar EXCEPT ![c] = d] ELSE flightBar
<1>1. \A x \in Callers : Flight(x)' = IF x = c /\ op[c] = "run" THEN d ELSE Flight(x)
  BY DEF Flight, TypeOK
<1>. QED BY <1>1 DEF flightBar

LEMMA AnswerSame == result' = result /\ op' = op => answerBar' = answerBar
  BY DEF answerBar, Answer

LEMMA AnswerChange ==
  ASSUME TypeOK, NEW c \in Callers, NEW v, op' = op, result' = [result EXCEPT ![c] = v]
  PROVE  answerBar' = IF op[c] = "shell" THEN answerBar
                      ELSE [answerBar EXCEPT ![c] = IF v = "interrupted" THEN "cancelled" ELSE v]
<1>1. \A x \in Callers :
        Answer(x)' = IF x = c /\ op[c] # "shell"
                     THEN IF v = "interrupted" THEN "cancelled" ELSE v
                     ELSE Answer(x)
  BY DEF Answer, TypeOK
<1>. QED BY <1>1 DEF answerBar

-----------------------------------------------------------------------------
(***************************************************************************)
(* Every step, from a state that satisfies the invariants, is a step of    *)
(* SingleFlight or leaves its variables alone.                             *)
(***************************************************************************)
LEMMA StepRefines == IInv /\ WaitInv /\ ExitInv /\ [Next]_vars => [Promise!Next]_(Promise!vars)
<1> SUFFICES ASSUME IInv, WaitInv, ExitInv, [Next]_vars
             PROVE  Promise!Next \/ UNCHANGED Promise!vars
  OBVIOUS
<1> USE NoOneAssumption
<1>t. TypeOK
  BY DEF IInv
<1>h. \A c \in Callers : pc[c] # "new" => home[c] \in Runners
  BY DEF IInv, HomeInv
<1>j. \A r \in Runners : joinableBar[r] = ref[r].run
  BY DEF joinableBar
<1>f. \A c \in Callers : flightBar[c] = IF op[c] = "run" THEN awaits[c] ELSE NoOne
  BY DEF flightBar, Flight
<1>a. \A c \in Callers : pc[c] # "returned" => answerBar[c] = "none"
  BY DEF answerBar, Answer, WaitInv
<1>same. ASSUME UNCHANGED <<joinableBar, flightBar, done, answerBar>>
         PROVE  UNCHANGED Promise!vars
  BY <1>same DEF Promise!vars
<1>1. ASSUME NEW c \in Callers, NEW r \in Runners, NEW o \in Ops, Lookup(c, r, o)
      PROVE  UNCHANGED Promise!vars
  <2>1. UNCHANGED <<joinableBar, done>>
    BY <1>1, JoinableSame DEF Lookup, fiberVars
  <2>2. awaits[c] = NoOne /\ result[c] = "none"
    BY <1>1 DEF Lookup, IInv, CallInv, WaitInv
  <2>3. \A x \in Callers : Flight(x)' = Flight(x) /\ Answer(x)' = Answer(x)
    BY <1>1, <1>t, <2>2 DEF Lookup, Flight, Answer, TypeOK
  <2>4. flightBar' = flightBar /\ answerBar' = answerBar
    BY <2>3 DEF flightBar, answerBar
  <2>. QED BY <1>same, <2>1, <2>4
<1>2. ASSUME NEW c \in Callers, JoinRun(c) PROVE Promise!Join(c, home[c])
  <2>1. UNCHANGED <<joinableBar, done, answerBar>>
    BY <1>2, JoinableSame, AnswerSame DEF JoinRun, fiberVars
  <2>2. pc[c] = "ready" /\ op[c] = "run" /\ home[c] \in Runners
    BY <1>2, <1>h DEF JoinRun, Calls
  <2>3. flightBar' = [flightBar EXCEPT ![c] = ref[home[c]].run]
    BY <1>2, <1>t, <2>2, FlightChange DEF JoinRun
  <2>4. flightBar[c] = NoOne /\ joinableBar[home[c]] = ref[home[c]].run
    BY <1>f, <1>j, <2>2 DEF IInv, CallInv
  <2>5. ref[home[c]].run # NoOne
    BY <1>2, <2>2 DEF JoinRun, IInv, RefInv
  <2>. QED BY <2>1, <2>3, <2>4, <2>5 DEF Promise!Join
<1>3. ASSUME NEW c \in Callers, QueueRun(c) \/ StartRun(c) PROVE Promise!Open(c, home[c])
  <2>1. pc[c] = "ready" /\ op[c] = "run" /\ home[c] \in Runners
    BY <1>3, <1>h DEF QueueRun, StartRun, Calls
  <2>2. \E st : st.run = c /\ ref' = [ref EXCEPT ![home[c]] = st]
    <3>1. CASE QueueRun(c)
      <4> DEFINE st == ShellThenRunState(ref[home[c]].shell, c)
      <4>1. st.run = c
        BY DEF ShellThenRunState
      <4>2. ref' = [ref EXCEPT ![home[c]] = st]
        BY <3>1 DEF QueueRun
      <4>. QED BY <4>1, <4>2
    <3>2. CASE StartRun(c)
      <4>1. RunningState(c).run = c
        BY DEF RunningState
      <4>. QED BY <3>2, <4>1 DEF StartRun
    <3>. QED BY <1>3, <3>1, <3>2
  <2>3. joinableBar' = [joinableBar EXCEPT ![home[c]] = c]
    <3>1. PICK st : st.run = c /\ ref' = [ref EXCEPT ![home[c]] = st]
      BY <2>2
    <3>. QED BY <1>t, <2>1, <3>1, JoinableChange
  <2>4. flightBar' = [flightBar EXCEPT ![c] = c]
    BY <1>3, <1>t, <2>1, FlightChange DEF QueueRun, StartRun
  <2>5. answerBar' = answerBar /\ done' = [done EXCEPT ![c] = "open"]
    BY <1>3, AnswerSame DEF QueueRun, StartRun
  <2>6. flightBar[c] = NoOne /\ done[c] = "none"
    BY <1>f, <2>1 DEF IInv, CallInv
  <2>7. joinableBar[home[c]] = NoOne
    BY <1>3, <1>j, <2>1 DEF QueueRun, StartRun, IInv, RefInv
  <2>. QED BY <2>3, <2>4, <2>5, <2>6, <2>7 DEF Promise!Open
<1>4. ASSUME NEW c \in Callers, RejectShell(c) \/ ReturnShell(c) PROVE UNCHANGED Promise!vars
  <2>1. UNCHANGED <<joinableBar, flightBar, done>>
    BY <1>4, JoinableSame, FlightSame DEF RejectShell, ReturnShell, fiberVars
  <2>2. op[c] = "shell" /\ op' = op
    BY <1>4 DEF RejectShell, ReturnShell, Calls
  <2>3. \E v : result' = [result EXCEPT ![c] = v]
    BY <1>4 DEF RejectShell, ReturnShell
  <2>4. answerBar' = answerBar
    BY <1>t, <2>2, <2>3, AnswerChange
  <2>. QED BY <1>same, <2>1, <2>4
<1>5. ASSUME NEW c \in Callers, StartShell(c) PROVE UNCHANGED Promise!vars
  <2>1. pc[c] = "starting" /\ op[c] = "shell" /\ home[c] \in Runners
    BY <1>5, <1>h DEF StartShell, IInv, LockInv
  <2>2. UNCHANGED <<flightBar, answerBar, done>>
    BY <1>5, <1>t, <2>1, FlightChange, AnswerSame DEF StartShell
  <2>3. ref' = [ref EXCEPT ![home[c]] = ShellState(c)] /\ ShellState(c).run = NoOne
    BY <1>5 DEF StartShell, ShellState
  <2>4. joinableBar' = [joinableBar EXCEPT ![home[c]] = NoOne]
    BY <1>t, <2>1, <2>3, JoinableChange
  <2>5. joinableBar[home[c]] = NoOne
    <3>1. lock[home[c]] = c
      BY <2>1 DEF IInv, LockInv
    <3>. QED BY <1>j, <2>1, <3>1 DEF IInv, LockInv, RefInv
  <2>. QED BY <1>same, <2>2, <2>4, <2>5 DEF joinableBar
<1>6. ASSUME NEW c \in Callers, ReturnRun(c) PROVE Promise!Return(c)
  <2>1. UNCHANGED <<joinableBar, flightBar, done>>
    BY <1>6, JoinableSame, FlightSame DEF ReturnRun, fiberVars
  <2>2. /\ pc[c] = "waiting" /\ op[c] = "run" /\ awaits[c] \in Callers
        /\ done[awaits[c]] \in {"ok", "fail", "cancelled"}
    BY <1>6 DEF ReturnRun, WaitInv
  <2>3. answerBar' = [answerBar EXCEPT ![c] = done[awaits[c]]]
    <3> DEFINE v == IF done[awaits[c]] = "cancelled" THEN "interrupted" ELSE done[awaits[c]]
    <3>1. op' = op /\ result' = [result EXCEPT ![c] = v]
      BY <1>6 DEF ReturnRun
    <3>2. answerBar' = [answerBar EXCEPT ![c] = IF v = "interrupted" THEN "cancelled" ELSE v]
      <4> HIDE DEF v
      <4>. QED BY <1>t, <2>2, <3>1, AnswerChange
    <3>3. (IF v = "interrupted" THEN "cancelled" ELSE v) = done[awaits[c]]
      BY <2>2
    <3>. QED BY <3>2, <3>3
  <2>4. flightBar[c] = awaits[c] /\ answerBar[c] = "none"
    BY <1>f, <1>a, <2>2
  <2>. QED BY <2>1, <2>2, <2>3, <2>4 DEF Promise!Return, Promise!Landings
<1>7. ASSUME NEW c \in Callers, Abandon(c) PROVE Promise!GiveUp(c) \/ UNCHANGED Promise!vars
  <2>1. UNCHANGED <<joinableBar, flightBar, done>>
    BY <1>7, JoinableSame, FlightSame DEF Abandon
  <2>2. pc[c] = "waiting" /\ awaits[c] \in Callers
    BY <1>7 DEF Abandon, WaitInv
  <2>3. answerBar' = IF op[c] = "shell" THEN answerBar ELSE [answerBar EXCEPT ![c] = "gone"]
    BY <1>7, <1>t, AnswerChange DEF Abandon
  <2>4. CASE op[c] = "shell"
    BY <1>same, <2>1, <2>3, <2>4
  <2>5. CASE op[c] = "run"
    <3>1. flightBar[c] # NoOne /\ answerBar[c] = "none"
      BY <1>f, <1>a, <2>2, <2>5
    <3>. QED BY <2>1, <2>3, <2>5, <3>1 DEF Promise!GiveUp
  <2>. QED BY <1>t, <2>4, <2>5 DEF TypeOK, Ops
<1>8. ASSUME NEW c \in Callers, FinishRun(c)
      PROVE  Promise!Close(home[c]) \/ UNCHANGED Promise!vars
  <2>1. UNCHANGED <<flightBar, done, answerBar>>
    BY <1>8, FlightSame, AnswerSame DEF FinishRun, callVars
  <2>2. home[c] \in Runners
    BY <1>8, <1>h DEF FinishRun, IInv, CallInv
  <2>3. ref' = ref \/ ref' = [ref EXCEPT ![home[c]] = IdleState]
    BY <1>8 DEF FinishRun
  <2>4. joinableBar' = joinableBar \/ joinableBar' = [joinableBar EXCEPT ![home[c]] = NoOne]
    <3>1. IdleState.run = NoOne
      BY DEF IdleState
    <3>. QED BY <1>t, <2>2, <2>3, <3>1, JoinableSame, JoinableChange
  <2>. QED BY <1>same, <2>1, <2>4 DEF Promise!Close
<1>9. ASSUME NEW c \in Callers, FinishShell(c) PROVE UNCHANGED Promise!vars
  <2>1. UNCHANGED <<flightBar, done, answerBar>>
    BY <1>9, FlightSame, AnswerSame DEF FinishShell, callVars
  <2>2. home[c] \in Runners
    BY <1>9, <1>h DEF FinishShell, IInv, CallInv
  <2>3. ref' = ref \/ \E st : ref' = [ref EXCEPT ![home[c]] = st] /\ st.run = ref[home[c]].run
    <3>1. CASE ref[home[c]] = ShellState(c) /\ ref' = [ref EXCEPT ![home[c]] = IdleState]
      <4>1. IdleState.run = ref[home[c]].run
        BY <3>1 DEF ShellState, IdleState
      <4>. QED BY <3>1, <4>1
    <3>2. CASE ref' = [ref EXCEPT ![home[c]] = RunningState(ref[home[c]].run)]
      <4>1. RunningState(ref[home[c]].run).run = ref[home[c]].run
        BY DEF RunningState
      <4>. QED BY <3>2, <4>1
    <3>. QED BY <1>9, <3>1, <3>2 DEF FinishShell
  <2>4. joinableBar' = joinableBar
    <3>1. CASE ref' = ref
      BY <3>1, JoinableSame
    <3>2. ASSUME NEW st, ref' = [ref EXCEPT ![home[c]] = st], st.run = ref[home[c]].run
          PROVE  joinableBar' = joinableBar
      <4>1. joinableBar' = [joinableBar EXCEPT ![home[c]] = joinableBar[home[c]]]
        BY <1>t, <1>j, <2>2, <3>2, JoinableChange
      <4>. QED BY <4>1 DEF joinableBar
    <3>. QED BY <2>3, <3>1, <3>2
  <2>. QED BY <1>same, <2>1, <2>4
<1>10. ASSUME NEW c \in Callers, Settle(c)
       PROVE  (\E o \in Promise!Landings : Promise!Land(c, o)) \/ UNCHANGED Promise!vars
  <2>1. UNCHANGED <<joinableBar, flightBar, answerBar>>
    BY <1>10, JoinableSame, FlightSame, AnswerSame DEF Settle, callVars
  <2>2. CASE done[c] = "open"
    <3> DEFINE o == IF exit[c] = "interrupt" THEN "cancelled" ELSE exit[c]
    <3>1. exit[c] \in Exits
      BY <1>10 DEF Settle, ExitInv
    <3>2. o \in Promise!Landings
      BY <3>1 DEF Exits, Promise!Landings
    <3>3. done' = [done EXCEPT ![c] = o]
      BY <1>10, <2>2 DEF Settle
    <3>4. \A r \in Runners : joinableBar[r] # c
      BY <1>10, <1>j, <1>t, NoOneAssumption DEF Settle, IInv, TypeOK, RefInv, AtWork
    <3>. QED BY <2>1, <2>2, <3>2, <3>3, <3>4 DEF Promise!Land
  <2>3. CASE done[c] # "open"
    <3>1. done' = done
      BY <1>10, <1>t, <2>3 DEF Settle, TypeOK
    <3>. QED BY <1>same, <2>1, <3>1
  <2>. QED BY <2>2, <2>3
<1>11. ASSUME NEW k \in Cancellers, Cancel(k) PROVE Promise!Close(chome[k])
  <2>1. UNCHANGED <<flightBar, done, answerBar>>
    BY <1>11, FlightSame, AnswerSame DEF Cancel, callVars, fiberVars
  <2>2. chome[k] \in Runners
    BY <1>11 DEF Cancel, IInv, HomeInv
  <2>3. ref' = [ref EXCEPT ![chome[k]] = IdleState] /\ IdleState.run = NoOne
    BY <1>11 DEF Cancel, IdleState
  <2>4. joinableBar' = [joinableBar EXCEPT ![chome[k]] = NoOne]
    BY <1>t, <2>2, <2>3, JoinableChange
  <2>. QED BY <2>1, <2>4 DEF Promise!Close
<1>12. ASSUME NEW k \in Cancellers, FailPending(k)
       PROVE  Promise!Land(pend[k], "cancelled") \/ UNCHANGED Promise!vars
  <2>1. UNCHANGED <<joinableBar, flightBar, answerBar>>
    BY <1>12, JoinableSame, FlightSame, AnswerSame DEF FailPending, callVars
  <2>2. pend[k] \in Callers /\ \A r \in Runners : ref[r].run # pend[k]
    BY <1>12 DEF FailPending, IInv, CancelInv
  <2>3. CASE done[pend[k]] = "open"
    <3>1. done' = [done EXCEPT ![pend[k]] = "cancelled"]
      BY <1>12, <2>3 DEF FailPending
    <3>. QED BY <1>j, <2>1, <2>2, <2>3, <3>1 DEF Promise!Land
  <2>4. CASE done[pend[k]] # "open"
    <3>1. done' = done
      BY <1>12, <1>t, <2>2, <2>4 DEF FailPending, TypeOK
    <3>. QED BY <1>same, <2>1, <3>1
  <2>. QED BY <2>3, <2>4
<1>13. ASSUME UNCHANGED <<ref, op, awaits, result, done>> PROVE UNCHANGED Promise!vars
  BY <1>13, <1>same, JoinableSame, FlightSame, AnswerSame
<1>14. ASSUME NEW c \in Callers,
              BeginShell(c) \/ FiberIdleBegin(c) \/ FiberIdleEnd(c) \/ \E e \in Exits : WorkEnds(c, e)
       PROVE  UNCHANGED Promise!vars
  BY <1>13, <1>14 DEF BeginShell, FiberIdleBegin, FiberIdleEnd, WorkEnds, callVars, fiberVars
<1>15. ASSUME NEW k \in Cancellers,
              \/ SeekNothing(k) \/ (\E r \in Runners : Seek(k, r)) \/ Interrupt(k)
              \/ AwaitExit(k) \/ IdleIfCurrent(k) \/ CancelIdleBegin(k) \/ CancelIdleEnd(k)
       PROVE  UNCHANGED Promise!vars
  BY <1>13, <1>15 DEF SeekNothing, Seek, Interrupt, AwaitExit, IdleIfCurrent, CancelIdleBegin,
                      CancelIdleEnd, callVars, fiberVars
<1>16. CASE UNCHANGED vars
  BY <1>13, <1>16 DEF vars, callVars, fiberVars
<1>17. ASSUME NEW c \in Callers,
              \/ CallerStep(c) \/ Abandon(c) \/ FiberStep(c)
              \/ (\E r \in Runners, o \in Ops : Lookup(c, r, o))
              \/ (\E e \in Exits : WorkEnds(c, e))
       PROVE  Promise!Next \/ UNCHANGED Promise!vars
  <2>1. CASE JoinRun(c) \/ QueueRun(c) \/ StartRun(c)
    <3>1. home[c] \in Runners
      BY <1>h, <2>1 DEF JoinRun, QueueRun, StartRun, Calls
    <3>. QED BY <1>2, <1>3, <2>1, <3>1 DEF Promise!Next
  <2>2. CASE FinishRun(c)
    <3>1. home[c] \in Runners
      BY <1>h, <2>2 DEF FinishRun, IInv, CallInv
    <3>. QED BY <1>8, <2>2, <3>1 DEF Promise!Next
  <2>3. CASE ReturnRun(c) \/ Abandon(c)
    BY <1>6, <1>7, <2>3 DEF Promise!Next
  <2>4. CASE Settle(c)
    BY <1>10, <2>4 DEF Promise!Next
  <2>. QED BY <1>1, <1>4, <1>5, <1>9, <1>14, <1>17, <2>1, <2>2, <2>3, <2>4
           DEF CallerStep, CallerReturns, FiberStep
<1>18. ASSUME NEW k \in Cancellers,
              CancelStep(k) \/ SeekNothing(k) \/ \E r \in Runners : Seek(k, r)
       PROVE  Promise!Next \/ UNCHANGED Promise!vars
  <2>1. CASE Cancel(k)
    <3>1. chome[k] \in Runners
      BY <2>1 DEF Cancel, IInv, HomeInv
    <3>. QED BY <1>11, <2>1, <3>1 DEF Promise!Next
  <2>2. CASE FailPending(k)
    <3>1. pend[k] \in Callers
      BY <2>2 DEF FailPending, IInv, CancelInv
    <3>. QED BY <1>12, <2>2, <3>1 DEF Promise!Next, Promise!Landings
  <2>. QED BY <1>15, <1>18, <2>1, <2>2 DEF CancelStep
<1>. QED BY <1>16, <1>17, <1>18 DEF Next, Rest

(* ensureRunning keeps the promise of SingleFlight: calls join only a flight *)
(* that has not landed, a flight lands once, and a call returns what its own *)
(* flight landed with, whatever shells and cancels do.                       *)
THEOREM RunnerKeepsItsPromise == Spec => ImplementsSingleFlight
  BY InitRefines, StepRefines, Inductive, WaitInductive, ExitInductive, PTL
  DEF Spec, ImplementsSingleFlight, Promise!Spec

-----------------------------------------------------------------------------
(***************************************************************************)
(* RunState, for any agents and editors as well.  Its steps are Runner's,  *)
(* so every theorem above holds of it; what it adds is about the map and   *)
(* the status.                                                             *)
(***************************************************************************)

(***************************************************************************)
(* The map: a runner under a key was made for that key, and whoever has a  *)
(* runner has one that was made.                                           *)
(***************************************************************************)
MapTypes ==
  /\ runners \in [Agents -> MaybeRunner]
  /\ owner \in [Runners -> Agents \cup {NoOne}]
  /\ epc \in [Editors -> {"new", "editing", "refused", "finished"}]

MapInv ==
  /\ MapTypes /\ status \in {"idle", "busy"}
  /\ \A a \in Agents : runners[a] # NoOne => owner[runners[a]] = a

-----------------------------------------------------------------------------
(* Every step of RunState is a step of Runner, or leaves it alone.           *)
LEMMA StepIsRunners == MapTypes /\ [RNext]_rvars => [Next]_vars
<1> SUFFICES ASSUME MapTypes, RNext PROVE Next \/ UNCHANGED vars
  BY DEF rvars
<1>1. ASSUME NEW c \in Callers, NEW a \in Agents, NEW r \in Runners, NEW o \in Ops,
             Obtain(c, a, r, o)
      PROVE  Next
  BY <1>1 DEF Obtain, Next
<1>2. ASSUME NEW c \in Callers,
             RCallerStep(c) \/ RFiberStep(c) \/ Plain(Abandon(c)) \/ RWorkEnds(c)
      PROVE  Next
  BY <1>2 DEF RCallerStep, RFiberStep, RWorkEnds, Plain, PlainCallerStep, PlainFiberStep,
              RBeginShell, RFiberIdleBegin, RFiberIdleEnd, Next, CallerStep, FiberStep
<1>3. ASSUME NEW k \in Cancellers, NEW a \in Agents, SeekBusy(k, a) \/ SeekIdle(k, a)
      PROVE  Next
  <2>1. SeekBusy(k, a) => runners[a] \in Runners
    BY DEF SeekBusy, Busy, MapTypes, MaybeRunner
  <2> QED
    BY <1>3, <2>1 DEF SeekBusy, SeekIdle, Next
<1>4. ASSUME NEW k \in Cancellers, RCancelStep(k) PROVE Next
  BY <1>4 DEF RCancelStep, Plain, PlainCancelStep, RCancelIdleBegin, RCancelIdleEnd, Next,
              CancelStep
<1>5. ASSUME \/ \E c \in Callers : ReportBusy(c)
             \/ \E e \in Editors : AssertNotBusy(e) \/ EditEnds(e)
             \/ RRest
      PROVE  UNCHANGED vars
  BY <1>5 DEF ReportBusy, AssertNotBusy, EditEnds, RRest, rvars
<1> QED
  BY <1>1, <1>2, <1>3, <1>4, <1>5 DEF RNext

LEMMA MapStep == MapInv /\ IInv /\ [RNext]_rvars => MapInv'
<1> SUFFICES ASSUME MapInv, IInv, [RNext]_rvars PROVE MapInv'
  OBVIOUS
<1> USE NoOneAssumption, MainAssumption DEF MapInv, MapTypes, mapVars
<1>1. ASSUME NEW c \in Callers, NEW a \in Agents, NEW r \in Runners, NEW o \in Ops,
             Obtain(c, a, r, o)
      PROVE  MapInv'
  BY <1>1 DEF Obtain, MaybeRunner
<1>2. ASSUME NEW r \in Runners, Unmap(r), UNCHANGED <<owner, status, epc>> PROVE MapInv'
  BY <1>2 DEF Unmap, MaybeRunner
<1>3. ASSUME NEW e \in Editors, AssertNotBusy(e) \/ EditEnds(e) PROVE MapInv'
  BY <1>3 DEF AssertNotBusy, EditEnds
<1>4. ASSUME UNCHANGED <<mapVars, epc>>, status' \in {"idle", "busy", status} PROVE MapInv'
  BY <1>4
<1> HIDE DEF MapInv, MapTypes
<1>5. ASSUME NEW c \in Callers, RFiberStep(c) PROVE MapInv'
  <2>1. RFiberIdleBegin(c) => home[c] \in Runners
    BY DEF RFiberIdleBegin, FiberIdleBegin, IInv, HomeInv, CallInv
  <2> QED
    BY <1>2, <1>4, <1>5, <2>1 DEF RFiberStep, Plain, RFiberIdleBegin, RFiberIdleEnd, ReportIdle
<1>6. ASSUME NEW k \in Cancellers, RCancelStep(k) PROVE MapInv'
  <2>1. RCancelIdleBegin(k) => chome[k] \in Runners
    BY DEF RCancelIdleBegin, CancelIdleBegin, IInv, HomeInv
  <2> QED
    BY <1>2, <1>4, <1>6, <2>1 DEF RCancelStep, Plain, RCancelIdleBegin, RCancelIdleEnd,
                                  ReportIdle
<1>7. ASSUME NEW c \in Callers,
             RCallerStep(c) \/ Plain(Abandon(c)) \/ RWorkEnds(c) \/ ReportBusy(c)
      PROVE  MapInv'
  BY <1>4, <1>7 DEF RCallerStep, Plain, RBeginShell, RWorkEnds, ReportBusy
<1>8. ASSUME NEW k \in Cancellers, NEW a \in Agents, SeekBusy(k, a) \/ SeekIdle(k, a)
      PROVE  MapInv'
  BY <1>4, <1>8 DEF SeekBusy, SeekIdle
<1>9. CASE UNCHANGED rvars
  BY <1>4, <1>9 DEF rvars
<1> QED
  BY <1>1, <1>3, <1>5, <1>6, <1>7, <1>8, <1>9 DEF RNext, RRest

LEMMA RInitially == RInit => Init /\ MapInv
  BY MainAssumption DEF RInit, MapInv, MapTypes, MaybeRunner

LEMMA RunStateIsRunner == RSpec => Spec /\ []MapInv
<1>1. MapInv => MapTypes
  BY DEF MapInv
<1> QED
  BY <1>1, RInitially, StepIsRunners, MapStep, Initially, Step, PTL DEF RSpec, Spec

(* The runners of a session do what a Runner does, whatever the map hands    *)
(* out: all that is proved of runner.ts holds under run-state.ts.            *)
THEOREM RunnersBehave == RSpec => Spec
  BY RunStateIsRunner, PTL

(* Type correctness of every operation of run-state.ts.                      *)
THEOREM RTypeCorrect == RSpec => []RTypeOK
<1>1. TypeOK /\ MapInv => RTypeOK
  BY DEF MapInv, MapTypes, RTypeOK
<1> QED
  BY <1>1, RunStateIsRunner, TypeCorrect, PTL

-----------------------------------------------------------------------------
(***************************************************************************)
(* Rest.  A runner owes an onIdle while it has work or a fiber or a        *)
(* canceller is on its way to the onIdle; only the begin of an onIdle ends *)
(* that.  Likewise a canceller's fiber is one of the runner it cancels.    *)
(***************************************************************************)
OwesIdle(r) ==
  \/ ref[r].tag # "Idle"
  \/ \E c \in Callers : home[c] = r /\ (pc[c] = "starting" \/ fiber[c] = "onIdle")
  \/ \E k \in Cancellers :
        /\ chome[k] = r
        /\ cpc[k] \in {"failPending", "interrupt", "await", "recheck", "onIdle"}

OwnTarget ==
  \A k \in Cancellers :
    cpc[k] \in {"failPending", "interrupt", "await"} =>
      home[target[k]] = chome[k] /\ fiber[target[k]] # "none"

(* What a runner still has to report: it is between the steps of an onIdle.  *)
ReportsIdle(r) ==
  \/ \E c \in Callers : home[c] = r /\ fiber[c] = "inIdle"
  \/ \E k \in Cancellers : chome[k] = r /\ cpc[k] = "inIdle"

(* The steps of Runner outside lookup and onIdle.                            *)
PlainStep ==
  \/ \E c \in Callers :
        \/ CallerStep(c) \/ Abandon(c)
        \/ \E e \in Exits : WorkEnds(c, e)
        \/ PlainFiberStep(c)
  \/ \E k \in Cancellers :
        \/ \E r \in Runners : Seek(k, r)
        \/ SeekNothing(k)
        \/ PlainCancelStep(k)
  \/ UNCHANGED vars

LookupStep == \E c \in Callers, r \in Runners, o \in Ops : Lookup(c, r, o)

BeginsNoIdle ==
  \/ PlainStep \/ LookupStep
  \/ \E c \in Callers : FiberIdleEnd(c)
  \/ \E k \in Cancellers : CancelIdleEnd(k)

LEMMA OwesStep ==
  ASSUME IInv, BeginsNoIdle, NEW r \in Runners, OwesIdle(r) PROVE OwesIdle(r)'
<1> USE NoOneAssumption DEF IInv, TypeOK, HomeInv, CallInv, RefInv, vars, callVars, fiberVars, cancelVars
<1>1. ASSUME NEW c \in Callers, NEW r2 \in Runners, NEW o \in Ops, Lookup(c, r2, o) PROVE OwesIdle(r)'
  BY <1>1 DEF Lookup, OwesIdle
<1>2. ASSUME NEW c \in Callers, JoinRun(c) PROVE OwesIdle(r)'
  BY <1>2 DEF JoinRun, Calls, OwesIdle
<1>3. ASSUME NEW c \in Callers, QueueRun(c) PROVE OwesIdle(r)'
  BY <1>3 DEF QueueRun, Calls, ShellThenRunState, OwesIdle
<1>4. ASSUME NEW c \in Callers, StartRun(c) PROVE OwesIdle(r)'
  BY <1>4 DEF StartRun, Calls, RunningState, OwesIdle
<1>5. ASSUME NEW c \in Callers, RejectShell(c) PROVE OwesIdle(r)'
  BY <1>5 DEF RejectShell, Calls, OwesIdle
<1>6. ASSUME NEW c \in Callers, BeginShell(c) PROVE OwesIdle(r)'
  BY <1>6 DEF BeginShell, Calls, OwesIdle
<1>7. ASSUME NEW c \in Callers, StartShell(c) PROVE OwesIdle(r)'
  BY <1>7 DEF StartShell, ShellState, OwesIdle
<1>8. ASSUME NEW c \in Callers, ReturnRun(c) PROVE OwesIdle(r)'
  BY <1>8 DEF ReturnRun, OwesIdle
<1>9. ASSUME NEW c \in Callers, ReturnShell(c) PROVE OwesIdle(r)'
  BY <1>9 DEF ReturnShell, OwesIdle
<1>10. ASSUME NEW c \in Callers, Abandon(c) PROVE OwesIdle(r)'
  BY <1>10 DEF Abandon, OwesIdle
<1>11. ASSUME NEW c \in Callers, NEW e \in Exits, WorkEnds(c, e) PROVE OwesIdle(r)'
  BY <1>11 DEF WorkEnds, OwesIdle
<1>12. ASSUME NEW c \in Callers, FinishRun(c) PROVE OwesIdle(r)'
  BY <1>12 DEF FinishRun, OwesIdle
<1>13. ASSUME NEW c \in Callers, FinishShell(c) PROVE OwesIdle(r)'
  <2>1. CASE ref[home[c]] = ShellState(c) \/ ref[home[c]].shell # c
    <3>1. \A d \in Callers : fiber[d] = "onIdle" => fiber'[d] = "onIdle"
      BY <1>13, <2>1 DEF FinishShell, ShellState
    <3>2. home[c] # r => ref'[r] = ref[r]
      BY <1>13 DEF FinishShell
    <3>3. home[c] = r /\ ref[r].tag # "Idle" => ref'[r].tag # "Idle" \/ fiber'[c] = "onIdle"
      BY <1>13, <2>1 DEF FinishShell, ShellState
    <3> QED
      BY <1>13, <3>1, <3>2, <3>3 DEF FinishShell, OwesIdle
  <2>2. CASE ref[home[c]].tag = "ShellThenRun" /\ ref[home[c]].shell = c
    <3> DEFINE p == ref[home[c]].run
    <3>1. p \in Callers /\ fiber[p] = "none" /\ fiber[c] = "ended"
      BY <1>13, <2>2 DEF FinishShell
    <3>2. /\ ref' = [ref EXCEPT ![home[c]] = RunningState(p)]
          /\ fiber' = [fiber EXCEPT ![c] = "exited", ![p] = "working"]
      BY <1>13, <2>2 DEF FinishShell, ShellState
    <3>3. \A d \in Callers : fiber[d] = "onIdle" => fiber'[d] = "onIdle"
      BY <3>1, <3>2
    <3> QED
      BY <1>13, <3>2, <3>3 DEF FinishShell, RunningState, OwesIdle
  <2> QED
    BY <1>13, <2>1, <2>2 DEF FinishShell
<1>14. ASSUME NEW c \in Callers, FiberIdleEnd(c) PROVE OwesIdle(r)'
  BY <1>14 DEF FiberIdleEnd, OwesIdle
<1>15. ASSUME NEW c \in Callers, Settle(c) PROVE OwesIdle(r)'
  BY <1>15 DEF Settle, OwesIdle
<1>16. ASSUME NEW k \in Cancellers, NEW r2 \in Runners, Seek(k, r2) PROVE OwesIdle(r)'
  BY <1>16 DEF Seek, OwesIdle
<1>17. ASSUME NEW k \in Cancellers, SeekNothing(k) PROVE OwesIdle(r)'
  BY <1>17 DEF SeekNothing, OwesIdle
<1>18. ASSUME NEW k \in Cancellers, Cancel(k) PROVE OwesIdle(r)'
  BY <1>18 DEF Cancel, OwesIdle
<1>19. ASSUME NEW k \in Cancellers, FailPending(k) PROVE OwesIdle(r)'
  BY <1>19 DEF FailPending, OwesIdle
<1>20. ASSUME NEW k \in Cancellers, Interrupt(k) PROVE OwesIdle(r)'
  BY <1>20 DEF Interrupt, OwesIdle
<1>21. ASSUME NEW k \in Cancellers, AwaitExit(k) PROVE OwesIdle(r)'
  BY <1>21 DEF AwaitExit, OwesIdle
<1>22. ASSUME NEW k \in Cancellers, IdleIfCurrent(k) PROVE OwesIdle(r)'
  BY <1>22 DEF IdleIfCurrent, OwesIdle
<1>23. ASSUME NEW k \in Cancellers, CancelIdleEnd(k) PROVE OwesIdle(r)'
  BY <1>23 DEF CancelIdleEnd, OwesIdle
<1>24. CASE UNCHANGED vars
  BY <1>24 DEF OwesIdle
<1> HIDE DEF IInv, TypeOK, HomeInv, CallInv, RefInv
<1> QED
  BY <1>1, <1>2, <1>3, <1>4, <1>5, <1>6, <1>7, <1>8, <1>9, <1>10, <1>11, <1>12, <1>13, <1>14, <1>15, <1>16, <1>17, <1>18, <1>19, <1>20, <1>21, <1>22, <1>23, <1>24 DEF BeginsNoIdle, PlainStep, LookupStep, CallerStep, CallerReturns, PlainFiberStep,
     PlainCancelStep

(* A fiber keeps its runner for good, since its call has left pc "new".      *)
LEMMA FibersStay ==
  ASSUME IInv, [Next]_vars, NEW d \in Callers, fiber[d] # "none"
  PROVE  fiber'[d] # "none" /\ home'[d] = home[d]
<1> USE DEF IInv, TypeOK, callVars, fiberVars
<1>1. ASSUME NEW c \in Callers, NEW r \in Runners, NEW o \in Ops, Lookup(c, r, o)
      PROVE  fiber'[d] # "none" /\ home'[d] = home[d]
  BY <1>1 DEF Lookup, CallInv
<1>2. ASSUME NEW c \in Callers, CallerStep(c) \/ Abandon(c) \/ \E e \in Exits : WorkEnds(c, e)
      PROVE  fiber'[d] # "none" /\ home'[d] = home[d]
  BY <1>2 DEF CallerStep, CallerReturns, JoinRun, QueueRun, StartRun, RejectShell, BeginShell,
              StartShell, ReturnRun, ReturnShell, Abandon, WorkEnds
<1>3. ASSUME NEW c \in Callers, FiberStep(c)
      PROVE  fiber'[d] # "none" /\ home'[d] = home[d]
  BY <1>3 DEF FiberStep, FinishRun, FinishShell, FiberIdleBegin, FiberIdleEnd, Settle
<1>4. ASSUME NEW k \in Cancellers,
             CancelStep(k) \/ SeekNothing(k) \/ \E r \in Runners : Seek(k, r)
      PROVE  fiber'[d] # "none" /\ home'[d] = home[d]
  BY <1>4 DEF CancelStep, Cancel, FailPending, Interrupt, AwaitExit, IdleIfCurrent,
              CancelIdleBegin, CancelIdleEnd, SeekNothing, Seek
<1>5. CASE UNCHANGED vars
  BY <1>5 DEF vars
<1> HIDE DEF IInv, TypeOK
<1> QED
  BY <1>1, <1>2, <1>3, <1>4, <1>5 DEF Next, FiberStep, Rest

LEMMA OwnTargetStep == IInv /\ OwnTarget /\ [Next]_vars => OwnTarget'
<1> SUFFICES ASSUME IInv, OwnTarget, [Next]_vars, NEW k \in Cancellers,
                    cpc'[k] \in {"failPending", "interrupt", "await"}
             PROVE  home'[target'[k]] = chome'[k] /\ fiber'[target'[k]] # "none"
  BY DEF OwnTarget
<1>1. CASE Cancel(k)
  <2>1. chome[k] \in Runners /\ ref[chome[k]].tag # "Idle"
    BY <1>1 DEF Cancel, IInv, HomeInv, TypeOK
  <2>2. target'[k] \in Callers /\ home[target'[k]] = chome[k] /\ fiber[target'[k]] # "none"
    BY <1>1, <2>1 DEF Cancel, IInv, RefInv, TypeOK, AtWork
  <2> QED
    BY <1>1, <2>2 DEF Cancel, callVars, fiberVars
<1>2. CASE ~ Cancel(k)
  <2>1. /\ cpc[k] \in {"failPending", "interrupt", "await"}
        /\ target'[k] = target[k] /\ chome'[k] = chome[k]
    <3> USE <1>2 DEF IInv, TypeOK, cancelVars
    <3>1. ASSUME NEW c \in Callers, CallerStep(c) \/ FiberStep(c) \/ Abandon(c)
          PROVE  UNCHANGED cancelVars
      BY <3>1 DEF CallerStep, CallerReturns, FiberStep, JoinRun, QueueRun, StartRun,
                  RejectShell, BeginShell, StartShell, ReturnRun, ReturnShell, Abandon,
                  FinishRun, FinishShell, FiberIdleBegin, FiberIdleEnd, Settle
    <3>2. ASSUME NEW j \in Cancellers, CancelStep(j) PROVE <2>1!1 /\ <2>1!2
      BY <3>2 DEF CancelStep, Cancel, FailPending, Interrupt, AwaitExit, IdleIfCurrent,
                  CancelIdleBegin, CancelIdleEnd
    <3>3. ASSUME NEW j \in Cancellers, SeekNothing(j) \/ \E r \in Runners : Seek(j, r)
          PROVE  <2>1!1 /\ <2>1!2
      BY <3>3 DEF Seek, SeekNothing
    <3>4. CASE UNCHANGED vars
      BY <3>4 DEF vars
    <3> HIDE DEF IInv, TypeOK
    <3> QED
      BY <3>1, <3>2, <3>3, <3>4 DEF Next, Lookup, WorkEnds, Rest
  <2>2. target[k] \in Callers
    BY <2>1 DEF IInv, CancelInv
  <2> QED
    BY <2>1, <2>2, FibersStay DEF OwnTarget
<1> QED
  BY <1>1, <1>2

-----------------------------------------------------------------------------
LEMMA ReportsStep ==
  ASSUME IInv, PlainStep \/ LookupStep, NEW r \in Runners, ReportsIdle(r)
  PROVE  ReportsIdle(r)'
<1>1. CASE \E c \in Callers : home[c] = r /\ fiber[c] = "inIdle"
  <2>1. PICK c \in Callers : home[c] = r /\ fiber[c] = "inIdle"
    BY <1>1
  <2>2. home'[c] = r
    <3>1. [Next]_vars
      BY DEF PlainStep, LookupStep, Next, FiberStep, CancelStep, PlainFiberStep, PlainCancelStep
    <3> QED
      BY <2>1, <3>1, FibersStay
  <2>3. fiber'[c] = "inIdle"
    <3> USE <2>1 DEF IInv, TypeOK, callVars, fiberVars
    <3>1. ASSUME NEW d \in Callers, CallerStep(d) PROVE fiber'[c] = "inIdle"
      BY <3>1 DEF CallerStep, CallerReturns, JoinRun, QueueRun, StartRun, RejectShell,
                  BeginShell, StartShell, ReturnRun, ReturnShell, CallInv, Calls
    <3>2. ASSUME NEW d \in Callers, PlainFiberStep(d) PROVE fiber'[c] = "inIdle"
      <4>1. CASE FinishShell(d)
        <5>1. ref[home[d]].tag = "ShellThenRun" => fiber[ref[home[d]].run] = "none"
          BY <4>1 DEF FinishShell, HomeInv, CallInv, RefInv
        <5> QED
          BY <4>1, <5>1 DEF FinishShell
      <4> QED
        BY <3>2, <4>1 DEF PlainFiberStep, FinishRun, Settle
    <3>3. ASSUME NEW k \in Cancellers, PlainCancelStep(k) PROVE fiber'[c] = "inIdle"
      BY <3>3 DEF PlainCancelStep, Cancel, FailPending, Interrupt, AwaitExit, IdleIfCurrent
    <3> QED
      BY <3>1, <3>2, <3>3 DEF PlainStep, LookupStep, Lookup, Abandon, WorkEnds, Seek, SeekNothing, vars
  <2> QED
    BY <2>1, <2>2, <2>3 DEF ReportsIdle
<1>2. CASE \E k \in Cancellers : chome[k] = r /\ cpc[k] = "inIdle"
  <2>1. PICK k \in Cancellers : chome[k] = r /\ cpc[k] = "inIdle"
    BY <1>2
  <2>2. chome'[k] = r /\ cpc'[k] = "inIdle"
    <3> USE <2>1 DEF IInv, TypeOK, cancelVars
    <3>1. ASSUME NEW c \in Callers, CallerStep(c) \/ PlainFiberStep(c) \/ Abandon(c)
          PROVE  UNCHANGED cancelVars
      BY <3>1 DEF CallerStep, CallerReturns, JoinRun, QueueRun, StartRun, RejectShell,
                  BeginShell, StartShell, ReturnRun, ReturnShell, Abandon, PlainFiberStep,
                  FinishRun, FinishShell, Settle
    <3>2. ASSUME NEW j \in Cancellers,
                 PlainCancelStep(j) \/ SeekNothing(j) \/ \E q \in Runners : Seek(j, q)
          PROVE  chome'[k] = r /\ cpc'[k] = "inIdle"
      BY <3>2 DEF PlainCancelStep, Cancel, FailPending, Interrupt, AwaitExit, IdleIfCurrent,
                  Seek, SeekNothing
    <3> QED
      BY <3>1, <3>2 DEF PlainStep, LookupStep, Lookup, WorkEnds, vars
  <2> QED
    BY <2>1, <2>2 DEF ReportsIdle
<1> QED
  BY <1>1, <1>2 DEF ReportsIdle

(* A call that has its runner makes use of it, and then the runner owes.     *)
LEMMA ReadyStep ==
  ASSUME IInv, [Next]_vars, NEW r \in Runners, NEW c \in Callers, pc[c] = "ready", home[c] = r
  PROVE  (pc'[c] = "ready" /\ home'[c] = r) \/ OwesIdle(r)'
<1> DEFINE Goal == (pc'[c] = "ready" /\ home'[c] = r) \/ OwesIdle(r)'
<1> USE DEF IInv, TypeOK, callVars
<1>1. ASSUME CallerStep(c) PROVE Goal
  BY <1>1 DEF CallerStep, CallerReturns, JoinRun, QueueRun, StartRun, RejectShell, BeginShell,
              StartShell, ReturnRun, ReturnShell, Calls, OwesIdle, RunningState,
              ShellThenRunState
<1>2. ASSUME NEW d \in Callers, d # c, CallerStep(d) PROVE Goal
  BY <1>2 DEF CallerStep, CallerReturns, JoinRun, QueueRun, StartRun, RejectShell, BeginShell,
              StartShell, ReturnRun, ReturnShell, Calls
<1>3. ASSUME NEW d \in Callers,
             \/ FiberStep(d) \/ Abandon(d)
             \/ \E e \in Exits : WorkEnds(d, e)
             \/ \E q \in Runners, o \in Ops : Lookup(d, q, o)
      PROVE  Goal
  BY <1>3 DEF FiberStep, FinishRun, FinishShell, FiberIdleBegin, FiberIdleEnd, Settle, Abandon,
              WorkEnds, Lookup
<1>4. ASSUME NEW k \in Cancellers,
             CancelStep(k) \/ SeekNothing(k) \/ \E q \in Runners : Seek(k, q)
      PROVE  Goal
  BY <1>4 DEF CancelStep, Cancel, FailPending, Interrupt, AwaitExit, IdleIfCurrent,
              CancelIdleBegin, CancelIdleEnd, SeekNothing, Seek
<1>5. ASSUME UNCHANGED vars PROVE Goal
  BY <1>5 DEF vars
<1> HIDE DEF IInv, TypeOK, Goal
<1>6. Goal
  <2>1. ASSUME NEW d \in Callers, CallerStep(d) PROVE Goal
    BY <1>1, <1>2, <2>1
  <2> QED
    BY <1>3, <1>4, <1>5, <2>1 DEF Next, Rest
<1> QED
  BY <1>6 DEF Goal

-----------------------------------------------------------------------------
(***************************************************************************)
(* The map and the status at rest.  A key in the map has a runner that     *)
(* owes an onIdle or a caller that will use it; a busy status has a runner *)
(* of the main agent that owes an onIdle or is reporting.                  *)
(***************************************************************************)
KeyInv ==
  \A a \in Agents : runners[a] # NoOne =>
    \/ OwesIdle(runners[a])
    \/ \E c \in Callers : pc[c] = "ready" /\ home[c] = runners[a]

BusyInv ==
  status = "busy" =>
    \E r \in Runners : owner[r] = Main /\ (OwesIdle(r) \/ ReportsIdle(r))

(* Shell commands are made on runners of the main agent.                     *)
ShellsAreMains ==
  \A c \in Callers : pc[c] # "new" /\ op[c] = "shell" => owner[home[c]] = Main

RestInv == OwnTarget /\ ShellsAreMains /\ KeyInv /\ BusyInv

(* A step of RunState outside onBusy, onIdle and the lookup is a plain one,  *)
(* leaves the map alone and does not make the status busy, but for a report. *)
LEMMA Steps ==
  ASSUME MapTypes, [RNext]_rvars
  PROVE  \/ \E c \in Callers, a \in Agents, r \in Runners, o \in Ops : Obtain(c, a, r, o)
         \/ \E c \in Callers : RFiberIdleBegin(c) \/ RFiberIdleEnd(c) \/ RBeginShell(c) \/ ReportBusy(c)
         \/ \E k \in Cancellers : RCancelIdleBegin(k) \/ RCancelIdleEnd(k)
         \/ PlainStep /\ UNCHANGED mapVars /\ status' \in {status, "idle"}
<1> DEFINE Quiet == PlainStep /\ UNCHANGED mapVars /\ status' \in {status, "idle"}
<1>1. ASSUME NEW c \in Callers, RCallerStep(c) \/ Plain(Abandon(c)) \/ RWorkEnds(c)
      PROVE  Quiet \/ RBeginShell(c)
  BY <1>1 DEF RCallerStep, RWorkEnds, Plain, PlainCallerStep, PlainStep, CallerStep
<1>2. ASSUME NEW c \in Callers, RFiberStep(c)
      PROVE  Quiet \/ RFiberIdleBegin(c) \/ RFiberIdleEnd(c)
  BY <1>2 DEF RFiberStep, Plain, PlainStep
<1>3. ASSUME NEW k \in Cancellers, RCancelStep(k)
      PROVE  Quiet \/ RCancelIdleBegin(k) \/ RCancelIdleEnd(k)
  BY <1>3 DEF RCancelStep, Plain, PlainStep
<1>4. ASSUME NEW k \in Cancellers, NEW a \in Agents, SeekBusy(k, a) \/ SeekIdle(k, a)
      PROVE  Quiet
  <2>1. SeekBusy(k, a) => runners[a] \in Runners
    BY DEF SeekBusy, Busy, MapTypes, MaybeRunner
  <2> QED
    BY <1>4, <2>1 DEF SeekBusy, SeekIdle, PlainStep
<1>5. ASSUME NEW e \in Editors, AssertNotBusy(e) \/ EditEnds(e) PROVE Quiet
  BY <1>5 DEF AssertNotBusy, EditEnds, PlainStep
<1>6. ASSUME RRest \/ UNCHANGED rvars PROVE Quiet
  BY <1>6 DEF RRest, rvars, PlainStep
<1> HIDE DEF Quiet
<1>7. \/ \E c \in Callers, a \in Agents, r \in Runners, o \in Ops : Obtain(c, a, r, o)
      \/ \E c \in Callers : RFiberIdleBegin(c) \/ RFiberIdleEnd(c) \/ RBeginShell(c) \/ ReportBusy(c)
      \/ \E k \in Cancellers : RCancelIdleBegin(k) \/ RCancelIdleEnd(k)
      \/ Quiet
  BY <1>1, <1>2, <1>3, <1>4, <1>5, <1>6 DEF RNext
<1> QED
  BY <1>7 DEF Quiet

-----------------------------------------------------------------------------
(* The begin of an onIdle takes away only what its own runner owed, which    *)
(* then reports; its end takes away only what its own runner had to report.  *)
LEMMA FiberIdleFrame ==
  ASSUME TypeOK, NEW c \in Callers, FiberIdleBegin(c) \/ FiberIdleEnd(c),
         NEW r \in Runners, home[c] # r
  PROVE  (OwesIdle(r) => OwesIdle(r)') /\ (ReportsIdle(r) => ReportsIdle(r)')
  BY DEF FiberIdleBegin, FiberIdleEnd, OwesIdle, ReportsIdle, callVars, cancelVars, TypeOK

LEMMA CancelIdleFrame ==
  ASSUME TypeOK, NEW k \in Cancellers, CancelIdleBegin(k) \/ CancelIdleEnd(k),
         NEW r \in Runners, chome[k] # r
  PROVE  (OwesIdle(r) => OwesIdle(r)') /\ (ReportsIdle(r) => ReportsIdle(r)')
  BY DEF CancelIdleBegin, CancelIdleEnd, OwesIdle, ReportsIdle, callVars, fiberVars, TypeOK

LEMMA IdleBeginReports ==
  ASSUME TypeOK
  PROVE  \A r \in Runners :
           /\ \A c \in Callers : FiberIdleBegin(c) /\ home[c] = r => ReportsIdle(r)'
           /\ \A k \in Cancellers : CancelIdleBegin(k) /\ chome[k] = r => ReportsIdle(r)'
  BY DEF FiberIdleBegin, CancelIdleBegin, ReportsIdle, callVars, TypeOK

(* A call keeps its runner and its operation once it has them.               *)
LEMMA CallsStay ==
  ASSUME TypeOK,
         \/ PlainStep
         \/ \E c \in Callers : FiberIdleBegin(c) \/ FiberIdleEnd(c)
         \/ \E k \in Cancellers : CancelIdleBegin(k) \/ CancelIdleEnd(k),
         NEW d \in Callers
  PROVE  op'[d] = op[d] /\ home'[d] = home[d] /\ (pc[d] = "new" <=> pc'[d] = "new")
<1> USE DEF TypeOK, callVars, vars
<1>1. ASSUME NEW c \in Callers, CallerStep(c) \/ Abandon(c)
      PROVE  op'[d] = op[d] /\ home'[d] = home[d] /\ (pc[d] = "new" <=> pc'[d] = "new")
  BY <1>1 DEF CallerStep, CallerReturns, JoinRun, QueueRun, StartRun, RejectShell, BeginShell,
              StartShell, ReturnRun, ReturnShell, Calls, Abandon
<1>2. ASSUME \/ \E c \in Callers : PlainFiberStep(c) \/ \E e \in Exits : WorkEnds(c, e)
             \/ \E k \in Cancellers : 
                   PlainCancelStep(k) \/ SeekNothing(k) \/ \E r \in Runners : Seek(k, r)
             \/ UNCHANGED vars
      PROVE  UNCHANGED callVars
  BY <1>2 DEF PlainFiberStep, FinishRun, FinishShell, Settle, WorkEnds, PlainCancelStep, Cancel,
              FailPending, Interrupt, AwaitExit, IdleIfCurrent, SeekNothing, Seek
<1>3. ASSUME \/ \E c \in Callers : FiberIdleBegin(c) \/ FiberIdleEnd(c)
             \/ \E k \in Cancellers : CancelIdleBegin(k) \/ CancelIdleEnd(k)
      PROVE  UNCHANGED callVars
  BY <1>3 DEF FiberIdleBegin, FiberIdleEnd, CancelIdleBegin, CancelIdleEnd
<1> HIDE DEF TypeOK
<1> QED
  BY <1>1, <1>2, <1>3 DEF PlainStep

LEMMA ShellsStep ==
  MapInv /\ IInv /\ ShellsAreMains /\ [RNext]_rvars => ShellsAreMains'
<1> SUFFICES ASSUME MapInv, IInv, ShellsAreMains, [RNext]_rvars PROVE ShellsAreMains'
  OBVIOUS
<1>t. TypeOK /\ MapTypes
  BY DEF IInv, MapInv
<1>1. ASSUME NEW c \in Callers, NEW a \in Agents, NEW r \in Runners, NEW o \in Ops,
             Obtain(c, a, r, o)
      PROVE  ShellsAreMains'
  <2>1. owner'[r] = a /\ (\A q \in Runners : owner[q] # NoOne => owner'[q] = owner[q])
    BY <1>1, <1>t, MainAssumption, NoOneAssumption DEF Obtain, MapInv, MapTypes, mapVars
  <2>2. \A d \in Callers : d # c => op'[d] = op[d] /\ home'[d] = home[d] /\ pc'[d] = pc[d]
    BY <1>1, <1>t DEF Obtain, Lookup, TypeOK
  <2>3. op'[c] = o /\ home'[c] = r /\ (o = "shell" => a = Main)
    BY <1>1, <1>t DEF Obtain, Lookup, TypeOK
  <2>4. \A d \in Callers : pc[d] # "new" => home[d] \in Runners
    BY DEF IInv, HomeInv
  <2> QED
    BY <2>1, <2>2, <2>3, <2>4, MainAssumption DEF ShellsAreMains
<1>2. ASSUME \/ PlainStep
             \/ \E c \in Callers : FiberIdleBegin(c) \/ FiberIdleEnd(c)
             \/ \E k \in Cancellers : CancelIdleBegin(k) \/ CancelIdleEnd(k),
             owner' = owner
      PROVE  ShellsAreMains'
  BY <1>2, <1>t, CallsStay DEF ShellsAreMains
<1>3. ASSUME NEW c \in Callers, RBeginShell(c) \/ ReportBusy(c)
      PROVE  PlainStep /\ owner' = owner
  BY <1>3 DEF RBeginShell, ReportBusy, PlainStep, CallerStep, mapVars
<1> QED
  BY <1>1, <1>2, <1>3, <1>t, Steps DEF RFiberIdleBegin, RFiberIdleEnd, RCancelIdleBegin,
     RCancelIdleEnd, mapVars

LEMMA KeyStep ==
  MapInv /\ IInv /\ KeyInv /\ [RNext]_rvars => KeyInv'
<1> SUFFICES ASSUME MapInv, IInv, KeyInv, [RNext]_rvars PROVE KeyInv'
  OBVIOUS
<1>t. TypeOK /\ MapTypes /\ [Next]_vars
  BY StepIsRunners DEF IInv, MapInv
<1>n. \A a \in Agents : runners[a] # NoOne => runners[a] \in Runners
  BY <1>t DEF MapTypes, MaybeRunner
(* A step that begins no onIdle keeps what the invariant says of a key.      *)
<1>k. ASSUME NEW a \in Agents, runners[a] # NoOne, BeginsNoIdle, runners'[a] = runners[a]
      PROVE  \/ OwesIdle(runners[a])'
             \/ \E c \in Callers : pc'[c] = "ready" /\ home'[c] = runners'[a]
  <2>r. PICK r \in Runners : r = runners[a] /\ r = runners'[a]
    BY <1>k, <1>n
  <2>1. CASE OwesIdle(r)
    BY <1>k, <2>1, <2>r, OwesStep
  <2>2. ASSUME NEW c \in Callers, pc[c] = "ready", home[c] = r
        PROVE  (pc'[c] = "ready" /\ home'[c] = r) \/ OwesIdle(r)'
    BY <2>2, <1>t, ReadyStep
  <2> QED
    BY <2>1, <2>2, <1>k, <2>r DEF KeyInv
<1>1. ASSUME NEW c \in Callers, NEW a \in Agents, NEW r \in Runners, NEW o \in Ops,
             Obtain(c, a, r, o)
      PROVE  KeyInv'
  <2>1. pc'[c] = "ready" /\ home'[c] = r /\ BeginsNoIdle
    BY <1>1, <1>t DEF Obtain, Lookup, TypeOK, BeginsNoIdle, LookupStep
  <2>2. runners'[a] = r /\ \A b \in Agents : b # a => runners'[b] = runners[b]
    BY <1>1, <1>t DEF Obtain, MapTypes, mapVars
  <2> QED
    BY <2>1, <2>2, <1>k DEF KeyInv
<1>2. ASSUME BeginsNoIdle, runners' = runners PROVE KeyInv'
  BY <1>2, <1>k DEF KeyInv
<1>3. ASSUME NEW c \in Callers, RFiberIdleBegin(c) PROVE KeyInv'
  <2>1. owner[home[c]] \in Agents => runners'[owner[home[c]]] = NoOne
    BY <1>3, <1>t DEF RFiberIdleBegin, Unmap, MapTypes
  <2>2. \A b \in Agents : b # owner[home[c]] => runners'[b] = runners[b]
    BY <1>3, <1>t DEF RFiberIdleBegin, Unmap, MapTypes
  <2>3. ASSUME NEW b \in Agents, runners'[b] # NoOne
        PROVE  home[c] # runners[b] /\ runners'[b] = runners[b]
    BY <2>1, <2>2, <2>3 DEF MapInv
  <2>4. UNCHANGED callVars
    BY <1>3 DEF RFiberIdleBegin, FiberIdleBegin
  <2> QED
    BY <2>3, <2>4, <1>3, <1>t, <1>n, FiberIdleFrame DEF KeyInv, RFiberIdleBegin, callVars
<1>4. ASSUME NEW k \in Cancellers, RCancelIdleBegin(k) PROVE KeyInv'
  <2>1. owner[chome[k]] \in Agents => runners'[owner[chome[k]]] = NoOne
    BY <1>4, <1>t DEF RCancelIdleBegin, Unmap, MapTypes
  <2>2. \A b \in Agents : b # owner[chome[k]] => runners'[b] = runners[b]
    BY <1>4, <1>t DEF RCancelIdleBegin, Unmap, MapTypes
  <2>3. ASSUME NEW b \in Agents, runners'[b] # NoOne
        PROVE  chome[k] # runners[b] /\ runners'[b] = runners[b]
    BY <2>1, <2>2, <2>3 DEF MapInv
  <2>4. UNCHANGED callVars
    BY <1>4 DEF RCancelIdleBegin, CancelIdleBegin
  <2> QED
    BY <2>3, <2>4, <1>4, <1>t, <1>n, CancelIdleFrame DEF KeyInv, RCancelIdleBegin, callVars
<1>5. ASSUME NEW c \in Callers, RBeginShell(c) \/ RFiberIdleEnd(c) \/ ReportBusy(c)
      PROVE  BeginsNoIdle /\ runners' = runners
  BY <1>5 DEF RBeginShell, RFiberIdleEnd, ReportBusy, BeginsNoIdle, PlainStep, CallerStep, mapVars
<1>6. ASSUME NEW k \in Cancellers, RCancelIdleEnd(k)
      PROVE  BeginsNoIdle /\ runners' = runners
  BY <1>6 DEF RCancelIdleEnd, BeginsNoIdle, mapVars
<1> QED
  BY <1>1, <1>2, <1>3, <1>4, <1>5, <1>6, <1>t, Steps DEF BeginsNoIdle, mapVars

(* Work under way that no cancel is taking down keeps its runner from Idle.  *)
LEMMA WorkIsShown ==
  ASSUME IInv, NEW c \in Callers, AtWork(c), ~ BeingCancelled(c)
  PROVE  home[c] \in Runners /\ ref[home[c]].tag # "Idle"
<1>1. ASSUME NEW r \in Runners, ref[r].shell = c \/ ref[r] = RunningState(c)
      PROVE  home[c] = r /\ ref[r].tag # "Idle"
  <2>1. ref[r].shell = c => ref[r].tag \in {"Shell", "ShellThenRun"}
    BY NoOneAssumption DEF IInv, TypeOK, RefInv
  <2> QED
    BY <1>1, <2>1 DEF IInv, RefInv, RunningState
<1> QED
  BY <1>1 DEF IInv, NoLostFiber, AtWork, Current

(* Work under way makes its runner owe an onIdle.                            *)
LEMMA WorkOwes ==
  ASSUME IInv, OwnTarget, NEW c \in Callers, AtWork(c)
  PROVE  OwesIdle(home[c])
<1>1. CASE BeingCancelled(c)
  BY <1>1 DEF BeingCancelled, OwesIdle, OwnTarget
<1> QED
  BY <1>1, WorkIsShown DEF OwesIdle

LEMMA BusyStep ==
  MapInv /\ IInv /\ RestInv /\ [RNext]_rvars => BusyInv'
<1> SUFFICES ASSUME MapInv, IInv, RestInv, [RNext]_rvars, status' = "busy" PROVE BusyInv'
  BY DEF BusyInv
<1>t. TypeOK /\ MapTypes
  BY DEF IInv, MapInv
<1> DEFINE W(r) == owner[r] = Main /\ (OwesIdle(r) \/ ReportsIdle(r))
(* What is left to show: some runner of Main owes or reports after the step. *)
<1>w. ASSUME NEW r \in Runners, owner'[r] = Main, OwesIdle(r)' \/ ReportsIdle(r)'
      PROVE  BusyInv'
  BY <1>w DEF BusyInv
<1>0. ASSUME status = "busy" PROVE \E r \in Runners : W(r)
  BY <1>0 DEF RestInv, BusyInv
<1>1. ASSUME NEW c \in Callers, NEW a \in Agents, NEW r \in Runners, NEW o \in Ops,
             Obtain(c, a, r, o)
      PROVE  BusyInv'
  <2>1. PICK q \in Runners : W(q)
    BY <1>0, <1>1 DEF Obtain
  <2>2. owner'[q] = Main
    BY <1>1, <1>t, <2>1, MainAssumption DEF Obtain, MapTypes, mapVars
  <2>3. LookupStep
    BY <1>1 DEF Obtain, LookupStep
  <2> QED
    BY <1>w, <2>1, <2>2, <2>3, OwesStep, ReportsStep DEF BeginsNoIdle
<1>2. ASSUME PlainStep, owner' = owner, status' \in {status, "idle"} PROVE BusyInv'
  <2>1. PICK q \in Runners : W(q)
    BY <1>0, <1>2
  <2> QED
    BY <1>w, <1>2, <2>1, OwesStep, ReportsStep DEF BeginsNoIdle
<1>3. ASSUME NEW c \in Callers, RFiberIdleBegin(c) PROVE BusyInv'
  <2>1. PICK q \in Runners : W(q)
    BY <1>0, <1>3 DEF RFiberIdleBegin
  <2>2. owner' = owner /\ FiberIdleBegin(c)
    BY <1>3 DEF RFiberIdleBegin
  <2>3. home[c] = q => ReportsIdle(q)'
    BY <2>2, <1>t, IdleBeginReports
  <2> QED
    BY <1>w, <1>t, <2>1, <2>2, <2>3, FiberIdleFrame
<1>4. ASSUME NEW k \in Cancellers, RCancelIdleBegin(k) PROVE BusyInv'
  <2>1. PICK q \in Runners : W(q)
    BY <1>0, <1>4 DEF RCancelIdleBegin
  <2>2. owner' = owner /\ CancelIdleBegin(k)
    BY <1>4 DEF RCancelIdleBegin
  <2>3. chome[k] = q => ReportsIdle(q)'
    BY <2>2, <1>t, IdleBeginReports
  <2> QED
    BY <1>w, <1>t, <2>1, <2>2, <2>3, CancelIdleFrame
<1>5. ASSUME NEW c \in Callers, RFiberIdleEnd(c) PROVE BusyInv'
  <2>1. owner' = owner /\ FiberIdleEnd(c) /\ owner[home[c]] # Main /\ status = "busy"
    BY <1>5 DEF RFiberIdleEnd, ReportIdle, mapVars
  <2>2. PICK q \in Runners : W(q)
    BY <1>0, <2>1
  <2> QED
    BY <1>w, <1>t, <2>1, <2>2, FiberIdleFrame
<1>6. ASSUME NEW k \in Cancellers, RCancelIdleEnd(k) PROVE BusyInv'
  <2>1. owner' = owner /\ CancelIdleEnd(k) /\ owner[chome[k]] # Main /\ status = "busy"
    BY <1>6 DEF RCancelIdleEnd, ReportIdle, mapVars
  <2>2. PICK q \in Runners : W(q)
    BY <1>0, <2>1
  <2> QED
    BY <1>w, <1>t, <2>1, <2>2, CancelIdleFrame
<1>7. ASSUME NEW c \in Callers, RBeginShell(c) PROVE BusyInv'
  <2>1. /\ owner' = owner /\ pc[c] = "ready" /\ op[c] = "shell" /\ home' = home
        /\ pc'[c] = "starting"
    BY <1>7, <1>t DEF RBeginShell, BeginShell, Calls, mapVars, TypeOK
  <2>2. PICK r \in Runners : r = home[c] /\ owner'[r] = Main
    BY <2>1 DEF IInv, HomeInv, RestInv, ShellsAreMains
  <2>3. OwesIdle(r)'
    BY <2>1, <2>2 DEF OwesIdle
  <2> QED
    BY <1>w, <2>2, <2>3
<1>8. ASSUME NEW c \in Callers, ReportBusy(c) PROVE BusyInv'
  <2>1. /\ UNCHANGED <<vars, owner>> /\ fiber[c] = "working" /\ owner[home[c]] = Main
    BY <1>8 DEF ReportBusy, mapVars
  <2>2. PICK r \in Runners : r = home[c]
    BY <2>1 DEF IInv, HomeInv, CallInv
  <2>3. OwesIdle(r)
    BY <2>1, <2>2, WorkOwes DEF RestInv, AtWork
  <2>4. OwesIdle(r)'
    BY <2>1, <2>3, OwesStep DEF BeginsNoIdle, PlainStep
  <2> QED
    BY <1>w, <2>1, <2>2, <2>4
<1> QED
  BY <1>1, <1>2, <1>3, <1>4, <1>5, <1>6, <1>7, <1>8, <1>t, Steps DEF mapVars

LEMMA RestInitially == RInit => RestInv
  BY DEF RInit, Init, RestInv, OwnTarget, ShellsAreMains, KeyInv, BusyInv

LEMMA RestInductive == RSpec => []RestInv
<1>1. MapInv /\ IInv /\ RestInv /\ [RNext]_rvars => RestInv'
  <2>1. MapInv => MapTypes
    BY DEF MapInv
  <2> QED
    BY <2>1, StepIsRunners, OwnTargetStep, ShellsStep, KeyStep, BusyStep DEF RestInv
<1> QED
  BY <1>1, RestInitially, RunStateIsRunner, Inductive, PTL DEF RSpec

(* Status busy is owed (BusyIsOwed): while the session is shown busy, some   *)
(* fiber or cancel of the main agent is still on its way to the onIdle that  *)
(* reports it idle (run-state.ts: onIdle, setStatus).                        *)
THEOREM BusyIsAlwaysOwed == RSpec => []BusyIsOwed
<1>1. IInv /\ RestInv => BusyIsOwed
  <2> SUFFICES ASSUME IInv, RestInv, status = "busy" PROVE IdleIsDue
    BY DEF BusyIsOwed
  <2>1. PICK r \in Runners : owner[r] = Main /\ (OwesIdle(r) \/ ReportsIdle(r))
    BY DEF RestInv, BusyInv
  <2>2. CASE ref[r].tag # "Idle"
    <3>1. \E c \in Callers : home[c] = r /\ AtWork(c)
      BY <2>2 DEF IInv, RefInv, TypeOK
    <3> QED
      BY <2>1, <3>1, NoOneAssumption DEF IdleIsDue, AtWork
  <2> QED
    BY <2>1, <2>2, NoOneAssumption DEF OwesIdle, ReportsIdle, IdleIsDue
<1> QED
  BY <1>1, RestInductive, RunStateIsRunner, Inductive, PTL

(* At rest nothing is left (RestLeavesNothing): whatever the order in which  *)
(* finished, replaced and cancelled runs executed their onIdle, no runner    *)
(* stays in the map of run-state.ts and the session is not shown busy.       *)
THEOREM NothingIsLeft == RSpec => []RestLeavesNothing
<1>1. MapInv /\ IInv /\ RestInv => RestLeavesNothing
  <2> SUFFICES ASSUME MapInv, IInv, RestInv, Quiescent
               PROVE  status = "idle" /\ \A a \in Agents : runners[a] = NoOne
    BY DEF RestLeavesNothing, RQuiescent
  <2>1. \A r \in Runners : ~ OwesIdle(r) /\ ~ ReportsIdle(r)
    <3>1. \A r \in Runners : ref[r].tag # "Idle" => \E c \in Callers : AtWork(c)
      BY DEF IInv, RefInv, TypeOK
    <3> QED
      BY <3>1 DEF OwesIdle, ReportsIdle, Quiescent, AtWork
  <2>2. status = "idle"
    BY <2>1 DEF RestInv, BusyInv, MapInv
  <2>3. \A a \in Agents : runners[a] = NoOne
    BY <2>1 DEF RestInv, KeyInv, MapInv, MapTypes, MaybeRunner, Quiescent
  <2> QED
    BY <2>2, <2>3
<1> QED
  BY <1>1, RestInductive, RunStateIsRunner, Inductive, PTL

(* What assertNotBusy misses (OverlooksOnlyDisowned): a loop of the main     *)
(* agent is at work behind a passed check only if a cancel is taking it down *)
(* or its runner is not the one in the map any more.                         *)
THEOREM CheckMissesOnlyDisowned == RSpec => OverlooksOnlyDisowned
<1> DEFINE A == \A e \in Editors :
                  epc[e] = "new" /\ epc'[e] = "editing" =>
                    \A c \in Callers :
                      LoopAtWork(c, Main) => BeingCancelled(c) \/ runners[Main] # home[c]
<1>1. MapInv /\ IInv /\ [RNext]_rvars => A
  <2> SUFFICES ASSUME MapInv, IInv, [RNext]_rvars,
                      NEW e \in Editors, epc[e] = "new", epc'[e] = "editing",
                      NEW c \in Callers, LoopAtWork(c, Main), ~ BeingCancelled(c)
               PROVE  runners[Main] # home[c]
    OBVIOUS
  <2>1. ~ Busy(Main)
    <3>1. epc' # epc
      OBVIOUS
    <3>2. \E d \in Editors : AssertNotBusy(d) \/ EditEnds(d)
      BY <3>1 DEF RNext, Obtain, RCallerStep, Plain, RWorkEnds, ReportBusy, RFiberStep,
         RFiberIdleBegin, RFiberIdleEnd, RBeginShell, SeekBusy, SeekIdle, RCancelStep,
         RCancelIdleBegin, RCancelIdleEnd, RRest, rvars
    <3> QED
      BY <3>2 DEF AssertNotBusy, EditEnds, MapInv, MapTypes
  <2>2. home[c] \in Runners /\ ref[home[c]].tag # "Idle"
    BY WorkIsShown DEF LoopAtWork, AtWork
  <2> QED
    BY <2>1, <2>2, NoOneAssumption DEF Busy
<1>2. MapInv /\ IInv /\ [RNext]_rvars => [A]_rvars
  BY <1>1
<1>3. RSpec => [][A]_rvars
  BY <1>2, RunStateIsRunner, Inductive, PTL DEF RSpec
<1> QED
  BY <1>3 DEF OverlooksOnlyDisowned
===============================================================================
