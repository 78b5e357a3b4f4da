--------------------------- MODULE TurnLoopProofs ---------------------------
(***************************************************************************)
(* Proofs about TurnLoop, for every value of the caps and of the bounds:   *)
(* the task gate's budget, the sum of the caps of the end gates, that a    *)
(* turn never ends on a stale answer, and that every step of the loop      *)
(* brings the run nearer to its end.                                       *)
(*                                                                         *)
(* TurnInv is the inductive invariant of the first two.  It charges every  *)
(* re-entry to the counter that allows it: those of the verify gate, the   *)
(* finish guard and the stall gate to the locals of the run, those of the  *)
(* task gate to the tally, and those of the goal gate to the goal's react, *)
(* which is lost when the goal is cleared: hence the cases of GoalShare.   *)
(***************************************************************************)
EXTENDS TurnLoop, WellFoundedInduction, TLAPS

(* Re-entries charged to anything but the goal.                              *)
Charged == cnt.verifies + cnt.guard + (IF cnt.resumed THEN 1 ELSE 0) + tally.task

Tallies == [task : Nat, spawns : Nat, total : Nat]

Typed ==
  /\ cnt \in Counters /\ taskReact \in Nat /\ tally \in Tallies /\ goal \in Goals

Capped ==
  /\ cnt.verifies <= MaxVerify /\ cnt.guard <= MaxGuard
  /\ taskReact <= MaxTaskReact
  /\ goal.kind # "none" => goal.react <= GoalCap

TaskShare == tally.task <= taskReact + MaxTaskReact * tally.spawns

GoalShare ==
  /\ goal.kind # "none" => tally.total <= Charged + goal.react
  /\ goal.kind = "none" => tally.total <= Charged + GoalCap + 1
  /\ goal.kind = "none" /\ pc = "judge" => tally.total <= Charged + GoalCap

AtRest == pc = "idle" => tally.total = 0

TurnInv == Typed /\ Capped /\ TaskShare /\ GoalShare /\ AtRest

-----------------------------------------------------------------------------
(* The caps are natural numbers.                                             *)
LEMMA CapTypes ==
  /\ MaxVerify \in Nat /\ MaxGuard \in Nat /\ MaxTaskReact \in Nat
  /\ SoftGoal \in Nat /\ MaxGoal \in Nat /\ GoalCap \in Nat
  /\ MaxLength \in Nat /\ MaxStalls \in Nat /\ MaxInvalid \in Nat
  /\ MaxTextTool \in Nat /\ MaxNgram \in Nat /\ MaxLoops \in Nat
  /\ TextTrigger \in Nat
BY CapsAssumption DEF CapsAssumption, GoalCap

(* The share of a task budget that a further subagent turn adds.             *)
LEMMA OneMore == ASSUME NEW s \in Nat, NEW m \in Nat
                 PROVE  m * (s + 1) = m * s + m /\ m * (1 + s) = m * s + m /\ m * s \in Nat
BY SMT

(* A fresh run has spent nothing.                                            *)
LEMMA NewRunTyped ==
  /\ NewRun \in Counters
  /\ NewRun.verifies = 0 /\ NewRun.guard = 0 /\ NewRun.resumed = FALSE
BY DEF NewRun, Counters

(* The counters of the end gates, as opposed to those of the repairs.        *)
SameGates(c, d) ==
  c.verifies = d.verifies /\ c.guard = d.guard /\ c.resumed = d.resumed

(* A repair keeps the type of the counters and spends nothing of the gates'. *)
LEMMA MendSpends ==
  ASSUME NEW w, NEW c \in Counters, NEW r \in Mend(w, c)
  PROVE  r.cnt \in Counters /\ SameGates(r.cnt, c)
<1>1. CASE w.last = "cut"
  BY <1>1, CapTypes DEF Mend, OnCut, Again, GiveUp, Counters, SameGates
<1>2. CASE w.last # "cut" /\ w.last = "prose"
  BY <1>2, CapTypes DEF Mend, OnProse, Again, GiveUp, Counters, SameGates
<1>3. CASE w.last # "cut" /\ w.last # "prose"
  <2>1. PICK p \in BOOLEAN : r = OnThink(w, c, p)
    BY <1>3 DEF Mend
  <2>2. r.cnt \in {c, [c EXCEPT !.total = @ + 1, !.stalls = 0],
                   [c EXCEPT !.total = @ + 1, !.stalls = @ + 1]}
    BY <2>1 DEF OnThink, Again, GiveUp
  <2>3. c.total + 1 \in Nat /\ c.stalls + 1 \in Nat
    BY DEF Counters
  <2>4. ASSUME NEW n \in Nat, NEW m \in Nat
        PROVE  LET d == [c EXCEPT !.total = n, !.stalls = m]
               IN d \in Counters /\ SameGates(d, c)
    BY DEF Counters, SameGates
  <2>5. ASSUME r.cnt = c PROVE r.cnt \in Counters /\ SameGates(r.cnt, c)
    BY <2>5 DEF SameGates
  <2> QED
    BY ZenonT(60), <2>2, <2>3, <2>4, <2>5
<1> QED
  BY <1>1, <1>2, <1>3

(* So does the end of a model step.                                          *)
LEMMA SettleSpends ==
  ASSUME NEW w, NEW c \in Counters, NEW again, NEW text, Settle(w, c, again, text)
  PROVE  /\ cnt' \in Counters /\ SameGates(cnt', c)
         /\ pc' \in {"look", "tasks", "leave"}
         /\ UNCHANGED <<taskReact, goal, tally>>
<1> DEFINE said == IF text /\ c.said < TextTrigger THEN c.said + 1 ELSE c.said
           d    == [c EXCEPT !.said = said, !.skip = FALSE]
<1>1. said \in Nat /\ c.loops \in Nat
  BY DEF Counters
<1>2. d \in Counters /\ SameGates(d, c)
  BY <1>1 DEF Counters, SameGates
<1>3. cnt' = d \/ cnt' = [d EXCEPT !.loops = @ + 1, !.said = 0]
  BY DEF Settle
<1>4. cnt' \in Counters /\ SameGates(cnt', c)
  <2>1. CASE cnt' = d
    BY <1>2, <2>1
  <2>2. CASE cnt' = [d EXCEPT !.loops = @ + 1, !.said = 0]
    <3> HIDE DEF d
    <3>1. d.loops + 1 \in Nat
      BY <1>2 DEF Counters
    <3>2. ASSUME NEW n \in Nat
          PROVE  LET e == [d EXCEPT !.loops = n, !.said = 0]
                 IN e \in Counters /\ SameGates(e, d)
      BY <1>2 DEF Counters, SameGates
    <3> QED
      BY <1>2, <2>2, <3>1, <3>2 DEF SameGates
  <2> QED
    BY <1>3, <2>1, <2>2
<1> QED
  BY <1>4 DEF Settle, LeaveOnError

(* A productive step rearms the repair of unusable output only.              *)
LEMMA RearmSpends ==
  ASSUME NEW c \in Counters
  PROVE  Rearm(c) \in Counters /\ SameGates(Rearm(c), c)
BY DEF Rearm, Counters, SameGates

(* A step that touches no counter of an end gate, and no goal.               *)
LEMMA QuietStep ==
  ASSUME TurnInv, cnt' \in Counters, SameGates(cnt', cnt),
         UNCHANGED <<taskReact, goal, tally>>,
         pc' \notin {"judge", "idle"} \/ pc' = pc
  PROVE  TurnInv'
BY DEF TurnInv, Typed, Capped, TaskShare, GoalShare, AtRest, Charged, SameGates

(* A step that starts a run if there is none, and touches no goal.           *)
LEMMA RunStep ==
  ASSUME TurnInv, Run, UNCHANGED <<taskReact, goal, tally>>
  PROVE  TurnInv'
<1>1. CASE pc = "idle"
  <2>1. /\ cnt' = NewRun /\ pc' = "look" /\ tally.total = 0
    BY <1>1 DEF Run, TurnInv, AtRest
  <2> QED
    BY <2>1, NewRunTyped, CapTypes
    DEF TurnInv, Typed, Capped, TaskShare, GoalShare, AtRest, Charged, Goals, Tallies
<1>2. CASE pc # "idle"
  BY <1>2, QuietStep DEF Run, SameGates, TurnInv, Typed
<1> QED
  BY <1>1, <1>2

-----------------------------------------------------------------------------
(* The invariant holds initially.                                            *)
LEMMA TurnInit == Init => TurnInv
<1> SUFFICES ASSUME Init PROVE TurnInv
  OBVIOUS
<1> QED
  BY NewRunTyped, CapTypes
  DEF Init, TurnInv, Typed, Capped, TaskShare, GoalShare, AtRest, Charged, Goals,
      NoGoal, Tallies

(* The model's step, the repairs and the context boundaries keep it.         *)
LEMMA TurnModelSteps ==
  ASSUME TurnInv,
         \/ Look \/ StartCompaction \/ Compacted \/ CompactionFails \/ Overflow
         \/ UseTools \/ Answer \/ Misstep \/ Fail \/ Repeat \/ ProviderOverflow
  PROVE  TurnInv'
<1>0. cnt \in Counters
  BY DEF TurnInv, Typed
<1>1. CASE Look
  <2>1. /\ cnt' \in Counters /\ SameGates(cnt', cnt)
        /\ pc' \in {"look", "call", "tasks", "leave"}
    <3> DEFINE w == IF mail > 0 THEN Nudge(win) ELSE win
    <3>1. CASE Class(w) \in {"cut", "prose", "think"}
      <4>1. PICK r \in Mend(w, cnt) :
              cnt' = r.cnt /\ pc' \in {"look", "leave"}
        BY <1>1, <3>1 DEF Look, LeaveOnError
      <4> QED
        BY <4>1, <1>0, MendSpends
    <3>2. CASE Class(w) \notin {"cut", "prose", "think"}
      <4>1. /\ cnt' \in {cnt, Rearm(cnt)}
            /\ pc' \in {"call", "tasks", "leave"}
        BY <1>1, <3>2 DEF Look, LeaveOnError
      <4> QED
        BY <4>1, <1>0, RearmSpends DEF SameGates
    <3> QED
      BY <3>1, <3>2
  <2>2. UNCHANGED <<taskReact, goal, tally>>
    BY <1>1 DEF Look
  <2> QED
    BY <2>1, <2>2, QuietStep
<1>2. CASE StartCompaction \/ Compacted
  BY <1>0, <1>2, QuietStep DEF StartCompaction, Compacted, SameGates
<1>3. CASE CompactionFails
  <2>1. cnt' \in Counters /\ SameGates(cnt', cnt)
    BY <1>0, <1>3 DEF CompactionFails, Counters, SameGates
  <2> QED
    BY <1>3, <2>1, QuietStep DEF CompactionFails, LeaveOnError
<1>4. CASE Overflow
  <2>1. cnt' \in Counters /\ SameGates(cnt', cnt)
    BY <1>0, <1>4 DEF Overflow, Counters, SameGates
  <2> QED
    BY <1>4, <2>1, QuietStep DEF Overflow
<1>5. CASE UseTools
  <2>1. PICK e \in {"none", "edit", "green", "red"}, text \in BOOLEAN, refused \in BOOLEAN :
          Settle(Worked(Produced(IF refused THEN "open" ELSE "tools", FALSE), e),
                 Rearm(cnt), ~ refused, text)
    BY <1>5 DEF UseTools
  <2> QED
    BY <2>1, <1>0, RearmSpends, SettleSpends, QuietStep DEF SameGates
<1>6. CASE Answer
  <2>1. PICK k \in {"answer", "echo"} :
          Settle(Produced(k, FALSE), Rearm(cnt), TRUE, TRUE)
    BY <1>6 DEF Answer
  <2> QED
    BY <2>1, <1>0, RearmSpends, SettleSpends, QuietStep DEF SameGates
<1>7. CASE Misstep
  <2>1. PICK k \in {"cut", "prose", "think"} : \E r \in Mend(Produced(k, FALSE), cnt) :
          Settle(r.win, r.cnt, r.again, k # "think")
    BY <1>7 DEF Misstep
  <2>2. PICK r \in Mend(Produced(k, FALSE), cnt) :
          Settle(r.win, r.cnt, r.again, k # "think")
    BY <2>1
  <2>3. r.cnt \in Counters /\ SameGates(r.cnt, cnt)
    BY <1>0, MendSpends
  <2>4. /\ cnt' \in Counters /\ SameGates(cnt', r.cnt)
        /\ pc' \in {"look", "tasks", "leave"}
        /\ UNCHANGED <<taskReact, goal, tally>>
    BY <2>2, <2>3, SettleSpends
  <2> QED
    BY <2>3, <2>4, QuietStep DEF SameGates
<1>8. CASE Fail
  BY <1>8, <1>0, SettleSpends, QuietStep DEF Fail
<1>9. CASE Repeat
  <2> DEFINE w == Produced("open", FALSE)
             d == [cnt EXCEPT !.ngram = @ + 1]
  <2>1. Settle(Nudge(w), d, TRUE, TRUE) \/ Settle(w, cnt, FALSE, TRUE)
    BY <1>9 DEF Repeat
  <2>2. d \in Counters /\ SameGates(d, cnt)
    BY <1>0 DEF Counters, SameGates
  <2> QED
    BY <2>1, <2>2, <1>0, SettleSpends, QuietStep DEF SameGates
<1>10. CASE ProviderOverflow
  <2>1. PICK c \in {cnt, Rearm(cnt)} : \E v, text : Settle(v, c, TRUE, text)
    BY <1>10 DEF ProviderOverflow
  <2>2. c \in Counters /\ SameGates(c, cnt)
    BY <1>0, RearmSpends DEF SameGates
  <2> QED
    BY <2>1, <2>2, <1>0, SettleSpends, QuietStep DEF SameGates
<1> QED
  BY <1>1, <1>2, <1>3, <1>4, <1>5, <1>6, <1>7, <1>8, <1>9, <1>10

(* What a re-entry through the task gate does to the tally.                  *)
LEMMA TallyBump ==
  ASSUME NEW t \in Tallies, NEW u, t.task + 1 \in Nat, t.total + 1 \in Nat,
         u = [t EXCEPT !.task = @ + 1, !.total = @ + 1]
  PROVE  u \in Tallies /\ u.task = t.task + 1 /\ u.total = t.total + 1 /\ u.spawns = t.spawns
BY DEF Tallies

(* The gates keep it: each charges its re-entry.                             *)
LEMMA TurnGates ==
  ASSUME TurnInv, Gates \/ Leave
  PROVE  TurnInv'
<1>0. /\ cnt \in Counters /\ cnt.verifies \in Nat /\ cnt.guard \in Nat
      /\ tally \in Tallies /\ tally.task \in Nat /\ tally.total \in Nat
      /\ tally.spawns \in Nat /\ MaxTaskReact * tally.spawns \in Nat
      /\ taskReact \in Nat /\ goal.react \in Nat
  BY CapTypes, OneMore DEF TurnInv, Typed, Counters, Tallies, Goals
<1> USE CapTypes DEF TurnInv, Typed, Capped, TaskShare, GoalShare, AtRest, Charged,
                     SendBack, Reenter
<1>1. CASE TaskGate
  <2>1. CASE board /\ taskReact < MaxTaskReact
    <3>1. /\ taskReact' = taskReact + 1 /\ pc' = "look" /\ UNCHANGED <<cnt, goal>>
          /\ tally' = [tally EXCEPT !.task = @ + 1, !.total = @ + 1]
      BY <1>1, <2>1 DEF TaskGate
    <3>2. tally.task + 1 \in Nat /\ tally.total + 1 \in Nat
      BY <1>0
    <3>3. /\ tally' \in Tallies /\ tally'.task = tally.task + 1
          /\ tally'.total = tally.total + 1 /\ tally'.spawns = tally.spawns
      BY <1>0, <3>1, <3>2, TallyBump
    <3> QED
      BY <1>0, <2>1, <3>1, <3>3
  <2>2. CASE ~ (board /\ taskReact < MaxTaskReact)
    BY <1>1, <2>2 DEF TaskGate
  <2> QED
    BY <2>1, <2>2
<1>2. CASE VerifyGate
  <2>1. CASE win.dirty /\ Verifiable /\ cnt.verifies < MaxVerify
    <3>1. /\ cnt' = [cnt EXCEPT !.verifies = @ + 1] /\ pc' = "look"
          /\ tally' = [tally EXCEPT !.total = @ + 1] /\ UNCHANGED <<taskReact, goal>>
      BY <1>0, <1>1, <1>2, <2>1 DEF VerifyGate
    <3>2. /\ cnt' \in Counters /\ cnt'.verifies = cnt.verifies + 1
          /\ cnt'.guard = cnt.guard /\ cnt'.resumed = cnt.resumed
      BY <1>0, <3>1 DEF Counters
    <3>3. /\ tally' \in Tallies /\ tally'.total = tally.total + 1
          /\ tally'.task = tally.task /\ tally'.spawns = tally.spawns
      BY <1>0, <3>1 DEF Tallies
    <3> QED
      BY <1>0, <2>1, <3>1, <3>2, <3>3
  <2>2. CASE ~ (win.dirty /\ Verifiable /\ cnt.verifies < MaxVerify)
    <3>1. /\ cnt' \in {cnt, [cnt EXCEPT !.marked = TRUE]}
          /\ pc' \in {"stall", "goal"} /\ UNCHANGED <<taskReact, goal, tally>>
      BY <1>2, <2>2 DEF VerifyGate, AfterVerify
    <3>2. cnt' \in Counters /\ SameGates(cnt', cnt)
      BY <1>0, <3>1 DEF Counters, SameGates
    <3> QED
      BY <3>1, <3>2, QuietStep
  <2> QED
    BY <2>1, <2>2
<1>3. CASE StallGate
  <2>1. CASE seen.stalled /\ ~ cnt.resumed
    <3>1. /\ cnt' = [cnt EXCEPT !.resumed = TRUE] /\ pc' = "look"
          /\ tally' = [tally EXCEPT !.total = @ + 1] /\ UNCHANGED <<taskReact, goal>>
      BY <1>3, <2>1 DEF StallGate
    <3>2. /\ cnt' \in Counters /\ cnt'.verifies = cnt.verifies
          /\ cnt'.guard = cnt.guard /\ cnt'.resumed
      BY <1>0, <3>1 DEF Counters
    <3>3. /\ tally' \in Tallies /\ tally'.total = tally.total + 1
          /\ tally'.task = tally.task /\ tally'.spawns = tally.spawns
      BY <1>0, <3>1 DEF Tallies
    <3> QED
      BY <1>0, <2>1, <3>1, <3>2, <3>3
  <2>2. CASE ~ (seen.stalled /\ ~ cnt.resumed)
    BY <1>3, <2>2 DEF StallGate
  <2> QED
    BY <2>1, <2>2
<1>4. CASE GoalGate
  BY <1>0, <1>4 DEF GoalGate, AfterGoal, Cleared, NoGoal, Goals
<1>5. CASE Judge
  <2>1. CASE GoalMet
    BY <1>0, <1>5, <2>1 DEF Judge, GoalMet, AfterGoal, Cleared, NoGoal, Goals
  <2>2. CASE GoalOpen /\ goal.kind = "none"
    BY <1>0, <1>5, <2>2
    DEF Judge, GoalOpen, AfterGoal, Cleared, NoGoal, GoalCap, Goals, Tallies
  <2>3. CASE GoalOpen /\ goal.kind # "none"
    BY <1>0, <1>5, <2>3
    DEF Judge, GoalOpen, AfterGoal, Cleared, NoGoal, GoalCap, Goals, Tallies
  <2> QED
    BY <1>5, <2>1, <2>2, <2>3 DEF Judge
<1>6. CASE FinishGuard
  BY <1>0, <1>6 DEF FinishGuard, Counters, Tallies
<1>7. CASE Leave
  BY <1>0, <1>7, NewRunTyped DEF Leave, Tallies
<1> QED
  BY <1>1, <1>2, <1>3, <1>4, <1>5, <1>6, <1>7 DEF Gates

(* What comes from outside keeps it.                                         *)
LEMMA TurnOutside ==
  ASSUME TurnInv, Outside
  PROVE  TurnInv'
<1>1. CASE Prompt
  <2>1. /\ taskReact' = 0 /\ tally' = [task |-> 0, spawns |-> 0, total |-> 0]
        /\ cnt' \in {cnt, NewRun}
    BY <1>1 DEF Prompt, Run
  <2>2. goal' \in Goals /\ (goal'.kind # "none" => goal'.react <= GoalCap)
    BY <1>1, CapTypes DEF Prompt, Armed, Goals, TurnInv, Typed, Capped
  <2> QED
    BY <2>1, <2>2, NewRunTyped, CapTypes
    DEF TurnInv, Typed, Capped, TaskShare, GoalShare, AtRest, Charged, Counters,
        Tallies, Goals
<1>2. CASE ClearGoal
  BY <1>2, CapTypes
  DEF ClearGoal, NoGoal, TurnInv, Typed, Capped, TaskShare, GoalShare, AtRest,
      Charged, Counters, Tallies, Goals
<1>3. CASE SubagentTurn
  <2>1. /\ taskReact' = 0 /\ UNCHANGED <<pc, cnt, goal>>
        /\ tally' = [tally EXCEPT !.spawns = @ + 1]
    BY <1>3 DEF SubagentTurn
  <2>2. tally.spawns \in Nat
    BY DEF TurnInv, Typed, Tallies
  <2>3. TaskShare'
    BY <2>1, <2>2, CapTypes, OneMore
    DEF TurnInv, Typed, Capped, TaskShare, Tallies
  <2> QED
    BY <2>1, <2>3, CapTypes
    DEF TurnInv, Typed, Capped, GoalShare, AtRest, Charged, Counters, Tallies, Goals
<1>4. CASE Send \/ Summarize
  BY <1>4, RunStep DEF Send, Summarize
<1>5. CASE Cancel
  BY <1>5, NewRunTyped, CapTypes
  DEF Cancel, Stopped, TurnInv, Typed, Capped, TaskShare, GoalShare, AtRest,
      Charged, Counters, Tallies, Goals
<1>6. CASE Crash
  BY <1>6, NewRunTyped, CapTypes
  DEF Crash, Stopped, NoGoal, TurnInv, Typed, Capped, TaskShare, GoalShare, AtRest,
      Charged, Counters, Tallies, Goals
<1> QED
  BY <1>1, <1>2, <1>3, <1>4, <1>5, <1>6 DEF Outside

(* TurnInv is an invariant.                                                  *)
THEOREM TurnInvHolds == Spec => []TurnInv
<1>1. ASSUME TurnInv, [Next]_vars PROVE TurnInv'
  <2>1. CASE Loop
    BY <1>1, <2>1, TurnModelSteps, TurnGates DEF Loop
  <2>2. CASE Outside
    BY <1>1, <2>2, TurnOutside
  <2>3. CASE UNCHANGED vars
    BY <1>1, <2>3
    DEF vars, TurnInv, Typed, Capped, TaskShare, GoalShare, AtRest, Charged
  <2> QED
    BY <1>1, <2>1, <2>2, <2>3 DEF Next
<1> QED
  BY TurnInit, <1>1, PTL DEF Spec

(* The task gate sends a turn back at most MaxTaskReact times, and as often  *)
(* again for every subagent turn that starts meanwhile.                      *)
THEOREM TaskBudgetHolds == Spec => []TaskBudget
<1>1. ASSUME TurnInv PROVE TaskBudget
  <2>1. tally.spawns \in Nat /\ tally.task \in Nat /\ taskReact \in Nat
    BY <1>1 DEF TurnInv, Typed, Tallies
  <2> QED
    BY <1>1, <2>1, CapTypes, OneMore DEF TurnInv, Capped, TaskShare, TaskBudget
<1> QED
  BY TurnInvHolds, <1>1, PTL

(* The end gates compose as a sum of their caps, for all caps.               *)
THEOREM SumOfCapsHolds == Spec => []SumOfCaps
<1>1. ASSUME TurnInv PROVE SumOfCaps
  <2>1. /\ tally.spawns \in Nat /\ tally.task \in Nat /\ tally.total \in Nat
        /\ taskReact \in Nat /\ cnt.verifies \in Nat /\ cnt.guard \in Nat
        /\ goal.react \in Nat
    BY <1>1 DEF TurnInv, Typed, Tallies, Counters, Goals
  <2>2. tally.task <= MaxTaskReact * (1 + tally.spawns)
    BY <1>1, <2>1, CapTypes, OneMore DEF TurnInv, Capped, TaskShare
  <2>3. tally.total <= Charged + GoalCap + 1
    BY <1>1, <2>1, CapTypes DEF TurnInv, Capped, GoalShare, Charged
  <2>4. MaxTaskReact * (1 + tally.spawns) \in Nat
    BY <2>1, CapTypes, OneMore
  <2> QED
    BY <1>1, <2>1, <2>2, <2>3, <2>4, CapTypes
    DEF TurnInv, Capped, Charged, SumOfCaps
<1> QED
  BY TurnInvHolds, <1>1, PTL

-----------------------------------------------------------------------------
(* From the gates on, the answer the turn ends with is fresh, or a message   *)
(* the loop has not read yet is what makes it old.                           *)
FreshInv ==
  pc \in {"tasks", "verify", "stall", "goal", "judge", "guard", "leave"} /\ door = "answer"
    => win.fresh \/ unread # "no"

(* A turn never ends on an answer older than a message the loop has read.    *)
THEOREM NoStaleStopHolds == Spec => []NoStaleStop
<1>1. Init => FreshInv
  BY DEF Init, FreshInv
<1>2. ASSUME FreshInv, [Next]_vars PROVE FreshInv'
  <2>1. CASE Look
    BY <2>1 DEF Look, LeaveOnError, Class, FreshInv
  <2>2. CASE StartCompaction \/ Compacted \/ CompactionFails \/ Overflow
    BY <2>2
    DEF StartCompaction, Compacted, CompactionFails, Overflow, LeaveOnError, FreshInv
  <2>3. CASE UseTools \/ Answer \/ Misstep \/ Fail \/ Repeat \/ ProviderOverflow
    <3>1. ASSUME NEW w, NEW c, NEW again, NEW text, Settle(w, c, again, text)
          PROVE  FreshInv'
      BY <3>1 DEF Settle, LeaveOnError, FreshInv
    <3>2. \E w, c, again, text : Settle(w, c, again, text)
      BY <2>3 DEF UseTools, Answer, Misstep, Fail, Repeat, ProviderOverflow
    <3> QED
      BY <3>1, <3>2
  <2>4. CASE Gates \/ Leave
    BY <1>2, <2>4
    DEF Gates, TaskGate, VerifyGate, StallGate, GoalGate, Judge, GoalMet, GoalOpen,
        FinishGuard, Leave, SendBack, AfterVerify, AfterGoal, FreshInv
  <2>5. CASE Outside
    BY <1>2, <2>5
    DEF Outside, Prompt, ClearGoal, SubagentTurn, Send, Summarize, Cancel, Crash,
        Stopped, Run, FreshInv
  <2>6. CASE UNCHANGED vars
    BY <1>2, <2>6 DEF vars, FreshInv
  <2> QED
    BY <1>2, <2>1, <2>2, <2>3, <2>4, <2>5, <2>6 DEF Next, Loop
<1>3. FreshInv => NoStaleStop
  BY DEF FreshInv, NoStaleStop
<1> QED
  BY <1>1, <1>2, <1>3, PTL DEF Spec

-----------------------------------------------------------------------------
(***************************************************************************)
(* Type correctness, and what is kept of the window.                       *)
(***************************************************************************)
Marks == {"no", "auto", "manual", "buried"}

Lefts == [works : Nat, overs : Nat, sums : Nat, prompts : Nat,
          spawns : Nat, mails : Nat, stops : Nat]

WindowTyped == win \in Windows /\ seen \in Seen

(* What has been edited stays edited in the window, and an assistant message *)
(* stays there: v is what w becomes by messages that bring no tools' work.   *)
Carries(v, w) ==
  /\ v \in Windows /\ v.dirty = w.dirty
  /\ w.last # "none" => v.last # "none"
  /\ w.marker = "no" => v.marker = "no"

LEMMA NudgeCarries == ASSUME NEW w \in Windows PROVE Carries(Nudge(w), w)
BY DEF Nudge, Bury, Windows, Carries

LEMMA ErrorCarries ==
  ASSUME NEW w \in Windows PROVE Carries([w EXCEPT !.err = TRUE], w)
BY DEF Windows, Carries

LEMMA CarriesOn ==
  ASSUME NEW u, NEW v, NEW w, Carries(u, v), Carries(v, w) PROVE Carries(u, w)
BY DEF Carries

LEMMA UserTurnTyped ==
  ASSUME NEW w \in Windows
  PROVE  /\ UserTurn(w) \in Windows /\ UserTurn(w).last = w.last
         /\ w.marker = "no" => UserTurn(w).marker = "no"
BY DEF UserTurn, Bury, Windows

LEMMA BoundaryTyped ==
  ASSUME NEW w \in Windows, NEW m \in Marks
  PROVE  Boundary(w, m) \in Windows
<1> DEFINE f == IF w.last = "tools" THEN 1
                ELSE IF w.last \in {"none", "summary"} THEN w.fence ELSE 0
<1>1. f \in 0..2
  BY DEF Windows
<1>2. Boundary(w, m) =
        [last |-> "none", err |-> FALSE, fresh |-> FALSE, dirty |-> FALSE, red |-> FALSE,
         progress |-> TRUE, evidence |-> TRUE, marker |-> m, fence |-> f]
  BY DEF Boundary
<1> HIDE DEF f
<1> QED
  BY <1>1, <1>2 DEF Windows, Marks, Kinds

LEMMA RebuiltTyped ==
  ASSUME NEW w \in Windows, NEW tail PROVE Rebuilt(w, tail) \in Windows
<1>1. Boundary(w, "no") \in Windows
  BY BoundaryTyped DEF Marks
<1>2. [w EXCEPT !.evidence = TRUE, !.fence = 0, !.marker = "no"] \in Windows
  <2>1. 0 \in 0..2
    OBVIOUS
  <2> QED
    BY <2>1 DEF Windows, Marks
<1> QED
  BY <1>1, <1>2 DEF Rebuilt

LEMMA ProducedCarries ==
  ASSUME WindowTyped, NEW k \in Kinds \ {"none"}, NEW e \in BOOLEAN
  PROVE  Carries(Produced(k, e), win) /\ Produced(k, e).last = k
<1> DEFINE n == unread = "no"
           f == IF win.fence = 1 THEN 2 ELSE 0
<1>1. n \in BOOLEAN /\ f \in 0..2 /\ win \in Windows
  BY DEF WindowTyped
<1>2. Produced(k, e) = [win EXCEPT !.last = k, !.err = e, !.fresh = n, !.fence = f]
  BY <1>1 DEF Produced, Windows
<1> HIDE DEF n, f
<1>3. Produced(k, e) \in Windows
  BY <1>1, <1>2 DEF Windows
<1> QED
  BY <1>1, <1>2, <1>3 DEF Windows, Kinds, Carries

(* The work of the tools: w is edited, or it is not, as the step says.       *)
LEMMA WorkedTyped ==
  ASSUME NEW w \in Windows, NEW e \in {"none", "edit", "green", "red"}
  PROVE  /\ Worked(w, e) \in Windows
         /\ Worked(w, e).last = w.last /\ Worked(w, e).marker = w.marker
         /\ unread = "prompt" => Worked(w, e).dirty = w.dirty
         /\ unread # "prompt" /\ e = "edit" => Worked(w, e).dirty
         /\ unread # "prompt" /\ e \in {"none", "red"} => Worked(w, e).dirty = w.dirty
<1>1. CASE unread = "prompt"
  BY <1>1 DEF Worked, Windows
<1>2. CASE unread # "prompt"
  <2> DEFINE p == w.progress \/ unread = "no"
             d == CASE e = "edit" -> TRUE [] e = "green" -> FALSE [] OTHER -> w.dirty
             r == CASE e = "red" -> TRUE [] e = "green" -> FALSE [] OTHER -> w.red
  <2>1. Worked(w, e) = [w EXCEPT !.evidence = TRUE, !.progress = p, !.dirty = d, !.red = r]
    BY <1>2 DEF Worked
  <2>2. p \in BOOLEAN /\ d \in BOOLEAN /\ r \in BOOLEAN
    BY DEF Windows
  <2>3. (e = "edit" => d) /\ (e \in {"none", "red"} => d = w.dirty)
    OBVIOUS
  <2> HIDE DEF p, d, r
  <2>4. Worked(w, e) \in Windows
    BY <2>1, <2>2 DEF Windows
  <2>5. /\ Worked(w, e).last = w.last /\ Worked(w, e).marker = w.marker
        /\ Worked(w, e).dirty = d
    BY <2>1 DEF Windows
  <2> QED
    BY <1>2, <2>3, <2>4, <2>5
<1> QED
  BY <1>1, <1>2

LEMMA ReadTyped ==
  ASSUME NEW w \in Windows
  PROVE  Read(w) \in Seen /\ (Read(w).prior <=> w.last # "none") /\ Read(w).marker = w.marker
<1> DEFINE answered == w.last \in {"answer", "echo"}
           p == w.last # "none"
           s == answered /\ w.fence = 2
           k == w.last \notin {"none", "summary"} /\ (answered => w.err)
<1>1. p \in BOOLEAN /\ Bad(w) \in BOOLEAN /\ s \in BOOLEAN /\ k \in BOOLEAN
  BY DEF Bad
<1>2. Read(w) = [prior |-> p, bad |-> Bad(w), stalled |-> s, check |-> k, marker |-> w.marker]
  BY DEF Read
<1>3. w.marker \in Marks
  BY DEF Windows, Marks
<1>4. p <=> w.last # "none"
  OBVIOUS
<1> HIDE DEF p, s, k
<1>5. Read(w) \in Seen
  BY <1>1, <1>2, <1>3 DEF Seen, Marks
<1> QED
  BY <1>2, <1>4, <1>5

(* A repair keeps the window but for an error or a nudge.                    *)
LEMMA MendCarries ==
  ASSUME NEW w \in Windows, NEW c, NEW r \in Mend(w, c)
  PROVE  Carries(r.win, w)
<1> DEFINE e == [w EXCEPT !.err = TRUE]
<1>1. r.win \in {Nudge(w), e, Nudge(e)}
  <2>1. CASE w.last = "cut"
    BY <2>1 DEF Mend, OnCut, Again, GiveUp
  <2>2. CASE w.last # "cut" /\ w.last = "prose"
    BY <2>2 DEF Mend, OnProse, Again, GiveUp
  <2>3. CASE w.last # "cut" /\ w.last # "prose"
    <3>1. PICK p \in BOOLEAN : r = OnThink(w, c, p)
      BY <2>3 DEF Mend
    <3> QED
      BY <3>1 DEF OnThink, Again, GiveUp
  <2> QED
    BY <2>1, <2>2, <2>3
<1>2. Carries(e, w) /\ Carries(Nudge(w), w) /\ Carries(Nudge(e), e)
  BY ErrorCarries, NudgeCarries DEF Carries
<1> HIDE DEF e
<1>3. Carries(Nudge(e), w)
  BY <1>2, CarriesOn
<1> QED
  BY <1>1, <1>2, <1>3

LEMMA MendAgain == ASSUME NEW w, NEW c, NEW r \in Mend(w, c) PROVE r.again \in BOOLEAN
<1>1. \/ r = OnCut(w, c) \/ r = OnProse(w, c) \/ \E p \in BOOLEAN : r = OnThink(w, c, p)
  BY DEF Mend
<1>2. CASE r = OnCut(w, c)
  BY <1>2 DEF OnCut, Again, GiveUp
<1>3. CASE r = OnProse(w, c)
  BY <1>3 DEF OnProse, Again, GiveUp
<1>4. CASE \E p \in BOOLEAN : r = OnThink(w, c, p)
  BY <1>4 DEF OnThink, Again, GiveUp
<1> QED
  BY <1>1, <1>2, <1>3, <1>4

(* What TypeOK asks for beyond the counters.                                 *)
Shape ==
  /\ pc \in PCs
  /\ door \in {"none", "answer", "break", "error"}
  /\ unread \in {"no", "note", "prompt"}
  /\ mail \in Nat
  /\ WindowTyped
  /\ asked \in Asked
  /\ board \in BOOLEAN /\ owed \in BOOLEAN /\ stamp \in BOOLEAN
  /\ left \in Lefts

Bounds == {"works", "overs", "sums", "prompts", "spawns", "mails", "stops"}

LEMMA SpendTyped ==
  ASSUME left \in Lefts, NEW what \in Bounds, Spend(what) PROVE left' \in Lefts
<1>1. ASSUME NEW n \in Nat, n > 0 PROVE n - 1 \in Nat
  BY <1>1
<1>2. left[what] - 1 \in Nat
  BY <1>1 DEF Spend, Lefts, Bounds
<1> DEFINE n == left[what] - 1
<1>3. left' = [left EXCEPT ![what] = n]
  BY DEF Spend
<1> HIDE DEF n
<1>4. n \in Nat
  BY <1>2 DEF n
<1> QED
  BY <1>3, <1>4 DEF Lefts, Bounds

LEMMA NotAskedTyped == NotAsked \in Asked
<1>1. FALSE \in BOOLEAN /\ 0 \in Nat
  OBVIOUS
<1> QED
  BY <1>1 DEF NotAsked, Asked

LEMMA UnseenTyped == Unseen \in Seen
BY DEF Unseen, Seen

(* The end of a model step with window w.                                    *)
LEMMA SettleShape ==
  ASSUME Shape, NEW w \in Windows, NEW c, NEW again \in BOOLEAN, NEW text,
         Settle(w, c, again, text)
  PROVE  /\ Carries(win', w)
         /\ pc' \in {"look", "tasks", "leave"}
         /\ door' \in {door, "break", "error"}
         /\ pc' = "tasks" => seen' = seen
         /\ seen' \in {Unseen, seen}
         /\ pc' = "leave" => door' = "error"
         /\ stamp' = FALSE
         /\ UNCHANGED <<unread, mail, asked>>
<1>1. win' \in {w, Nudge(w)}
  BY DEF Settle
<1>2. Carries(w, w)
  BY DEF Carries
<1> QED
  BY <1>1, <1>2, NudgeCarries DEF Settle, LeaveOnError, Kept

LEMMA ShapeInit == Init => Shape
<1> SUFFICES ASSUME Init PROVE Shape
  OBVIOUS
<1>1. win \in Windows
  BY DEF Init, Windows, Kinds
<1>2. left \in Lefts
  BY CapsAssumption DEF Init, Lefts
<1> QED
  BY <1>1, <1>2, UnseenTyped DEF Init, Shape, PCs, WindowTyped, NotAsked, Asked

LEMMA ShapeModelSteps ==
  ASSUME Shape,
         \/ Look \/ StartCompaction \/ Compacted \/ CompactionFails \/ Overflow
         \/ UseTools \/ Answer \/ Misstep \/ Fail \/ Repeat \/ ProviderOverflow
  PROVE  Shape'
<1>w. win \in Windows /\ seen \in Seen /\ left \in Lefts
  BY DEF Shape, WindowTyped
(* It is enough to look at the window, and at what is kept of it.            *)
<1>s. ASSUME pc' \in PCs, door' \in {door, "answer", "break", "error"},
             unread' \in {"no", unread}, mail' \in {0, mail}, win' \in Windows,
             seen' \in Seen, board' \in BOOLEAN, owed' \in BOOLEAN, stamp' \in {stamp, FALSE},
             asked' = asked, left' \in Lefts
      PROVE  Shape'
  <2>1. mail' \in Nat
    BY <1>s DEF Shape
  <2>2. stamp' \in BOOLEAN /\ WindowTyped' /\ asked' \in Asked
    BY <1>s DEF Shape, WindowTyped
  <2>3. door' \in {"none", "answer", "break", "error"} /\ unread' \in {"no", "note", "prompt"}
    BY <1>s DEF Shape
  <2> QED
    BY <1>s, <2>1, <2>2, <2>3 DEF Shape
<1>1. CASE Look
  <2> DEFINE w == IF mail > 0 THEN Nudge(win) ELSE win
  <2>1. w \in Windows
    BY <1>w, NudgeCarries DEF Carries
  <2>2. [w EXCEPT !.err = TRUE] \in Windows
    BY <2>1, ErrorCarries DEF Carries
  <2>3. win' \in Windows
    <3>1. CASE Class(w) \in {"cut", "prose", "think"}
      <4>1. PICK r \in Mend(w, cnt) : win' = r.win
        BY <1>1, <3>1 DEF Look
      <4> HIDE DEF w
      <4> QED
        BY <4>1, <2>1, MendCarries DEF Carries
    <3>2. CASE Class(w) \notin {"cut", "prose", "think"}
      BY <1>1, <2>1, <2>2, <3>2 DEF Look
    <3> QED
      BY <3>1, <3>2
  <2>4. seen' \in {Unseen, Read(w)}
    BY <1>1 DEF Look
  <2>5. seen' \in Seen
    <3> HIDE DEF w
    <3> QED
      BY <2>1, <2>4, UnseenTyped, ReadTyped
  <2>6. pc' \in PCs /\ door' \in {door, "answer", "error"}
    BY <1>1 DEF Look, LeaveOnError, PCs
  <2>7. unread' = "no" /\ mail' = 0 /\ UNCHANGED <<asked, board, owed, stamp, left>>
    BY <1>1 DEF Look
  <2> QED
    BY <1>s, <2>3, <2>5, <2>6, <2>7 DEF Shape
<1>2. CASE StartCompaction
  BY <1>2, <1>s, <1>w DEF StartCompaction, PCs, Shape
<1>3. CASE Compacted
  <2> DEFINE f == pc = "compactManual" /\ unread = "no"
             p == IF pc = "compactAuto" THEN FALSE ELSE win.progress
  <2>1. f \in BOOLEAN /\ p \in BOOLEAN
    BY <1>w DEF Windows
  <2>2. win' = [win EXCEPT !.last = "summary", !.err = FALSE, !.marker = "no",
                           !.fresh = f, !.progress = p]
    BY <1>3 DEF Compacted
  <2> HIDE DEF f, p
  <2>3. win' \in Windows
    BY <1>w, <2>1, <2>2 DEF Windows, Kinds
  <2> QED
    BY <1>3, <1>s, <1>w, <2>3, UnseenTyped DEF Compacted, Kept, PCs, Shape
<1>4. CASE CompactionFails
  <2> DEFINE f == unread = "no"
             v == [win EXCEPT !.last = "summary", !.err = TRUE, !.fresh = f]
  <2>1. f \in BOOLEAN
    OBVIOUS
  <2>2. win' \in {Boundary(win, "no"), v}
    BY <1>4 DEF CompactionFails
  <2> HIDE DEF f
  <2>3. v \in Windows
    BY <1>w, <2>1 DEF Windows, Kinds
  <2> HIDE DEF v
  <2>4. win' \in Windows
    BY <1>w, <2>2, <2>3, BoundaryTyped DEF Marks
  <2> QED
    BY <1>4, <1>s, <1>w, <2>4, UnseenTyped DEF CompactionFails, LeaveOnError, Kept, PCs, Shape
<1>5. CASE Overflow
  <2>1. win' \in Windows
    BY <1>5, <1>w, BoundaryTyped, RebuiltTyped DEF Overflow, Marks
  <2>2. left' \in Lefts
    BY <1>5, <1>w, SpendTyped DEF Overflow, Bounds
  <2> QED
    BY <1>5, <1>s, <1>w, <2>1, <2>2, UnseenTyped DEF Overflow, Kept, PCs, Shape
(* The steps of the model.                                                   *)
<1>6. ASSUME NEW w \in Windows, NEW c, NEW again \in BOOLEAN, NEW text,
             Settle(w, c, again, text),
             board' \in BOOLEAN, owed' \in BOOLEAN, left' \in Lefts
      PROVE  Shape'
  <2>1. /\ win' \in Windows /\ pc' \in {"look", "tasks", "leave"}
        /\ door' \in {door, "break", "error"} /\ seen' \in {Unseen, seen}
        /\ stamp' = FALSE /\ UNCHANGED <<unread, mail, asked>>
    BY <1>6, SettleShape DEF Carries
  <2> QED
    BY <1>6, <1>s, <1>w, <2>1, UnseenTyped DEF PCs
<1>7. CASE UseTools
  <2>1. PICK e \in {"none", "edit", "green", "red"}, text \in BOOLEAN, refused \in BOOLEAN :
          /\ Settle(Worked(Produced(IF refused THEN "open" ELSE "tools", FALSE), e),
                    Rearm(cnt), ~ refused, text)
          /\ owed' \in BOOLEAN
    BY <1>7 DEF UseTools, Shape
  <2> DEFINE k == IF refused THEN "open" ELSE "tools"
  <2>2. k \in Kinds \ {"none"}
    BY DEF Kinds
  <2> HIDE DEF k
  <2>3. Produced(k, FALSE) \in Windows
    BY <2>2, ProducedCarries DEF Shape, Carries
  <2>4. Worked(Produced(k, FALSE), e) \in Windows
    BY <2>3, WorkedTyped
  <2>5. Settle(Worked(Produced(k, FALSE), e), Rearm(cnt), ~ refused, text)
    BY <2>1 DEF k
  <2>6. left' \in Lefts
    BY <1>7, <1>w, SpendTyped DEF UseTools, Bounds
  <2> QED
    BY <1>6, <1>7, <2>1, <2>4, <2>5, <2>6 DEF UseTools, Shape
<1>p. \A k \in Kinds \ {"none"}, e \in BOOLEAN : Produced(k, e) \in Windows
  BY ProducedCarries DEF Shape, Carries
<1>8. CASE Answer
  <2>1. PICK k \in {"answer", "echo"} :
          Settle(Produced(k, FALSE), Rearm(cnt), TRUE, TRUE)
    BY <1>8, Zenon DEF Answer
  <2>2. Produced(k, FALSE) \in Windows
    BY <1>p DEF Kinds
  <2> QED
    BY <1>6, <1>8, <1>w, <2>1, <2>2 DEF Answer, Shape
<1>9. CASE Misstep
  <2>1. PICK k \in {"cut", "prose", "think"} : \E r \in Mend(Produced(k, FALSE), cnt) :
          Settle(r.win, r.cnt, r.again, k # "think")
    BY <1>9 DEF Misstep
  <2>2. PICK r \in Mend(Produced(k, FALSE), cnt) :
          Settle(r.win, r.cnt, r.again, k # "think")
    BY <2>1
  <2>3. r.win \in Windows
    <3>1. Produced(k, FALSE) \in Windows
      BY <1>p DEF Kinds
    <3> QED
      BY <3>1, MendCarries DEF Carries
  <2>4. r.again \in BOOLEAN
    BY MendAgain
  <2> QED
    BY <1>6, <1>9, <1>w, <2>2, <2>3, <2>4 DEF Misstep, Shape
<1>10. CASE Fail
  <2>1. Produced("failed", TRUE) \in Windows
    BY <1>p DEF Kinds
  <2> QED
    BY <1>6, <1>10, <1>w, <2>1 DEF Fail, Shape
<1>11. CASE Repeat
  <2>1. Produced("open", FALSE) \in Windows
    BY <1>p DEF Kinds
  <2>2. Nudge(Produced("open", FALSE)) \in Windows
    BY <2>1, NudgeCarries DEF Carries
  <2> QED
    BY <1>6, <1>11, <1>w, <2>1, <2>2 DEF Repeat, Shape
<1>12. CASE ProviderOverflow
  <2>1. PICK k \in {"open", "answer"} :
          \E v \in {Rebuilt(Produced(k, FALSE), tail) : tail \in BOOLEAN}
                     \cup {Boundary(Produced(k, FALSE), "auto")},
             text \in BOOLEAN, c \in {cnt, Rearm(cnt)} :
            Settle(v, c, TRUE, text)
    BY <1>12 DEF ProviderOverflow
  <2>2. PICK v \in {Rebuilt(Produced(k, FALSE), tail) : tail \in BOOLEAN}
                     \cup {Boundary(Produced(k, FALSE), "auto")},
             text \in BOOLEAN, c \in {cnt, Rearm(cnt)} :
            Settle(v, c, TRUE, text)
    BY <2>1
  <2>3. v \in Windows
    <3>1. Produced(k, FALSE) \in Windows
      BY <1>p DEF Kinds
    <3> QED
      BY <3>1, BoundaryTyped, RebuiltTyped DEF Marks
  <2>4. left' \in Lefts
    <3>1. ASSUME left.overs > 0 PROVE left.overs - 1 \in Nat
      BY <1>w, <3>1 DEF Lefts
    <3> QED
      BY <1>12, <1>w, <3>1 DEF ProviderOverflow, Lefts
  <2> QED
    BY <1>6, <1>12, <2>2, <2>3, <2>4 DEF ProviderOverflow, Shape
<1> QED
  BY <1>1, <1>2, <1>3, <1>4, <1>5, <1>7, <1>8, <1>9, <1>10, <1>11, <1>12

LEMMA ShapeGates ==
  ASSUME Shape, goal \in Goals, Gates \/ Leave
  PROVE  Shape'
<1>w. win \in Windows /\ Nudge(win) \in Windows /\ seen \in Seen
  BY NudgeCarries DEF Shape, WindowTyped, Carries
<1>1. /\ pc' \in {"look", "verify", "stall", "goal", "judge", "guard", "leave", "idle"}
      /\ door' \in {door, "none"}
      /\ win' \in {win, Nudge(win)}
      /\ UNCHANGED <<unread, mail, board, owed, left>>
  BY DEF Gates, TaskGate, VerifyGate, StallGate, GoalGate, Judge, GoalMet, GoalOpen, FinishGuard,
         Leave, SendBack, AfterVerify, AfterGoal
<1>2. seen' \in {Unseen, seen}
  BY DEF Gates, TaskGate, VerifyGate, StallGate, GoalGate, Judge, FinishGuard, Leave, Kept
<1>3. stamp' \in BOOLEAN
  BY DEF Shape, Gates, TaskGate, VerifyGate, StallGate, GoalGate, Judge, FinishGuard, Leave
<1>4. asked' \in Asked
  <2>1. CASE GoalGate
    <3> DEFINE a == goal.kind = "auto"
    <3>1. a \in BOOLEAN /\ Bad(win) \in BOOLEAN /\ win.progress \in BOOLEAN
      BY <1>w DEF Windows, Bad
    <3>2. asked' \in {asked, [id |-> goal.id, auto |-> a, bad |-> Bad(win),
                             progress |-> win.progress]}
      BY <2>1 DEF GoalGate
    <3> HIDE DEF a
    <3>3. goal.id \in Nat
      BY DEF Goals
    <3> QED
      BY <3>1, <3>2, <3>3 DEF Shape, Asked
  <2>2. CASE ~ GoalGate
    <3>1. asked' \in {asked, NotAsked}
      BY <2>2 DEF Gates, TaskGate, VerifyGate, StallGate, Judge, FinishGuard, Leave
    <3> QED
      BY <3>1, NotAskedTyped DEF Shape
  <2> QED
    BY <2>1, <2>2
<1>5. win' \in Windows /\ seen' \in Seen
  BY <1>w, <1>1, <1>2, UnseenTyped
<1> QED
  BY <1>1, <1>3, <1>4, <1>5 DEF Shape, WindowTyped, PCs

LEMMA ShapeOutside ==
  ASSUME Shape, Outside
  PROVE  Shape'
<1>w. win \in Windows /\ seen \in Seen /\ left \in Lefts
  BY DEF Shape, WindowTyped
<1>1. left' \in Lefts
  BY <1>w, SpendTyped
  DEF Outside, Prompt, ClearGoal, SubagentTurn, Send, Summarize, Cancel, Crash, Bounds
<1>p. \A k \in Kinds \ {"none"}, e \in BOOLEAN : Produced(k, e) \in Windows
  BY ProducedCarries DEF Shape, Carries
<1>2. win' \in Windows
  <2>1. CASE Cancel
    <3>1. win' \in {win, Produced("failed", TRUE)}
      BY <2>1 DEF Cancel, Stopped
    <3> QED
      BY <1>p, <1>w, <3>1 DEF Kinds
  <2>2. CASE Crash
    <3>1. win' \in {win} \cup {Produced(k, FALSE) : k \in {"open", "answer", "prose", "cut",
                                                      "think", "failed"}}
      BY <2>2 DEF Crash, Stopped
    <3> QED
      BY <1>p, <1>w, <3>1 DEF Kinds
  <2>3. CASE Prompt \/ ClearGoal \/ SubagentTurn \/ Send
    BY <1>w, <2>3, NudgeCarries, UserTurnTyped DEF Prompt, ClearGoal, SubagentTurn, Send, Carries
  <2>4. CASE Summarize
    BY <1>w, <2>4, BoundaryTyped DEF Summarize, Marks
  <2> QED
    BY <2>1, <2>2, <2>3, <2>4 DEF Outside
<1>3. seen' \in {Unseen, seen} /\ pc' \in {pc, "look", "idle"} /\ door' \in {door, "none"}
  BY DEF Outside, Prompt, ClearGoal, SubagentTurn, Send, Summarize, Cancel, Crash, Stopped, Run
<1>4. unread' \in {"no", "note", "prompt"} /\ mail' \in Nat
  <2>1. mail + 1 \in Nat
    BY DEF Shape
  <2> QED
    BY <2>1 DEF Shape, Outside, Prompt, ClearGoal, SubagentTurn, Send, Summarize, Cancel, Crash,
                Stopped
<1>5. asked' \in {asked, NotAsked} /\ board' \in BOOLEAN
  BY DEF Shape, Outside, Prompt, ClearGoal, SubagentTurn, Send, Summarize, Cancel, Crash, Stopped
<1>6. owed' \in BOOLEAN /\ stamp' \in BOOLEAN
  <2>1. CASE Cancel \/ Crash
    BY <2>1 DEF Shape, Cancel, Crash, Stopped
  <2>2. CASE ~ (Cancel \/ Crash)
    BY <2>2 DEF Shape, Outside, Prompt, ClearGoal, SubagentTurn, Send, Summarize
  <2> QED
    BY <2>1, <2>2
<1>7. asked' \in Asked
  BY <1>5, NotAskedTyped DEF Shape
<1>8. seen' \in Seen
  BY <1>3, <1>w, UnseenTyped
<1> QED
  BY <1>1, <1>2, <1>3, <1>4, <1>5, <1>6, <1>7, <1>8 DEF Shape, WindowTyped, PCs

LEMMA ShapeHolds == Spec => []Shape
<1>1. ASSUME Shape, TurnInv, [Next]_vars PROVE Shape'
  <2>1. CASE UNCHANGED vars
    BY <1>1, <2>1 DEF vars, Shape, WindowTyped
  <2> QED
    BY <1>1, <2>1, ShapeModelSteps, ShapeGates, ShapeOutside
    DEF Next, Loop, TurnInv, Typed
<1> QED
  BY <1>1, ShapeInit, TurnInvHolds, PTL DEF Spec

(* Type correctness of the loop and of what reaches it from outside.         *)
THEOREM TurnTypes == Spec => []TypeOK
<1>1. Shape /\ TurnInv => TypeOK
  BY DEF Shape, TurnInv, Typed, TypeOK, WindowTyped, Lefts, Tallies
<1> QED
  BY <1>1, ShapeHolds, TurnInvHolds, PTL

-----------------------------------------------------------------------------
(***************************************************************************)
(* The verify gate, as long as nothing hides the edits from it: no context *)
(* boundary in the turn.  An edit that is owed is then visible in the      *)
(* window, and once the gate is at its cap the iteration has read an       *)
(* assistant message to stamp.                                             *)
(***************************************************************************)
NoBoundaries ==
  Overflows = 0 /\ Summaries = 0 /\ ~ EndlessOverflow /\ MaxVerify > 0

AtGates == pc \in {"tasks", "verify", "stall", "goal", "judge", "guard"}

Unbounded ==
  /\ left.overs = 0 /\ left.sums = 0
  /\ win.marker = "no" /\ seen.marker = "no"
  /\ pc \notin {"compactAuto", "compactManual"}

Visible ==
  /\ owed => win.dirty
  /\ AtGates \/ cnt.verifies # 0 => win.last # "none"
  /\ cnt.verifies # 0 /\ (AtGates \/ pc = "call") => seen.prior

Honest ==
  pc \in {"stall", "goal", "judge", "guard", "leave"} /\ door # "error" /\ owed /\ Verifiable
    => cnt.marked

HonestInv == Unbounded /\ Visible /\ Honest

LEMMA HonestInit == NoBoundaries /\ Init => HonestInv
BY DEF NoBoundaries, Init, HonestInv, Unbounded, Visible, Honest, AtGates, Unseen, NewRun

(* A step that leaves the loop at the top of an iteration or out of it.      *)
LEMMA HonestRests ==
  ASSUME HonestInv, pc' \in {"look", "idle"} \/ (pc' = "leave" /\ door' = "error"),
         Carries(win', win), seen' \in {Unseen, seen}, owed' = owed,
         cnt'.verifies = 0 \/ win.last # "none",
         left'.overs = left.overs, left'.sums = left.sums
  PROVE  HonestInv'
BY DEF HonestInv, Unbounded, Visible, Honest, AtGates, Unseen, Carries

LEMMA HonestLook ==
  ASSUME HonestInv, Shape, cnt \in Counters, Look
  PROVE  HonestInv'
<1> DEFINE w == IF mail > 0 THEN Nudge(win) ELSE win
<1>1. w \in Windows /\ Carries(w, win)
  <2>1. win \in Windows /\ Carries(win, win)
    BY DEF Shape, WindowTyped, Carries
  <2>2. CASE mail > 0
    BY <2>1, <2>2, NudgeCarries DEF Carries
  <2>3. CASE ~ (mail > 0)
    BY <2>1, <2>3
  <2> QED
    BY <2>2, <2>3
<1>2. /\ pc' \in {"look", "call", "tasks"} \/ (pc' = "leave" /\ door' = "error")
      /\ pc' = "tasks" => w.last # "none"
      /\ pc' \in {"call", "tasks"} => seen' = Read(w)
      /\ seen' \in {Unseen, Read(w)} /\ owed' = owed /\ left' = left
  BY DEF Look, LeaveOnError, Class
<1>3. Carries(win', w) /\ SameGates(cnt', cnt)
  <2>1. CASE Class(w) \in {"cut", "prose", "think"}
    <3>1. PICK r \in Mend(w, cnt) : win' = r.win /\ cnt' = r.cnt
      BY <2>1 DEF Look
    <3> HIDE DEF w
    <3> QED
      BY <3>1, <1>1, MendCarries, MendSpends
  <2>2. CASE Class(w) \notin {"cut", "prose", "think"}
    <3>1. win' \in {w, [w EXCEPT !.err = TRUE]} /\ cnt' \in {cnt, Rearm(cnt)}
      BY <2>2 DEF Look
    <3> HIDE DEF w
    <3>2. Carries(w, w)
      BY <1>1 DEF Carries
    <3> QED
      BY <3>1, <3>2, <1>1, ErrorCarries, RearmSpends DEF SameGates
  <2> QED
    BY <2>1, <2>2
<1> HIDE DEF w
<1>4. /\ (Read(w).prior <=> w.last # "none") /\ Read(w).marker = w.marker
  BY <1>1, ReadTyped
<1>5. Unseen.marker = "no"
  BY DEF Unseen
<1>6. /\ win'.dirty = win.dirty /\ (win.last # "none" => w.last # "none" /\ win'.last # "none")
      /\ (w.last # "none" => win'.last # "none")
      /\ (win.marker = "no" => w.marker = "no" /\ win'.marker = "no")
      /\ cnt'.verifies = cnt.verifies
  BY <1>1, <1>3 DEF Carries, SameGates
<1>7. Unbounded'
  BY <1>2, <1>4, <1>5, <1>6 DEF HonestInv, Unbounded
<1>8. Visible'
  BY <1>2, <1>4, <1>6 DEF HonestInv, Visible, AtGates
<1>9. Honest'
  BY <1>2 DEF Honest
<1> QED
  BY <1>7, <1>8, <1>9 DEF HonestInv

(* The end of a model step whose window shows the edits that are owed.       *)
LEMMA HonestSettle ==
  ASSUME HonestInv, Shape, pc = "call",
         NEW w \in Windows, w.marker = "no", w.last # "none", owed' => w.dirty,
         NEW c \in Counters, SameGates(c, cnt),
         NEW again \in BOOLEAN, NEW text, Settle(w, c, again, text),
         left'.overs = 0, left'.sums = 0
  PROVE  HonestInv'
<1>1. /\ Carries(win', w)
      /\ pc' \in {"look", "tasks", "leave"}
      /\ pc' = "tasks" => seen' = seen
      /\ seen' \in {Unseen, seen}
      /\ pc' = "leave" => door' = "error"
  BY SettleShape
<1>2. cnt'.verifies = cnt.verifies
  BY SettleSpends DEF SameGates
<1>3. Unbounded'
  BY <1>1 DEF HonestInv, Unbounded, Unseen, Carries
<1>4. Visible'
  BY <1>1, <1>2 DEF HonestInv, Visible, AtGates, Carries
<1>5. Honest'
  BY <1>1 DEF Honest
<1> QED
  BY <1>3, <1>4, <1>5 DEF HonestInv

LEMMA HonestModelSteps ==
  ASSUME NoBoundaries, HonestInv, Shape, cnt \in Counters,
         \/ StartCompaction \/ Compacted \/ CompactionFails \/ Overflow
         \/ UseTools \/ Answer \/ Misstep \/ Fail \/ Repeat \/ ProviderOverflow
  PROVE  HonestInv'
<1>0. left \in Lefts /\ left.overs = 0 /\ left.sums = 0
  BY DEF Shape, HonestInv, Unbounded
<1>1. ~ (StartCompaction \/ Compacted \/ CompactionFails \/ Overflow \/ ProviderOverflow)
  <2>1. ~ (StartCompaction \/ Compacted \/ CompactionFails)
    BY DEF StartCompaction, ToCompact, Compacted, CompactionFails, HonestInv, Unbounded
  <2>2. ~ Overflow
    BY <1>0 DEF Overflow, Spend
  <2>3. ~ ProviderOverflow
    <3>1. ~ (left.overs > 0)
      BY <1>0
    <3> QED
      BY <3>1, Zenon DEF ProviderOverflow, NoBoundaries
  <2> QED
    BY <2>1, <2>2, <2>3
<1>2. pc = "call"
  BY <1>1 DEF UseTools, Answer, Misstep, Fail, Repeat, ToCall
<1>3. ASSUME NEW k \in Kinds \ {"none"}, NEW e \in BOOLEAN
      PROVE  /\ Carries(Produced(k, e), win) /\ Produced(k, e) \in Windows
             /\ Produced(k, e).last # "none" /\ Produced(k, e).marker = "no"
             /\ Produced(k, e).dirty = win.dirty
  BY <1>3, ProducedCarries DEF Shape, Carries, HonestInv, Unbounded
(* Steps without tools.                                                      *)
<1>4. ASSUME NEW k \in Kinds \ {"none"}, NEW e \in BOOLEAN,
             NEW v, Carries(v, Produced(k, e)),
             NEW c \in Counters, SameGates(c, cnt),
             NEW again \in BOOLEAN, NEW text, Settle(v, c, again, text),
             owed' = owed, left' = left
      PROVE  HonestInv'
  <2>1. v \in Windows /\ v.marker = "no" /\ v.last # "none" /\ (owed' => v.dirty)
    BY <1>3, <1>4 DEF Carries, HonestInv, Visible
  <2> QED
    BY <1>0, <1>2, <1>4, <2>1, HonestSettle
<1>c. \A k \in Kinds \ {"none"}, e \in BOOLEAN : Carries(Produced(k, e), Produced(k, e))
  BY <1>3 DEF Carries
<1>r. Rearm(cnt) \in Counters /\ SameGates(Rearm(cnt), cnt) /\ SameGates(cnt, cnt)
  BY RearmSpends DEF SameGates
<1>5. CASE UseTools
  <2>1. PICK e \in {"none", "edit", "green", "red"}, text \in BOOLEAN, refused \in BOOLEAN :
          /\ Settle(Worked(Produced(IF refused THEN "open" ELSE "tools", FALSE), e),
                    Rearm(cnt), ~ refused, text)
          /\ unread = "prompt" => owed' = owed
          /\ unread # "prompt" /\ e = "green" => ~ owed'
          /\ unread # "prompt" /\ e \in {"none", "red"} => (owed' <=> owed)
    <3>1. PICK e \in {"none", "edit", "green", "red"}, text \in BOOLEAN, refused \in BOOLEAN :
            /\ Settle(Worked(Produced(IF refused THEN "open" ELSE "tools", FALSE), e),
                      Rearm(cnt), ~ refused, text)
            /\ owed' = IF unread = "prompt" THEN owed
                       ELSE e = "edit" \/ (owed /\ e # "green")
      BY <1>5 DEF UseTools
    <3> QED
      BY <3>1
  <2> DEFINE k == IF refused THEN "open" ELSE "tools"
             v == Worked(Produced(k, FALSE), e)
  <2>2. k \in Kinds \ {"none"} /\ FALSE \in BOOLEAN
    BY DEF Kinds
  <2>3. Settle(v, Rearm(cnt), ~ refused, text)
    BY <2>1
  <2> HIDE DEF k
  <2>p. /\ Produced(k, FALSE) \in Windows /\ Produced(k, FALSE).last # "none"
        /\ Produced(k, FALSE).marker = "no" /\ Produced(k, FALSE).dirty = win.dirty
    BY <1>3, <2>2
  <2>4. v \in Windows /\ v.marker = "no" /\ v.last # "none"
    BY <2>p, WorkedTyped
  <2>5. owed' => v.dirty
    BY <2>p, <2>1, WorkedTyped DEF HonestInv, Visible
  <2>6. left'.overs = 0 /\ left'.sums = 0
    BY <1>0, <1>5 DEF UseTools, Spend, Lefts
  <2> HIDE DEF v
  <2> QED
    BY <1>2, <1>r, <2>3, <2>4, <2>5, <2>6, HonestSettle
<1>6. CASE Answer
  <2>1. PICK k \in {"answer", "echo"} :
          Settle(Produced(k, FALSE), Rearm(cnt), TRUE, TRUE)
    BY <1>6, Zenon DEF Answer
  <2>2. k \in Kinds \ {"none"}
    BY DEF Kinds
  <2> QED
    BY <1>4, <1>6, <1>c, <1>r, <2>1, <2>2 DEF Answer
<1>7. CASE Misstep
  <2>1. PICK k \in {"cut", "prose", "think"} : \E r \in Mend(Produced(k, FALSE), cnt) :
          Settle(r.win, r.cnt, r.again, k # "think")
    BY <1>7 DEF Misstep
  <2>2. PICK r \in Mend(Produced(k, FALSE), cnt) :
          Settle(r.win, r.cnt, r.again, k # "think")
    BY <2>1
  <2>3. k \in Kinds \ {"none"}
    BY DEF Kinds
  <2>4. Carries(r.win, Produced(k, FALSE)) /\ r.again \in BOOLEAN
    BY <1>3, <2>3, MendCarries, MendAgain
  <2>5. r.cnt \in Counters /\ SameGates(r.cnt, cnt)
    BY MendSpends
  <2> QED
    BY <1>4, <1>7, <2>2, <2>3, <2>4, <2>5 DEF Misstep
<1>8. CASE Fail
  <2>1. "failed" \in Kinds \ {"none"}
    BY DEF Kinds
  <2> QED
    BY <1>4, <1>8, <1>c, <1>r, <2>1 DEF Fail
<1>9. CASE Repeat
  <2> DEFINE w == Produced("open", FALSE)
             d == [cnt EXCEPT !.ngram = @ + 1]
  <2>1. Settle(Nudge(w), d, TRUE, TRUE) \/ Settle(w, cnt, FALSE, TRUE)
    BY <1>9 DEF Repeat
  <2>2. d \in Counters /\ SameGates(d, cnt)
    BY DEF Counters, SameGates
  <2>3. "open" \in Kinds \ {"none"}
    BY DEF Kinds
  <2>4. Carries(Nudge(w), w) /\ Carries(w, w)
    BY <1>3, <1>c, <2>3, NudgeCarries
  <2> HIDE DEF d
  <2> QED
    BY <1>4, <1>9, <1>r, <2>1, <2>2, <2>3, <2>4 DEF Repeat
<1> QED
  BY <1>1, <1>5, <1>6, <1>7, <1>8, <1>9

(* Once the gate has let a stop pass with unverified edits it has stamped    *)
(* the marker.                                                               *)
LEMMA HonestGates ==
  ASSUME NoBoundaries, HonestInv, Shape, cnt \in Counters, Gates \/ Leave
  PROVE  HonestInv'
<1>w. win \in Windows /\ Carries(Nudge(win), win) /\ Carries(win, win)
  BY NudgeCarries DEF Shape, WindowTyped, Carries
<1>l. AtGates => win.last # "none"
  BY DEF HonestInv, Visible
(* The model is sent back to work, or the run is over.                       *)
<1>1. ASSUME AtGates, SendBack, seen' \in {Unseen, seen}, UNCHANGED <<owed, left>>
      PROVE  HonestInv'
  BY <1>1, <1>w, <1>l, HonestRests DEF SendBack
<1>2. CASE Leave
  BY <1>2, <1>w, HonestRests DEF Leave, Kept, NewRun
(* The turn passes on to the next gate.                                      *)
<1>3. ASSUME AtGates, pc' \in {"verify", "stall", "goal", "judge", "guard", "leave"},
             UNCHANGED <<door, win, seen, owed, left>>, cnt'.verifies = cnt.verifies,
             pc' # "verify" /\ door # "error" /\ owed /\ Verifiable => cnt'.marked
      PROVE  HonestInv'
  BY <1>3 DEF HonestInv, Unbounded, Visible, Honest, AtGates
<1>4. CASE TaskGate
  <2>1. CASE board /\ taskReact < MaxTaskReact
    BY <1>1, <1>4, <2>1 DEF TaskGate, Kept, AtGates
  <2>2. CASE ~ (board /\ taskReact < MaxTaskReact)
    BY <1>3, <1>4, <2>2 DEF TaskGate, Kept, AtGates
  <2> QED
    BY <2>1, <2>2
<1>5. CASE VerifyGate
  <2>1. CASE win.dirty /\ Verifiable /\ cnt.verifies < MaxVerify
    <3>1. ~ (cnt.verifies >= MaxVerify)
      BY <2>1, CapTypes DEF Counters
    <3>2. SendBack /\ Kept /\ AtGates /\ UNCHANGED <<owed, left>>
      BY <1>5, <2>1, <3>1 DEF VerifyGate, AtGates
    <3> QED
      BY <1>1, <3>2 DEF Kept
  <2>2. CASE ~ (win.dirty /\ Verifiable /\ cnt.verifies < MaxVerify)
    <3>1. /\ cnt' \in {cnt, [cnt EXCEPT !.marked = TRUE]} /\ pc' \in {"stall", "goal"}
          /\ UNCHANGED <<door, win, seen, owed, left>>
      BY <1>5, <2>2 DEF VerifyGate, AfterVerify, Kept
    <3>2. cnt'.verifies = cnt.verifies /\ (cnt.marked => cnt'.marked)
      BY <3>1 DEF Counters
    <3>3. ASSUME owed, Verifiable PROVE cnt'.marked
      <4>1. win.dirty /\ ~ (cnt.verifies < MaxVerify)
        BY <2>2, <3>3 DEF HonestInv, Visible
      <4>2. seen.prior
        <5>1. cnt.verifies # 0
          BY <4>1, CapTypes DEF NoBoundaries, Counters
        <5> QED
          BY <1>5, <5>1 DEF VerifyGate, HonestInv, Visible, AtGates
      <4>3. cnt.marked \/ cnt' = [cnt EXCEPT !.marked = TRUE]
        BY <1>5, <3>3, <4>1, <4>2 DEF VerifyGate
      <4> QED
        BY <3>2, <4>3 DEF Counters
    <3> QED
      BY <1>3, <1>5, <3>1, <3>2, <3>3 DEF VerifyGate, AtGates
  <2> QED
    BY <2>1, <2>2
<1>m. pc \in {"stall", "goal", "judge", "guard"} /\ door # "error" /\ owed /\ Verifiable
        => cnt.marked
  BY DEF HonestInv, Honest
<1>6. CASE StallGate
  <2>1. CASE seen.stalled /\ ~ cnt.resumed
    BY <1>1, <1>6, <2>1 DEF StallGate, Kept, AtGates, SendBack
  <2>2. CASE ~ (seen.stalled /\ ~ cnt.resumed)
    BY <1>3, <1>6, <1>m, <2>2 DEF StallGate, Kept, AtGates
  <2> QED
    BY <2>1, <2>2
<1>7. CASE GoalGate
  BY <1>3, <1>7, <1>m DEF GoalGate, AfterGoal, Kept, AtGates
<1>8. CASE Judge
  <2>1. CASE SendBack
    BY <1>1, <1>8, <2>1 DEF Judge, Kept, AtGates
  <2>2. CASE ~ SendBack
    <3>1. AfterGoal /\ UNCHANGED <<door, win>>
      BY <1>8, <2>2 DEF Judge, GoalMet, GoalOpen
    <3> QED
      BY <1>3, <1>8, <1>m, <3>1 DEF Judge, AfterGoal, Kept, AtGates
  <2> QED
    BY <2>1, <2>2
<1>9. CASE FinishGuard
  <2>1. CASE seen.bad /\ cnt.guard < MaxGuard
    BY <1>1, <1>9, <2>1 DEF FinishGuard, Kept, AtGates
  <2>2. CASE ~ (seen.bad /\ cnt.guard < MaxGuard)
    BY <1>3, <1>9, <1>m, <2>2 DEF FinishGuard, Kept, AtGates
  <2> QED
    BY <2>1, <2>2
<1> QED
  BY <1>2, <1>4, <1>5, <1>6, <1>7, <1>8, <1>9 DEF Gates

(* Prompts, messages, goals, subagents, cancels and crashes keep it.         *)
LEMMA HonestOutside ==
  ASSUME HonestInv, Shape, Outside
  PROVE  HonestInv'
<1>w. win \in Windows /\ Carries(Nudge(win), win) /\ Carries(win, win) /\ left \in Lefts
  BY NudgeCarries DEF Shape, WindowTyped, Carries
<1>0. left.overs = 0 /\ left.sums = 0
  BY DEF HonestInv, Unbounded
<1>1. ~ Summarize
  BY <1>0 DEF Summarize, Spend
<1>2. left'.overs = left.overs /\ left'.sums = left.sums
  BY <1>1, <1>w DEF Outside, Prompt, ClearGoal, SubagentTurn, Send, Cancel, Crash, Spend, Lefts
<1>3. CASE Cancel \/ Crash
  <2>1. /\ pc' = "idle" /\ cnt' = NewRun /\ seen' = Unseen /\ owed' = owed
    BY <1>3 DEF Cancel, Crash, Stopped
  <2>2. Carries(win', win)
    <3>1. ASSUME NEW k \in Kinds \ {"none"}, NEW e \in BOOLEAN
          PROVE  Carries(Produced(k, e), win)
      BY <3>1, ProducedCarries DEF Shape
    <3>2. \/ win' = win
          \/ \E k \in Kinds \ {"none"}, e \in BOOLEAN : win' = Produced(k, e)
      BY <1>3 DEF Cancel, Crash, Stopped, Kinds
    <3> QED
      BY <3>1, <3>2, <1>w
  <2> QED
    BY <1>2, <2>1, <2>2, HonestRests DEF NewRun
<1>r. ASSUME Run
      PROVE  (pc' = pc /\ door' = door /\ cnt' = cnt) \/ (pc' = "look" /\ cnt' = NewRun)
  BY <1>r DEF Run
<1>4. CASE Send \/ SubagentTurn \/ ClearGoal
  <2>1. Carries(win', win) /\ seen' = seen /\ owed' = owed
    BY <1>4, <1>w DEF Send, SubagentTurn, ClearGoal
  <2>2. (pc' = pc /\ door' = door /\ cnt' = cnt) \/ (pc' = "look" /\ cnt'.verifies = 0)
    BY <1>4, <1>r DEF Send, SubagentTurn, ClearGoal, NewRun
  <2> QED
    BY <1>2, <2>1, <2>2 DEF HonestInv, Unbounded, Visible, Honest, AtGates, Carries
<1>5. CASE Prompt
  <2>1. /\ win'.last = win.last /\ (win.marker = "no" => win'.marker = "no")
        /\ seen' = seen /\ ~ owed'
    BY <1>5, <1>w, UserTurnTyped DEF Prompt
  <2>2. (pc' = pc /\ door' = door /\ cnt' = cnt) \/ (pc' = "look" /\ cnt'.verifies = 0)
    BY <1>5, <1>r DEF Prompt, NewRun
  <2> QED
    BY <1>2, <2>1, <2>2 DEF HonestInv, Unbounded, Visible, Honest, AtGates
<1> QED
  BY <1>1, <1>3, <1>4, <1>5 DEF Outside

(* The force-verify gate (autoContinueUnverified): a run with unverified     *)
(* edits that ends through the gates has stamped the NOT DONE marker, as     *)
(* long as no context boundary (rebuild, compaction) hides the edits.        *)
THEOREM HonestStopHolds == ASSUME NoBoundaries PROVE Spec => []HonestStop
<1>1. ASSUME HonestInv, Shape, TurnInv, [Next]_vars PROVE HonestInv'
  <2>1. CASE UNCHANGED vars
    BY <1>1, <2>1 DEF vars, HonestInv, Unbounded, Visible, Honest, AtGates
  <2>2. cnt \in Counters
    BY <1>1 DEF TurnInv, Typed
  <2> QED
    BY <1>1, <2>1, <2>2, HonestLook, HonestModelSteps, HonestGates, HonestOutside DEF Next, Loop
<1>2. Init => HonestInv
  BY HonestInit
<1>3. HonestInv => HonestStop
  BY DEF HonestInv, Honest, HonestStop
<1> QED
  BY <1>1, <1>2, <1>3, ShapeHolds, TurnInvHolds, PTL DEF Spec

-----------------------------------------------------------------------------
(***************************************************************************)
(* The run comes to its end: the rank of a state goes down at every step   *)
(* of the loop.  (Every step but an overflow that the provider reports     *)
(* without end.)  The rank is a tuple of seven numbers, compared as the    *)
(* words of a dictionary are, an order in which nothing goes down for      *)
(* ever: this is the part of RunEnds that needs no fairness.               *)
(***************************************************************************)

(* What is left of a budget.                                                 *)
Room(cap, n) == IF n < cap THEN cap - n ELSE 0

Unit(P) == IF P THEN 1 ELSE 0

(* The budget of the goal gate; one re-entry more for a goal that is cleared *)
(* while the judge is out.                                                   *)
GoalRoom == IF goal.kind # "none" THEN Room(GoalCap, goal.react) ELSE Unit(pc = "judge")

(* The budgets in the locals of the run, those of the repairs, and whether a *)
(* compaction is to be done.                                                 *)
Locals(c) ==
  Room(MaxVerify, c.verifies) + Room(MaxGuard, c.guard) + Unit(~ c.resumed)
    + Unit(~ c.rescued)

Repairs(c) ==
  Room(MaxLength, c.length) + Room(MaxTextTool, c.textTool)
    + Room(MaxNgram + 1, c.ngram) + Room(MaxLoops, c.loops)

Marked(w) == Unit(w.marker \in {"auto", "manual"})

Fuel == left.works + left.overs

Running == Unit(pc # "idle")

Budget ==
  Room(MaxTaskReact, taskReact) + GoalRoom + Locals(cnt) + Repairs(cnt) + Marked(win)

(* What the next Look has not seen.                                          *)
News == Unit(unread # "no") + Unit(mail > 0)

(* How far the turn is from its end: the doors in their order, before them   *)
(* an iteration that will not call the model with what it finds, and before  *)
(* that one that may.                                                        *)
Stage ==
  CASE pc \in {"idle", "leave"} -> 0
    [] pc = "guard"  -> 1
    [] pc = "judge"  -> 2
    [] pc = "goal"   -> 3
    [] pc = "stall"  -> 4
    [] pc = "verify" -> 5
    [] pc = "tasks"  -> 6
    [] pc = "look" /\ (News > 0 \/ Class(win) \notin {"continue", "think"}) -> 7
    [] OTHER -> 8

(* Steps of mere thinking: a productive one starts the count over, and Look  *)
(* does so for the step it finds.                                            *)
Patience == IF pc = "look" /\ Productive(win) THEN MaxInvalid
                                              ELSE Room(MaxInvalid, cnt.total)

Place == CASE pc = "look" -> 2 [] pc = "call" -> 1 [] OTHER -> 0

Rank == <<Fuel, Running, Budget, News, Stage, Patience, Place>>

Below(s, t) ==
  \E i \in 1..7 : s[i] < t[i] /\ \A j \in 1..7 : j < i => s[j] = t[j]

Words == [1..7 -> Nat]

(* A compaction that the loop is at is still to be done, unless a message    *)
(* that it has not read has buried the marker.                               *)
MarkInv ==
  /\ pc \in {"compactAuto", "compactManual"} => seen.marker \in {"auto", "manual"}
  /\ pc \in {"call", "compactAuto", "compactManual"} /\ unread = "no"
       /\ seen.marker \in {"auto", "manual"} => win.marker \in {"auto", "manual"}

-----------------------------------------------------------------------------
LEMMA RoomFacts ==
  ASSUME NEW cap \in Nat, NEW n \in Nat
  PROVE  Room(cap, n) \in Nat /\ (n < cap => Room(cap, n + 1) < Room(cap, n))
BY DEF Room

(* The numbers of the rank are natural numbers.                              *)
LEMMA LocalsTyped == ASSUME NEW c \in Counters PROVE Locals(c) \in Nat
<1>1. Room(MaxVerify, c.verifies) \in Nat /\ Room(MaxGuard, c.guard) \in Nat
  BY RoomFacts, CapTypes DEF Counters
<1> QED
  BY <1>1 DEF Locals, Unit

LEMMA RepairsTyped == ASSUME NEW c \in Counters PROVE Repairs(c) \in Nat
<1>1. MaxNgram + 1 \in Nat
  BY CapTypes
<1>2. /\ Room(MaxLength, c.length) \in Nat /\ Room(MaxTextTool, c.textTool) \in Nat
      /\ Room(MaxNgram + 1, c.ngram) \in Nat /\ Room(MaxLoops, c.loops) \in Nat
  BY <1>1, RoomFacts, CapTypes DEF Counters
<1> QED
  BY <1>2 DEF Repairs

RankOK ==
  /\ Fuel \in Nat /\ Running \in Nat /\ Budget \in Nat /\ News \in 0..2
  /\ Stage \in 0..8 /\ Patience \in Nat /\ Place \in 0..2
  /\ GoalRoom \in Nat /\ Room(MaxTaskReact, taskReact) \in Nat
  /\ Locals(cnt) \in Nat /\ Repairs(cnt) \in Nat /\ Marked(win) \in 0..1

LEMMA RankTyped == TypeOK => RankOK
<1> SUFFICES ASSUME TypeOK PROVE RankOK
  OBVIOUS
<1>1. Locals(cnt) \in Nat /\ Repairs(cnt) \in Nat
  BY LocalsTyped, RepairsTyped DEF TypeOK
<1>2. GoalRoom \in Nat /\ Room(MaxTaskReact, taskReact) \in Nat
  BY RoomFacts, CapTypes DEF TypeOK, GoalRoom, Goals, Unit
<1>3. Patience \in Nat
  BY RoomFacts, CapTypes DEF TypeOK, Counters, Patience
<1>4. Marked(win) \in 0..1 /\ News \in 0..2 /\ Running \in Nat /\ Place \in 0..2
  BY DEF Marked, News, Running, Place, Unit
<1>5. Fuel \in Nat
  BY DEF TypeOK, Fuel
<1>6. Stage \in 0..8
  BY DEF Stage
<1> QED
  BY <1>1, <1>2, <1>3, <1>4, <1>5, <1>6 DEF Budget, RankOK

(* The rank goes down where one number does and none before it goes up.      *)
LEMMA Descent ==
  ASSUME TypeOK, TypeOK',
         \/ Fuel' < Fuel
         \/ /\ Fuel' <= Fuel
            /\ \/ Running' < Running
               \/ /\ Running' <= Running
                  /\ \/ Budget' < Budget
                     \/ /\ Budget' <= Budget
                        /\ \/ News' < News
                           \/ /\ News' <= News
                              /\ \/ Stage' < Stage
                                 \/ /\ Stage' <= Stage
                                    /\ \/ Patience' < Patience
                                       \/ /\ Patience' <= Patience
                                          /\ Place' < Place
  PROVE  Below(Rank', Rank)
<1>1. PICK i \in 1..7 : Rank'[i] < Rank[i] /\ \A j \in 1..7 : j < i => Rank'[j] = Rank[j]
  <2>1. /\ Fuel \in Nat /\ Running \in Nat /\ Budget \in Nat /\ News \in Nat
        /\ Stage \in Nat /\ Patience \in Nat /\ Place \in Nat
    BY RankTyped DEF RankOK
  <2>2. /\ Fuel' \in Nat /\ Running' \in Nat /\ Budget' \in Nat /\ News' \in Nat
        /\ Stage' \in Nat /\ Patience' \in Nat /\ Place' \in Nat
    <3>1. RankOK'
      BY RankTyped, PTL
    <3> QED
      BY <3>1 DEF RankOK
  <2>3. \/ Fuel' < Fuel
        \/ Fuel' = Fuel /\ Running' < Running
        \/ Fuel' = Fuel /\ Running' = Running /\ Budget' < Budget
        \/ Fuel' = Fuel /\ Running' = Running /\ Budget' = Budget /\ News' < News
        \/ /\ Fuel' = Fuel /\ Running' = Running /\ Budget' = Budget /\ News' = News
           /\ Stage' < Stage
        \/ /\ Fuel' = Fuel /\ Running' = Running /\ Budget' = Budget /\ News' = News
           /\ Stage' = Stage /\ Patience' < Patience
        \/ /\ Fuel' = Fuel /\ Running' = Running /\ Budget' = Budget /\ News' = News
           /\ Stage' = Stage /\ Patience' = Patience /\ Place' < Place
    BY <2>1, <2>2
  <2> QED
    BY <2>3 DEF Rank
<1> QED
  BY <1>1 DEF Below

-----------------------------------------------------------------------------
LEMMA MarkStep == MarkInv /\ [Next]_vars => MarkInv'
<1> SUFFICES ASSUME MarkInv, [Next]_vars PROVE MarkInv'
  OBVIOUS
<1> DEFINE Working == {"call", "compactAuto", "compactManual"}
<1>1. ASSUME pc' \notin Working PROVE MarkInv'
  BY <1>1 DEF MarkInv
<1>2. CASE Look
  <2>1. ASSUME pc' = "call" PROVE MarkInv'
    <3>1. seen' = Read(win') /\ Read(win').marker = win'.marker
      BY <1>2, <2>1 DEF Look, LeaveOnError, Read
    <3> QED
      BY <2>1, <3>1 DEF MarkInv
  <2>2. pc' \in {"call", "tasks", "leave", "look"}
    BY <1>2 DEF Look, LeaveOnError
  <2> QED
    BY <1>1, <2>1, <2>2
<1>3. CASE StartCompaction
  BY <1>3 DEF StartCompaction, ToCompact, MarkInv
<1>4. CASE Compacted \/ CompactionFails \/ Overflow
  BY <1>1, <1>4 DEF Compacted, CompactionFails, Overflow, LeaveOnError
<1>5. ASSUME NEW w, NEW c, NEW again, NEW text, Settle(w, c, again, text) PROVE MarkInv'
  BY <1>1, <1>5 DEF Settle, LeaveOnError
<1>6. CASE UseTools \/ Answer \/ Misstep \/ Fail \/ Repeat \/ ProviderOverflow
  BY <1>5, <1>6 DEF UseTools, Answer, Misstep, Fail, Repeat, ProviderOverflow
<1>7. CASE Gates \/ Leave
  BY <1>1, <1>7 DEF Gates, TaskGate, VerifyGate, StallGate, GoalGate, Judge, FinishGuard,
     Leave, SendBack, AfterVerify, AfterGoal, GoalMet, GoalOpen
<1>8. CASE Prompt \/ ClearGoal
  BY <1>1, <1>8 DEF Prompt, ClearGoal, Run, MarkInv
<1>9. CASE SubagentTurn \/ Send
  BY <1>1, <1>9 DEF SubagentTurn, Send, Run, MarkInv
<1>10. CASE Summarize
  BY <1>1, <1>10 DEF Summarize, Run
<1>11. CASE Cancel \/ Crash
  BY <1>1, <1>11 DEF Cancel, Crash, Stopped
<1>12. CASE UNCHANGED vars
  BY <1>12 DEF vars, MarkInv
<1> QED
  BY <1>2, <1>3, <1>4, <1>6, <1>7, <1>8, <1>9, <1>10, <1>11, <1>12 DEF Next, Loop, Outside

LEMMA RankTypedNext == TypeOK' => RankOK'
BY RankTyped, PTL

LEMMA NudgeMarks == ASSUME NEW w \in Windows PROVE Marked(Nudge(w)) <= Marked(w)
BY DEF Windows, Nudge, Bury, Marked, Unit

(* A gate that sends the model back spends a budget; one that lets the turn  *)
(* pass brings it to the next.                                               *)
LEMMA GatesDescend == ASSUME TypeOK, TypeOK', Gates PROVE Below(Rank', Rank)
<1>1. RankOK /\ RankOK'
  BY RankTyped, RankTypedNext
<1>2. Fuel' = Fuel /\ Running' = Running /\ News' = News
  BY DEF Gates, TaskGate, VerifyGate, StallGate, GoalGate, Judge, FinishGuard, SendBack,
     AfterVerify, AfterGoal, GoalMet, GoalOpen, Fuel, Running, News, Unit
<1>3. SUFFICES Budget' < Budget \/ (Budget' <= Budget /\ Stage' < Stage)
  BY <1>1, <1>2, Descent DEF RankOK
<1>4. ASSUME win' = Nudge(win) \/ win' = win PROVE Marked(win') <= Marked(win)
  BY <1>1, <1>4, NudgeMarks DEF TypeOK, RankOK
<1>5. CASE TaskGate
  <2>1. GoalRoom' = GoalRoom /\ cnt' = cnt
    BY <1>5 DEF TaskGate, SendBack, GoalRoom, Unit
  <2>2. Marked(win') <= Marked(win)
    BY <1>4, <1>5 DEF TaskGate, SendBack
  <2>3. CASE board /\ taskReact < MaxTaskReact
    <3>1. Room(MaxTaskReact, taskReact') < Room(MaxTaskReact, taskReact)
      BY <1>5, <2>3, RoomFacts, CapTypes DEF TaskGate, TypeOK
    <3> QED
      BY <1>1, <2>1, <2>2, <3>1 DEF Budget, RankOK
  <2>4. CASE ~ (board /\ taskReact < MaxTaskReact)
    <3>1. taskReact' = taskReact /\ Stage' < Stage
      BY <1>5, <2>4 DEF TaskGate, Stage
    <3> QED
      BY <1>1, <2>1, <2>2, <3>1 DEF Budget, RankOK
  <2> QED
    BY <2>3, <2>4
<1>6. CASE VerifyGate
  <2>1. GoalRoom' = GoalRoom /\ taskReact' = taskReact
    BY <1>6 DEF VerifyGate, SendBack, AfterVerify, GoalRoom, Unit
  <2>2. Marked(win') <= Marked(win)
    BY <1>4, <1>6 DEF VerifyGate, SendBack
  <2>3. CASE cnt.verifies < MaxVerify /\ cnt' = [cnt EXCEPT !.verifies = @ + 1]
    <3>1. Room(MaxVerify, cnt'.verifies) < Room(MaxVerify, cnt.verifies)
      BY <2>3, RoomFacts, CapTypes DEF TypeOK, Counters
    <3>2. Locals(cnt') < Locals(cnt) /\ Repairs(cnt') = Repairs(cnt)
      <4>1. /\ Room(MaxVerify, cnt.verifies) \in Nat /\ Room(MaxVerify, cnt'.verifies) \in Nat
            /\ Room(MaxGuard, cnt.guard) \in Nat
        BY RoomFacts, CapTypes DEF TypeOK, Counters
      <4> QED
        BY <2>3, <3>1, <4>1 DEF TypeOK, Counters, Locals, Repairs, Unit
    <3> QED
      BY <1>1, <2>1, <2>2, <3>2 DEF Budget, RankOK
  <2>4. CASE pc' \in {"stall", "goal"} /\ cnt' \in {cnt, [cnt EXCEPT !.marked = TRUE]}
    <3>1. Locals(cnt') = Locals(cnt) /\ Repairs(cnt') = Repairs(cnt)
      BY <2>4 DEF TypeOK, Counters, Locals, Repairs
    <3>2. Stage' < Stage
      BY <1>6, <2>4 DEF VerifyGate, Stage
    <3> QED
      BY <1>1, <2>1, <2>2, <3>1, <3>2 DEF Budget, RankOK
  <2> QED
    BY <1>6, <2>3, <2>4 DEF VerifyGate, AfterVerify
<1>7. CASE StallGate
  <2>1. GoalRoom' = GoalRoom /\ taskReact' = taskReact
    BY <1>7 DEF StallGate, SendBack, GoalRoom, Unit
  <2>2. Marked(win') <= Marked(win)
    BY <1>4, <1>7 DEF StallGate, SendBack
  <2>3. CASE ~ cnt.resumed /\ cnt' = [cnt EXCEPT !.resumed = TRUE]
    <3>1. Locals(cnt') < Locals(cnt) /\ Repairs(cnt') = Repairs(cnt)
      <4>1. Room(MaxVerify, cnt.verifies) \in Nat /\ Room(MaxGuard, cnt.guard) \in Nat
        BY RoomFacts, CapTypes DEF TypeOK, Counters
      <4> QED
        BY <2>3, <4>1 DEF TypeOK, Counters, Locals, Repairs, Unit
    <3> QED
      BY <1>1, <2>1, <2>2, <3>1 DEF Budget, RankOK
  <2>4. CASE pc' = "goal" /\ cnt' = cnt
    <3>1. Stage' < Stage
      BY <1>7, <2>4 DEF StallGate, Stage
    <3> QED
      BY <1>1, <2>1, <2>2, <2>4, <3>1 DEF Budget, RankOK
  <2> QED
    BY <1>7, <2>3, <2>4 DEF StallGate
<1>8. CASE GoalGate
  <2>1. taskReact' = taskReact /\ cnt' = cnt /\ win' = win
    BY <1>8 DEF GoalGate
  <2>2. pc = "goal" /\ pc' \in {"judge", "guard", "leave"}
    BY <1>8 DEF GoalGate, AfterGoal
  <2>3. Stage' < Stage
    BY <2>2 DEF Stage
  <2>4. GoalRoom' <= GoalRoom
    <3>1. CASE goal'.kind = "none" /\ pc' # "judge"
      BY <1>1, <3>1 DEF GoalRoom, Unit, RankOK
    <3>2. CASE goal' = goal /\ goal.kind # "none"
      BY <1>1, <3>2 DEF GoalRoom, RankOK
    <3> QED
      BY <1>8, <3>1, <3>2 DEF GoalGate, AfterGoal, Cleared, NoGoal
  <2> QED
    BY <1>1, <2>1, <2>3, <2>4 DEF Budget, RankOK
<1>9. CASE Judge
  <2>1. taskReact' = taskReact /\ cnt' = cnt /\ pc = "judge"
    BY <1>9 DEF Judge
  <2>2. Marked(win') <= Marked(win)
    BY <1>4, <1>9 DEF Judge, GoalMet, GoalOpen, SendBack
  <2>3. CASE Cleared /\ AfterGoal
    <3>1. goal'.kind = "none" /\ pc' \in {"guard", "leave"}
      BY <2>3 DEF Cleared, NoGoal, AfterGoal
    <3>2. GoalRoom' <= GoalRoom
      BY <1>1, <3>1 DEF GoalRoom, Unit, RankOK
    <3>3. Stage' < Stage
      BY <2>1, <3>1 DEF Stage
    <3> QED
      BY <1>1, <2>1, <2>2, <3>2, <3>3 DEF Budget, RankOK
  <2>4. CASE goal.kind = "none" /\ goal'.kind = "none" /\ pc' = "look"
    <3>1. GoalRoom' < GoalRoom
      BY <2>1, <2>4 DEF GoalRoom, Unit
    <3> QED
      BY <1>1, <2>1, <2>2, <3>1 DEF Budget, RankOK
  <2>5. CASE /\ goal.kind # "none" /\ goal' = [goal EXCEPT !.react = @ + 1]
             /\ goal.react + 1 <= GoalCap
    <3>1. Room(GoalCap, goal.react + 1) < Room(GoalCap, goal.react)
      BY <2>5, RoomFacts, CapTypes DEF TypeOK, Goals
    <3>2. GoalRoom' < GoalRoom
      BY <2>5, <3>1 DEF GoalRoom, TypeOK, Goals
    <3> QED
      BY <1>1, <2>1, <2>2, <3>2 DEF Budget, RankOK
  <2>6. GoalMet \/ GoalOpen
    BY <1>9 DEF Judge
  <2>7. CASE GoalOpen /\ ~ (Cleared /\ AfterGoal)
    <3>1. PICK n \in Nat, cap \in {SoftGoal, MaxGoal} :
            /\ n = IF goal.kind = "none" THEN 0 ELSE goal.react + 1
            /\ n <= cap /\ goal' = [goal EXCEPT !.react = n] /\ SendBack
      BY <2>7, CapTypes DEF GoalOpen, TypeOK, Goals
    <3>2. cap <= GoalCap
      BY CapTypes DEF GoalCap
    <3> QED
      BY <2>4, <2>5, <3>1, <3>2, CapTypes DEF SendBack, TypeOK, Goals
  <2> QED
    BY <2>3, <2>6, <2>7 DEF GoalMet
<1>10. CASE FinishGuard
  <2>1. GoalRoom' = GoalRoom /\ taskReact' = taskReact
    BY <1>10 DEF FinishGuard, SendBack, GoalRoom, Unit
  <2>2. Marked(win') <= Marked(win)
    BY <1>4, <1>10 DEF FinishGuard, SendBack
  <2>3. CASE cnt.guard < MaxGuard /\ cnt' = [cnt EXCEPT !.guard = @ + 1]
    <3>1. Room(MaxGuard, cnt'.guard) < Room(MaxGuard, cnt.guard)
      BY <2>3, RoomFacts, CapTypes DEF TypeOK, Counters
    <3>2. Locals(cnt') < Locals(cnt) /\ Repairs(cnt') = Repairs(cnt)
      <4>1. /\ Room(MaxVerify, cnt.verifies) \in Nat /\ Room(MaxGuard, cnt'.guard) \in Nat
            /\ Room(MaxGuard, cnt.guard) \in Nat
        BY RoomFacts, CapTypes DEF TypeOK, Counters
      <4> QED
        BY <2>3, <3>1, <4>1 DEF TypeOK, Counters, Locals, Repairs, Unit
    <3> QED
      BY <1>1, <2>1, <2>2, <3>2 DEF Budget, RankOK
  <2>4. CASE pc' = "leave" /\ cnt' = cnt
    <3>1. Stage' < Stage
      BY <1>10, <2>4 DEF FinishGuard, Stage
    <3> QED
      BY <1>1, <2>1, <2>2, <2>4, <3>1 DEF Budget, RankOK
  <2> QED
    BY <1>10, <2>3, <2>4 DEF FinishGuard
<1> QED
  BY <1>5, <1>6, <1>7, <1>8, <1>9, <1>10 DEF Gates

(* The run ends.                                                             *)
LEMMA LeaveDescends == ASSUME TypeOK, TypeOK', Leave PROVE Below(Rank', Rank)
<1>1. Fuel' = Fuel /\ Running' < Running
  BY DEF Leave, Fuel, Running, Unit
<1>2. RankOK /\ RankOK'
  BY RankTyped, RankTypedNext
<1> QED
  BY <1>1, <1>2, Descent DEF RankOK

(* A repair spends a budget of its own, or the patience with thinking.       *)
LEMMA MendRepairs ==
  ASSUME NEW w \in Windows, NEW c \in Counters, NEW r \in Mend(w, c),
         w.last \in {"cut", "prose", "think"}
  PROVE  /\ r.cnt \in Counters /\ r.again \in BOOLEAN
         /\ Locals(r.cnt) = Locals(c) /\ Marked(r.win) <= Marked(w)
         /\ r.win.last = w.last
         /\ ~ r.again => r.cnt = c
         /\ r.again =>
              \/ Repairs(r.cnt) < Repairs(c)
              \/ /\ w.last = "think" /\ Repairs(r.cnt) = Repairs(c)
                 /\ Room(MaxInvalid, r.cnt.total) < Room(MaxInvalid, c.total)
<1>1. r.cnt \in Counters /\ r.again \in BOOLEAN
  BY MendSpends, MendAgain
<1>2. MaxNgram + 1 \in Nat
  BY CapTypes
<1>3. /\ Room(MaxLength, c.length) \in Nat /\ Room(MaxTextTool, c.textTool) \in Nat
      /\ Room(MaxNgram + 1, c.ngram) \in Nat /\ Room(MaxLoops, c.loops) \in Nat
  BY <1>2, RoomFacts, CapTypes DEF Counters
<1>4. /\ Room(MaxLength, r.cnt.length) \in Nat /\ Room(MaxTextTool, r.cnt.textTool) \in Nat
  BY <1>1, RoomFacts, CapTypes DEF Counters
<1>5. /\ Marked(w) \in {0, 1} /\ Marked(Nudge(w)) <= Marked(w)
      /\ Marked(Nudge([w EXCEPT !.err = TRUE])) <= Marked(w)
      /\ Marked([w EXCEPT !.err = TRUE]) <= Marked(w)
      /\ Nudge(w).last = w.last /\ Nudge([w EXCEPT !.err = TRUE]).last = w.last
  BY DEF Windows, Nudge, Bury, Marked, Unit
<1>6. CASE w.last = "cut"
  <2>1. CASE c.length < MaxLength
    <3>1. r = Again(w, [c EXCEPT !.length = @ + 1])
      BY <1>6, <2>1 DEF Mend, OnCut
    <3>2. Room(MaxLength, c.length + 1) < Room(MaxLength, c.length)
      BY <2>1, RoomFacts, CapTypes DEF Counters
    <3> QED
      BY <1>1, <1>3, <1>4, <1>5, <3>1, <3>2 DEF Again, Locals, Repairs, Counters
  <2>2. CASE ~ (c.length < MaxLength)
    <3>1. r = GiveUp(w, c)
      BY <1>6, <2>2 DEF Mend, OnCut
    <3> QED
      BY <1>1, <1>5, <3>1 DEF GiveUp, Windows
  <2> QED
    BY <2>1, <2>2
<1>7. CASE w.last = "prose"
  <2>1. CASE c.textTool < MaxTextTool
    <3>1. r = Again([w EXCEPT !.err = TRUE], [c EXCEPT !.textTool = @ + 1])
      BY <1>7, <2>1 DEF Mend, OnProse
    <3>2. Room(MaxTextTool, c.textTool + 1) < Room(MaxTextTool, c.textTool)
      BY <2>1, RoomFacts, CapTypes DEF Counters
    <3> QED
      BY <1>1, <1>3, <1>4, <1>5, <3>1, <3>2 DEF Again, Locals, Repairs, Counters
  <2>2. CASE ~ (c.textTool < MaxTextTool)
    <3>1. r = GiveUp(w, c)
      BY <1>7, <2>2 DEF Mend, OnProse
    <3> QED
      BY <1>1, <1>5, <3>1 DEF GiveUp, Windows
  <2> QED
    BY <2>1, <2>2
<1>8. CASE w.last = "think"
  <2>1. PICK p \in BOOLEAN : r = OnThink(w, c, p)
    BY <1>8 DEF Mend
  <2>2. CASE c.total < MaxInvalid /\ (p \/ c.stalls < MaxStalls)
    <3>1. r = Again(w, [c EXCEPT !.total = @ + 1, !.stalls = IF p THEN 0 ELSE @ + 1])
      BY <2>1, <2>2 DEF OnThink
    <3>2. Room(MaxInvalid, c.total + 1) < Room(MaxInvalid, c.total)
      BY <2>2, RoomFacts, CapTypes DEF Counters
    <3> DEFINE d == [c EXCEPT !.total = @ + 1, !.stalls = IF p THEN 0 ELSE @ + 1]
    <3>3. /\ d.total = c.total + 1 /\ Locals(d) = Locals(c) /\ Repairs(d) = Repairs(c)
      BY DEF Locals, Repairs, Counters
    <3>4. r.cnt = d /\ r.win = Nudge(w) /\ r.again
      BY <3>1 DEF Again
    <3> HIDE DEF d
    <3> QED
      BY <1>1, <1>5, <1>8, <3>2, <3>3, <3>4
  <2>3. CASE ~ (c.total < MaxInvalid /\ (p \/ c.stalls < MaxStalls))
    <3>1. r = GiveUp(w, c)
      BY <2>1, <2>3 DEF OnThink
    <3> QED
      BY <1>1, <1>5, <3>1 DEF GiveUp, Windows
  <2> QED
    BY <2>2, <2>3
<1> QED
  BY <1>6, <1>7, <1>8

(* What starts the count of thinking over keeps every budget.                *)
LEMMA RearmKeeps ==
  ASSUME NEW c \in Counters
  PROVE  /\ Rearm(c) \in Counters /\ Locals(Rearm(c)) = Locals(c)
         /\ Repairs(Rearm(c)) = Repairs(c) /\ Rearm(c).total = 0
         /\ Room(MaxInvalid, 0) = MaxInvalid
<1>1. Room(MaxInvalid, 0) = MaxInvalid
  BY CapTypes DEF Room
<1> DEFINE d == Rearm(c)
<1>2. d \in Counters /\ d.total = 0
  BY DEF Rearm, Counters
<1>3. /\ d.verifies = c.verifies /\ d.guard = c.guard /\ d.resumed = c.resumed
      /\ d.rescued = c.rescued /\ d.length = c.length /\ d.textTool = c.textTool
      /\ d.ngram = c.ngram /\ d.loops = c.loops
  BY DEF Rearm, Counters
<1> HIDE DEF d
<1>4. Locals(d) = Locals(c) /\ Repairs(d) = Repairs(c)
  BY <1>3 DEF Locals, Repairs
<1> QED
  BY <1>1, <1>2, <1>4 DEF d

(* Look takes notice, or calls the model, or lets the turn go to its end.    *)
LEMMA LookDescends == ASSUME TypeOK, TypeOK', Look PROVE Below(Rank', Rank)
<1>1. RankOK /\ RankOK'
  BY RankTyped, RankTypedNext
<1> DEFINE w == IF mail > 0 THEN Nudge(win) ELSE win
           c == IF Productive(w) THEN Rearm(cnt) ELSE cnt
<1>2. w \in Windows /\ Marked(w) <= Marked(win)
  BY <1>1, NudgeMarks, NudgeCarries DEF TypeOK, RankOK, Carries
<1>3. c \in Counters /\ Locals(c) = Locals(cnt) /\ Repairs(c) = Repairs(cnt)
  BY RearmKeeps DEF TypeOK
<1>4. /\ pc = "look" /\ pc' \in {"call", "tasks", "leave", "look"}
      /\ Fuel' = Fuel /\ Running' = Running /\ News' = 0
      /\ GoalRoom' = GoalRoom /\ taskReact' = taskReact
  BY DEF Look, LeaveOnError, Fuel, Running, News, GoalRoom, Unit
<1>5. SUFFICES \/ Budget' < Budget
               \/ /\ Budget' <= Budget
                  /\ News = 0 => \/ Stage' < Stage
                                 \/ /\ Stage' <= Stage
                                    /\ \/ Patience' < Patience
                                       \/ Patience' <= Patience /\ Place' < Place
  BY <1>1, <1>4, <1>5, Descent DEF RankOK
<1>6. News = 0 => w = win /\ mail = 0
  BY DEF News, Unit, TypeOK
<1>7. CASE Class(w) = "continue" /\ win' = w /\ cnt' = c /\ pc' = "call"
  <2>1. Budget' <= Budget
    BY <1>1, <1>2, <1>3, <1>4, <1>7 DEF Budget, RankOK
  <2>2. ASSUME News = 0 PROVE Stage' <= Stage /\ Patience' <= Patience /\ Place' < Place
    <3>1. Stage = 8
      BY <1>4, <1>6, <1>7, <2>2 DEF Stage
    <3>2. Patience' = Patience
      BY <1>1, <1>4, <1>6, <1>7, <2>2, RearmKeeps DEF Patience, TypeOK
    <3>3. Place' < Place
      BY <1>4, <1>7 DEF Place
    <3> QED
      BY <1>1, <3>1, <3>2, <3>3 DEF RankOK
  <2> QED
    BY <2>1, <2>2
<1>8. CASE /\ Class(w) # "continue" /\ pc' \in {"tasks", "leave"}
           /\ Locals(cnt') = Locals(cnt) /\ Repairs(cnt') = Repairs(cnt)
           /\ Marked(win') <= Marked(w)
  <2>0. Marked(w) \in 0..1 /\ Marked(win') \in 0..1
    BY DEF Marked, Unit
  <2>1. Budget' <= Budget
    BY <1>1, <1>2, <1>4, <1>8, <2>0 DEF Budget, RankOK
  <2>2. ASSUME News = 0 PROVE Stage' < Stage
    BY <1>4, <1>6, <1>8, <2>2 DEF Stage
  <2> QED
    BY <2>1, <2>2
<1>9. CASE Class(w) \in {"cut", "prose", "think"}
  <2>1. w.last = Class(w)
    BY <1>9 DEF Class
  <2>2. PICK r \in Mend(w, cnt) :
          /\ win' = r.win /\ cnt' = r.cnt
          /\ IF r.again THEN UNCHANGED door /\ pc' = "look" ELSE LeaveOnError
    BY <1>9 DEF Look
  <2>3. /\ Locals(r.cnt) = Locals(cnt) /\ Marked(r.win) <= Marked(w)
        /\ r.win.last = w.last /\ r.again \in BOOLEAN
        /\ ~ r.again => r.cnt = cnt
        /\ r.again =>
             \/ Repairs(r.cnt) < Repairs(cnt)
             \/ /\ w.last = "think" /\ Repairs(r.cnt) = Repairs(cnt)
                /\ Room(MaxInvalid, r.cnt.total) < Room(MaxInvalid, cnt.total)
    BY <1>2, <1>9, <2>1, MendRepairs DEF TypeOK
  <2>4. CASE ~ r.again
    BY <1>8, <1>9, <2>2, <2>3, <2>4 DEF LeaveOnError
  <2>5. CASE r.again /\ Repairs(r.cnt) < Repairs(cnt)
    <3>1. Marked(win') \in 0..1 /\ Marked(win') <= Marked(win)
      BY <1>1, <1>2, <2>2, <2>3 DEF RankOK, Marked, Unit
    <3> QED
      BY <1>1, <1>4, <2>2, <2>3, <2>5, <3>1 DEF Budget, RankOK
  <2>6. CASE /\ r.again /\ w.last = "think" /\ Repairs(r.cnt) = Repairs(cnt)
             /\ Room(MaxInvalid, r.cnt.total) < Room(MaxInvalid, cnt.total)
    <3>1. Marked(win') \in 0..1 /\ Marked(win') <= Marked(win)
      BY <1>1, <1>2, <2>2, <2>3 DEF RankOK, Marked, Unit
    <3>2. Budget' <= Budget
      BY <1>1, <1>4, <2>2, <2>3, <2>6, <3>1 DEF Budget, RankOK
    <3>3. ASSUME News = 0 PROVE Stage' <= Stage /\ Patience' < Patience
      <4>1. Class(win) = "think" /\ ~ Productive(win) /\ ~ Productive(win')
        BY <1>6, <2>1, <2>2, <2>3, <2>6, <3>3 DEF Productive
      <4>2. Stage = 8
        BY <1>4, <3>3, <4>1 DEF Stage
      <4>3. Patience' < Patience
        BY <2>2, <2>6, <4>1 DEF Patience
      <4> QED
        BY <1>1, <4>2, <4>3 DEF RankOK
    <3> QED
      BY <3>2, <3>3
  <2> QED
    BY <2>3, <2>4, <2>5, <2>6
<1>10. CASE Class(w) = "final" /\ win' = w /\ cnt' = c /\ pc' = "tasks"
  BY <1>1, <1>2, <1>3, <1>8, <1>10 DEF RankOK, Marked, Unit
<1>11. CASE /\ Class(w) = "failed" /\ win' = [w EXCEPT !.err = TRUE] /\ pc' = "leave"
            /\ cnt' = cnt
  <2>1. Marked(win') <= Marked(w)
    BY <1>2, <1>11 DEF Marked, Unit, Windows
  <2> QED
    BY <1>8, <1>11, <2>1
<1> HIDE DEF w, c
<1>12. Look => \/ Class(w) = "continue" /\ win' = w /\ cnt' = c /\ pc' = "call"
               \/ Class(w) = "final" /\ win' = w /\ cnt' = c /\ pc' = "tasks"
               \/ /\ Class(w) = "failed" /\ win' = [w EXCEPT !.err = TRUE]
                  /\ pc' = "leave" /\ cnt' = cnt
               \/ Class(w) \in {"cut", "prose", "think"}
  BY DEF Look, LeaveOnError, w, c
<1> QED
  BY <1>7, <1>9, <1>10, <1>11, <1>12

(***************************************************************************)
(* A step of the model.  Where the loop goes on, the step has spent a      *)
(* budget, or its answer ends the next iteration, or it used up patience.  *)
(***************************************************************************)
LEMMA SettleDescends ==
  ASSUME TypeOK, TypeOK', ToCall, UNCHANGED left,
         NEW w \in Windows, NEW c \in Counters, NEW again \in BOOLEAN,
         NEW text \in BOOLEAN, Settle(w, c, again, text),
         Locals(c) = Locals(cnt), Repairs(c) <= Repairs(cnt), Marked(w) <= Marked(win),
         again => \/ Repairs(c) < Repairs(cnt)
                  \/ News > 0 \/ Class(w) \notin {"continue", "think"}
                  \/ /\ ~ Productive(w)
                     /\ Room(MaxInvalid, c.total) < Room(MaxInvalid, cnt.total)
  PROVE  Below(Rank', Rank)
<1>1. RankOK /\ RankOK'
  BY RankTyped, RankTypedNext
<1>2. /\ pc = "call" /\ pc' \in {"look", "tasks", "leave"}
      /\ Fuel' = Fuel /\ Running' = Running /\ News' = News
      /\ GoalRoom' = GoalRoom /\ taskReact' = taskReact /\ Stage = 8
  BY DEF ToCall, Settle, LeaveOnError, Fuel, Running, News, GoalRoom, Unit, Stage
<1>3. SUFFICES \/ Budget' < Budget
               \/ Budget' <= Budget /\ Stage' < Stage
               \/ Budget' <= Budget /\ Stage' <= Stage /\ Patience' < Patience
  BY <1>1, <1>2, <1>3, Descent DEF RankOK
<1> DEFINE said == IF text /\ c.said < TextTrigger THEN c.said + 1 ELSE c.said
           d == [c EXCEPT !.said = said, !.skip = FALSE]
<1>4. said \in Nat
  BY DEF Counters
<1>5. /\ d \in Counters /\ d.total = c.total /\ d.loops = c.loops
      /\ Locals(d) = Locals(cnt) /\ Repairs(d) = Repairs(c)
  <2> HIDE DEF said
  <2>1. /\ d \in Counters /\ d.total = c.total /\ d.loops = c.loops
        /\ d.verifies = c.verifies /\ d.guard = c.guard /\ d.resumed = c.resumed
        /\ d.rescued = c.rescued /\ d.length = c.length /\ d.textTool = c.textTool
        /\ d.ngram = c.ngram
    BY <1>4 DEF Counters
  <2> HIDE DEF d
  <2> QED
    BY <2>1 DEF Locals, Repairs
<1>6. /\ Marked(w) \in 0..1 /\ Marked(win') \in 0..1 /\ Repairs(c) \in Nat
  BY RepairsTyped DEF Marked, Unit
<1>7. CASE /\ win' = w /\ cnt' = d
           /\ IF again THEN pc' = "look" /\ UNCHANGED door
                       ELSE pc' = "tasks" /\ door' = "break"
  <2>1. Budget' <= Budget /\ (Repairs(c) < Repairs(cnt) => Budget' < Budget)
    <3> HIDE DEF d
    <3> QED
      BY <1>1, <1>2, <1>5, <1>6, <1>7 DEF Budget, RankOK
  <2>2. CASE ~ again
    <3>1. Stage' < Stage
      BY <1>2, <1>7, <2>2 DEF Stage
    <3> QED
      BY <2>1, <3>1
  <2>3. CASE again /\ (News > 0 \/ Class(w) \notin {"continue", "think"})
    <3>1. Stage' < Stage
      BY <1>2, <1>7, <2>3 DEF Stage
    <3> QED
      BY <2>1, <3>1
  <2>4. CASE /\ again /\ ~ Productive(w)
             /\ Room(MaxInvalid, c.total) < Room(MaxInvalid, cnt.total)
    <3>1. Patience' < Patience
      <4> HIDE DEF d
      <4> QED
        BY <1>2, <1>5, <1>7, <2>4 DEF Patience
    <3> QED
      BY <1>1, <1>2, <2>1, <3>1 DEF RankOK
  <2> QED
    BY <2>1, <2>2, <2>3, <2>4
<1>8. CASE /\ c.loops < MaxLoops
           /\ win' = Nudge(w) /\ cnt' = [d EXCEPT !.loops = @ + 1, !.said = 0]
  <2>1. Marked(win') <= Marked(win)
    BY <1>1, <1>6, <1>8, NudgeMarks DEF RankOK
  <2>2. Locals(cnt') = Locals(cnt) /\ Repairs(cnt') < Repairs(c)
    <3> DEFINE e == [d EXCEPT !.loops = @ + 1, !.said = 0]
    <3>1. /\ e.loops = c.loops + 1
          /\ e.verifies = d.verifies /\ e.guard = d.guard /\ e.resumed = d.resumed
          /\ e.rescued = d.rescued /\ e.length = d.length /\ e.textTool = d.textTool
          /\ e.ngram = d.ngram
      <4> HIDE DEF d
      <4> QED
        BY <1>5 DEF Counters
    <3>2. Room(MaxLoops, c.loops + 1) < Room(MaxLoops, c.loops)
      BY <1>8, RoomFacts, CapTypes DEF Counters
    <3>3. MaxNgram + 1 \in Nat
      BY CapTypes
    <3>4. /\ Room(MaxLength, d.length) \in Nat /\ Room(MaxTextTool, d.textTool) \in Nat
          /\ Room(MaxNgram + 1, d.ngram) \in Nat /\ Room(MaxLoops, c.loops) \in Nat
          /\ Room(MaxLoops, c.loops + 1) \in Nat
      <4> HIDE DEF d
      <4>1. /\ d.length \in Nat /\ d.textTool \in Nat /\ d.ngram \in Nat
            /\ c.loops \in Nat /\ c.loops + 1 \in Nat
        BY <1>5 DEF Counters
      <4> QED
        BY <4>1, <3>3, RoomFacts, CapTypes
    <3>5. cnt' = e
      BY <1>8
    <3> HIDE DEF d, e
    <3> QED
      BY <1>5, <3>1, <3>2, <3>4, <3>5 DEF Locals, Repairs
  <2> QED
    BY <1>1, <1>2, <1>6, <2>1, <2>2 DEF Budget, RankOK
<1>9. CASE win' = w /\ cnt' = d /\ LeaveOnError
  <2>1. Stage' < Stage
    BY <1>2, <1>9 DEF LeaveOnError, Stage
  <2>2. Budget' <= Budget
    <3> HIDE DEF d
    <3> QED
      BY <1>1, <1>2, <1>5, <1>6, <1>9 DEF Budget, RankOK
  <2> QED
    BY <2>1, <2>2
<1> QED
  BY <1>7, <1>8, <1>9 DEF Settle

LEMMA ProducedMarks ==
  ASSUME TypeOK, NEW k \in Kinds \ {"none"}, NEW e \in BOOLEAN
  PROVE  /\ Produced(k, e) \in Windows /\ Produced(k, e).last = k
         /\ Marked(Produced(k, e)) = Marked(win)
         /\ Produced(k, e).err = e /\ Produced(k, e).fresh = (unread = "no")
<1>1. Produced(k, e) \in Windows /\ Produced(k, e).last = k
  BY ProducedCarries DEF TypeOK, WindowTyped, Carries
<1>2. /\ Produced(k, e).marker = win.marker
      /\ Produced(k, e).err = e /\ Produced(k, e).fresh = (unread = "no")
  BY DEF Produced, TypeOK, Windows
<1> QED
  BY <1>1, <1>2 DEF Marked

(* Where the fuel is spent, nothing else matters.                            *)
LEMMA FuelDescends ==
  ASSUME TypeOK, TypeOK', UseTools \/ Overflow \/ (ProviderOverflow /\ ~ EndlessOverflow)
  PROVE  Below(Rank', Rank)
<1>1. RankOK /\ RankOK'
  BY RankTyped, RankTypedNext
<1>2. Fuel' < Fuel
  <2>1. CASE UseTools
    BY <2>1 DEF UseTools, Spend, Fuel, TypeOK
  <2>2. CASE Overflow
    BY <2>2 DEF Overflow, Spend, Fuel, TypeOK
  <2>3. CASE ProviderOverflow /\ ~ EndlessOverflow
    BY <2>3 DEF ProviderOverflow, Fuel, TypeOK
  <2> QED
    BY <2>1, <2>2, <2>3
<1> QED
  BY <1>1, <1>2, Descent DEF RankOK

LEMMA AnswerDescends == ASSUME TypeOK, TypeOK', Answer PROVE Below(Rank', Rank)
<1>1. PICK k \in {"answer", "echo"} : Settle(Produced(k, FALSE), Rearm(cnt), TRUE, TRUE)
  BY Zenon DEF Answer
<1>2. /\ Produced(k, FALSE) \in Windows /\ Produced(k, FALSE).last = k
      /\ Marked(Produced(k, FALSE)) = Marked(win) /\ Produced(k, FALSE).err = FALSE
      /\ Produced(k, FALSE).fresh = (unread = "no")
  BY ProducedMarks DEF Kinds
<1>3. News > 0 \/ Class(Produced(k, FALSE)) \notin {"continue", "think"}
  <2>1. CASE unread = "no"
    BY <1>2, <2>1 DEF Class
  <2>2. CASE unread # "no"
    BY <2>2 DEF News, Unit
  <2> QED
    BY <2>1, <2>2
<1>4. /\ Rearm(cnt) \in Counters /\ Locals(Rearm(cnt)) = Locals(cnt)
      /\ Repairs(Rearm(cnt)) = Repairs(cnt)
  BY RearmKeeps DEF TypeOK
<1>5. ToCall /\ UNCHANGED left
  BY DEF Answer
<1>6. Repairs(Rearm(cnt)) <= Repairs(cnt) /\ Marked(Produced(k, FALSE)) <= Marked(win)
  <2>1. Repairs(cnt) <= Repairs(cnt) /\ Marked(win) <= Marked(win)
    BY RankTyped DEF RankOK
  <2> QED
    BY <1>2, <1>4, <2>1, Zenon
<1> QED
  BY <1>1, <1>2, <1>3, <1>4, <1>5, <1>6, SettleDescends, Zenon

LEMMA MisstepDescends == ASSUME TypeOK, TypeOK', Misstep PROVE Below(Rank', Rank)
<1>1. PICK k \in {"cut", "prose", "think"} : \E r \in Mend(Produced(k, FALSE), cnt) :
        Settle(r.win, r.cnt, r.again, k # "think")
  BY DEF Misstep
<1> DEFINE w == Produced(k, FALSE)
<1>2. w \in Windows /\ w.last = k /\ Marked(w) = Marked(win)
  BY ProducedMarks DEF Kinds
<1> HIDE DEF w
<1>3. PICK r \in Mend(w, cnt) : Settle(r.win, r.cnt, r.again, k # "think")
  BY <1>1 DEF w
<1>4. /\ r.cnt \in Counters /\ r.again \in BOOLEAN
      /\ Locals(r.cnt) = Locals(cnt) /\ Marked(r.win) <= Marked(w)
      /\ r.win.last = w.last
      /\ ~ r.again => r.cnt = cnt
      /\ r.again =>
           \/ Repairs(r.cnt) < Repairs(cnt)
           \/ /\ w.last = "think" /\ Repairs(r.cnt) = Repairs(cnt)
              /\ Room(MaxInvalid, r.cnt.total) < Room(MaxInvalid, cnt.total)
  BY <1>2, MendRepairs DEF TypeOK
<1>5. r.win \in Windows
  BY <1>2, MendCarries DEF Carries
<1>6. Repairs(cnt) \in Nat /\ Repairs(r.cnt) \in Nat /\ Marked(win) \in 0..1
  BY <1>4, RepairsTyped, RankTyped DEF RankOK
<1>7. r.win.last = "think" => ~ Productive(r.win)
  BY DEF Productive
<1>8. ToCall /\ UNCHANGED left
  BY DEF Misstep
<1>9. Repairs(r.cnt) <= Repairs(cnt)
  BY <1>4, <1>6
<1> QED
  BY <1>2, <1>3, <1>4, <1>5, <1>6, <1>7, <1>8, <1>9, SettleDescends

LEMMA FailDescends == ASSUME TypeOK, TypeOK', Fail PROVE Below(Rank', Rank)
<1>1. Produced("failed", TRUE) \in Windows /\ Marked(Produced("failed", TRUE)) = Marked(win)
  BY ProducedMarks DEF Kinds
<1>2. Repairs(cnt) <= Repairs(cnt) /\ Marked(win) <= Marked(win) /\ cnt \in Counters
  BY RankTyped DEF RankOK, TypeOK
<1>3. ToCall /\ UNCHANGED left
  BY DEF Fail
<1>4. Settle(Produced("failed", TRUE), cnt, FALSE, FALSE)
  BY Zenon DEF Fail
<1>5. Marked(Produced("failed", TRUE)) <= Marked(win)
  BY <1>1, <1>2
<1> QED
  BY <1>1, <1>2, <1>3, <1>4, <1>5, SettleDescends, Zenon

LEMMA RepeatDescends == ASSUME TypeOK, TypeOK', Repeat PROVE Below(Rank', Rank)
<1> DEFINE w == Produced("open", FALSE)
           c == [cnt EXCEPT !.ngram = @ + 1]
<1>1. w \in Windows /\ Marked(w) = Marked(win)
  BY ProducedMarks DEF Kinds
<1> HIDE DEF w
<1>2. Repairs(cnt) \in Nat /\ Marked(win) \in 0..1 /\ cnt \in Counters
  BY RankTyped DEF RankOK, TypeOK
<1>3. ToCall /\ UNCHANGED left
  BY DEF Repeat
<1>4. CASE cnt.ngram <= MaxNgram /\ Settle(Nudge(w), c, TRUE, TRUE)
  <2>1. Nudge(w) \in Windows /\ Marked(Nudge(w)) <= Marked(win)
    BY <1>1, NudgeMarks, NudgeCarries DEF Carries
  <2>2. /\ c \in Counters /\ c.ngram = cnt.ngram + 1
        /\ c.verifies = cnt.verifies /\ c.guard = cnt.guard
        /\ c.resumed = cnt.resumed /\ c.rescued = cnt.rescued
        /\ c.length = cnt.length /\ c.textTool = cnt.textTool /\ c.loops = cnt.loops
    BY <1>2 DEF Counters
  <2> HIDE DEF c
  <2>3. Locals(c) = Locals(cnt)
    BY <2>2 DEF Locals
  <2>4. Repairs(c) < Repairs(cnt)
    <3>1. /\ MaxNgram + 1 \in Nat /\ cnt.ngram \in Nat /\ cnt.ngram + 1 \in Nat
          /\ cnt.length \in Nat /\ cnt.textTool \in Nat /\ cnt.loops \in Nat
          /\ cnt.ngram < MaxNgram + 1
      BY <1>2, <1>4, CapTypes DEF Counters
    <3>2. /\ Room(MaxLength, cnt.length) \in Nat /\ Room(MaxTextTool, cnt.textTool) \in Nat
          /\ Room(MaxNgram + 1, cnt.ngram) \in Nat /\ Room(MaxLoops, cnt.loops) \in Nat
          /\ Room(MaxNgram + 1, cnt.ngram + 1) \in Nat
          /\ Room(MaxNgram + 1, cnt.ngram + 1) < Room(MaxNgram + 1, cnt.ngram)
      BY <3>1, RoomFacts, CapTypes
    <3> QED
      BY <2>2, <3>2 DEF Repairs
  <2>5. Repairs(c) <= Repairs(cnt)
    BY <1>2, <2>2, <2>4, RepairsTyped
  <2> QED
    BY <1>3, <1>4, <2>1, <2>2, <2>3, <2>4, <2>5, SettleDescends
<1>5. CASE Settle(w, cnt, FALSE, TRUE)
  <2>1. Repairs(cnt) <= Repairs(cnt) /\ Marked(w) <= Marked(win)
    BY <1>1, <1>2
  <2> QED
    BY <1>1, <1>2, <1>3, <1>5, <2>1, SettleDescends
<1> QED
  BY <1>4, <1>5 DEF Repeat, w

(* A compaction that is begun is done, rescued or ends the run.              *)
LEMMA CompactionDescends ==
  ASSUME TypeOK, TypeOK', MarkInv, StartCompaction \/ Compacted \/ CompactionFails
  PROVE  Below(Rank', Rank)
<1>1. RankOK /\ RankOK'
  BY RankTyped, RankTypedNext
<1>2. /\ Fuel' = Fuel /\ Running' = Running /\ News' = News
      /\ GoalRoom' = GoalRoom /\ taskReact' = taskReact /\ Stage = 8
  BY DEF StartCompaction, ToCompact, Compacted, CompactionFails, LeaveOnError, Fuel,
     Running, News, GoalRoom, Unit, Stage
<1>3. SUFFICES \/ Budget' < Budget
               \/ /\ Budget' <= Budget
                  /\ \/ Stage' < Stage
                     \/ Stage' <= Stage /\ Patience' <= Patience /\ Place' < Place
  BY <1>1, <1>2, <1>3, Descent DEF RankOK
<1>4. CASE StartCompaction
  <2>1. cnt' = cnt /\ win' = win /\ pc = "call" /\ pc' \in {"compactAuto", "compactManual"}
    BY <1>4 DEF StartCompaction, ToCompact
  <2>2. Budget' = Budget
    BY <1>2, <2>1 DEF Budget
  <2>3. Patience' = Patience /\ Place' < Place
    BY <2>1 DEF Patience, Place
  <2> QED
    BY <1>1, <1>2, <2>2, <2>3 DEF RankOK
<1>5. CASE Compacted
  <2>1. cnt' = cnt /\ pc' = "look" /\ Marked(win') = 0
    BY <1>5 DEF Compacted, Marked, Unit, TypeOK, Windows
  <2>2. Budget' <= Budget /\ (Marked(win) > 0 => Budget' < Budget)
    BY <1>1, <1>2, <2>1 DEF Budget, RankOK
  <2>3. CASE News > 0
    BY <1>2, <2>1, <2>2, <2>3 DEF Stage
  <2>4. CASE News = 0
    <3>1. unread = "no"
      BY <2>4 DEF News, Unit
    <3>2. Marked(win) > 0
      BY <1>5, <3>1 DEF Compacted, MarkInv, Marked, Unit
    <3> QED
      BY <2>2, <3>2
  <2> QED
    BY <1>1, <2>3, <2>4 DEF RankOK
<1>6. CASE ~ cnt.rescued /\ Marked(win') = 0
           /\ cnt' = [cnt EXCEPT !.rescued = TRUE, !.skip = TRUE]
  <2> DEFINE c == [cnt EXCEPT !.rescued = TRUE, !.skip = TRUE]
  <2>1. /\ c.rescued = TRUE
        /\ c.verifies = cnt.verifies /\ c.guard = cnt.guard /\ c.resumed = cnt.resumed
        /\ c.length = cnt.length /\ c.textTool = cnt.textTool /\ c.loops = cnt.loops
        /\ c.ngram = cnt.ngram
    BY DEF TypeOK, Counters
  <2>2. cnt' = c
    BY <1>6
  <2> HIDE DEF c
  <2>3. Room(MaxVerify, cnt.verifies) \in Nat /\ Room(MaxGuard, cnt.guard) \in Nat
    BY RoomFacts, CapTypes DEF TypeOK, Counters
  <2>4. Locals(cnt') < Locals(cnt) /\ Repairs(cnt') = Repairs(cnt)
    BY <1>6, <2>1, <2>2, <2>3 DEF Locals, Repairs, Unit
  <2> QED
    BY <1>1, <1>2, <1>6, <2>4 DEF Budget, RankOK
<1>7. CASE cnt' = cnt /\ win'.marker = win.marker /\ LeaveOnError
  <2>1. Budget' = Budget
    BY <1>2, <1>7 DEF Budget, Marked
  <2>2. Stage' < Stage
    BY <1>2, <1>7 DEF LeaveOnError, Stage
  <2> QED
    BY <1>1, <2>1, <2>2 DEF RankOK
<1>8. ASSUME CompactionFails, ~ (cnt' = cnt /\ win'.marker = win.marker /\ LeaveOnError)
      PROVE  /\ ~ cnt.rescued /\ Marked(win') = 0
             /\ cnt' = [cnt EXCEPT !.rescued = TRUE, !.skip = TRUE]
  <2>1. /\ ~ cnt.rescued /\ win' = Boundary(win, "no")
        /\ cnt' = [cnt EXCEPT !.rescued = TRUE, !.skip = TRUE]
    <3>1. ~ (/\ win' = [win EXCEPT !.last = "summary", !.err = TRUE,
                                   !.fresh = unread = "no"]
             /\ LeaveOnError /\ UNCHANGED cnt)
      BY <1>8 DEF TypeOK, Windows
    <3> QED
      BY <1>8, <3>1 DEF CompactionFails
  <2>2. Boundary(win, "no").marker = "no"
    BY DEF Boundary
  <2> QED
    BY <2>1, <2>2 DEF Marked, Unit
<1> QED
  BY <1>4, <1>5, <1>6, <1>7, <1>8

(* Nothing goes down in this order for ever.                                 *)
THEOREM BelowIsWellFounded ==
  ~ \E f \in [Nat -> Words] : \A n \in Nat : Below(f[n + 1], f[n])
<1> DEFINE Less == {ss \in Nat \X Nat : ss[1] < ss[2]}
           Order == LexProductOrdering(Less, Nat, 7)
<1>1. IsWellFoundedOn(Order, Words)
  <2>1. IsWellFoundedOn(Less, Nat)
    BY NatLessThanWellFounded DEF OpToRel
  <2> HIDE DEF Less
  <2> QED
    BY <2>1, WFLexProductOrdering DEF Words
<1>2. ASSUME NEW s \in Words, NEW t \in Words, Below(s, t) PROVE <<s, t>> \in Order
  <2>1. PICK i \in 1..7 : s[i] < t[i] /\ \A j \in 1..7 : j < i => s[j] = t[j]
    BY <1>2 DEF Below
  <2>2. <<s[i], t[i]>> \in Less
    BY <2>1 DEF Words
  <2>3. \A j \in 1..(i - 1) : s[j] = t[j]
    BY <2>1
  <2> HIDE DEF Less
  <2> QED
    BY <2>2, <2>3 DEF LexProductOrdering, Words
<1>3. SUFFICES ASSUME NEW f \in [Nat -> Words], \A n \in Nat : Below(f[n + 1], f[n])
               PROVE  FALSE
  OBVIOUS
<1>4. \A n \in Nat : <<f[n + 1], f[n]>> \in Order
  <2> HIDE DEF Order
  <2>1. ASSUME NEW n \in Nat PROVE <<f[n + 1], f[n]>> \in Order
    <3>1. f[n + 1] \in Words /\ f[n] \in Words /\ Below(f[n + 1], f[n])
      BY <1>3, <2>1
    <3> QED
      BY <1>2, <3>1
  <2> QED
    BY <2>1
<1> HIDE DEF Order
<1> QED
  BY <1>1, <1>4 DEF IsWellFoundedOn

(* The rank of every state is such a word.                                   *)
THEOREM RankIsWord == Spec => [](Rank \in Words)
<1>1. RankOK => Rank \in Words
  <2> SUFFICES ASSUME RankOK PROVE Rank \in Words
    OBVIOUS
  <2>1. /\ Fuel \in Nat /\ Running \in Nat /\ Budget \in Nat /\ News \in Nat
        /\ Stage \in Nat /\ Patience \in Nat /\ Place \in Nat
    BY DEF RankOK
  <2> QED
    BY <2>1 DEF Rank, Words
<1> QED
  BY <1>1, RankTyped, TurnTypes, PTL

(* Every step of the loop brings its run nearer to its end, whatever the     *)
(* model, the judge and the tools do, in whatever order the gates, repairs   *)
(* and context boundaries alternate, and whatever else happens meanwhile;    *)
(* only overflows that the provider goes on to report do not.                *)
THEOREM RunDescends ==
  Spec => [][Loop => Below(Rank', Rank) \/ (EndlessOverflow /\ ProviderOverflow)]_vars
<1>1. Init => MarkInv
  BY DEF Init, MarkInv
<1>2. Spec => []MarkInv
  BY <1>1, MarkStep, PTL DEF Spec
<1>3. TypeOK /\ TypeOK' /\ MarkInv /\ [Next]_vars =>
        (Loop => Below(Rank', Rank) \/ (EndlessOverflow /\ ProviderOverflow))
  BY GatesDescend, LeaveDescends, LookDescends, FuelDescends, AnswerDescends,
     MisstepDescends, FailDescends, RepeatDescends, CompactionDescends DEF Loop
<1> QED
  BY <1>2, <1>3, TurnTypes, PTL DEF Spec
=============================================================================
