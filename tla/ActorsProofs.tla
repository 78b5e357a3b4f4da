----------------------------- MODULE ActorsProofs ------------------------------
(* Proofs about Actors, for any actors, limits of the loops and number of    *)
(* restarts: the rows, the verdicts, and the parts of "a wait hears the end"  *)
(* and "a call comes back" that do not depend on fairness.                   *)
EXTENDS Actors, Integers, TLAPS

(***************************************************************************)
(* The invariant.  A loop has run no more turns than its limit, and fewer  *)
(* while one more is to come.  What has been said of the outcome follows   *)
(* from where the fiber is.                                                *)
(***************************************************************************)
TurnsAreLimited == \A a \in Actors :
  /\ pc[a] \in {"new", "registered", "forked", "again", "begin", "turn", "stopped"}
       => turns[a] + 1 <= Limit(phase[a])
  /\ pc[a] = "check" => turns[a] <= Limit(phase[a])
  /\ pc[a] \in {"new", "registered", "forked"} => phase[a] = "pre"

NothingSaid(a) == note[a] = "none" /\ outcome[a] = "none"

Said(a) ==
  /\ phase[a] = "pre" => NothingSaid(a) /\ pc[a] \notin {"notify", "settle", "over"}
  /\ phase[a] = "gate" =>
       /\ outcome[a] = "none" /\ note[a] \in {"none", "success"}
       /\ note[a] # "none" => pc[a] \in {"settle", "lost"}
       /\ pc[a] # "over"
  /\ phase[a] = "post" =>
       /\ outcome[a] = "success" /\ note[a] \in {"none", "success"}
       /\ pc[a] \notin {"notify", "settle"}
  /\ phase[a] = "failed" =>
       /\ pc[a] \in {"notify", "settle", "over", "lost"}
       /\ note[a] \in {"none", "failure"} /\ outcome[a] \in {"none", "failure"}
       /\ pc[a] = "notify" => NothingSaid(a)
       /\ pc[a] = "settle" => outcome[a] = "none"
       /\ pc[a] = "over" => outcome[a] = "failure"

SaidOnce == \A a \in Actors : Said(a)

IInv ==
  /\ FlagTypes /\ StateTypes /\ TurnsAreLimited /\ ActiveRowHasFiber
  /\ SaidOnce

LEMMA InitInv == Init => IInv
<1> SUFFICES ASSUME Init PROVE IInv
  OBVIOUS
<1>1. FlagTypes
  BY DEF Init, FlagTypes
<1>2. StateTypes
  BY ActorsAssumption DEF Init, StateTypes, Rows, Statuses, Outcomes, Bound
<1>3. TurnsAreLimited /\ ActiveRowHasFiber /\ SaidOnce
  BY ActorsAssumption DEF Init, TurnsAreLimited, Limit, ActiveRowHasFiber,
     SaidOnce,
     Said, NothingSaid
<1> QED
  BY <1>1, <1>2, <1>3 DEF IInv

(* The types are kept by every action.                                       *)
LEMMA FlagStep == FlagTypes /\ [Next]_vars => FlagTypes'
<1> SUFFICES ASSUME FlagTypes, [Next]_vars PROVE FlagTypes'
  OBVIOUS
<1> USE ActorsAssumption
<1>1. ASSUME NEW a \in Actors, Register(a) PROVE FlagTypes'
  BY <1>1 DEF Register, Goes, answer, FlagTypes
<1>2. ASSUME NEW a \in Actors, BeginTurn(a) PROVE FlagTypes'
  BY <1>2 DEF BeginTurn, Goes, UpdateStatus, answer, FlagTypes
<1>3. ASSUME NEW a \in Actors, EnterLoop(a) PROVE FlagTypes'
  BY <1>3 DEF EnterLoop, Goes, answer, FlagTypes
<1>4. ASSUME NEW a \in Actors, EndTurn(a) PROVE FlagTypes'
  BY <1>4 DEF EndTurn, Goes, UpdateStatus, answer, FlagTypes
<1>5. ASSUME NEW a \in Actors, TurnDies(a) PROVE FlagTypes'
  BY <1>5 DEF TurnDies, Goes, UpdateStatus, answer, FlagTypes
<1>6. ASSUME NEW a \in Actors, AnotherTurn(a) PROVE FlagTypes'
  BY <1>6 DEF AnotherTurn, Goes, answer, FlagTypes
<1>7. ASSUME NEW a \in Actors, LeaveLoop(a) PROVE FlagTypes'
  BY <1>7 DEF LeaveLoop, Goes, answer, FlagTypes
<1>8. ASSUME NEW a \in Actors, Notify(a) PROVE FlagTypes'
  BY <1>8 DEF Notify, Goes, Verdict, FlagTypes
<1>9. ASSUME NEW a \in Actors, Settle(a) PROVE FlagTypes'
  BY <1>9 DEF Settle, Goes, Verdict, FlagTypes
<1>10. ASSUME NEW a \in Actors, Joined(a) PROVE FlagTypes'
  BY <1>10 DEF Joined, Ended, fiber, answer, FlagTypes
<1>11. ASSUME NEW a \in Actors, CallReturns(a) PROVE FlagTypes'
  BY <1>11 DEF CallReturns, fiber, answer, FlagTypes
<1>12. ASSUME NEW a \in Actors, CallTimesOut(a) PROVE FlagTypes'
  BY <1>12 DEF CallTimesOut, fiber, answer, FlagTypes
<1>13. ASSUME NEW a \in Actors, CancelStamp(a) PROVE FlagTypes'
  BY <1>13 DEF CancelStamp, UpdateStatus, fiber, answer, FlagTypes
<1>14. ASSUME NEW a \in Actors, CancelRun(a) PROVE FlagTypes'
  BY <1>14 DEF CancelRun, answer, FlagTypes
<1>15. ASSUME NEW a \in Actors, WaitCall(a) PROVE FlagTypes'
  BY <1>15 DEF WaitCall, fiber, answer, FlagTypes
<1>16. ASSUME NEW a \in Actors, Subscribe(a) PROVE FlagTypes'
  BY <1>16 DEF Subscribe, fiber, answer, FlagTypes
<1>17. ASSUME NEW a \in Actors, Recheck(a) PROVE FlagTypes'
  BY <1>17 DEF Recheck, fiber, answer, FlagTypes
<1>18. ASSUME NEW a \in Actors, LookAgain(a) PROVE FlagTypes'
  BY <1>18 DEF LookAgain, fiber, answer, FlagTypes
<1>19. ASSUME NEW a \in Actors, WaitTimesOut(a) PROVE FlagTypes'
  BY <1>19 DEF WaitTimesOut, fiber, answer, FlagTypes
<1>20. ASSUME Restart PROVE FlagTypes'
  BY <1>20 DEF Restart, Ended, Orphan, answer, FlagTypes
<1>21. ASSUME UNCHANGED vars PROVE FlagTypes'
  BY <1>21 DEF vars, fiber, answer, FlagTypes
<1>22. ASSUME NEW a \in Actors, Fork(a) PROVE FlagTypes'
  BY <1>22 DEF Fork, Goes, answer, FlagTypes
<1>23. ASSUME NEW a \in Actors, SpawnDies(a) PROVE FlagTypes'
  BY <1>23 DEF SpawnDies, Goes, answer, FlagTypes
<1> QED
  BY <1>1, <1>2, <1>3, <1>4, <1>5, <1>6, <1>7, <1>8, <1>9, <1>10, <1>11,
     <1>12, <1>13, <1>14, <1>15, <1>16, <1>17, <1>18, <1>19, <1>20, <1>21,
       <1>22, <1>23 DEF Next

LEMMA StateStep == StateTypes /\ TurnsAreLimited /\ [Next]_vars => StateTypes'
<1> SUFFICES ASSUME StateTypes /\ TurnsAreLimited,
[Next]_vars PROVE StateTypes'
  OBVIOUS
<1> USE ActorsAssumption
<1>1. ASSUME NEW a \in Actors, Register(a) PROVE StateTypes'
  BY <1>1 DEF Register, Goes, answer, StateTypes, Rows, Statuses, Outcomes,
     Bound, TurnsAreLimited, Limit
<1>2. ASSUME NEW a \in Actors, BeginTurn(a) PROVE StateTypes'
  BY <1>2 DEF BeginTurn, Goes, UpdateStatus, answer, StateTypes, Rows,
     Statuses, Outcomes, Bound, TurnsAreLimited, Limit
<1>3. ASSUME NEW a \in Actors, EnterLoop(a) PROVE StateTypes'
  BY <1>3 DEF EnterLoop, Goes, answer, StateTypes, Rows, Statuses, Outcomes,
     Bound, TurnsAreLimited, Limit
<1>4. ASSUME NEW a \in Actors, EndTurn(a) PROVE StateTypes'
  <2>1. UNCHANGED <<phase, note, outcome, call, cancel, wait, crashes>>
    BY <1>4 DEF EndTurn, answer
  <2>2. row' \in [Actors -> Rows]
    BY <1>4 DEF EndTurn, UpdateStatus, StateTypes, Rows, Statuses, Outcomes
  <2>3. turns' \in [Actors -> 0..Bound]
    BY <1>4 DEF EndTurn, StateTypes, Bound, TurnsAreLimited, Limit
  <2> QED
    BY <1>4, <2>1, <2>2, <2>3 DEF EndTurn, Goes, StateTypes
<1>5. ASSUME NEW a \in Actors, TurnDies(a) PROVE StateTypes'
  BY SMTT(30), <1>5 DEF TurnDies, Goes, UpdateStatus, answer, StateTypes, Rows,
     Statuses, Outcomes, Bound, TurnsAreLimited, Limit
<1>6. ASSUME NEW a \in Actors, AnotherTurn(a) PROVE StateTypes'
  BY <1>6 DEF AnotherTurn, Goes, answer, StateTypes, Rows, Statuses, Outcomes,
     Bound, TurnsAreLimited, Limit
<1>7. ASSUME NEW a \in Actors, LeaveLoop(a) PROVE StateTypes'
  <2>1. UNCHANGED <<row, answer, call, cancel, wait, crashes>>
    BY <1>7 DEF LeaveLoop
  <2>2. turns' \in [Actors -> 0..Bound]
    BY <1>7 DEF LeaveLoop, StateTypes, Bound
  <2> QED
    BY <1>7, <2>1, <2>2 DEF LeaveLoop, Goes, answer, StateTypes
<1>8. ASSUME NEW a \in Actors, Notify(a) PROVE StateTypes'
  BY <1>8 DEF Notify, Goes, Verdict, StateTypes, Rows, Statuses, Outcomes,
     Bound, TurnsAreLimited, Limit
<1>9. ASSUME NEW a \in Actors, Settle(a) PROVE StateTypes'
  <2>1. UNCHANGED <<row, note, call, cancel, wait, crashes>>
    BY <1>9 DEF Settle
  <2>2. outcome' \in [Actors -> Outcomes]
    BY <1>9 DEF Settle, Verdict, StateTypes, Outcomes
  <2>3. turns' \in [Actors -> 0..Bound]
    BY <1>9 DEF Settle, StateTypes, Bound
  <2> QED
    BY <1>9, <2>1, <2>2, <2>3 DEF Settle, Goes, StateTypes
<1>10. ASSUME NEW a \in Actors, Joined(a) PROVE StateTypes'
  BY <1>10 DEF Joined, Ended, fiber, answer, StateTypes, Rows, Statuses, Outcomes,
     Bound, TurnsAreLimited, Limit
<1>11. ASSUME NEW a \in Actors, CallReturns(a) PROVE StateTypes'
  BY <1>11 DEF CallReturns, fiber, answer, StateTypes, Rows, Statuses,
     Outcomes, Bound, TurnsAreLimited, Limit
<1>12. ASSUME NEW a \in Actors, CallTimesOut(a) PROVE StateTypes'
  BY <1>12 DEF CallTimesOut, fiber, answer, StateTypes, Rows, Statuses,
     Outcomes, Bound, TurnsAreLimited, Limit
<1>13. ASSUME NEW a \in Actors, CancelStamp(a) PROVE StateTypes'
  BY <1>13 DEF CancelStamp, UpdateStatus, fiber, answer, StateTypes, Rows,
     Statuses, Outcomes, Bound, TurnsAreLimited, Limit
<1>14. ASSUME NEW a \in Actors, CancelRun(a) PROVE StateTypes'
  BY <1>14 DEF CancelRun, answer, StateTypes, Rows, Statuses, Outcomes, Bound,
     TurnsAreLimited, Limit
<1>15. ASSUME NEW a \in Actors, WaitCall(a) PROVE StateTypes'
  BY <1>15 DEF WaitCall, fiber, answer, StateTypes, Rows, Statuses, Outcomes,
     Bound, TurnsAreLimited, Limit
<1>16. ASSUME NEW a \in Actors, Subscribe(a) PROVE StateTypes'
  BY <1>16 DEF Subscribe, fiber, answer, StateTypes, Rows, Statuses, Outcomes,
     Bound, TurnsAreLimited, Limit
<1>17. ASSUME NEW a \in Actors, Recheck(a) PROVE StateTypes'
  BY <1>17 DEF Recheck, fiber, answer, StateTypes, Rows, Statuses, Outcomes,
     Bound, TurnsAreLimited, Limit
<1>18. ASSUME NEW a \in Actors, LookAgain(a) PROVE StateTypes'
  BY <1>18 DEF LookAgain, fiber, answer, StateTypes, Rows, Statuses, Outcomes,
     Bound, TurnsAreLimited, Limit
<1>19. ASSUME NEW a \in Actors, WaitTimesOut(a) PROVE StateTypes'
  BY <1>19 DEF WaitTimesOut, fiber, answer, StateTypes, Rows, Statuses,
     Outcomes, Bound, TurnsAreLimited, Limit
<1>20. ASSUME Restart PROVE StateTypes'
  BY <1>20 DEF Restart, Ended, Orphan, answer, StateTypes, Rows, Statuses, Outcomes,
     Bound, TurnsAreLimited, Limit
<1>21. ASSUME UNCHANGED vars PROVE StateTypes'
  BY <1>21 DEF vars, fiber, answer, StateTypes, Rows, Statuses, Outcomes,
     Bound, TurnsAreLimited, Limit
<1>22. ASSUME NEW a \in Actors, Fork(a) PROVE StateTypes'
  BY <1>22 DEF Fork, Goes, answer, StateTypes, Rows, Statuses, Outcomes,
     Bound, TurnsAreLimited, Limit
<1>23. ASSUME NEW a \in Actors, SpawnDies(a) PROVE StateTypes'
  BY <1>23 DEF SpawnDies, Goes, answer, StateTypes, Rows, Statuses, Outcomes,
     Bound, TurnsAreLimited, Limit
<1> QED
  BY <1>1, <1>2, <1>3, <1>4, <1>5, <1>6, <1>7, <1>8, <1>9, <1>10, <1>11,
     <1>12, <1>13, <1>14, <1>15, <1>16, <1>17, <1>18, <1>19, <1>20, <1>21,
       <1>22, <1>23 DEF Next

(* A loop begins with no turn run and asks for one more below its limit.     *)
LEMMA TurnsStep == StateTypes /\ TurnsAreLimited /\ [Next]_vars => TurnsAreLimited'
<1> SUFFICES ASSUME StateTypes /\ TurnsAreLimited,
[Next]_vars PROVE TurnsAreLimited'
  OBVIOUS
<1> USE ActorsAssumption
<1>1. ASSUME NEW a \in Actors, Register(a) PROVE TurnsAreLimited'
  BY <1>1 DEF Register, Goes, answer, StateTypes, Rows, Statuses, Outcomes,
     Bound, TurnsAreLimited, Limit
<1>2. ASSUME NEW a \in Actors, BeginTurn(a) PROVE TurnsAreLimited'
  BY <1>2 DEF BeginTurn, Goes, UpdateStatus, answer, StateTypes, Rows,
     Statuses, Outcomes, Bound, TurnsAreLimited, Limit
<1>3. ASSUME NEW a \in Actors, EnterLoop(a) PROVE TurnsAreLimited'
  BY <1>3 DEF EnterLoop, Goes, answer, StateTypes, Rows, Statuses, Outcomes,
     Bound, TurnsAreLimited, Limit
<1>4. ASSUME NEW a \in Actors, EndTurn(a) PROVE TurnsAreLimited'
  BY <1>4 DEF EndTurn, Goes, UpdateStatus, answer, StateTypes, Rows, Statuses,
     Outcomes, Bound, TurnsAreLimited, Limit
<1>5. ASSUME NEW a \in Actors, TurnDies(a) PROVE TurnsAreLimited'
  BY <1>5 DEF TurnDies, Goes, UpdateStatus, answer, StateTypes, Rows,
     Statuses, Outcomes, Bound, TurnsAreLimited, Limit
<1>6. ASSUME NEW a \in Actors, AnotherTurn(a) PROVE TurnsAreLimited'
  BY <1>6 DEF AnotherTurn, Goes, answer, StateTypes, Rows, Statuses, Outcomes,
     Bound, TurnsAreLimited, Limit
<1>7. ASSUME NEW a \in Actors, LeaveLoop(a) PROVE TurnsAreLimited'
  BY <1>7 DEF LeaveLoop, Goes, answer, StateTypes, Rows, Statuses, Outcomes,
     Bound, TurnsAreLimited, Limit
<1>8. ASSUME NEW a \in Actors, Notify(a) PROVE TurnsAreLimited'
  BY <1>8 DEF Notify, Goes, Verdict, StateTypes, Rows, Statuses, Outcomes,
     Bound, TurnsAreLimited, Limit
<1>9. ASSUME NEW a \in Actors, Settle(a) PROVE TurnsAreLimited'
  BY <1>9 DEF Settle, Goes, Verdict, StateTypes, Rows, Statuses, Outcomes,
     Bound, TurnsAreLimited, Limit
<1>10. ASSUME NEW a \in Actors, Joined(a) PROVE TurnsAreLimited'
  BY <1>10 DEF Joined, Ended, fiber, answer, StateTypes, Rows, Statuses, Outcomes,
     Bound, TurnsAreLimited, Limit
<1>11. ASSUME NEW a \in Actors, CallReturns(a) PROVE TurnsAreLimited'
  BY <1>11 DEF CallReturns, fiber, answer, StateTypes, Rows, Statuses,
     Outcomes, Bound, TurnsAreLimited, Limit
<1>12. ASSUME NEW a \in Actors, CallTimesOut(a) PROVE TurnsAreLimited'
  BY <1>12 DEF CallTimesOut, fiber, answer, StateTypes, Rows, Statuses,
     Outcomes, Bound, TurnsAreLimited, Limit
<1>13. ASSUME NEW a \in Actors, CancelStamp(a) PROVE TurnsAreLimited'
  BY <1>13 DEF CancelStamp, UpdateStatus, fiber, answer, StateTypes, Rows,
     Statuses, Outcomes, Bound, TurnsAreLimited, Limit
<1>14. ASSUME NEW a \in Actors, CancelRun(a) PROVE TurnsAreLimited'
  BY <1>14 DEF CancelRun, answer, StateTypes, Rows, Statuses, Outcomes, Bound,
     TurnsAreLimited, Limit
<1>15. ASSUME NEW a \in Actors, WaitCall(a) PROVE TurnsAreLimited'
  BY <1>15 DEF WaitCall, fiber, answer, StateTypes, Rows, Statuses, Outcomes,
     Bound, TurnsAreLimited, Limit
<1>16. ASSUME NEW a \in Actors, Subscribe(a) PROVE TurnsAreLimited'
  BY <1>16 DEF Subscribe, fiber, answer, StateTypes, Rows, Statuses, Outcomes,
     Bound, TurnsAreLimited, Limit
<1>17. ASSUME NEW a \in Actors, Recheck(a) PROVE TurnsAreLimited'
  BY <1>17 DEF Recheck, fiber, answer, StateTypes, Rows, Statuses, Outcomes,
     Bound, TurnsAreLimited, Limit
<1>18. ASSUME NEW a \in Actors, LookAgain(a) PROVE TurnsAreLimited'
  BY <1>18 DEF LookAgain, fiber, answer, StateTypes, Rows, Statuses, Outcomes,
     Bound, TurnsAreLimited, Limit
<1>19. ASSUME NEW a \in Actors, WaitTimesOut(a) PROVE TurnsAreLimited'
  BY <1>19 DEF WaitTimesOut, fiber, answer, StateTypes, Rows, Statuses,
     Outcomes, Bound, TurnsAreLimited, Limit
<1>20. ASSUME Restart PROVE TurnsAreLimited'
  BY <1>20 DEF Restart, Ended, Orphan, answer, StateTypes, Rows, Statuses, Outcomes,
     Bound, TurnsAreLimited, Limit
<1>21. ASSUME UNCHANGED vars PROVE TurnsAreLimited'
  BY <1>21 DEF vars, fiber, answer, StateTypes, Rows, Statuses, Outcomes,
     Bound, TurnsAreLimited, Limit
<1>22. ASSUME NEW a \in Actors, Fork(a) PROVE TurnsAreLimited'
  BY <1>22 DEF Fork, Goes, answer, StateTypes, Rows, Statuses, Outcomes,
     Bound, TurnsAreLimited, Limit
<1>23. ASSUME NEW a \in Actors, SpawnDies(a) PROVE TurnsAreLimited'
  BY <1>23 DEF SpawnDies, Goes, answer, StateTypes, Rows, Statuses, Outcomes,
     Bound, TurnsAreLimited, Limit
<1> QED
  BY <1>1, <1>2, <1>3, <1>4, <1>5, <1>6, <1>7, <1>8, <1>9, <1>10, <1>11,
     <1>12, <1>13, <1>14, <1>15, <1>16, <1>17, <1>18, <1>19, <1>20, <1>21,
       <1>22, <1>23 DEF Next

(* A row is active from the fork or the begin of a turn to its end.           *)
LEMMA RowStep == StateTypes /\ ActiveRowHasFiber /\ [Next]_vars => ActiveRowHasFiber'
<1> SUFFICES ASSUME StateTypes /\ ActiveRowHasFiber,
[Next]_vars PROVE ActiveRowHasFiber'
  OBVIOUS
<1> USE ActorsAssumption
<1>1. ASSUME NEW a \in Actors, Register(a) PROVE ActiveRowHasFiber'
  BY <1>1 DEF Register, Goes, answer, StateTypes, Rows, Statuses, Outcomes,
     Bound, ActiveRowHasFiber
<1>2. ASSUME NEW a \in Actors, BeginTurn(a) PROVE ActiveRowHasFiber'
  BY <1>2 DEF BeginTurn, Goes, UpdateStatus, answer, StateTypes, Rows,
     Statuses, Outcomes, Bound, ActiveRowHasFiber
<1>3. ASSUME NEW a \in Actors, EnterLoop(a) PROVE ActiveRowHasFiber'
  BY <1>3 DEF EnterLoop, Goes, answer, StateTypes, Rows, Statuses, Outcomes,
     Bound, ActiveRowHasFiber
<1>4. ASSUME NEW a \in Actors, EndTurn(a) PROVE ActiveRowHasFiber'
  BY <1>4 DEF EndTurn, Goes, UpdateStatus, answer, StateTypes, Rows, Statuses,
     Outcomes, Bound, ActiveRowHasFiber
<1>5. ASSUME NEW a \in Actors, TurnDies(a) PROVE ActiveRowHasFiber'
  BY <1>5 DEF TurnDies, Goes, UpdateStatus, answer, StateTypes, Rows,
     Statuses, Outcomes, Bound, ActiveRowHasFiber
<1>6. ASSUME NEW a \in Actors, AnotherTurn(a) PROVE ActiveRowHasFiber'
  BY <1>6 DEF AnotherTurn, Goes, answer, StateTypes, Rows, Statuses, Outcomes,
     Bound, ActiveRowHasFiber
<1>7. ASSUME NEW a \in Actors, LeaveLoop(a) PROVE ActiveRowHasFiber'
  BY <1>7 DEF LeaveLoop, Goes, answer, StateTypes, Rows, Statuses, Outcomes,
     Bound, ActiveRowHasFiber
<1>8. ASSUME NEW a \in Actors, Notify(a) PROVE ActiveRowHasFiber'
  BY <1>8 DEF Notify, Goes, Verdict, StateTypes, Rows, Statuses, Outcomes,
     Bound, ActiveRowHasFiber
<1>9. ASSUME NEW a \in Actors, Settle(a) PROVE ActiveRowHasFiber'
  BY <1>9 DEF Settle, Goes, Verdict, StateTypes, Rows, Statuses, Outcomes,
     Bound, ActiveRowHasFiber
<1>10. ASSUME NEW a \in Actors, Joined(a) PROVE ActiveRowHasFiber'
  BY <1>10 DEF Joined, Ended, fiber, answer, StateTypes, Rows, Statuses, Outcomes,
     Bound, ActiveRowHasFiber
<1>11. ASSUME NEW a \in Actors, CallReturns(a) PROVE ActiveRowHasFiber'
  BY <1>11 DEF CallReturns, fiber, answer, StateTypes, Rows, Statuses,
     Outcomes, Bound, ActiveRowHasFiber
<1>12. ASSUME NEW a \in Actors, CallTimesOut(a) PROVE ActiveRowHasFiber'
  BY <1>12 DEF CallTimesOut, fiber, answer, StateTypes, Rows, Statuses,
     Outcomes, Bound, ActiveRowHasFiber
<1>13. ASSUME NEW a \in Actors, CancelStamp(a) PROVE ActiveRowHasFiber'
  BY <1>13 DEF CancelStamp, UpdateStatus, fiber, answer, StateTypes, Rows,
     Statuses, Outcomes, Bound, ActiveRowHasFiber
<1>14. ASSUME NEW a \in Actors, CancelRun(a) PROVE ActiveRowHasFiber'
  BY <1>14 DEF CancelRun, answer, StateTypes, Rows, Statuses, Outcomes, Bound,
     ActiveRowHasFiber
<1>15. ASSUME NEW a \in Actors, WaitCall(a) PROVE ActiveRowHasFiber'
  BY <1>15 DEF WaitCall, fiber, answer, StateTypes, Rows, Statuses, Outcomes,
     Bound, ActiveRowHasFiber
<1>16. ASSUME NEW a \in Actors, Subscribe(a) PROVE ActiveRowHasFiber'
  BY <1>16 DEF Subscribe, fiber, answer, StateTypes, Rows, Statuses, Outcomes,
     Bound, ActiveRowHasFiber
<1>17. ASSUME NEW a \in Actors, Recheck(a) PROVE ActiveRowHasFiber'
  BY <1>17 DEF Recheck, fiber, answer, StateTypes, Rows, Statuses, Outcomes,
     Bound, ActiveRowHasFiber
<1>18. ASSUME NEW a \in Actors, LookAgain(a) PROVE ActiveRowHasFiber'
  BY <1>18 DEF LookAgain, fiber, answer, StateTypes, Rows, Statuses, Outcomes,
     Bound, ActiveRowHasFiber
<1>19. ASSUME NEW a \in Actors, WaitTimesOut(a) PROVE ActiveRowHasFiber'
  BY <1>19 DEF WaitTimesOut, fiber, answer, StateTypes, Rows, Statuses,
     Outcomes, Bound, ActiveRowHasFiber
<1>20. ASSUME Restart PROVE ActiveRowHasFiber'
  BY <1>20 DEF Restart, Ended, Orphan, answer, StateTypes, Rows, Statuses, Outcomes,
     Bound, ActiveRowHasFiber
<1>21. ASSUME UNCHANGED vars PROVE ActiveRowHasFiber'
  BY <1>21 DEF vars, fiber, answer, StateTypes, Rows, Statuses, Outcomes,
     Bound, ActiveRowHasFiber
<1>22. ASSUME NEW a \in Actors, Fork(a) PROVE ActiveRowHasFiber'
  BY <1>22 DEF Fork, Goes, answer, StateTypes, Rows, Statuses, Outcomes,
     Bound, ActiveRowHasFiber
<1>23. ASSUME NEW a \in Actors, SpawnDies(a) PROVE ActiveRowHasFiber'
  BY <1>23 DEF SpawnDies, Goes, answer, StateTypes, Rows, Statuses, Outcomes,
     Bound, ActiveRowHasFiber
<1> QED
  BY <1>1, <1>2, <1>3, <1>4, <1>5, <1>6, <1>7, <1>8, <1>9, <1>10, <1>11,
     <1>12, <1>13, <1>14, <1>15, <1>16, <1>17, <1>18, <1>19, <1>20, <1>21,
       <1>22, <1>23 DEF Next

(* The verdict is given out once, on the way out of the second loop or from  *)
(* the handler of failures of the first.                                     *)
LEMMA SaidStep == StateTypes /\ SaidOnce /\ [Next]_vars => SaidOnce'
<1> SUFFICES ASSUME StateTypes /\ SaidOnce, [Next]_vars PROVE SaidOnce'
  OBVIOUS
<1> USE ActorsAssumption
<1>1. ASSUME NEW a \in Actors, Register(a) PROVE SaidOnce'
  BY <1>1 DEF Register, Goes, answer, StateTypes, SaidOnce, Said, NothingSaid
<1>2. ASSUME NEW a \in Actors, BeginTurn(a) PROVE SaidOnce'
  BY <1>2 DEF BeginTurn, Goes, UpdateStatus, answer, StateTypes, SaidOnce,
     Said, NothingSaid
<1>3. ASSUME NEW a \in Actors, EnterLoop(a) PROVE SaidOnce'
  BY <1>3 DEF EnterLoop, Goes, answer, StateTypes, SaidOnce, Said, NothingSaid
<1>4. ASSUME NEW a \in Actors, EndTurn(a) PROVE SaidOnce'
  BY <1>4 DEF EndTurn, Goes, UpdateStatus, answer, StateTypes, SaidOnce, Said,
     NothingSaid
<1>5. ASSUME NEW a \in Actors, TurnDies(a) PROVE SaidOnce'
  BY <1>5 DEF TurnDies, Goes, UpdateStatus, answer, StateTypes, SaidOnce,
     Said, NothingSaid
<1>6. ASSUME NEW a \in Actors, AnotherTurn(a) PROVE SaidOnce'
  BY <1>6 DEF AnotherTurn, Goes, answer, StateTypes, SaidOnce, Said,
     NothingSaid
<1>7. ASSUME NEW a \in Actors, LeaveLoop(a) PROVE SaidOnce'
  BY <1>7 DEF LeaveLoop, Goes, answer, StateTypes, SaidOnce, Said, NothingSaid
<1>8. ASSUME NEW a \in Actors, Notify(a) PROVE SaidOnce'
  BY <1>8 DEF Notify, Goes, Verdict, StateTypes, SaidOnce, Said, NothingSaid
<1>9. ASSUME NEW a \in Actors, Settle(a) PROVE SaidOnce'
  BY <1>9 DEF Settle, Goes, Verdict, StateTypes, SaidOnce, Said, NothingSaid
<1>10. ASSUME NEW a \in Actors, Joined(a) PROVE SaidOnce'
  BY <1>10 DEF Joined, Ended, fiber, answer, StateTypes, SaidOnce, Said, NothingSaid
<1>11. ASSUME NEW a \in Actors, CallReturns(a) PROVE SaidOnce'
  BY <1>11 DEF CallReturns, fiber, answer, StateTypes, SaidOnce, Said,
     NothingSaid
<1>12. ASSUME NEW a \in Actors, CallTimesOut(a) PROVE SaidOnce'
  BY <1>12 DEF CallTimesOut, fiber, answer, StateTypes, SaidOnce, Said,
     NothingSaid
<1>13. ASSUME NEW a \in Actors, CancelStamp(a) PROVE SaidOnce'
  BY <1>13 DEF CancelStamp, UpdateStatus, fiber, answer, StateTypes, SaidOnce,
     Said, NothingSaid
<1>14. ASSUME NEW a \in Actors, CancelRun(a) PROVE SaidOnce'
  BY <1>14 DEF CancelRun, answer, StateTypes, SaidOnce, Said, NothingSaid
<1>15. ASSUME NEW a \in Actors, WaitCall(a) PROVE SaidOnce'
  BY <1>15 DEF WaitCall, fiber, answer, StateTypes, SaidOnce, Said, NothingSaid
<1>16. ASSUME NEW a \in Actors, Subscribe(a) PROVE SaidOnce'
  BY <1>16 DEF Subscribe, fiber, answer, StateTypes, SaidOnce, Said,
     NothingSaid
<1>17. ASSUME NEW a \in Actors, Recheck(a) PROVE SaidOnce'
  BY <1>17 DEF Recheck, fiber, answer, StateTypes, SaidOnce, Said, NothingSaid
<1>18. ASSUME NEW a \in Actors, LookAgain(a) PROVE SaidOnce'
  BY <1>18 DEF LookAgain, fiber, answer, StateTypes, SaidOnce, Said,
     NothingSaid
<1>19. ASSUME NEW a \in Actors, WaitTimesOut(a) PROVE SaidOnce'
  BY <1>19 DEF WaitTimesOut, fiber, answer, StateTypes, SaidOnce, Said,
     NothingSaid
<1>20. ASSUME Restart PROVE SaidOnce'
  BY <1>20 DEF Restart, Ended, Orphan, answer, StateTypes, SaidOnce, Said, NothingSaid
<1>21. ASSUME UNCHANGED vars PROVE SaidOnce'
  BY <1>21 DEF vars, fiber, answer, StateTypes, SaidOnce, Said, NothingSaid
<1>22. ASSUME NEW a \in Actors, Fork(a) PROVE SaidOnce'
  BY <1>22 DEF Fork, Goes, answer, StateTypes, SaidOnce, Said, NothingSaid
<1>23. ASSUME NEW a \in Actors, SpawnDies(a) PROVE SaidOnce'
  BY <1>23 DEF SpawnDies, Goes, answer, StateTypes, SaidOnce, Said, NothingSaid
<1> QED
  BY <1>1, <1>2, <1>3, <1>4, <1>5, <1>6, <1>7, <1>8, <1>9, <1>10, <1>11,
     <1>12, <1>13, <1>14, <1>15, <1>16, <1>17, <1>18, <1>19, <1>20, <1>21,
       <1>22, <1>23 DEF Next

LEMMA Invariance == Spec => []IInv
<1>1. IInv /\ [Next]_vars => IInv'
  BY FlagStep, StateStep, TurnsStep, RowStep, SaidStep DEF IInv
<1> QED
  BY <1>1, InitInv, PTL DEF Spec

(* Every variable of Actors keeps to its type: in particular, no loop runs   *)
(* more turns than all limits together allow.                                *)
THEOREM TypeCorrect == Spec => []TypeOK
<1>1. IInv => TypeOK
  BY DEF IInv, TypeOK
<1> QED
  BY <1>1, Invariance, PTL

(* A row that says pending or running has a fiber at work, for any number of *)
(* actors, cancels and restarts.                                             *)
THEOREM ActiveRowsHaveFibers == Spec => []ActiveRowHasFiber
BY Invariance, PTL DEF IInv

(* The notification and the outcome are given out once and agree.            *)
THEOREM VerdictsAreFinal == Spec => OneVerdict
<1> DEFINE Final == \A a \in Actors :
      /\ note[a] # "none" => pc'[a] # "notify" /\ note'[a] = note[a]
      /\ outcome[a] # "none" => outcome'[a] = outcome[a]
      /\ outcome'[a] # "none" => note'[a] \in {"none", outcome'[a]}
<1>1. ASSUME IInv, IInv', [Next]_vars PROVE Final
  <2> SUFFICES ASSUME NEW b \in Actors
      PROVE /\ note[b] # "none" => pc'[b] # "notify" /\ note'[b] = note[b]
            /\ outcome[b] # "none" => outcome'[b] = outcome[b]
            /\ outcome'[b] # "none" => note'[b] \in {"none", outcome'[b]}
    OBVIOUS
  <2>1. Said(b) /\ Said(b)'
    BY <1>1 DEF IInv, SaidOnce
  <2>2. note'[b] = note[b] \/ note[b] = "none"
    <3>1. ASSUME NEW a \in Actors,
    Notify(a) PROVE note'[b] = note[b] \/ note[b] = "none"
      BY <1>1, <2>1, <3>1 DEF Notify, IInv, StateTypes, Said, NothingSaid
    <3> QED
      BY <1>1, <3>1 DEF Next, vars, answer, Register, Fork, SpawnDies, BeginTurn, EnterLoop,
         EndTurn,
         TurnDies, AnotherTurn, LeaveLoop, Settle, Joined, CallReturns,
         CallTimesOut,
         CancelStamp, CancelRun, WaitCall, Subscribe, Recheck, LookAgain,
         WaitTimesOut,
         Restart
  <2>3. outcome'[b] = outcome[b] \/ outcome[b] = "none"
    <3>1. ASSUME NEW a \in Actors,
    Settle(a) PROVE outcome'[b] = outcome[b] \/ outcome[b] = "none"
      BY <1>1, <2>1, <3>1 DEF Settle, IInv, StateTypes, Said, NothingSaid
    <3> QED
      BY <1>1, <3>1 DEF Next, vars, answer, Register, Fork, SpawnDies, BeginTurn, EnterLoop,
         EndTurn,
         TurnDies, AnotherTurn, LeaveLoop, Notify, Joined, CallReturns,
         CallTimesOut,
         CancelStamp, CancelRun, WaitCall, Subscribe, Recheck, LookAgain,
         WaitTimesOut,
         Restart
  <2> QED
    BY <1>1, <2>1, <2>2, <2>3 DEF Said, NothingSaid, IInv, StateTypes
<1> QED
  BY <1>1, Invariance, PTL DEF Spec, OneVerdict
-----------------------------------------------------------------------------
(***************************************************************************)
(* What WaitHearsTheEnd and CallComesBack need besides fairness.  A wait   *)
(* that has subscribed has an event ahead of it whenever the row is one    *)
(* that resolves it.  A call joins a fiber that is there.  A fiber has a   *)
(* bounded number of steps ahead of it, five for each turn it may still    *)
(* run, and always one that it can take.                                   *)
(***************************************************************************)
WakeupIsPending ==
  \A a \in Actors : wait[a] = "awaiting" /\ Resolving(a) => poke[a]

RestIsIdle == \A a \in Actors :
  pc[a] \in {"check", "again", "notify", "settle", "over", "dead"} => row[a].status = "idle"

JoinHasFiber == \A a \in Actors : call[a] = "joining" =>
  pc[a] \notin {"new", "registered", "unborn", "lost"}

CallInv == WakeupIsPending /\ RestIsIdle /\ JoinHasFiber

(* The turns that the fiber may still end.                                   *)
TurnsToCome(a) ==
  CASE phase[a] = "pre" -> (MaxPre + 1 - turns[a]) + MaxGate + MaxPost
    [] phase[a] = "gate" /\ pc[a] \in {"notify", "settle"} -> MaxPost
    [] phase[a] = "gate" /\ pc[a] \notin {"notify", "settle"} ->
         (MaxGate - turns[a]) + MaxPost
    [] phase[a] = "post" -> MaxPost - turns[a]
    [] OTHER -> 0

(* The steps to the end of a turn, and those between the loops.              *)
StepsOfTurn(a) ==
  CASE pc[a] = "registered" -> 5 [] pc[a] \in {"forked", "again"} -> 4
    [] pc[a] = "begin" -> 3 [] pc[a] = "turn" -> 2 [] pc[a] = "stopped" -> 1
    [] pc[a] = "check" -> 5 [] pc[a] = "notify" -> 7 [] OTHER -> 6

StepsBetween(a) ==
  CASE phase[a] = "pre" -> 4
    [] phase[a] = "gate" /\ pc[a] \notin {"notify", "settle"} -> 3
    [] OTHER -> 0

StepsLeft(a) ==
  IF pc[a] \in {"over", "dead", "unborn", "lost"} THEN 0
    ELSE 5 * TurnsToCome(a) + StepsBetween(a) + StepsOfTurn(a)

FiberMoves(a) == <<pc[a], phase[a], turns[a]>>' # <<pc[a], phase[a], turns[a]>>

(* At most five steps for each turn and ten more.                           *)
StepsInv == \A a \in Actors : StepsLeft(a) \in 0 .. 5 * Bound + 10

EveryMoveCounts ==
  [][\A a \in Actors : FiberMoves(a) => StepsLeft(a)' < StepsLeft(a)]_vars

(* A fiber that is at the end of a loop is in one, and one that answers has  *)
(* an answer to give.                                                        *)
FiberCanMove == \A a \in Actors :
  /\ pc[a] = "check" => phase[a] \in {"pre", "gate", "post"}
  /\ pc[a] = "settle" => phase[a] \in {"gate", "failed"}

(* A write to the row pokes the wait that has subscribed, and the second     *)
(* look catches what was written before.                                     *)
LEMMA WakeStep ==
  FlagTypes /\ StateTypes /\ WakeupIsPending /\ [Next]_vars => WakeupIsPending'
<1> SUFFICES ASSUME FlagTypes /\ StateTypes /\ WakeupIsPending, [Next]_vars
             PROVE  WakeupIsPending'
  OBVIOUS
<1>1. ASSUME NEW a \in Actors, Register(a) PROVE WakeupIsPending'
  BY <1>1 DEF Register, Goes, answer, FlagTypes, StateTypes, Rows, Statuses,
       Outcomes, Resolving, WakeupIsPending
<1>2. ASSUME NEW a \in Actors, BeginTurn(a) PROVE WakeupIsPending'
  BY <1>2 DEF BeginTurn, Goes, UpdateStatus, answer, FlagTypes, StateTypes,
       Rows, Statuses, Outcomes, Resolving, WakeupIsPending
<1>3. ASSUME NEW a \in Actors, EnterLoop(a) PROVE WakeupIsPending'
  BY <1>3 DEF EnterLoop, Goes, answer, FlagTypes, StateTypes, Rows,
       Statuses, Outcomes, Resolving, WakeupIsPending
<1>4. ASSUME NEW a \in Actors, EndTurn(a) PROVE WakeupIsPending'
  BY <1>4 DEF EndTurn, Goes, UpdateStatus, answer, FlagTypes, StateTypes,
       Rows, Statuses, Outcomes, Resolving, WakeupIsPending
<1>5. ASSUME NEW a \in Actors, TurnDies(a) PROVE WakeupIsPending'
  BY <1>5 DEF TurnDies, Goes, UpdateStatus, answer, FlagTypes, StateTypes,
       Rows, Statuses, Outcomes, Resolving, WakeupIsPending
<1>6. ASSUME NEW a \in Actors, AnotherTurn(a) PROVE WakeupIsPending'
  BY <1>6 DEF AnotherTurn, Goes, answer, FlagTypes, StateTypes, Rows,
       Statuses, Outcomes, Resolving, WakeupIsPending
<1>7. ASSUME NEW a \in Actors, LeaveLoop(a) PROVE WakeupIsPending'
  BY <1>7 DEF LeaveLoop, Goes, answer, FlagTypes, StateTypes, Rows,
       Statuses, Outcomes, Resolving, WakeupIsPending
<1>8. ASSUME NEW a \in Actors, Notify(a) PROVE WakeupIsPending'
  BY <1>8 DEF Notify, Goes, FlagTypes, StateTypes, Rows, Statuses, Outcomes,
       Resolving, WakeupIsPending
<1>9. ASSUME NEW a \in Actors, Settle(a) PROVE WakeupIsPending'
  BY <1>9 DEF Settle, Goes, FlagTypes, StateTypes, Rows, Statuses, Outcomes,
       Resolving, WakeupIsPending
<1>10. ASSUME NEW a \in Actors, Joined(a) PROVE WakeupIsPending'
  BY <1>10 DEF Joined, Ended, fiber, answer, FlagTypes, StateTypes, Rows, Statuses,
       Outcomes, Resolving, WakeupIsPending
<1>11. ASSUME NEW a \in Actors, CallReturns(a) PROVE WakeupIsPending'
  BY <1>11 DEF CallReturns, fiber, answer, FlagTypes, StateTypes, Rows,
       Statuses, Outcomes, Resolving, WakeupIsPending
<1>12. ASSUME NEW a \in Actors, CallTimesOut(a) PROVE WakeupIsPending'
  BY <1>12 DEF CallTimesOut, fiber, answer, FlagTypes, StateTypes, Rows,
       Statuses, Outcomes, Resolving, WakeupIsPending
<1>13. ASSUME NEW a \in Actors, CancelStamp(a) PROVE WakeupIsPending'
  <2>1. wait' = wait /\ (wait[a] = "awaiting" => poke'[a])
    BY <1>13 DEF CancelStamp, UpdateStatus, FlagTypes
  <2>2. \A b \in Actors \ {a} :
          row'[b] = row[b] /\ poke'[b] = poke[b] /\ input'[b] = input[b]
    BY <1>13 DEF CancelStamp, UpdateStatus, FlagTypes, StateTypes
  <2> QED
    BY <2>1, <2>2 DEF WakeupIsPending, Resolving
<1>14. ASSUME NEW a \in Actors, CancelRun(a) PROVE WakeupIsPending'
  BY <1>14 DEF CancelRun, answer, FlagTypes, StateTypes, Rows, Statuses,
       Outcomes, Resolving, WakeupIsPending
<1>15. ASSUME NEW a \in Actors, WaitCall(a) PROVE WakeupIsPending'
  BY <1>15 DEF WaitCall, fiber, answer, FlagTypes, StateTypes, Rows,
       Statuses, Outcomes, Resolving, WakeupIsPending
<1>16. ASSUME NEW a \in Actors, Subscribe(a) PROVE WakeupIsPending'
  BY <1>16 DEF Subscribe, fiber, answer, FlagTypes, StateTypes, Rows,
       Statuses, Outcomes, Resolving, WakeupIsPending
<1>17. ASSUME NEW a \in Actors, Recheck(a) PROVE WakeupIsPending'
  BY <1>17 DEF Recheck, fiber, answer, FlagTypes, StateTypes, Rows,
       Statuses, Outcomes, Resolving, WakeupIsPending
<1>18. ASSUME NEW a \in Actors, LookAgain(a) PROVE WakeupIsPending'
  BY <1>18 DEF LookAgain, fiber, answer, FlagTypes, StateTypes, Rows,
       Statuses, Outcomes, Resolving, WakeupIsPending
<1>19. ASSUME NEW a \in Actors, WaitTimesOut(a) PROVE WakeupIsPending'
  BY <1>19 DEF WaitTimesOut, fiber, answer, FlagTypes, StateTypes, Rows,
       Statuses, Outcomes, Resolving, WakeupIsPending
<1>20. ASSUME Restart PROVE WakeupIsPending'
  BY <1>20 DEF Restart, Ended, Orphan, answer, FlagTypes, StateTypes, Rows,
       Statuses, Outcomes, Resolving, WakeupIsPending
<1>21. ASSUME UNCHANGED vars PROVE WakeupIsPending'
  BY <1>21 DEF vars, fiber, answer, FlagTypes, StateTypes, Rows, Statuses,
       Outcomes, Resolving, WakeupIsPending
<1>22. ASSUME NEW a \in Actors, Fork(a) PROVE WakeupIsPending'
  BY <1>22 DEF Fork, Goes, answer, FlagTypes, StateTypes, Rows, Statuses,
       Outcomes, Resolving, WakeupIsPending
<1>23. ASSUME NEW a \in Actors, SpawnDies(a) PROVE WakeupIsPending'
  BY <1>23 DEF SpawnDies, Goes, answer, FlagTypes, StateTypes, Rows, Statuses,
       Outcomes, Resolving, WakeupIsPending
<1> QED
  BY <1>1, <1>2, <1>3, <1>4, <1>5, <1>6, <1>7, <1>8, <1>9, <1>10, <1>11,
       <1>12, <1>13, <1>14, <1>15, <1>16, <1>17, <1>18, <1>19, <1>20, <1>21,
       <1>22, <1>23 DEF Next

(* A turn takes its mark back before its fiber goes on.                      *)
LEMMA RestStep == StateTypes /\ RestIsIdle /\ [Next]_vars => RestIsIdle'
<1> SUFFICES ASSUME StateTypes /\ RestIsIdle, [Next]_vars PROVE RestIsIdle'
  OBVIOUS
<1>1. ASSUME NEW a \in Actors, Register(a) PROVE RestIsIdle'
  BY <1>1 DEF Register, Goes, answer, StateTypes, Rows, Statuses, Outcomes,
       RestIsIdle
<1>2. ASSUME NEW a \in Actors, BeginTurn(a) PROVE RestIsIdle'
  BY <1>2 DEF BeginTurn, Goes, UpdateStatus, answer, StateTypes, Rows,
       Statuses, Outcomes, RestIsIdle
<1>3. ASSUME NEW a \in Actors, EnterLoop(a) PROVE RestIsIdle'
  BY <1>3 DEF EnterLoop, Goes, answer, StateTypes, Rows, Statuses, Outcomes,
       RestIsIdle
<1>4. ASSUME NEW a \in Actors, EndTurn(a) PROVE RestIsIdle'
  BY <1>4 DEF EndTurn, Goes, UpdateStatus, answer, StateTypes, Rows,
       Statuses, Outcomes, RestIsIdle
<1>5. ASSUME NEW a \in Actors, TurnDies(a) PROVE RestIsIdle'
  BY <1>5 DEF TurnDies, Goes, UpdateStatus, answer, StateTypes, Rows,
       Statuses, Outcomes, RestIsIdle
<1>6. ASSUME NEW a \in Actors, AnotherTurn(a) PROVE RestIsIdle'
  BY <1>6 DEF AnotherTurn, Goes, answer, StateTypes, Rows, Statuses,
       Outcomes, RestIsIdle
<1>7. ASSUME NEW a \in Actors, LeaveLoop(a) PROVE RestIsIdle'
  BY <1>7 DEF LeaveLoop, Goes, answer, StateTypes, Rows, Statuses, Outcomes,
       RestIsIdle
<1>8. ASSUME NEW a \in Actors, Notify(a) PROVE RestIsIdle'
  BY <1>8 DEF Notify, Goes, StateTypes, Rows, Statuses, Outcomes, RestIsIdle
<1>9. ASSUME NEW a \in Actors, Settle(a) PROVE RestIsIdle'
  BY <1>9 DEF Settle, Goes, StateTypes, Rows, Statuses, Outcomes, RestIsIdle
<1>10. ASSUME NEW a \in Actors, Joined(a) PROVE RestIsIdle'
  BY <1>10 DEF Joined, Ended, fiber, answer, StateTypes, Rows, Statuses, Outcomes,
       RestIsIdle
<1>11. ASSUME NEW a \in Actors, CallReturns(a) PROVE RestIsIdle'
  BY <1>11 DEF CallReturns, fiber, answer, StateTypes, Rows, Statuses,
       Outcomes, RestIsIdle
<1>12. ASSUME NEW a \in Actors, CallTimesOut(a) PROVE RestIsIdle'
  BY <1>12 DEF CallTimesOut, fiber, answer, StateTypes, Rows, Statuses,
       Outcomes, RestIsIdle
<1>13. ASSUME NEW a \in Actors, CancelStamp(a) PROVE RestIsIdle'
  BY <1>13 DEF CancelStamp, UpdateStatus, fiber, answer, StateTypes, Rows,
       Statuses, Outcomes, RestIsIdle
<1>14. ASSUME NEW a \in Actors, CancelRun(a) PROVE RestIsIdle'
  BY <1>14 DEF CancelRun, answer, StateTypes, Rows, Statuses, Outcomes,
       RestIsIdle
<1>15. ASSUME NEW a \in Actors, WaitCall(a) PROVE RestIsIdle'
  BY <1>15 DEF WaitCall, fiber, answer, StateTypes, Rows, Statuses,
       Outcomes, RestIsIdle
<1>16. ASSUME NEW a \in Actors, Subscribe(a) PROVE RestIsIdle'
  BY <1>16 DEF Subscribe, fiber, answer, StateTypes, Rows, Statuses,
       Outcomes, RestIsIdle
<1>17. ASSUME NEW a \in Actors, Recheck(a) PROVE RestIsIdle'
  BY <1>17 DEF Recheck, fiber, answer, StateTypes, Rows, Statuses, Outcomes,
       RestIsIdle
<1>18. ASSUME NEW a \in Actors, LookAgain(a) PROVE RestIsIdle'
  BY <1>18 DEF LookAgain, fiber, answer, StateTypes, Rows, Statuses,
       Outcomes, RestIsIdle
<1>19. ASSUME NEW a \in Actors, WaitTimesOut(a) PROVE RestIsIdle'
  BY <1>19 DEF WaitTimesOut, fiber, answer, StateTypes, Rows, Statuses,
       Outcomes, RestIsIdle
<1>20. ASSUME Restart PROVE RestIsIdle'
  BY <1>20 DEF Restart, Ended, Orphan, answer, StateTypes, Rows, Statuses,
       Outcomes, RestIsIdle
<1>21. ASSUME UNCHANGED vars PROVE RestIsIdle'
  BY <1>21 DEF vars, fiber, answer, StateTypes, Rows, Statuses, Outcomes,
       RestIsIdle
<1>22. ASSUME NEW a \in Actors, Fork(a) PROVE RestIsIdle'
  BY <1>22 DEF Fork, Goes, answer, StateTypes, Rows, Statuses, Outcomes,
       RestIsIdle
<1>23. ASSUME NEW a \in Actors, SpawnDies(a) PROVE RestIsIdle'
  BY <1>23 DEF SpawnDies, Goes, answer, StateTypes, Rows, Statuses, Outcomes,
       RestIsIdle
<1> QED
  BY <1>1, <1>2, <1>3, <1>4, <1>5, <1>6, <1>7, <1>8, <1>9, <1>10, <1>11,
       <1>12, <1>13, <1>14, <1>15, <1>16, <1>17, <1>18, <1>19, <1>20, <1>21,
       <1>22, <1>23 DEF Next

(* Only the end of the process loses a fiber, and the calls with it.         *)
LEMMA JoinStep == StateTypes /\ JoinHasFiber /\ [Next]_vars => JoinHasFiber'
<1> SUFFICES ASSUME StateTypes /\ JoinHasFiber, [Next]_vars PROVE JoinHasFiber'
  OBVIOUS
<1>1. ASSUME NEW a \in Actors, Register(a) PROVE JoinHasFiber'
  BY <1>1 DEF Register, Goes, answer, StateTypes, JoinHasFiber
<1>2. ASSUME NEW a \in Actors, BeginTurn(a) PROVE JoinHasFiber'
  BY <1>2 DEF BeginTurn, Goes, UpdateStatus, answer, StateTypes,
       JoinHasFiber
<1>3. ASSUME NEW a \in Actors, EnterLoop(a) PROVE JoinHasFiber'
  BY <1>3 DEF EnterLoop, Goes, answer, StateTypes, JoinHasFiber
<1>4. ASSUME NEW a \in Actors, EndTurn(a) PROVE JoinHasFiber'
  BY <1>4 DEF EndTurn, Goes, UpdateStatus, answer, StateTypes, JoinHasFiber
<1>5. ASSUME NEW a \in Actors, TurnDies(a) PROVE JoinHasFiber'
  BY <1>5 DEF TurnDies, Goes, UpdateStatus, answer, StateTypes, JoinHasFiber
<1>6. ASSUME NEW a \in Actors, AnotherTurn(a) PROVE JoinHasFiber'
  BY <1>6 DEF AnotherTurn, Goes, answer, StateTypes, JoinHasFiber
<1>7. ASSUME NEW a \in Actors, LeaveLoop(a) PROVE JoinHasFiber'
  BY <1>7 DEF LeaveLoop, Goes, answer, StateTypes, JoinHasFiber
<1>8. ASSUME NEW a \in Actors, Notify(a) PROVE JoinHasFiber'
  BY <1>8 DEF Notify, Goes, StateTypes, JoinHasFiber
<1>9. ASSUME NEW a \in Actors, Settle(a) PROVE JoinHasFiber'
  BY <1>9 DEF Settle, Goes, StateTypes, JoinHasFiber
<1>10. ASSUME NEW a \in Actors, Joined(a) PROVE JoinHasFiber'
  BY <1>10 DEF Joined, Ended, fiber, answer, StateTypes, JoinHasFiber
<1>11. ASSUME NEW a \in Actors, CallReturns(a) PROVE JoinHasFiber'
  BY <1>11 DEF CallReturns, fiber, answer, StateTypes, JoinHasFiber
<1>12. ASSUME NEW a \in Actors, CallTimesOut(a) PROVE JoinHasFiber'
  BY <1>12 DEF CallTimesOut, fiber, answer, StateTypes, JoinHasFiber
<1>13. ASSUME NEW a \in Actors, CancelStamp(a) PROVE JoinHasFiber'
  BY <1>13 DEF CancelStamp, UpdateStatus, fiber, answer, StateTypes,
       JoinHasFiber
<1>14. ASSUME NEW a \in Actors, CancelRun(a) PROVE JoinHasFiber'
  BY <1>14 DEF CancelRun, answer, StateTypes, JoinHasFiber
<1>15. ASSUME NEW a \in Actors, WaitCall(a) PROVE JoinHasFiber'
  BY <1>15 DEF WaitCall, fiber, answer, StateTypes, JoinHasFiber
<1>16. ASSUME NEW a \in Actors, Subscribe(a) PROVE JoinHasFiber'
  BY <1>16 DEF Subscribe, fiber, answer, StateTypes, JoinHasFiber
<1>17. ASSUME NEW a \in Actors, Recheck(a) PROVE JoinHasFiber'
  BY <1>17 DEF Recheck, fiber, answer, StateTypes, JoinHasFiber
<1>18. ASSUME NEW a \in Actors, LookAgain(a) PROVE JoinHasFiber'
  BY <1>18 DEF LookAgain, fiber, answer, StateTypes, JoinHasFiber
<1>19. ASSUME NEW a \in Actors, WaitTimesOut(a) PROVE JoinHasFiber'
  BY <1>19 DEF WaitTimesOut, fiber, answer, StateTypes, JoinHasFiber
<1>20. ASSUME Restart PROVE JoinHasFiber'
  BY <1>20 DEF Restart, Ended, Orphan, answer, StateTypes, JoinHasFiber
<1>21. ASSUME UNCHANGED vars PROVE JoinHasFiber'
  BY <1>21 DEF vars, fiber, answer, StateTypes, JoinHasFiber
<1>22. ASSUME NEW a \in Actors, Fork(a) PROVE JoinHasFiber'
  BY <1>22 DEF Fork, Goes, answer, StateTypes, JoinHasFiber
<1>23. ASSUME NEW a \in Actors, SpawnDies(a) PROVE JoinHasFiber'
  BY <1>23 DEF SpawnDies, Goes, answer, StateTypes, JoinHasFiber
<1> QED
  BY <1>1, <1>2, <1>3, <1>4, <1>5, <1>6, <1>7, <1>8, <1>9, <1>10, <1>11,
       <1>12, <1>13, <1>14, <1>15, <1>16, <1>17, <1>18, <1>19, <1>20, <1>21,
       <1>22, <1>23 DEF Next

(* A fiber that comes to its end has settled the outcome before, and the     *)
(* outcome stays; one that dies is not awaited.                              *)
LEMMA AwaitStep == IInv /\ AwaitedIsSettled /\ [Next]_vars => AwaitedIsSettled'
<1> SUFFICES ASSUME IInv, AwaitedIsSettled, [Next]_vars,
                    NEW a \in Actors, call'[a] = "awaiting"
             PROVE  outcome'[a] # "none"
  BY DEF AwaitedIsSettled
<1>1. outcome[a] # "none" => outcome'[a] # "none"
  <2>1. CASE \E b \in Actors : Settle(b)
    <3> PICK b \in Actors : Settle(b)
      BY <2>1
    <3>1. outcome' = [outcome EXCEPT ![b] = Verdict(b)] /\ Verdict(b) # "none"
      BY DEF Settle, Verdict
    <3> QED
      BY <3>1 DEF IInv, StateTypes
  <2>2. CASE ~ \E b \in Actors : Settle(b)
    <3>1. UNCHANGED outcome
      BY <2>2 DEF Next, vars, answer, Register, Fork, SpawnDies, BeginTurn,
         EnterLoop, EndTurn, TurnDies, AnotherTurn, LeaveLoop, Notify, Joined,
         CallReturns, CallTimesOut, CancelStamp, CancelRun, WaitCall, Subscribe,
         Recheck, LookAgain, WaitTimesOut, Restart
    <3> QED
      BY <3>1
  <2> QED
    BY <2>1, <2>2
<1>2. CASE call[a] = "awaiting"
  BY <1>1, <1>2 DEF AwaitedIsSettled
<1>3. CASE call[a] # "awaiting"
  <2>1. PICK b \in Actors : Joined(b) \/ Fork(b) \/ CallReturns(b) \/ CallTimesOut(b)
    BY <1>3 DEF Next, vars, Register, SpawnDies, BeginTurn, EnterLoop, EndTurn,
       TurnDies, AnotherTurn, LeaveLoop, Notify, Settle, CancelStamp, CancelRun,
       WaitCall, Subscribe, Recheck, LookAgain, WaitTimesOut, Restart, IInv,
       StateTypes
  <2>2. Joined(a) /\ pc[a] = "over"
    BY <1>3, <2>1 DEF Joined, Ended, Fork, CallReturns, CallTimesOut, IInv,
       StateTypes
  <2>3. phase[a] \in {"pre", "gate", "post", "failed"} /\ Said(a)
    BY DEF IInv, StateTypes, SaidOnce
  <2> QED
    BY <1>1, <2>2, <2>3 DEF Said
<1> QED
  BY <1>2, <1>3

(* The steps ahead are a natural number with a bound of its own.             *)
LEMMA StepsAreBounded == IInv => StepsInv
<1> SUFFICES ASSUME IInv PROVE StepsInv
  OBVIOUS
<1> SUFFICES ASSUME NEW a \in Actors PROVE StepsLeft(a) \in 0 .. 5 * Bound + 10
  BY Zenon DEF StepsInv
<1> USE ActorsAssumption
<1>1. turns[a] \in Nat /\ Said(a)
  BY DEF IInv, StateTypes, SaidOnce, Bound
<1>2. /\ pc[a] \in {"new", "registered", "forked", "again", "begin", "turn", "stopped"}
           => turns[a] + 1 <= Limit(phase[a])
      /\ pc[a] = "check" => turns[a] <= Limit(phase[a])
  BY DEF IInv, TurnsAreLimited
<1>3. /\ phase[a] \in {"pre", "gate", "post", "failed"}
      /\ pc[a] \in {"new", "registered", "forked", "begin", "turn", "stopped",
                    "check", "again", "notify", "settle", "over", "dead",
                    "unborn", "lost"}
  BY DEF IInv, StateTypes
<1>4. CASE pc[a] \in {"over", "dead", "unborn", "lost"}
  BY <1>4 DEF StepsLeft, Bound
<1>5. CASE pc[a] \in {"notify", "settle"}
  BY <1>1, <1>3, <1>5 DEF StepsLeft, StepsOfTurn, StepsBetween, TurnsToCome,
     Said, Bound
<1>6. CASE pc[a] \notin {"over", "dead", "unborn", "lost", "notify", "settle"}
  <2>1. TurnsToCome(a) \in 0 .. Bound
    BY <1>1, <1>2, <1>3, <1>6 DEF TurnsToCome, Limit, Said, Bound
  <2>2. StepsBetween(a) \in 0..4 /\ StepsOfTurn(a) \in 0..6
    BY <1>3, <1>6 DEF StepsBetween, StepsOfTurn
  <2> QED
    BY <1>6, <2>1, <2>2 DEF StepsLeft, Bound
<1> QED
  BY <1>4, <1>5, <1>6

(* A move of one fiber is a step of its own, or the end of the process.      *)
LEMMA StepsDescend ==
  ASSUME IInv, [Next]_vars, NEW a \in Actors, FiberMoves(a)
  PROVE  StepsLeft(a)' < StepsLeft(a)
<1> USE ActorsAssumption
<1>1. turns[a] \in Nat /\ Said(a)
  BY DEF IInv, StateTypes, SaidOnce, Bound
<1>2. /\ pc[a] \in {"new", "registered", "forked", "again", "begin", "turn", "stopped"}
           => turns[a] + 1 <= Limit(phase[a])
      /\ pc[a] = "check" => turns[a] <= Limit(phase[a])
      /\ pc[a] \in {"new", "registered", "forked"} => phase[a] = "pre"
  BY DEF IInv, TurnsAreLimited
<1>3. /\ phase[a] \in {"pre", "gate", "post", "failed"}
      /\ pc[a] \in {"new", "registered", "forked", "begin", "turn", "stopped",
                    "check", "again", "notify", "settle", "over", "dead",
                    "unborn", "lost"}
      /\ pc \in [Actors -> {"new", "registered", "forked", "begin", "turn", "stopped",
                    "check", "again", "notify", "settle", "over", "dead",
                    "unborn", "lost"}]
      /\ phase \in [Actors -> {"pre", "gate", "post", "failed"}]
      /\ turns \in [Actors -> 0..Bound]
  BY DEF IInv, StateTypes
<1> DEFINE Lower == StepsLeft(a)' < StepsLeft(a)
<1>4. CASE \/ Register(a) \/ Fork(a) \/ BeginTurn(a) \/ EnterLoop(a)
           \/ CancelRun(a)
  <2>1. /\ <<pc[a], pc'[a]>> \in {<<"new", "registered">>, <<"registered", "forked">>,
             <<"forked", "begin">>,
             <<"again", "begin">>, <<"begin", "turn">>, <<"turn", "stopped">>}
        /\ phase'[a] = phase[a] /\ turns'[a] = turns[a]
    BY <1>3, <1>4 DEF FiberMoves, Register, Fork, BeginTurn, EnterLoop,
       CancelRun, Goes
  <2>2. TurnsToCome(a)' = TurnsToCome(a) /\ StepsBetween(a)' = StepsBetween(a)
    BY <1>3, <2>1 DEF TurnsToCome, StepsBetween
  <2>3. TurnsToCome(a) \in Int /\ StepsBetween(a) \in Int
    BY <1>1, <1>3 DEF TurnsToCome, StepsBetween
  <2> QED
    BY <2>1, <2>2, <2>3 DEF StepsLeft, StepsOfTurn
<1>5. CASE EndTurn(a)
  BY <1>1, <1>2, <1>3, <1>5 DEF EndTurn, Goes, StepsLeft, StepsOfTurn,
     StepsBetween, TurnsToCome, Limit, Said
<1>6. CASE TurnDies(a)
  BY <1>1, <1>2, <1>3, <1>6 DEF TurnDies, Goes, StepsLeft, StepsOfTurn,
     StepsBetween, TurnsToCome, Limit, Said
<1>7. CASE AnotherTurn(a)
  BY <1>1, <1>2, <1>3, <1>7 DEF AnotherTurn, Goes, StepsLeft, StepsOfTurn,
     StepsBetween, TurnsToCome, Limit, Said
<1>8. CASE LeaveLoop(a)
  BY <1>1, <1>2, <1>3, <1>8 DEF LeaveLoop, Goes, StepsLeft, StepsOfTurn,
     StepsBetween, TurnsToCome, Limit, Said
<1>9. CASE Notify(a)
  BY <1>1, <1>2, <1>3, <1>9 DEF Notify, Goes, StepsLeft, StepsOfTurn,
     StepsBetween, TurnsToCome, Limit, Said
<1>10. CASE Settle(a)
  BY <1>1, <1>2, <1>3, <1>10 DEF Settle, Goes, StepsLeft, StepsOfTurn,
     StepsBetween, TurnsToCome, Limit, Said
<1>11. CASE Restart
  <2>1. pc[a] \notin {"over", "dead", "unborn", "lost"} /\ pc'[a] = "lost"
    BY <1>3, <1>11 DEF Restart, Ended, FiberMoves
  <2>2. StepsLeft(a) > 0
    BY <1>1, <1>2, <1>3, <2>1 DEF StepsLeft, StepsOfTurn, StepsBetween,
       TurnsToCome, Limit, Said
  <2> QED
    BY <2>1, <2>2 DEF StepsLeft
<1>12. CASE \E b \in Actors \ {a} :
              \/ Register(b) \/ Fork(b) \/ SpawnDies(b)
              \/ BeginTurn(b) \/ EnterLoop(b) \/ EndTurn(b) \/ TurnDies(b)
              \/ AnotherTurn(b) \/ LeaveLoop(b) \/ Notify(b)
              \/ Settle(b) \/ CancelRun(b)
  BY <1>3, <1>12 DEF FiberMoves, Goes, Register, Fork, SpawnDies, BeginTurn,
     EnterLoop, EndTurn, TurnDies, AnotherTurn, LeaveLoop, Notify, Settle, CancelRun
<1>14. CASE SpawnDies(a)
  <2>1. pc[a] = "registered" /\ pc'[a] = "unborn"
    BY <1>3, <1>14 DEF SpawnDies, Goes
  <2>2. StepsLeft(a) > 0
    BY <1>1, <1>2, <1>3, <2>1 DEF StepsLeft, StepsOfTurn, StepsBetween,
       TurnsToCome, Limit, Said
  <2> QED
    BY <2>1, <2>2 DEF StepsLeft
<1>13. CASE UNCHANGED fiber
  BY <1>13 DEF FiberMoves, fiber
<1> QED
  BY <1>4, <1>5, <1>6, <1>7, <1>8, <1>9, <1>10, <1>11, <1>12, <1>13,
     <1>14
     DEF Next, vars, Joined, CallReturns, CallTimesOut, CancelStamp, WaitCall,
         Subscribe, Recheck, LookAgain, WaitTimesOut

LEMMA CallInvariance == Spec => [](IInv /\ CallInv)
<1>1. Init => CallInv
  BY DEF Init, CallInv, WakeupIsPending, RestIsIdle, JoinHasFiber
<1>2. IInv /\ CallInv /\ [Next]_vars => CallInv'
  BY WakeStep, RestStep, JoinStep DEF IInv, CallInv
<1> QED
  BY <1>1, <1>2, Invariance, PTL DEF Spec

(* No wake-up is lost: when the actor of a wait is over, a wait that has     *)
(* subscribed has an event ahead of it, and will find a row that resolves    *)
(* it.  The event is what WaitHearsTheEnd needs, fairness is the rest.       *)
THEOREM WakeupsAreKept ==
  Spec => [](\A a \in Actors :
               input[a].ephemeral /\ wait[a] = "awaiting" /\ Ended(a)
                 => poke[a] /\ Resolving(a))
<1>1. CallInv => \A a \in Actors :
               input[a].ephemeral /\ wait[a] = "awaiting" /\ Ended(a)
                 => poke[a] /\ Resolving(a)
  BY DEF CallInv, WakeupIsPending, RestIsIdle, Ended, Resolving
<1> QED
  BY <1>1, CallInvariance, PTL

(* A foreground call that goes on to the outcome finds it settled: its time  *)
(* limit never decides, whatever turns fail, die or are cancelled            *)
(* (spawn.ts:477-590, 689; tool/actor.ts:747).                               *)
THEOREM AwaitedOutcomesAreSettled == Spec => []AwaitedIsSettled
<1>1. Init => AwaitedIsSettled
  BY DEF Init, AwaitedIsSettled
<1> QED
  BY <1>1, AwaitStep, Invariance, PTL DEF Spec

(* A call in the foreground joins a fiber that is there, and that is never   *)
(* at a place it cannot leave.                                               *)
THEOREM JoinedFibersMove == Spec => [](JoinHasFiber /\ FiberCanMove)
<1>1. IInv => FiberCanMove
  <2> SUFFICES ASSUME IInv, NEW a \in Actors
               PROVE  /\ pc[a] = "check" => phase[a] \in {"pre", "gate", "post"}
                      /\ pc[a] = "settle" => phase[a] \in {"gate", "failed"}
    BY Zenon DEF FiberCanMove
  <2>1. Said(a) /\ phase[a] \in {"pre", "gate", "post", "failed"}
    BY DEF IInv, SaidOnce, StateTypes
  <2> QED
    BY <2>1 DEF Said
<1> QED
  BY <1>1, CallInvariance, PTL DEF CallInv

(* A fiber ends: whatever hooks and gates ask for, its moves use up a        *)
(* number that is bounded by the limits of the three loops.                  *)
THEOREM FibersEnd == Spec => []StepsInv /\ EveryMoveCounts
<1>1. IInv /\ [Next]_vars =>
        \A a \in Actors : FiberMoves(a) => StepsLeft(a)' < StepsLeft(a)
  BY StepsDescend
<1> QED
  BY <1>1, StepsAreBounded, Invariance, PTL DEF Spec, EveryMoveCounts
===============================================================================
