---------------------------- MODULE WorkflowProofs ----------------------------
(***************************************************************************)
(* Proofs about Workflow, for any number of calls, launches and resumers,  *)
(* and however often the script is edited and the process dies: one launch *)
(* at a time, what a resume replays, and that no run gets stuck.           *)
(***************************************************************************)
EXTENDS Workflow, FiniteSetTheorems, TLAPS

(***************************************************************************)
(* The lock.  Whoever has come past it holds it, and nobody comes to it    *)
(* before a launch has recorded the run.                                   *)
(***************************************************************************)
LockInv ==
  /\ \A r \in Resumers : resumer[r] \in {"holds", "launches"} <=> lock = r
  /\ row.status = "none" => \A r \in Resumers : resumer[r] = "idle"

(* A launch that is yet to come has left no trace.                           *)
Untouched(e) ==
  /\ phase[e] = "unborn" /\ status[e] = "none"
  /\ guest[e] = "off" /\ cancel[e] = 0

(* Only the last launch is still writing what it is about to run: the first  *)
(* one, before there is a row and a script to resume, or one whose resume    *)
(* holds the lock.                                                           *)
Writing(e) == phase[e] \in {"record", "write", "rewrite", "clear"}

Unresumable(e) ==
  \/ phase[e] = "record" /\ row.status = "none"
  \/ phase[e] = "write" /\ ~ saved

LaunchInv ==
  /\ \A e \in Launches : e > born => Untouched(e)
  /\ \A e \in Launches : Writing(e) =>
        e = born /\ (Unresumable(e) \/ \E r \in Resumers : resumer[r] = "launches")
  /\ \A e \in Launches : Writing(e) \/ phase[e] \in {"load", "dead"} => guest[e] = "off"
  /\ born = 0 => row.status = "none"
  /\ row.status = "none" => ~ saved
  /\ \A e \in Launches :
        phase[e] \in {"write", "rewrite", "clear", "load", "eval", "reclaim"}
          => row.status # "none"

(* What a launch finds when it records itself: nothing runs.                 *)
RunInv ==
  /\ RunningIsCurrent
  /\ \A e \in Launches : phase[e] = "record" =>
        \A d \in Launches : status[d] # "running"

(***************************************************************************)
(* The recorded script.  The launch that clears the journal is the one     *)
(* that recorded the script: no guest since then has received anything.    *)
(***************************************************************************)
SinceInv ==
  \A e \in Launches : phase[e] \in {"rewrite", "clear"} => since = e /\ got = {}

(***************************************************************************)
(* The journal.  What a guest replays that was born since the script was   *)
(* recorded is still in it, and what such guests have received is, but for *)
(* one result for each torn line that a later result has been joined to.   *)
(***************************************************************************)
ReplayInv ==
  \A e \in Launches, k \in Calls :
    guest[e] = "on" /\ e >= since /\ cache[e][k] # Nothing
      => journal[k] # Nothing

Lost == {k \in got : journal[k] = Nothing}

TornInv == Cardinality(Lost) + (IF torn THEN 1 ELSE 0) <= tears

IInv ==
  TypeOK /\ LockInv /\ LaunchInv /\ RunInv /\ SinceInv /\ ReplayInv /\ TornInv

-----------------------------------------------------------------------------
(* What End does to the entry, the row and the deferred.                     *)
LEMMA Ends ==
  ASSUME TypeOK, NEW e \in Launches, NEW s \in Statuses \ {"none"}, End(e, s)
  PROVE  /\ status' = [status EXCEPT ![e] = s] /\ status' \in [Launches -> Statuses]
         /\ row' \in [status : Statuses, sha : Versions]
         /\ row'.status = "none" <=> row.status = "none"
         /\ row'.sha = row.sha
         /\ told' \in [Launches -> Statuses]
BY DEF End, TypeOK

LEMMA Verdicts == {"completed", "failed", "cancelled"} \subseteq Statuses \ {"none"}
BY DEF Statuses

(* An end of a launch leaves a verdict, and no row where there was none.     *)
LEMMA Ending ==
  ASSUME TypeOK, NEW e \in Launches, Complete(e) \/ Fail(e) \/ CancelEnd(e)
  PROVE  /\ \E s \in {"completed", "failed", "cancelled"} :
              status' = [status EXCEPT ![e] = s]
         /\ (row'.status = "none" <=> row.status = "none")
BY Ends, Verdicts DEF Complete, Fail, CancelEnd

(* The calls keep their type.                                                *)
LEMMA CallTypes ==
  ASSUME TypeOK, NEW e \in Launches, NEW k \in Calls,
         NEW s \in {"no", "queued", "up", "back"}, SetCall(e, k, s)
  PROVE  call' \in [Launches -> [Calls -> {"no", "queued", "up", "back"}]]
<1> DEFINE T == {"no", "queued", "up", "back"}
<1>1. call[e] \in [Calls -> T]
  BY DEF TypeOK
<1>2. [call[e] EXCEPT ![k] = s] \in [Calls -> T]
  BY <1>1
<1>3. call' = [call EXCEPT ![e] = [call[e] EXCEPT ![k] = s]]
  BY DEF SetCall
<1>4. call \in [Launches -> [Calls -> T]]
  BY DEF TypeOK
<1> QED
  BY <1>2, <1>3, <1>4

(* Every variable keeps its type.                                            *)
LEMMA TypeStep == TypeOK /\ LaunchInv /\ [Next]_vars => TypeOK'
<1> SUFFICES ASSUME TypeOK /\ LaunchInv, [Next]_vars PROVE TypeOK'
  OBVIOUS
<1> USE WorkflowAssumption DEF disk, history, process, entry, locks, faults, TypeOK,
   Calls, Launches, Versions, Nothing, Statuses
<1>1. ASSUME Start PROVE TypeOK'
  BY <1>1 DEF Start, Begin
<1>2. ASSUME Edit PROVE TypeOK'
  BY <1>2 DEF Edit
<1>3. ASSUME Crash PROVE TypeOK'
  <2>1. current' \in 0..born' /\ lock' \in Resumers \cup {"free"}
    BY <1>3 DEF Crash
  <2>0. torn' \in BOOLEAN
    BY <1>3 DEF Crash
  <2>2. phase' \in [Launches -> {"unborn", "record", "write", "rewrite", "clear",
                                 "load", "eval", "reclaim", "dead", "done"}]
    BY <1>3 DEF Crash
  <2>3. /\ version' \in [Launches -> Versions] /\ status' \in [Launches -> Statuses]
        /\ cache' \in [Launches -> [Calls -> Versions \cup {Nothing}]]
    BY <1>3 DEF Crash
  <2>4. /\ guest' \in [Launches -> {"off", "on", "returned", "threw"}]
        /\ call' \in [Launches -> [Calls -> {"no", "queued", "up", "back"}]]
    BY <1>3 DEF Crash
  <2>5. /\ told' \in [Launches -> Statuses]
        /\ cancel' \in [Launches -> 0..MaxCancels]
    BY <1>3 DEF Crash
  <2>6. resumer' \in [Resumers -> {"idle", "holds", "launches", "back"}]
    BY <1>3 DEF Crash
  <2>7. crashes' \in 0..MaxCrashes
    <3>1. crashes < MaxCrashes /\ crashes' = crashes + 1
      BY <1>3 DEF Crash
    <3> QED
      BY <3>1
  <2>8. tears' \in 0..MaxTorn
    <3>1. tears' = tears \/ (tears < MaxTorn /\ tears' = tears + 1)
      BY <1>3 DEF Crash
    <3> QED
      BY <3>1
  <2> QED
    BY <1>3, <2>0, <2>1, <2>2, <2>3, <2>4, <2>5, <2>6, <2>7, <2>8 DEF Crash
<1>4. ASSUME NEW r \in Resumers, Lock(r) PROVE TypeOK'
  BY <1>4 DEF Lock
<1>5. ASSUME NEW r \in Resumers, Refuse(r) PROVE TypeOK'
  BY <1>5 DEF Refuse
<1>6. ASSUME NEW r \in Resumers, Relaunch(r) PROVE TypeOK'
  <2>1. /\ born' = born + 1 /\ born' \in 0..MaxLaunches
        /\ current' \in 0..born' /\ since' \in 0..born'
    BY <1>6 DEF Relaunch, Begin
  <2>2. phase' \in [Launches -> {"unborn", "record", "write", "rewrite", "clear",
                                 "load", "eval", "reclaim", "dead", "done"}]
    BY <1>6 DEF Relaunch, Begin
  <2>3. /\ version' \in [Launches -> Versions]
        /\ resumer' \in [Resumers -> {"idle", "holds", "launches", "back"}]
    BY <1>6 DEF Relaunch, Begin
  <2>4. UNCHANGED <<disk, history, lock, faults, current, cache, status, guest,
                    call, told, cancel>>
    BY <1>6 DEF Relaunch, Begin
  <2> QED
    BY <2>1, <2>2, <2>3, <2>4
<1>7. ASSUME NEW e \in Launches, Record(e) PROVE TypeOK'
  <2>1. phase'[e] \in {"rewrite", "write"} /\ phase' = [phase EXCEPT ![e] = phase'[e]]
    BY <1>7 DEF Record
  <2>2. e \in 0..born
    BY <1>7 DEF Record, LaunchInv, Writing
  <2>3. since' \in 0..born /\ got' \subseteq Calls
    BY <1>7, <2>2 DEF Record
  <2>4. row' \in [status : Statuses, sha : Versions]
    BY <1>7 DEF Record
  <2> QED
    BY <1>7, <2>1, <2>2, <2>3, <2>4 DEF Record
<1>8. ASSUME NEW e \in Launches, WriteScript(e) PROVE TypeOK'
  BY <1>8 DEF WriteScript
<1>9. ASSUME NEW e \in Launches, LaunchDies(e) PROVE TypeOK'
  <2>1. /\ lock' \in Resumers \cup {"free"}
        /\ resumer' \in [Resumers -> {"idle", "holds", "launches", "back"}]
    BY <1>9 DEF LaunchDies, GiveBack
  <2>2. e \in 0..born
    BY <1>9 DEF LaunchDies, LaunchInv, Untouched
  <2>3. current' \in 0..born /\ status' \in [Launches -> Statuses]
    BY <1>9, <2>2 DEF LaunchDies
  <2>4. phase' \in [Launches -> {"unborn", "record", "write", "rewrite", "clear",
                                 "load", "eval", "reclaim", "dead", "done"}]
    BY <1>9 DEF LaunchDies
  <2>5. UNCHANGED <<disk, history, born, version, cache, guest, call, told,
                    cancel, faults>>
    BY <1>9 DEF LaunchDies
  <2> QED
    BY <2>1, <2>3, <2>4, <2>5
<1>10. ASSUME NEW e \in Launches, ClearJournal(e) PROVE TypeOK'
  BY <1>10 DEF ClearJournal
<1>11. ASSUME NEW e \in Launches, Load(e) PROVE TypeOK'
  <2>1. /\ cache' \in [Launches -> [Calls -> Versions \cup {Nothing}]]
        /\ guest' \in [Launches -> {"off", "on", "returned", "threw"}]
    BY <1>11 DEF Load, GiveBack
  <2>2. /\ lock' \in Resumers \cup {"free"}
        /\ resumer' \in [Resumers -> {"idle", "holds", "launches", "back"}]
    BY <1>11 DEF Load, GiveBack
  <2> QED
    BY <1>11, <2>1, <2>2 DEF Load, GiveBack
<1>12. ASSUME NEW e \in Launches, Complete(e) PROVE TypeOK'
  BY <1>12, Ends, Verdicts DEF Complete
<1>13. ASSUME NEW e \in Launches, Reclaim(e) PROVE TypeOK'
  BY <1>13 DEF Reclaim
<1>14. ASSUME NEW e \in Launches, Fail(e) PROVE TypeOK'
  BY <1>14, Ends, Verdicts DEF Fail
<1>15. ASSUME NEW e \in Launches, Return(e) PROVE TypeOK'
  BY SMTT(30), <1>15 DEF Return, Dispose
<1>16. ASSUME NEW e \in Launches, Throw(e) PROVE TypeOK'
  BY SMTT(30), <1>16 DEF Throw, Dispose
<1>17. ASSUME NEW e \in Launches, CancelStart(e) PROVE TypeOK'
  BY SMTT(30), <1>17 DEF CancelStart
<1>18. ASSUME NEW e \in Launches, CancelEnd(e) PROVE TypeOK'
  <2>1. /\ status' \in [Launches -> Statuses] /\ told' \in [Launches -> Statuses]
        /\ row' \in [status : Statuses, sha : Versions]
    BY <1>18, Ends, Verdicts DEF CancelEnd
  <2>2. cancel' \in [Launches -> 0..MaxCancels]
    <3>1. cancel[e] \in 0..MaxCancels /\ cancel[e] > 0
      BY <1>18 DEF CancelEnd
    <3>2. cancel[e] - 1 \in 0..MaxCancels
      BY <3>1
    <3> QED
      BY <1>18, <3>2 DEF CancelEnd
  <2>3. phase' = [phase EXCEPT ![e] = phase'[e]] /\ phase'[e] \in {"done", phase[e]}
    BY <1>18 DEF CancelEnd
  <2> QED
    BY <1>18, <2>1, <2>2, <2>3 DEF CancelEnd
<1>19. ASSUME NEW e \in Launches, NEW k \in Calls, Call(e, k) PROVE TypeOK'
  <2>1. call' \in [Launches -> [Calls -> {"no", "queued", "up", "back"}]]
    <3>1. SetCall(e, k, "back") \/ SetCall(e, k, "queued")
      BY <1>19 DEF Call
    <3> QED
      BY <3>1, CallTypes
  <2>2. (got' = got \/ got' = got \cup {k}) /\ since' = since
    BY <1>19 DEF Call, Receive
  <2> QED
    BY <1>19, <2>1, <2>2 DEF Call
<1>20. ASSUME NEW e \in Launches, NEW k \in Calls, Spawn(e, k) PROVE TypeOK'
  BY <1>20 DEF Spawn, SetCall
<1>21. ASSUME NEW e \in Launches, NEW k \in Calls, AgentAnswers(e, k) PROVE TypeOK'
  <2>1. call' \in [Launches -> [Calls -> {"no", "queued", "up", "back"}]]
    BY <1>21 DEF AgentAnswers, Back, SetCall
  <2>2. got' \subseteq Calls /\ since' = since
    BY <1>21 DEF AgentAnswers, Receive
  <2>3. journal' \in [Calls -> Versions \cup {Nothing}] /\ torn' \in BOOLEAN
    BY <1>21 DEF AgentAnswers, Append
  <2> QED
    BY <1>21, <2>1, <2>2, <2>3 DEF AgentAnswers
<1>22. ASSUME NEW e \in Launches, NEW k \in Calls, AgentFails(e, k) PROVE TypeOK'
  BY <1>22 DEF AgentFails, Back, SetCall
<1>23. CASE UNCHANGED vars
  BY <1>23 DEF vars
<1> HIDE DEF disk, history, process, entry, locks, faults, TypeOK, Calls, Launches,
   Versions, Nothing, Statuses
<1> QED
  BY <1>1, <1>2, <1>3, <1>4, <1>5, <1>6, <1>7, <1>8, <1>9, <1>10, <1>11,
     <1>12, <1>13, <1>14, <1>15, <1>16, <1>17, <1>18, <1>19, <1>20, <1>21,
     <1>22, <1>23
     DEF Next

(* The lock of the run's id has one holder, and none before there is a row.  *)
LEMMA LockStep == TypeOK /\ LockInv /\ [Next]_vars => LockInv'
<1> SUFFICES ASSUME TypeOK /\ LockInv, [Next]_vars PROVE LockInv'
  OBVIOUS
<1>1. \A e \in Launches : Complete(e) \/ Fail(e) \/ CancelEnd(e) =>
        /\ \E s \in {"completed", "failed", "cancelled"} :
             status' = [status EXCEPT ![e] = s]
        /\ (row'.status = "none" <=> row.status = "none")
  BY Ending
<1>2. status \in [Launches -> {"none", "running", "completed", "failed", "cancelled"}]
  BY DEF TypeOK, Statuses
<1> USE WorkflowAssumption DEF disk, history, process, entry, locks, faults, LockInv,
   TypeOK, Statuses
<1>3. ASSUME Start PROVE LockInv'
  BY <1>3 DEF Start, Begin
<1>4. ASSUME Edit PROVE LockInv'
  BY <1>4 DEF Edit
<1>5. ASSUME Crash PROVE LockInv'
  BY <1>5 DEF Crash
<1>6. ASSUME NEW r \in Resumers, Lock(r) PROVE LockInv'
  BY <1>6 DEF Lock
<1>7. ASSUME NEW r \in Resumers, Refuse(r) PROVE LockInv'
  BY <1>7 DEF Refuse
<1>8. ASSUME NEW r \in Resumers, Relaunch(r) PROVE LockInv'
  BY <1>8 DEF Relaunch, Begin, Live
<1>9. ASSUME NEW e \in Launches, Record(e) PROVE LockInv'
  BY <1>9 DEF Record
<1>10. ASSUME NEW e \in Launches, WriteScript(e) PROVE LockInv'
  BY <1>10 DEF WriteScript
<1>11. ASSUME NEW e \in Launches, LaunchDies(e) PROVE LockInv'
  <2>1. CASE e = born /\ lock # "free" /\ resumer[lock] = "launches"
    <3>1. resumer' = [resumer EXCEPT ![lock] = "back"] /\ lock' = "free"
          /\ lock \in Resumers /\ UNCHANGED row
      BY <1>11, <2>1 DEF LaunchDies, GiveBack
    <3> QED
      BY <3>1
  <2>2. CASE ~ (e = born /\ lock # "free" /\ resumer[lock] = "launches")
    BY <1>11, <2>2 DEF LaunchDies, GiveBack
  <2> QED
    BY <2>1, <2>2
<1>12. ASSUME NEW e \in Launches, ClearJournal(e) \/ Reclaim(e) \/ Return(e) \/
   Throw(e) \/ CancelStart(e)
      PROVE  LockInv'
  BY <1>12 DEF ClearJournal, Reclaim, Return, Dispose, Throw, Dispose,
     CancelStart
<1>13. ASSUME NEW e \in Launches, Load(e) PROVE LockInv'
  <2>1. CASE e = born /\ lock # "free" /\ resumer[lock] = "launches"
    <3>1. resumer' = [resumer EXCEPT ![lock] = "back"] /\ lock' = "free"
          /\ lock \in Resumers /\ UNCHANGED row
      BY <1>13, <2>1 DEF Load, GiveBack
    <3> QED
      BY <3>1
  <2>2. CASE ~ (e = born /\ lock # "free" /\ resumer[lock] = "launches")
    BY <1>13, <2>2 DEF Load, GiveBack
  <2> QED
    BY <2>1, <2>2
<1>14. ASSUME NEW e \in Launches, Complete(e) PROVE LockInv'
  <2>1. PICK s \in {"completed", "failed", "cancelled"} :
          /\ status' = [status EXCEPT ![e] = s]
          /\ (row'.status = "none" <=> row.status = "none")
    BY <1>1, <1>14
  <2>2. s # "running" /\ status \in [Launches -> {"none", "running", "completed", "failed", "cancelled"}]
    BY <1>2
  <2> QED
    BY <1>14, <2>1, <2>2 DEF Complete
<1>15. ASSUME NEW e \in Launches, Fail(e) PROVE LockInv'
  <2>1. PICK s \in {"completed", "failed", "cancelled"} :
          /\ status' = [status EXCEPT ![e] = s]
          /\ (row'.status = "none" <=> row.status = "none")
    BY <1>1, <1>15
  <2>2. s # "running" /\ status \in [Launches -> {"none", "running", "completed", "failed", "cancelled"}]
    BY <1>2
  <2> QED
    BY <1>15, <2>1, <2>2 DEF Fail
<1>16. ASSUME NEW e \in Launches, CancelEnd(e) PROVE LockInv'
  <2>1. PICK s \in {"completed", "failed", "cancelled"} :
          /\ status' = [status EXCEPT ![e] = s]
          /\ (row'.status = "none" <=> row.status = "none")
    BY <1>1, <1>16
  <2>2. s # "running" /\ status \in [Launches -> {"none", "running", "completed", "failed", "cancelled"}]
    BY <1>2
  <2> QED
    BY <1>16, <2>1, <2>2 DEF CancelEnd
<1>17. ASSUME NEW e \in Launches, NEW k \in Calls, Call(e, k) \/ Spawn(e, k) \/
   AgentAnswers(e, k) \/ AgentFails(e, k)
      PROVE  LockInv'
  BY <1>17 DEF Call, SetCall, Receive, Spawn, SetCall, AgentAnswers, Back,
     SetCall, Append, Receive, AgentFails, Back, SetCall
<1>18. CASE UNCHANGED vars
  BY <1>18 DEF vars
<1> HIDE DEF disk, history, process, entry, locks, faults, LockInv, TypeOK, Statuses
<1> QED
  BY <1>3, <1>4, <1>5, <1>6, <1>7, <1>8, <1>9, <1>10, <1>11, <1>12, <1>13,
     <1>14, <1>15, <1>16, <1>17, <1>18
     DEF Next

(* A launch writes its beginnings alone.                                     *)
LEMMA LaunchStep == TypeOK /\ LockInv /\ LaunchInv /\ RunInv /\ [Next]_vars => LaunchInv'
<1> SUFFICES ASSUME TypeOK /\ LockInv /\ LaunchInv /\ RunInv, [Next]_vars PROVE LaunchInv'
  OBVIOUS
<1>1. \A e \in Launches : Complete(e) \/ Fail(e) \/ CancelEnd(e) =>
        /\ \E s \in {"completed", "failed", "cancelled"} :
             status' = [status EXCEPT ![e] = s]
        /\ (row'.status = "none" <=> row.status = "none")
  BY Ending
<1>2. status \in [Launches -> {"none", "running", "completed", "failed", "cancelled"}]
  BY DEF TypeOK, Statuses
<1> USE WorkflowAssumption DEF disk, history, process, entry, locks, faults, TypeOK,
   LockInv, LaunchInv, Untouched, Writing, Unresumable, RunInv, RunningIsCurrent, Launches, Statuses
<1>3. ASSUME Start PROVE LaunchInv'
  <2>1. \A d \in Launches : Untouched(d)
    BY <1>3 DEF Start, Begin
  <2> QED
    BY <1>3, <2>1 DEF Start, Begin
<1>4. ASSUME Edit PROVE LaunchInv'
  BY <1>4 DEF Edit
<1>5. ASSUME Crash PROVE LaunchInv'
  BY <1>5 DEF Crash
<1>6. ASSUME NEW r \in Resumers, Lock(r) PROVE LaunchInv'
  BY <1>6 DEF Lock
<1>7. ASSUME NEW r \in Resumers, Refuse(r) PROVE LaunchInv'
  BY <1>7 DEF Refuse
<1>8. ASSUME NEW r \in Resumers, Relaunch(r) PROVE LaunchInv'
  BY <1>8 DEF Relaunch, Begin, Live
<1>9. ASSUME NEW e \in Launches, Record(e) PROVE LaunchInv'
  BY <1>9 DEF Record, Fresh
<1>10. ASSUME NEW e \in Launches, WriteScript(e) PROVE LaunchInv'
  BY <1>10 DEF WriteScript
<1>11. ASSUME NEW e \in Launches, LaunchDies(e) PROVE LaunchInv'
  BY <1>11 DEF LaunchDies, GiveBack
<1>12. ASSUME NEW e \in Launches, ClearJournal(e) PROVE LaunchInv'
  BY <1>12 DEF ClearJournal
<1>13. ASSUME NEW e \in Launches, Load(e) PROVE LaunchInv'
  BY <1>13 DEF Load, GiveBack
<1>14. ASSUME NEW e \in Launches, Complete(e) PROVE LaunchInv'
  <2>1. PICK s \in {"completed", "failed", "cancelled"} :
          /\ status' = [status EXCEPT ![e] = s]
          /\ (row'.status = "none" <=> row.status = "none")
    BY <1>1, <1>14
  <2>2. s # "running" /\ status \in [Launches -> {"none", "running", "completed", "failed", "cancelled"}]
    BY <1>2
  <2> QED
    BY <1>14, <2>1, <2>2 DEF Complete
<1>15. ASSUME NEW e \in Launches, Reclaim(e) PROVE LaunchInv'
  BY <1>15 DEF Reclaim
<1>16. ASSUME NEW e \in Launches, Fail(e) PROVE LaunchInv'
  <2>1. PICK s \in {"completed", "failed", "cancelled"} :
          /\ status' = [status EXCEPT ![e] = s]
          /\ (row'.status = "none" <=> row.status = "none")
    BY <1>1, <1>16
  <2>2. s # "running" /\ status \in [Launches -> {"none", "running", "completed", "failed", "cancelled"}]
    BY <1>2
  <2> QED
    BY <1>16, <2>1, <2>2 DEF Fail
<1>17. ASSUME NEW e \in Launches, Return(e) PROVE LaunchInv'
  BY <1>17 DEF Return, Dispose
<1>18. ASSUME NEW e \in Launches, Throw(e) PROVE LaunchInv'
  BY <1>18 DEF Throw, Dispose
<1>19. ASSUME NEW e \in Launches, CancelStart(e) PROVE LaunchInv'
  BY <1>19 DEF CancelStart
<1>20. ASSUME NEW e \in Launches, CancelEnd(e) PROVE LaunchInv'
  <2>1. PICK s \in {"completed", "failed", "cancelled"} :
          /\ status' = [status EXCEPT ![e] = s]
          /\ (row'.status = "none" <=> row.status = "none")
    BY <1>1, <1>20
  <2>2. s # "running" /\ status \in [Launches -> {"none", "running", "completed", "failed", "cancelled"}]
    BY <1>2
  <2> QED
    BY <1>20, <2>1, <2>2 DEF CancelEnd
<1>21. ASSUME NEW e \in Launches, NEW k \in Calls, Call(e, k) PROVE LaunchInv'
  BY <1>21 DEF Call, SetCall, Receive
<1>22. ASSUME NEW e \in Launches, NEW k \in Calls, Spawn(e, k) PROVE LaunchInv'
  BY <1>22 DEF Spawn, SetCall
<1>23. ASSUME NEW e \in Launches, NEW k \in Calls, AgentAnswers(e, k) PROVE LaunchInv'
  BY <1>23 DEF AgentAnswers, Back, SetCall, Append, Receive
<1>24. ASSUME NEW e \in Launches, NEW k \in Calls, AgentFails(e, k) PROVE LaunchInv'
  BY <1>24 DEF AgentFails, Back, SetCall
<1>25. CASE UNCHANGED vars
  BY <1>25 DEF vars
<1> HIDE DEF disk, history, process, entry, locks, faults, TypeOK, LockInv, LaunchInv,
   Untouched, Writing, Unresumable, RunInv, RunningIsCurrent, Launches, Statuses
<1> QED
  BY <1>3, <1>4, <1>5, <1>6, <1>7, <1>8, <1>9, <1>10, <1>11, <1>12, <1>13,
     <1>14, <1>15, <1>16, <1>17, <1>18, <1>19, <1>20, <1>21, <1>22, <1>23,
     <1>24, <1>25
     DEF Next

(* At most one launch runs: a resume that has the lock begins a launch only  *)
(* when none does, and no other launch can begin before it has recorded itself.*)
LEMMA RunStep == TypeOK /\ LockInv /\ LaunchInv /\ RunInv /\ [Next]_vars => RunInv'
<1> SUFFICES ASSUME TypeOK /\ LockInv /\ LaunchInv /\ RunInv, [Next]_vars PROVE RunInv'
  OBVIOUS
<1>1. \A e \in Launches : Complete(e) \/ Fail(e) \/ CancelEnd(e) =>
        /\ \E s \in {"completed", "failed", "cancelled"} :
             status' = [status EXCEPT ![e] = s]
        /\ (row'.status = "none" <=> row.status = "none")
  BY Ending
<1>2. status \in [Launches -> {"none", "running", "completed", "failed", "cancelled"}]
  BY DEF TypeOK, Statuses
<1> USE WorkflowAssumption DEF disk, history, process, entry, locks, faults, TypeOK,
   LockInv, LaunchInv, Untouched, Writing, Unresumable, RunInv, RunningIsCurrent, Launches, Statuses
<1>3. ASSUME Start PROVE RunInv'
  BY <1>3 DEF Start, Begin
<1>4. ASSUME Edit PROVE RunInv'
  BY <1>4 DEF Edit
<1>5. ASSUME Crash PROVE RunInv'
  BY <1>5 DEF Crash
<1>6. ASSUME NEW r \in Resumers, Lock(r) PROVE RunInv'
  BY <1>6 DEF Lock
<1>7. ASSUME NEW r \in Resumers, Refuse(r) PROVE RunInv'
  BY <1>7 DEF Refuse
<1>8. ASSUME NEW r \in Resumers, Relaunch(r) PROVE RunInv'
  BY <1>8 DEF Relaunch, Begin, Live
<1>9. ASSUME NEW e \in Launches, Record(e) PROVE RunInv'
  BY <1>9 DEF Record
<1>10. ASSUME NEW e \in Launches, WriteScript(e) PROVE RunInv'
  BY <1>10 DEF WriteScript
<1>11. ASSUME NEW e \in Launches, LaunchDies(e) PROVE RunInv'
  BY <1>11 DEF LaunchDies, GiveBack
<1>12. ASSUME NEW e \in Launches,
              ClearJournal(e) \/ Load(e) \/ Reclaim(e) \/ Return(e) \/ Throw(e)
       PROVE  RunInv'
  <2>1. UNCHANGED <<status, current, born>>
    BY <1>12 DEF ClearJournal, Load, Reclaim, Return, Throw
  <2>2. \A d \in Launches : phase'[d] = "record" => phase[d] = "record"
    BY SMTT(30), <1>12 DEF ClearJournal, Load, Reclaim, Return, Throw
  <2> QED
    BY <2>1, <2>2
<1>13. ASSUME NEW e \in Launches, Complete(e) PROVE RunInv'
  <2>1. PICK s \in {"completed", "failed", "cancelled"} :
          /\ status' = [status EXCEPT ![e] = s]
          /\ (row'.status = "none" <=> row.status = "none")
    BY <1>1, <1>13
  <2>2. s # "running" /\ status \in [Launches -> {"none", "running", "completed", "failed", "cancelled"}]
    BY <1>2
  <2> QED
    BY <1>13, <2>1, <2>2 DEF Complete
<1>14. ASSUME NEW e \in Launches, Fail(e) PROVE RunInv'
  <2>1. PICK s \in {"completed", "failed", "cancelled"} :
          /\ status' = [status EXCEPT ![e] = s]
          /\ (row'.status = "none" <=> row.status = "none")
    BY <1>1, <1>14
  <2>2. s # "running" /\ status \in [Launches -> {"none", "running", "completed", "failed", "cancelled"}]
    BY <1>2
  <2> QED
    BY <1>14, <2>1, <2>2 DEF Fail
<1>15. ASSUME NEW e \in Launches, CancelStart(e) PROVE RunInv'
  BY <1>15 DEF CancelStart
<1>16. ASSUME NEW e \in Launches, CancelEnd(e) PROVE RunInv'
  <2>1. PICK s \in {"completed", "failed", "cancelled"} :
          /\ status' = [status EXCEPT ![e] = s]
          /\ (row'.status = "none" <=> row.status = "none")
    BY <1>1, <1>16
  <2>2. s # "running" /\ status \in [Launches -> {"none", "running", "completed", "failed", "cancelled"}]
    BY <1>2
  <2> QED
    BY <1>16, <2>1, <2>2 DEF CancelEnd
<1>17. ASSUME NEW e \in Launches, NEW k \in Calls, Call(e, k) \/ Spawn(e, k) \/
   AgentAnswers(e, k) \/ AgentFails(e, k)
      PROVE  RunInv'
  BY SMTT(30), <1>17 DEF Call, SetCall, Receive, Spawn, SetCall, AgentAnswers, Back,
     SetCall, Append, Receive, AgentFails, Back, SetCall
<1>18. CASE UNCHANGED vars
  BY <1>18 DEF vars
<1> HIDE DEF disk, history, process, entry, locks, faults, TypeOK, LockInv, LaunchInv,
   Untouched, Writing, Unresumable, RunInv, RunningIsCurrent, Launches, Statuses
<1> QED
  BY <1>3, <1>4, <1>5, <1>6, <1>7, <1>8, <1>9, <1>10, <1>11, <1>12, <1>13,
     <1>14, <1>15, <1>16, <1>17, <1>18
     DEF Next

(* The launch that will clear the journal has recorded the script, and until *)
(* then no guest since has received anything.                                *)
LEMMA SinceStep == TypeOK /\ LockInv /\ LaunchInv /\ SinceInv /\ [Next]_vars => SinceInv'
<1> SUFFICES ASSUME TypeOK /\ LockInv /\ LaunchInv /\ SinceInv, [Next]_vars PROVE SinceInv'
  OBVIOUS
<1>1. \A e \in Launches : Complete(e) \/ Fail(e) \/ CancelEnd(e) =>
        /\ \E s \in {"completed", "failed", "cancelled"} :
             status' = [status EXCEPT ![e] = s]
        /\ (row'.status = "none" <=> row.status = "none")
  BY Ending
<1>2. status \in [Launches -> {"none", "running", "completed", "failed", "cancelled"}]
  BY DEF TypeOK, Statuses
<1> USE WorkflowAssumption DEF disk, history, process, entry, locks, faults, TypeOK,
   LockInv, LaunchInv, Untouched, Writing, Unresumable, SinceInv, Launches, Versions
<1>3. ASSUME Start PROVE SinceInv'
  BY <1>3 DEF Start, Begin
<1>4. ASSUME Edit PROVE SinceInv'
  BY <1>4 DEF Edit
<1>5. ASSUME Crash PROVE SinceInv'
  BY <1>5 DEF Crash
<1>6. ASSUME NEW r \in Resumers, Lock(r) PROVE SinceInv'
  BY <1>6 DEF Lock
<1>7. ASSUME NEW r \in Resumers, Refuse(r) PROVE SinceInv'
  BY <1>7 DEF Refuse
<1>8. ASSUME NEW r \in Resumers, Relaunch(r) PROVE SinceInv'
  BY <1>8 DEF Relaunch, Begin, Live
<1>9. ASSUME NEW e \in Launches, Record(e) PROVE SinceInv'
  BY <1>9 DEF Record, Fresh
<1>10. ASSUME NEW e \in Launches, WriteScript(e) PROVE SinceInv'
  BY <1>10 DEF WriteScript
<1>11. ASSUME NEW e \in Launches, LaunchDies(e) PROVE SinceInv'
  BY <1>11 DEF LaunchDies, GiveBack
<1>12. ASSUME NEW e \in Launches, ClearJournal(e) PROVE SinceInv'
  BY <1>12 DEF ClearJournal
<1>13. ASSUME NEW e \in Launches, Load(e) PROVE SinceInv'
  BY <1>13 DEF Load, GiveBack
<1>14. ASSUME NEW e \in Launches, Complete(e) PROVE SinceInv'
  <2>1. PICK s \in {"completed", "failed", "cancelled"} :
          /\ status' = [status EXCEPT ![e] = s]
          /\ (row'.status = "none" <=> row.status = "none")
    BY <1>1, <1>14
  <2>2. s # "running" /\ status \in [Launches -> {"none", "running", "completed", "failed", "cancelled"}]
    BY <1>2
  <2> QED
    BY <1>14, <2>1, <2>2 DEF Complete
<1>15. ASSUME NEW e \in Launches, Reclaim(e) PROVE SinceInv'
  BY <1>15 DEF Reclaim
<1>16. ASSUME NEW e \in Launches, Fail(e) PROVE SinceInv'
  <2>1. PICK s \in {"completed", "failed", "cancelled"} :
          /\ status' = [status EXCEPT ![e] = s]
          /\ (row'.status = "none" <=> row.status = "none")
    BY <1>1, <1>16
  <2>2. s # "running" /\ status \in [Launches -> {"none", "running", "completed", "failed", "cancelled"}]
    BY <1>2
  <2> QED
    BY <1>16, <2>1, <2>2 DEF Fail
<1>17. ASSUME NEW e \in Launches, Return(e) PROVE SinceInv'
  BY <1>17 DEF Return, Dispose
<1>18. ASSUME NEW e \in Launches, Throw(e) PROVE SinceInv'
  BY <1>18 DEF Throw, Dispose
<1>19. ASSUME NEW e \in Launches, CancelStart(e) PROVE SinceInv'
  BY <1>19 DEF CancelStart
<1>20. ASSUME NEW e \in Launches, CancelEnd(e) PROVE SinceInv'
  <2>1. PICK s \in {"completed", "failed", "cancelled"} :
          /\ status' = [status EXCEPT ![e] = s]
          /\ (row'.status = "none" <=> row.status = "none")
    BY SMTT(30), <1>1, <1>20
  <2>2. s # "running" /\ status \in [Launches -> {"none", "running", "completed", "failed", "cancelled"}]
    BY <1>2
  <2> QED
    BY <1>20, <2>1, <2>2 DEF CancelEnd
<1>21. ASSUME NEW e \in Launches, NEW k \in Calls, Call(e, k) PROVE SinceInv'
  BY SMTT(30), <1>21 DEF Call, SetCall, Receive
<1>22. ASSUME NEW e \in Launches, NEW k \in Calls, Spawn(e, k) PROVE SinceInv'
  BY <1>22 DEF Spawn, SetCall
<1>23. ASSUME NEW e \in Launches, NEW k \in Calls, AgentAnswers(e, k) PROVE SinceInv'
  BY <1>23 DEF AgentAnswers, Back, SetCall, Append, Receive
<1>24. ASSUME NEW e \in Launches, NEW k \in Calls, AgentFails(e, k) PROVE SinceInv'
  BY <1>24 DEF AgentFails, Back, SetCall
<1>25. CASE UNCHANGED vars
  BY <1>25 DEF vars
<1> HIDE DEF disk, history, process, entry, locks, faults, TypeOK, LockInv, LaunchInv,
   Untouched, Writing, Unresumable, SinceInv, Launches, Versions
<1> QED
  BY <1>3, <1>4, <1>5, <1>6, <1>7, <1>8, <1>9, <1>10, <1>11, <1>12, <1>13,
     <1>14, <1>15, <1>16, <1>17, <1>18, <1>19, <1>20, <1>21, <1>22, <1>23,
     <1>24, <1>25
     DEF Next

(* What a guest since the script was recorded replays is in the journal:     *)
(* ClearJournal finds no such guest.                                         *)
LEMMA ReplayStep == TypeOK /\ LockInv /\ LaunchInv /\ SinceInv /\ ReplayInv /\ [Next]_vars => ReplayInv'
<1> SUFFICES ASSUME TypeOK /\ LockInv /\ LaunchInv /\ SinceInv /\ ReplayInv, [Next]_vars PROVE ReplayInv'
  OBVIOUS
<1>1. \A e \in Launches : Complete(e) \/ Fail(e) \/ CancelEnd(e) =>
        /\ \E s \in {"completed", "failed", "cancelled"} :
             status' = [status EXCEPT ![e] = s]
        /\ (row'.status = "none" <=> row.status = "none")
  BY Ending
<1>2. status \in [Launches -> {"none", "running", "completed", "failed", "cancelled"}]
  BY DEF TypeOK, Statuses
<1> USE WorkflowAssumption DEF disk, history, process, entry, locks, faults, TypeOK,
   LaunchInv, Untouched, Writing, Unresumable, SinceInv, ReplayInv, Launches, Calls, Nothing,
   Versions
<1>3. ASSUME Start PROVE ReplayInv'
  BY <1>3 DEF Start, Begin
<1>4. ASSUME Edit PROVE ReplayInv'
  BY <1>4 DEF Edit
<1>5. ASSUME Crash PROVE ReplayInv'
  BY <1>5 DEF Crash
<1>6. ASSUME NEW r \in Resumers, Lock(r) PROVE ReplayInv'
  BY <1>6 DEF Lock
<1>7. ASSUME NEW r \in Resumers, Refuse(r) PROVE ReplayInv'
  BY <1>7 DEF Refuse
<1>8. ASSUME NEW r \in Resumers, Relaunch(r) PROVE ReplayInv'
  BY SMTT(30), <1>8 DEF Relaunch, Begin, Live
<1>9. ASSUME NEW e \in Launches, Record(e) PROVE ReplayInv'
  BY SMTT(30), <1>9 DEF Record, Fresh
<1>10. ASSUME NEW e \in Launches, WriteScript(e) PROVE ReplayInv'
  BY <1>10 DEF WriteScript
<1>11. ASSUME NEW e \in Launches, LaunchDies(e) PROVE ReplayInv'
  BY <1>11 DEF LaunchDies, GiveBack
<1>12. ASSUME NEW e \in Launches, ClearJournal(e) PROVE ReplayInv'
  <2>1. since = e /\ e = born /\ guest[e] = "off" /\ UNCHANGED <<guest, since>>
    BY <1>12 DEF ClearJournal
  <2>2. \A d \in Launches : d >= e => guest[d] = "off"
    BY <2>1
  <2> QED
    BY <2>1, <2>2
<1>13. ASSUME NEW e \in Launches, Load(e) PROVE ReplayInv'
  BY <1>13 DEF Load, GiveBack
<1>14. ASSUME NEW e \in Launches, Complete(e) PROVE ReplayInv'
  <2>1. PICK s \in {"completed", "failed", "cancelled"} :
          /\ status' = [status EXCEPT ![e] = s]
          /\ (row'.status = "none" <=> row.status = "none")
    BY <1>1, <1>14
  <2>2. s # "running" /\ status \in [Launches -> {"none", "running", "completed", "failed", "cancelled"}]
    BY <1>2
  <2> QED
    BY <1>14, <2>1, <2>2 DEF Complete
<1>15. ASSUME NEW e \in Launches, Reclaim(e) PROVE ReplayInv'
  BY <1>15 DEF Reclaim
<1>16. ASSUME NEW e \in Launches, Fail(e) PROVE ReplayInv'
  <2>1. PICK s \in {"completed", "failed", "cancelled"} :
          /\ status' = [status EXCEPT ![e] = s]
          /\ (row'.status = "none" <=> row.status = "none")
    BY <1>1, <1>16
  <2>2. s # "running" /\ status \in [Launches -> {"none", "running", "completed", "failed", "cancelled"}]
    BY <1>2
  <2> QED
    BY <1>16, <2>1, <2>2 DEF Fail
<1>17. ASSUME NEW e \in Launches, Return(e) PROVE ReplayInv'
  BY <1>17 DEF Return, Dispose
<1>18. ASSUME NEW e \in Launches, Throw(e) PROVE ReplayInv'
  BY <1>18 DEF Throw, Dispose
<1>19. ASSUME NEW e \in Launches, CancelStart(e) PROVE ReplayInv'
  BY <1>19 DEF CancelStart
<1>20. ASSUME NEW e \in Launches, CancelEnd(e) PROVE ReplayInv'
  <2>1. PICK s \in {"completed", "failed", "cancelled"} :
          /\ status' = [status EXCEPT ![e] = s]
          /\ (row'.status = "none" <=> row.status = "none")
    BY <1>1, <1>20
  <2>2. s # "running" /\ status \in [Launches -> {"none", "running", "completed", "failed", "cancelled"}]
    BY <1>2
  <2> QED
    BY <1>20, <2>1, <2>2 DEF CancelEnd
<1>21. ASSUME NEW e \in Launches, NEW k \in Calls, Call(e, k) PROVE ReplayInv'
  <2>1. UNCHANGED <<journal, guest, cache, since>>
    BY <1>21 DEF Call, Receive
  <2> QED
    BY <2>1
<1>22. ASSUME NEW e \in Launches, NEW k \in Calls, Spawn(e, k) PROVE ReplayInv'
  BY <1>22 DEF Spawn, SetCall
<1>23. ASSUME NEW e \in Launches, NEW k \in Calls, AgentAnswers(e, k) PROVE ReplayInv'
  BY SMTT(30), <1>23 DEF AgentAnswers, Back, SetCall, Append, Receive
<1>24. ASSUME NEW e \in Launches, NEW k \in Calls, AgentFails(e, k) PROVE ReplayInv'
  BY <1>24 DEF AgentFails, Back, SetCall
<1>25. CASE UNCHANGED vars
  BY <1>25 DEF vars
<1> HIDE DEF disk, history, process, entry, locks, faults, TypeOK, LaunchInv, Untouched, Writing, Unresumable,
   SinceInv, ReplayInv, Launches, Calls, Nothing, Versions
<1> QED
  BY <1>3, <1>4, <1>5, <1>6, <1>7, <1>8, <1>9, <1>10, <1>11, <1>12, <1>13,
     <1>14, <1>15, <1>16, <1>17, <1>18, <1>19, <1>20, <1>21, <1>22, <1>23,
     <1>24, <1>25
     DEF Next

(***************************************************************************)
(* Counting the results that are lost.                                     *)
(***************************************************************************)
LEMMA LostIsFinite ==
  ASSUME TypeOK
  PROVE  IsFiniteSet(Lost) /\ Cardinality(Lost) \in Nat
<1>1. IsFiniteSet(Calls)
  BY WorkflowAssumption, FS_Interval DEF Calls
<1>2. Lost \subseteq Calls
  BY DEF TypeOK, Lost
<1> QED
  BY <1>1, <1>2, FS_Subset, FS_CardinalityType

(* No more is lost, and no line is torn that was whole.                      *)
LEMMA NoMoreLost ==
  ASSUME TypeOK, TornInv, Lost' \subseteq Lost, torn' => torn, torn' \in BOOLEAN,
         tears' = tears
  PROVE  TornInv'
<1>1. IsFiniteSet(Lost) /\ Cardinality(Lost) \in Nat
  BY LostIsFinite
<1>2. Cardinality(Lost') \in Nat /\ Cardinality(Lost') <= Cardinality(Lost)
  BY <1>1, FS_Subset, FS_CardinalityType
<1>3. tears \in Nat
  BY WorkflowAssumption DEF TypeOK
<1> QED
  BY <1>1, <1>2, <1>3 DEF TornInv, TypeOK

(* A result of a guest of the recorded script is lost for each torn line.    *)
LEMMA TornStep ==
  TypeOK /\ SinceInv /\ ReplayInv /\ TornInv /\ [Next]_vars => TornInv'
<1> SUFFICES ASSUME TypeOK /\ SinceInv /\ ReplayInv /\ TornInv, [Next]_vars
             PROVE  TornInv'
  OBVIOUS
<1>1. ASSUME UNCHANGED <<journal, torn, got, tears>> PROVE TornInv'
  <2>1. Lost' = Lost
    BY <1>1 DEF Lost
  <2> QED
    BY <1>1, <2>1 DEF TornInv
<1>2. ASSUME Start \/ Edit PROVE TornInv'
  BY <1>1, <1>2 DEF Start, Edit, disk, history, faults
<1>3. ASSUME Crash PROVE TornInv'
  <2>1. Lost' = Lost
    BY <1>3 DEF Crash, Lost, history
  <2>2. CASE UNCHANGED <<torn, tears>>
    BY <2>1, <2>2 DEF TornInv
  <2>3. CASE torn' = TRUE /\ tears' = tears + 1
    <3>1. Cardinality(Lost) \in Nat /\ tears \in Nat
      BY LostIsFinite, WorkflowAssumption DEF TypeOK
    <3> QED
      BY <2>1, <2>3, <3>1 DEF TornInv
  <2> QED
    BY <1>3, <2>2, <2>3 DEF Crash
<1>4. ASSUME NEW r \in Resumers, Lock(r) \/ Refuse(r) \/ Relaunch(r) PROVE TornInv'
  BY <1>1, <1>4 DEF Lock, Refuse, Relaunch, disk, history, faults
<1>5. ASSUME NEW e \in Launches, ClearJournal(e) PROVE TornInv'
  <2>1. Lost' = {} /\ torn' = FALSE /\ tears' = tears
    BY <1>5 DEF ClearJournal, Lost, history, faults, SinceInv
  <2> QED
    BY <2>1, NoMoreLost
<1>12. ASSUME NEW e \in Launches, Record(e) PROVE TornInv'
  <2>1. Lost' \subseteq Lost /\ UNCHANGED <<torn, tears>>
    BY <1>12 DEF Record, Lost, history, faults
  <2> QED
    BY <2>1, NoMoreLost DEF TypeOK
<1>6. ASSUME NEW e \in Launches, WriteScript(e) \/ Load(e) \/ LaunchDies(e)
      PROVE  TornInv'
  BY <1>1, <1>6 DEF WriteScript, Load, LaunchDies, disk, history, faults
<1>7. ASSUME NEW e \in Launches,
             \/ Complete(e) \/ Reclaim(e) \/ Fail(e) \/ Return(e) \/ Throw(e)
             \/ CancelStart(e) \/ CancelEnd(e)
      PROVE  TornInv'
  BY <1>1, <1>7 DEF Complete, Reclaim, Fail, Return, Throw, CancelStart,
     CancelEnd, disk, history, faults
<1>8. ASSUME NEW e \in Launches, NEW k \in Calls, Call(e, k) PROVE TornInv'
  <2>1. UNCHANGED <<journal, torn, tears>>
    BY <1>8 DEF Call, disk, history, faults
  <2>2. CASE UNCHANGED history
    BY <1>1, <2>1, <2>2 DEF history
  <2>3. CASE cache[e][k] # Nothing /\ Receive(e, k)
    <3>1. got' = got \/ (got' = got \cup {k} /\ journal[k] # Nothing)
      BY <1>8, <2>3 DEF Call, Receive, ReplayInv
    <3>2. Lost' \subseteq Lost
      BY <2>1, <3>1 DEF Lost
    <3> QED
      BY <2>1, <3>2, NoMoreLost DEF TypeOK
  <2> QED
    BY <1>8, <2>2, <2>3 DEF Call
<1>9. ASSUME NEW e \in Launches, NEW k \in Calls, AgentAnswers(e, k) PROVE TornInv'
  <2>1. /\ got' \subseteq got \cup {k} /\ tears' = tears /\ torn' = FALSE
        /\ journal' = IF torn THEN journal ELSE [journal EXCEPT ![k] = version[e]]
    BY <1>9 DEF AgentAnswers, Append, Receive, history, faults
  <2>2. CASE torn
    <3>1. Lost' \subseteq Lost \cup {k}
      BY <2>1, <2>2 DEF Lost
    <3>2. /\ IsFiniteSet(Lost) /\ Cardinality(Lost) \in Nat
          /\ Cardinality(Lost) + 1 <= tears /\ tears \in Nat
      BY <2>2, LostIsFinite, WorkflowAssumption DEF TornInv, TypeOK
    <3>3. /\ IsFiniteSet(Lost \cup {k}) /\ Cardinality(Lost \cup {k}) \in Nat
          /\ Cardinality(Lost \cup {k}) <= Cardinality(Lost) + 1
      <4>1. /\ IsFiniteSet(Lost \cup {k})
            /\ \/ Cardinality(Lost \cup {k}) = Cardinality(Lost)
               \/ Cardinality(Lost \cup {k}) = Cardinality(Lost) + 1
        BY <3>2, FS_AddElement
      <4> QED
        BY <3>2, <4>1
    <3>4. /\ Cardinality(Lost') \in Nat
          /\ Cardinality(Lost') <= Cardinality(Lost \cup {k})
      BY <3>1, <3>3, FS_Subset, FS_CardinalityType
    <3> QED
      BY <2>1, <3>2, <3>3, <3>4 DEF TornInv
  <2>3. CASE ~ torn
    <3>1. version[e] # Nothing
      BY WorkflowAssumption DEF TypeOK, Versions, Nothing
    <3>2. Lost' \subseteq Lost
      BY <2>1, <2>3, <3>1 DEF Lost, TypeOK
    <3> QED
      BY <2>1, <3>2, NoMoreLost
  <2> QED
    BY <2>2, <2>3
<1>10. ASSUME NEW e \in Launches, NEW k \in Calls, Spawn(e, k) \/ AgentFails(e, k)
       PROVE  TornInv'
  BY <1>1, <1>10 DEF Spawn, AgentFails, disk, history, faults
<1>11. CASE UNCHANGED vars
  BY <1>1, <1>11 DEF vars, disk, history, faults
<1> QED
  BY <1>2, <1>3, <1>4, <1>5, <1>6, <1>7, <1>8, <1>9, <1>10, <1>11, <1>12 DEF Next

-----------------------------------------------------------------------------
LEMMA InitInv == Init => IInv
<1> SUFFICES ASSUME Init PROVE IInv
  OBVIOUS
<1> USE WorkflowAssumption DEF Init
<1>1. TypeOK
  <2>1. /\ journal \in [Calls -> Versions \cup {Nothing}]
        /\ cache \in [Launches -> [Calls -> Versions \cup {Nothing}]]
        /\ call \in [Launches -> [Calls -> {"no", "queued", "up", "back"}]]
    BY DEF Nothing
  <2>2. /\ script \in Versions /\ version \in [Launches -> Versions]
        /\ row \in [status : Statuses, sha : Versions]
        /\ status \in [Launches -> Statuses] /\ told \in [Launches -> Statuses]
    BY DEF Versions, Statuses
  <2>3. /\ phase \in [Launches -> {"unborn", "record", "write", "rewrite", "clear",
                                   "load", "eval", "reclaim", "dead", "done"}]
        /\ guest \in [Launches -> {"off", "on", "returned", "threw"}]
        /\ cancel \in [Launches -> 0..MaxCancels]
        /\ resumer \in [Resumers -> {"idle", "holds", "launches", "back"}]
    OBVIOUS
  <2>4. /\ saved \in BOOLEAN /\ torn \in BOOLEAN /\ got \subseteq Calls
        /\ lock \in Resumers \cup {"free"}
    OBVIOUS
  <2>5. /\ born \in 0..MaxLaunches /\ current \in 0..born /\ since \in 0..born
        /\ edits \in 0..MaxEdits /\ crashes \in 0..MaxCrashes
        /\ tears \in 0..MaxTorn
    BY SMT
  <2> HIDE DEF Init
  <2> QED
    BY <2>1, <2>2, <2>3, <2>4, <2>5 DEF TypeOK
<1>2. LockInv /\ LaunchInv /\ RunInv /\ SinceInv
  BY DEF LockInv, LaunchInv, Untouched, Writing, Unresumable, RunInv,
     RunningIsCurrent, SinceInv, Launches
<1>3. ReplayInv
  BY DEF ReplayInv
<1>4. TornInv
  <2>1. Lost = {}
    BY DEF Lost
  <2> QED
    BY <2>1, FS_EmptySet DEF TornInv
<1> QED
  BY <1>1, <1>2, <1>3, <1>4 DEF IInv

LEMMA Invariance == Spec => []IInv
<1>1. IInv /\ [Next]_vars => IInv'
  BY TypeStep, LockStep, LaunchStep, RunStep, SinceStep, ReplayStep, TornStep
     DEF IInv
<1> QED
  BY <1>1, InitInv, PTL DEF Spec

-----------------------------------------------------------------------------
(* Theorems.                                                                 *)

(* Every variable keeps its type, whatever the number of calls, launches and *)
(* resumers, of edits, deaths and torn lines.                                *)
THEOREM TypeCorrect == Spec => []TypeOK
BY Invariance, PTL DEF IInv

(* At most one launch of a run runs, and it is the one in the map, where     *)
(* status, cancel and the guard of resume find it: the lock of the run's id  *)
(* and the live guard are enough, whatever the launches before have left.    *)
THEOREM OneLaunchRuns == Spec => []RunningIsCurrent
BY Invariance, PTL DEF IInv, RunInv

(* A launch is loaded by Load alone.                                         *)
LEMMA OnlyLoadLoads ==
  ASSUME TypeOK, [Next]_vars, NEW e \in Launches, phase[e] = "load",
         phase'[e] = "eval"
  PROVE  Load(e)
<1> USE DEF TypeOK
<1>1. ASSUME UNCHANGED phase PROVE FALSE
  BY <1>1
<1>2. ASSUME Start PROVE FALSE
  BY <1>2 DEF Start, Begin
<1>3. CASE Edit
  BY <1>1, <1>3 DEF Edit, process, entry
<1>4. ASSUME Crash PROVE FALSE
  BY <1>4 DEF Crash
<1>5. ASSUME NEW r \in Resumers, Lock(r) \/ Refuse(r) \/ Relaunch(r) PROVE FALSE
  BY <1>1, <1>5 DEF Lock, Refuse, Relaunch, Begin, process, entry
<1>6. ASSUME NEW d \in Launches, Load(d) PROVE d = e
  BY <1>6 DEF Load
<1>7. ASSUME NEW d \in Launches,
             \/ Record(d) \/ WriteScript(d) \/ ClearJournal(d) \/ LaunchDies(d)
             \/ Complete(d) \/ Reclaim(d) \/ Fail(d) \/ CancelEnd(d)
      PROVE  FALSE
  BY <1>7 DEF Record, WriteScript, ClearJournal, LaunchDies, Complete, Reclaim,
     Fail, CancelEnd
<1>8. ASSUME NEW d \in Launches, Return(d) \/ Throw(d) \/ CancelStart(d) PROVE FALSE
  BY <1>1, <1>8 DEF Return, Throw, CancelStart
<1>9. ASSUME NEW d \in Launches, NEW k \in Calls,
             Call(d, k) \/ Spawn(d, k) \/ AgentAnswers(d, k) \/ AgentFails(d, k)
      PROVE  FALSE
  BY <1>1, <1>9 DEF Call, Spawn, AgentAnswers, AgentFails
<1>10. CASE UNCHANGED vars
  BY <1>1, <1>10 DEF vars, process, entry
<1> HIDE DEF TypeOK
<1> QED
  BY <1>2, <1>3, <1>4, <1>5, <1>6, <1>7, <1>8, <1>9, <1>10 DEF Next

(* A launch replays every result a guest of its script has received, but for *)
(* one for each line of the journal that a death of the process has torn.    *)
THEOREM MissesAreTorn == Spec => ReplayMissesTornOnly
<1>1. IInv /\ [Next]_vars =>
        \A e \in Launches : phase[e] = "load" /\ phase'[e] = "eval" =>
          Cardinality(Missed(e)') <= tears
  <2> SUFFICES ASSUME IInv, [Next]_vars, NEW e \in Launches, phase[e] = "load",
                      phase'[e] = "eval"
               PROVE  Cardinality(Missed(e)') <= tears
    OBVIOUS
  <2>1. TypeOK /\ TornInv
    BY DEF IInv
  <2>2. Load(e)
    BY <2>1, OnlyLoadLoads
  <2>3. Missed(e)' = Lost
    BY <2>1, <2>2 DEF Load, Missed, Lost, disk, history, TypeOK
  <2>4. Cardinality(Lost) \in Nat /\ tears \in Nat
    BY <2>1, LostIsFinite, WorkflowAssumption DEF TypeOK
  <2> QED
    BY <2>1, <2>3, <2>4 DEF TornInv
<1> QED
  BY <1>1, Invariance, PTL DEF Spec, ReplayMissesTornOnly

(* Where no append is cut short, a resume replays everything: the process    *)
(* may die at any other moment.                                              *)
COROLLARY ReplayIsWhole == MaxTorn = 0 => (Spec => ReplayIsComplete)
<1> SUFFICES ASSUME MaxTorn = 0 PROVE Spec => ReplayIsComplete
  OBVIOUS
<1>1. IInv /\ [Next]_vars =>
        \A e \in Launches : phase[e] = "load" /\ phase'[e] = "eval" =>
          \A k \in Calls : k \in got => cache'[e][k] # Nothing
  <2> SUFFICES ASSUME IInv, [Next]_vars, NEW e \in Launches, phase[e] = "load",
                      phase'[e] = "eval"
               PROVE  \A k \in Calls : k \in got => cache'[e][k] # Nothing
    OBVIOUS
  <2>1. TypeOK /\ TornInv
    BY DEF IInv
  <2>2. Load(e)
    BY <2>1, OnlyLoadLoads
  <2>3. cache'[e] = journal
    BY <2>1, <2>2 DEF Load, TypeOK
  <2>4. IsFiniteSet(Lost) /\ Cardinality(Lost) = 0
    BY <2>1, LostIsFinite, WorkflowAssumption DEF TornInv, TypeOK
  <2>5. Lost = {}
    BY <2>4, FS_EmptySet
  <2> QED
    BY <2>3, <2>5 DEF Lost
<1> QED
  BY <1>1, Invariance, PTL DEF Spec, ReplayIsComplete

-----------------------------------------------------------------------------
(***************************************************************************)
(* What RunSettles needs besides fairness: a launch that runs, unless it   *)
(* has died before the fork, is at a place its fiber or the deadline of    *)
(* its sandbox takes it from, every move takes it further down, and its    *)
(* end is told to whoever waits.                                           *)
(***************************************************************************)
RunCanMove == \A e \in Launches :
  /\ status[e] = "running" =>
        phase[e] \in {"write", "rewrite", "clear", "load", "eval", "reclaim", "dead"}
  /\ phase[e] = "eval" => guest[e] \in {"on", "returned", "threw"}
  /\ phase[e] = "reclaim" => guest[e] = "off"

EndIsTold == \A e \in Launches :
  status[e] \in {"completed", "failed", "cancelled"} => told[e] # "none"

EndInv == RunCanMove /\ EndIsTold

(* How many moves a launch that runs has ahead of it.                        *)
MovesLeft(e) ==
  CASE phase[e] = "rewrite" -> 6
    [] phase[e] = "clear" -> 5
    [] phase[e] = "write" -> 5
    [] phase[e] = "load" -> 4
    [] phase[e] = "eval" /\ guest[e] = "on" -> 3
    [] phase[e] = "eval" /\ guest[e] # "on" -> 2
    [] phase[e] = "reclaim" -> 1
    [] OTHER -> 0

RunsDescend ==
  [][\A e \in Launches : status[e] = "running" /\ status'[e] = "running" =>
       \/ UNCHANGED <<phase[e], guest[e]>>
       \/ MovesLeft(e)' < MovesLeft(e)]_vars

(* A launch that runs is on its way, and a sandbox that is evaluated is open. *)
LEMMA MoveStep == TypeOK /\ LaunchInv /\ RunCanMove /\ [Next]_vars => RunCanMove'
<1> SUFFICES ASSUME TypeOK /\ LaunchInv /\ RunCanMove, [Next]_vars
             PROVE  RunCanMove'
  OBVIOUS
<1> USE WorkflowAssumption DEF disk, history, process, entry, locks, faults, TypeOK,
   Statuses, LaunchInv, Untouched, Writing, Unresumable, RunCanMove
<1>1. ASSUME Start PROVE RunCanMove'
  BY <1>1 DEF Start, Begin
<1>2. ASSUME Edit PROVE RunCanMove'
  BY <1>2 DEF Edit
<1>3. ASSUME Crash PROVE RunCanMove'
  BY <1>3 DEF Crash
<1>4. ASSUME NEW r \in Resumers, Lock(r) PROVE RunCanMove'
  BY <1>4 DEF Lock
<1>5. ASSUME NEW r \in Resumers, Refuse(r) PROVE RunCanMove'
  BY <1>5 DEF Refuse
<1>6. ASSUME NEW r \in Resumers, Relaunch(r) PROVE RunCanMove'
  BY <1>6 DEF Relaunch, Begin
<1>7. ASSUME NEW e \in Launches, Record(e) PROVE RunCanMove'
  BY <1>7 DEF Record
<1>8. ASSUME NEW e \in Launches, WriteScript(e) PROVE RunCanMove'
  BY <1>8 DEF WriteScript
<1>9. ASSUME NEW e \in Launches, LaunchDies(e) PROVE RunCanMove'
  BY <1>9 DEF LaunchDies, GiveBack
<1>10. ASSUME NEW e \in Launches, ClearJournal(e) PROVE RunCanMove'
  BY <1>10 DEF ClearJournal
<1>11. ASSUME NEW e \in Launches, Load(e) PROVE RunCanMove'
  BY <1>11 DEF Load, GiveBack
<1>12. ASSUME NEW e \in Launches, Complete(e) PROVE RunCanMove'
  BY <1>12 DEF Complete, End
<1>13. ASSUME NEW e \in Launches, Reclaim(e) PROVE RunCanMove'
  BY <1>13 DEF Reclaim
<1>14. ASSUME NEW e \in Launches, Fail(e) PROVE RunCanMove'
  BY <1>14 DEF Fail, End
<1>15. ASSUME NEW e \in Launches, Return(e) PROVE RunCanMove'
  BY <1>15 DEF Return, Dispose
<1>16. ASSUME NEW e \in Launches, Throw(e) PROVE RunCanMove'
  BY <1>16 DEF Throw, Dispose
<1>17. ASSUME NEW e \in Launches, CancelStart(e) PROVE RunCanMove'
  BY <1>17 DEF CancelStart
<1>18. ASSUME NEW e \in Launches, CancelEnd(e) PROVE RunCanMove'
  BY <1>18 DEF CancelEnd, End
<1>19. ASSUME NEW e \in Launches, NEW k \in Calls, Call(e, k) PROVE RunCanMove'
  BY <1>19 DEF Call
<1>20. ASSUME NEW e \in Launches, NEW k \in Calls, Spawn(e, k) PROVE RunCanMove'
  BY <1>20 DEF Spawn
<1>21. ASSUME NEW e \in Launches, NEW k \in Calls, AgentAnswers(e, k) PROVE RunCanMove'
  BY <1>21 DEF AgentAnswers
<1>22. ASSUME NEW e \in Launches, NEW k \in Calls, AgentFails(e, k) PROVE RunCanMove'
  BY <1>22 DEF AgentFails
<1>23. CASE UNCHANGED vars
  BY <1>23 DEF vars
<1> HIDE DEF disk, history, process, entry, locks, faults, TypeOK, Statuses,
   LaunchInv, Untouched, Writing, Unresumable, RunCanMove
<1> QED
  BY <1>1, <1>2, <1>3, <1>4, <1>5, <1>6, <1>7, <1>8, <1>9, <1>10, <1>11,
     <1>12, <1>13, <1>14, <1>15, <1>16, <1>17, <1>18, <1>19, <1>20, <1>21,
     <1>22, <1>23
     DEF Next

(* The entry and the deferred are completed in one step.                     *)
LEMMA ToldStep == TypeOK /\ EndIsTold /\ [Next]_vars => EndIsTold'
<1> SUFFICES ASSUME TypeOK /\ EndIsTold, [Next]_vars PROVE EndIsTold'
  OBVIOUS
<1> USE WorkflowAssumption DEF disk, history, process, entry, locks, faults, TypeOK,
   Statuses, EndIsTold
<1>1. ASSUME Start PROVE EndIsTold'
  BY <1>1 DEF Start, Begin
<1>2. ASSUME Edit PROVE EndIsTold'
  BY <1>2 DEF Edit
<1>3. ASSUME Crash PROVE EndIsTold'
  BY <1>3 DEF Crash
<1>4. ASSUME NEW r \in Resumers, Lock(r) PROVE EndIsTold'
  BY <1>4 DEF Lock
<1>5. ASSUME NEW r \in Resumers, Refuse(r) PROVE EndIsTold'
  BY <1>5 DEF Refuse
<1>6. ASSUME NEW r \in Resumers, Relaunch(r) PROVE EndIsTold'
  BY <1>6 DEF Relaunch, Begin
<1>7. ASSUME NEW e \in Launches, Record(e) PROVE EndIsTold'
  BY <1>7 DEF Record
<1>8. ASSUME NEW e \in Launches, WriteScript(e) PROVE EndIsTold'
  BY <1>8 DEF WriteScript
<1>9. ASSUME NEW e \in Launches, LaunchDies(e) PROVE EndIsTold'
  BY <1>9 DEF LaunchDies, GiveBack
<1>10. ASSUME NEW e \in Launches, ClearJournal(e) PROVE EndIsTold'
  BY <1>10 DEF ClearJournal
<1>11. ASSUME NEW e \in Launches, Load(e) PROVE EndIsTold'
  BY <1>11 DEF Load, GiveBack
<1>12. ASSUME NEW e \in Launches, Complete(e) PROVE EndIsTold'
  BY <1>12 DEF Complete, End
<1>13. ASSUME NEW e \in Launches, Reclaim(e) PROVE EndIsTold'
  BY <1>13 DEF Reclaim
<1>14. ASSUME NEW e \in Launches, Fail(e) PROVE EndIsTold'
  BY <1>14 DEF Fail, End
<1>15. ASSUME NEW e \in Launches, Return(e) PROVE EndIsTold'
  BY <1>15 DEF Return, Dispose
<1>16. ASSUME NEW e \in Launches, Throw(e) PROVE EndIsTold'
  BY <1>16 DEF Throw, Dispose
<1>17. ASSUME NEW e \in Launches, CancelStart(e) PROVE EndIsTold'
  BY <1>17 DEF CancelStart
<1>18. ASSUME NEW e \in Launches, CancelEnd(e) PROVE EndIsTold'
  BY <1>18 DEF CancelEnd, End
<1>19. ASSUME NEW e \in Launches, NEW k \in Calls, Call(e, k) PROVE EndIsTold'
  BY <1>19 DEF Call
<1>20. ASSUME NEW e \in Launches, NEW k \in Calls, Spawn(e, k) PROVE EndIsTold'
  BY <1>20 DEF Spawn
<1>21. ASSUME NEW e \in Launches, NEW k \in Calls, AgentAnswers(e, k) PROVE EndIsTold'
  BY <1>21 DEF AgentAnswers
<1>22. ASSUME NEW e \in Launches, NEW k \in Calls, AgentFails(e, k) PROVE EndIsTold'
  BY <1>22 DEF AgentFails
<1>23. CASE UNCHANGED vars
  BY <1>23 DEF vars
<1> HIDE DEF disk, history, process, entry, locks, faults, TypeOK, Statuses,
   EndIsTold
<1> QED
  BY <1>1, <1>2, <1>3, <1>4, <1>5, <1>6, <1>7, <1>8, <1>9, <1>10, <1>11,
     <1>12, <1>13, <1>14, <1>15, <1>16, <1>17, <1>18, <1>19, <1>20, <1>21,
     <1>22, <1>23
     DEF Next

(* A launch that is yet to come does not run.                                *)
LEMMA UnbornIsIdle ==
  ASSUME IInv, NEW e \in Launches, e > born PROVE status[e] = "none"
BY DEF IInv, LaunchInv, Untouched

(* No step takes a launch that goes on running further up.                   *)
DescendsNow == \A e \in Launches :
  status[e] = "running" /\ status'[e] = "running" =>
    UNCHANGED <<phase[e], guest[e]>> \/ MovesLeft(e)' < MovesLeft(e)

LEMMA DescendStep == IInv /\ EndInv /\ [Next]_vars => DescendsNow
<1> SUFFICES ASSUME IInv /\ EndInv, [Next]_vars PROVE DescendsNow
  OBVIOUS
<1> USE WorkflowAssumption DEF disk, history, process, entry, locks, faults, TypeOK,
   Statuses, IInv, LaunchInv, Writing, RunInv, EndInv, RunCanMove, MovesLeft,
   DescendsNow
<1>1. ASSUME Start PROVE DescendsNow
  <2>1. UNCHANGED <<status, guest>> /\ born = 0 /\ 1 \in Launches
    BY <1>1 DEF Start, Begin, Launches
  <2>2. \A e \in Launches \ {1} : phase'[e] = phase[e]
    BY <1>1 DEF Start, Begin
  <2>3. status[1] = "none"
    BY <2>1, UnbornIsIdle
  <2> QED
    BY <2>1, <2>2, <2>3
<1>2. ASSUME Edit PROVE DescendsNow
  BY <1>2 DEF Edit
<1>3. ASSUME Crash PROVE DescendsNow
  BY <1>3 DEF Crash
<1>4. ASSUME NEW r \in Resumers, Lock(r) PROVE DescendsNow
  BY <1>4 DEF Lock
<1>5. ASSUME NEW r \in Resumers, Refuse(r) PROVE DescendsNow
  BY <1>5 DEF Refuse
<1>6. ASSUME NEW r \in Resumers, Relaunch(r) PROVE DescendsNow
  <2>1. UNCHANGED <<status, guest>> /\ born + 1 \in Launches
    BY <1>6 DEF Relaunch, Begin, Launches
  <2>2. \A e \in Launches \ {born + 1} : phase'[e] = phase[e]
    BY <1>6 DEF Relaunch, Begin
  <2>3. born \in Nat /\ born + 1 > born
    BY DEF Launches
  <2>4. status[born + 1] = "none"
    BY <2>1, <2>3, UnbornIsIdle
  <2> QED
    BY <2>1, <2>2, <2>4
<1>7. ASSUME NEW e \in Launches, Record(e) PROVE DescendsNow
  BY <1>7 DEF Record
<1>8. ASSUME NEW e \in Launches, WriteScript(e) PROVE DescendsNow
  BY <1>8 DEF WriteScript
<1>9. ASSUME NEW e \in Launches, LaunchDies(e) PROVE DescendsNow
  BY <1>9 DEF LaunchDies, GiveBack
<1>10. ASSUME NEW e \in Launches, ClearJournal(e) PROVE DescendsNow
  BY <1>10 DEF ClearJournal
<1>11. ASSUME NEW e \in Launches, Load(e) PROVE DescendsNow
  BY <1>11 DEF Load, GiveBack
<1>12. ASSUME NEW e \in Launches, Complete(e) PROVE DescendsNow
  BY <1>12 DEF Complete, End
<1>13. ASSUME NEW e \in Launches, Reclaim(e) PROVE DescendsNow
  BY <1>13 DEF Reclaim
<1>14. ASSUME NEW e \in Launches, Fail(e) PROVE DescendsNow
  BY <1>14 DEF Fail, End
<1>15. ASSUME NEW e \in Launches, Return(e) PROVE DescendsNow
  <2>1. /\ guest' = [guest EXCEPT ![e] = guest'[e]] /\ UNCHANGED <<phase, status>>
        /\ guest[e] = "on"
        /\ phase[e] = "eval" => guest'[e] \in {"returned", "threw"}
    BY <1>15 DEF Return, Dispose
  <2>2. \A d \in Launches \ {e} : guest'[d] = guest[d] /\ phase'[d] = phase[d]
    BY <2>1
  <2>3. status[e] = "running" => phase[e] = "eval"
    BY <2>1
  <2> QED
    BY <2>1, <2>2, <2>3
<1>16. ASSUME NEW e \in Launches, Throw(e) PROVE DescendsNow
  <2>1. /\ guest' = [guest EXCEPT ![e] = guest'[e]] /\ UNCHANGED <<phase, status>>
        /\ guest[e] = "on"
        /\ phase[e] = "eval" => guest'[e] \in {"returned", "threw"}
    BY <1>16 DEF Throw, Dispose
  <2>2. \A d \in Launches \ {e} : guest'[d] = guest[d] /\ phase'[d] = phase[d]
    BY <2>1
  <2>3. status[e] = "running" => phase[e] = "eval"
    BY <2>1
  <2> QED
    BY <2>1, <2>2, <2>3
<1>17. ASSUME NEW e \in Launches, CancelStart(e) PROVE DescendsNow
  BY <1>17 DEF CancelStart
<1>18. ASSUME NEW e \in Launches, CancelEnd(e) PROVE DescendsNow
  BY <1>18 DEF CancelEnd, End
<1>19. ASSUME NEW e \in Launches, NEW k \in Calls, Call(e, k) PROVE DescendsNow
  BY <1>19 DEF Call
<1>20. ASSUME NEW e \in Launches, NEW k \in Calls, Spawn(e, k) PROVE DescendsNow
  BY <1>20 DEF Spawn
<1>21. ASSUME NEW e \in Launches, NEW k \in Calls, AgentAnswers(e, k) PROVE DescendsNow
  BY <1>21 DEF AgentAnswers
<1>22. ASSUME NEW e \in Launches, NEW k \in Calls, AgentFails(e, k) PROVE DescendsNow
  BY <1>22 DEF AgentFails
<1>23. CASE UNCHANGED vars
  BY <1>23 DEF vars
<1> HIDE DEF disk, history, process, entry, locks, faults, TypeOK, Statuses, IInv,
   LaunchInv, Writing, RunInv, EndInv, RunCanMove, MovesLeft, DescendsNow
<1> QED
  BY <1>1, <1>2, <1>3, <1>4, <1>5, <1>6, <1>7, <1>8, <1>9, <1>10, <1>11,
     <1>12, <1>13, <1>14, <1>15, <1>16, <1>17, <1>18, <1>19, <1>20, <1>21,
     <1>22, <1>23
     DEF Next

LEMMA EndInvariance == Spec => [](IInv /\ EndInv)
<1>1. Init => EndInv
  BY DEF Init, EndInv, RunCanMove, EndIsTold
<1>2. IInv /\ EndInv /\ [Next]_vars => EndInv'
  BY MoveStep, ToldStep DEF IInv, EndInv
<1> QED
  BY <1>1, <1>2, Invariance, PTL DEF Spec

(* No run gets stuck, for any number of calls, launches and deaths: while it *)
(* runs, its fiber or the deadline of its sandbox has a step to take, or its *)
(* launch has died, and when it has ended, whoever waits has been told.      *)
THEOREM RunsAreNeverStuck == Spec => [](RunCanMove /\ EndIsTold)
BY EndInvariance, PTL DEF EndInv

(* A run has at most six moves ahead of it, whatever its agents do: with    *)
(* fairness of those moves this is RunSettles.                               *)
THEOREM RunsWindDown == Spec => RunsDescend
<1>1. IInv /\ EndInv /\ [Next]_vars =>
        \A e \in Launches : status[e] = "running" /\ status'[e] = "running" =>
          \/ UNCHANGED <<phase[e], guest[e]>>
          \/ MovesLeft(e)' < MovesLeft(e)
  BY DescendStep DEF DescendsNow
<1> QED
  BY <1>1, EndInvariance, PTL DEF Spec, RunsDescend

=============================================================================
