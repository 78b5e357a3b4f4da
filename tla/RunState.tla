------------------------------ MODULE RunState ------------------------------
(***************************************************************************)
(* session/run-state.ts over effect/runner.ts: the map from a (session,    *)
(* agent) key to its Runner, and the status of the session that clients    *)
(* see (session/status.ts).  One session is modelled: keys are its agents, *)
(* and the agent "main" is the one that drives the status.                 *)
(*                                                                         *)
(* The map gives a Runner object to a caller, which uses it later; onIdle  *)
(* removes the KEY from the map, whatever object it maps to by then.       *)
(***************************************************************************)
EXTENDS Runner

CONSTANTS Agents,   \* the agents of the session, the keys of the map
          Main,     \* the agent whose loop drives the session's status
          Editors   \* calls that check assertNotBusy and then edit messages

ASSUME MainAssumption == Main \in Agents /\ NoOne \notin Agents

VARIABLES
  runners,  \* runners[a]: the runner the map holds for agent a
  owner,    \* owner[r]: the agent runner r was made for
  status,   \* the session's status
  epc       \* epc[e]: the progress of editor e

mapVars == <<runners, owner>>
rvars   == <<vars, mapVars, status, epc>>

RTypeOK ==
  /\ TypeOK
  /\ runners \in [Agents -> MaybeRunner]
  /\ owner \in [Runners -> Agents \cup {NoOne}]
  /\ status \in {"idle", "busy"}
  /\ epc \in [Editors -> {"new", "editing", "refused", "finished"}]

RInit ==
  /\ Init
  /\ runners = [a \in Agents |-> NoOne]
  /\ owner = [r \in Runners |-> NoOne]
  /\ status = "idle"
  /\ epc = [e \in Editors |-> "new"]

-----------------------------------------------------------------------------
(* runner(): the mapped runner, or a new one, which is put in the map.       *)
(* Shell commands are always the main agent's.                               *)
Obtain(c, a, r, o) ==
  /\ o = "shell" => a = Main
  /\ \/ /\ runners[a] = r
        /\ UNCHANGED mapVars
     \/ /\ runners[a] = NoOne /\ owner[r] = NoOne
        /\ runners' = [runners EXCEPT ![a] = r]
        /\ owner' = [owner EXCEPT ![r] = a]
  /\ Lookup(c, r, o)
  /\ UNCHANGED <<status, epc>>

(* onBusy, executed by startShell under the lock.                            *)
RBeginShell(c) ==
  /\ BeginShell(c)
  /\ status' = "busy"
  /\ UNCHANGED <<mapVars, epc>>

(* onIdle of runner r, first step: the key of r leaves the map.              *)
Unmap(r) == runners' = [runners EXCEPT ![owner[r]] = NoOne]

(* A mutant of ReportIdle: isMain the wrong way round.                       *)
ReportIdleOfOthers(r) == status' = IF owner[r] = Main THEN status ELSE "idle"

(* onIdle of runner r, second step, for the main agent only: status idle.    *)
ReportIdle(r) == status' = IF owner[r] = Main THEN "idle" ELSE status

RFiberIdleBegin(c) ==
  FiberIdleBegin(c) /\ Unmap(home[c]) /\ UNCHANGED <<owner, status, epc>>

RFiberIdleEnd(c) ==
  FiberIdleEnd(c) /\ ReportIdle(home[c]) /\ UNCHANGED <<mapVars, epc>>

RCancelIdleBegin(k) ==
  CancelIdleBegin(k) /\ Unmap(chome[k]) /\ UNCHANGED <<owner, status, epc>>

RCancelIdleEnd(k) ==
  CancelIdleEnd(k) /\ ReportIdle(chome[k]) /\ UNCHANGED <<mapVars, epc>>

(* The main agent's loop reports busy at the top of each of its iterations.  *)
ReportBusy(c) ==
  /\ fiber[c] = "working" /\ op[c] = "run" /\ owner[home[c]] = Main
  /\ status' = "busy"
  /\ UNCHANGED <<vars, mapVars, epc>>

Busy(a) == runners[a] # NoOne /\ ref[runners[a]].tag # "Idle"

(* cancel (for Main) and cancelActor: only a mapped runner that is busy is   *)
(* cancelled; otherwise the main agent's session is reported idle at once.   *)
SeekBusy(k, a) ==
  /\ Busy(a)
  /\ Seek(k, runners[a])
  /\ UNCHANGED <<mapVars, status, epc>>

SeekIdle(k, a) ==
  /\ ~ Busy(a)
  /\ SeekNothing(k)
  /\ status' = IF a = Main THEN "idle" ELSE status
  /\ UNCHANGED <<mapVars, epc>>

(* assertNotBusy, and the edit that follows it (deleteMessage, revert).      *)
AssertNotBusy(e) ==
  /\ epc[e] = "new"
  /\ epc' = [epc EXCEPT ![e] = IF Busy(Main) THEN "refused" ELSE "editing"]
  /\ UNCHANGED <<vars, mapVars, status>>

EditEnds(e) ==
  /\ epc[e] = "editing"
  /\ epc' = [epc EXCEPT ![e] = "finished"]
  /\ UNCHANGED <<vars, mapVars, status>>

-----------------------------------------------------------------------------
(* The steps of Runner that touch neither the map nor the status.            *)
PlainCallerStep(c) ==
  \/ JoinRun(c) \/ QueueRun(c) \/ StartRun(c) \/ RejectShell(c) \/ StartShell(c)
  \/ CallerReturns(c)

PlainFiberStep(c) == FinishRun(c) \/ FinishShell(c) \/ Settle(c)

PlainCancelStep(k) ==
  \/ Cancel(k) \/ FailPending(k) \/ Interrupt(k) \/ AwaitExit(k) \/ IdleIfCurrent(k)

Plain(A) == A /\ UNCHANGED <<mapVars, status, epc>>

RCallerStep(c) == Plain(PlainCallerStep(c)) \/ RBeginShell(c)

RFiberStep(c) == Plain(PlainFiberStep(c)) \/ RFiberIdleBegin(c) \/ RFiberIdleEnd(c)

RCancelStep(k) == Plain(PlainCancelStep(k)) \/ RCancelIdleBegin(k) \/ RCancelIdleEnd(k)

RWorkEnds(c) == \E e \in Exits : Plain(WorkEnds(c, e))

RQuiescent == Quiescent /\ \A e \in Editors : epc[e] \in {"refused", "finished"}

RRest == RQuiescent /\ UNCHANGED rvars

RNext ==
  \/ \E c \in Callers :
        \/ \E a \in Agents, r \in Runners, o \in Ops : Obtain(c, a, r, o)
        \/ RCallerStep(c)
        \/ Plain(Abandon(c))
        \/ RWorkEnds(c)
        \/ ReportBusy(c)
        \/ RFiberStep(c)
  \/ \E k \in Cancellers :
        \/ \E a \in Agents : SeekBusy(k, a) \/ SeekIdle(k, a)
        \/ RCancelStep(k)
  \/ \E e \in Editors : AssertNotBusy(e) \/ EditEnds(e)
  \/ RRest

RSpec == RInit /\ [][RNext]_rvars

(* Fibers are scheduled and work ends (Runner!LiveSpec).                     *)
RLiveSpec ==
  /\ RSpec
  /\ \A c \in Callers :
        /\ WF_rvars(RCallerStep(c))
        /\ WF_rvars(RFiberStep(c))
        /\ WF_rvars(RWorkEnds(c))
  /\ \A k \in Cancellers : WF_rvars(RCancelStep(k))

(* Prompts only: no shell command, and no caller that gives up.              *)
PromptsNext == RNext /\ \A c \in Callers : op'[c] = "run" /\ result'[c] # "gone"

(* The scheduler's usual order: a fiber that does not have to wait goes from *)
(* the lookup to the call, and from the change of state to the deletion of   *)
(* the key, before another fiber runs.  (RSpec lets the scheduler preempt a  *)
(* fiber between any two effects, as it does when its budget is used up.)    *)
Hasty ==
  {c \in Callers : fiber[c] = "onIdle" \/ (pc[c] = "ready" /\ Free(home[c]))}
    \cup {k \in Cancellers : cpc[k] = "onIdle"}

UnpreemptedNext == PromptsNext /\ (Hasty # {} => Hasty \ Hasty' # {})

UnpreemptedSpec ==
  /\ RInit /\ [][UnpreemptedNext]_rvars
  /\ \A c \in Callers : WF_rvars(RCallerStep(c)) /\ WF_rvars(RFiberStep(c))
  /\ \A k \in Cancellers : WF_rvars(RCancelStep(k))

-----------------------------------------------------------------------------
LoopAtWork(c, a) ==
  fiber[c] = "working" /\ op[c] = "run" /\ owner[home[c]] = a

(* The main agent has work, or a cancel under way, that will report idle.    *)
IdleIsDue ==
  \/ \E c \in Callers :
        /\ home[c] # NoOne /\ owner[home[c]] = Main
        /\ pc[c] = "starting" \/ fiber[c] \notin {"none", "exited"}
  \/ \E k \in Cancellers :
        /\ chome[k] # NoOne /\ owner[chome[k]] = Main
        /\ cpc[k] \notin {"ready", "finished"}

(* A session is shown busy only as long as somebody is still to report it    *)
(* idle (clients wait for that report), whatever order runs, shells and      *)
(* cancels finish in.                                                        *)
BusyIsOwed == status = "busy" => IdleIsDue

(* assertNotBusy overlooks a loop of the main agent only if a cancel is      *)
(* taking that loop down, or its runner is not the one in the map.           *)
OverlooksOnlyDisowned ==
  [][\A e \in Editors :
       epc[e] = "new" /\ epc'[e] = "editing" =>
         \A c \in Callers :
           LoopAtWork(c, Main) => BeingCancelled(c) \/ runners[Main] # home[c]]_rvars

(* When everything has come to rest, whatever the order in which finished,   *)
(* replaced and cancelled runs executed their onIdle, no key is left in the  *)
(* map and the session is not shown busy.                                    *)
RestLeavesNothing ==
  RQuiescent => status = "idle" /\ \A a \in Agents : runners[a] = NoOne

(* A session shown busy is shown idle again once its work has ended.         *)
BusyEnds == (status = "busy") ~> (status = "idle")

(* "assertNotBusy throws BusyError when loop running"                        *)
(* (test/session/prompt-effect.test.ts): a check that passes finds no loop   *)
(* of the main agent at work.                                                *)
NotBusyMeansNoLoop ==
  [][\A e \in Editors :
       epc[e] = "new" /\ epc'[e] = "editing" =>
         \A c \in Callers : ~ LoopAtWork(c, Main)]_rvars

(* "Caller's recovery path: POST /:sessionID/abort to free the runner"       *)
(* (server/routes/instance/session.ts): an abort that finds nothing to       *)
(* cancel leaves no loop of the main agent at work that nobody cancels.      *)
AbortReachesLoop ==
  [][\A k \in Cancellers :
       cpc[k] = "new" /\ cpc'[k] = "finished" =>
         \A c \in Callers : LoopAtWork(c, Main) => BeingCancelled(c)]_rvars
=============================================================================
