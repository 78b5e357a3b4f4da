------------------------------ MODULE Permission ------------------------------
(***************************************************************************)
(* permission/index.ts: what a tool or the loop asks of the person at the  *)
(* keyboard, and how the call comes back.                                  *)
(*                                                                         *)
(* Every ask is decided by the agent's ruleset, by the approvals given     *)
(* with "always", or by a reply.  A reply may settle other asks of the     *)
(* same session with it.  Between the settling of an ask's deferred and    *)
(* the step in which the caller resumes and takes its entry from the map,  *)
(* cancels, further replies and the disposal of the instance may happen.   *)
(***************************************************************************)
EXTENDS Naturals

CONSTANTS
  Asks,         \* calls of ask
  Patterns,     \* what is asked for: commands, paths
  RulesetOf,    \* RulesetOf[a]: what the agent that asks may do
  SessionOf,    \* SessionOf[a]: the session of the call
  KindOf,       \* KindOf[a]: who makes the call
  MaxDisposals  \* bound on reloads of the instance

Actions == {"allow", "ask", "deny"}

(* A tool's ask runs in a promise of its own and passes the abort signal of  *)
(* the run.  An ask of the loop (the doom loop, a subtask) passes none, but  *)
(* runs in the fiber of the run.  The approval of a workflow's tools, which  *)
(* llm.ts asks for over a bridge, has neither.                               *)
Kinds == {"tool", "loop", "bridge"}

ASSUME PermissionAssumption ==
  /\ RulesetOf \in [Asks -> [Patterns -> Actions]]
  /\ KindOf \in [Asks -> Kinds] /\ DOMAIN SessionOf = Asks
  /\ MaxDisposals \in Nat

VARIABLES
  result,     \* result[a]: what ask came back with
  request,    \* request[a]: the patterns of the ask
  verdict,    \* verdict[a]: what its deferred was completed with
  pending,    \* the asks in the map of pending requests
  shown,      \* the requests a client shows, from the events it has seen
  approved,   \* the patterns approved with "always"
  cancelled,  \* the asks whose run was cancelled
  disposals

asked == <<result, request, verdict>>
vars == <<asked, pending, shown, approved, cancelled, disposals>>

TypeOK ==
  /\ result \in
       [Asks -> {"new", "waiting", "allowed", "denied", "rejected"}]
  /\ request \in [Asks -> SUBSET Patterns]
  /\ verdict \in [Asks -> {"none", "allowed", "rejected"}]
  /\ pending \subseteq Asks /\ shown \subseteq Asks
  /\ approved \subseteq Patterns /\ cancelled \subseteq Asks
  /\ disposals \in 0..MaxDisposals

Init ==
  /\ result = [a \in Asks |-> "new"]
  /\ request = [a \in Asks |-> {}]
  /\ verdict = [a \in Asks |-> "none"]
  /\ pending = {} /\ shown = {} /\ approved = {} /\ cancelled = {}
  /\ disposals = 0

(* The deferreds of the asks in D are completed with v; one that is complete *)
(* keeps its value.                                                          *)
Settle(D, v) ==
  verdict' = [a \in Asks |-> IF a \in D /\ verdict[a] = "none"
                               THEN v ELSE verdict[a]]

-----------------------------------------------------------------------------
(* ask.                                                                      *)

(* A mutant of Denied: an approval outranks a deny.                          *)
DeniedUnlessApproved(a, ps) ==
  \E p \in ps : RulesetOf[a][p] = "deny" /\ p \notin approved

(* The ruleset alone is looked at first: no approval outranks its deny.      *)
Denied(a, ps) == \E p \in ps : RulesetOf[a][p] = "deny"
Covered(a, ps) ==
  \A p \in ps : RulesetOf[a][p] = "allow" \/ p \in approved

(* A mutant of Wait: a signal that is already aborted is not noticed.        *)
WaitDeaf(a) ==
  /\ result' = [result EXCEPT ![a] = "waiting"]
  /\ pending' = pending \cup {a} /\ shown' = shown \cup {a}
  /\ UNCHANGED verdict

(* The entry, the event and the wait; a signal that is already aborted       *)
(* rejects at once.                                                          *)
Wait(a) ==
  /\ result' = [result EXCEPT ![a] = "waiting"]
  /\ pending' = pending \cup {a} /\ shown' = shown \cup {a}
  /\ IF KindOf[a] = "tool" /\ a \in cancelled
       THEN Settle({a}, "rejected")
       ELSE UNCHANGED verdict

(* ask of a permission; interactive is false for the background agents.      *)
Ask(a) ==
  /\ result[a] = "new"
  /\ KindOf[a] = "loop" => a \notin cancelled
  /\ \E ps \in SUBSET Patterns \ {{}}, interactive \in BOOLEAN :
       /\ request' = [request EXCEPT ![a] = ps]
       /\ \/ /\ ~ Denied(a, ps) /\ ~ Covered(a, ps) /\ interactive
             /\ Wait(a)
          \/ /\ ~ Denied(a, ps) /\ Covered(a, ps)
             /\ result' = [result EXCEPT ![a] = "allowed"]
             /\ UNCHANGED <<verdict, pending, shown>>
          \/ /\ Denied(a, ps) \/ (~ Covered(a, ps) /\ ~ interactive)
             /\ result' = [result EXCEPT ![a] = "denied"]
             /\ UNCHANGED <<verdict, pending, shown>>
  /\ UNCHANGED <<approved, cancelled, disposals>>

(* A tool's wait is a race of its deferred with its signal, and a race ends  *)
(* with the first success: a rejection by a reply or by the disposal is a    *)
(* failure, so the race goes on until the signal fails as well.              *)
RaceIsOver(a) ==
  verdict[a] = "allowed" \/ KindOf[a] # "tool" \/ a \in cancelled

(* A mutant of Resume: the entry stays in the map.                           *)
ResumeKeeps(a) ==
  /\ result[a] = "waiting" /\ verdict[a] # "none" /\ RaceIsOver(a)
  /\ result' = [result EXCEPT ![a] = verdict[a]]
  /\ UNCHANGED <<request, verdict, pending, shown, approved, cancelled,
                 disposals>>

(* The caller goes on; ensuring takes the entry from the map.                *)
Resume(a) ==
  /\ result[a] = "waiting" /\ verdict[a] # "none" /\ RaceIsOver(a)
  /\ result' = [result EXCEPT ![a] = verdict[a]]
  /\ pending' = pending \ {a}
  /\ UNCHANGED <<request, verdict, shown, approved, cancelled, disposals>>

-----------------------------------------------------------------------------
(* What ends a wait from outside.                                            *)

(* The run is cancelled: its signal aborts and its fiber is interrupted.     *)
Cancel(a) ==
  /\ result[a] \in {"new", "waiting"}
  /\ a \notin cancelled /\ cancelled' = cancelled \cup {a}
  /\ IF result[a] = "waiting" /\ KindOf[a] = "loop"
       THEN /\ result' = [result EXCEPT ![a] = "rejected"]
            /\ pending' = pending \ {a} /\ UNCHANGED verdict
       ELSE /\ IF result[a] = "waiting" /\ KindOf[a] = "tool"
                 THEN Settle({a}, "rejected") ELSE UNCHANGED verdict
            /\ UNCHANGED <<result, pending>>
  /\ UNCHANGED <<request, shown, approved, disposals>>

(* The other requests in the map that a reply to a looks at.                 *)
Others(a) ==
  {b \in pending \ {a} : SessionOf[b] = SessionOf[a]}

(* A mutant of Matching: one approved pattern is enough.                     *)
MatchingSome(a, ok) == {b \in Others(a) : request[b] \cap ok # {}}

(* A request is answered by the approvals when they cover all its patterns.  *)
Matching(a, ok) == {b \in Others(a) : request[b] \subseteq ok}

(* The requests in D leave the map, with an event for each of them.          *)
Answered(D) == pending' = pending \ D /\ shown' = shown \ D

(* reply: to a request that is no longer in the map it does nothing.         *)
ReplyOnce(a) ==
  /\ a \in pending
  /\ Answered({a}) /\ Settle({a}, "allowed")
  /\ UNCHANGED <<result, request, approved, cancelled, disposals>>

(* What an "always" approves is named by the tool that asked, and may be     *)
(* wider or narrower than what it asked for.                                 *)
ReplyAlways(a) ==
  /\ a \in pending
  /\ \E always \in SUBSET Patterns : approved' = approved \cup always
  /\ LET D == {a} \cup Matching(a, approved')
     IN  Answered(D) /\ Settle(D, "allowed")
  /\ UNCHANGED <<result, request, cancelled, disposals>>

ReplyReject(a) ==
  /\ a \in pending
  /\ LET D == {a} \cup Others(a) IN Answered(D) /\ Settle(D, "rejected")
  /\ UNCHANGED <<result, request, approved, cancelled, disposals>>

(* The instance is disposed and made anew: the finalizers reject what is     *)
(* pending, and the approvals are read from a table nothing writes.          *)
Dispose ==
  /\ disposals < MaxDisposals /\ disposals' = disposals + 1
  /\ Settle(pending, "rejected") /\ pending' = {}
  /\ approved' = {}
  /\ UNCHANGED <<result, request, shown, cancelled>>

Next ==
  \/ \E a \in Asks :
       \/ Ask(a) \/ Resume(a) \/ Cancel(a)
       \/ ReplyOnce(a) \/ ReplyAlways(a) \/ ReplyReject(a)
  \/ Dispose

Spec == Init /\ [][Next]_vars

(* A fiber whose deferred is complete resumes.  Nobody has to answer.        *)
LiveSpec == Spec /\ \A a \in Asks : WF_vars(Resume(a))

-----------------------------------------------------------------------------
(* Properties.                                                               *)

(* The list of pending requests and the callers agree: an entry has a caller *)
(* that waits for it, and a caller nobody has answered has an entry, without *)
(* which nobody could answer it.                                             *)
PendingIsWaiting == \A a \in Asks :
  /\ a \in pending => result[a] = "waiting"
  /\ result[a] = "waiting" /\ verdict[a] = "none" => a \in pending

Granted(a) == result[a] = "allowed" \/ verdict[a] = "allowed"

(* However it came about, no ask is granted that the agent's ruleset denies  *)
(* in one of its patterns: not by a later approval, not by a reply to        *)
(* another request.                                                          *)
DenyWins == \A a \in Asks :
  Granted(a) => ~ Denied(a, request[a])

NewlyGranted(a) == ~ Granted(a) /\ Granted(a)'

(* What is granted in one step is of one session, and all of it but the one  *)
(* request the reply names is covered by the rulesets and the approvals, in  *)
(* all its patterns.                                                         *)
OneGrantByHand ==
  [][\A a, b \in Asks : NewlyGranted(a) /\ NewlyGranted(b) /\ a # b =>
       /\ SessionOf[a] = SessionOf[b]
       /\ Covered(a, request[a])' \/ Covered(b, request[b])']_vars

NewlyRejected(a) == verdict[a] = "none" /\ verdict'[a] = "rejected"

(* A rejection reaches the requests of one session, unless the instance is   *)
(* disposed.                                                                 *)
RejectStaysInSession ==
  [][\A a, b \in Asks :
       NewlyRejected(a) /\ NewlyRejected(b) /\ a # b /\ disposals' = disposals
         => SessionOf[a] = SessionOf[b]]_vars

(* A tool whose run is cancelled gets its ask back, whether the cancel comes *)
(* before the ask, during the wait or together with a reply.                 *)
CancelledAskReturns == \A a \in Asks :
  KindOf[a] = "tool" /\ a \in cancelled /\ result[a] = "waiting"
    ~> result[a] # "waiting"

(* A rejected ask comes back (the code does not keep it: the race of a tool  *)
(* waits for its signal as well).                                            *)
RejectedAskReturns == \A a \in Asks :
  result[a] = "waiting" /\ verdict[a] = "rejected" ~> result[a] # "waiting"

(* A cancelled ask of any kind comes back (the code does not keep it: the    *)
(* ask of the bridge hears no signal, and its fiber is not interrupted).     *)
EveryCancelledAskReturns == \A a \in Asks :
  a \in cancelled /\ result[a] = "waiting" ~> result[a] # "waiting"

(* An "always" answers the other requests of the session that it leaves      *)
(* without an open pattern (the code asks that the approvals alone cover     *)
(* them, while ask counts what the ruleset allows as well).                  *)
AlwaysAnswersCovered ==
  [][\A a, b \in Asks :
       approved' # approved /\ disposals' = disposals
       /\ verdict[a] = "none" /\ verdict'[a] = "allowed" /\ b \in pending'
       /\ SessionOf[a] = SessionOf[b]
         => ~ Covered(b, request[b])']_vars

(* What was approved with "always" stays approved while the process lives    *)
(* (the code does not keep it: a disposal forgets it).                       *)
ApprovalsLast == [][approved \subseteq approved']_vars

(* A client stops showing a request that is over (the code does not keep it: *)
(* there is no event for a request that ended with a cancel).                *)
OverIsNotShown == \A a \in Asks :
  a \in shown /\ result[a] \notin {"new", "waiting"} ~> a \notin shown

=============================================================================
