--------------------------- MODULE PermissionProofs ---------------------------
(* Proofs about Permission, for any asks, patterns, rulesets and sessions.   *)
EXTENDS Permission, TLAPS

(***************************************************************************)
(* The invariant.  A deferred is complete only of an ask that waits or has *)
(* come back; and an ask that waits, or is granted, has passed the         *)
(* ruleset: replies grant what is in the map, and that waits.              *)
(***************************************************************************)
Asked == \A a \in Asks : result[a] = "new" => verdict[a] = "none"

PassedTheRuleset == \A a \in Asks :
  result[a] = "waiting" \/ Granted(a) => ~ Denied(a, request[a])

IInv == TypeOK /\ PendingIsWaiting /\ Asked /\ PassedTheRuleset

LEMMA InitInv == Init => IInv
BY PermissionAssumption DEF Init, IInv, TypeOK, PendingIsWaiting, Asked,
   PassedTheRuleset,
                            Granted

(* The types are kept by every action.                                       *)
LEMMA TypeStep == TypeOK /\ [Next]_vars => TypeOK'
<1> SUFFICES ASSUME TypeOK, [Next]_vars PROVE TypeOK'
  OBVIOUS
<1> USE PermissionAssumption
<1>1. ASSUME NEW a \in Asks, Ask(a) PROVE TypeOK'
  BY <1>1 DEF Ask, Wait, Settle, Denied, Covered, TypeOK
<1>2. ASSUME NEW a \in Asks, Resume(a) PROVE TypeOK'
  BY <1>2 DEF Resume, TypeOK
<1>3. ASSUME NEW a \in Asks, Cancel(a) PROVE TypeOK'
  BY <1>3 DEF Cancel, Settle, TypeOK
<1>4. ASSUME NEW a \in Asks, ReplyOnce(a) PROVE TypeOK'
  BY <1>4 DEF ReplyOnce, Answered, Settle, TypeOK
<1>5. ASSUME NEW a \in Asks, ReplyAlways(a) PROVE TypeOK'
  BY <1>5 DEF ReplyAlways, Answered, Settle, Matching, Others, TypeOK
<1>6. ASSUME NEW a \in Asks, ReplyReject(a) PROVE TypeOK'
  BY <1>6 DEF ReplyReject, Answered, Settle, Others, TypeOK
<1>7. ASSUME Dispose PROVE TypeOK'
  BY <1>7 DEF Dispose, Settle, TypeOK
<1>8. ASSUME UNCHANGED vars PROVE TypeOK'
  BY <1>8 DEF vars, asked, TypeOK
<1> QED
  BY <1>1, <1>2, <1>3, <1>4, <1>5, <1>6, <1>7, <1>8 DEF Next

(* Entries and callers agree after every action.                             *)
LEMMA PendingStep == IInv /\ [Next]_vars => PendingIsWaiting'
<1> SUFFICES ASSUME IInv, [Next]_vars PROVE PendingIsWaiting'
  OBVIOUS
<1> USE PermissionAssumption
<1>1. ASSUME NEW a \in Asks, Ask(a) PROVE PendingIsWaiting'
  BY <1>1 DEF Ask, Wait, Settle, Denied, Covered, IInv, TypeOK,
     PendingIsWaiting, Asked
<1>2. ASSUME NEW a \in Asks, Resume(a) PROVE PendingIsWaiting'
  BY <1>2 DEF Resume, IInv, TypeOK, PendingIsWaiting, Asked
<1>3. ASSUME NEW a \in Asks, Cancel(a) PROVE PendingIsWaiting'
  BY <1>3 DEF Cancel, Settle, IInv, TypeOK, PendingIsWaiting, Asked
<1>4. ASSUME NEW a \in Asks, ReplyOnce(a) PROVE PendingIsWaiting'
  BY <1>4 DEF ReplyOnce, Answered, Settle, IInv, TypeOK, PendingIsWaiting,
     Asked
<1>5. ASSUME NEW a \in Asks, ReplyAlways(a) PROVE PendingIsWaiting'
  BY <1>5 DEF ReplyAlways, Answered, Settle, Matching, Others, IInv, TypeOK,
     PendingIsWaiting, Asked
<1>6. ASSUME NEW a \in Asks, ReplyReject(a) PROVE PendingIsWaiting'
  BY <1>6 DEF ReplyReject, Answered, Settle, Others, IInv, TypeOK,
     PendingIsWaiting, Asked
<1>7. ASSUME Dispose PROVE PendingIsWaiting'
  BY <1>7 DEF Dispose, Settle, IInv, TypeOK, PendingIsWaiting, Asked
<1>8. ASSUME UNCHANGED vars PROVE PendingIsWaiting'
  BY <1>8 DEF vars, asked, IInv, TypeOK, PendingIsWaiting, Asked
<1> QED
  BY <1>1, <1>2, <1>3, <1>4, <1>5, <1>6, <1>7, <1>8 DEF Next

LEMMA AskedStep == IInv /\ [Next]_vars => Asked'
<1> SUFFICES ASSUME IInv, [Next]_vars PROVE Asked'
  OBVIOUS
<1> USE PermissionAssumption
<1>1. ASSUME NEW a \in Asks, Ask(a) PROVE Asked'
  BY <1>1 DEF Ask, Wait, Settle, Denied, Covered, IInv, TypeOK,
     PendingIsWaiting, Asked
<1>2. ASSUME NEW a \in Asks, Resume(a) PROVE Asked'
  BY <1>2 DEF Resume, IInv, TypeOK, PendingIsWaiting, Asked
<1>3. ASSUME NEW a \in Asks, Cancel(a) PROVE Asked'
  BY <1>3 DEF Cancel, Settle, IInv, TypeOK, PendingIsWaiting, Asked
<1>4. ASSUME NEW a \in Asks, ReplyOnce(a) PROVE Asked'
  BY <1>4 DEF ReplyOnce, Answered, Settle, IInv, TypeOK, PendingIsWaiting,
     Asked
<1>5. ASSUME NEW a \in Asks, ReplyAlways(a) PROVE Asked'
  BY <1>5 DEF ReplyAlways, Answered, Settle, Matching, Others, IInv, TypeOK,
     PendingIsWaiting, Asked
<1>6. ASSUME NEW a \in Asks, ReplyReject(a) PROVE Asked'
  BY <1>6 DEF ReplyReject, Answered, Settle, Others, IInv, TypeOK,
     PendingIsWaiting, Asked
<1>7. ASSUME Dispose PROVE Asked'
  BY <1>7 DEF Dispose, Settle, IInv, TypeOK, PendingIsWaiting, Asked
<1>8. ASSUME UNCHANGED vars PROVE Asked'
  BY <1>8 DEF vars, asked, IInv, TypeOK, PendingIsWaiting, Asked
<1> QED
  BY <1>1, <1>2, <1>3, <1>4, <1>5, <1>6, <1>7, <1>8 DEF Next

(* A grant goes to a request of the map, which has passed the ruleset.       *)
LEMMA RulesetStep == IInv /\ [Next]_vars => PassedTheRuleset'
<1> SUFFICES ASSUME IInv, [Next]_vars PROVE PassedTheRuleset'
  OBVIOUS
<1> USE PermissionAssumption
<1>1. ASSUME NEW a \in Asks, Ask(a) PROVE PassedTheRuleset'
  BY <1>1 DEF Ask, Wait, Settle, Denied, Covered, IInv, TypeOK,
     PendingIsWaiting, Asked, PassedTheRuleset, Granted
<1>2. ASSUME NEW a \in Asks, Resume(a) PROVE PassedTheRuleset'
  BY <1>2 DEF Resume, Denied, IInv, TypeOK, PendingIsWaiting, Asked,
     PassedTheRuleset, Granted
<1>3. ASSUME NEW a \in Asks, Cancel(a) PROVE PassedTheRuleset'
  BY <1>3 DEF Cancel, Settle, Denied, IInv, TypeOK, PendingIsWaiting, Asked,
     PassedTheRuleset, Granted
<1>4. ASSUME NEW a \in Asks, ReplyOnce(a) PROVE PassedTheRuleset'
  BY <1>4 DEF ReplyOnce, Answered, Settle, Denied, IInv, TypeOK,
     PendingIsWaiting, Asked, PassedTheRuleset, Granted
<1>5. ASSUME NEW a \in Asks, ReplyAlways(a) PROVE PassedTheRuleset'
  BY <1>5 DEF ReplyAlways, Answered, Settle, Denied, Matching, Others, IInv,
     TypeOK, PendingIsWaiting, Asked, PassedTheRuleset, Granted
<1>6. ASSUME NEW a \in Asks, ReplyReject(a) PROVE PassedTheRuleset'
  BY <1>6 DEF ReplyReject, Answered, Settle, Denied, Others, IInv, TypeOK,
     PendingIsWaiting, Asked, PassedTheRuleset, Granted
<1>7. ASSUME Dispose PROVE PassedTheRuleset'
  BY <1>7 DEF Dispose, Settle, Denied, IInv, TypeOK, PendingIsWaiting, Asked,
     PassedTheRuleset, Granted
<1>8. ASSUME UNCHANGED vars PROVE PassedTheRuleset'
  BY <1>8 DEF vars, asked, Denied, IInv, TypeOK, PendingIsWaiting, Asked,
     PassedTheRuleset, Granted
<1> QED
  BY <1>1, <1>2, <1>3, <1>4, <1>5, <1>6, <1>7, <1>8 DEF Next

LEMMA Invariance == Spec => []IInv
<1>1. IInv /\ [Next]_vars => IInv'
  BY TypeStep, PendingStep, AskedStep, RulesetStep DEF IInv
<1> QED
  BY <1>1, InitInv, PTL DEF Spec

(* Every variable of Permission keeps to its type.                           *)
THEOREM TypeCorrect == Spec => []TypeOK
BY Invariance, PTL DEF IInv

(* The list of pending requests and the callers that wait always agree, for  *)
(* any number of asks, sessions and disposals of the instance.               *)
THEOREM PendingRequestsWait == Spec => []PendingIsWaiting
BY Invariance, PTL DEF IInv

(* No ask is ever granted that the ruleset of its agent denies.              *)
THEOREM DenyAlwaysWins == Spec => []DenyWins
<1>1. IInv => DenyWins
  BY DEF IInv, PassedTheRuleset, DenyWins
<1> QED
  BY <1>1, Invariance, PTL

(* A reply grants, besides the request it names, only what the rulesets and  *)
(* the approvals cover, and only in the session of that request.             *)
THEOREM GrantsAreCovered == Spec => OneGrantByHand
<1> DEFINE Alone == \A a, b \in Asks :
      NewlyGranted(a) /\ NewlyGranted(b) /\ a # b =>
        /\ SessionOf[a] = SessionOf[b]
        /\ Covered(a, request[a])' \/ Covered(b, request[b])'
<1>A. ASSUME IInv, [Next]_vars PROVE Alone
  <2> USE PermissionAssumption, <1>A
  <2>1. ASSUME NEW a \in Asks, Ask(a) PROVE Alone
    BY <2>1 DEF Ask, Wait, Settle, Denied, IInv, TypeOK, PendingIsWaiting,
       NewlyGranted, Granted, Covered
  <2>2. ASSUME NEW a \in Asks, Resume(a) PROVE Alone
    BY <2>2 DEF Resume, IInv, TypeOK, PendingIsWaiting, NewlyGranted,
       Granted, Covered
  <2>3. ASSUME NEW a \in Asks, Cancel(a) PROVE Alone
    BY <2>3 DEF Cancel, Settle, IInv, TypeOK, PendingIsWaiting, NewlyGranted,
       Granted, Covered
  <2>4. ASSUME NEW a \in Asks, ReplyOnce(a) PROVE Alone
    BY <2>4 DEF ReplyOnce, Answered, Settle, IInv, TypeOK, PendingIsWaiting,
       NewlyGranted, Granted, Covered
  <2>5. ASSUME NEW a \in Asks, ReplyAlways(a) PROVE Alone
    BY <2>5 DEF ReplyAlways, Answered, Settle, Matching, Others, IInv, TypeOK,
       PendingIsWaiting, NewlyGranted, Granted, Covered
  <2>6. ASSUME NEW a \in Asks, ReplyReject(a) PROVE Alone
    BY <2>6 DEF ReplyReject, Answered, Settle, Others, IInv, TypeOK,
       PendingIsWaiting, NewlyGranted, Granted, Covered
  <2>7. ASSUME Dispose PROVE Alone
    BY <2>7 DEF Dispose, Settle, IInv, TypeOK, PendingIsWaiting, NewlyGranted,
       Granted, Covered
  <2>8. ASSUME UNCHANGED vars PROVE Alone
    BY <2>8 DEF vars, asked, IInv, TypeOK, PendingIsWaiting, NewlyGranted,
       Granted, Covered
  <2> QED
    BY <2>1, <2>2, <2>3, <2>4, <2>5, <2>6, <2>7, <2>8 DEF Next
<1> QED
  BY <1>A, Invariance, PTL DEF Spec, OneGrantByHand

(* A rejection stays within the session of the request it answers.           *)
THEOREM RejectionsStayInSession == Spec => RejectStaysInSession
<1> DEFINE Together == \A a, b \in Asks :
      NewlyRejected(a) /\ NewlyRejected(b) /\ a # b /\ disposals' = disposals
        => SessionOf[a] = SessionOf[b]
<1>A. ASSUME IInv, [Next]_vars PROVE Together
  <2> USE PermissionAssumption, <1>A
  <2>1. ASSUME NEW a \in Asks, Ask(a) PROVE Together
    BY <2>1 DEF Ask, Wait, Settle, Denied, Covered, IInv, TypeOK, NewlyRejected
  <2>2. ASSUME NEW a \in Asks, Resume(a) PROVE Together
    BY <2>2 DEF Resume, IInv, TypeOK, NewlyRejected
  <2>3. ASSUME NEW a \in Asks, Cancel(a) PROVE Together
    BY <2>3 DEF Cancel, Settle, IInv, TypeOK, NewlyRejected
  <2>4. ASSUME NEW a \in Asks, ReplyOnce(a) PROVE Together
    BY <2>4 DEF ReplyOnce, Answered, Settle, IInv, TypeOK, NewlyRejected
  <2>5. ASSUME NEW a \in Asks, ReplyAlways(a) PROVE Together
    BY <2>5 DEF ReplyAlways, Answered, Settle, Matching, Others, IInv, TypeOK,
       NewlyRejected
  <2>6. ASSUME NEW a \in Asks, ReplyReject(a) PROVE Together
    BY <2>6 DEF ReplyReject, Answered, Settle, Others, IInv, TypeOK,
       NewlyRejected
  <2>7. ASSUME Dispose PROVE Together
    BY <2>7 DEF Dispose, Settle, IInv, TypeOK, NewlyRejected
  <2>8. ASSUME UNCHANGED vars PROVE Together
    BY <2>8 DEF vars, asked, IInv, TypeOK, NewlyRejected
  <2> QED
    BY <2>1, <2>2, <2>3, <2>4, <2>5, <2>6, <2>7, <2>8 DEF Next
<1> QED
  BY <1>A, Invariance, PTL DEF Spec, RejectStaysInSession

-----------------------------------------------------------------------------
(* What CancelledAskReturns needs besides fairness: the cancel of a tool's   *)
(* run has settled its ask, whichever came first, and the ask of the loop    *)
(* does not survive the cancel of its fiber.  The ask of the bridge is not   *)
(* mentioned, because nothing settles it.                                    *)
CancelledIsSettled == \A a \in Asks : a \in cancelled =>
  /\ KindOf[a] = "tool" => result[a] # "waiting" \/ verdict[a] # "none"
  /\ KindOf[a] = "loop" => result[a] # "waiting"

LEMMA CancelledStep ==
  IInv /\ CancelledIsSettled /\ [Next]_vars => CancelledIsSettled'
<1> SUFFICES ASSUME IInv, CancelledIsSettled, [Next]_vars
             PROVE  CancelledIsSettled'
  OBVIOUS
<1> USE PermissionAssumption
<1>1. ASSUME NEW a \in Asks, Ask(a) PROVE CancelledIsSettled'
  BY <1>1 DEF Ask, Wait, Settle, Denied, Covered, IInv, TypeOK,
     CancelledIsSettled
<1>2. ASSUME NEW a \in Asks, Resume(a) PROVE CancelledIsSettled'
  BY <1>2 DEF Resume, IInv, TypeOK, CancelledIsSettled
<1>3. ASSUME NEW a \in Asks, Cancel(a) PROVE CancelledIsSettled'
  BY <1>3 DEF Cancel, Settle, IInv, TypeOK, CancelledIsSettled
<1>4. ASSUME NEW a \in Asks, ReplyOnce(a) PROVE CancelledIsSettled'
  BY <1>4 DEF ReplyOnce, Answered, Settle, IInv, TypeOK, CancelledIsSettled
<1>5. ASSUME NEW a \in Asks, ReplyAlways(a) PROVE CancelledIsSettled'
  BY <1>5 DEF ReplyAlways, Answered, Settle, Matching, Others, IInv, TypeOK,
     CancelledIsSettled
<1>6. ASSUME NEW a \in Asks, ReplyReject(a) PROVE CancelledIsSettled'
  BY <1>6 DEF ReplyReject, Answered, Settle, Others, IInv, TypeOK,
     CancelledIsSettled
<1>7. ASSUME Dispose PROVE CancelledIsSettled'
  BY <1>7 DEF Dispose, Settle, IInv, TypeOK, CancelledIsSettled
<1>8. ASSUME UNCHANGED vars PROVE CancelledIsSettled'
  BY <1>8 DEF vars, asked, CancelledIsSettled
<1> QED
  BY <1>1, <1>2, <1>3, <1>4, <1>5, <1>6, <1>7, <1>8 DEF Next

(* No cancelled tool and no cancelled loop waits for a person: what is left  *)
(* of the wait is the resumption of the caller.                              *)
THEOREM CancelledAsksAreSettled == Spec => []CancelledIsSettled
<1>1. Init => CancelledIsSettled
  BY DEF Init, CancelledIsSettled
<1> QED
  BY <1>1, Invariance, CancelledStep, PTL DEF Spec
===============================================================================
