-------------------------- MODULE CheckpointProofs --------------------------
(* Proofs about Checkpoint, for any batches, thresholds and bounds.          *)
EXTENDS Checkpoint, TLAPS

(***************************************************************************)
(* What holds however calls overlap: the types, part by part, and what     *)
(* keeps them.  A queued request has a watcher and a call left to serve    *)
(* it, and the loop starts a rebuild only within the bound.                *)
(***************************************************************************)
CallTypes ==
  /\ pc \in [Calls -> Phases]
  /\ keys \in [Calls -> SUBSET (1..Top)]
  /\ writer \in [Calls -> {"none", "running", "success", "failure"}]
  /\ retry \in [Calls -> Calls \cup {None, "off", "forked"}]

FlagTypes ==
  /\ linked \in [Calls -> BOOLEAN] /\ touched \in [Calls -> BOOLEAN]
  /\ pending \in BOOLEAN /\ raced \in BOOLEAN
  /\ maxCrossed \in BOOLEAN
  /\ skip \in BOOLEAN /\ present \in BOOLEAN

RangeTypes ==
  /\ view \in [Calls -> [base : 0..MaxMessages, mark : 0..MaxRebuilds, end : Ids]]
  /\ lo \in [Calls -> 0..MaxMessages + 1]
  /\ watermark \in Ids

SlotTypes ==
  /\ slot \in Calls \cup {None} /\ crossed \in SUBSET (1..Top)
  /\ failures \in Nat /\ crashes \in 0..MaxCrashes

LoopTypes ==
  /\ loop \in {"idle", "top", "looked", "check", "stepping", "waiting", "rebuilding"}
  /\ awaited \in Calls \cup {None}
  /\ level \in 0..Top

HistoryTypes ==
  /\ len \in 0..MaxMessages
  /\ base \in 0..MaxMessages /\ marks \in 0..MaxRebuilds
  /\ recorded \in SUBSET (1..MaxMessages) /\ hidden \in SUBSET (1..MaxMessages)

Bounds ==
  /\ pending => slot # None /\ Unused(Redrives) # {}
  /\ loop \in {"waiting", "rebuilding"} => marks < MaxRebuilds
  /\ slot # None => pc[slot] \in {"statting", "watching"}
  /\ \A s \in Calls :
       /\ pc[s] = "waiting" => s \in Batches
       /\ writer[s] = "running" => pc[s] \in {"spawned", "statting", "watching"}
       /\ pc[s] \in {"spawning", "spawned", "statting", "watching"} => lo[s] > 0

TypeInv ==
  FlagTypes /\ CallTypes /\ RangeTypes /\ SlotTypes /\ LoopTypes /\ HistoryTypes /\ Bounds

LEMMA TypeStep == TypeInv /\ [Next]_vars => TypeInv'
<1> SUFFICES ASSUME TypeInv, [Next]_vars PROVE TypeInv'
  OBVIOUS
<1> USE CheckpointAssumption DEF TypeInv, Calls, Phases, Starting, Ids, Id, NoView,
        Unused, starts, entry, claims, turn, history, file
<1>1. ASSUME FireClaims PROVE TypeInv'
  <2>1. FlagTypes'
    BY <1>1 DEF FireClaims, NewlyCrossed, FlagTypes
  <2>2. CallTypes' /\ RangeTypes' /\ SlotTypes' /\ LoopTypes' /\ HistoryTypes' /\ Bounds'
    BY <1>1 DEF FireClaims, NewlyCrossed, CallTypes, RangeTypes, SlotTypes, LoopTypes,
       HistoryTypes, Bounds
  <2>. QED BY <2>1, <2>2
<1>2. ASSUME FirePasses PROVE TypeInv'
  <2>1. FlagTypes'
    BY <1>2 DEF FirePasses, FlagTypes
  <2>2. CallTypes' /\ RangeTypes' /\ SlotTypes' /\ LoopTypes' /\ HistoryTypes' /\ Bounds'
    BY <1>2 DEF FirePasses, CallTypes, RangeTypes, SlotTypes, LoopTypes, HistoryTypes,
       Bounds
  <2>. QED BY <2>1, <2>2
<1>3. ASSUME CheckPasses PROVE TypeInv'
  <2>1. FlagTypes'
    BY <1>3 DEF CheckPasses, LoopStep, FlagTypes
  <2>2. CallTypes' /\ RangeTypes' /\ SlotTypes' /\ LoopTypes' /\ HistoryTypes' /\ Bounds'
    BY <1>3 DEF CheckPasses, LoopStep, CallTypes, RangeTypes, SlotTypes, LoopTypes,
       HistoryTypes, Bounds
  <2>. QED BY <2>1, <2>2
<1>4. ASSUME StepEnds PROVE TypeInv'
  <2>1. FlagTypes'
    BY <1>4 DEF StepEnds, FlagTypes
  <2>2. CallTypes' /\ RangeTypes' /\ SlotTypes' /\ LoopTypes' /\ HistoryTypes' /\ Bounds'
    BY <1>4 DEF StepEnds, CallTypes, RangeTypes, SlotTypes, LoopTypes, HistoryTypes, Bounds
  <2>. QED BY <2>1, <2>2
<1>5. ASSUME AwaitWriter PROVE TypeInv'
  <2>1. FlagTypes'
    BY <1>5 DEF AwaitWriter, Overflows, FlagTypes
  <2>2. CallTypes' /\ RangeTypes' /\ SlotTypes' /\ LoopTypes' /\ HistoryTypes' /\ Bounds'
    BY <1>5 DEF AwaitWriter, Overflows, CallTypes, RangeTypes, SlotTypes, LoopTypes,
       HistoryTypes, Bounds
  <2>. QED BY <2>1, <2>2
<1>6. ASSUME HideAll PROVE TypeInv'
  <2>1. CallTypes'
    BY <1>6 DEF HideAll, Overflows, Insert, ForgetClaims, CallTypes, RangeTypes, SlotTypes,
       LoopTypes, HistoryTypes, Bounds
  <2>2. FlagTypes'
    BY <1>6 DEF HideAll, Overflows, Insert, ForgetClaims, FlagTypes
  <2>3. RangeTypes'
    BY <1>6 DEF HideAll, Overflows, Insert, ForgetClaims, CallTypes, RangeTypes, SlotTypes,
       LoopTypes, HistoryTypes, Bounds
  <2>4. SlotTypes'
    BY <1>6 DEF HideAll, Overflows, Insert, ForgetClaims, CallTypes, RangeTypes, SlotTypes,
       LoopTypes, HistoryTypes, Bounds
  <2>5. LoopTypes'
    BY <1>6 DEF HideAll, Overflows, Insert, ForgetClaims, CallTypes, RangeTypes, SlotTypes,
       LoopTypes, HistoryTypes, Bounds
  <2>6. HistoryTypes'
    <3>1. /\ base' \in 0..MaxMessages
          /\ marks' = marks + 1 /\ marks' \in 0..MaxRebuilds
      BY <1>6 DEF HideAll, Insert, HistoryTypes, RangeTypes, Bounds
    <3>2. hidden' = hidden \cup {m \in base + 1 .. base' : m > watermark.at}
      BY <1>6 DEF HideAll, Insert
    <3>a. \A m \in base + 1 .. base' : m \in 1..MaxMessages
      BY <3>1 DEF HistoryTypes
    <3>3. hidden' \subseteq 1..MaxMessages
      BY <3>2, <3>a, Zenon DEF HistoryTypes
    <3>4. UNCHANGED <<len, recorded>>
      BY <1>6 DEF HideAll, Insert
    <3>. QED BY <3>1, <3>3, <3>4 DEF HistoryTypes
  <2>7. Bounds'
    BY <1>6 DEF HideAll, Overflows, Insert, ForgetClaims, CallTypes, RangeTypes, SlotTypes,
       LoopTypes, HistoryTypes, Bounds
  <2>. QED BY <2>1, <2>2, <2>3, <2>4, <2>5, <2>6, <2>7
<1>7. ASSUME WaitIsOver PROVE TypeInv'
  <2>1. FlagTypes'
    BY <1>7 DEF WaitIsOver, LoopStep, FlagTypes
  <2>2. CallTypes' /\ RangeTypes' /\ SlotTypes' /\ LoopTypes' /\ HistoryTypes' /\ Bounds'
    BY <1>7 DEF WaitIsOver, LoopStep, CallTypes, RangeTypes, SlotTypes, LoopTypes,
       HistoryTypes, Bounds
  <2>. QED BY <2>1, <2>2
<1>8. ASSUME Rebuild PROVE TypeInv'
  <2>1. CallTypes'
    BY <1>8 DEF Rebuild, Insert, ForgetClaims, MarkerPlace, Shows, CallTypes, RangeTypes,
       SlotTypes, LoopTypes, HistoryTypes, Bounds
  <2>2. FlagTypes'
    BY <1>8 DEF Rebuild, Insert, ForgetClaims, MarkerPlace, Shows, FlagTypes
  <2>3. RangeTypes'
    BY <1>8 DEF Rebuild, Insert, ForgetClaims, MarkerPlace, Shows, CallTypes, RangeTypes,
       SlotTypes, LoopTypes, HistoryTypes, Bounds
  <2>4. SlotTypes'
    BY <1>8 DEF Rebuild, Insert, ForgetClaims, MarkerPlace, Shows, CallTypes, RangeTypes,
       SlotTypes, LoopTypes, HistoryTypes, Bounds
  <2>5. LoopTypes'
    BY <1>8 DEF Rebuild, Insert, ForgetClaims, MarkerPlace, Shows, CallTypes, RangeTypes,
       SlotTypes, LoopTypes, HistoryTypes, Bounds
  <2>6. HistoryTypes'
    <3>1. /\ base' \in 0..MaxMessages
          /\ marks' = marks + 1 /\ marks' \in 0..MaxRebuilds
      BY <1>8 DEF Rebuild, Insert, MarkerPlace, HistoryTypes, RangeTypes, Bounds
    <3>2. hidden' = hidden \cup {m \in base + 1 .. base' : m > watermark.at}
      BY <1>8 DEF Rebuild, Insert, MarkerPlace
    <3>a. \A m \in base + 1 .. base' : m \in 1..MaxMessages
      BY <3>1 DEF HistoryTypes
    <3>3. hidden' \subseteq 1..MaxMessages
      BY <3>2, <3>a, Zenon DEF HistoryTypes
    <3>4. UNCHANGED <<len, recorded>>
      BY <1>8 DEF Rebuild, Insert, MarkerPlace
    <3>. QED BY <3>1, <3>3, <3>4 DEF HistoryTypes
  <2>7. Bounds'
    BY <1>8 DEF Rebuild, Insert, ForgetClaims, MarkerPlace, Shows, CallTypes, RangeTypes,
       SlotTypes, LoopTypes, HistoryTypes, Bounds
  <2>. QED BY <2>1, <2>2, <2>3, <2>4, <2>5, <2>6, <2>7
<1>9. ASSUME Prompt PROVE TypeInv'
  <2>1. FlagTypes'
    BY <1>9 DEF Prompt, LoopStep, FlagTypes
  <2>2. CallTypes' /\ RangeTypes' /\ SlotTypes' /\ LoopTypes' /\ HistoryTypes' /\ Bounds'
    BY <1>9 DEF Prompt, LoopStep, CallTypes, RangeTypes, SlotTypes, LoopTypes,
       HistoryTypes, Bounds
  <2>. QED BY <2>1, <2>2
<1>10. ASSUME Crash PROVE TypeInv'
  <2>1. FlagTypes'
    BY <1>10 DEF Crash, FlagTypes
  <2>2. CallTypes' /\ RangeTypes' /\ SlotTypes' /\ LoopTypes' /\ HistoryTypes' /\ Bounds'
    BY <1>10 DEF Crash, CallTypes, RangeTypes, SlotTypes, LoopTypes, HistoryTypes, Bounds
  <2>. QED BY <2>1, <2>2
<1>11. ASSUME NEW s \in Calls, QueueUp(s) PROVE TypeInv'
  <2>1. FlagTypes'
    BY <1>11 DEF QueueUp, Due, Finished, BatchReturns, FlagTypes
  <2>2. CallTypes' /\ RangeTypes' /\ SlotTypes' /\ LoopTypes' /\ HistoryTypes' /\ Bounds'
    BY <1>11 DEF QueueUp, Due, Finished, BatchReturns, CallTypes, RangeTypes, SlotTypes,
       LoopTypes, HistoryTypes, Bounds
  <2>. QED BY <2>1, <2>2
<1>12. ASSUME NEW s \in Calls, Enter(s) PROVE TypeInv'
  <2>1. FlagTypes'
    BY <1>12 DEF Enter, Due, Races, FlagTypes
  <2>2. CallTypes' /\ RangeTypes' /\ SlotTypes' /\ LoopTypes' /\ HistoryTypes' /\ Bounds'
    BY <1>12 DEF Enter, Due, Races, CallTypes, RangeTypes, SlotTypes, LoopTypes, HistoryTypes,
       Bounds
  <2>. QED BY <2>1, <2>2
<1>13. ASSUME NEW s \in Calls, SkipCall(s) PROVE TypeInv'
  <2>1. FlagTypes'
    BY <1>13 DEF SkipCall, Finished, BatchReturns, FlagTypes
  <2>2. CallTypes' /\ RangeTypes' /\ SlotTypes' /\ LoopTypes' /\ HistoryTypes' /\ Bounds'
    BY <1>13 DEF SkipCall, Finished, BatchReturns, CallTypes, RangeTypes, SlotTypes,
       LoopTypes, HistoryTypes, Bounds
  <2>. QED BY <2>1, <2>2
<1>14. ASSUME NEW s \in Calls, ReadMessages(s) PROVE TypeInv'
  <2>1. FlagTypes'
    BY <1>14 DEF ReadMessages, Boundaries, First, FlagTypes
  <2>2. CallTypes' /\ RangeTypes' /\ SlotTypes' /\ LoopTypes' /\ HistoryTypes' /\ Bounds'
    BY <1>14 DEF ReadMessages, Boundaries, First, CallTypes, RangeTypes, SlotTypes,
       LoopTypes, HistoryTypes, Bounds
  <2>. QED BY <2>1, <2>2
<1>15. ASSUME NEW s \in Calls, ReadWatermark(s) PROVE TypeInv'
  <2>1. CallTypes'
    BY <1>15 DEF ReadWatermark, Shows, Touch, CallTypes, RangeTypes, SlotTypes, LoopTypes,
       HistoryTypes, Bounds
  <2>2. FlagTypes'
    <3>1. UNCHANGED <<linked, entry, maxCrossed, skip>> /\ present' = TRUE
      BY <1>15 DEF ReadWatermark
    <3>2. touched' = touched \/ Touch
      BY <1>15 DEF ReadWatermark
    <3>3. touched' \in [Calls -> BOOLEAN]
      BY <3>2 DEF Touch, FlagTypes
    <3>. QED BY <3>1, <3>3 DEF FlagTypes
  <2>3. RangeTypes'
    BY <1>15 DEF ReadWatermark, Shows, Touch, CallTypes, RangeTypes, SlotTypes, LoopTypes,
       HistoryTypes, Bounds
  <2>4. SlotTypes'
    BY <1>15 DEF ReadWatermark, Shows, Touch, CallTypes, RangeTypes, SlotTypes, LoopTypes,
       HistoryTypes, Bounds
  <2>5. LoopTypes'
    BY <1>15 DEF ReadWatermark, Shows, Touch, CallTypes, RangeTypes, SlotTypes, LoopTypes,
       HistoryTypes, Bounds
  <2>6. HistoryTypes'
    BY <1>15 DEF ReadWatermark, Shows, Touch, CallTypes, RangeTypes, SlotTypes, LoopTypes,
       HistoryTypes, Bounds
  <2>7. Bounds'
    BY <1>15 DEF ReadWatermark, Shows, Touch, CallTypes, RangeTypes, SlotTypes, LoopTypes,
       HistoryTypes, Bounds
  <2>. QED BY <2>1, <2>2, <2>3, <2>4, <2>5, <2>6, <2>7
<1>16. ASSUME NEW s \in Calls, Spawn(s) PROVE TypeInv'
  <2>1. FlagTypes'
    BY <1>16 DEF Spawn, FlagTypes
  <2>2. CallTypes' /\ RangeTypes' /\ SlotTypes' /\ LoopTypes' /\ HistoryTypes' /\ Bounds'
    BY <1>16 DEF Spawn, CallTypes, RangeTypes, SlotTypes, LoopTypes, HistoryTypes, Bounds
  <2>. QED BY <2>1, <2>2
<1>17. ASSUME NEW s \in Calls, TakeSlot(s) PROVE TypeInv'
  <2>1. FlagTypes'
    BY <1>17 DEF TakeSlot, FlagTypes
  <2>2. CallTypes' /\ RangeTypes' /\ SlotTypes' /\ LoopTypes' /\ HistoryTypes' /\ Bounds'
    BY <1>17 DEF TakeSlot, CallTypes, RangeTypes, SlotTypes, LoopTypes, HistoryTypes, Bounds
  <2>. QED BY <2>1, <2>2
<1>18. ASSUME NEW s \in Calls, Started(s) PROVE TypeInv'
  <2>1. FlagTypes'
    BY <1>18 DEF Started, BatchReturns, FlagTypes
  <2>2. CallTypes' /\ RangeTypes' /\ SlotTypes' /\ LoopTypes' /\ HistoryTypes' /\ Bounds'
    BY <1>18 DEF Started, BatchReturns, CallTypes, RangeTypes, SlotTypes, LoopTypes,
       HistoryTypes, Bounds
  <2>. QED BY <2>1, <2>2
<1>19. ASSUME NEW s \in Calls, Settle(s) PROVE TypeInv'
  <2>1. FlagTypes'
    BY <1>19 DEF Settle, Advance, FreeSlot, Redrive, FlagTypes
  <2>2. CallTypes' /\ RangeTypes' /\ SlotTypes' /\ LoopTypes' /\ HistoryTypes' /\ Bounds'
    BY <1>19 DEF Settle, Advance, FreeSlot, Redrive, CallTypes, RangeTypes, SlotTypes, LoopTypes,
       HistoryTypes, Bounds
  <2>. QED BY <2>1, <2>2
<1>20. ASSUME NEW s \in Calls, NeverQuiet(s) PROVE TypeInv'
  <2>1. CallTypes'
    BY <1>20 DEF NeverQuiet, GiveBack, Finished, CallTypes, RangeTypes, SlotTypes,
       LoopTypes, HistoryTypes, Bounds
  <2>2. FlagTypes'
    BY <1>20 DEF NeverQuiet, GiveBack, Finished, FlagTypes
  <2>3. RangeTypes'
    BY <1>20 DEF NeverQuiet, GiveBack, Finished, CallTypes, RangeTypes, SlotTypes,
       LoopTypes, HistoryTypes, Bounds
  <2>4. SlotTypes'
    BY <1>20 DEF NeverQuiet, GiveBack, Finished, CallTypes, RangeTypes, SlotTypes,
       LoopTypes, HistoryTypes, Bounds
  <2>5. LoopTypes'
    BY <1>20 DEF NeverQuiet, GiveBack, Finished, CallTypes, RangeTypes, SlotTypes,
       LoopTypes, HistoryTypes, Bounds
  <2>6. HistoryTypes'
    BY <1>20 DEF NeverQuiet, GiveBack, Finished, CallTypes, RangeTypes, SlotTypes,
       LoopTypes, HistoryTypes, Bounds
  <2>7. Bounds'
    BY <1>20 DEF NeverQuiet, GiveBack, Finished, CallTypes, RangeTypes, SlotTypes,
       LoopTypes, HistoryTypes, Bounds
  <2>. QED BY <2>1, <2>2, <2>3, <2>4, <2>5, <2>6, <2>7
<1>21. ASSUME NEW s \in Calls, RetryLooks(s) PROVE TypeInv'
  <2>1. FlagTypes'
    BY <1>21 DEF RetryLooks, FlagTypes
  <2>2. CallTypes' /\ RangeTypes' /\ SlotTypes' /\ LoopTypes' /\ HistoryTypes' /\ Bounds'
    BY <1>21 DEF RetryLooks, CallTypes, RangeTypes, SlotTypes, LoopTypes, HistoryTypes,
       Bounds
  <2>. QED BY <2>1, <2>2
<1>22. ASSUME NEW s \in Calls, RetryHearsSuccess(s) PROVE TypeInv'
  <2>1. FlagTypes'
    BY <1>22 DEF RetryHearsSuccess, FlagTypes
  <2>2. CallTypes' /\ RangeTypes' /\ SlotTypes' /\ LoopTypes' /\ HistoryTypes' /\ Bounds'
    BY <1>22 DEF RetryHearsSuccess, CallTypes, RangeTypes, SlotTypes, LoopTypes,
       HistoryTypes, Bounds
  <2>. QED BY <2>1, <2>2
<1>23. ASSUME NEW s \in Calls, RetryHearsFailure(s) PROVE TypeInv'
  <2>1. CallTypes'
    BY <1>23 DEF RetryHearsFailure, ForgetClaims, CallTypes, RangeTypes, SlotTypes,
       LoopTypes, HistoryTypes, Bounds
  <2>2. FlagTypes'
    BY <1>23 DEF RetryHearsFailure, ForgetClaims, FlagTypes
  <2>3. RangeTypes'
    BY <1>23 DEF RetryHearsFailure, ForgetClaims, CallTypes, RangeTypes, SlotTypes,
       LoopTypes, HistoryTypes, Bounds
  <2>4. SlotTypes'
    <3>1. crossed' = {} \/ crossed' = crossed
      BY <1>23 DEF RetryHearsFailure, ForgetClaims
    <3>2. failures' = failures + 1 /\ UNCHANGED <<slot, crashes>>
      BY <1>23 DEF RetryHearsFailure
    <3>3. crossed' \in SUBSET (1..Top)
      BY <3>1, Zenon DEF SlotTypes
    <3>4. failures' \in Nat
      BY <3>2 DEF SlotTypes
    <3>. QED BY <3>2, <3>3, <3>4, Zenon DEF SlotTypes
  <2>5. LoopTypes'
    BY <1>23 DEF RetryHearsFailure, ForgetClaims, CallTypes, RangeTypes, SlotTypes,
       LoopTypes, HistoryTypes, Bounds
  <2>6. HistoryTypes'
    BY <1>23 DEF RetryHearsFailure, ForgetClaims, CallTypes, RangeTypes, SlotTypes,
       LoopTypes, HistoryTypes, Bounds
  <2>7. Bounds'
    BY <1>23 DEF RetryHearsFailure, ForgetClaims, CallTypes, RangeTypes, SlotTypes,
       LoopTypes, HistoryTypes, Bounds
  <2>. QED BY <2>1, <2>2, <2>3, <2>4, <2>5, <2>6, <2>7
<1>24. ASSUME NEW s \in Calls, WriterWrites(s) PROVE TypeInv'
  <2>1. CallTypes'
    BY <1>24 DEF WriterWrites, Touch, CallTypes, RangeTypes, SlotTypes, LoopTypes,
       HistoryTypes, Bounds
  <2>2. FlagTypes'
    BY <1>24 DEF WriterWrites, Touch, FlagTypes
  <2>3. RangeTypes'
    BY <1>24 DEF WriterWrites, Touch, CallTypes, RangeTypes, SlotTypes, LoopTypes,
       HistoryTypes, Bounds
  <2>4. SlotTypes'
    BY <1>24 DEF WriterWrites, Touch, CallTypes, RangeTypes, SlotTypes, LoopTypes,
       HistoryTypes, Bounds
  <2>5. LoopTypes'
    BY <1>24 DEF WriterWrites, Touch, CallTypes, RangeTypes, SlotTypes, LoopTypes,
       HistoryTypes, Bounds
  <2>6. HistoryTypes'
    <3>1. recorded' = recorded \cup (lo[s] .. view[s].end.at) /\ UNCHANGED history
      BY <1>24 DEF WriterWrites
    <3>2. lo[s] > 0 /\ lo[s] \in Nat /\ view[s].end.at \in 0..MaxMessages
      BY <1>24 DEF WriterWrites, RangeTypes, Bounds
    <3>3. \A m \in lo[s] .. view[s].end.at : m \in 1..MaxMessages
      BY <3>2
    <3>. QED BY <3>1, <3>3, Zenon DEF HistoryTypes
  <2>7. Bounds'
    BY <1>24 DEF WriterWrites, Touch, CallTypes, RangeTypes, SlotTypes, LoopTypes,
       HistoryTypes, Bounds
  <2>. QED BY <2>1, <2>2, <2>3, <2>4, <2>5, <2>6, <2>7
<1>25. ASSUME NEW s \in Calls, WriterEnds(s) PROVE TypeInv'
  <2>1. FlagTypes'
    BY <1>25 DEF WriterEnds, FlagTypes
  <2>2. CallTypes' /\ RangeTypes' /\ SlotTypes' /\ LoopTypes' /\ HistoryTypes' /\ Bounds'
    BY <1>25 DEF WriterEnds, CallTypes, RangeTypes, SlotTypes, LoopTypes, HistoryTypes,
       Bounds
  <2>. QED BY <2>1, <2>2
<1>26. ASSUME UNCHANGED vars PROVE TypeInv'
  BY <1>26 DEF vars, CallTypes, FlagTypes, RangeTypes, SlotTypes, LoopTypes, HistoryTypes,
     Bounds, CallTypes, RangeTypes, SlotTypes, LoopTypes, HistoryTypes, Bounds
<1>27. ASSUME FireLooks PROVE TypeInv'
  <2>1. FlagTypes'
    BY <1>27 DEF FireLooks, FlagTypes
  <2>2. CallTypes' /\ RangeTypes' /\ SlotTypes' /\ LoopTypes' /\ HistoryTypes' /\ Bounds'
    BY <1>27 DEF FireLooks, CallTypes, RangeTypes, SlotTypes, LoopTypes, HistoryTypes,
       Bounds
  <2>. QED BY <2>1, <2>2
<1>28. ASSUME NEW s \in Calls, CallDies(s) PROVE TypeInv'
  <2>1. FlagTypes'
    BY <1>28 DEF CallDies, Finished, FlagTypes
  <2>2. CallTypes' /\ RangeTypes' /\ SlotTypes' /\ LoopTypes' /\ HistoryTypes' /\ Bounds'
    BY <1>28 DEF CallDies, Finished, CallTypes, RangeTypes, SlotTypes, LoopTypes,
       HistoryTypes, Bounds
  <2>. QED BY <2>1, <2>2
<1>. QED
  BY <1>1, <1>2, <1>3, <1>4, <1>5, <1>6, <1>7, <1>8, <1>9, <1>10, <1>11, <1>12, <1>13,
     <1>14, <1>15, <1>16, <1>17, <1>18, <1>19, <1>20, <1>21, <1>22, <1>23, <1>24, <1>25,
     <1>26, <1>27, <1>28 DEF Next, CallStep, RetryStep, LoopSteps

(* Every variable keeps its type, and a slot is held only by a call that is  *)
(* yet to settle: nobody leaves a request where no watcher will look         *)
(* (checkpoint.ts:551-559, 976-1012), however calls overlap.                 *)
LEMMA Typed == Spec => []TypeInv
<1>1. ASSUME Init PROVE TypeInv
  <2>1. FlagTypes
    BY <1>1 DEF Init, FlagTypes
  <2>2. CallTypes /\ RangeTypes /\ SlotTypes /\ LoopTypes /\ HistoryTypes /\ Bounds
    BY <1>1, CheckpointAssumption DEF Init, Id, Ids, NoView, Calls, Phases, Starting,
       CallTypes, RangeTypes,
       SlotTypes, LoopTypes, HistoryTypes, Bounds
  <2>. QED BY <2>1, <2>2 DEF TypeInv
<1>. QED BY <1>1, TypeStep, PTL DEF Spec

THEOREM TypeCorrect == Spec => []TypeOK
<1>1. TypeInv => TypeOK
  BY DEF TypeInv, FlagTypes, CallTypes, RangeTypes, SlotTypes, LoopTypes, HistoryTypes,
     TypeOK
<1>. QED BY <1>1, Typed, PTL

THEOREM SlotsAreWatched == Spec => []SlotIsWatched
<1>1. TypeInv => SlotIsWatched
  BY DEF TypeInv, Bounds, SlotIsWatched
<1>. QED BY <1>1, Typed, PTL

(***************************************************************************)
(* What holds until two calls race.  SlotInv: a call on its way to the     *)
(* slot is the only one and finds it empty, and whoever watches a writer   *)
(* holds it.  RangeInv: everything before the range of a writer has been   *)
(* recorded or hidden, and so is its range when the watcher has seen the   *)
(* file change, because no other writer can have changed it.               *)
(***************************************************************************)
Holding(s) == pc[s] \in {"statting", "watching"}

SlotInv ==
  /\ \A s \in Calls : Holding(s) => slot = s
  /\ \A s \in Calls : pc[s] \in Starting => slot = None
  /\ \A s, t \in Calls : pc[s] \in Starting /\ pc[t] \in Starting => s = t

Covered(n) == \A m \in 1..n : m \in recorded \cup hidden

RangeInv ==
  /\ Covered(base) /\ Covered(watermark.at)
  /\ \A s \in Calls :
       /\ pc[s] = "dated" => Covered(view[s].base)
       /\ pc[s] \in {"spawning", "spawned", "statting", "watching"} => Covered(lo[s] - 1)
       /\ touched[s] => pc[s] = "watching" /\ lo[s] .. view[s].end.at \subseteq recorded

(* Once two calls have raced, they have.                                     *)
LEMMA RaceStep == TypeInv /\ raced /\ [Next]_vars => raced'
<1> USE DEF entry
<1>1. ASSUME TypeInv, raced, [Next]_vars, LoopSteps \/ Prompt \/ Crash \/ UNCHANGED vars
      PROVE raced'
  BY <1>1 DEF LoopSteps, FireLooks, FireClaims, FirePasses, CheckPasses, StepEnds,
     AwaitWriter, HideAll, WaitIsOver, Rebuild, Insert, Prompt, Crash, vars
<1>2. ASSUME TypeInv, raced, NEW s \in Calls, CallStep(s)
      PROVE raced'
  BY <1>2 DEF CallStep, QueueUp, Enter, Races, SkipCall, ReadMessages, ReadWatermark,
     Spawn, TakeSlot, Started, Settle, FreeSlot
<1>3. ASSUME TypeInv, raced, NEW s \in Calls,
             \/ CallDies(s) \/ NeverQuiet(s) \/ RetryStep(s)
             \/ WriterWrites(s) \/ WriterEnds(s)
      PROVE raced'
  BY <1>3 DEF CallDies, NeverQuiet, RetryStep, RetryLooks, RetryHearsSuccess,
     RetryHearsFailure, WriterWrites, WriterEnds
<1>. QED BY <1>1, <1>2, <1>3 DEF Next

LEMMA SlotStep == TypeInv /\ SlotInv /\ [Next]_vars /\ ~ raced' => SlotInv'
<1> SUFFICES ASSUME TypeInv, SlotInv, [Next]_vars, ~ raced' PROVE SlotInv'
  OBVIOUS
<1> USE CheckpointAssumption DEF TypeInv, CallTypes, Calls, Starting, Holding, starts,
entry, claims,
        turn, history, file
<1>1. ASSUME FireClaims PROVE SlotInv'
  BY <1>1 DEF FireClaims, NewlyCrossed, SlotInv, Bounds, Unused
<1>2. ASSUME FirePasses PROVE SlotInv'
  BY <1>2 DEF FirePasses, SlotInv, Bounds, Unused
<1>3. ASSUME CheckPasses PROVE SlotInv'
  BY <1>3 DEF CheckPasses, LoopStep, SlotInv, Bounds, Unused
<1>4. ASSUME StepEnds PROVE SlotInv'
  BY <1>4 DEF StepEnds, SlotInv, Bounds, Unused
<1>5. ASSUME AwaitWriter PROVE SlotInv'
  BY <1>5 DEF AwaitWriter, Overflows, SlotInv, Bounds, Unused
<1>6. ASSUME HideAll PROVE SlotInv'
  BY <1>6 DEF HideAll, Overflows, Insert, ForgetClaims, SlotInv, Bounds, Unused
<1>7. ASSUME WaitIsOver PROVE SlotInv'
  BY <1>7 DEF WaitIsOver, LoopStep, SlotInv, Bounds, Unused
<1>8. ASSUME Rebuild PROVE SlotInv'
  BY <1>8 DEF Rebuild, Insert, ForgetClaims, MarkerPlace, Shows, SlotInv, Bounds, Unused
<1>9. ASSUME Prompt PROVE SlotInv'
  BY <1>9 DEF Prompt, LoopStep, SlotInv, Bounds, Unused
<1>10. ASSUME Crash PROVE SlotInv'
  BY <1>10 DEF Crash, SlotInv, Bounds, Unused
<1>11. ASSUME NEW s \in Calls, QueueUp(s) PROVE SlotInv'
  BY <1>11 DEF QueueUp, Due, Finished, BatchReturns, SlotInv, Bounds, Unused
<1>12. ASSUME NEW s \in Calls, Enter(s) PROVE SlotInv'
  BY <1>12 DEF Enter, Due, Races, SlotInv, Bounds, Unused
<1>13. ASSUME NEW s \in Calls, SkipCall(s) PROVE SlotInv'
  BY <1>13 DEF SkipCall, Finished, BatchReturns, SlotInv, Bounds, Unused
<1>14. ASSUME NEW s \in Calls, ReadMessages(s) PROVE SlotInv'
  BY <1>14 DEF ReadMessages, Boundaries, First, SlotInv, Bounds, Unused
<1>15. ASSUME NEW s \in Calls, ReadWatermark(s) PROVE SlotInv'
  BY <1>15 DEF ReadWatermark, Shows, Touch, SlotInv, Bounds, Unused
<1>16. ASSUME NEW s \in Calls, Spawn(s) PROVE SlotInv'
  BY <1>16 DEF Spawn, SlotInv, Bounds, Unused
<1>17. ASSUME NEW s \in Calls, TakeSlot(s) PROVE SlotInv'
  BY <1>17 DEF TakeSlot, SlotInv, Bounds, Unused
<1>18. ASSUME NEW s \in Calls, Started(s) PROVE SlotInv'
  BY <1>18 DEF Started, BatchReturns, SlotInv, Bounds, Unused
<1>19. ASSUME NEW s \in Calls, Settle(s) PROVE SlotInv'
  BY <1>19 DEF Settle, Advance, FreeSlot, Redrive, SlotInv, Bounds, Unused
<1>20. ASSUME NEW s \in Calls, NeverQuiet(s) PROVE SlotInv'
  BY <1>20 DEF NeverQuiet, GiveBack, Finished, SlotInv, Bounds, Unused
<1>21. ASSUME NEW s \in Calls, RetryLooks(s) PROVE SlotInv'
  BY <1>21 DEF RetryLooks, SlotInv, Bounds, Unused
<1>22. ASSUME NEW s \in Calls, RetryHearsSuccess(s) PROVE SlotInv'
  BY <1>22 DEF RetryHearsSuccess, SlotInv, Bounds, Unused
<1>23. ASSUME NEW s \in Calls, RetryHearsFailure(s) PROVE SlotInv'
  BY <1>23 DEF RetryHearsFailure, ForgetClaims, SlotInv, Bounds, Unused
<1>24. ASSUME NEW s \in Calls, WriterWrites(s) PROVE SlotInv'
  BY <1>24 DEF WriterWrites, Touch, SlotInv, Bounds, Unused
<1>25. ASSUME NEW s \in Calls, WriterEnds(s) PROVE SlotInv'
  BY <1>25 DEF WriterEnds, SlotInv, Bounds, Unused
<1>26. ASSUME UNCHANGED vars PROVE SlotInv'
  BY <1>26 DEF vars, SlotInv, Bounds, Unused
<1>27. ASSUME FireLooks PROVE SlotInv'
  BY <1>27 DEF FireLooks, SlotInv, Bounds, Unused
<1>28. ASSUME NEW s \in Calls, CallDies(s) PROVE SlotInv'
  BY <1>28 DEF CallDies, Finished, SlotInv, Bounds, Unused
<1>. QED
  BY <1>1, <1>2, <1>3, <1>4, <1>5, <1>6, <1>7, <1>8, <1>9, <1>10, <1>11, <1>12, <1>13,
     <1>14, <1>15, <1>16, <1>17, <1>18, <1>19, <1>20, <1>21, <1>22, <1>23, <1>24, <1>25,
     <1>26, <1>27, <1>28 DEF Next, CallStep, RetryStep, LoopSteps

LEMMA RangeStep ==
  TypeInv /\ SlotInv /\ RangeInv /\ [Next]_vars /\ ~ raced' => RangeInv'
<1> SUFFICES ASSUME TypeInv, SlotInv, RangeInv, [Next]_vars, ~ raced' PROVE RangeInv'
  OBVIOUS
<1> USE CheckpointAssumption DEF TypeInv, CallTypes, RangeTypes, HistoryTypes, Calls,
Starting, Holding,
        NoView, Id, Ids, starts, entry, claims, turn, history, file
<1>1. ASSUME FireClaims PROVE RangeInv'
  <2>1. PICK s \in Batches : pc[s] = "new" /\ pc' = [pc EXCEPT ![s] = "waiting"]
    BY <1>1 DEF FireClaims, Unused
  <2>2. UNCHANGED <<view, lo, base, watermark, recorded, hidden, touched>>
    BY <1>1 DEF FireClaims
  <2>. QED BY <2>1, <2>2 DEF RangeInv, Covered
<1>2. ASSUME FirePasses PROVE RangeInv'
  BY <1>2 DEF FirePasses, RangeInv, Bounds, Covered, SlotInv
<1>3. ASSUME CheckPasses PROVE RangeInv'
  BY <1>3 DEF CheckPasses, LoopStep, RangeInv, Bounds, Covered, SlotInv
<1>4. ASSUME StepEnds PROVE RangeInv'
  BY <1>4 DEF StepEnds, RangeInv, Bounds, Covered, SlotInv
<1>5. ASSUME AwaitWriter PROVE RangeInv'
  BY <1>5 DEF AwaitWriter, Overflows, RangeInv, Bounds, Covered, SlotInv
<1>6. ASSUME HideAll PROVE RangeInv'
  BY <1>6 DEF HideAll, Overflows, Insert, ForgetClaims, RangeInv, Bounds, Covered, SlotInv
<1>7. ASSUME WaitIsOver PROVE RangeInv'
  BY <1>7 DEF WaitIsOver, LoopStep, RangeInv, Bounds, Covered, SlotInv
<1>8. ASSUME Rebuild PROVE RangeInv'
  BY <1>8 DEF Rebuild, Insert, ForgetClaims, MarkerPlace, Shows, RangeInv, Bounds, Covered,
     SlotInv
<1>9. ASSUME Prompt PROVE RangeInv'
  BY <1>9 DEF Prompt, LoopStep, RangeInv, Bounds, Covered, SlotInv
<1>10. ASSUME Crash PROVE RangeInv'
  BY <1>10 DEF Crash, RangeInv, Bounds, Covered, SlotInv
<1>11. ASSUME NEW s \in Calls, QueueUp(s) PROVE RangeInv'
  BY <1>11 DEF QueueUp, Due, Finished, BatchReturns, RangeInv, Bounds, Covered, SlotInv
<1>12. ASSUME NEW s \in Calls, Enter(s) PROVE RangeInv'
  BY <1>12 DEF Enter, Due, Races, RangeInv, Bounds, Covered, SlotInv
<1>13. ASSUME NEW s \in Calls, SkipCall(s) PROVE RangeInv'
  BY <1>13 DEF SkipCall, Finished, BatchReturns, RangeInv, Bounds, Covered, SlotInv
<1>14. ASSUME NEW s \in Calls, ReadMessages(s) PROVE RangeInv'
  BY <1>14 DEF ReadMessages, Boundaries, First, RangeInv, Bounds, Covered, SlotInv
<1>15. ASSUME NEW s \in Calls, ReadWatermark(s) PROVE RangeInv'
  <2>1. PICK from \in {view[s].base + 1,
                       IF Shows(view[s].base, view[s].mark, watermark)
                         THEN watermark.at + 1 ELSE view[s].base + 1} :
          lo' = [lo EXCEPT ![s] = from]
    BY <1>15 DEF ReadWatermark
  <2>2. /\ pc[s] = "dated" /\ pc' = [pc EXCEPT ![s] = "spawning"]
        /\ UNCHANGED <<view, base, watermark, recorded, hidden>>
    BY <1>15 DEF ReadWatermark
  <2>3. Covered(lo'[s] - 1)
    BY <2>1, <2>2 DEF RangeInv, Covered
  <2>4. UNCHANGED touched
    <3>1. \A t \in Calls : pc[t] # "watching"
      BY <2>2 DEF SlotInv
    <3>. QED BY <1>15, <3>1 DEF ReadWatermark, Touch, FlagTypes
  <2>. QED BY <2>1, <2>2, <2>3, <2>4 DEF RangeInv, Covered
<1>16. ASSUME NEW s \in Calls, Spawn(s) PROVE RangeInv'
  BY <1>16 DEF Spawn, RangeInv, Bounds, Covered, SlotInv
<1>17. ASSUME NEW s \in Calls, TakeSlot(s) PROVE RangeInv'
  BY <1>17 DEF TakeSlot, RangeInv, Bounds, Covered, SlotInv
<1>18. ASSUME NEW s \in Calls, Started(s) PROVE RangeInv'
  BY <1>18 DEF Started, BatchReturns, RangeInv, Bounds, Covered, SlotInv
<1>19. ASSUME NEW s \in Calls, Settle(s) PROVE RangeInv'
  <2>1. /\ watermark' = watermark \/ (watermark' = view[s].end /\ touched[s])
        /\ touched' = [touched EXCEPT ![s] = FALSE]
        /\ lo' = [lo EXCEPT ![s] = 0] /\ view' = [view EXCEPT ![s] = NoView]
        /\ UNCHANGED <<base, recorded, hidden>>
        /\ \A t \in Calls : pc'[t] \in {pc[t], "finished", "called"}
        /\ pc'[s] \in {"finished", "called"}
    <3>1. CASE pending
      BY <1>19, <3>1 DEF Settle, Advance, FreeSlot, Redrive, Bounds, Unused
    <3>2. CASE ~ pending
      BY <1>19, <3>2 DEF Settle, Advance, FreeSlot, Redrive
    <3>. QED BY <3>1, <3>2
  <2>2. Covered(watermark'.at)
    <3>1. CASE touched[s] /\ watermark' = view[s].end
      <4>1. Covered(lo[s] - 1) /\ lo[s] .. view[s].end.at \subseteq recorded
        BY <3>1 DEF RangeInv
      <4>2. lo[s] \in Nat /\ view[s].end.at \in Nat
        OBVIOUS
      <4>. QED BY <3>1, <4>1, <4>2 DEF Covered
    <3>. QED BY <2>1, <3>1 DEF RangeInv
  <2>3. ASSUME NEW t \in Calls, touched'[t]
        PROVE  /\ t # s /\ touched[t] /\ pc'[t] = "watching"
               /\ lo'[t] = lo[t] /\ view'[t] = view[t]
    <3>1. t # s /\ touched[t]
      BY <2>1, <2>3 DEF FlagTypes
    <3>2. pc[t] = "watching" /\ pc[s] = "watching"
      BY <1>19, <3>1 DEF Settle, RangeInv
    <3>. QED BY <3>1, <3>2 DEF SlotInv
  <2>4. ASSUME NEW t \in Calls, pc'[t] \notin {"finished", "called"}
        PROVE  t # s /\ pc'[t] = pc[t] /\ lo'[t] = lo[t] /\ view'[t] = view[t]
    BY <2>1, <2>4
  <2>. QED BY <2>1, <2>2, <2>3, <2>4 DEF RangeInv, Covered
<1>20. ASSUME NEW s \in Calls, NeverQuiet(s) PROVE RangeInv'
  BY <1>20 DEF NeverQuiet, GiveBack, Finished, RangeInv, Bounds, Covered, SlotInv
<1>21. ASSUME NEW s \in Calls, RetryLooks(s) PROVE RangeInv'
  BY <1>21 DEF RetryLooks, RangeInv, Bounds, Covered, SlotInv
<1>22. ASSUME NEW s \in Calls, RetryHearsSuccess(s) PROVE RangeInv'
  BY <1>22 DEF RetryHearsSuccess, RangeInv, Bounds, Covered, SlotInv
<1>23. ASSUME NEW s \in Calls, RetryHearsFailure(s) PROVE RangeInv'
  BY <1>23 DEF RetryHearsFailure, ForgetClaims, RangeInv, Bounds, Covered, SlotInv
<1>24. ASSUME NEW s \in Calls, WriterWrites(s) PROVE RangeInv'
  <2>1. /\ recorded' = recorded \cup (lo[s] .. view[s].end.at)
        /\ touched' = [t \in Calls |-> touched[t] \/ pc[t] = "watching"]
        /\ UNCHANGED <<pc, lo, view, base, hidden, watermark>>
    BY <1>24 DEF WriterWrites, Touch
  <2>2. \A t \in Calls : pc[t] = "watching" => t = s
    BY <1>24 DEF WriterWrites, SlotInv, Bounds
  <2>3. ASSUME NEW t \in Calls, touched'[t]
        PROVE  pc[t] = "watching" /\ lo[t] .. view[t].end.at \subseteq recorded'
    BY <2>1, <2>2, <2>3, Zenon DEF RangeInv
  <2>. QED BY <2>1, <2>3, Zenon DEF RangeInv, Covered
<1>25. ASSUME NEW s \in Calls, WriterEnds(s) PROVE RangeInv'
  BY <1>25 DEF WriterEnds, RangeInv, Bounds, Covered, SlotInv
<1>26. ASSUME UNCHANGED vars PROVE RangeInv'
  BY <1>26 DEF vars, RangeInv, Bounds, Covered, SlotInv
<1>27. ASSUME FireLooks PROVE RangeInv'
  BY <1>27 DEF FireLooks, RangeInv, Bounds, Covered, SlotInv
<1>28. ASSUME NEW s \in Calls, CallDies(s) PROVE RangeInv'
  BY <1>28 DEF CallDies, Finished, RangeInv, Bounds, Covered, SlotInv
<1>. QED
  BY <1>1, <1>2, <1>3, <1>4, <1>5, <1>6, <1>7, <1>8, <1>9, <1>10, <1>11, <1>12, <1>13,
     <1>14, <1>15, <1>16, <1>17, <1>18, <1>19, <1>20, <1>21, <1>22, <1>23, <1>24, <1>25,
     <1>26, <1>27, <1>28 DEF Next, CallStep, RetryStep, LoopSteps

(* Thresholds a batch holds stay claimed by it alone until it has called     *)
(* (prune.ts:355-369, 408-413), however calls overlap.                       *)
LEMMA ClaimStep == TypeInv /\ ClaimHeld /\ [Next]_vars => ClaimHeld'
<1> SUFFICES ASSUME TypeInv, ClaimHeld, [Next]_vars PROVE ClaimHeld'
  OBVIOUS
<1> USE CheckpointAssumption DEF TypeInv, CallTypes, Calls, starts, entry, claims, turn,
history, file
<1>1. ASSUME FireClaims PROVE ClaimHeld'
  BY <1>1 DEF FireClaims, NewlyCrossed, ClaimHeld, FlagTypes, Unused
<1>2. ASSUME FirePasses PROVE ClaimHeld'
  BY <1>2 DEF FirePasses, ClaimHeld, FlagTypes, Unused
<1>3. ASSUME CheckPasses PROVE ClaimHeld'
  BY <1>3 DEF CheckPasses, LoopStep, ClaimHeld, FlagTypes, Unused
<1>4. ASSUME StepEnds PROVE ClaimHeld'
  BY <1>4 DEF StepEnds, ClaimHeld, FlagTypes, Unused
<1>5. ASSUME AwaitWriter PROVE ClaimHeld'
  BY <1>5 DEF AwaitWriter, Overflows, ClaimHeld, FlagTypes, Unused
<1>6. ASSUME HideAll PROVE ClaimHeld'
  BY <1>6 DEF HideAll, Overflows, Insert, ForgetClaims, ClaimHeld, FlagTypes, Unused
<1>7. ASSUME WaitIsOver PROVE ClaimHeld'
  BY <1>7 DEF WaitIsOver, LoopStep, ClaimHeld, FlagTypes, Unused
<1>8. ASSUME Rebuild PROVE ClaimHeld'
  BY <1>8 DEF Rebuild, Insert, ForgetClaims, MarkerPlace, Shows, ClaimHeld, FlagTypes,
     Unused
<1>9. ASSUME Prompt PROVE ClaimHeld'
  BY <1>9 DEF Prompt, LoopStep, ClaimHeld, FlagTypes, Unused
<1>10. ASSUME Crash PROVE ClaimHeld'
  BY <1>10 DEF Crash, ClaimHeld, FlagTypes, Unused
<1>11. ASSUME NEW s \in Calls, QueueUp(s) PROVE ClaimHeld'
  BY <1>11 DEF QueueUp, Due, Finished, BatchReturns, ClaimHeld, FlagTypes, Unused
<1>12. ASSUME NEW s \in Calls, Enter(s) PROVE ClaimHeld'
  BY <1>12 DEF Enter, Due, Races, ClaimHeld, FlagTypes, Unused
<1>13. ASSUME NEW s \in Calls, SkipCall(s) PROVE ClaimHeld'
  BY <1>13 DEF SkipCall, Finished, BatchReturns, ClaimHeld, FlagTypes, Unused
<1>14. ASSUME NEW s \in Calls, ReadMessages(s) PROVE ClaimHeld'
  BY <1>14 DEF ReadMessages, Boundaries, First, ClaimHeld, FlagTypes, Unused
<1>15. ASSUME NEW s \in Calls, ReadWatermark(s) PROVE ClaimHeld'
  BY <1>15 DEF ReadWatermark, Shows, Touch, ClaimHeld, FlagTypes, Unused
<1>16. ASSUME NEW s \in Calls, Spawn(s) PROVE ClaimHeld'
  BY <1>16 DEF Spawn, ClaimHeld, FlagTypes, Unused
<1>17. ASSUME NEW s \in Calls, TakeSlot(s) PROVE ClaimHeld'
  BY <1>17 DEF TakeSlot, ClaimHeld, FlagTypes, Unused
<1>18. ASSUME NEW s \in Calls, Started(s) PROVE ClaimHeld'
  BY <1>18 DEF Started, BatchReturns, ClaimHeld, FlagTypes, Unused
<1>19. ASSUME NEW s \in Calls, Settle(s) PROVE ClaimHeld'
  BY <1>19 DEF Settle, Advance, FreeSlot, Redrive, ClaimHeld, FlagTypes, Unused
<1>20. ASSUME NEW s \in Calls, NeverQuiet(s) PROVE ClaimHeld'
  <2>1. /\ crossed' = IF linked[s] THEN crossed \ keys[s] ELSE crossed
        /\ pc' = [pc EXCEPT ![s] = "finished"] /\ pc[s] = "waiting"
        /\ keys' = [keys EXCEPT ![s] = {}] /\ linked' = [linked EXCEPT ![s] = FALSE]
    BY <1>20 DEF NeverQuiet, GiveBack, Finished
  <2>2. ASSUME NEW t \in Batches, pc'[t] = "waiting", linked'[t]
        PROVE  t # s /\ pc[t] = "waiting" /\ linked[t] /\ keys'[t] = keys[t]
    BY <2>1, <2>2, Zenon DEF FlagTypes
  <2>3. ASSUME NEW t \in Batches, pc'[t] = "waiting",
  linked'[t] PROVE keys'[t] \subseteq crossed'
    <3>1. keys[t] \subseteq crossed /\ keys'[t] = keys[t] /\ t # s
      BY <2>2, <2>3 DEF ClaimHeld
    <3>2. CASE linked[s]
      <4>1. keys[t] \cap keys[s] = {}
        BY <2>1, <2>2, <2>3, <3>2 DEF ClaimHeld, Bounds
      <4>. QED BY <2>1, <3>1, <3>2, <4>1
    <3>. QED BY <2>1, <3>1, <3>2
  <2>. QED BY <2>2, <2>3, Zenon DEF ClaimHeld
<1>21. ASSUME NEW s \in Calls, RetryLooks(s) PROVE ClaimHeld'
  BY <1>21 DEF RetryLooks, ClaimHeld, FlagTypes, Unused
<1>22. ASSUME NEW s \in Calls, RetryHearsSuccess(s) PROVE ClaimHeld'
  BY <1>22 DEF RetryHearsSuccess, ClaimHeld, FlagTypes, Unused
<1>23. ASSUME NEW s \in Calls, RetryHearsFailure(s) PROVE ClaimHeld'
  BY <1>23 DEF RetryHearsFailure, ForgetClaims, ClaimHeld, FlagTypes, Unused
<1>24. ASSUME NEW s \in Calls, WriterWrites(s) PROVE ClaimHeld'
  BY <1>24 DEF WriterWrites, Touch, ClaimHeld, FlagTypes, Unused
<1>25. ASSUME NEW s \in Calls, WriterEnds(s) PROVE ClaimHeld'
  BY <1>25 DEF WriterEnds, ClaimHeld, FlagTypes, Unused
<1>26. ASSUME UNCHANGED vars PROVE ClaimHeld'
  BY <1>26 DEF vars, ClaimHeld, FlagTypes, Unused
<1>27. ASSUME FireLooks PROVE ClaimHeld'
  BY <1>27 DEF FireLooks, ClaimHeld, FlagTypes, Unused
<1>28. ASSUME NEW s \in Calls, CallDies(s) PROVE ClaimHeld'
  BY <1>28 DEF CallDies, Finished, ClaimHeld, FlagTypes, Unused
<1>. QED
  BY <1>1, <1>2, <1>3, <1>4, <1>5, <1>6, <1>7, <1>8, <1>9, <1>10, <1>11, <1>12, <1>13,
     <1>14, <1>15, <1>16, <1>17, <1>18, <1>19, <1>20, <1>21, <1>22, <1>23, <1>24, <1>25,
     <1>26, <1>27, <1>28 DEF Next, CallStep, RetryStep, LoopSteps

(* What a batch has claimed nobody else claims, for any batches and restarts. *)
THEOREM ClaimsAreExclusive == Spec => []ClaimHeld
<1>1. Init => ClaimHeld
  BY DEF Init, ClaimHeld, Calls
<1>. QED BY <1>1, Typed, ClaimStep, PTL DEF Spec

(* What holds until two calls race stays while they do not.                  *)
Unraced == ~ raced => SlotInv /\ RangeInv

LEMMA UnracedStep == TypeInv /\ Unraced /\ [Next]_vars => Unraced'
<1> SUFFICES ASSUME TypeInv, Unraced, [Next]_vars, ~ raced' PROVE SlotInv' /\ RangeInv'
  BY DEF Unraced
<1>1. ~ raced
  BY RaceStep
<1>. QED BY <1>1, SlotStep, RangeStep DEF Unraced

LEMMA UntilRaced == Spec => []Unraced
<1>1. Init => Unraced
  BY CheckpointAssumption DEF Init, Unraced, SlotInv, Holding, Starting, RangeInv,
     Covered, Id
<1>. QED BY <1>1, Typed, UnracedStep, PTL DEF Spec

(* Two writers of one file are at work only if two calls have been between   *)
(* the lookup and the slot at once (checkpoint.ts:551-920): nothing else, no *)
(* settle, redrive, failure, wait or restart, brings that about.             *)
THEOREM OneWriterAtATime == Spec => []OneWriterUnlessRaced
<1>1. TypeInv /\ Unraced => OneWriterUnlessRaced
  <2> SUFFICES ASSUME TypeInv, SlotInv, NEW s \in Running, NEW t \in Running PROVE s = t
    BY DEF OneWriterUnlessRaced, OneWriter, Unraced
  <2>1. s \in Calls /\ t \in Calls /\ None \notin Calls
    BY CheckpointAssumption DEF Running
  <2>2. \A u \in {s, t} : pc[u] = "spawned" \/ Holding(u)
    BY <2>1 DEF TypeInv, Bounds, Running, Holding
  <2>. QED BY <2>1, <2>2 DEF SlotInv, Starting
<1>. QED BY <1>1, Typed, UntilRaced, PTL

(* No message up to the watermark is missing from the checkpoint, unless a   *)
(* rebuild had hidden it or two calls have raced (checkpoint.ts:945-975).    *)
THEOREM ProgressIsRecorded == Spec => []ProgressUnlessRaced
<1>1. Unraced => ProgressUnlessRaced
  BY DEF Unraced, RangeInv, Covered, ProgressUnlessRaced
<1>. QED BY <1>1, UntilRaced, PTL

-----------------------------------------------------------------------------
(* What PendingServed needs besides fairness.  A call that is on its way to  *)
(* the slot, or has it, has spawned its writer.                              *)
HasWriter == \A s \in Calls :
  pc[s] \in {"spawned", "statting", "watching"} => writer[s] # "none"

LEMMA WriterStep == TypeInv /\ HasWriter /\ [Next]_vars => HasWriter'
<1> SUFFICES ASSUME TypeInv, HasWriter, [Next]_vars PROVE HasWriter'
  OBVIOUS
<1> USE CheckpointAssumption DEF TypeInv, CallTypes, Calls, Phases, starts, entry,
       claims, turn, history, file
<1>1. ASSUME FireClaims PROVE HasWriter'
  BY <1>1 DEF FireClaims, NewlyCrossed, HasWriter
<1>2. ASSUME FirePasses PROVE HasWriter'
  BY <1>2 DEF FirePasses, HasWriter
<1>3. ASSUME CheckPasses PROVE HasWriter'
  BY <1>3 DEF CheckPasses, LoopStep, HasWriter
<1>4. ASSUME StepEnds PROVE HasWriter'
  BY <1>4 DEF StepEnds, HasWriter
<1>5. ASSUME AwaitWriter PROVE HasWriter'
  BY <1>5 DEF AwaitWriter, Overflows, HasWriter
<1>6. ASSUME HideAll PROVE HasWriter'
  BY <1>6 DEF HideAll, Overflows, Insert, ForgetClaims, HasWriter
<1>7. ASSUME WaitIsOver PROVE HasWriter'
  BY <1>7 DEF WaitIsOver, LoopStep, HasWriter
<1>8. ASSUME Rebuild PROVE HasWriter'
  BY <1>8 DEF Rebuild, Insert, ForgetClaims, MarkerPlace, Shows, HasWriter
<1>9. ASSUME Prompt PROVE HasWriter'
  BY <1>9 DEF Prompt, LoopStep, HasWriter
<1>10. ASSUME Crash PROVE HasWriter'
  BY <1>10 DEF Crash, HasWriter
<1>11. ASSUME NEW s \in Calls, QueueUp(s) PROVE HasWriter'
  BY <1>11 DEF QueueUp, Due, Finished, BatchReturns, HasWriter
<1>12. ASSUME NEW s \in Calls, Enter(s) PROVE HasWriter'
  BY <1>12 DEF Enter, Due, Races, HasWriter
<1>13. ASSUME NEW s \in Calls, SkipCall(s) PROVE HasWriter'
  BY <1>13 DEF SkipCall, Finished, BatchReturns, HasWriter
<1>14. ASSUME NEW s \in Calls, ReadMessages(s) PROVE HasWriter'
  BY <1>14 DEF ReadMessages, Boundaries, First, HasWriter
<1>15. ASSUME NEW s \in Calls, ReadWatermark(s) PROVE HasWriter'
  BY <1>15 DEF ReadWatermark, Shows, Touch, HasWriter
<1>16. ASSUME NEW s \in Calls, Spawn(s) PROVE HasWriter'
  BY <1>16 DEF Spawn, HasWriter
<1>17. ASSUME NEW s \in Calls, TakeSlot(s) PROVE HasWriter'
  BY <1>17 DEF TakeSlot, HasWriter
<1>18. ASSUME NEW s \in Calls, Started(s) PROVE HasWriter'
  BY <1>18 DEF Started, BatchReturns, HasWriter
<1>19. ASSUME NEW s \in Calls, Settle(s) PROVE HasWriter'
  BY <1>19 DEF Settle, Advance, FreeSlot, Redrive, HasWriter
<1>20. ASSUME NEW s \in Calls, NeverQuiet(s) PROVE HasWriter'
  BY <1>20 DEF NeverQuiet, GiveBack, Finished, HasWriter
<1>21. ASSUME NEW s \in Calls, RetryLooks(s) PROVE HasWriter'
  BY <1>21 DEF RetryLooks, HasWriter
<1>22. ASSUME NEW s \in Calls, RetryHearsSuccess(s) PROVE HasWriter'
  BY <1>22 DEF RetryHearsSuccess, HasWriter
<1>23. ASSUME NEW s \in Calls, RetryHearsFailure(s) PROVE HasWriter'
  BY <1>23 DEF RetryHearsFailure, ForgetClaims, HasWriter
<1>24. ASSUME NEW s \in Calls, WriterWrites(s) PROVE HasWriter'
  BY <1>24 DEF WriterWrites, Touch, HasWriter
<1>25. ASSUME NEW s \in Calls, WriterEnds(s) PROVE HasWriter'
  BY <1>25 DEF WriterEnds, HasWriter
<1>26. ASSUME UNCHANGED vars PROVE HasWriter'
  BY <1>26 DEF vars, HasWriter
<1>27. ASSUME FireLooks PROVE HasWriter'
  BY <1>27 DEF FireLooks, HasWriter
<1>28. ASSUME NEW s \in Calls, CallDies(s) PROVE HasWriter'
  BY <1>28 DEF CallDies, Finished, HasWriter
<1>. QED
  BY <1>1, <1>2, <1>3, <1>4, <1>5, <1>6, <1>7, <1>8, <1>9, <1>10, <1>11, <1>12, <1>13,
     <1>14, <1>15, <1>16, <1>17, <1>18, <1>19, <1>20, <1>21, <1>22, <1>23, <1>24, <1>25,
     <1>26, <1>27, <1>28 DEF Next, CallStep, RetryStep, LoopSteps

(* A queued request has somebody to find it: the call in the slot has its    *)
(* watcher or is about to fork it, its writer is at work or has ended, and a *)
(* call is left for the watcher to make.                                     *)
PendingHasHeir ==
  pending => /\ slot # None
             /\ pc[slot] \in {"statting", "watching"} /\ writer[slot] # "none"
             /\ Unused(Redrives) # {}

THEOREM QueuedRequestsHaveHeirs == Spec => []PendingHasHeir
<1>1. Init => HasWriter
  BY DEF Init, HasWriter
<1>2. TypeInv /\ HasWriter => PendingHasHeir
  BY CheckpointAssumption DEF TypeInv, Bounds, SlotTypes, HasWriter, PendingHasHeir
<1>. QED BY <1>1, <1>2, Typed, WriterStep, PTL DEF Spec

(* A queued request goes only when a call is made for it, unless the process *)
(* dies or two calls race: the second's entry then replaces the first's, and *)
(* the request with it (checkpoint.ts:920, 976-1012).                        *)
CalledFor == \E r \in Redrives : pc[r] = "new" /\ pc'[r] = "called"

RequestGoes == pending /\ ~ pending' => CalledFor \/ raced \/ crashes' = crashes + 1

THEOREM RequestsAreCalledFor == Spec => [][RequestGoes]_vars
<1>1. TypeInv /\ Unraced /\ [Next]_vars => [RequestGoes]_vars
  <2> SUFFICES ASSUME TypeInv, Unraced, Next, pending, ~ pending', ~ raced, ~ Crash
               PROVE  CalledFor
    BY DEF RequestGoes, Crash
  <2> USE DEF entry
  <2>1. \A s \in Calls : ~ TakeSlot(s)
    BY DEF TakeSlot, TypeInv, Bounds, Unraced, SlotInv, Starting
  <2>2. ~ LoopSteps /\ ~ Prompt
    BY DEF LoopSteps, FireLooks, FireClaims, FirePasses, CheckPasses, StepEnds,
       AwaitWriter, HideAll, WaitIsOver, Rebuild, Insert, Prompt
  <2>3. \A s \in Calls :
           ~ (CallDies(s) \/ NeverQuiet(s) \/ RetryStep(s) \/ WriterWrites(s) \/ WriterEnds(s))
    BY DEF CallDies, NeverQuiet, RetryStep, RetryLooks, RetryHearsSuccess,
       RetryHearsFailure, WriterWrites, WriterEnds
  <2>4. PICK s \in Calls : CallStep(s)
    BY <2>2, <2>3 DEF Next
  <2>5. Settle(s)
    BY <2>1, <2>4 DEF CallStep, QueueUp, Enter, SkipCall, ReadMessages, ReadWatermark,
       Spawn, Started
  <2>6. PICK r \in Redrives : pc[r] = "new" /\ pc' = [pc EXCEPT ![s] = "finished", ![r] = "called"]
    BY <2>5 DEF Settle, Redrive, TypeInv, Bounds, Unused
  <2>7. pc'[r] = "called"
    BY <2>6 DEF TypeInv, CallTypes, Calls
  <2>. QED BY <2>6, <2>7 DEF CalledFor
<1>. QED BY <1>1, Typed, UntilRaced, PTL DEF Spec
=============================================================================
