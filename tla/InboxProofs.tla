------------------------------ MODULE InboxProofs ------------------------------
(* Proofs about Inbox, for any notes, batch size and number of interruptions *)
(* of the run.                                                               *)
EXTENDS Inbox, FiniteSetTheorems, TLAPS

(***************************************************************************)
(* The invariant.  A drain is between its read and its deletion exactly    *)
(* while it has a batch, which are rows; what it has written is in the     *)
(* transcript.  No row of an earlier millisecond than a row of the batch   *)
(* is outside it.  A row outside a batch that is written has been written  *)
(* at most once for each run that was cut off.                             *)
(***************************************************************************)
DrainState ==
  /\ \A n \in rows : sent[n] \in {"stored", "done"}
  /\ batch \subseteq rows
  /\ loop \notin {"read", "wrote"} => batch = {}
  /\ loop = "wrote" => \A n \in batch : copies[n] > 0

BatchIsOldest == \A n \in batch, m \in rows : Time[m] < Time[n] => m \in batch

CopiesAreBounded ==
  \A n \in Notes :
    /\ sent[n] \in {"new", "refused"} => copies[n] = 0
    /\ copies[n] <= 1 + interrupts
    /\ n \in rows /\ ~ (loop = "wrote" /\ n \in batch) => copies[n] <= interrupts

IInv ==
  /\ TypeOK /\ DrainState /\ BatchIsOldest
  /\ CopiesAreBounded /\ NothingLost /\ InOrder

LEMMA InitInv == Init => IInv
<1> SUFFICES ASSUME Init PROVE IInv
  OBVIOUS
<1>1. TypeOK
  <2>1. registered \in BOOLEAN
    BY Zenon DEF Init
  <2>2. prompts \in 0..MaxPrompts /\ interrupts \in 0..MaxInterrupts
    BY InboxAssumption DEF Init
  <2>3. sent \in [Notes -> {"new", "stored", "done", "refused"}]
    BY DEF Init
  <2>4. copies \in [Notes -> Nat]
    BY DEF Init
  <2> QED
    BY <2>1, <2>2, <2>3, <2>4 DEF Init, TypeOK
<1>2. DrainState /\ BatchIsOldest
  BY DEF Init, DrainState, BatchIsOldest
<1>3. CopiesAreBounded /\ NothingLost /\ InOrder
  BY InboxAssumption DEF Init, CopiesAreBounded, NothingLost, InOrder
<1> QED
  BY <1>1, <1>2, <1>3 DEF IInv

(* The rows that are read are the oldest: fewer rows are older than a row    *)
(* than are older than a later one.                                          *)
LEMMA OldestFirst ==
  ASSUME TypeOK, NEW m \in rows, NEW n \in rows, m < n,
         Cardinality(Older(n)) < MaxDrain
  PROVE  Cardinality(Older(m)) < MaxDrain
<1>1. rows \subseteq Notes /\ IsFiniteSet(Notes) /\ Notes \subseteq Nat
  BY InboxAssumption DEF TypeOK
<1>2. IsFiniteSet(Older(n))
  BY <1>1, FS_Subset DEF Older
<1>3. Older(m) \subseteq Older(n)
  <2>1. ASSUME NEW k \in rows, k < m PROVE k < n
    BY <2>1, <1>1
  <2> QED
    BY <2>1 DEF Older
<1>4. Cardinality(Older(m)) <= Cardinality(Older(n))
  BY <1>2, <1>3, FS_Subset
<1>5. Cardinality(Older(m)) \in Nat /\ Cardinality(Older(n)) \in Nat
  BY <1>2, <1>3, FS_Subset, FS_CardinalityType
<1> QED
  BY <1>4, <1>5, InboxAssumption

(* The types are kept by every action.                                       *)
LEMMA TypeStep == TypeOK /\ [Next]_vars => TypeOK'
<1> SUFFICES ASSUME TypeOK, [Next]_vars PROVE TypeOK'
  OBVIOUS
<1> USE InboxAssumption
<1>1. ASSUME NEW n \in Notes, Send(n) PROVE TypeOK'
  BY <1>1 DEF Send, run, TypeOK
<1>2. ASSUME NEW n \in Notes, Wake(n) PROVE TypeOK'
  BY <1>2 DEF Wake, EnsureRunning, TypeOK
<1>3. ASSUME Register PROVE TypeOK'
  BY <1>3 DEF Register, run, TypeOK
<1>4. ASSUME Prompt PROVE TypeOK'
  BY <1>4 DEF Prompt, EnsureRunning, TypeOK
<1>5. ASSUME DrainNothing PROVE TypeOK'
  BY <1>5 DEF DrainNothing, HasRealMessage, TypeOK
<1>6. ASSUME ReadRows PROVE TypeOK'
  BY <1>6 DEF ReadRows, TypeOK
<1>7. ASSUME WriteMessage PROVE TypeOK'
  BY <1>7 DEF WriteMessage, TypeOK
<1>8. ASSUME DeleteRows PROVE TypeOK'
  BY <1>8 DEF DeleteRows, TypeOK
<1>9. ASSUME Step PROVE TypeOK'
  BY <1>9 DEF Step, TypeOK
<1>10. ASSUME Gates PROVE TypeOK'
  BY <1>10 DEF Gates, TypeOK
<1>11. ASSUME NothingToDo PROVE TypeOK'
  BY <1>11 DEF NothingToDo, TypeOK
<1>12. ASSUME Cancel PROVE TypeOK'
  BY <1>12 DEF Cancel, TypeOK
<1>13. ASSUME Restart PROVE TypeOK'
  <2>1. rows' \subseteq rows /\ expired' \subseteq expired \cup rows
    BY <1>13 DEF Restart
  <2>2. sent' \in [Notes -> {"new", "stored", "done", "refused"}]
    BY <1>13 DEF Restart, TypeOK
  <2>3. interrupts' \in 0..MaxInterrupts
    BY <1>13 DEF Restart, TypeOK
  <2>4. registered' \in BOOLEAN /\ UNCHANGED <<copies, prompts>>
    BY <1>13 DEF Restart, TypeOK
  <2>5. loop' = "idle" /\ batch' = {}
    BY <1>13 DEF Restart
  <2> QED
    BY <2>1, <2>2, <2>3, <2>4, <2>5 DEF TypeOK
<1>14. ASSUME UNCHANGED vars PROVE TypeOK'
  BY <1>14 DEF vars, run, TypeOK
<1> QED
  BY <1>1, <1>2, <1>3, <1>4, <1>5, <1>6, <1>7, <1>8, <1>9, <1>10, <1>11,
     <1>12, <1>13, <1>14 DEF Next

(* The steps of a drain follow one another, and what happens beside them     *)
(* only adds rows.                                                           *)
LEMMA DrainStep == TypeOK /\ DrainState /\ [Next]_vars => DrainState'
<1> SUFFICES ASSUME TypeOK /\ DrainState, [Next]_vars PROVE DrainState'
  OBVIOUS
<1> USE InboxAssumption
<1>1. ASSUME NEW n \in Notes, Send(n) PROVE DrainState'
  BY <1>1 DEF Send, run, TypeOK, DrainState
<1>2. ASSUME NEW n \in Notes, Wake(n) PROVE DrainState'
  BY <1>2 DEF Wake, EnsureRunning, TypeOK, DrainState
<1>3. ASSUME Register PROVE DrainState'
  BY <1>3 DEF Register, run, TypeOK, DrainState
<1>4. ASSUME Prompt PROVE DrainState'
  BY <1>4 DEF Prompt, EnsureRunning, TypeOK, DrainState
<1>5. ASSUME DrainNothing PROVE DrainState'
  BY <1>5 DEF DrainNothing, HasRealMessage, TypeOK, DrainState
<1>6. ASSUME ReadRows PROVE DrainState'
  BY <1>6 DEF ReadRows, TypeOK, DrainState
<1>7. ASSUME WriteMessage PROVE DrainState'
  BY <1>7 DEF WriteMessage, TypeOK, DrainState
<1>8. ASSUME DeleteRows PROVE DrainState'
  BY <1>8 DEF DeleteRows, TypeOK, DrainState
<1>9. ASSUME Step PROVE DrainState'
  BY <1>9 DEF Step, TypeOK, DrainState
<1>10. ASSUME Gates PROVE DrainState'
  BY <1>10 DEF Gates, TypeOK, DrainState
<1>11. ASSUME NothingToDo PROVE DrainState'
  BY <1>11 DEF NothingToDo, TypeOK, DrainState
<1>12. ASSUME Cancel PROVE DrainState'
  BY <1>12 DEF Cancel, TypeOK, DrainState
<1>13. ASSUME Restart PROVE DrainState'
  BY <1>13 DEF Restart, TypeOK, DrainState
<1>14. ASSUME UNCHANGED vars PROVE DrainState'
  BY <1>14 DEF vars, run, TypeOK, DrainState
<1> QED
  BY <1>1, <1>2, <1>3, <1>4, <1>5, <1>6, <1>7, <1>8, <1>9, <1>10, <1>11,
     <1>12, <1>13, <1>14 DEF Next

(* A note that is sent while a batch is written is not older than the batch. *)
LEMMA BatchStep == IInv /\ [Next]_vars => BatchIsOldest'
<1> SUFFICES ASSUME IInv, [Next]_vars PROVE BatchIsOldest'
  OBVIOUS
<1> USE InboxAssumption
<1>1. ASSUME NEW n \in Notes, Send(n) PROVE BatchIsOldest'
  <2>1. UNCHANGED batch /\ rows' \subseteq rows \cup {n}
    BY <1>1 DEF Send, run
  <2>2. \A k \in batch : ~ Time[n] < Time[k]
    BY <1>1 DEF Send, IInv, TypeOK, DrainState
  <2> QED
    BY <2>1, <2>2 DEF IInv, BatchIsOldest
<1>2. ASSUME NEW n \in Notes, Wake(n) PROVE BatchIsOldest'
  BY <1>2 DEF Wake, EnsureRunning, IInv, TypeOK, DrainState,
     BatchIsOldest
<1>3. ASSUME Register PROVE BatchIsOldest'
  BY <1>3 DEF Register, run, IInv, TypeOK, DrainState,
     BatchIsOldest
<1>4. ASSUME Prompt PROVE BatchIsOldest'
  BY <1>4 DEF Prompt, EnsureRunning, IInv, TypeOK, DrainState,
     BatchIsOldest
<1>5. ASSUME DrainNothing PROVE BatchIsOldest'
  BY <1>5 DEF DrainNothing, HasRealMessage, IInv, TypeOK, DrainState, BatchIsOldest
<1>6. ASSUME ReadRows PROVE BatchIsOldest'
  <2>1. batch' \subseteq rows /\ rows' = rows
    BY <1>6 DEF ReadRows
  <2>2. ASSUME NEW n \in batch', NEW m \in rows, Time[m] < Time[n]
        PROVE  m \in batch'
    <3>1. n \in rows /\ Cardinality(Older(n)) < MaxDrain
      BY <1>6, <2>2 DEF ReadRows
    <3>2. m < n
      BY <3>1, <2>2, InboxAssumption DEF IInv, TypeOK
    <3>3. Cardinality(Older(m)) < MaxDrain
      BY <3>1, <3>2, OldestFirst DEF IInv
    <3> QED
      BY <3>3, <1>6 DEF ReadRows
  <2> QED
    BY <2>1, <2>2 DEF BatchIsOldest
<1>7. ASSUME WriteMessage PROVE BatchIsOldest'
  BY <1>7 DEF WriteMessage, IInv, TypeOK, DrainState,
     BatchIsOldest
<1>8. ASSUME DeleteRows PROVE BatchIsOldest'
  BY <1>8 DEF DeleteRows, IInv, TypeOK, DrainState, BatchIsOldest
<1>9. ASSUME Step PROVE BatchIsOldest'
  BY <1>9 DEF Step, IInv, TypeOK, DrainState, BatchIsOldest
<1>10. ASSUME Gates PROVE BatchIsOldest'
  BY <1>10 DEF Gates, IInv, TypeOK, DrainState, BatchIsOldest
<1>11. ASSUME NothingToDo PROVE BatchIsOldest'
  BY <1>11 DEF NothingToDo, IInv, TypeOK, DrainState,
     BatchIsOldest
<1>12. ASSUME Cancel PROVE BatchIsOldest'
  BY <1>12 DEF Cancel, IInv, TypeOK, DrainState, BatchIsOldest
<1>13. ASSUME Restart PROVE BatchIsOldest'
  BY <1>13 DEF Restart, IInv, TypeOK, DrainState, BatchIsOldest
<1>14. ASSUME UNCHANGED vars PROVE BatchIsOldest'
  BY <1>14 DEF vars, run, IInv, TypeOK, DrainState, BatchIsOldest
<1> QED
  BY <1>1, <1>2, <1>3, <1>4, <1>5, <1>6, <1>7, <1>8, <1>9, <1>10, <1>11,
     <1>12, <1>13, <1>14 DEF Next

(* A second copy needs an interruption since the first.                      *)
LEMMA CopiesStep == IInv /\ [Next]_vars => CopiesAreBounded'
<1> SUFFICES ASSUME IInv, [Next]_vars PROVE CopiesAreBounded'
  OBVIOUS
<1> USE InboxAssumption
<1>1. ASSUME NEW n \in Notes, Send(n) PROVE CopiesAreBounded'
  BY <1>1 DEF Send, run, IInv, TypeOK, DrainState, CopiesAreBounded
<1>2. ASSUME NEW n \in Notes, Wake(n) PROVE CopiesAreBounded'
  BY <1>2 DEF Wake, EnsureRunning, IInv, TypeOK, DrainState, CopiesAreBounded
<1>3. ASSUME Register PROVE CopiesAreBounded'
  BY <1>3 DEF Register, run, IInv, TypeOK, DrainState, CopiesAreBounded
<1>4. ASSUME Prompt PROVE CopiesAreBounded'
  BY <1>4 DEF Prompt, EnsureRunning, IInv, TypeOK, DrainState, CopiesAreBounded
<1>5. ASSUME DrainNothing PROVE CopiesAreBounded'
  BY <1>5 DEF DrainNothing, HasRealMessage, IInv, TypeOK, DrainState,
     CopiesAreBounded
<1>6. ASSUME ReadRows PROVE CopiesAreBounded'
  BY <1>6 DEF ReadRows, IInv, TypeOK, DrainState, CopiesAreBounded
<1>7. ASSUME WriteMessage PROVE CopiesAreBounded'
  BY <1>7 DEF WriteMessage, IInv, TypeOK, DrainState, CopiesAreBounded
<1>8. ASSUME DeleteRows PROVE CopiesAreBounded'
  BY <1>8 DEF DeleteRows, IInv, TypeOK, DrainState, CopiesAreBounded
<1>9. ASSUME Step PROVE CopiesAreBounded'
  BY <1>9 DEF Step, IInv, TypeOK, DrainState, CopiesAreBounded
<1>10. ASSUME Gates PROVE CopiesAreBounded'
  BY <1>10 DEF Gates, IInv, TypeOK, DrainState, CopiesAreBounded
<1>11. ASSUME NothingToDo PROVE CopiesAreBounded'
  BY <1>11 DEF NothingToDo, IInv, TypeOK, DrainState, CopiesAreBounded
<1>12. ASSUME Cancel PROVE CopiesAreBounded'
  BY <1>12 DEF Cancel, IInv, TypeOK, DrainState, CopiesAreBounded
<1>13. ASSUME Restart PROVE CopiesAreBounded'
  BY <1>13 DEF Restart, IInv, TypeOK, DrainState, CopiesAreBounded
<1>14. ASSUME UNCHANGED vars PROVE CopiesAreBounded'
  BY <1>14 DEF vars, run, IInv, TypeOK, DrainState, CopiesAreBounded
<1> QED
  BY <1>1, <1>2, <1>3, <1>4, <1>5, <1>6, <1>7, <1>8, <1>9, <1>10, <1>11,
     <1>12, <1>13, <1>14 DEF Next

(* What is deleted has been written.                                         *)
LEMMA LostStep == IInv /\ [Next]_vars => NothingLost'
<1> SUFFICES ASSUME IInv, [Next]_vars PROVE NothingLost'
  OBVIOUS
<1> USE InboxAssumption
<1>1. ASSUME NEW n \in Notes, Send(n) PROVE NothingLost'
  BY <1>1 DEF Send, run, IInv, TypeOK, DrainState, NothingLost
<1>2. ASSUME NEW n \in Notes, Wake(n) PROVE NothingLost'
  BY <1>2 DEF Wake, EnsureRunning, IInv, TypeOK, DrainState, NothingLost
<1>3. ASSUME Register PROVE NothingLost'
  BY <1>3 DEF Register, run, IInv, TypeOK, DrainState, NothingLost
<1>4. ASSUME Prompt PROVE NothingLost'
  BY <1>4 DEF Prompt, EnsureRunning, IInv, TypeOK, DrainState, NothingLost
<1>5. ASSUME DrainNothing PROVE NothingLost'
  BY <1>5 DEF DrainNothing, HasRealMessage, IInv, TypeOK, DrainState,
     NothingLost
<1>6. ASSUME ReadRows PROVE NothingLost'
  BY <1>6 DEF ReadRows, IInv, TypeOK, DrainState, NothingLost
<1>7. ASSUME WriteMessage PROVE NothingLost'
  BY <1>7 DEF WriteMessage, IInv, TypeOK, DrainState, NothingLost
<1>8. ASSUME DeleteRows PROVE NothingLost'
  BY <1>8 DEF DeleteRows, IInv, TypeOK, DrainState, NothingLost
<1>9. ASSUME Step PROVE NothingLost'
  BY <1>9 DEF Step, IInv, TypeOK, DrainState, NothingLost
<1>10. ASSUME Gates PROVE NothingLost'
  BY <1>10 DEF Gates, IInv, TypeOK, DrainState, NothingLost
<1>11. ASSUME NothingToDo PROVE NothingLost'
  BY <1>11 DEF NothingToDo, IInv, TypeOK, DrainState, NothingLost
<1>12. ASSUME Cancel PROVE NothingLost'
  BY <1>12 DEF Cancel, IInv, TypeOK, DrainState, NothingLost
<1>13. ASSUME Restart PROVE NothingLost'
  BY <1>13 DEF Restart, IInv, TypeOK, DrainState, NothingLost
<1>14. ASSUME UNCHANGED vars PROVE NothingLost'
  BY <1>14 DEF vars, run, IInv, TypeOK, DrainState, NothingLost
<1> QED
  BY <1>1, <1>2, <1>3, <1>4, <1>5, <1>6, <1>7, <1>8, <1>9, <1>10, <1>11,
     <1>12, <1>13, <1>14 DEF Next

(* A row of an earlier millisecond is in the batch that is written.          *)
LEMMA OrderStep == IInv /\ [Next]_vars => InOrder'
<1> SUFFICES ASSUME IInv, [Next]_vars PROVE InOrder'
  OBVIOUS
<1> USE InboxAssumption
<1>1. ASSUME NEW n \in Notes, Send(n) PROVE InOrder'
  BY <1>1 DEF Send, run, IInv, TypeOK, DrainState, BatchIsOldest,
     CopiesAreBounded, NothingLost, InOrder
<1>2. ASSUME NEW n \in Notes, Wake(n) PROVE InOrder'
  BY <1>2 DEF Wake, EnsureRunning, IInv, TypeOK, DrainState,
     BatchIsOldest, CopiesAreBounded, NothingLost, InOrder
<1>3. ASSUME Register PROVE InOrder'
  BY <1>3 DEF Register, run, IInv, TypeOK, DrainState,
     BatchIsOldest, CopiesAreBounded, NothingLost, InOrder
<1>4. ASSUME Prompt PROVE InOrder'
  BY <1>4 DEF Prompt, EnsureRunning, IInv, TypeOK, DrainState,
     BatchIsOldest, CopiesAreBounded, NothingLost, InOrder
<1>5. ASSUME DrainNothing PROVE InOrder'
  BY <1>5 DEF DrainNothing, HasRealMessage, IInv, TypeOK, DrainState, BatchIsOldest, CopiesAreBounded, NothingLost, InOrder
<1>6. ASSUME ReadRows PROVE InOrder'
  BY <1>6 DEF ReadRows, IInv, TypeOK, DrainState, BatchIsOldest,
     CopiesAreBounded, NothingLost, InOrder
<1>7. ASSUME WriteMessage PROVE InOrder'
  BY <1>7 DEF WriteMessage, IInv, TypeOK, DrainState,
     BatchIsOldest, CopiesAreBounded, NothingLost, InOrder
<1>8. ASSUME DeleteRows PROVE InOrder'
  BY <1>8 DEF DeleteRows, IInv, TypeOK, DrainState,
     BatchIsOldest, CopiesAreBounded, NothingLost, InOrder
<1>9. ASSUME Step PROVE InOrder'
  BY <1>9 DEF Step, IInv, TypeOK, DrainState, BatchIsOldest,
     CopiesAreBounded, NothingLost, InOrder
<1>10. ASSUME Gates PROVE InOrder'
  BY <1>10 DEF Gates, IInv, TypeOK, DrainState, BatchIsOldest,
     CopiesAreBounded, NothingLost, InOrder
<1>11. ASSUME NothingToDo PROVE InOrder'
  BY <1>11 DEF NothingToDo, IInv, TypeOK, DrainState,
     BatchIsOldest, CopiesAreBounded, NothingLost, InOrder
<1>12. ASSUME Cancel PROVE InOrder'
  BY <1>12 DEF Cancel, IInv, TypeOK, DrainState, BatchIsOldest,
     CopiesAreBounded, NothingLost, InOrder
<1>13. ASSUME Restart PROVE InOrder'
  BY <1>13 DEF Restart, IInv, TypeOK, DrainState, BatchIsOldest,
     CopiesAreBounded, NothingLost, InOrder
<1>14. ASSUME UNCHANGED vars PROVE InOrder'
  BY <1>14 DEF vars, run, IInv, TypeOK, DrainState,
     BatchIsOldest, CopiesAreBounded, NothingLost, InOrder
<1> QED
  BY <1>1, <1>2, <1>3, <1>4, <1>5, <1>6, <1>7, <1>8, <1>9, <1>10, <1>11,
     <1>12, <1>13, <1>14 DEF Next

LEMMA Invariance == Spec => []IInv
<1>1. IInv /\ [Next]_vars => IInv'
  BY TypeStep, DrainStep, BatchStep, CopiesStep, LostStep,
     OrderStep DEF IInv
<1> QED
  BY <1>1, InitInv, PTL DEF Spec

(* Every variable of Inbox keeps to its type.                                *)
THEOREM TypeCorrect == Spec => []TypeOK
BY Invariance, PTL DEF IInv

(* A note that send has stored is a row or in the transcript, for any number *)
(* of notes and of cancelled runs and restarts.                              *)
THEOREM NoNoteIsLost == Spec => []NothingLost
BY Invariance, PTL DEF IInv

(* A note has no more copies in the transcript than one, plus one for each   *)
(* run that was cut off.                                                     *)
THEOREM CopiesNeedInterrupts == Spec => []OnceUnlessInterrupted
<1>1. IInv => OnceUnlessInterrupted
  BY DEF IInv, CopiesAreBounded, OnceUnlessInterrupted
<1> QED
  BY <1>1, Invariance, PTL

(* A note is not overtaken by one of a later millisecond, for any ids within *)
(* the milliseconds and any size of the batch.                               *)
THEOREM NotesComeInOrder == Spec => []InOrder
BY Invariance, PTL DEF IInv

-----------------------------------------------------------------------------
(* What FirstRowsAreDrained needs besides fairness.                          *)

(* What may be sorted before a row only becomes less: a note that is sent    *)
(* now and has a smaller id is of the row's millisecond.                     *)
LEMMA FewerPrecede ==
  ASSUME IInv, [Next]_vars, NEW n \in rows
  PROVE  MayPrecede(n)' \subseteq MayPrecede(n)
<1> SUFFICES ASSUME NEW m \in MayPrecede(n)' PROVE m \in MayPrecede(n)
  OBVIOUS
<1>1. /\ m \in Notes /\ n \in Notes /\ m < n /\ sent[n] # "new"
      /\ m \in rows' \/ (sent'[m] = "new" /\ Time[m] = Time[n])
  BY DEF MayPrecede, IInv, TypeOK, DrainState
<1>2. rows' \subseteq rows \/ \E k \in Notes : Send(k) /\ rows' \subseteq rows \cup {k}
  BY DEF Next, vars, run, Send, Wake, Register, Prompt, DrainNothing, ReadRows,
     WriteMessage, DeleteRows, Step, Gates, NothingToDo, Cancel, Restart
<1>3. sent'[m] = "new" => sent[m] = "new"
  BY <1>1 DEF Next, vars, run, Send, Wake, Register, Prompt, DrainNothing, ReadRows,
     WriteMessage, DeleteRows, Step, Gates, NothingToDo, Cancel, Restart, IInv, TypeOK
<1>4. ASSUME Send(m) PROVE sent[m] = "new" /\ Time[m] = Time[n]
  BY <1>1, <1>4, InboxAssumption DEF Send
<1> QED
  BY <1>1, <1>2, <1>3, <1>4 DEF MayPrecede

LEMMA ReachIsKept ==
  ASSUME IInv, [Next]_vars, NEW n \in rows, InReach(n), n \in rows'
  PROVE  InReach(n)'
<1>1. IsFiniteSet(MayPrecede(n))
  BY InboxAssumption, FS_Subset DEF MayPrecede
<1>2. /\ Cardinality(MayPrecede(n)') <= Cardinality(MayPrecede(n))
      /\ IsFiniteSet(MayPrecede(n)')
  BY <1>1, FewerPrecede, FS_Subset
<1>3. Cardinality(MayPrecede(n)) \in Nat /\ Cardinality(MayPrecede(n)') \in Nat
  BY <1>1, <1>2, FS_CardinalityType
<1> QED
  BY <1>2, <1>3, InboxAssumption DEF InReach

(* The batch that is read has every row in reach.                            *)
LEMMA ReadTakesReach ==
  ASSUME IInv, ReadRows, NEW n \in rows, InReach(n)
  PROVE  n \in batch'
<1>1. Older(n) \subseteq MayPrecede(n) /\ IsFiniteSet(MayPrecede(n))
  BY InboxAssumption, FS_Subset DEF Older, MayPrecede, IInv, TypeOK
<1>2. Cardinality(Older(n)) <= Cardinality(MayPrecede(n)) /\ IsFiniteSet(Older(n))
  BY <1>1, FS_Subset
<1>3. Cardinality(Older(n)) \in Nat /\ Cardinality(MayPrecede(n)) \in Nat
  BY <1>1, <1>2, FS_CardinalityType
<1>4. Cardinality(Older(n)) < MaxDrain
  BY <1>2, <1>3, InboxAssumption DEF InReach
<1> QED
  BY <1>4 DEF ReadRows

(* At the top of a run a row in reach stays so until the drain reads it, and *)
(* what was read stays in the batch until it is in the transcript, unless    *)
(* the run is cut off.                                                       *)
RowsInReachAreTaken ==
  \A n \in Notes :
    /\ InReach(n) /\ loop = "top" /\ HasRealMessage =>
         \/ InReach(n)' /\ loop' = "top" /\ HasRealMessage'
         \/ n \in batch'
         \/ interrupts' > interrupts
    /\ n \in batch =>
         n \in batch' \/ copies'[n] > 0 \/ interrupts' > interrupts

LEMMA TakenStep == IInv /\ [Next]_vars => RowsInReachAreTaken
<1> SUFFICES ASSUME IInv, [Next]_vars, NEW n \in Notes
             PROVE  /\ InReach(n) /\ loop = "top" /\ HasRealMessage =>
                         \/ InReach(n)' /\ loop' = "top" /\ HasRealMessage'
                         \/ n \in batch'
                         \/ interrupts' > interrupts
                    /\ n \in batch =>
                         n \in batch' \/ copies'[n] > 0 \/ interrupts' > interrupts
  BY DEF RowsInReachAreTaken
<1>1. ASSUME InReach(n), loop = "top", HasRealMessage
      PROVE  \/ InReach(n)' /\ loop' = "top" /\ HasRealMessage'
             \/ n \in batch'
             \/ interrupts' > interrupts
  <2>1. n \in rows
    BY <1>1 DEF InReach
  <2>2. CASE ReadRows
    BY <1>1, <2>1, <2>2, ReadTakesReach
  <2>3. CASE Cancel \/ Restart
    BY <2>3 DEF Cancel, Restart, IInv, TypeOK
  <2>4. CASE \E k \in Notes : Send(k) \/ Wake(k)
    <3>1. n \in rows' /\ loop' = "top" /\ prompts' = prompts
      BY <1>1, <2>1, <2>4 DEF Send, Wake, EnsureRunning, run
    <3> QED
      BY <1>1, <2>1, <3>1, ReachIsKept DEF HasRealMessage
  <2>5. CASE Register \/ Prompt \/ UNCHANGED vars
    <3>1. n \in rows' /\ loop' = "top" /\ prompts' \in {prompts, prompts + 1}
      BY <1>1, <2>1, <2>5 DEF Register, Prompt, EnsureRunning, vars, run
    <3>2. HasRealMessage'
      BY <1>1, <3>1 DEF HasRealMessage, IInv, TypeOK
    <3> QED
      BY <1>1, <2>1, <3>1, <3>2, ReachIsKept
  <2>6. CASE DrainNothing \/ WriteMessage \/ DeleteRows \/ Step \/ Gates \/ NothingToDo
    BY <1>1, <2>1, <2>6 DEF DrainNothing, WriteMessage, DeleteRows, Step, Gates, NothingToDo
  <2> QED
    BY <2>2, <2>3, <2>4, <2>5, <2>6 DEF Next
<1>2. ASSUME n \in batch
      PROVE  n \in batch' \/ copies'[n] > 0 \/ interrupts' > interrupts
  <2>1. loop \in {"read", "wrote"}
    BY <1>2 DEF IInv, DrainState
  <2>2. CASE DeleteRows
    BY <1>2, <2>2 DEF DeleteRows, IInv, DrainState
  <2>3. CASE Cancel \/ Restart
    BY <2>3 DEF Cancel, Restart, IInv, TypeOK
  <2>4. CASE UNCHANGED batch
    BY <1>2, <2>4
  <2> QED
    BY <2>1, <2>2, <2>3, <2>4 DEF Next, Send, Wake, Register, Prompt, DrainNothing,
       ReadRows, WriteMessage, Step, Gates, NothingToDo, vars, run
<1> QED
  BY <1>1, <1>2

(* A drain takes every row that is within its limit whatever is sent while   *)
(* it begins, and writes what it took: with fairness of the drain's steps    *)
(* this is FirstRowsAreDrained.                                              *)
THEOREM DrainsTakeRowsInReach == Spec => [][RowsInReachAreTaken]_vars
BY Invariance, TakenStep, PTL DEF Spec

-----------------------------------------------------------------------------
(* The refinement.  An action of a drain is the action of the queue it is    *)
(* named for below, and every other action of a run is a stuttering step.    *)
Accepted == {n \in Notes : sent[n] \in {"stored", "done"}}
InFlight == IF loop = "wrote" THEN batch ELSE {}

(* Steps that touch neither rows nor transcript, outside the stretch between *)
(* write and deletion, are hidden from the queue.                            *)
LEMMA HiddenStep ==
  ASSUME UNCHANGED <<rows, copies, expired>>, Accepted' = Accepted, InFlight' = InFlight
  PROVE  UNCHANGED Queue!vars
  BY DEF Queue!vars, Accepted, InFlight

LEMMA QueueInit == Init => Queue!Init
  BY DEF Init, Queue!Init

(* A new note is not older than those accepted before it.                    *)
LEMMA SendAccepts ==
  ASSUME IInv, NEW n \in Notes, Send(n)
  PROVE  [Queue!Next]_(Queue!vars)
<1>1. UNCHANGED <<copies, expired, loop, batch>>
  BY DEF Send, run
<1>2. CASE registered
  <2>1. sent' = [sent EXCEPT ![n] = "stored"] /\ rows' = rows \cup {n}
    BY <1>2 DEF Send
  <2>2. Accepted' = Accepted \cup {n}
    BY <2>1 DEF IInv, TypeOK, Accepted
  <2>3. n \notin Accepted /\ \A m \in Accepted : Time[m] <= Time[n]
    BY DEF Accepted, Send
  <2>4. Queue!Accept(n)
    BY <1>1, <2>1, <2>2, <2>3 DEF Queue!Accept, Accepted
  <2> QED
    BY <2>4 DEF Queue!Next
<1>3. CASE ~ registered
  <2>1. sent' = [sent EXCEPT ![n] = "refused"] /\ UNCHANGED rows /\ sent[n] = "new"
    BY <1>3 DEF Send
  <2>2. Accepted' = Accepted /\ InFlight' = InFlight
    BY <1>1, <2>1 DEF IInv, TypeOK, Accepted, InFlight
  <2> QED
    BY <1>1, <2>1, <2>2, HiddenStep
<1> QED
  BY <1>2, <1>3

(* What is written is a batch that leaves out no older row.                  *)
LEMMA WriteDelivers ==
  ASSUME IInv, WriteMessage
  PROVE  [Queue!Next]_(Queue!vars)
<1>1. /\ InFlight = {} /\ InFlight' = batch
      /\ UNCHANGED <<rows, expired>> /\ Accepted' = Accepted
  BY DEF WriteMessage, InFlight, Accepted
<1>2. CASE batch = {}
  <2>1. copies' = copies
    BY <1>2 DEF WriteMessage, IInv, TypeOK
  <2> QED
    BY <1>1, <1>2, <2>1, HiddenStep
<1>3. CASE batch # {}
  <2>1. batch \in SUBSET Notes
    BY DEF IInv, TypeOK
  <2>2. Queue!Oldest(batch)
    BY DEF Queue!Oldest, IInv, DrainState, BatchIsOldest
  <2>3. Queue!Deliver(batch)
    BY <1>1, <1>3, <2>2 DEF Queue!Deliver, WriteMessage, InFlight, Accepted
  <2> QED
    BY <2>1, <2>3 DEF Queue!Next
<1> QED
  BY <1>2, <1>3

LEMMA DeleteAcknowledges ==
  ASSUME IInv, DeleteRows
  PROVE  [Queue!Next]_(Queue!vars)
<1>1. /\ InFlight = batch /\ InFlight' = {} /\ rows' = rows \ batch
      /\ UNCHANGED <<copies, expired>> /\ Accepted' = Accepted
  BY DEF DeleteRows, InFlight, Accepted
<1>2. CASE batch = {}
  BY <1>1, <1>2, HiddenStep
<1>3. CASE batch # {}
  <2>1. Queue!Acknowledge
    BY <1>1, <1>3 DEF Queue!Acknowledge, InFlight, Accepted
  <2> QED
    BY <2>1 DEF Queue!Next
<1> QED
  BY <1>2, <1>3

(* The rows that are too old for a restart are the oldest.                   *)
LEMMA RestartDrops ==
  ASSUME IInv, Restart
  PROVE  [Queue!Next]_(Queue!vars)
<1>1. PICK old \in SUBSET rows :
        /\ \A n \in old, m \in rows : Time[m] < Time[n] => m \in old
        /\ rows' = rows \ old /\ expired' = expired \cup old
  BY DEF Restart
<1>2. Accepted' = Accepted
  BY DEF Restart, IInv, TypeOK, Accepted
<1>3. InFlight' = {} /\ UNCHANGED copies
  BY DEF Restart, InFlight
<1>4. old \in SUBSET Notes
  BY <1>1 DEF IInv, TypeOK
<1>5. Queue!StartAgain(old)
  BY <1>1, <1>2, <1>3 DEF Queue!StartAgain, Queue!Oldest, InFlight, Accepted
<1> QED
  BY <1>4, <1>5 DEF Queue!Next

LEMMA CancelCutsOff ==
  ASSUME Cancel
  PROVE  [Queue!Next]_(Queue!vars)
<1>1. Queue!CutOff
  BY DEF Cancel, Queue!CutOff
<1> QED
  BY <1>1 DEF Queue!Next

LEMMA QueueStep == IInv /\ [Next]_vars => [Queue!Next]_(Queue!vars)
<1> SUFFICES ASSUME IInv, [Next]_vars PROVE [Queue!Next]_(Queue!vars)
  OBVIOUS
<1>1. ASSUME NEW n \in Notes, Send(n) PROVE [Queue!Next]_(Queue!vars)
  BY <1>1, SendAccepts
<1>2. ASSUME NEW n \in Notes, Wake(n) PROVE [Queue!Next]_(Queue!vars)
  <2>1. Accepted' = Accepted
    BY <1>2 DEF Wake, IInv, TypeOK, Accepted
  <2>2. InFlight' = InFlight
    BY <1>2 DEF Wake, EnsureRunning, InFlight
  <2> QED
    BY <1>2, <2>1, <2>2, HiddenStep DEF Wake
<1>3. ASSUME Prompt PROVE [Queue!Next]_(Queue!vars)
  <2>1. Accepted' = Accepted /\ InFlight' = InFlight
    BY <1>3 DEF Prompt, EnsureRunning, Accepted, InFlight
  <2> QED
    BY <1>3, <2>1, HiddenStep DEF Prompt
<1>4. ASSUME Register PROVE [Queue!Next]_(Queue!vars)
  BY <1>4, HiddenStep DEF Register, run, Accepted, InFlight
<1>5. ASSUME DrainNothing \/ ReadRows PROVE [Queue!Next]_(Queue!vars)
  BY <1>5, HiddenStep DEF DrainNothing, ReadRows, Accepted, InFlight
<1>6. ASSUME Step \/ Gates \/ NothingToDo PROVE [Queue!Next]_(Queue!vars)
  BY <1>6, HiddenStep DEF Step, Gates, NothingToDo, Accepted, InFlight
<1>7. ASSUME UNCHANGED vars PROVE [Queue!Next]_(Queue!vars)
  BY <1>7, HiddenStep DEF vars, run, Accepted, InFlight
<1> QED
  BY <1>1, <1>2, <1>3, <1>4, <1>5, <1>6, <1>7, WriteDelivers, DeleteAcknowledges,
     CancelCutsOff, RestartDrops DEF Next

(* The inbox, with its three transactions, cancelled runs and restarts,      *)
(* implements a durable queue that delivers the oldest notes together, again *)
(* only after it was cut off, and deletes what it delivered.                 *)
THEOREM InboxIsDurableQueue == Spec => ImplementsDurableQueue
<1>1. []IInv /\ [][Next]_vars => [][Queue!Next]_(Queue!vars)
  BY QueueStep, PTL
<1> QED
  BY <1>1, QueueInit, Invariance, PTL DEF Spec, ImplementsDurableQueue, Queue!Spec
===============================================================================
