---------------------------- MODULE AdmissionProofs ----------------------------
(* Proofs about Admission, for any threads, priorities and cap: the cap, the *)
(* order, and that the gate never shuts.                                     *)
EXTENDS Admission, FiniteSetTheorems, WellFoundedInduction, TLAPS

(***************************************************************************)
(* The invariant.  A thread has a depth exactly while it holds a slot, and *)
(* no two callers that wait have the same ticket, nor one that a caller    *)
(* has still to get.                                                       *)
(***************************************************************************)
DepthIsHeld == \A t \in Threads : depth[t] > 0 <=> at[t] = "held"

TicketsDiffer ==
  \A t \in Threads : Waiting(t) =>
    /\ entry[t].ticket < nextTicket
    /\ \A u \in Threads : Waiting(u) /\ u # t => entry[u].ticket # entry[t].ticket

QueueEntries == queue = {entry[t] : t \in {u \in Threads : Waiting(u)}}

QueueCounted == IsFiniteSet(queue) /\ waiting = Cardinality(queue)

IInv ==
  /\ TypeOK /\ DepthIsHeld /\ TicketsDiffer
  /\ QueueEntries /\ QueueCounted /\ CapHolds

LEMMA InitInv == Init => IInv
<1> SUFFICES ASSUME Init PROVE IInv
  OBVIOUS
<1>1. FlagTypes
  BY DEF Init, FlagTypes
<1>2. GateTypes
  BY AdmissionAssumption DEF Init, GateTypes, Entries, NoEntry, Places
<1>3. DepthIsHeld /\ TicketsDiffer
  BY DEF Init, DepthIsHeld, TicketsDiffer, Waiting
<1>4. QueueEntries /\ QueueCounted
  BY FS_EmptySet DEF Init, QueueEntries, QueueCounted, Waiting
<1>5. CapHolds
  <2>1. Holders = {}
    BY DEF Init, Holders
  <2> QED
    BY <2>1, FS_EmptySet, AdmissionAssumption DEF Init, CapHolds
<1> QED
  BY <1>1, <1>2, <1>3, <1>4, <1>5 DEF IInv, TypeOK

(* The types are kept by every action.                                       *)
LEMMA FlagStep == FlagTypes /\ [Next]_vars => FlagTypes'
<1> SUFFICES ASSUME FlagTypes, [Next]_vars PROVE FlagTypes'
  OBVIOUS
<1> USE AdmissionAssumption
<1>1. ASSUME NEW t \in Threads, NEW r \in Ranks, Acquire(t, r) PROVE FlagTypes'
  BY <1>1 DEF Acquire, Pass, Serve, FlagTypes
<1>2. ASSUME NEW t \in Threads, AcquireAgain(t) PROVE FlagTypes'
  BY <1>2 DEF AcquireAgain, request, gate, FlagTypes
<1>3. ASSUME NEW t \in Threads, Wake(t) PROVE FlagTypes'
  BY <1>3 DEF Wake, gate, FlagTypes
<1>4. ASSUME NEW t \in Threads, Block(t) PROVE FlagTypes'
  BY <1>4 DEF Block, gate, FlagTypes
<1>5. ASSUME NEW t \in Threads, Unblock(t) PROVE FlagTypes'
  BY <1>5 DEF Unblock, gate, FlagTypes
<1>6. ASSUME NEW t \in Threads, Expire(t) PROVE FlagTypes'
  BY <1>6 DEF Expire, gate, FlagTypes
<1>7. ASSUME NEW t \in Threads, Look(t) PROVE FlagTypes'
  BY <1>7 DEF Look, Proceed, FailOpen, KeepWaiting, Pass, Serve, Leave,
     FlagTypes
<1>8. ASSUME NEW t \in Threads, Release(t) PROVE FlagTypes'
  BY <1>8 DEF Release, FlagTypes
<1>9. ASSUME NEW t \in Threads, ReleaseInner(t) PROVE FlagTypes'
  BY <1>9 DEF ReleaseInner, request, gate, FlagTypes
<1>10. ASSUME UNCHANGED vars PROVE FlagTypes'
  BY <1>10 DEF vars, request, gate, FlagTypes
<1> QED
  BY <1>1, <1>2, <1>3, <1>4, <1>5, <1>6, <1>7, <1>8, <1>9, <1>10 DEF Next

LEMMA GateStep == GateTypes /\ TicketsDiffer /\ [Next]_vars => GateTypes'
<1> SUFFICES ASSUME GateTypes /\ TicketsDiffer, [Next]_vars PROVE GateTypes'
  OBVIOUS
<1> USE AdmissionAssumption
<1>1. ASSUME NEW t \in Threads, NEW r \in Ranks, Acquire(t, r) PROVE GateTypes'
  BY <1>1 DEF Acquire, Pass, Serve, GateTypes, Entries, NoEntry, Places
<1>2. ASSUME NEW t \in Threads, AcquireAgain(t) PROVE GateTypes'
  BY <1>2 DEF AcquireAgain, request, gate, GateTypes, Entries, NoEntry, Places
<1>3. ASSUME NEW t \in Threads, Wake(t) PROVE GateTypes'
  BY <1>3 DEF Wake, gate, GateTypes, Entries, NoEntry, Places
<1>4. ASSUME NEW t \in Threads, Block(t) PROVE GateTypes'
  BY <1>4 DEF Block, gate, GateTypes, Entries, NoEntry, Places
<1>5. ASSUME NEW t \in Threads, Unblock(t) PROVE GateTypes'
  BY <1>5 DEF Unblock, gate, GateTypes, Entries, NoEntry, Places
<1>6. ASSUME NEW t \in Threads, Expire(t) PROVE GateTypes'
  BY <1>6 DEF Expire, gate, GateTypes, Entries, NoEntry, Places
<1>7. ASSUME NEW t \in Threads, Look(t) PROVE GateTypes'
  <2>1. entry[t] \in Entries /\ entry[t].ticket + 1 \in 0..MaxTickets
    BY <1>7 DEF Look, GateTypes, TicketsDiffer, Waiting, Entries
  <2>2. UNCHANGED <<entry, nextTicket>>
    BY <1>7 DEF Look
  <2>3. CASE Proceed(t)
    BY <1>7, <2>1, <2>2, <2>3 DEF Proceed, Pass, Serve, Leave, GateTypes,
       Places, Entries
  <2>4. CASE FailOpen(t)
    BY <1>7, <2>1, <2>2, <2>4 DEF FailOpen, Serve, Leave, GateTypes, Places,
       Entries
  <2>5. CASE KeepWaiting(t)
    BY <1>7, <2>2, <2>5 DEF KeepWaiting, GateTypes, Places
  <2> QED
    BY <1>7, <2>3, <2>4, <2>5 DEF Look
<1>8. ASSUME NEW t \in Threads, Release(t) PROVE GateTypes'
  <2>1. at' \in [Threads -> Places]
    BY <1>8 DEF Release, GateTypes, Places
  <2>2. entry' \in [Threads -> Entries]
    BY <1>8 DEF Release, GateTypes, Entries, NoEntry
  <2>3. depth' \in [Threads -> 0..MaxDepth]
    BY <1>8 DEF Release, GateTypes
  <2>4. active' \in Int
    BY <1>8 DEF Release, GateTypes
  <2> QED
    BY <1>8, <2>1, <2>2, <2>3, <2>4 DEF Release, GateTypes
<1>9. ASSUME NEW t \in Threads, ReleaseInner(t) PROVE GateTypes'
  BY <1>9 DEF ReleaseInner, request, gate, GateTypes, Entries, NoEntry, Places
<1>10. ASSUME UNCHANGED vars PROVE GateTypes'
  BY <1>10 DEF vars, request, gate, GateTypes, Entries, NoEntry, Places
<1> QED
  BY <1>1, <1>2, <1>3, <1>4, <1>5, <1>6, <1>7, <1>8, <1>9, <1>10 DEF Next

(* A thread gets a depth with its slot and loses both together.              *)
LEMMA DepthStep == GateTypes /\ DepthIsHeld /\ [Next]_vars => DepthIsHeld'
<1> SUFFICES ASSUME GateTypes /\ DepthIsHeld, [Next]_vars PROVE DepthIsHeld'
  OBVIOUS
<1> USE AdmissionAssumption
<1>1. ASSUME NEW t \in Threads, NEW r \in Ranks, Acquire(t,
r) PROVE DepthIsHeld'
  BY <1>1 DEF Acquire, Pass, Serve, GateTypes, DepthIsHeld, Waiting
<1>2. ASSUME NEW t \in Threads, AcquireAgain(t) PROVE DepthIsHeld'
  BY <1>2 DEF AcquireAgain, request, gate, GateTypes, DepthIsHeld, Waiting
<1>3. ASSUME NEW t \in Threads, Wake(t) PROVE DepthIsHeld'
  BY <1>3 DEF Wake, gate, GateTypes, DepthIsHeld, Waiting
<1>4. ASSUME NEW t \in Threads, Block(t) PROVE DepthIsHeld'
  BY <1>4 DEF Block, gate, GateTypes, DepthIsHeld, Waiting
<1>5. ASSUME NEW t \in Threads, Unblock(t) PROVE DepthIsHeld'
  BY <1>5 DEF Unblock, gate, GateTypes, DepthIsHeld, Waiting
<1>6. ASSUME NEW t \in Threads, Expire(t) PROVE DepthIsHeld'
  BY <1>6 DEF Expire, gate, GateTypes, DepthIsHeld, Waiting
<1>7. ASSUME NEW t \in Threads, Look(t) PROVE DepthIsHeld'
  BY <1>7 DEF Look, Proceed, FailOpen, KeepWaiting, Pass, Serve, Leave,
     GateTypes, DepthIsHeld, Waiting
<1>8. ASSUME NEW t \in Threads, Release(t) PROVE DepthIsHeld'
  BY <1>8 DEF Release, GateTypes, DepthIsHeld, Waiting
<1>9. ASSUME NEW t \in Threads, ReleaseInner(t) PROVE DepthIsHeld'
  BY <1>9 DEF ReleaseInner, request, gate, GateTypes, DepthIsHeld, Waiting
<1>10. ASSUME UNCHANGED vars PROVE DepthIsHeld'
  BY <1>10 DEF vars, request, gate, GateTypes, DepthIsHeld, Waiting
<1> QED
  BY <1>1, <1>2, <1>3, <1>4, <1>5, <1>6, <1>7, <1>8, <1>9, <1>10 DEF Next

(* A caller that begins to wait has a ticket of its own.                     *)
LEMMA TicketStep == GateTypes /\ TicketsDiffer /\ [Next]_vars => TicketsDiffer'
<1> SUFFICES ASSUME GateTypes /\ TicketsDiffer,
[Next]_vars PROVE TicketsDiffer'
  OBVIOUS
<1> USE AdmissionAssumption
<1>1. ASSUME NEW t \in Threads, NEW r \in Ranks, Acquire(t,
r) PROVE TicketsDiffer'
  BY <1>1 DEF Acquire, Pass, Serve, GateTypes, TicketsDiffer, Waiting,
     Entries, NoEntry
<1>2. ASSUME NEW t \in Threads, AcquireAgain(t) PROVE TicketsDiffer'
  BY <1>2 DEF AcquireAgain, request, gate, GateTypes, TicketsDiffer, Waiting,
     Entries, NoEntry
<1>3. ASSUME NEW t \in Threads, Wake(t) PROVE TicketsDiffer'
  BY <1>3 DEF Wake, gate, GateTypes, TicketsDiffer, Waiting, Entries, NoEntry
<1>4. ASSUME NEW t \in Threads, Block(t) PROVE TicketsDiffer'
  BY <1>4 DEF Block, gate, GateTypes, TicketsDiffer, Waiting, Entries, NoEntry
<1>5. ASSUME NEW t \in Threads, Unblock(t) PROVE TicketsDiffer'
  BY <1>5 DEF Unblock, gate, GateTypes, TicketsDiffer, Waiting, Entries,
     NoEntry
<1>6. ASSUME NEW t \in Threads, Expire(t) PROVE TicketsDiffer'
  BY <1>6 DEF Expire, gate, GateTypes, TicketsDiffer, Waiting, Entries, NoEntry
<1>7. ASSUME NEW t \in Threads, Look(t) PROVE TicketsDiffer'
  BY <1>7 DEF Look, Proceed, FailOpen, KeepWaiting, Pass, Serve, Leave,
     GateTypes, TicketsDiffer, Waiting, Entries, NoEntry
<1>8. ASSUME NEW t \in Threads, Release(t) PROVE TicketsDiffer'
  BY <1>8 DEF Release, GateTypes, TicketsDiffer, Waiting, Entries, NoEntry
<1>9. ASSUME NEW t \in Threads, ReleaseInner(t) PROVE TicketsDiffer'
  BY <1>9 DEF ReleaseInner, request, gate, GateTypes, TicketsDiffer, Waiting,
     Entries, NoEntry
<1>10. ASSUME UNCHANGED vars PROVE TicketsDiffer'
  BY <1>10 DEF vars, request, gate, GateTypes, TicketsDiffer, Waiting,
     Entries, NoEntry
<1> QED
  BY <1>1, <1>2, <1>3, <1>4, <1>5, <1>6, <1>7, <1>8, <1>9, <1>10 DEF Next

(* The entry of a caller enters the queue and leaves it with the caller.      *)
LEMMA EntriesStep == GateTypes /\ TicketsDiffer /\ QueueEntries /\ [Next]_vars => QueueEntries'
<1> SUFFICES ASSUME GateTypes /\ TicketsDiffer /\ QueueEntries,
[Next]_vars PROVE QueueEntries'
  OBVIOUS
<1> USE AdmissionAssumption
<1>1. ASSUME NEW t \in Threads, NEW r \in Ranks, Acquire(t,
r) PROVE QueueEntries'
  BY <1>1 DEF Acquire, Pass, Serve, GateTypes, TicketsDiffer, QueueEntries,
     Waiting
<1>2. ASSUME NEW t \in Threads, AcquireAgain(t) PROVE QueueEntries'
  BY <1>2 DEF AcquireAgain, request, gate, GateTypes, TicketsDiffer,
     QueueEntries, Waiting
<1>3. ASSUME NEW t \in Threads, Wake(t) PROVE QueueEntries'
  BY <1>3 DEF Wake, gate, GateTypes, TicketsDiffer, QueueEntries, Waiting
<1>4. ASSUME NEW t \in Threads, Block(t) PROVE QueueEntries'
  BY <1>4 DEF Block, gate, GateTypes, TicketsDiffer, QueueEntries, Waiting
<1>5. ASSUME NEW t \in Threads, Unblock(t) PROVE QueueEntries'
  BY <1>5 DEF Unblock, gate, GateTypes, TicketsDiffer, QueueEntries, Waiting
<1>6. ASSUME NEW t \in Threads, Expire(t) PROVE QueueEntries'
  BY <1>6 DEF Expire, gate, GateTypes, TicketsDiffer, QueueEntries, Waiting
<1>7. ASSUME NEW t \in Threads, Look(t) PROVE QueueEntries'
  BY <1>7 DEF Look, Proceed, FailOpen, KeepWaiting, Pass, Serve, Leave,
     GateTypes, TicketsDiffer, QueueEntries, Waiting
<1>8. ASSUME NEW t \in Threads, Release(t) PROVE QueueEntries'
  BY <1>8 DEF Release, GateTypes, TicketsDiffer, QueueEntries, Waiting
<1>9. ASSUME NEW t \in Threads, ReleaseInner(t) PROVE QueueEntries'
  BY <1>9 DEF ReleaseInner, request, gate, GateTypes, TicketsDiffer,
     QueueEntries, Waiting
<1>10. ASSUME UNCHANGED vars PROVE QueueEntries'
  BY <1>10 DEF vars, request, gate, GateTypes, TicketsDiffer, QueueEntries,
     Waiting
<1> QED
  BY <1>1, <1>2, <1>3, <1>4, <1>5, <1>6, <1>7, <1>8, <1>9, <1>10 DEF Next

(* And it is counted on both ways.                                          *)
LEMMA CountStep == IInv /\ [Next]_vars => QueueCounted'
<1> SUFFICES ASSUME IInv, [Next]_vars PROVE QueueCounted'
  OBVIOUS
<1> USE AdmissionAssumption
<1>1. ASSUME NEW t \in Threads, NEW r \in Ranks, Acquire(t,
r) PROVE QueueCounted'
  <2> DEFINE e == [rank |-> r, ticket |-> nextTicket]
  <2>1. e \notin queue
    BY DEF IInv, QueueEntries, TicketsDiffer, TypeOK, GateTypes, Entries
  <2>2. CASE MayPass(e, queue)
    <3>1. queue' = queue \ {e} /\ UNCHANGED waiting
      BY <1>1, <2>2 DEF Acquire, Pass
    <3> QED
      BY <3>1, <2>1 DEF IInv, QueueCounted
  <2>3. CASE ~ MayPass(e, queue)
    <3>1. queue' = queue \cup {e} /\ waiting' = waiting + 1
      BY <1>1, <2>3 DEF Acquire
    <3> QED
      BY <3>1, <2>1, FS_AddElement DEF IInv, QueueCounted
  <2> QED
    BY <2>2, <2>3
<1>2. ASSUME NEW t \in Threads, AcquireAgain(t) PROVE QueueCounted'
  <2>1. UNCHANGED <<queue, waiting>>
    BY <1>2 DEF AcquireAgain, request, gate
  <2> QED
    BY <2>1 DEF IInv, QueueCounted
<1>3. ASSUME NEW t \in Threads, Wake(t) PROVE QueueCounted'
  <2>1. UNCHANGED <<queue, waiting>>
    BY <1>3 DEF Wake, gate
  <2> QED
    BY <2>1 DEF IInv, QueueCounted
<1>4. ASSUME NEW t \in Threads, Block(t) PROVE QueueCounted'
  <2>1. UNCHANGED <<queue, waiting>>
    BY <1>4 DEF Block, gate
  <2> QED
    BY <2>1 DEF IInv, QueueCounted
<1>5. ASSUME NEW t \in Threads, Unblock(t) PROVE QueueCounted'
  <2>1. UNCHANGED <<queue, waiting>>
    BY <1>5 DEF Unblock, gate
  <2> QED
    BY <2>1 DEF IInv, QueueCounted
<1>6. ASSUME NEW t \in Threads, Expire(t) PROVE QueueCounted'
  <2>1. UNCHANGED <<queue, waiting>>
    BY <1>6 DEF Expire, gate
  <2> QED
    BY <2>1 DEF IInv, QueueCounted
<1>7. ASSUME NEW t \in Threads, Look(t) PROVE QueueCounted'
  <2>1. \/ UNCHANGED <<queue, waiting>>
        \/ queue' = queue \ {entry[t]} /\ waiting' = waiting - 1
    <3>1. CASE Proceed(t)
      BY <3>1 DEF Proceed, Pass, Leave
    <3>2. CASE FailOpen(t)
      BY <3>2 DEF FailOpen, Leave
    <3>3. CASE KeepWaiting(t)
      BY <3>3 DEF KeepWaiting
    <3> QED
      BY <1>7, <3>1, <3>2, <3>3 DEF Look
  <2>2. entry[t] \in queue
    BY <1>7 DEF IInv, QueueEntries, Look, Waiting
  <2> QED
    BY <2>1, <2>2, FS_RemoveElement DEF IInv, QueueCounted
<1>8. ASSUME NEW t \in Threads, Release(t) PROVE QueueCounted'
  <2>1. UNCHANGED <<queue, waiting>>
    BY <1>8 DEF Release
  <2> QED
    BY <2>1 DEF IInv, QueueCounted
<1>9. ASSUME NEW t \in Threads, ReleaseInner(t) PROVE QueueCounted'
  <2>1. UNCHANGED <<queue, waiting>>
    BY <1>9 DEF ReleaseInner, request, gate
  <2> QED
    BY <2>1 DEF IInv, QueueCounted
<1>10. ASSUME UNCHANGED vars PROVE QueueCounted'
  <2>1. UNCHANGED <<queue, waiting>>
    BY <1>10 DEF vars, gate
  <2> QED
    BY <2>1 DEF IInv, QueueCounted
<1> QED
  BY <1>1, <1>2, <1>3, <1>4, <1>5, <1>6, <1>7, <1>8, <1>9, <1>10 DEF Next

(* A slot is counted with the caller that gets it, and given back once.      *)
LEMMA CapStep == IInv /\ [Next]_vars => CapHolds'
<1> SUFFICES ASSUME IInv, [Next]_vars PROVE CapHolds'
  OBVIOUS
<1> USE AdmissionAssumption
<1>1. ASSUME NEW t \in Threads, NEW r \in Ranks, Acquire(t, r) PROVE CapHolds'
  <2> DEFINE e == [rank |-> r, ticket |-> nextTicket]
  <2>1. CASE MayPass(e, queue)
    <3>1. at' = [at EXCEPT ![t] = "held"] /\ active' = active + 1 /\ active < Limit
      BY <1>1, <2>1 DEF Acquire, Pass, MayPass
    <3>2. Holders' = Holders \cup {t} /\ t \notin Holders
      BY <3>1, <1>1 DEF Holders, IInv, TypeOK, GateTypes, Acquire, Look
    <3>3. IsFiniteSet(Holders)
      BY AdmissionAssumption, FS_Subset DEF Holders
    <3>4. Cardinality(Holders') = Cardinality(Holders) + 1
      BY <3>2, <3>3, FS_AddElement
    <3> QED
      BY <3>1, <3>4 DEF IInv, CapHolds, TypeOK, GateTypes
  <2>2. CASE ~ MayPass(e, queue)
    <3>1. Holders' = Holders /\ UNCHANGED active
      BY <1>1, <2>2 DEF Acquire, Holders, IInv, TypeOK, GateTypes
    <3> QED
      BY <3>1 DEF IInv, CapHolds
  <2> QED
    BY <2>1, <2>2
<1>2. ASSUME NEW t \in Threads, AcquireAgain(t) PROVE CapHolds'
  <2>1. Holders' = Holders /\ UNCHANGED active
    BY <1>2 DEF AcquireAgain, request, gate, Holders, IInv, TypeOK, GateTypes
  <2> QED
    BY <2>1 DEF IInv, CapHolds
<1>3. ASSUME NEW t \in Threads, Wake(t) PROVE CapHolds'
  <2>1. Holders' = Holders /\ UNCHANGED active
    BY <1>3 DEF Wake, gate, Holders, IInv, TypeOK, GateTypes
  <2> QED
    BY <2>1 DEF IInv, CapHolds
<1>4. ASSUME NEW t \in Threads, Block(t) PROVE CapHolds'
  <2>1. Holders' = Holders /\ UNCHANGED active
    BY <1>4 DEF Block, gate, Holders, IInv, TypeOK, GateTypes
  <2> QED
    BY <2>1 DEF IInv, CapHolds
<1>5. ASSUME NEW t \in Threads, Unblock(t) PROVE CapHolds'
  <2>1. Holders' = Holders /\ UNCHANGED active
    BY <1>5 DEF Unblock, gate, Holders, IInv, TypeOK, GateTypes
  <2> QED
    BY <2>1 DEF IInv, CapHolds
<1>6. ASSUME NEW t \in Threads, Expire(t) PROVE CapHolds'
  <2>1. Holders' = Holders /\ UNCHANGED active
    BY <1>6 DEF Expire, gate, Holders, IInv, TypeOK, GateTypes
  <2> QED
    BY <2>1 DEF IInv, CapHolds
<1>7. ASSUME NEW t \in Threads, Look(t) PROVE CapHolds'
  <2>1. CASE Proceed(t)
    <3>1. at' = [at EXCEPT ![t] = "held"] /\ active' = active + 1 /\ active < Limit
      BY <1>7, <2>1 DEF Proceed, Pass, MayPass
    <3>2. Holders' = Holders \cup {t} /\ t \notin Holders
      BY <3>1, <1>7 DEF Holders, IInv, TypeOK, GateTypes, Acquire, Look
    <3>3. IsFiniteSet(Holders)
      BY AdmissionAssumption, FS_Subset DEF Holders
    <3>4. Cardinality(Holders') = Cardinality(Holders) + 1
      BY <3>2, <3>3, FS_AddElement
    <3> QED
      BY <3>1, <3>4 DEF IInv, CapHolds, TypeOK, GateTypes
  <2>2. CASE FailOpen(t) \/ KeepWaiting(t)
    <3>1. Holders' = Holders /\ UNCHANGED active
      BY <1>7, <2>2 DEF Look, FailOpen, KeepWaiting, Holders, IInv, TypeOK,
                       GateTypes
    <3> QED
      BY <3>1 DEF IInv, CapHolds
  <2> QED
    BY <1>7, <2>1, <2>2 DEF Look
<1>8. ASSUME NEW t \in Threads, Release(t) PROVE CapHolds'
  <2>1. IsFiniteSet(Holders)
    BY AdmissionAssumption, FS_Subset DEF Holders
  <2>2. CASE at[t] = "held"
    <3>1. Holders' = Holders \ {t} /\ t \in Holders
      BY <1>8, <2>2 DEF Release, Holders, IInv, TypeOK, GateTypes
    <3>2. Cardinality(Holders') = Cardinality(Holders) - 1
      BY <2>1, <3>1, FS_RemoveElement
    <3>3. Cardinality(Holders) \in Nat /\ Cardinality(Holders') \in Nat
      BY <2>1, <3>1, FS_RemoveElement, FS_CardinalityType
    <3>4. active' = IF active > 0 THEN active - 1 ELSE 0
      BY <1>8, <2>2 DEF Release
    <3> QED
      BY <3>2, <3>3, <3>4 DEF IInv, CapHolds, TypeOK, GateTypes
  <2>3. CASE at[t] # "held"
    <3>1. Holders' = Holders /\ UNCHANGED active
      BY <1>8, <2>3 DEF Release, Holders, IInv, TypeOK, GateTypes
    <3> QED
      BY <3>1 DEF IInv, CapHolds
  <2> QED
    BY <2>2, <2>3
<1>9. ASSUME NEW t \in Threads, ReleaseInner(t) PROVE CapHolds'
  <2>1. Holders' = Holders /\ UNCHANGED active
    BY <1>9 DEF ReleaseInner, request, gate, Holders, IInv, TypeOK, GateTypes
  <2> QED
    BY <2>1 DEF IInv, CapHolds
<1>10. ASSUME UNCHANGED vars PROVE CapHolds'
  <2>1. Holders' = Holders /\ UNCHANGED active
    BY <1>10 DEF vars, request, gate, Holders, IInv, TypeOK, GateTypes
  <2> QED
    BY <2>1 DEF IInv, CapHolds
<1> QED
  BY <1>1, <1>2, <1>3, <1>4, <1>5, <1>6, <1>7, <1>8, <1>9, <1>10 DEF Next

LEMMA Invariance == Spec => []IInv
<1>1. IInv /\ [Next]_vars => IInv'
  BY FlagStep, GateStep, DepthStep, TicketStep, EntriesStep, CountStep,
     CapStep DEF IInv, TypeOK
<1> QED
  BY <1>1, InitInv, PTL DEF Spec

(* Every variable of Admission keeps to its type.                            *)
THEOREM TypeCorrect == Spec => []TypeOK
BY Invariance, PTL DEF IInv

(* The counter of the gate is the number of callers with a slot, and never   *)
(* above the cap, for any number of threads.                                 *)
THEOREM CapIsKept == Spec => []CapHolds
BY Invariance, PTL DEF IInv

(* The queue is the callers that wait, on every way out of it.               *)
THEOREM QueueIsCallers == Spec => []QueueIsTheWaiting
<1>1. IInv => QueueIsTheWaiting
  BY DEF IInv, QueueEntries, QueueCounted, QueueIsTheWaiting
<1> QED
  BY <1>1, Invariance, PTL

(* Nobody that waits is passed by a caller of a lower rank or, within its    *)
(* rank, by one that came later.                                             *)
THEOREM CallersPassInTurn == Spec => InTurn
<1> DEFINE Turn == \A t, u \in Threads :
      at[t] # "held" /\ at'[t] = "held" /\ Waiting(u) /\ Waiting(u)'
        => Before(entry'[t], entry[u])
<1>1. ASSUME IInv, [Next]_vars PROVE Turn
  <2> SUFFICES ASSUME NEW t \in Threads, NEW u \in Threads,
                      at[t] # "held", at'[t] = "held", Waiting(u), Waiting(u)'
               PROVE  Before(entry'[t], entry[u])
    OBVIOUS
  <2>1. t # u
    BY DEF Waiting
  <2>2. entry[u] \in queue
    BY <1>1 DEF IInv, QueueEntries
  <2>3. CASE Look(t)
    <3>1. Proceed(t) /\ entry' = entry
      BY <1>1, <2>3 DEF Look, FailOpen, KeepWaiting, IInv, TypeOK, GateTypes
    <3>2. entry[t] # entry[u]
      BY <1>1, <2>1, <2>3 DEF IInv, TicketsDiffer, Waiting, Look
    <3> QED
      BY <2>2, <3>1, <3>2 DEF Proceed, MayPass
  <2>4. ASSUME NEW r \in Ranks, Acquire(t, r) PROVE Before(entry'[t], entry[u])
    <3> DEFINE e == [rank |-> r, ticket |-> nextTicket]
    <3>1. entry'[t] = e /\ MayPass(e, queue)
      BY <1>1, <2>4 DEF Acquire, IInv, TypeOK, GateTypes
    <3>2. e # entry[u]
      BY <1>1 DEF IInv, TicketsDiffer, TypeOK, GateTypes, Entries
    <3> QED
      BY <2>2, <3>1, <3>2 DEF MayPass
  <2>5. Look(t) \/ \E r \in Ranks : Acquire(t, r)
    <3>1. ASSUME NEW v \in Threads, v # t,
                 (\E r \in Ranks : Acquire(v, r)) \/ Look(v) \/ Release(v)
          PROVE  at'[t] = at[t]
      BY <1>1, <3>1 DEF Acquire, Pass, Look, Proceed, FailOpen, KeepWaiting,
                        Release, IInv, TypeOK, GateTypes
    <3>2. ASSUME NEW v \in Threads,
                 AcquireAgain(v) \/ Block(v) \/ Unblock(v) \/ Expire(v) \/ ReleaseInner(v)
          PROVE  at' = at
      BY <3>2 DEF AcquireAgain, Block, Unblock, Expire, ReleaseInner, request
    <3>3. ASSUME NEW v \in Threads,
    Wake(v) \/ Release(t) PROVE at'[t] \in {at[t], "write", "out"}
      BY <1>1, <3>3 DEF Wake, Release, IInv, TypeOK, GateTypes
    <3>4. UNCHANGED vars => at' = at
      BY DEF vars, request
    <3> QED
      BY <1>1, <3>1, <3>2, <3>3, <3>4 DEF Next
  <2> QED
    BY <2>3, <2>4, <2>5
<1> QED
  BY <1>1, Invariance, PTL DEF Spec, InTurn

-----------------------------------------------------------------------------
(***************************************************************************)
(* What EveryCallerProceeds needs besides fairness: as long as anybody     *)
(* waits, a slot is in use or the first of the queue may pass, and only a  *)
(* better rank gets in front of a caller that waits.                       *)
(***************************************************************************)

(* A set of natural numbers has a least one.                                 *)
LEMMA LeastOf == ASSUME NEW T \in SUBSET Nat, T # {}
                 PROVE  \E m \in T : \A k \in T : m <= k
<1> DEFINE Less == {p \in Nat \X Nat : p[1] < p[2]}
<1>1. IsWellFoundedOn(Less, Nat)
  BY NatLessThanWellFounded DEF OpToRel
<1>2. PICK m \in T : \A k \in T : ~ (<<k, m>> \in Less)
  <2> HIDE DEF Less
  <2> QED
    BY <1>1, WFMin
<1>3. ASSUME NEW k \in T, k < m PROVE FALSE
  BY <1>2, <1>3
<1> QED
  BY <1>2, <1>3

(* A queue that is not empty has a first entry.                              *)
LEMMA QueueHasHead ==
  ASSUME TypeOK, TicketsDiffer, QueueEntries, queue # {}
  PROVE  \E t \in Threads :
           Waiting(t) /\ \A f \in queue \ {entry[t]} : Before(entry[t], f)
<1> USE AdmissionAssumption
<1>1. \A e \in queue : e.rank \in Nat /\ e.ticket \in Nat
  <2>1. ASSUME NEW e \in Entries PROVE e.rank \in Nat /\ e.ticket \in Nat
    <3>1. e.rank \in Ranks \cup {0} /\ e.ticket \in 0..MaxTickets
      BY DEF Entries
    <3>2. Ranks \cup {0} \subseteq Nat
      BY DEF AdmissionAssumption
    <3>3. 0..MaxTickets \subseteq Nat
      BY DEF AdmissionAssumption
    <3> QED
      BY <3>1, <3>2, <3>3, Zenon
  <2>2. queue \subseteq Entries
    BY DEF TypeOK, GateTypes
  <2> QED
    BY <2>1, <2>2, Zenon
<1> DEFINE Rs == {e.rank : e \in queue}
<1>2. PICK e \in queue : \A f \in queue : e.rank <= f.rank
  <2>1. Rs \in SUBSET Nat /\ Rs # {}
    BY <1>1
  <2> HIDE DEF Rs
  <2>2. PICK r \in Rs : \A q \in Rs : r <= q
    BY <2>1, LeastOf
  <2> QED
    BY <2>2 DEF Rs
<1> DEFINE Ts == {f.ticket : f \in {g \in queue : g.rank = e.rank}}
<1>3. PICK h \in queue : /\ h.rank = e.rank
                         /\ \A f \in queue : f.rank = e.rank => h.ticket <= f.ticket
  <2>1. Ts \in SUBSET Nat /\ Ts # {}
    BY <1>1, <1>2
  <2> HIDE DEF Ts
  <2>2. PICK n \in Ts : \A q \in Ts : n <= q
    BY <2>1, LeastOf
  <2> QED
    BY <2>2 DEF Ts
<1>4. PICK t \in Threads : Waiting(t) /\ h = entry[t]
  BY <1>3 DEF QueueEntries
<1>5. ASSUME NEW f \in queue \ {h} PROVE Before(h, f)
  <2>1. PICK u \in Threads : Waiting(u) /\ f = entry[u]
    BY <1>5 DEF QueueEntries
  <2>2. f.ticket # h.ticket
    BY <1>4, <1>5, <2>1 DEF TicketsDiffer
  <2>3. f.rank = h.rank => h.ticket < f.ticket
    BY <1>1, <1>3, <1>5, <2>2
  <2>4. h.rank <= f.rank
    BY <1>2, <1>3, <1>5
  <2> QED
    BY <1>1, <1>5, <2>3, <2>4 DEF Before
<1> QED
  BY <1>4, <1>5

(* The gate never shuts: whoever waits, all slots are in use, so that one    *)
(* comes free when its holder is done, or somebody who waits may pass at its *)
(* next look.  A lost decrement or an entry left behind would break it.      *)
GateIsOpen ==
  queue # {} =>
    \/ active = Limit /\ Holders # {}
    \/ \E t \in Threads : Waiting(t) /\ MayPass(entry[t], queue)

THEOREM GateStaysOpen == Spec => []GateIsOpen
<1>1. ASSUME IInv PROVE GateIsOpen
  <2> USE AdmissionAssumption, <1>1 DEF IInv
  <2> SUFFICES ASSUME queue # {} PROVE GateIsOpen
    BY DEF GateIsOpen
  <2>1. PICK t \in Threads :
          Waiting(t) /\ \A f \in queue \ {entry[t]} : Before(entry[t], f)
    BY QueueHasHead
  <2>2. CASE active < Limit
    BY <2>1, <2>2 DEF GateIsOpen, MayPass
  <2>3. CASE active = Limit
    <3>1. Holders # {}
      BY <2>3, FS_EmptySet DEF CapHolds
    <3> QED
      BY <2>3, <3>1 DEF GateIsOpen
  <2> QED
    BY <2>2, <2>3 DEF CapHolds, TypeOK, GateTypes
<1> QED
  BY <1>1, Invariance, PTL

(* Who is in front of a caller that waits was there before, or has a better  *)
(* rank: within a rank the queue in front of a caller only gets shorter.     *)
OnlyBetterRanksPass ==
  [][\A t \in Threads : Waiting(t) /\ Waiting(t)' =>
       \A f \in queue' :
         Before(f, entry[t]) => f \in queue \/ f.rank < entry[t].rank]_vars

THEOREM QueuesOnlyShorten == Spec => OnlyBetterRanksPass
<1> DEFINE Shorter == \A t \in Threads : Waiting(t) /\ Waiting(t)' =>
       \A f \in queue' :
         Before(f, entry[t]) => f \in queue \/ f.rank < entry[t].rank
<1>1. ASSUME IInv, [Next]_vars PROVE Shorter
  <2> SUFFICES ASSUME NEW t \in Threads, Waiting(t), NEW f \in queue', f \notin queue,
                      Before(f, entry[t])
               PROVE  f.rank < entry[t].rank
    OBVIOUS
  <2>1. PICK u \in Threads, r \in Ranks : Acquire(u, r)
    BY <1>1 DEF Next, vars, gate, AcquireAgain, Wake, Block, Unblock, Expire, Look,
       Proceed, Pass, FailOpen, KeepWaiting, Release, ReleaseInner
  <2>2. f.ticket = nextTicket /\ f.rank = r
    BY <2>1 DEF Acquire, Pass
  <2>3. entry[t].ticket < nextTicket /\ entry[t].ticket \in Nat /\ nextTicket \in Nat
    BY <1>1, AdmissionAssumption DEF IInv, TicketsDiffer, TypeOK, GateTypes, Entries
  <2> QED
    BY <2>2, <2>3 DEF Before
<1> QED
  BY <1>1, Invariance, PTL DEF Spec, OnlyBetterRanksPass
===============================================================================
