------------------------------ MODULE Admission -------------------------------
(***************************************************************************)
(* proxy/adapter_util.py, class AdmissionGate, as lmstudio-adapter.py uses *)
(* it: the threads of the adapter that serve requests, and the gate that   *)
(* caps how many of them call the model at a time.                         *)
(*                                                                         *)
(* A caller takes a ticket and waits until a slot is free and it is first  *)
(* in the queue, which is ordered by rank and then by ticket.  It wakes    *)
(* up once a second and, with the lock given up, writes a keepalive to its *)
(* client; a client that does not read blocks the write.  A caller whose   *)
(* time is up goes on without a slot.                                      *)
(***************************************************************************)
EXTENDS Integers, FiniteSets

CONSTANTS
  Threads,
  Ranks,       \* priorities, 0 is a live turn
  Limit,       \* MAX_CONCURRENT_UPSTREAM
  MaxTickets,  \* bound on the requests that queue
  MaxDepth     \* bound on nested requests of a thread

ASSUME AdmissionAssumption ==
  /\ IsFiniteSet(Threads) /\ Ranks \subseteq Nat
  /\ Limit \in Nat \ {0} /\ MaxTickets \in Nat /\ MaxDepth \in Nat \ {0}

VARIABLES
  at,          \* at[t]: where the request of thread t is
  entry,       \* entry[t]: its rank and ticket
  expired,     \* expired[t]: its time is up
  stuck,       \* stuck[t]: its client has stopped reading
  depth,       \* _depths
  queue,       \* _queue: sorted, its head is the least entry
  active,      \* _active
  waiting,     \* _waiting
  nextTicket,  \* _next_ticket
  nowServing   \* _now_serving

request == <<at, entry, expired, stuck>>
gate == <<queue, active, waiting, nextTicket, nowServing>>
vars == <<request, depth, gate>>

Entries == [rank : Ranks \cup {0}, ticket : 0..MaxTickets]
NoEntry == [rank |-> 0, ticket |-> 0]
Places == {"out", "wait", "write", "held", "open"}

FlagTypes ==
  expired \in [Threads -> BOOLEAN] /\ stuck \in [Threads -> BOOLEAN]

GateTypes ==
  /\ at \in [Threads -> Places]
  /\ entry \in [Threads -> Entries]
  /\ depth \in [Threads -> 0..MaxDepth]
  /\ queue \subseteq Entries
  /\ active \in Int /\ waiting \in Int
  /\ nextTicket \in 0..MaxTickets /\ nowServing \in 0..MaxTickets

TypeOK == FlagTypes /\ GateTypes

Init ==
  /\ at = [t \in Threads |-> "out"]
  /\ entry = [t \in Threads |-> NoEntry]
  /\ expired = [t \in Threads |-> FALSE] /\ stuck = [t \in Threads |-> FALSE]
  /\ depth = [t \in Threads |-> 0]
  /\ queue = {} /\ active = 0 /\ waiting = 0
  /\ nextTicket = 0 /\ nowServing = 0

Before(e, f) == e.rank < f.rank \/ (e.rank = f.rank /\ e.ticket < f.ticket)

Waiting(t) == at[t] \in {"wait", "write"}

(* A mutant of MayPass: whoever has the ticket that is served next.          *)
HasTicket(e, q) == active < Limit /\ nowServing = e.ticket

(* The condition of acquire's loop, for the caller with entry e.             *)
MayPass(e, q) == active < Limit /\ \A f \in q \ {e} : Before(e, f)

(* _now_serving is at least one above the ticket of a caller that goes on.   *)
Serve(e) ==
  nowServing' = IF nowServing > e.ticket THEN nowServing ELSE e.ticket + 1

(* What acquire does with a caller that passes: its entry is gone.           *)
Pass(t, e) ==
  /\ at' = [at EXCEPT ![t] = "held"]
  /\ queue' = queue \ {e}
  /\ active' = active + 1
  /\ Serve(e)
  /\ depth' = [depth EXCEPT ![t] = 1]

-----------------------------------------------------------------------------
(* acquire.                                                                  *)

Acquire(t, r) ==
  LET e == [rank |-> r, ticket |-> nextTicket]
  IN  /\ at[t] = "out" /\ depth[t] = 0 /\ nextTicket < MaxTickets
      /\ nextTicket' = nextTicket + 1
      /\ entry' = [entry EXCEPT ![t] = e]
      /\ IF MayPass(e, queue)
           THEN Pass(t, e) /\ UNCHANGED waiting
           ELSE /\ at' = [at EXCEPT ![t] = "wait"]
                /\ queue' = queue \cup {e}
                /\ waiting' = waiting + 1
                /\ UNCHANGED <<active, nowServing, depth>>
      /\ UNCHANGED <<expired, stuck>>

(* A thread that holds a slot asks again: it goes on at once.                *)
AcquireAgain(t) ==
  /\ depth[t] > 0 /\ depth[t] < MaxDepth
  /\ depth' = [depth EXCEPT ![t] = @ + 1]
  /\ UNCHANGED <<request, gate>>

(* cv.wait returns, after a second at most, and on_wait begins.              *)
Wake(t) ==
  /\ at[t] = "wait" /\ at' = [at EXCEPT ![t] = "write"]
  /\ UNCHANGED <<entry, expired, stuck, depth, gate>>

(* The write of the keepalive blocks.                                        *)
Block(t) ==
  /\ at[t] = "write" /\ ~ stuck[t]
  /\ stuck' = [stuck EXCEPT ![t] = TRUE]
  /\ UNCHANGED <<at, entry, expired, depth, gate>>

Unblock(t) ==
  /\ stuck[t] /\ stuck' = [stuck EXCEPT ![t] = FALSE]
  /\ UNCHANGED <<at, entry, expired, depth, gate>>

(* The budget is used up; the caller sees it at its next look.               *)
Expire(t) ==
  /\ Waiting(t) /\ ~ expired[t]
  /\ expired' = [expired EXCEPT ![t] = TRUE]
  /\ UNCHANGED <<at, entry, stuck, depth, gate>>

Leave(t) == waiting' = waiting - 1

Proceed(t) ==
  /\ MayPass(entry[t], queue)
  /\ Pass(t, entry[t]) /\ Leave(t)

(* Without a slot, but out of the queue.                                     *)
FailOpen(t) ==
  /\ ~ MayPass(entry[t], queue) /\ expired[t]
  /\ at' = [at EXCEPT ![t] = "open"]
  /\ queue' = queue \ {entry[t]} /\ Leave(t)
  /\ Serve(entry[t])
  /\ UNCHANGED <<active, depth>>

KeepWaiting(t) ==
  /\ ~ MayPass(entry[t], queue) /\ ~ expired[t]
  /\ at' = [at EXCEPT ![t] = "wait"]
  /\ UNCHANGED <<queue, active, waiting, nowServing, depth>>

(* A mutant of Look: on_wait keeps the lock, so nobody looks while another   *)
(* caller writes.                                                            *)
LookLocked(t) ==
  /\ at[t] = "write" /\ ~ stuck[t]
  /\ \A u \in Threads : ~ stuck[u]
  /\ Proceed(t) \/ FailOpen(t) \/ KeepWaiting(t)
  /\ expired' = [expired EXCEPT ![t] = @ /\ at'[t] = "wait"]
  /\ UNCHANGED <<entry, stuck, nextTicket>>

(* on_wait returns, the caller has the lock again and looks.                 *)
Look(t) ==
  /\ at[t] = "write" /\ ~ stuck[t]
  /\ Proceed(t) \/ FailOpen(t) \/ KeepWaiting(t)
  /\ expired' = [expired EXCEPT ![t] = @ /\ at'[t] = "wait"]
  /\ UNCHANGED <<entry, stuck, nextTicket>>

-----------------------------------------------------------------------------
(* _release, once for an admission: when the request is over, or at once if  *)
(* on_wait has found the client gone.                                        *)

(* A mutant of Release: an admission without a slot returns one.             *)
ReleaseAny(t) ==
  /\ at[t] \in {"held", "open"} /\ depth[t] < 2
  /\ at' = [at EXCEPT ![t] = "out"]
  /\ active' = IF active > 0 THEN active - 1 ELSE 0
  /\ depth' = [depth EXCEPT ![t] = 0]
  /\ entry' = [entry EXCEPT ![t] = NoEntry]
  /\ UNCHANGED <<expired, stuck, queue, waiting, nextTicket, nowServing>>

Release(t) ==
  /\ at[t] \in {"held", "open"} /\ depth[t] < 2
  /\ at' = [at EXCEPT ![t] = "out"]
  /\ IF at[t] = "held"
       THEN /\ active' = IF active > 0 THEN active - 1 ELSE 0
            /\ depth' = [depth EXCEPT ![t] = 0]
       ELSE UNCHANGED <<active, depth>>
  /\ entry' = [entry EXCEPT ![t] = NoEntry]
  /\ UNCHANGED <<expired, stuck, queue, waiting, nextTicket, nowServing>>

(* The inner admission of a thread that asked again.                         *)
ReleaseInner(t) ==
  /\ depth[t] > 1
  /\ depth' = [depth EXCEPT ![t] = @ - 1]
  /\ UNCHANGED <<request, gate>>

Next ==
  \E t \in Threads :
    \/ \E r \in Ranks : Acquire(t, r)
    \/ AcquireAgain(t) \/ Wake(t) \/ Block(t) \/ Unblock(t) \/ Expire(t)
    \/ Look(t) \/ Release(t) \/ ReleaseInner(t)

Spec == Init /\ [][Next]_vars

(* cv.wait has a time limit, a caller that has the lock goes on, and the     *)
(* watchdog of the upstream call ends a request, which does not ask again    *)
(* and again.  A client need not read and a budget need not run out.         *)
LiveSpec ==
  /\ Spec
  /\ \A t \in Threads :
       /\ WF_vars(Wake(t)) /\ WF_vars(Look(t))
       /\ SF_vars(Release(t)) /\ WF_vars(ReleaseInner(t))

-----------------------------------------------------------------------------
(* Safety.                                                                   *)

Holders == {t \in Threads : at[t] = "held"}

(* The counter is the number of callers that hold a slot and never above the *)
(* cap: what a timeout, a nested request or a client that has gone returns   *)
(* to the gate is never more than it took.                                   *)
CapHolds == active = Cardinality(Holders) /\ active <= Limit

(* The queue is the callers that wait: on no way out of acquire does an      *)
(* entry stay behind, to be first for ever.                                  *)
QueueIsTheWaiting ==
  /\ queue = {entry[t] : t \in {u \in Threads : Waiting(u)}}
  /\ waiting = Cardinality(queue)

(* A live turn that waits is not passed by background work, and callers of   *)
(* one rank are let through in the order they came.                          *)
InTurn ==
  [][\A t, u \in Threads :
       at[t] # "held" /\ at'[t] = "held" /\ Waiting(u) /\ Waiting(u)'
         => Before(entry'[t], entry[u])]_vars

-----------------------------------------------------------------------------
(* Liveness.                                                                 *)

(* Unless a client stops reading, every caller is let through in the end, by *)
(* a slot or because its time is up, whoever else gives up before it.        *)
EveryCallerProceeds ==
  \A t \in Threads :
    Waiting(t) ~> (at[t] \in {"held", "open"} \/ \E u \in Threads : stuck[u])

(* A caller whose time is up goes on even if the one before it is stuck in a *)
(* write to its client.                                                      *)
TimeoutFreesCaller ==
  \A t \in Threads :
    (Waiting(t) /\ expired[t]) ~> (at[t] \in {"held", "open"} \/ stuck[t])

(* adapter_util.py: with the lock given up, a client that does not read does *)
(* not wedge the other callers: a free slot is used.                         *)
FreeSlotIsUsed ==
  (queue # {} /\ active = 0) ~> (active > 0 \/ queue = {})
=============================================================================
