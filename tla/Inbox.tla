--------------------------------- MODULE Inbox --------------------------------
(***************************************************************************)
(* inbox/inbox.ts and the drain at the top of runLoop: the notes that      *)
(* actors send to one receiver, from the row in the table to the message   *)
(* in the receiver's transcript.                                           *)
(*                                                                         *)
(* send writes a row and then forks a call of the receiver's loop, which   *)
(* starts a run or joins the one under way.  Each iteration of a run reads *)
(* the oldest rows, writes them into the transcript and then deletes them, *)
(* in three transactions: a run that is interrupted between the last two   *)
(* leaves rows that the next run writes again.                             *)
(*                                                                         *)
(* The id of a row is a ulid: the millisecond of its making and random     *)
(* digits.  Ids are in the order of the inserts from one millisecond to    *)
(* the next, and in no order within one.                                   *)
(***************************************************************************)
EXTENDS Naturals, FiniteSets

CONSTANTS
  Notes,          \* calls of send: numbers, in the order of their row ids
  Time,           \* Time[n]: the millisecond in the id of note n
  MaxDrain,       \* MAX_DRAIN_PER_TURN
  MaxInterrupts,  \* bound on cancelled runs and restarts of the process
  MaxPrompts      \* bound on the prompts

ASSUME InboxAssumption ==
  /\ Notes \subseteq Nat /\ IsFiniteSet(Notes)
  /\ Time \in [Notes -> Nat]
  /\ \A m, n \in Notes : m < n => Time[m] <= Time[n]
  /\ MaxDrain \in Nat \ {0} /\ MaxInterrupts \in Nat /\ MaxPrompts \in Nat

VARIABLES
  sent,        \* sent[n]: how far the call that sends note n has got
  rows,        \* the receiver's rows in the table
  copies,      \* copies[n]: how often the transcript holds note n
  expired,     \* notes that were deleted for their age
  registered,  \* the receiver is in the registry
  prompts,     \* prompts of the receiver
  loop,        \* the receiver's run
  batch,       \* the rows its drain has read
  interrupts

run == <<loop, batch>>
vars == <<sent, rows, copies, expired, registered, prompts, run, interrupts>>

TypeOK ==
  /\ sent \in [Notes -> {"new", "stored", "done", "refused"}]
  /\ rows \subseteq Notes /\ batch \subseteq Notes /\ expired \subseteq Notes
  /\ copies \in [Notes -> Nat]
  /\ registered \in BOOLEAN
  /\ prompts \in 0..MaxPrompts
  /\ loop \in {"idle", "top", "read", "wrote", "step", "gates"}
  /\ interrupts \in 0..MaxInterrupts

Init ==
  /\ sent = [n \in Notes |-> "new"]
  /\ rows = {} /\ batch = {} /\ expired = {}
  /\ copies = [n \in Notes |-> 0]
  /\ registered = FALSE
  /\ prompts = 0
  /\ loop = "idle" /\ interrupts = 0

-----------------------------------------------------------------------------
(* send.                                                                     *)

Register ==
  /\ ~ registered /\ registered' = TRUE
  /\ UNCHANGED <<sent, rows, copies, expired, prompts, run, interrupts>>

(* The clock does not go back; in its millisecond any id may come next.      *)
Send(n) ==
  /\ sent[n] = "new"
  /\ \A m \in Notes : sent[m] # "new" => Time[m] <= Time[n]
  /\ IF registered
       THEN /\ sent' = [sent EXCEPT ![n] = "stored"]
            /\ rows' = rows \cup {n}
       ELSE /\ sent' = [sent EXCEPT ![n] = "refused"]
            /\ UNCHANGED rows
  /\ UNCHANGED <<copies, expired, registered, prompts, run, interrupts>>

(* ensureRunning: a run, unless one is under way.                            *)
EnsureRunning == loop' = IF loop = "idle" THEN "top" ELSE loop

(* The forked call of loop.                                                  *)
Wake(n) ==
  /\ sent[n] = "stored"
  /\ sent' = [sent EXCEPT ![n] = "done"]
  /\ EnsureRunning
  /\ UNCHANGED <<rows, copies, expired, registered, prompts, batch, interrupts>>

(* A prompt, of a person or the actor's task, stores its message before it   *)
(* calls loop.                                                               *)
Prompt ==
  /\ registered /\ prompts < MaxPrompts /\ prompts' = prompts + 1
  /\ EnsureRunning
  /\ UNCHANGED <<sent, rows, copies, expired, registered, batch, interrupts>>

-----------------------------------------------------------------------------
(* drain, at the top of every iteration of a run.                            *)

(* The receiver has a message whose agent and model the note can inherit.    *)
HasRealMessage == prompts > 0

(* The rows that drain sorts before row n.                                   *)
Older(n) == {m \in rows : m < n}

(* A mutant of DrainNothing: a drain that fails is passed over.              *)
DrainFails ==
  /\ loop = "top" /\ loop' = "step"
  /\ UNCHANGED <<sent, rows, copies, expired, registered, prompts, batch, interrupts>>

(* Nothing to drain, or nothing to inherit from: the rows stay.              *)
DrainNothing ==
  /\ loop = "top" /\ (rows = {} \/ ~ HasRealMessage)
  /\ loop' = "step"
  /\ UNCHANGED <<sent, rows, copies, expired, registered, prompts, batch, interrupts>>

(* A mutant of ReadRows: the newest rows are read.                           *)
ReadNewest ==
  /\ loop = "top" /\ rows # {} /\ HasRealMessage
  /\ batch' = {n \in rows : Cardinality({m \in rows : m > n}) < MaxDrain}
  /\ loop' = "read"
  /\ UNCHANGED <<sent, rows, copies, expired, registered, prompts, interrupts>>

ReadRows ==
  /\ loop = "top" /\ rows # {} /\ HasRealMessage
  /\ batch' = {n \in rows : Cardinality(Older(n)) < MaxDrain}
  /\ loop' = "read"
  /\ UNCHANGED <<sent, rows, copies, expired, registered, prompts, interrupts>>

WriteMessage ==
  /\ loop = "read" /\ loop' = "wrote"
  /\ copies' = [n \in Notes |-> IF n \in batch THEN copies[n] + 1 ELSE copies[n]]
  /\ UNCHANGED <<sent, rows, expired, registered, prompts, batch, interrupts>>

(* A mutant of DeleteRows: all rows of the receiver are deleted.             *)
DeleteAllRows ==
  /\ loop = "wrote" /\ loop' = "step"
  /\ rows' = {} /\ batch' = {}
  /\ UNCHANGED <<sent, copies, expired, registered, prompts, interrupts>>

(* A mutant of DeleteRows: only the row that was read first is deleted.      *)
DeleteOneRow ==
  /\ loop = "wrote" /\ loop' = "step"
  /\ rows' = {n \in rows : n \notin batch \/ \E m \in batch : m < n}
  /\ batch' = {}
  /\ UNCHANGED <<sent, copies, expired, registered, prompts, interrupts>>

DeleteRows ==
  /\ loop = "wrote" /\ loop' = "step"
  /\ rows' = rows \ batch /\ batch' = {}
  /\ UNCHANGED <<sent, copies, expired, registered, prompts, interrupts>>

-----------------------------------------------------------------------------
(* The rest of an iteration.                                                 *)

Step ==
  /\ loop = "step" /\ HasRealMessage
  /\ loop' \in {"top", "gates"}
  /\ UNCHANGED <<sent, rows, copies, expired, registered, prompts, batch, interrupts>>

(* The gates ask for another iteration or let the run end; none of them      *)
(* looks at the inbox.                                                       *)
Gates ==
  /\ loop = "gates"
  /\ loop' \in {"top", "idle"}
  /\ UNCHANGED <<sent, rows, copies, expired, registered, prompts, batch, interrupts>>

(* A run without a message dies.                                             *)
NothingToDo ==
  /\ loop = "step" /\ ~ HasRealMessage
  /\ loop' = "idle"
  /\ UNCHANGED <<sent, rows, copies, expired, registered, prompts, batch, interrupts>>

(* The run is cancelled between any two steps.                               *)
Cancel ==
  /\ loop # "idle" /\ interrupts < MaxInterrupts
  /\ interrupts' = interrupts + 1
  /\ loop' = "idle" /\ batch' = {}
  /\ UNCHANGED <<sent, rows, copies, expired, registered, prompts>>

(* The process starts again; wake-ups are gone, and the rows that are too    *)
(* old are deleted: their age is read from the clock after the id is made,   *)
(* so the limit may fall within a millisecond of ids.                        *)
Restart ==
  /\ interrupts < MaxInterrupts /\ interrupts' = interrupts + 1
  /\ loop' = "idle" /\ batch' = {}
  /\ sent' = [n \in Notes |-> IF sent[n] = "stored" THEN "done" ELSE sent[n]]
  /\ \E old \in SUBSET rows :
       /\ \A n \in old, m \in rows : Time[m] < Time[n] => m \in old
       /\ rows' = rows \ old /\ expired' = expired \cup old
  /\ UNCHANGED <<copies, registered, prompts>>

Next ==
  \/ \E n \in Notes : Send(n) \/ Wake(n)
  \/ Register \/ Prompt
  \/ DrainNothing \/ ReadRows \/ WriteMessage \/ DeleteRows
  \/ Step \/ Gates \/ NothingToDo \/ Cancel \/ Restart

Spec == Init /\ [][Next]_vars

(* A forked wake-up happens, a run goes on, and gates do not ask for more    *)
(* and more iterations (their limits are TurnLoop's).                        *)
LiveSpec ==
  /\ Spec
  /\ \A n \in Notes : WF_vars(Wake(n))
  /\ WF_vars(DrainNothing \/ ReadRows \/ WriteMessage \/ DeleteRows)
  /\ WF_vars(Step \/ NothingToDo) /\ WF_vars(Gates)
  /\ SF_vars(Step /\ loop' = "gates") /\ SF_vars(Gates /\ loop' = "idle")

-----------------------------------------------------------------------------
(* Safety.                                                                   *)

(* A note that was accepted is in the table or in the transcript, whatever   *)
(* arrives while a drain is between its steps and wherever a run is cut off. *)
NothingLost ==
  \A n \in Notes :
    sent[n] \in {"stored", "done"} => n \in rows \/ copies[n] > 0 \/ n \in expired

(* A note appears a second time only when a run was cut off between the      *)
(* write and the deletion: once per interruption at most.                    *)
OnceUnlessInterrupted == \A n \in Notes : copies[n] <= 1 + interrupts

(* A note is not overtaken by one of a later millisecond, though rows arrive *)
(* between the read of a drain and its deletion, runs are cut off and drains *)
(* take a part of the rows.  Within a millisecond there is no such order:    *)
(* drain sorts by ids that are random there.                                 *)
InOrder ==
  \A m, n \in Notes : Time[m] < Time[n] /\ copies[n] > 0 /\ sent[m] \in {"stored", "done"}
    => copies[m] > 0 \/ m \in expired

(* The inbox is a durable queue: what a drain has written and not yet        *)
(* deleted is in flight, and a copy in the transcript is a delivery.         *)
Queue == INSTANCE DurableQueue WITH
  Items <- Notes,
  Age <- Time,
  accepted <- {n \in Notes : sent[n] \in {"stored", "done"}},
  queued <- rows,
  inflight <- IF loop = "wrote" THEN batch ELSE {},
  delivered <- copies,
  dropped <- expired

(* Whatever senders, runs, interruptions and restarts do between the three   *)
(* transactions of a drain, each of their steps is a step of that queue: a   *)
(* note is written again only when a run was cut off before it deleted the   *)
(* rows, and only rows that were written are deleted.                        *)
ImplementsDurableQueue == Queue!Spec

-----------------------------------------------------------------------------
(* Liveness.                                                                 *)

(* What a drain may sort before row n when it reads: rows that are there, and *)
(* notes of its millisecond that are yet to be sent.                         *)
MayPrecede(n) ==
  {m \in Notes : m < n /\ (m \in rows \/ (sent[m] = "new" /\ Time[m] = Time[n]))}

InReach(n) == n \in rows /\ Cardinality(MayPrecede(n)) < MaxDrain

(* A row that is within the limit of the drain a run comes to, whatever is   *)
(* sent in its millisecond meanwhile, does not wait for another sender: it   *)
(* reaches the transcript, unless the run is cut off.                        *)
FirstRowsAreDrained ==
  \A n \in Notes, k \in 0..MaxInterrupts :
    (InReach(n) /\ loop = "top" /\ HasRealMessage /\ interrupts = k)
      ~> (copies[n] > 0 \/ n \in expired \/ interrupts > k)

(* inbox.ts: the wake-up has the row delivered, or a later iteration does.   *)
RowIsServed ==
  \A n \in Notes : (n \in rows /\ HasRealMessage) ~> (n \notin rows)
=============================================================================
