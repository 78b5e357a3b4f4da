----------------------------- MODULE DurableQueue -----------------------------
(***************************************************************************)
(* What the inbox promises the senders of notes, without runs, drains or   *)
(* tables: a queue that survives whoever reads it.  Every item has an age, *)
(* and items are accepted in that order, items of one age in any.  Items   *)
(* are delivered together, none before an older one, and nothing more is   *)
(* until they are acknowledged; an acknowledgement takes exactly what was  *)
(* delivered.  A reader that is cut off in between leaves its items to be  *)
(* delivered again, and only then, and when the queue starts again the     *)
(* oldest items may be dropped.                                            *)
(***************************************************************************)
EXTENDS Naturals

CONSTANTS
  Items,
  Age     \* Age[n]: a number, which is smaller for an older item

VARIABLES
  accepted,   \* the items taken so far
  queued,     \* those that were neither acknowledged nor dropped
  inflight,   \* those that are delivered and await the acknowledgement
  delivered,  \* delivered[n]: how often item n was delivered
  dropped     \* the items dropped for their age

vars == <<accepted, queued, inflight, delivered, dropped>>

Init ==
  /\ accepted = {} /\ queued = {} /\ inflight = {} /\ dropped = {}
  /\ delivered = [n \in Items |-> 0]

Accept(n) ==
  /\ n \notin accepted /\ \A m \in accepted : Age[m] <= Age[n]
  /\ accepted' = accepted \cup {n} /\ queued' = queued \cup {n}
  /\ UNCHANGED <<inflight, delivered, dropped>>

(* A set of queued items that leaves out none older than one of its own.     *)
Oldest(batch) ==
  /\ batch \subseteq queued
  /\ \A n \in batch, m \in queued : Age[m] < Age[n] => m \in batch

Deliver(batch) ==
  /\ inflight = {} /\ batch # {} /\ Oldest(batch)
  /\ inflight' = batch
  /\ delivered' = [n \in Items |-> IF n \in batch THEN delivered[n] + 1 ELSE delivered[n]]
  /\ UNCHANGED <<accepted, queued, dropped>>

Acknowledge ==
  /\ inflight # {} /\ inflight' = {}
  /\ queued' = queued \ inflight
  /\ UNCHANGED <<accepted, delivered, dropped>>

CutOff ==
  /\ inflight' = {}
  /\ UNCHANGED <<accepted, queued, delivered, dropped>>

StartAgain(old) ==
  /\ inflight' = {}
  /\ Oldest(old)
  /\ queued' = queued \ old /\ dropped' = dropped \cup old
  /\ UNCHANGED <<accepted, delivered>>

Next ==
  \/ \E n \in Items : Accept(n)
  \/ \E batch \in SUBSET Items : Deliver(batch) \/ StartAgain(batch)
  \/ Acknowledge \/ CutOff

Spec == Init /\ [][Next]_vars
===============================================================================
