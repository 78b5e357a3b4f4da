---------------------------- MODULE SingleFlight ----------------------------
(***************************************************************************)
(* What a Runner promises the callers of ensureRunning, without fibers,    *)
(* locks or shells: on each runner there is at most one flight that can be *)
(* joined; a call opens a flight or joins the joinable one; a flight lands *)
(* once, after it stopped being joinable; and each call returns what the   *)
(* flight it is on landed with.                                            *)
(***************************************************************************)
CONSTANTS Runners, Callers, NoOne

VARIABLES
  joinable,  \* joinable[r]: the flight of runner r that calls join, if any
  flight,    \* flight[c]: the flight that call c is on
  landed,    \* landed[c]: how the flight that c opened has landed
  answer     \* answer[c]: what call c returned

vars == <<joinable, flight, landed, answer>>

Landings == {"ok", "fail", "cancelled"}

TypeOK ==
  /\ joinable \in [Runners -> Callers \cup {NoOne}]
  /\ flight \in [Callers -> Callers \cup {NoOne}]
  /\ landed \in [Callers -> {"none", "open"} \cup Landings]
  /\ answer \in [Callers -> {"none", "gone"} \cup Landings]

Init ==
  /\ joinable = [r \in Runners |-> NoOne]
  /\ flight = [c \in Callers |-> NoOne]
  /\ landed = [c \in Callers |-> "none"]
  /\ answer = [c \in Callers |-> "none"]

Open(c, r) ==
  /\ flight[c] = NoOne /\ joinable[r] = NoOne /\ landed[c] = "none"
  /\ joinable' = [joinable EXCEPT ![r] = c]
  /\ flight' = [flight EXCEPT ![c] = c]
  /\ landed' = [landed EXCEPT ![c] = "open"]
  /\ UNCHANGED answer

Join(c, r) ==
  /\ flight[c] = NoOne /\ joinable[r] # NoOne
  /\ flight' = [flight EXCEPT ![c] = joinable[r]]
  /\ UNCHANGED <<joinable, landed, answer>>

Close(r) ==
  /\ joinable' = [joinable EXCEPT ![r] = NoOne]
  /\ UNCHANGED <<flight, landed, answer>>

Land(d, o) ==
  /\ landed[d] = "open"
  /\ \A r \in Runners : joinable[r] # d
  /\ landed' = [landed EXCEPT ![d] = o]
  /\ UNCHANGED <<joinable, flight, answer>>

Return(c) ==
  /\ flight[c] # NoOne /\ answer[c] = "none"
  /\ landed[flight[c]] \in Landings
  /\ answer' = [answer EXCEPT ![c] = landed[flight[c]]]
  /\ UNCHANGED <<joinable, flight, landed>>

GiveUp(c) ==
  /\ flight[c] # NoOne /\ answer[c] = "none"
  /\ answer' = [answer EXCEPT ![c] = "gone"]
  /\ UNCHANGED <<joinable, flight, landed>>

Next ==
  \/ \E c \in Callers, r \in Runners : Open(c, r) \/ Join(c, r)
  \/ \E r \in Runners : Close(r)
  \/ \E d \in Callers, o \in Landings : Land(d, o)
  \/ \E c \in Callers : Return(c) \/ GiveUp(c)

Spec == Init /\ [][Next]_vars

(* Every flight lands, and every call on it is answered.                     *)
Lands ==
  \A c \in Callers :
    /\ (landed[c] = "open") ~> (landed[c] # "open")
    /\ WF_vars(Return(c))

FairSpec == Spec /\ Lands
=============================================================================
