-------------------------------- MODULE MCInbox -------------------------------
(* Bounded instances of Inbox.                                               *)
EXTENDS Inbox

(* Milliseconds of three notes and of four: two notes share one, before a    *)
(* later note and, of the four, after an earlier one.                        *)
ThreeTimes == <<1, 1, 2>>
FourTimes == <<1, 2, 2, 3>>
=============================================================================
