------------------------------ MODULE TurnLoop ------------------------------
(***************************************************************************)
(* The main agent's turn: runLoop of session/prompt.ts with every gate     *)
(* that can send a finished answer back to the model, the context          *)
(* boundaries (checkpoint rebuild, compaction) and the prompts, messages   *)
(* and goals that reach the session while the loop runs.                   *)
(*                                                                         *)
(* The transcript is kept as what the loop reads of it: the live window    *)
(* (win), which starts at the newest context boundary.  A model step is    *)
(* one of a few kinds of assistant message.  Not modelled: json_schema     *)
(* requests, max mode, subtasks, plugin cancellation and the loops of      *)
(* subagents, which run the same code without the four gates at the end.   *)
(***************************************************************************)
EXTENDS Naturals

CONSTANTS
  \* the caps of the code
  MaxLength, MaxStalls, MaxInvalid, MaxTextTool, MaxVerify, MaxNgram, MaxLoops,
  TextTrigger, MaxGuard, MaxTaskReact, SoftGoal, MaxGoal,
  \* the project has a verify command
  Verifiable,
  \* the provider may report an overflow without end
  EndlessOverflow,
  \* bounds: tool steps, overflows, calls of the summarize route, further prompts
  \* and goal commands, subagent turns, inbox messages, and cancels or crashes
  Works, Overflows, Summaries, Prompts, Spawns, Mails, Stops

ASSUME CapsAssumption ==
  /\ {MaxLength, MaxStalls, MaxInvalid, MaxTextTool, MaxVerify, MaxNgram,
      MaxLoops, TextTrigger, MaxGuard, MaxTaskReact, SoftGoal, MaxGoal} \subseteq Nat
  /\ {Works, Overflows, Summaries, Prompts, Spawns, Mails, Stops} \subseteq Nat
  /\ {Verifiable, EndlessOverflow} \subseteq BOOLEAN

VARIABLES
  pc,         \* where the loop is
  door,       \* how the turn wants to end: by an answer, a broken step, an error
  unread,     \* the newest user message is no older than the loop's last read
  mail,       \* rows in the main agent's inbox
  win,        \* the live window of the transcript
  seen,       \* what the current iteration keeps of the window it read
  cnt,        \* the local variables of runLoop
  taskReact,  \* taskGateState of the session
  goal,       \* the goal of the session
  asked,      \* the goal and the trajectory the judge was asked about
  board,      \* the session has an open or in_progress task
  owed,       \* ghost: source edits of this turn not followed by a green verify
  stamp,      \* ghost: the newest assistant message carries the NOT DONE marker
  tally,      \* ghost: since the last prompt, re-entries through the task gate
              \* and the subagent turns; since the run began, through any gate
  left        \* what is left of the bounds

vars == <<pc, door, unread, mail, win, seen, cnt, taskReact, goal, asked, board,
          owed, stamp, tally, left>>

PCs == {"idle", "look", "call", "compactAuto", "compactManual", "tasks", "verify",
        "stall", "goal", "judge", "guard", "leave"}

(* Kinds of the newest assistant message: "tools" called tools; "open" is    *)
(* unfinished or denied; "echo" answers with its own reasoning verbatim;     *)
(* "prose" writes a tool call as text; "cut" is text cut at the limit;       *)
(* "think" has no usable part; "failed" is a model error or filtered.        *)
Kinds == {"none", "tools", "open", "answer", "echo", "summary", "prose", "cut",
          "think", "failed"}

Goals == [kind : {"none", "auto", "explicit"}, id : Nat, react : Nat]
NoGoal == [kind |-> "none", id |-> 0, react |-> 0]
Asked == [id : Nat, auto : BOOLEAN, bad : BOOLEAN, progress : BOOLEAN]
NotAsked == [id |-> 0, auto |-> FALSE, bad |-> FALSE, progress |-> FALSE]

Windows == [last : Kinds, err : BOOLEAN, fresh : BOOLEAN, dirty : BOOLEAN,
            red : BOOLEAN, progress : BOOLEAN, evidence : BOOLEAN, fence : 0..2,
            marker : {"no", "auto", "manual", "buried"}]

Seen == [prior : BOOLEAN, bad : BOOLEAN, stalled : BOOLEAN, check : BOOLEAN,
         marker : {"no", "auto", "manual", "buried"}]

Counters == [length : Nat, stalls : Nat, total : Nat, textTool : Nat,
             verifies : Nat, ngram : Nat, loops : Nat, said : Nat, guard : Nat,
             marked : BOOLEAN, resumed : BOOLEAN, rescued : BOOLEAN,
             skip : BOOLEAN]

(* The locals of a new runLoop.                                              *)
NewRun == [length |-> 0, stalls |-> 0, total |-> 0, textTool |-> 0,
           verifies |-> 0, ngram |-> 0, loops |-> 0, said |-> 0, guard |-> 0,
           marked |-> FALSE, resumed |-> FALSE, rescued |-> FALSE, skip |-> FALSE]

TypeOK ==
  /\ pc \in PCs
  /\ door \in {"none", "answer", "break", "error"}
  /\ unread \in {"no", "note", "prompt"}
  /\ mail \in Nat
  /\ win \in Windows
  /\ seen \in Seen
  /\ cnt \in Counters
  /\ taskReact \in Nat
  /\ goal \in Goals
  /\ asked \in Asked
  /\ board \in BOOLEAN /\ owed \in BOOLEAN /\ stamp \in BOOLEAN
  /\ tally \in [task : Nat, spawns : Nat, total : Nat]
  /\ left \in [works : Nat, overs : Nat, sums : Nat, prompts : Nat,
               spawns : Nat, mails : Nat, stops : Nat]

-----------------------------------------------------------------------------
(* What messages do to the window.                                           *)

(* A compaction marker is processed only while it is the newest user         *)
(* message; any later user message buries it.                                *)
Bury(m) == IF m = "no" THEN "no" ELSE "buried"

(* A synthetic user message: a gate's nudge, a note, the drained inbox.      *)
Nudge(w) ==
  [w EXCEPT !.fresh = FALSE, !.progress = FALSE, !.marker = Bury(@)]

(* A message of the user starts a turn: edits and verifies are forgotten.    *)
UserTurn(w) ==
  [w EXCEPT !.fresh = FALSE, !.dirty = FALSE, !.red = FALSE, !.progress = TRUE,
            !.marker = Bury(@)]

(* A context boundary: the window starts there, so what came before is out   *)
(* of sight.  fence = 1: tools were at work right before the boundary.       *)
Boundary(w, m) ==
  [last |-> "none", err |-> FALSE, fresh |-> FALSE, dirty |-> FALSE, red |-> FALSE,
   progress |-> TRUE, evidence |-> TRUE, marker |-> m,
   fence |-> IF w.last = "tools" THEN 1
             ELSE IF w.last \in {"none", "summary"} THEN w.fence ELSE 0]

(* A rebuild boundary is dated right after the checkpoint it resumes from:   *)
(* the messages since then (the tail) may stay in the window.                *)
Rebuilt(w, tail) ==
  IF tail THEN [w EXCEPT !.evidence = TRUE, !.fence = 0, !.marker = "no"]
          ELSE Boundary(w, "no")

(* The window after a model step of kind k.                                  *)
Produced(k, err) ==
  [win EXCEPT !.last = k, !.err = err, !.fresh = unread = "no",
              !.fence = IF @ = 1 THEN 2 ELSE 0]

(* badDynamicsSignature of the trajectory; red also stands for a NOT-DONE    *)
(* that a tool stamped.                                                      *)
Bad(w) == w.last = "echo" \/ w.red \/ (w.dirty /\ Verifiable)

(* isProductiveStep: a tool call or a text.                                  *)
Productive(w) ==
  w.last \in {"tools", "open", "answer", "echo", "summary", "prose", "cut"}

(* A productive step: the model is no longer stuck in its reasoning.         *)
Rearm(c) == [c EXCEPT !.total = 0, !.stalls = 0]

(* A mutant of Class: no staleness check.                                    *)
ClassOfStale(w) ==
  IF w.last \in {"none", "tools", "open"} THEN "continue"
  ELSE IF w.err THEN "failed"
  ELSE IF w.last \in {"answer", "echo", "summary"} THEN "final" ELSE w.last

(* classifyAssistantStep, phase existing-assistant.                          *)
Class(w) ==
  IF w.last \in {"none", "tools", "open"} \/ ~ w.fresh THEN "continue"
  ELSE IF w.err THEN "failed"
  ELSE IF w.last \in {"answer", "echo", "summary"} THEN "final" ELSE w.last

(* What an iteration keeps of the window it read: whether there was an       *)
(* assistant message, the finish guard's signature, postCompactionStall,     *)
(* whether an overflow is to be checked (not after an answer), the marker.   *)
Read(w) ==
  LET answered == w.last \in {"answer", "echo"}
  IN [prior   |-> w.last # "none",
      bad     |-> Bad(w),
      stalled |-> answered /\ w.fence = 2,
      check   |-> w.last \notin {"none", "summary"} /\ (answered => w.err),
      marker  |-> w.marker]

(* Between two iterations nothing is kept.                                   *)
Unseen == [prior |-> FALSE, bad |-> FALSE, stalled |-> FALSE, check |-> FALSE,
           marker |-> "no"]

-----------------------------------------------------------------------------
Init ==
  /\ pc = "look" /\ door = "none" /\ unread = "prompt" /\ mail = 0
  /\ win = [last |-> "none", err |-> FALSE, fresh |-> FALSE, dirty |-> FALSE,
            red |-> FALSE, progress |-> TRUE, evidence |-> FALSE, fence |-> 0,
            marker |-> "no"]
  /\ seen = Unseen
  /\ cnt = NewRun /\ taskReact = 0
  /\ goal \in {NoGoal, [kind |-> IF Verifiable THEN "auto" ELSE "explicit",
                        id |-> 1, react |-> 0]}
  /\ asked = NotAsked /\ board \in BOOLEAN
  /\ owed = FALSE /\ stamp = FALSE
  /\ tally = [task |-> 0, spawns |-> 0, total |-> 0]
  /\ left = [works |-> Works, overs |-> Overflows, sums |-> Summaries,
             prompts |-> Prompts, spawns |-> Spawns, mails |-> Mails, stops |-> Stops]

Spend(what) ==
  left[what] > 0 /\ left' = [left EXCEPT ![what] = @ - 1]

(* A gate at the end of the turn sends the model back to work.               *)
Reenter == tally' = [tally EXCEPT !.total = @ + 1]

(* What an iteration has read dies with it (pc' comes first).                *)
Kept == seen' = IF pc' \in {"look", "idle"} THEN Unseen ELSE seen

(* loop(): ensureRunning starts a run when none is running.                  *)
Run ==
  IF pc = "idle"
  THEN pc' = "look" /\ cnt' = NewRun /\ door' = "none"
  ELSE UNCHANGED <<pc, cnt, door>>

-----------------------------------------------------------------------------
(* From outside the loop.                                                    *)

(* The goal after a prompt: kept, set by /goal, or armed automatically       *)
(* unless an explicit one is active or there is nothing to verify.           *)
Armed ==
  LET New(k) == [kind |-> k, id |-> goal.id + 1, react |-> 0]
  IN {goal, New("explicit")} \cup
       (IF Verifiable /\ goal.kind # "explicit" THEN {New("auto")} ELSE {})

(* prompt(): the message is persisted, the task gate's budget starts over,   *)
(* a goal may be armed; then loop() starts a run or joins the running one.   *)
Prompt ==
  /\ Spend("prompts")
  /\ unread' = "prompt" /\ win' = UserTurn(win) /\ owed' = FALSE
  /\ taskReact' = 0
  /\ tally' = [task |-> 0, spawns |-> 0, total |-> 0]
  /\ goal' \in Armed
  /\ Run
  /\ UNCHANGED <<mail, seen, asked, board, stamp>>

(* /goal clear: a synthetic prompt that starts no run.                       *)
ClearGoal ==
  /\ Spend("prompts")
  /\ goal' = [NoGoal EXCEPT !.id = goal.id]
  /\ unread' = IF unread = "prompt" THEN "prompt" ELSE "note"
  /\ win' = Nudge(win) /\ taskReact' = 0
  /\ tally' = [task |-> 0, spawns |-> 0, total |-> 0]
  /\ UNCHANGED <<pc, door, mail, seen, cnt, asked, board, owed, stamp>>

(* A turn of a subagent starts: prompt() with source "spawn" or "hook" and   *)
(* the session of its parent.  Its messages are in a slice of their own; it  *)
(* may open or settle tasks.                                                 *)
SubagentTurn ==
  /\ Spend("spawns")
  /\ taskReact' = 0
  /\ tally' = [tally EXCEPT !.spawns = @ + 1]
  /\ board' \in BOOLEAN
  /\ UNCHANGED <<pc, door, unread, mail, win, seen, cnt, goal, asked, owed, stamp>>

(* Inbox.send to the main agent: a durable row, and a wake-up.               *)
Send ==
  /\ Spend("mails")
  /\ mail' = mail + 1
  /\ Run
  /\ UNCHANGED <<unread, win, seen, taskReact, goal, asked, board, owed, stamp,
                 tally>>

(* The summarize route: a compaction marker, and loop().  (Not while a reply *)
(* is on its way, which would lie behind the boundary that this sets.)       *)
Summarize ==
  /\ pc \notin {"call", "compactAuto", "compactManual"}
  /\ Spend("sums")
  /\ \E m \in {"auto", "manual"} : win' = Boundary(win, m)
  /\ unread' = IF unread = "prompt" THEN "prompt" ELSE "note"
  /\ Run
  /\ UNCHANGED <<mail, seen, taskReact, goal, asked, board, owed, stamp, tally>>

(* The user cancels the run, or the process dies and what lives in memory    *)
(* is lost.  A step that had ended may not have been looked at yet.          *)
Stopped(w) ==
  /\ pc' = "idle" /\ door' = "none" /\ win' = w
  /\ stamp' = (stamp /\ w = win)
  /\ seen' = Unseen /\ cnt' = NewRun /\ asked' = NotAsked
  /\ UNCHANGED <<unread, mail, board, owed>>

Cancel ==
  /\ pc # "idle" /\ Spend("stops")
  /\ Stopped(IF pc = "call" THEN Produced("failed", TRUE) ELSE win)
  /\ tally' = [tally EXCEPT !.total = 0]
  /\ UNCHANGED <<taskReact, goal>>

Crash ==
  /\ pc # "idle" /\ Spend("stops")
  /\ \E w \in {win} \cup
         (IF pc = "call"
          THEN {Produced(k, FALSE) : k \in {"open", "answer", "prose", "cut", "think",
                                            "failed"}}
          ELSE {}) : Stopped(w)
  /\ taskReact' = 0 /\ goal' = [NoGoal EXCEPT !.id = goal.id]
  /\ tally' = [task |-> 0, spawns |-> 0, total |-> 0]

-----------------------------------------------------------------------------
(* Steps that are no usable answer.  Each yields the window, the counters    *)
(* and whether the loop goes on; at its cap the message becomes an error.    *)
Again(w, c) == [win |-> Nudge(w), cnt |-> c, again |-> TRUE]
GiveUp(w, c) == [win |-> [w EXCEPT !.err = TRUE], cnt |-> c, again |-> FALSE]

(* autoContinueOutputLength for plain text.                                  *)
OnCut(w, c) ==
  IF c.length < MaxLength THEN Again(w, [c EXCEPT !.length = @ + 1]) ELSE GiveUp(w, c)

(* autoRetryTextToolCall: the message is discarded by an error either way.   *)
OnProse(w, c) ==
  IF c.textTool < MaxTextTool
  THEN Again([w EXCEPT !.err = TRUE], [c EXCEPT !.textTool = @ + 1])
  ELSE GiveUp(w, c)

(* autoContinueInvalidOutput and decideInvalidContinuation; the reasoning    *)
(* changed (p) or it repeats the one before.                                 *)
OnThink(w, c, p) ==
  IF c.total < MaxInvalid /\ (p \/ c.stalls < MaxStalls)
  THEN Again(w, [c EXCEPT !.total = @ + 1, !.stalls = IF p THEN 0 ELSE @ + 1])
  ELSE GiveUp(w, c)

(* A mutant of Mend: reasoning that changes is not counted.                  *)
MendForgetful(w, c) ==
  IF w.last = "cut" THEN {OnCut(w, c)}
  ELSE IF w.last = "prose" THEN {OnProse(w, c)}
  ELSE {Again(w, c), OnThink(w, c, FALSE)}

Mend(w, c) ==
  IF w.last = "cut" THEN {OnCut(w, c)}
  ELSE IF w.last = "prose" THEN {OnProse(w, c)}
  ELSE {OnThink(w, c, p) : p \in BOOLEAN}

(* The loop leaves on an error, past the gates.                              *)
LeaveOnError == pc' = "leave" /\ door' = "error"

(* The top of an iteration: busy, inbox.drain, the read of the transcript,   *)
(* and what to do about an assistant message that is already there.          *)
Look ==
  /\ pc = "look"
  /\ unread' = "no" /\ mail' = 0
  /\ LET w == IF mail > 0 THEN Nudge(win) ELSE win
         c == IF Productive(w) THEN Rearm(cnt) ELSE cnt
     IN
     /\ \/ /\ Class(w) = "continue"
           /\ win' = w /\ cnt' = c /\ pc' = "call"
           /\ UNCHANGED door
        \/ /\ Class(w) = "final"
           /\ win' = w /\ cnt' = c /\ pc' = "tasks" /\ door' = "answer"
        \/ /\ Class(w) = "failed"
           /\ win' = [w EXCEPT !.err = TRUE] /\ LeaveOnError
           /\ UNCHANGED cnt
        \/ /\ Class(w) \in {"cut", "prose", "think"}
           /\ \E r \in Mend(w, cnt) :
                /\ win' = r.win /\ cnt' = r.cnt
                /\ IF r.again THEN UNCHANGED door /\ pc' = "look" ELSE LeaveOnError
     /\ seen' = IF pc' = "look" THEN Unseen ELSE Read(w)
  /\ UNCHANGED <<taskReact, goal, asked, board, owed, stamp, tally, left>>

-----------------------------------------------------------------------------
(* Context boundaries.                                                       *)

ToCompact == pc = "call" /\ seen.marker \in {"auto", "manual"}
ToCall    == pc = "call" /\ seen.marker \in {"no", "buried"}

StartCompaction ==
  /\ ToCompact
  /\ pc' = IF seen.marker = "auto" THEN "compactAuto" ELSE "compactManual"
  /\ UNCHANGED <<door, unread, mail, win, seen, cnt, taskReact, goal, asked, board,
                 owed, stamp, tally, left>>

(* compaction.process has a summary; an automatic one adds a user message    *)
(* that asks to continue.                                                    *)
Compacted ==
  /\ pc \in {"compactAuto", "compactManual"}
  /\ win' = [win EXCEPT !.last = "summary", !.err = FALSE, !.marker = "no",
                        !.fresh = pc = "compactManual" /\ unread = "no",
                        !.progress = IF pc = "compactAuto" THEN FALSE ELSE @]
  /\ pc' = "look" /\ stamp' = FALSE
  /\ Kept
  /\ UNCHANGED <<door, unread, mail, cnt, taskReact, goal, asked, board, owed,
                 tally, left>>

(* It has none: an automatic compaction of the main agent is rescued by a    *)
(* rebuild boundary, once in a run and if one can be rendered.               *)
CompactionFails ==
  /\ pc \in {"compactAuto", "compactManual"}
  /\ stamp' = FALSE
  /\ \/ /\ pc = "compactAuto" /\ ~ cnt.rescued
        /\ win' = Boundary(win, "no")
        /\ cnt' = [cnt EXCEPT !.rescued = TRUE, !.skip = TRUE]
        /\ pc' = "look"
        /\ UNCHANGED door
     \/ /\ win' = [win EXCEPT !.last = "summary", !.err = TRUE,
                              !.fresh = unread = "no"]
        /\ LeaveOnError
        /\ UNCHANGED cnt
  /\ Kept
  /\ UNCHANGED <<unread, mail, taskReact, goal, asked, board, owed, tally,
                 left>>

(* The step before the model call: the last finished message overflows the   *)
(* context.  A rebuild boundary, or a compaction marker when none renders.   *)
Overflow ==
  /\ ToCall /\ ~ cnt.skip /\ seen.check
  /\ Spend("overs")
  /\ \/ \E tail \in BOOLEAN : win' = Rebuilt(win, tail)
     \/ win' = Boundary(win, "auto")
  /\ cnt' = [cnt EXCEPT !.skip = TRUE]
  /\ pc' = "look"
  /\ Kept
  /\ UNCHANGED <<door, unread, mail, taskReact, goal, asked, board, owed,
                 stamp, tally>>

-----------------------------------------------------------------------------
(* The step of the model.                                                    *)

(* After a step with window w and counters c: on to the next iteration, or   *)
(* to the gates of a broken step.  A text that repeats the ones before it    *)
(* overrides both: a recovery message, and at its cap the end of the run.    *)
Settle(w, c, again, text) ==
  LET said == IF text /\ c.said < TextTrigger THEN c.said + 1 ELSE c.said
      d    == [c EXCEPT !.said = said, !.skip = FALSE]
      Ends == IF again THEN pc' = "look" /\ UNCHANGED door
                       ELSE pc' = "tasks" /\ door' = "break"
  IN
  /\ \/ /\ Ends
        /\ win' = w /\ cnt' = d
     \/ /\ text /\ said = TextTrigger /\ c.loops < MaxLoops
        /\ win' = Nudge(w) /\ cnt' = [d EXCEPT !.loops = @ + 1, !.said = 0]
        /\ pc' = "look"
        /\ UNCHANGED door
     \/ /\ text /\ said = TextTrigger /\ c.loops >= MaxLoops
        /\ win' = w /\ cnt' = d
        /\ LeaveOnError
  /\ stamp' = FALSE
  /\ Kept
  /\ UNCHANGED <<unread, mail, taskReact, goal, asked, tally>>

(* What the tools of a step did to the work: nothing a gate looks for, an    *)
(* edit of source, a verify_done that passed, one that failed.  A message    *)
(* of the user that came in meanwhile starts a turn after the step.          *)
Worked(w, effect) ==
  IF unread = "prompt" THEN [w EXCEPT !.evidence = TRUE]
  ELSE [w EXCEPT !.evidence = TRUE, !.progress = @ \/ unread = "no",
                 !.dirty = CASE effect = "edit"  -> TRUE
                             [] effect = "green" -> FALSE
                             [] OTHER            -> @,
                 !.red   = CASE effect = "red"   -> TRUE
                             [] effect = "green" -> FALSE
                             [] OTHER            -> @]

(* Tools ran (refused: the user denied one of them, which ends the step).    *)
(* They may open and settle tasks.                                           *)
UseTools ==
  /\ ToCall /\ Spend("works")
  /\ \E effect \in {"none", "edit", "green", "red"}, text, refused \in BOOLEAN :
       /\ Settle(Worked(Produced(IF refused THEN "open" ELSE "tools", FALSE), effect),
                 Rearm(cnt), ~ refused, text)
       /\ owed' = IF unread = "prompt" THEN owed
                  ELSE effect = "edit" \/ (owed /\ effect # "green")
  /\ board' \in BOOLEAN

(* A text that stops of its own accord: the next iteration classifies it.    *)
Answer ==
  /\ ToCall
  /\ \E k \in {"answer", "echo"} :
       Settle(Produced(k, FALSE), Rearm(cnt), TRUE, TRUE)
  /\ UNCHANGED <<board, owed, left>>

(* A step that is no answer: mended here, or broken at the cap.              *)
Misstep ==
  /\ ToCall
  /\ \E k \in {"cut", "prose", "think"} :
       \E r \in Mend(Produced(k, FALSE), cnt) :
         Settle(r.win, r.cnt, r.again, k # "think")
  /\ UNCHANGED <<board, owed, left>>

(* A model error, a filtered answer.                                         *)
Fail ==
  /\ ToCall
  /\ Settle(Produced("failed", TRUE), cnt, FALSE, FALSE)
  /\ UNCHANGED <<board, owed, left>>

(* handleTextRepeat: the stream was cut off because its text goes in circles.*)
Repeat ==
  /\ ToCall
  /\ LET w == Produced("open", FALSE) IN
     IF cnt.ngram <= MaxNgram
     THEN Settle(Nudge(w), [cnt EXCEPT !.ngram = @ + 1], TRUE, TRUE)
     ELSE Settle(w, cnt, FALSE, TRUE)
  /\ UNCHANGED <<board, owed, left>>

(* The provider reports that the context overflowed: a rebuild boundary or,  *)
(* without a checkpoint, a compaction marker, and on; nothing counts them.   *)
ProviderOverflow ==
  /\ ToCall
  /\ EndlessOverflow \/ left.overs > 0
  /\ left' = IF EndlessOverflow THEN left ELSE [left EXCEPT !.overs = @ - 1]
  /\ \E k \in {"open", "answer"} :
       LET w == Produced(k, FALSE) IN
       \E v \in {Rebuilt(w, tail) : tail \in BOOLEAN} \cup {Boundary(w, "auto")},
          text \in BOOLEAN, c \in {cnt, Rearm(cnt)} :
         (text => c = Rearm(cnt)) /\ Settle(v, c, TRUE, text)
  /\ UNCHANGED <<board, owed>>

-----------------------------------------------------------------------------
(* The gates, in the order both doors take them.                             *)

(* A gate sends the model back to work.                                      *)
SendBack ==
  /\ pc' = "look" /\ door' = "none"
  /\ win' = Nudge(win)

(* A mutant of TaskGate: the counter starts over when the turn may end.      *)
TaskGateRearms ==
  /\ pc = "tasks"
  /\ IF board /\ taskReact < MaxTaskReact
     THEN /\ SendBack
          /\ taskReact' = taskReact + 1
          /\ tally' = [tally EXCEPT !.task = @ + 1, !.total = @ + 1]
     ELSE /\ pc' = "verify"
          /\ taskReact' = 0
          /\ UNCHANGED <<door, win, tally>>
  /\ Kept
  /\ UNCHANGED <<unread, mail, cnt, goal, asked, board, owed, stamp, left>>

(* taskGate.                                                                 *)
TaskGate ==
  /\ pc = "tasks"
  /\ IF board /\ taskReact < MaxTaskReact
     THEN /\ SendBack
          /\ taskReact' = taskReact + 1
          /\ tally' = [tally EXCEPT !.task = @ + 1, !.total = @ + 1]
     ELSE /\ pc' = "verify"
          /\ UNCHANGED <<door, win, taskReact, tally>>
  /\ Kept
  /\ UNCHANGED <<unread, mail, cnt, goal, asked, board, owed, stamp, left>>

(* The gate after the verify gate: only an answer can be a stall.            *)
AfterVerify == pc' = IF door = "answer" THEN "stall" ELSE "goal"

(* A mutant of VerifyGate: at the cap the stop is honoured in silence.       *)
VerifyGateSilent ==
  /\ pc = "verify"
  /\ IF win.dirty /\ Verifiable /\ cnt.verifies < MaxVerify
     THEN /\ SendBack /\ Reenter
          /\ cnt' = [cnt EXCEPT !.verifies = @ + 1]
     ELSE AfterVerify /\ UNCHANGED <<door, win, cnt, tally>>
  /\ Kept
  /\ UNCHANGED <<unread, mail, taskReact, goal, asked, board, owed, stamp, left>>

(* autoContinueUnverified: at the cap the NOT DONE marker is stamped, once,  *)
(* on the assistant message this iteration read.                             *)
VerifyGate ==
  /\ pc = "verify"
  /\ \/ /\ win.dirty /\ Verifiable /\ cnt.verifies < MaxVerify
        /\ SendBack /\ Reenter
        /\ cnt' = [cnt EXCEPT !.verifies = @ + 1]
        /\ UNCHANGED stamp
     \/ /\ win.dirty /\ Verifiable /\ cnt.verifies >= MaxVerify
        /\ seen.prior /\ ~ cnt.marked
        /\ cnt' = [cnt EXCEPT !.marked = TRUE]
        /\ stamp' = (door = "answer")
        /\ AfterVerify
        /\ UNCHANGED <<door, win, tally>>
     \/ /\ \/ ~ win.dirty \/ ~ Verifiable
           \/ cnt.verifies >= MaxVerify /\ (cnt.marked \/ ~ seen.prior)
        /\ AfterVerify
        /\ UNCHANGED <<door, win, cnt, tally, stamp>>
  /\ Kept
  /\ UNCHANGED <<unread, mail, taskReact, goal, asked, board, owed, left>>

(* postCompactionStall, once in a run.                                       *)
StallGate ==
  /\ pc = "stall"
  /\ IF seen.stalled /\ ~ cnt.resumed
     THEN /\ SendBack /\ Reenter
          /\ cnt' = [cnt EXCEPT !.resumed = TRUE]
     ELSE /\ pc' = "goal"
          /\ UNCHANGED <<door, win, cnt, tally>>
  /\ Kept
  /\ UNCHANGED <<unread, mail, taskReact, goal, asked, board, owed, stamp, left>>

(* The goal gate lets the turn end: the last door of an answer.              *)
AfterGoal == pc' = IF door = "answer" THEN "guard" ELSE "leave"

Cleared == goal' = [NoGoal EXCEPT !.id = goal.id]

(* goalGate before the judge.  goalStopLayerFires: an automatic goal the     *)
(* judge has not refused yet is dropped when there is nothing to verify and  *)
(* the session shows no work, or the harness refused the calls of the turn.  *)
GoalGate ==
  /\ pc = "goal"
  /\ LET Terminal == goal.kind = "auto" /\ goal.react = 0 /\ ~ win.dirty IN
     \/ /\ goal.kind = "none"
        /\ AfterGoal /\ UNCHANGED <<goal, asked>>
     \/ /\ Terminal
        /\ Cleared /\ AfterGoal /\ UNCHANGED asked
     \/ /\ goal.kind # "none" /\ (Terminal => win.evidence)
        /\ asked' = [id |-> goal.id, auto |-> goal.kind = "auto", bad |-> Bad(win),
                     progress |-> win.progress]
        /\ pc' = "judge" /\ UNCHANGED goal
  /\ Kept
  /\ UNCHANGED <<door, unread, mail, win, cnt, taskReact, board, owed, stamp,
                 tally, left>>

(* The judge accepted (also when it failed, or called the goal impossible):  *)
(* whatever goal there is now is cleared.                                    *)
GoalMet ==
  /\ Cleared /\ AfterGoal
  /\ UNCHANGED <<door, win, tally>>

(* It refused, or the harness overrode it.  bumpReact of a goal that is gone *)
(* yields 0, and the turn goes on for the goal it asked about.               *)
GoalOpen ==
  LET n   == IF goal.kind = "none" THEN 0 ELSE goal.react + 1
      cap == IF asked.auto /\ ~ asked.progress THEN SoftGoal ELSE MaxGoal
  IN IF n > cap
     THEN Cleared /\ AfterGoal /\ UNCHANGED <<door, win, tally>>
     ELSE /\ goal' = [goal EXCEPT !.react = n]
          /\ SendBack /\ Reenter

(* goalGate after the judge's answer.                                        *)
Judge ==
  /\ pc = "judge"
  /\ \E verdict \in {"ok", "ends", "no"} :
       IF verdict = "ends" \/ (verdict = "ok" /\ ~ asked.bad) THEN GoalMet ELSE GoalOpen
  /\ asked' = NotAsked
  /\ Kept
  /\ UNCHANGED <<unread, mail, cnt, taskReact, board, owed, stamp, left>>

(* A mutant of FinishGuard: it is not counted.                               *)
FinishGuardUncounted ==
  /\ pc = "guard"
  /\ IF seen.bad THEN SendBack /\ Reenter
     ELSE pc' = "leave" /\ UNCHANGED <<door, win, tally>>
  /\ Kept
  /\ UNCHANGED <<unread, mail, cnt, taskReact, goal, asked, board, owed, stamp, left>>

(* The last door of an answer: the signature of what the iteration read.     *)
FinishGuard ==
  /\ pc = "guard"
  /\ IF seen.bad /\ cnt.guard < MaxGuard
     THEN /\ SendBack /\ Reenter
          /\ cnt' = [cnt EXCEPT !.guard = @ + 1]
     ELSE pc' = "leave" /\ UNCHANGED <<door, win, cnt, tally>>
  /\ Kept
  /\ UNCHANGED <<unread, mail, taskReact, goal, asked, board, owed, stamp, left>>

(* The run ends and its fiber settles.                                       *)
Leave ==
  /\ pc = "leave"
  /\ pc' = "idle" /\ door' = "none" /\ cnt' = NewRun
  /\ tally' = [tally EXCEPT !.total = 0]
  /\ Kept
  /\ UNCHANGED <<unread, mail, win, taskReact, goal, asked, board, owed, stamp, left>>

Gates == TaskGate \/ VerifyGate \/ StallGate \/ GoalGate \/ Judge \/ FinishGuard

Loop ==
  \/ Look \/ StartCompaction \/ Compacted \/ CompactionFails \/ Overflow
  \/ UseTools \/ Answer \/ Misstep \/ Fail \/ Repeat \/ ProviderOverflow
  \/ Gates \/ Leave

Outside ==
  \/ Prompt \/ ClearGoal \/ SubagentTurn \/ Send \/ Summarize \/ Cancel \/ Crash

Next == Loop \/ Outside

Spec == Init /\ [][Next]_vars

(* The run's fiber is scheduled, and every model call, judge call and        *)
(* compaction returns (they carry timeouts).  Nothing is assumed of users,   *)
(* subagents and the inbox.                                                  *)
FairSpec == Spec /\ WF_vars(Loop)

-----------------------------------------------------------------------------
(* Properties.                                                               *)

(* The task gate sends a turn back at most MaxTaskReact times, and as often  *)
(* again for every subagent turn that starts meanwhile (it re-arms the       *)
(* counter of the session).                                                  *)
TaskBudget == tally.task <= MaxTaskReact * (1 + tally.spawns)

(* The end gates compose as a sum of their caps and not as a product: in one *)
(* run, and since the last prompt, all of them together send the model back  *)
(* at most this often, whatever the judge says and in whatever order they    *)
(* alternate.  (One more for a goal that is cleared while the judge is out.) *)
GoalCap == IF SoftGoal > MaxGoal THEN SoftGoal ELSE MaxGoal

SumOfCaps ==
  tally.total <= MaxVerify + 1 + MaxGuard + (GoalCap + 1)
                   + MaxTaskReact * (1 + tally.spawns)

(* The force-verify gate: a run can never end on a silent "done".  One that  *)
(* ends through the gates with source edits that no green verify followed    *)
(* has stamped the NOT DONE marker.  (True while no context boundary hides   *)
(* the edits from the gate.)                                                 *)
HonestStop ==
  pc = "leave" /\ door # "error" /\ owed /\ Verifiable => cnt.marked

(* The turn is never ended on an answer that is older than a user message    *)
(* the loop has read.                                                        *)
NoStaleStop ==
  pc = "leave" /\ door = "answer" => win.fresh \/ unread # "no"

(* Every run ends: the re-entries of all gates, retries, nudges, context     *)
(* boundaries and repairs are bounded as long as the model's tool calls are. *)
RunEnds == pc # "idle" ~> pc = "idle"

(* What comments, documents and tests of the source say, and the loop does   *)
(* not do.                                                                   *)

(* The task gate's budget is never re-armed within a turn.                   *)
TaskBudgetOfTurn == tally.task <= MaxTaskReact

(* The NOT DONE marker is on the final assistant message.                    *)
MarkerOnFinal ==
  pc = "leave" /\ door # "error" /\ cnt.marked /\ owed => stamp

(* The finish guard is consulted always where a turn ends.                   *)
GuardAtEveryEnd ==
  pc = "leave" /\ door # "error" /\ seen.bad => cnt.guard = MaxGuard

(* A prompt given during a run is seen by a model call before the session    *)
(* comes to rest.                                                            *)
PromptAnswered == pc = "idle" => unread # "prompt"

(* An explicit goal is dropped only by a verdict on it, or by the user.      *)
GoalNotClobbered ==
  [][ pc = "judge" /\ pc' \notin {"judge", "idle"}
        /\ goal.kind = "explicit" /\ goal'.kind = "none"
      => goal.id = asked.id ]_vars

(* The model is not called while the newest context boundary is a compaction *)
(* that has not happened.                                                    *)
MarkerProcessed == pc = "call" => seen.marker # "buried"
=============================================================================
