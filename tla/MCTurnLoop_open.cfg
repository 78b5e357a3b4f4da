SPECIFICATION Spec
CONSTANTS
  MaxLength = 0
  MaxStalls = 0
  MaxInvalid = 0
  MaxTextTool = 0
  MaxVerify = 1
  MaxNgram = 0
  MaxLoops = 0
  TextTrigger = 2
  MaxGuard = 1
  MaxTaskReact = 1
  SoftGoal = 1
  MaxGoal = 2
  Verifiable = TRUE
  EndlessOverflow = FALSE
  Works = 1
  Overflows = 1
  Summaries = 0
  Prompts = 1
  Spawns = 1
  Mails = 1
  Stops = 0
CHECK_DEADLOCK FALSE
\* Promises the code does not keep: TLC stops at the first, so check one at a
\* time.
INVARIANT PromptAnswered
\* INVARIANT TaskBudgetOfTurn
\* PROPERTY GoalNotClobbered
\* INVARIANT MarkerProcessed
\* INVARIANT HonestStop
\* INVARIANT MarkerOnFinal
\* INVARIANT GuardAtEveryEnd
