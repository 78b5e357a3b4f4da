SPECIFICATION Spec
CONSTANTS
  MaxLength = 0
  MaxStalls = 0
  MaxInvalid = 0
  MaxTextTool = 0
  MaxVerify = 1
  MaxNgram = 0
  MaxLoops = 0
  TextTrigger = 2
  MaxGuard = 1
  MaxTaskReact = 1
  SoftGoal = 0
  MaxGoal = 1
  Verifiable = TRUE
  EndlessOverflow = FALSE
  Works = 1
  Overflows = 0
  Summaries = 0
  Prompts = 1
  Spawns = 1
  Mails = 1
  Stops = 1
CHECK_DEADLOCK FALSE
INVARIANTS
  TaskBudget
  SumOfCaps
  HonestStop
  NoStaleStop
