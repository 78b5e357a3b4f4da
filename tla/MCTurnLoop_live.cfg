SPECIFICATION FairSpec
CONSTANTS
  MaxLength = 0
  MaxStalls = 1
  MaxInvalid = 1
  MaxTextTool = 1
  MaxVerify = 0
  MaxNgram = 0
  MaxLoops = 1
  TextTrigger = 1
  MaxGuard = 0
  MaxTaskReact = 0
  SoftGoal = 0
  MaxGoal = 0
  Verifiable = TRUE
  EndlessOverflow = FALSE
  Works = 1
  Overflows = 1
  Summaries = 1
  Prompts = 0
  Spawns = 0
  Mails = 0
  Stops = 0
CHECK_DEADLOCK FALSE
PROPERTIES
  RunEnds
