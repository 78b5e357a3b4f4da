SPECIFICATION FairSpec
CONSTANTS
  MaxLength = 0
  MaxStalls = 0
  MaxInvalid = 0
  MaxTextTool = 0
  MaxVerify = 1
  MaxNgram = 0
  MaxLoops = 0
  TextTrigger = 2
  MaxGuard = 1
  MaxTaskReact = 1
  SoftGoal = 1
  MaxGoal = 2
  Verifiable = TRUE
  EndlessOverflow = TRUE
  Works = 0
  Overflows = 0
  Summaries = 0
  Prompts = 0
  Spawns = 0
  Mails = 0
  Stops = 0
CHECK_DEADLOCK FALSE
PROPERTIES
  RunEnds
