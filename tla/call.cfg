SPECIFICATION ProgramSpec
CONSTANTS
  Ops <- AllOps
  MaxCalls = 3
  MaxLines = 3
  RespSize = 8
  Space = " "
  Newline = "nl"
  Lines <- SomeLines
INVARIANTS AnswerIsMine ExecutedOnce AnswersAreShown CommandsAsTyped
CHECK_DEADLOCK FALSE
