SPECIFICATION FairSpec
CONSTANTS
  c1 = c1
  c2 = c2
  Stream <- MCStream
  WT_MAX_STREAMS = 2
  WT_LINE_MAX = 2
  Commands <- MCCommands
  REPLY_PARTS = 2
  Troubles = {"reset", "drop", "silent"}
  MAX_TROUBLES = 1
INVARIANTS AskedIsTyped AnswersItsOwn SeatsAreDistinct SeatsAreGivenBack LinesAreRuns
PROPERTY EveryCommandAnswered
CHECK_DEADLOCK FALSE
