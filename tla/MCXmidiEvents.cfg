SPECIFICATION Spec
CONSTANTS
  key = key
  NumChannels = 2
  Drums = 1
  Keys <- MCKeys
  Values = {1, 2}
  Delays = {0, 2}
  Durations = {0, 2, 3}
  Bias = 1
  MaxItems = 3
INVARIANTS
  TypeOK
  InOrder
  DeltasAddUp
  NotesEnd
  NotesHeld
  ProgramBeforeNotes
  RunningStatusDecodes
CHECK_DEADLOCK FALSE
