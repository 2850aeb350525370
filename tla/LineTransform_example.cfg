SPECIFICATION Spec
CONSTANTS
  NO_TASK = NO_TASK
  NoLabel = NoLabel
  NoName = NoName
  Files <- ExampleTasks
INVARIANTS
  CallsWithinTask
CHECK_DEADLOCK FALSE
