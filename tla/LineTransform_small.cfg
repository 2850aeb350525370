SPECIFICATION Spec
CONSTANTS
  NO_TASK = NO_TASK
  NoLabel = NoLabel
  NoName = NoName
  Files <- SmallFiles
INVARIANTS
  TasksExact
  VariablesUnique
  RegularCallsWithinTask
PROPERTIES
  FollowsSource
CHECK_DEADLOCK FALSE
