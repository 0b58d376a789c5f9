SPECIFICATION Spec
CONSTANTS
  Width = 4
  StartPos <- TwoWindows
  RingSize = 1
  QueueSize = 4
  Steps <- MCSteps
  Clock = {1}
  Plans <- MCPlans
INVARIANTS DragsFollow ScreenCurrent FreedUntouched
PROPERTIES Drained
CHECK_DEADLOCK FALSE
