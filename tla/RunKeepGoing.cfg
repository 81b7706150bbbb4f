SPECIFICATION Spec
CONSTANTS
  all = all
  a = a
  b = b
  c = c
  d = d
  Main = "main"
  NoNode = "none"
  Nodes <- DiamondNodes
  Goals <- DiamondGoals
  GoalOf <- DiamondGoalOf
  Children <- DiamondChildren
  Lines <- LinesOf
  Ignored <- SecondIgnored
  Outcomes <- Exits
  Options <- KeepGoingOneJob
  MaxJobs = 1
  Windows = TRUE
  HoldUnits = 6
INVARIANT FailureReported
