SPECIFICATION FairSpec
CONSTANTS
  all = all
  a = a
  b = b
  c = c
  d = d
  Main = "main"
  NoNode = "none"
  Nodes <- DiamondNodes
  Goals <- DiamondGoals
  GoalOf <- DiamondGoalOf
  Children <- DiamondChildren
  Lines <- LinesOf
  Ignored <- SecondIgnored
  Outcomes <- Exits
  Options <- MostOptions
  MaxJobs = 1
  Windows = TRUE
  HoldUnits = 6
INVARIANTS TypeOK BuiltOnce PrerequisitesBuilt FailureStops FailureReported OwnRuleStack
PROPERTIES MakeEnds
