SPECIFICATION Spec
CONSTANTS
  ByteBits = 2
  Environments <- Functions
  Starts <- Patterns
  Statements <- BodyStatements
  MaxStatements = 2
  Leftover = 1
INVARIANTS TypeOK MeansTheSame LowBytesRight OnlyAssigned Balanced
CHECK_DEADLOCK FALSE
