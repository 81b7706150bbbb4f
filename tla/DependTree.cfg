SPECIFICATION Spec
CONSTANTS
  all = all
  prog = prog
  obj = obj
  lib = lib
  src = src
  Goals <- MCGoals
  Makefiles <- SomeMakefiles
  Invocations <- SomeInvocations
  NestingLimit = 8
  SearchLimit = 6
  MaxClock = 4
INVARIANTS TypeOK Consistent
PROPERTIES BuiltFromCurrent NothingTwice IntermediatesRemoved ForcedAreRun
CHECK_DEADLOCK FALSE
