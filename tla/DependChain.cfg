SPECIFICATION Spec
CONSTANTS
  all = all
  prog = prog
  obj = obj
  lib = lib
  src = src
  Goals <- MCGoals
  Makefiles <- OnlyNamedInChain
  Invocations <- SomeInvocations
  NestingLimit = 8
  SearchLimit = 6
  MaxClock = 4
PROPERTY NamedFilesKept
CHECK_DEADLOCK FALSE
