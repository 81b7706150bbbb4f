SPECIFICATION SerialSpec
CONSTANTS
  top = top
  sm = sm
  a1 = a1
  a2 = a2
  a3 = a3
  b1 = b1
  b2 = b2
  NoProc = NoProc
  Root = top
  Procs <- TreeProcs
  Threads <- TreeThreads
  ProcOf <- TreeProcOf
  MaxJobs = 2
  PipeCapacity = 3
  StackBound = 2
INVARIANTS StackMatchesJobs BytesConserved AtMostOneExtra
PROPERTIES NeverAborts ImplementsJobSlots
