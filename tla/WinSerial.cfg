SPECIFICATION SerialSpec
CONSTANTS
  top = top
  sm = sm
  a1 = a1
  a2 = a2
  a3 = a3
  b1 = b1
  b2 = b2
  Procs <- TreeProcs
  Threads <- TreeThreads
  ProcOf <- TreeProcOf
  MaxJobs = 2
INVARIANTS UnitsConserved
PROPERTIES ImplementsJobSlots
