SPECIFICATION Spec
CONSTANTS
  s1 = s1
  r1 = r1
  r2 = r2
  r3 = r3
  r4 = r4
  p1 = p1
  p2 = p2
  m1 = m1
  None = None
  Sessions <- OneSession
  Calls <- FourCalls
  Processes <- TwoProcesses
  Metas <- OneMeta
  MaxFaults = 1
SYMMETRY Symmetry
INVARIANTS
  TypeOK
  RuntimeOwnsRun
  RunsAreApart
  ExitIsRecorded
  RunningIsBacked
  NoLeak
PROPERTIES
  NoRevival
  ImplementsLifecycle
CHECK_DEADLOCK FALSE
