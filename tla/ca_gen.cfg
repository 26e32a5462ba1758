SPECIFICATION Spec
CONSTANTS
  a = a
  b = b
  NoCA = NoCA
  NoProc = NoProc
  CAs = {a, b}
  Read = {a}
  Procs = {p1, p2}
  Jobs <- MCJobs
  There <- MCThere
INVARIANTS
  TypeOK
  
  KeysMatch
  NothingVanishes
  MarkUnderLock
PROPERTIES
  JobsEnd
CHECK_DEADLOCK FALSE
