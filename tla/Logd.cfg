\* Three threads and six messages; socket() may fail twice, sendto once.
SPECIFICATION Spec
CONSTANTS
  Threads = {a, b, c}
  MaxMsgs = 6
  MaxFails = 2
  MaxRefused = 1
CHECK_DEADLOCK FALSE
INVARIANTS
  TypeOK
  LeakBounded
  LossBounded
