\* Every interleaving of main, the server and the sessions; fair threads.
SPECIFICATION FairSpec
CONSTANTS
  Tids = {t1, t2}
  NoTid = NoTid
  StartArgs = {"warm", "cold", "nostart", "other"}
  ClientCmds = {"set_start_w", "set_stop", "set_reset_c"}
  ChkCnt = 1
  Spaced = FALSE
  MaxCmds = 3
  MaxInitFail = 1
INVARIANTS
  TypeOK
  StatusSound
  JoinSafe
PROPERTIES
  WatchdogRevives
