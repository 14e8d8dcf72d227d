\* Two or three sessions under the real manager, any of which may fail once; two callbacks.
SPECIFICATION DaemonFairSpec
CONSTANTS
  Tids = {t1, t2}
  Agps = TRUE
  Posts = {"OPEN_ATL", "XTRA_DATA"}
  MaxSessions = 3
  MaxPosts = 2
  NoTid = NoTid
  StartArgs = {"nostart"}
  ClientCmds = {"set_start_w", "set_stop", "set_reset_c"}
  ChkCnt = 1
  Spaced = TRUE
  MaxCmds = 3
  MaxInitFail = 1
CHECK_DEADLOCK FALSE
INVARIANTS
  TypeOK
  SessionsApart
  InterfaceReady
  ApnValid
PROPERTIES
  HelperOnce
  WorkAccounted
  NoStaleQuit
  SessionProgress
