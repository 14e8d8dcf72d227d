\* Two starts before the first session marks itself running.
SPECIFICATION DaemonSpec
CONSTANTS
  Tids = {t1, t2}
  Agps = TRUE
  Posts = {}
  MaxSessions = 2
  MaxPosts = 0
  NoTid = NoTid
  StartArgs = {"warm"}
  ClientCmds = {"set_start_w"}
  ChkCnt = 1
  Spaced = FALSE
  MaxCmds = 1
  MaxInitFail = 0
CHECK_DEADLOCK FALSE
PROPERTIES
  HelperOnce
