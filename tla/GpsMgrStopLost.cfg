\* A set_stop that meets a session before it is armed waits for ever.
SPECIFICATION FairSpec
CONSTANTS
  Tids = {t1, t2}
  NoTid = NoTid
  StartArgs = {"nostart"}
  ClientCmds = {"set_start_w", "set_stop", "set_reset_w"}
  ChkCnt = 1
  Spaced = FALSE
  MaxCmds = 2
  MaxInitFail = 0
PROPERTIES
  StopReturns
