\* A set_stop that meets the watchdog at its limit is undone by it.
SPECIFICATION Spec
CONSTANTS
  Tids = {t1, t2}
  NoTid = NoTid
  StartArgs = {"warm"}
  ClientCmds = {"set_start_w", "set_stop", "set_reset_w"}
  ChkCnt = 1
  Spaced = FALSE
  MaxCmds = 1
  MaxInitFail = 1
PROPERTIES
  ForcedOffStaysOff
