\* A daemon started with nostart, driven by a client that leaves time between commands.
SPECIFICATION FairSpec
CONSTANTS
  Tids = {t1, t2, t3}
  NoTid = NoTid
  StartArgs = {"nostart"}
  ClientCmds = {"set_start_c", "set_start_w", "set_stop", "set_reset_c", "set_reset_w"}
  ChkCnt = 1
  Spaced = TRUE
  MaxCmds = 4
  MaxInitFail = 3
INVARIANTS
  SingleSession
  AnswerTrue
PROPERTIES
  StatTruth
  ServiceSafety
  ServiceSpec
