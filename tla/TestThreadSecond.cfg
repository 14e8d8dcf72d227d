\* XTRA data that arrives in a second session is never injected.
SPECIFICATION FairSpec
CONSTANTS
  Tids = {t1, t2}
  Agps = TRUE
  Posts = {"XTRA_DATA"}
  MaxSessions = 2
  MaxPosts = 1
CHECK_DEADLOCK FALSE
PROPERTIES
  DataInjected
