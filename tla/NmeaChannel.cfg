\* Two sessions of short and long sentences; a buffer two long or three short ones fill,
\* the latter with a character too many, and any calls, with buffers too small for some
\* batches or large enough for all.
SPECIFICATION ChannelSpec
CONSTANTS
  Cap = 9
  Lens = {2, 3}
  MaxSentences = 6
  MaxSessions = 2
  IPC_BUFF_SIZE = 9
  BuffLens = {8, 10}
INVARIANTS
  ChannelTypeOK
PROPERTIES
  BatchesInOrder
  StaleOnlyFirst
  ReceivedWhole
  ReceivedOnce
  FreshFix
