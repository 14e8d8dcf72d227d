\* Three ports for two slots, one of them also sent to without waiting; five calls and two
\* faults.
SPECIFICATION FairSpec
CONSTANTS
  MaxReuse = 2
  RecvPorts = {1, 2, 3}
  SendPorts = {2}
  MaxCalls = 5
  MaxFaults = 2
CHECK_DEADLOCK FALSE
INVARIANTS
  TypeOK
PROPERTIES
  AnswerOfPort
  AnswersInOrder
  LagBounded
  CallReturns
