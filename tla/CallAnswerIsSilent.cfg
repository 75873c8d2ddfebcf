SPECIFICATION Spec
CONSTANTS
  o1 = o1
  i1 = i1
  Outgoing <- MCOutgoing
  Incoming <- MCIncoming
  NoCall = NoCall
  Trickled <- MCOutgoing
  MaxGen = 1
INVARIANTS
  AnswerIsSilent
CHECK_DEADLOCK FALSE
