CONSTANTS
  Place = {goa}
  MaxLines = 1
  MaxCall = 3
  None = None
SPECIFICATION Spec
INVARIANTS OwnReply AnsweredIsOnFile CutCostsOneAnswer
PROPERTY OneIdentity
CHECK_DEADLOCK FALSE
