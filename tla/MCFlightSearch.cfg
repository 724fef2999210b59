CONSTANTS
  Resp = {r1, r2}
  Deadline = 36
  Grace = 12
  StallPolls = 3
  Enough = 3
  Refunnel = 4
  None = None
SPECIFICATION FairSpec
INVARIANTS NoStreamIsNoEmptyRoute SilenceIsShort
PROPERTY SearchReturns
