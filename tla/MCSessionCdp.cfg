CONSTANTS
  Leg = {page1, page2, recover1}
  Modes = {"cdp"}
  MaxLaunch = 2
  MaxCrash = 1
  IdleTimeout = 1
  Slots = 1
  None = None
  page1 = page1
  page2 = page2
  request1 = request1
  request2 = request2
  recover1 = recover1
  status1 = status1
  Role <- MCRole
SPECIFICATION FairSpec
PROPERTIES HandsOutLive EveryOpReturns
