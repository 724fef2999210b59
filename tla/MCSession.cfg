CONSTANTS
  Leg = {request1, recover1, status1}
  Modes = {"cdp", "playwright"}
  MaxLaunch = 3
  MaxCrash = 1
  IdleTimeout = 2
  Slots = 1
  None = None
  page1 = page1
  page2 = page2
  request1 = request1
  request2 = request2
  recover1 = recover1
  status1 = status1
  Role <- MCRole
SPECIFICATION Spec
INVARIANTS WarmMeansContext OneBrowser ReaperWatchesContext
PROPERTY ReaperSparesWork
