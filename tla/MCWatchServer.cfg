CONSTANTS
  MaxFrames = 2
  MaxCrash = 3
  MaxEdits = 1
  RapidFailures = 3
  None = None
SPECIFICATION FairSpec
CHECK_DEADLOCK FALSE
INVARIANTS FramesConserved
PROPERTIES RunsLatestSource EofExits
