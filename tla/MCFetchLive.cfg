CONSTANTS
  EC = {hotel_api}
  Leg = {l1, l2}
  Key = {h1}
  PageClass = {}
  Unvalidated = {}
  ForceMin = 0
  OpenCircuit = 2
  DemoteAfter = 2
  MaxFailures = 2
  RecoverAfter = 1
  None = None
  hotel_api = hotel_api
  train_page = train_page
  h1 = h1
  t1 = t1
  s1 = s1
  Preferred <- MCPreferred
  Ceiling <- MCCeiling
  ClassOf <- MCClassOf
SPECIFICATION FairSpec
PROPERTIES EveryCallReturns BlipHeals
