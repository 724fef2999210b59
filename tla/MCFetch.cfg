CONSTANTS
  EC = {train_page}
  Leg = {l1, l2}
  Key = {t1, s1}
  PageClass = {train_page}
  Unvalidated = {s1}
  ForceMin = 0
  OpenCircuit = 3
  DemoteAfter = 2
  MaxFailures = 2
  RecoverAfter = 1
  None = None
  hotel_api = hotel_api
  train_page = train_page
  h1 = h1
  t1 = t1
  s1 = s1
  Preferred <- MCPreferred
  Ceiling <- MCCeiling
  ClassOf <- MCClassOf
SPECIFICATION Spec
SYMMETRY Symmetry
INVARIANTS HealthConsistent NoPlanWhileOpen GivesUpOnlyAtCeiling CacheHoldsOnlyUsable
PROPERTIES RouterSpec
