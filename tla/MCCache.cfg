CONSTANTS
  Key = {k1, k2, k3}
  Value = {json, page, big_page, huge_page}
  Ttl = {1, 2}
  MaxEntries = 2
  ByteCap = 3
  None = None
  json = json
  page = page
  big_page = big_page
  huge_page = huge_page
  SizeOf <- MCSizeOf
SPECIFICATION Spec
INVARIANTS WithinBudget
PROPERTIES PutIsKept IsLossyMap
