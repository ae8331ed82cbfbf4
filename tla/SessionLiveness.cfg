SPECIFICATION Spec
CONSTANTS
  MaxTokens = 4
  b1 = b1
  b2 = b2
  c1 = c1
  c2 = c2
  c3 = c3
  NoCall = NoCall
  Tabs  = {b1}
  Calls = {c1, c2}
  TabOf <- OneTab
  Faults = {"server", "network", "expiry"}
CHECK_DEADLOCK FALSE
PROPERTY
  CallsSettle
