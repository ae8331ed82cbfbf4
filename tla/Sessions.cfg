SPECIFICATION Spec
CONSTANTS
  MaxTokens = 3
  b1 = b1
  b2 = b2
  c1 = c1
  c2 = c2
  c3 = c3
  NoCall = NoCall
  Tabs  = {b1, b2}
  Calls = {c1, c2, c3}
  TabOf <- TwoTabs
  Faults = {"server", "network"}
CHECK_DEADLOCK FALSE
INVARIANTS
  TypeOK
  ChainsEnd
  LogoutRevokesToken
  CookieCurrent
  NeverRefusedByOwnTab
