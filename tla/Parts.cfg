SPECIFICATION Spec
CONSTANTS
  d1 = d1
  d2 = d2
  k1 = k1
  k2 = k2
  k3 = k3
  p1 = p1
  p2 = p2
  s1 = s1
  f1 = f1
  f2 = f2
  e1 = e1
  e2 = e2
  Creates = {k1, k2, k3}
  Removals = {d1, d2}
  Wanted <- TwoRemovals
  Projects = {p1, p2}
  SlugOf <- OneSlug
  Repos = {r1, r2}
  Contributions = {c1}
  Clients = {q1, q2}
  Nothing = Nothing
  Times = {1, 2}
  Ids = {1, 2, 3}
  Limits = {0, 1, 3}
  DEFAULT_PAGE_LIMIT = 1
  MAX_PAGE_LIMIT = 2
  Chains = {h1, h2, h3}
  First = h1
  NoChain = NoChain
  Entries = {e1, e2}
  Filters = {f1, f2}
  AllRows = f1
  Matching <- TwoFilters
  MaxLoads = 2
  Posts = {j1, j2}
  MaxRotations = 2
CHECK_DEADLOCK FALSE
INVARIANTS
  TypeOK
  SupersededGone
  NeverLeftWithout
  NoDanglingRow
  WalkComplete
  SettledPageIsCurrent
  OwnChangesShown
  TakenOnce
  RetryIsFresh
PROPERTIES
  PollingEnds
