SPECIFICATION MCSpec
CONSTANTS
  Users = {u1, u2}
  Nobody = Nobody
  Calls = {c1, credit}
  CreditCall = credit
  MaxFailures = 2
  Slots = {1, 2}
  all = all
  found = found
  foundPage2 = foundPage2
  Queries = {all, found, foundPage2}
  FirstPage <- MCFirstPage
  Start = all
  Listed = {e1}
  None = None
  MaxKeys = 1
  MaxFaults = 1
INVARIANTS
  ListMatchesQuery
  OneOrderPerDraft
PROPERTIES
  PagesAreLeft
  RequestsEnd
  BalanceCatchesUp
  EndIsShown
  ButtonsComeBack
CHECK_DEADLOCK FALSE
