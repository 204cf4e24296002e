\* Two calls at a time in one tab or two, with one failure or two, a reset, a logout.
SPECIFICATION FairSpec
CONSTANTS
  Token = {1, 2, 3, 4, 5, 6}
  Link = {1, 2}
  k1 = k1
  k2 = k2
  b1 = b1
  b2 = b2
  Call = {k1, k2}
  Tab = {b1, b2}
  Csrf = {11, 12, 13, 14, 15, 16}
  Limits <- MCLimits
  NoToken = 0
  NoCall = NoCall
INVARIANTS TypeOK OneSuccessor BrowserInStep ResetStopsRenewal
PROPERTIES CallsEnd
CHECK_DEADLOCK FALSE
