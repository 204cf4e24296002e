\* The pages of the desk and of a manage link.
SPECIFICATION FairSpec
CONSTANTS
  v1 = v1
  v2 = v2
  c1 = c1
  c2 = c2
  ana = ana
  bia = bia
  Visit = {v1, v2}
  Mine = v1
  Client = {c1, c2}
  Pro = {ana, bia}
  Owner = ana
  DAY = 2
  CANCEL_MIN = 1
  PAGE_SIZE = 1
  AT_RISK_DAYS = 1
  INACTIVE_DAYS = 2
  LOST_DAYS = 3
  VIP_MIN_VISITS = 2
  VIP_MIN_SPENT_CENTS = 2
  FREQUENT_MIN_VISITS = 1
  Limits <- MCLimits
  Nothing = Nothing
  NoTime = NoTime
INVARIANTS ActsOnWhatIsShown ListsAreOfFilters ShownIsStored NotesStayWithClient SegmentsAgree ReportWithinBounds BusyAwaits
PROPERTIES PagesSettle
CHECK_DEADLOCK FALSE
