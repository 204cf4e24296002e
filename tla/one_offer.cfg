\* One opening, two customers called.
SPECIFICATION Spec
CONSTANTS
  Appt = {a1}
  Pro = {p1}
  Slots <- OneSlot
  Buffer = 1
  MonthlyLimit = 9
  Waiter = {1, 2}
  NoWaiter = NoWaiter
  Req = {r1, r2}
  Sweeper = Sweeper
  NoReq = NoReq
  NoAppt = NoAppt
  Ops = {"book", "cancel"}
  Deposits = {FALSE}
  MaxFailures = 0
SYMMETRY ReqSymmetry
INVARIANTS OneOfferPerOpening
CHECK_DEADLOCK FALSE
