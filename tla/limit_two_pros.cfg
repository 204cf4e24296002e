\* Two professionals, two locks, one monthly limit.
SPECIFICATION Spec
CONSTANTS
  Appt = {a1, a2}
  Pro = {p1, p2}
  Slots <- OneSlot
  Buffer = 1
  MonthlyLimit = 1
  Waiter = {}
  NoWaiter = NoWaiter
  Req = {r1, r2}
  Sweeper = Sweeper
  NoReq = NoReq
  NoAppt = NoAppt
  Ops = {"book"}
  Deposits = {FALSE}
  MaxFailures = 0
SYMMETRY ReqSymmetry
INVARIANTS WithinMonthlyLimit
CHECK_DEADLOCK FALSE
