\* Customers on one professional's morning, no deposit, two customers waiting.
SPECIFICATION Spec
CONSTANTS
  Appt = {a1, a2, a3}
  Pro = {p1}
  Slots <- ThreeSlots
  Buffer = 1
  MonthlyLimit = 2
  Waiter = {1, 2}
  NoWaiter = NoWaiter
  Req = {r1, r2}
  Sweeper = Sweeper
  NoReq = NoReq
  NoAppt = NoAppt
  Ops = {"book", "confirm", "cancel", "move"}
  Deposits = {FALSE}
  MaxFailures = 0
SYMMETRY ReqSymmetry
INVARIANTS BufferKept WithinMonthlyLimit
PROPERTIES CalendarSpec CalledInTurn
CHECK_DEADLOCK FALSE
