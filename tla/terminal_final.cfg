\* A terminal status is left by a write decided on an older read.
SPECIFICATION Spec
CONSTANTS
  Appt = {a1}
  Pro = {p1}
  Slots <- OneSlot
  Buffer = 1
  MonthlyLimit = 9
  Waiter = {}
  NoWaiter = NoWaiter
  Req = {r1, r2}
  Sweeper = Sweeper
  NoReq = NoReq
  NoAppt = NoAppt
  Ops = {"book", "confirm", "cancel", "staff"}
  Deposits = {FALSE}
  MaxFailures = 0
SYMMETRY ReqSymmetry
PROPERTIES TerminalIsFinal
CHECK_DEADLOCK FALSE
