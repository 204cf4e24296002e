\* A reschedule that read an unpaid hold writes after the payment.
SPECIFICATION FairSpec
CONSTANTS
  Appt = {a1}
  Pro = {p1}
  Slots <- FarSlots
  Buffer = 1
  MonthlyLimit = 9
  Waiter = {}
  NoWaiter = NoWaiter
  Req = {r1, r2}
  Sweeper = Sweeper
  NoReq = NoReq
  NoAppt = NoAppt
  Ops = {"book", "move", "hook", "sweep"}
  Deposits = {TRUE}
  MaxFailures = 0
PROPERTIES HoldEnds
CHECK_DEADLOCK FALSE
