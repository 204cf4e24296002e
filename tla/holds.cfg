\* Every unpaid hold and every open charge comes to an end.
SPECIFICATION FairSpec
CONSTANTS
  Appt = {a1}
  Pro = {p1}
  Slots <- OneSlot
  Buffer = 1
  MonthlyLimit = 9
  Waiter = {}
  NoWaiter = NoWaiter
  Req = {r1, r2}
  Sweeper = Sweeper
  NoReq = NoReq
  NoAppt = NoAppt
  Ops = {"book", "confirm", "cancel", "hook", "sweep"}
  Deposits = {TRUE}
  MaxFailures = 2
PROPERTIES PaidNeverReleased HoldEnds ChargeEnds
CHECK_DEADLOCK FALSE
