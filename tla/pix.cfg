\* One deposit: webhooks, sweeps, the staff and the customer's link in every order.
SPECIFICATION Spec
CONSTANTS
  Appt = {a1}
  Pro = {p1}
  Slots <- FarSlots
  Buffer = 1
  MonthlyLimit = 9
  Waiter = {}
  NoWaiter = NoWaiter
  Req = {r1, r2}
  Sweeper = Sweeper
  NoReq = NoReq
  NoAppt = NoAppt
  Ops = {"book", "move", "staff", "hook", "sweep"}
  Deposits = {TRUE}
  MaxFailures = 1
SYMMETRY ReqSymmetry
INVARIANTS TypeOK DepositNeverBypassed PaidMeansApproved
PROPERTIES ThankedOncePaid
CHECK_DEADLOCK FALSE
