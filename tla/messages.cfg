\* One appointment booked, moved and cancelled while workers send.
SPECIFICATION FairSpec
CONSTANTS
  Appt = {a1}
  Start = {2, 3}
  Job = {1, 2, 3, 4, 5}
  r1 = r1
  r2 = r2
  w1 = w1
  w2 = w2
  Req = {r1, r2}
  Worker = {w1, w2}
  Leads = {1}
  Limits <- MCLimits
  MaxTries = 2
  MaxClock = 1
  NoAppt = NoAppt
  NoJob = NoJob
INVARIANTS TypeOK OneCopyPerWorker ActiveIsReminded
PROPERTIES RemindersAreCurrent BacklogDrains
CHECK_DEADLOCK FALSE
