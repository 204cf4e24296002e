----------------------------- MODULE Appointments -----------------------------
(***************************************************************************)
(* The agenda of one tenant: public booking, the customer's manage link,   *)
(* the dashboard's status changes, the PIX deposit and its reconciliation, *)
(* and the waitlist calls those make.                                      *)
(*                                                                         *)
(* The API runs its handlers concurrently, in several processes.  A        *)
(* handler is a sequence of steps, one per database transaction, statement *)
(* or external call, and any other handler may run between two of them: a  *)
(* handler in flight is a record in req that keeps what it has read (its   *)
(* seen status, its target) and where it goes on (pc).  A step whose       *)
(* condition makes the handler throw ends it; a first read that throws     *)
(* changes nothing and is not a step at all.                               *)
(*                                                                         *)
(* Left out: who may call what (tenant and member checks), the text of     *)
(* messages, the Redis caches, and the passing of calendar time except as  *)
(* TimePasses, so the booking window and cancelMinHours never refuse.      *)
(* Every appointment falls on one date and in one month of the tenant.     *)
(***************************************************************************)
EXTENDS FiniteSets, Intervals, AppointmentState

CONSTANTS
  Appt,          \* rows that may be created in the appointments table
  Pro,           \* the tenant's professionals
  Slots,         \* intervals offered, [from, to)
  Buffer,        \* tenant.bufferMinutes
  MonthlyLimit,  \* subscription.monthlyBookingLimit
  Waiter,        \* waitlist entries of the date, numbered by createdAt
  NoWaiter,      \* a customer who is not on the waitlist
  Req,           \* HTTP handlers that may be in flight together
  Sweeper,       \* the process that reconciles PIX charges
  NoReq, NoAppt,
  Ops,           \* the entry points used in this instance
  Deposits,      \* the values useOnlineDeposit may take
  MaxFailures    \* handlers that may die half way

Operations == {"book", "confirm", "cancel", "move", "staff", "hook", "sweep"}

ASSUME SlotsAssumption == Slots # {} /\ Slots \subseteq [from : Nat, to : Nat]
ASSUME ProAssumption == Pro # {}
ASSUME BufferAssumption == Buffer \in Nat
ASSUME LimitAssumption == MonthlyLimit \in Nat
ASSUME WaiterAssumption == Waiter \subseteq Nat /\ NoWaiter \notin Waiter
ASSUME ActorAssumption == NoReq \notin Req \cup {Sweeper} /\ Sweeper \notin Req
ASSUME ApptAssumption == NoAppt \notin Appt
ASSUME OptionsAssumption ==
  Ops \subseteq Operations /\ Deposits \subseteq BOOLEAN /\ MaxFailures \in Nat

VARIABLES
  status,     \* appointments.status, "NONE" before the row exists
  slot,       \* appointments.startsAt and endsAt
  pro,        \* appointments.professionalId
  charge,     \* pix_charges.status, "NONE" while there is no row
  payment,    \* the payment's status at Mercado Pago (external)
  due,        \* appointments whose charge expired or is 30 minutes old
  credited,   \* appointments with a CREDIT in the loyalty ledger
  mail,       \* appointments with a pending BOOKING_CONFIRMATION job
  wait,       \* waitlist_entries.status
  lock,       \* holder of each professional's advisory lock
  req,        \* handlers in flight
  failures,   \* handlers that have died so far
  \* History, read by no handler:
  deposit,    \* appointments created PENDING_PAYMENT
  unchecked,  \* made active again by a write that does not look at the agenda
  thanked,    \* appointments whose payment was confirmed to the customer
  offered,    \* waitlist entries that were ever notified
  freed       \* times an occupied interval opened

calendarVars == <<status, slot, pro>>
pixVars == <<charge, payment, due>>
ghostVars == <<deposit, unchecked, thanked, offered, freed>>
vars == <<calendarVars, pixVars, credited, mail, wait, lock, req, failures, ghostVars>>

Actor == Req \cup {Sweeper}

RowStatus == Status \cup {"NONE"}
PaymentStatus == {"pending", "approved", "cancelled", "expired", "refunded"}

\* The steps at which a handler in flight can be.
BookingTail == {"attend", "psp", "recheck", "charge", "refuse", "announce"}
Writes == {"confirm", "cancel", "staff"}
Pcs == {"idle", "check", "insert", "moveCheck", "moveWrite", "silence", "find",
        "claim", "hook", "release", "releaseTx", "thank"}
         \cup BookingTail \cup Writes

Request ==
  [pc   : Pcs,
   a    : Appt \cup {NoAppt},
   p    : Pro,
   s    : Slots,
   seen : Status \cup PaymentStatus,   \* the status the handler has read
   to   : Status \cup ChargeStatus,    \* the status it is going to write
   who  : Waiter \cup {NoWaiter},
   flag : BOOLEAN]  \* booking: wants a deposit; move: is a reschedule;
                    \* release: the charge was PENDING when read

Idle == [pc |-> "idle", a |-> NoAppt, p |-> CHOOSE p \in Pro : TRUE,
         s |-> CHOOSE s \in Slots : TRUE, seen |-> "CANCELLED",
         to |-> "CANCELLED", who |-> NoWaiter, flag |-> FALSE]

Active(a) == status[a] \in ACTIVE_APPOINTMENT_STATUSES
Exists(a) == status[a] # "NONE"
Settled(a) == charge[a] \in {"PAID", "REFUNDED"}

\* A handler moves on to step l, or answers and is gone.
Goto(r, l) == req' = [req EXCEPT ![r].pc = l]
Done(r) == req' = [req EXCEPT ![r] = Idle]

\* Only the row and the flag matter from here on.
Continue(r, l) ==
  req' = [req EXCEPT ![r] = [Idle EXCEPT !.pc = l, !.a = req[r].a, !.flag = req[r].flag]]

Start(r, rec) == req[r].pc = "idle" /\ req' = [req EXCEPT ![r] = rec]

Unlock(r) == lock' = [p \in Pro |-> IF lock[p] = r THEN NoReq ELSE lock[p]]

\* The booking's answer carries the manage link: until then the customer has none.
HasLink(a) ==
  /\ Exists(a)
  /\ ~\E r \in Req : req[r].pc \in BookingTail /\ req[r].a = a

-------------------------------------------------------------------------------
(***************************************************************************)
(* The appointments table.                                                 *)
(***************************************************************************)

Init ==
  /\ status = [a \in Appt |-> "NONE"]
  /\ slot = [a \in Appt |-> Idle.s]
  /\ pro = [a \in Appt |-> Idle.p]
  /\ charge = [a \in Appt |-> "NONE"]
  /\ payment = [a \in Appt |-> "NONE"]
  /\ due = {} /\ credited = {} /\ mail = {}
  /\ wait = [w \in Waiter |-> "WAITING"]
  /\ lock = [p \in Pro |-> NoReq]
  /\ req = [r \in Actor |-> Idle]
  /\ failures = 0
  /\ deposit = {} /\ unchecked = {} /\ thanked = {} /\ offered = {} /\ freed = 0

\* The intervals p's active appointments occupy, those of the rows in skip aside.
Busy(p, skip) == {slot[b] : b \in {c \in Appt \ skip : Active(c) /\ pro[c] = p}}

\* computeSlotsFor offers s; availability rules are not modelled, Slots obey them.
Offers(p, s) == ~hasOverlap(s, Busy(p, {}), Buffer)

\* The schema before the constraint existed.
DbAccepts_NoConstraint(a, p, s, t) == TRUE

\* Constraint appointments_no_overlap_active accepts row a in status t at s.
DbAccepts(a, p, s, t) ==
  t \in ACTIVE_APPOINTMENT_STATUSES =>
    \A b \in Appt \ {a} : Active(b) /\ pro[b] = p => ~overlaps(slot[b], s)

Opens(a, t, s) ==
  Active(a) /\ (t \notin ACTIVE_APPOINTMENT_STATUSES \/ s # slot[a])

\* freed is only compared with the number of waiters: it stops counting there.
CountOpening(b) ==
  freed' = IF b /\ freed < Cardinality(Waiter) THEN freed + 1 ELSE freed

\* UPDATE appointments SET status = t WHERE id = a: nothing is re-read.
WriteStatus(a, t) ==
  /\ DbAccepts(a, pro[a], slot[a], t)
  /\ status' = [status EXCEPT ![a] = t]
  /\ unchecked' = IF ~Active(a) /\ t \in ACTIVE_APPOINTMENT_STATUSES
                    THEN unchecked \cup {a} ELSE unchecked
  /\ CountOpening(Opens(a, t, slot[a]))
  /\ UNCHANGED <<slot, pro, deposit, thanked, offered>>

\* UPDATE ... SET status = t WHERE id = a AND status = seen: may match no row.
UpdateIf(a, seen, t) ==
  IF status[a] = seen THEN WriteStatus(a, t)
                      ELSE UNCHANGED <<calendarVars, ghostVars>>

-------------------------------------------------------------------------------
(***************************************************************************)
(* Public booking (booking.service.ts).                                    *)
(***************************************************************************)

\* Reads before the transaction: the slot is still offered.
BookPublicRead(r) ==
  /\ "book" \in Ops
  /\ \E p \in Pro, s \in Slots, who \in Waiter \cup {NoWaiter}, d \in Deposits :
       /\ Offers(p, s)
       /\ Start(r, [Idle EXCEPT !.pc = "check", !.p = p, !.s = s,
                                !.who = who, !.flag = d])
  /\ UNCHANGED <<calendarVars, pixVars, credited, mail, wait, lock, failures, ghostVars>>

BookPublicCheck_NoLock(r) ==
  /\ req[r].pc = "check"
  /\ IF \/ Cardinality({a \in Appt : Exists(a)}) >= MonthlyLimit
        \/ hasOverlap(req[r].s, Busy(req[r].p, {}), Buffer)
       THEN Done(r) /\ UNCHANGED lock
       ELSE Goto(r, "insert") /\ lock' = [lock EXCEPT ![req[r].p] = r]
  /\ UNCHANGED <<calendarVars, pixVars, credited, mail, wait, failures, ghostVars>>

\* The transaction takes the professional's advisory lock, counts the month's
\* appointments of the tenant and looks for an overlap.
BookPublicCheck(r) ==
  /\ req[r].pc = "check"
  /\ lock[req[r].p] = NoReq
  /\ IF \/ Cardinality({a \in Appt : Exists(a)}) >= MonthlyLimit
        \/ hasOverlap(req[r].s, Busy(req[r].p, {}), Buffer)
       THEN Done(r) /\ UNCHANGED lock
       ELSE Goto(r, "insert") /\ lock' = [lock EXCEPT ![req[r].p] = r]
  /\ UNCHANGED <<calendarVars, pixVars, credited, mail, wait, failures, ghostVars>>

\* It inserts the row and commits, which frees the lock.
BookPublicInsert(r) ==
  /\ req[r].pc = "insert"
  /\ \E a \in Appt :
       LET t == IF req[r].flag THEN "PENDING_PAYMENT" ELSE "SCHEDULED"
       IN  /\ ~Exists(a)
           /\ DbAccepts(a, req[r].p, req[r].s, t)
           /\ status' = [status EXCEPT ![a] = t]
           /\ slot' = [slot EXCEPT ![a] = req[r].s]
           /\ pro' = [pro EXCEPT ![a] = req[r].p]
           /\ deposit' = IF req[r].flag THEN deposit \cup {a} ELSE deposit
           /\ req' = [req EXCEPT ![r] = [Idle EXCEPT !.pc = "attend", !.a = a,
                            !.who = req[r].who, !.flag = req[r].flag]]
  /\ Unlock(r)
  /\ UNCHANGED <<pixVars, credited, mail, wait, failures, unchecked, thanked, offered, freed>>

\* The customer's open waitlist entry is served.
BookPublicAttend(r) ==
  /\ req[r].pc = "attend"
  /\ wait' = [w \in Waiter |-> IF w = req[r].who THEN "BOOKED" ELSE wait[w]]
  /\ Continue(r, IF req[r].flag THEN "psp" ELSE "announce")
  /\ UNCHANGED <<calendarVars, pixVars, credited, mail, lock, failures, ghostVars>>

\* enqueueBookingConfirmation, the last step of a booking or a reschedule.
Announce(r) ==
  /\ req[r].pc = "announce"
  /\ mail' = mail \cup {req[r].a}
  /\ Done(r)
  /\ UNCHANGED <<calendarVars, pixVars, credited, wait, lock, failures, ghostVars>>

-------------------------------------------------------------------------------
(***************************************************************************)
(* createDepositCharge: any error on the way leads to "refuse".            *)
(***************************************************************************)

CreatePixCharge(r) ==
  /\ req[r].pc = "psp"
  /\ payment' = [payment EXCEPT ![req[r].a] = "pending"]
  /\ Goto(r, "recheck")
  /\ UNCHANGED <<calendarVars, charge, due, credited, mail, wait, lock, failures, ghostVars>>

StillPending(r) ==
  /\ req[r].pc = "recheck"
  /\ Goto(r, IF status[req[r].a] = "PENDING_PAYMENT" THEN "charge" ELSE "refuse")
  /\ UNCHANGED <<calendarVars, pixVars, credited, mail, wait, lock, failures, ghostVars>>

\* appointmentId is unique in pix_charges.
InsertCharge(r) ==
  /\ req[r].pc = "charge"
  /\ charge[req[r].a] = "NONE"
  /\ charge' = [charge EXCEPT ![req[r].a] = "PENDING"]
  /\ Done(r)
  /\ UNCHANGED <<calendarVars, payment, due, credited, mail, wait, lock, failures, ghostVars>>

\* Mercado Pago or the insert fails.
ChargeError(r) ==
  /\ req[r].pc \in {"psp", "charge"}
  /\ Goto(r, "refuse")
  /\ UNCHANGED <<calendarVars, pixVars, credited, mail, wait, lock, failures, ghostVars>>

\* Fail closed: the slot is given back, with no call to the waitlist.
RefuseDeposit(r) ==
  /\ req[r].pc = "refuse"
  /\ UpdateIf(req[r].a, "PENDING_PAYMENT", "CANCELLED")
  /\ Done(r)
  /\ UNCHANGED <<pixVars, credited, mail, wait, lock, failures>>
-------------------------------------------------------------------------------
(***************************************************************************)
(* The customer's manage link (manage-appointment.service.ts).  Each entry *)
(* reads the row, decides, and writes by id alone.                         *)
(***************************************************************************)

ConfirmByTokenRead(r) ==
  /\ "confirm" \in Ops
  /\ \E a \in Appt :
       /\ HasLink(a)
       /\ status[a] \notin {"CONFIRMED", "PENDING_PAYMENT"}
       /\ canTransition(status[a], "CONFIRMED")
       /\ Start(r, [Idle EXCEPT !.pc = "confirm", !.a = a, !.to = "CONFIRMED"])
  /\ UNCHANGED <<calendarVars, pixVars, credited, mail, wait, lock, failures, ghostVars>>

ConfirmByTokenWrite(r) ==
  /\ req[r].pc = "confirm"
  /\ WriteStatus(req[r].a, req[r].to)
  /\ Done(r)
  /\ UNCHANGED <<pixVars, credited, mail, wait, lock, failures>>

CancelByTokenRead(r) ==
  /\ "cancel" \in Ops
  /\ \E a \in Appt :
       /\ HasLink(a)
       /\ isCancellableStatus(status[a])
       /\ canTransition(status[a], "CANCELLED")
       /\ Start(r, [Idle EXCEPT !.pc = "cancel", !.a = a, !.to = "CANCELLED"])
  /\ UNCHANGED <<calendarVars, pixVars, credited, mail, wait, lock, failures, ghostVars>>

CancelByTokenWrite(r) ==
  /\ req[r].pc = "cancel"
  /\ WriteStatus(req[r].a, req[r].to)
  /\ Continue(r, "silence")
  /\ UNCHANGED <<pixVars, credited, mail, wait, lock, failures>>

\* The new interval keeps the appointment's duration.  An unpaid hold stays one.
RescheduleByTokenRead(r) ==
  /\ "move" \in Ops
  /\ \E a \in Appt, s \in Slots :
       LET next == IF status[a] = "PENDING_PAYMENT" THEN "PENDING_PAYMENT" ELSE "SCHEDULED"
       IN  /\ HasLink(a)
           /\ isCancellableStatus(status[a])
           /\ s.to - s.from = slot[a].to - slot[a].from
           /\ Offers(pro[a], s)
           /\ canTransition(status[a], next)
           /\ Start(r, [Idle EXCEPT !.pc = "moveCheck", !.a = a, !.p = pro[a], !.s = s,
                                    !.to = next, !.flag = TRUE])
  /\ UNCHANGED <<calendarVars, pixVars, credited, mail, wait, lock, failures, ghostVars>>

RescheduleByTokenCheck_RawOverlap(r) ==
  /\ req[r].pc = "moveCheck"
  /\ lock[req[r].p] = NoReq
  /\ IF hasOverlap(req[r].s, Busy(req[r].p, {req[r].a}), 0)
       THEN Done(r) /\ UNCHANGED lock
       ELSE Goto(r, "moveWrite") /\ lock' = [lock EXCEPT ![req[r].p] = r]
  /\ UNCHANGED <<calendarVars, pixVars, credited, mail, wait, failures, ghostVars>>

\* The transaction: advisory lock, overlap with every other appointment.
RescheduleByTokenCheck(r) ==
  /\ req[r].pc = "moveCheck"
  /\ lock[req[r].p] = NoReq
  /\ IF hasOverlap(req[r].s, Busy(req[r].p, {req[r].a}), Buffer)
       THEN Done(r) /\ UNCHANGED lock
       ELSE Goto(r, "moveWrite") /\ lock' = [lock EXCEPT ![req[r].p] = r]
  /\ UNCHANGED <<calendarVars, pixVars, credited, mail, wait, failures, ghostVars>>

\* New interval and the status decided at the first read; commits.
RescheduleByTokenWrite(r) ==
  LET a == req[r].a
  IN  /\ req[r].pc = "moveWrite"
      /\ DbAccepts(a, pro[a], req[r].s, req[r].to)
      /\ status' = [status EXCEPT ![a] = req[r].to]
      /\ slot' = [slot EXCEPT ![a] = req[r].s]
      /\ unchecked' = unchecked \ {a}
      /\ CountOpening(Opens(a, req[r].to, req[r].s))
      /\ Unlock(r)
      /\ Continue(r, "silence")
      /\ UNCHANGED <<pro, pixVars, credited, mail, wait, failures, deposit, thanked, offered>>

-------------------------------------------------------------------------------
(***************************************************************************)
(* The dashboard (appointment-lifecycle.service.ts).                       *)
(***************************************************************************)

UpdateStatusRead(r) ==
  /\ "staff" \in Ops
  /\ \E a \in Appt, t \in Status :
       /\ Exists(a)
       /\ (status[a] = "PENDING_PAYMENT" /\ t \in {"CONFIRMED", "SCHEDULED"})
            => charge[a] = "PAID"
       /\ canTransition(status[a], t)
       /\ Start(r, [Idle EXCEPT !.pc = "staff", !.a = a, !.seen = status[a], !.to = t])
  /\ UNCHANGED <<calendarVars, pixVars, credited, mail, wait, lock, failures, ghostVars>>

\* Whether the appointment has become COMPLETED is judged on the status read.
BecameCompleted(r) == req[r].to = "COMPLETED" /\ req[r].seen # "COMPLETED"

\* One transaction: the status by id, and the loyalty credit.  A second credit
\* breaks the ledger's unique index, which aborts the whole transaction.
UpdateStatusWrite(r) ==
  LET a == req[r].a
  IN  /\ req[r].pc = "staff"
      /\ IF BecameCompleted(r) /\ a \in credited
           THEN UNCHANGED <<calendarVars, credited, ghostVars>>
           ELSE /\ WriteStatus(a, req[r].to)
                /\ credited' = IF BecameCompleted(r) THEN credited \cup {a} ELSE credited
      /\ IF req[r].to = "CANCELLED" /\ req[r].seen # "CANCELLED"
           THEN Continue(r, "silence")
           ELSE Done(r)
      /\ UNCHANGED <<pixVars, mail, wait, lock, failures>>

-------------------------------------------------------------------------------
(***************************************************************************)
(* Side effects of a cancellation (onCancelled) and of a reschedule        *)
(* (onRescheduled, flag): void the pending messages, offer the opening to  *)
(* the waitlist and, after a reschedule, send a new confirmation.          *)
(***************************************************************************)

CancelPendingJobs(r) ==
  /\ req[r].pc = "silence"
  /\ mail' = mail \ {req[r].a}
  /\ Goto(r, "find")
  /\ UNCHANGED <<calendarVars, pixVars, credited, wait, lock, failures, ghostVars>>

Waiting == {w \in Waiter : wait[w] = "WAITING"}

AfterOffer(r) == IF req[r].flag THEN Continue(r, "announce") ELSE Done(r)

\* notifyNextWaitlistCandidate: the oldest waiting entry ...
FindCandidate(r) ==
  /\ req[r].pc = "find"
  /\ IF Waiting = {}
       THEN AfterOffer(r)
       ELSE \E w \in Waiting :
              /\ \A v \in Waiting : w <= v
              /\ req' = [req EXCEPT ![r].pc = "claim", ![r].who = w]
  /\ UNCHANGED <<calendarVars, pixVars, credited, mail, wait, lock, failures, ghostVars>>

ClaimCandidate_ById(r) ==
  /\ req[r].pc = "claim"
  /\ wait' = [wait EXCEPT ![req[r].who] = "NOTIFIED"]
  /\ offered' = offered \cup {req[r].who}
  /\ AfterOffer(r)
  /\ UNCHANGED <<calendarVars, pixVars, credited, mail, lock, failures,
                 deposit, unchecked, thanked, freed>>

\* ... is claimed if it is still waiting.
ClaimCandidate(r) ==
  /\ req[r].pc = "claim"
  /\ IF wait[req[r].who] = "WAITING"
       THEN /\ wait' = [wait EXCEPT ![req[r].who] = "NOTIFIED"]
            /\ offered' = offered \cup {req[r].who}
       ELSE UNCHANGED <<wait, offered>>
  /\ AfterOffer(r)
  /\ UNCHANGED <<calendarVars, pixVars, credited, mail, lock, failures,
                 deposit, unchecked, thanked, freed>>

-------------------------------------------------------------------------------
(***************************************************************************)
(* The PIX life cycle (pix-lifecycle.service.ts, payments.controller.ts).  *)
(***************************************************************************)

\* Mercado Pago notifies, possibly more than once; the handler asks for the
\* payment's present status.  "pending" leads nowhere.
WebhookRead(r) ==
  /\ "hook" \in Ops
  /\ \E a \in Appt :
       /\ payment[a] \in PaymentStatus \ {"pending"}
       /\ Start(r, [Idle EXCEPT !.pc = "hook", !.a = a, !.seen = payment[a]])
  /\ UNCHANGED <<calendarVars, pixVars, credited, mail, wait, lock, failures, ghostVars>>

ConfirmPaid_Replay(r) ==
  LET a == req[r].a
  IN  /\ req[r].pc = "hook"
      /\ req[r].seen = "approved"
      /\ IF charge[a] \in {"PENDING", "PAID"}
           THEN /\ charge' = [charge EXCEPT ![a] = "PAID"]
                /\ UpdateIf(a, "PENDING_PAYMENT", "CONFIRMED")
                /\ Continue(r, "thank")
           ELSE Done(r) /\ UNCHANGED <<charge, calendarVars, ghostVars>>
      /\ UNCHANGED <<payment, due, credited, mail, wait, lock, failures>>

ConfirmPaid_UnreadStatus(r) ==
  LET a == req[r].a
  IN  /\ req[r].pc = "hook"
      /\ IF charge[a] = "PENDING"
           THEN /\ charge' = [charge EXCEPT ![a] = "PAID"]
                /\ UpdateIf(a, "PENDING_PAYMENT", "CONFIRMED")
                /\ IF status[a] = "PENDING_PAYMENT" THEN Continue(r, "thank") ELSE Done(r)
           ELSE Done(r) /\ UNCHANGED <<charge, calendarVars, ghostVars>>
      /\ UNCHANGED <<payment, due, credited, mail, wait, lock, failures>>

\* confirmPaid: claim PENDING -> PAID, then PENDING_PAYMENT -> CONFIRMED.  A charge
\* that is not PENDING, or an appointment that no longer waits, has no more effects.
ConfirmPaid(r) ==
  LET a == req[r].a
  IN  /\ req[r].pc = "hook"
      /\ req[r].seen = "approved"
      /\ IF charge[a] = "PENDING"
           THEN /\ charge' = [charge EXCEPT ![a] = "PAID"]
                /\ UpdateIf(a, "PENDING_PAYMENT", "CONFIRMED")
                /\ IF status[a] = "PENDING_PAYMENT" THEN Continue(r, "thank") ELSE Done(r)
           ELSE Done(r) /\ UNCHANGED <<charge, calendarVars, ghostVars>>
      /\ UNCHANGED <<payment, due, credited, mail, wait, lock, failures>>

\* The confirmation is enqueued after the transaction has committed.
Thank(r) ==
  /\ req[r].pc = "thank"
  /\ mail' = mail \cup {req[r].a}
  /\ thanked' = thanked \cup {req[r].a}
  /\ Done(r)
  /\ UNCHANGED <<calendarVars, pixVars, credited, wait, lock, failures,
                 deposit, unchecked, offered, freed>>

\* markRefunded.
MarkRefunded(r) ==
  LET a == req[r].a
  IN  /\ req[r].pc = "hook"
      /\ req[r].seen = "refunded"
      /\ charge' = [charge EXCEPT ![a] = IF @ = "PAID" THEN "REFUNDED" ELSE @]
      /\ Done(r)
      /\ UNCHANGED <<calendarVars, payment, due, credited, mail, wait, lock, failures, ghostVars>>

WebhookRelease_RawStatus(r) ==
  /\ req[r].pc = "hook"
  /\ req[r].seen \in {"cancelled", "expired"}
  /\ IF charge[req[r].a] = "NONE"
       THEN Done(r)
       ELSE req' = [req EXCEPT ![r] = [Idle EXCEPT !.pc = "release", !.a = req[r].a,
                                                   !.to = req[r].seen]]
  /\ UNCHANGED <<calendarVars, pixVars, credited, mail, wait, lock, failures, ghostVars>>

\* A cancelled or expired payment whose charge is known releases the hold.
WebhookRelease(r) ==
  /\ req[r].pc = "hook"
  /\ req[r].seen \in {"cancelled", "expired"}
  /\ IF charge[req[r].a] = "NONE"
       THEN Done(r)
       ELSE req' = [req EXCEPT ![r] = [Idle EXCEPT !.pc = "release", !.a = req[r].a,
                      !.to = IF req[r].seen = "cancelled" THEN "CANCELLED" ELSE "EXPIRED"]]
  /\ UNCHANGED <<calendarVars, pixVars, credited, mail, wait, lock, failures, ghostVars>>

UnpaidActiveHold(seen, chargeWasPending) ==
  \/ seen = "PENDING_PAYMENT"
  \/ chargeWasPending /\ seen \in {"CONFIRMED", "SCHEDULED"}

\* releasePendingPayment, the read.
ReleaseRead(r) ==
  LET a == req[r].a
      canExpire == charge[a] = "PENDING"
  IN  /\ req[r].pc = "release"
      /\ IF UnpaidActiveHold(status[a], canExpire) \/ canExpire
           THEN req' = [req EXCEPT ![r].pc = "releaseTx", ![r].seen = status[a],
                                   ![r].flag = canExpire]
           ELSE Done(r)
      /\ UNCHANGED <<calendarVars, pixVars, credited, mail, wait, lock, failures, ghostVars>>

ReleaseTx_HoldById(r) ==
  LET a == req[r].a
      hold == UnpaidActiveHold(req[r].seen, req[r].flag)
  IN  /\ req[r].pc = "releaseTx"
      /\ charge' = [charge EXCEPT ![a] =
                      IF req[r].flag /\ @ = "PENDING" THEN req[r].to ELSE @]
      /\ IF hold THEN WriteStatus(a, "CANCELLED")
                 ELSE UNCHANGED <<calendarVars, ghostVars>>
      /\ req' = [req EXCEPT ![r] = IF hold THEN [Idle EXCEPT !.pc = "find", !.a = a]
                                           ELSE Idle]
      /\ UNCHANGED <<payment, due, credited, mail, wait, lock, failures>>

ReleaseTx_ChargeById(r) ==
  LET a == req[r].a
      hold == UnpaidActiveHold(req[r].seen, req[r].flag)
  IN  /\ req[r].pc = "releaseTx"
      /\ charge' = [charge EXCEPT ![a] = IF req[r].flag THEN req[r].to ELSE @]
      /\ IF hold THEN UpdateIf(a, req[r].seen, "CANCELLED")
                 ELSE UNCHANGED <<calendarVars, ghostVars>>
      /\ req' = [req EXCEPT ![r] = IF hold THEN [Idle EXCEPT !.pc = "find", !.a = a]
                                           ELSE Idle]
      /\ UNCHANGED <<payment, due, credited, mail, wait, lock, failures>>

\* releasePendingPayment, the transaction.  The waitlist is called when the hold
\* was unpaid at the read, whatever the guarded updates found.
ReleaseTx(r) ==
  LET a == req[r].a
      hold == UnpaidActiveHold(req[r].seen, req[r].flag)
  IN  /\ req[r].pc = "releaseTx"
      /\ charge' = [charge EXCEPT ![a] =
                      IF req[r].flag /\ @ = "PENDING" THEN req[r].to ELSE @]
      /\ IF hold THEN UpdateIf(a, req[r].seen, "CANCELLED")
                 ELSE UNCHANGED <<calendarVars, ghostVars>>
      /\ req' = [req EXCEPT ![r] = IF hold THEN [Idle EXCEPT !.pc = "find", !.a = a]
                                           ELSE Idle]
      /\ UNCHANGED <<payment, due, credited, mail, wait, lock, failures>>

Overdue_ChargesOnly(a) == a \in due /\ charge[a] = "PENDING"

Overdue_HoldsOnly(a) == a \in due /\ status[a] = "PENDING_PAYMENT" /\ ~Settled(a)

\* What a sweep selects: expired PENDING charges, and holds 30 minutes old whose
\* charge is missing or not paid.
Overdue(a) ==
  /\ a \in due
  /\ \/ charge[a] = "PENDING"
     \/ status[a] = "PENDING_PAYMENT" /\ ~Settled(a)

\* runReconcileExpired: the ids selected are released one after the other, each
\* re-read when its turn comes.
Sweep ==
  /\ "sweep" \in Ops
  /\ \E a \in Appt :
       /\ Overdue(a)
       /\ Start(Sweeper, [Idle EXCEPT !.pc = "release", !.a = a, !.to = "EXPIRED"])
  /\ UNCHANGED <<calendarVars, pixVars, credited, mail, wait, lock, failures, ghostVars>>
-------------------------------------------------------------------------------
(***************************************************************************)
(* Errors, Mercado Pago and time.                                          *)
(***************************************************************************)

\* The database refuses a row that would overlap: the handler answers with an
\* error and its transaction is rolled back.
DbRejects(r) ==
  /\ \/ /\ req[r].pc = "insert"
        /\ ~DbAccepts(NoAppt, req[r].p, req[r].s, "SCHEDULED")
     \/ /\ req[r].pc = "moveWrite"
        /\ ~DbAccepts(req[r].a, pro[req[r].a], req[r].s, req[r].to)
     \/ /\ req[r].pc \in Writes
        /\ ~DbAccepts(req[r].a, pro[req[r].a], slot[req[r].a], req[r].to)
  /\ Unlock(r)
  /\ Done(r)
  /\ UNCHANGED <<calendarVars, pixVars, credited, mail, wait, failures, ghostVars>>

\* A handler dies between two steps: the process stops, or the next statement
\* throws.  Its open transaction is rolled back.
Fail(r) ==
  /\ failures < MaxFailures
  /\ req[r].pc # "idle"
  /\ failures' = failures + 1
  /\ Unlock(r)
  /\ Done(r)
  /\ UNCHANGED <<calendarVars, pixVars, credited, mail, wait, ghostVars>>

\* The customer pays, within the payment's lifetime, a charge they were shown.
Pay(a) ==
  /\ payment[a] = "pending" /\ charge[a] # "NONE" /\ a \notin due
  /\ payment' = [payment EXCEPT ![a] = "approved"]
  /\ UNCHANGED <<calendarVars, charge, due, credited, mail, wait, lock, req, failures, ghostVars>>

\* The payment lapses, is cancelled at Mercado Pago, or is refunded there.
PaymentEnds(a) ==
  /\ \/ payment[a] = "pending" /\ a \in due /\ payment' = [payment EXCEPT ![a] = "expired"]
     \/ payment[a] = "pending" /\ payment' = [payment EXCEPT ![a] = "cancelled"]
     \/ payment[a] = "approved" /\ payment' = [payment EXCEPT ![a] = "refunded"]
  /\ UNCHANGED <<calendarVars, charge, due, credited, mail, wait, lock, req, failures, ghostVars>>

\* Thirty minutes go by since the appointment was created.
TimePasses(a) ==
  /\ a \in deposit /\ a \notin due
  /\ due' = due \cup {a}
  /\ UNCHANGED <<calendarVars, charge, payment, credited, mail, wait, lock, req, failures, ghostVars>>

-------------------------------------------------------------------------------
Arrive(r) ==
  \/ BookPublicRead(r) \/ ConfirmByTokenRead(r) \/ CancelByTokenRead(r)
  \/ RescheduleByTokenRead(r) \/ UpdateStatusRead(r) \/ WebhookRead(r)

\* One step of a handler in flight.
Step(r) ==
  \/ BookPublicCheck(r) \/ BookPublicInsert(r) \/ BookPublicAttend(r) \/ Announce(r)
  \/ CreatePixCharge(r) \/ StillPending(r) \/ InsertCharge(r) \/ ChargeError(r)
  \/ RefuseDeposit(r)
  \/ ConfirmByTokenWrite(r) \/ CancelByTokenWrite(r) \/ UpdateStatusWrite(r)
  \/ RescheduleByTokenCheck(r) \/ RescheduleByTokenWrite(r)
  \/ CancelPendingJobs(r) \/ FindCandidate(r) \/ ClaimCandidate(r)
  \/ ConfirmPaid(r) \/ Thank(r) \/ MarkRefunded(r) \/ WebhookRelease(r)
  \/ ReleaseRead(r) \/ ReleaseTx(r)
  \/ DbRejects(r)

Next ==
  \/ \E r \in Req : Arrive(r)
  \/ Sweep
  \/ \E r \in Actor : Step(r) \/ Fail(r)
  \/ \E a \in Appt : Pay(a) \/ PaymentEnds(a) \/ TimePasses(a)

Spec == Init /\ [][Next]_vars

\* The worker's timer fires for ever and its sweeps run; time passes.  Customers,
\* staff, Mercado Pago and HTTP handlers owe nothing.
Fairness ==
  /\ WF_vars(Sweep)
  /\ WF_vars(Step(Sweeper))
  /\ \A a \in Appt : WF_vars(TimePasses(a))

FairSpec == Spec /\ Fairness

-------------------------------------------------------------------------------
(***************************************************************************)
(* Properties.                                                             *)
(***************************************************************************)

TablesOK ==
  /\ status \in [Appt -> RowStatus]
  /\ slot \in [Appt -> Slots]
  /\ pro \in [Appt -> Pro]
  /\ charge \in [Appt -> ChargeStatus \cup {"NONE"}]
  /\ payment \in [Appt -> PaymentStatus \cup {"NONE"}]
  /\ due \subseteq Appt /\ credited \subseteq Appt /\ mail \subseteq Appt
  /\ wait \in [Waiter -> {"WAITING", "NOTIFIED", "BOOKED"}]
  /\ lock \in [Pro -> Actor \cup {NoReq}]
  /\ failures \in Nat
  /\ deposit \subseteq Appt /\ unchecked \subseteq Appt /\ thanked \subseteq Appt
  /\ offered \subseteq Waiter /\ freed \in Nat

\* Every variable, and every field of a handler in flight, has its type.
TypeOK == TablesOK /\ req \in [Actor -> Request]

\* The calendar that the appointments table represents.
Held ==
  [a \in Appt |-> IF Active(a) THEN [pro |-> pro[a], slot |-> slot[a]] ELSE NoAppt]

Calendar == INSTANCE SlotCalendar WITH held <- Held, Nowhere <- NoAppt

\* The table, with all its concurrent writers, behaves as a calendar in which no
\* step lets two appointments of a professional overlap.
CalendarSpec == Calendar!Spec

TooClose(a, b) ==
  /\ Active(a) /\ Active(b) /\ pro[a] = pro[b]
  /\ hasOverlap(slot[a], {slot[b]}, Buffer)

\* Two active appointments of one professional keep the tenant's buffer between
\* them, unless one was made active again by a status write that looks at no
\* agenda: the lock and the check under it leave no other way.
BufferKept ==
  \A a, b \in Appt :
    a # b /\ TooClose(a, b) => a \in unchecked \/ b \in unchecked

\* The plan's monthly limit bounds the appointments the tenant's page takes.
WithinMonthlyLimit == Cardinality({a \in Appt : Exists(a)}) <= MonthlyLimit

\* An appointment booked with a deposit is never scheduled, confirmed, completed
\* or missed unless its charge was paid, whatever handlers were in flight.
DepositNeverBypassed ==
  \A a \in deposit :
    status[a] \in {"SCHEDULED", "CONFIRMED", "COMPLETED", "NO_SHOW"} => Settled(a)

\* A charge counts as paid only when Mercado Pago approved the payment.
PaidMeansApproved ==
  \A a \in Appt : Settled(a) => payment[a] \in {"approved", "refunded"}

\* Releasing a hold races with its payment: whichever of the sweep, the webhooks
\* and the refusal runs late, none cancels an appointment whose charge was paid.
\* Only the customer or the staff can.
PaidNeverReleased ==
  [][\A a \in Appt : Settled(a) /\ Active(a) /\ status'[a] = "CANCELLED" =>
       \E r \in Req : req[r].pc \in {"cancel", "staff"} /\ req[r].a = a
                       /\ req'[r].pc # req[r].pc]_vars

\* However many openings are being offered at once, no customer is notified while
\* an older entry still waits; and one who has booked is never called again,
\* although the entry was read as waiting before the booking.
OldestFirst == \A v, w \in Waiter : v < w /\ wait[w] = "NOTIFIED" => wait[v] # "WAITING"
BookedStays == \A w \in Waiter : wait[w] = "BOOKED" => wait'[w] = "BOOKED"
CalledInTurn == []OldestFirst /\ [][BookedStays]_vars

\* Terminal statuses are never left.
TerminalIsFinal ==
  [][\A a \in Appt : status[a] \in Terminal => status'[a] = status[a]]_vars

\* At most one waiting customer is notified for each opening.
OneOfferPerOpening == Cardinality(offered) <= freed

\* A deposit appointment is confirmed to the customer once, and for a payment.
\* However many webhooks report one payment, and in whatever order their steps run,
\* at most one of them confirms it; and of the three places that enqueue a booking
\* confirmation, the booking itself and the webhook only do so once the charge was
\* paid.  The reschedule of an unpaid hold (announce, flag) is the code's exception.
OneThanks ==
  \A r \in Actor : req[r].pc = "thank" =>
    /\ req[r].a \notin thanked
    /\ \A q \in Actor : req[q].pc = "thank" /\ req[q].a = req[r].a => q = r
MailIsForPayment ==
  \A a \in deposit \cap (mail' \ mail) :
    Settled(a) \/ \E r \in Req : req[r].pc = "announce" /\ req[r].flag /\ req[r].a = a
ThankedOncePaid == [][OneThanks' /\ MailIsForPayment]_vars

\* An unpaid hold does not keep its slot for ever.
HoldEnds == \A a \in Appt : status[a] = "PENDING_PAYMENT" ~> status[a] # "PENDING_PAYMENT"

\* A charge does not stay open for ever.
ChargeEnds == \A a \in Appt : charge[a] = "PENDING" ~> charge[a] # "PENDING"
===============================================================================
