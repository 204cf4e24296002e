--------------------------- MODULE AppointmentsProofs ---------------------------
(***************************************************************************)
(* Type correctness of Appointments, for every value of its constants.     *)
(*                                                                         *)
(* TypeOK is not inductive: a handler writes rows through the identifiers  *)
(* it carries, so the tables stay well typed only while those point to     *)
(* rows.  Sound adds what each step needs of a handler (Fits), and that a  *)
(* charge or a payment comes after its appointment (RowFirst).             *)
(***************************************************************************)
EXTENDS Appointments, TLAPS

\* The steps of a handler that has an appointment in hand.
AtRow == {"attend", "psp", "recheck", "charge", "refuse", "announce", "moveCheck",
          "moveWrite", "silence", "find", "claim", "hook", "release", "releaseTx",
          "thank", "confirm", "cancel", "staff"}

\* A handler at such a step carries an existing row, and carries a candidate or a
\* target status of the right kind at the steps that write them.  The statuses are
\* a parameter so that the handlers of a state can be judged against the next one.
Fits(rec, st) ==
  /\ rec.pc \in AtRow => rec.a \in Appt /\ st[rec.a] # "NONE"
  /\ rec.pc = "claim" => rec.who \in Waiter
  /\ rec.pc \in {"confirm", "cancel", "staff", "moveCheck", "moveWrite"} => rec.to \in Status
  /\ rec.pc \in {"release", "releaseTx"} => rec.to \in {"EXPIRED", "CANCELLED"}

InFlight == \A r \in Actor : Fits(req[r], status)

\* Neither a payment, nor a charge, nor a deposit without an appointment row.
RowFirst ==
  \A a \in Appt :
    payment[a] # "NONE" \/ charge[a] # "NONE" \/ a \in deposit => status[a] # "NONE"

Tables == TablesOK /\ RowFirst

\* The inductive invariant.
Sound == TypeOK /\ RowFirst /\ InFlight

\* The empty handler record is a record like any other.
LEMMA IdleType == Idle \in Request /\ Idle.pc = "idle"
  BY ProAssumption, SlotsAssumption
     DEF Idle, Request, Pcs, BookingTail, Writes, Status, PaymentStatus, ChargeStatus

\* The empty database with no handler in flight is sound.
LEMMA InitSound == Init => Sound
<1> SUFFICES ASSUME Init PROVE Sound
  OBVIOUS
<1>1. TablesOK
  BY IdleType DEF Init, TablesOK, RowStatus, Request
<1>2. req \in [Actor -> Request]
  BY IdleType DEF Init
<1>3. InFlight
  BY IdleType DEF Init, InFlight, Fits, AtRow
<1>4. RowFirst
  BY DEF Init, RowFirst
<1> QED BY <1>1, <1>2, <1>3, <1>4 DEF Sound, TypeOK

\* Replacing one handler's record by one that fits keeps all of them fitting, as
\* long as no row disappears: the code deletes no appointment.
LEMMA ReqStep ==
  ASSUME Sound, NEW r \in Actor, NEW rec \in Request,
         req' = [req EXCEPT ![r] = rec], Fits(rec, status'),
         \A a \in Appt : status[a] # "NONE" => status'[a] # "NONE"
  PROVE  req' \in [Actor -> Request] /\ InFlight'
  BY DEF Sound, TypeOK, InFlight, Fits

\* The same for a handler that answers and is gone,
LEMMA DoneStep ==
  ASSUME Sound, NEW r \in Actor, Done(r), \A a \in Appt : status[a] # "NONE" => status'[a] # "NONE"
  PROVE  req' \in [Actor -> Request] /\ InFlight'
<1>1. Fits(Idle, status')
  BY IdleType DEF Fits, AtRow
<1> QED BY <1>1, IdleType, ReqStep DEF Done

\* for one that moves on with all it knows,
LEMMA GotoStep ==
  ASSUME Sound, NEW r \in Actor, NEW l \in Pcs, Goto(r, l),
         Fits([req[r] EXCEPT !.pc = l], status'),
         \A a \in Appt : status[a] # "NONE" => status'[a] # "NONE"
  PROVE  req' \in [Actor -> Request] /\ InFlight'
<1>1. req' = [req EXCEPT ![r] = [req[r] EXCEPT !.pc = l]]
  BY DEF Goto, Sound, TypeOK
<1>2. [req[r] EXCEPT !.pc = l] \in Request
  BY DEF Sound, TypeOK, Request
<1> QED BY <1>1, <1>2, ReqStep

\* for one that goes on to a side effect with its row alone,
LEMMA ContinueStep ==
  ASSUME Sound, NEW r \in Actor, NEW l \in Pcs, Continue(r, l), req[r].a \in Appt,
         status'[req[r].a] # "NONE",
         l \in {"psp", "announce", "silence", "thank"},
         \A a \in Appt : status[a] # "NONE" => status'[a] # "NONE"
  PROVE  req' \in [Actor -> Request] /\ InFlight'
<1> DEFINE rec == [Idle EXCEPT !.pc = l, !.a = req[r].a, !.flag = req[r].flag]
<1>1. rec \in Request /\ rec.a = req[r].a /\ rec.pc = l
  BY IdleType DEF Sound, TypeOK, Request
<1>2. Fits(rec, status')
  BY <1>1 DEF Fits
<1> QED BY <1>1, <1>2, ReqStep DEF Continue

\* and for one that starts on what it has just read.
LEMMA StartStep ==
  ASSUME Sound, NEW r \in Actor, NEW rec \in Request, Start(r, rec),
         Fits(rec, status), status' = status
  PROVE  req' \in [Actor -> Request] /\ InFlight'
  BY ReqStep DEF Start

\* A step that writes no table keeps the tables well typed.
LEMMA TablesKept ==
  ASSUME Tables,
         UNCHANGED <<calendarVars, pixVars, credited, mail, wait, lock, failures, ghostVars>>
  PROVE  Tables' /\ status' = status
  BY DEF Tables, RowFirst, TablesOK, calendarVars, pixVars, ghostVars

\* Releasing advisory locks keeps the lock table well typed.
LEMMA UnlockType ==
  ASSUME TablesOK, NEW r \in Actor, Unlock(r)
  PROVE  lock' \in [Pro -> Actor \cup {NoReq}]
  BY DEF TablesOK, Unlock

\* A status written by id keeps the calendar well typed and every row in place.
LEMMA WriteStatusType ==
  ASSUME TablesOK, NEW a \in Appt, NEW t \in Status, WriteStatus(a, t)
  PROVE  /\ status' = [status EXCEPT ![a] = t] /\ status' \in [Appt -> RowStatus]
         /\ unchecked' \subseteq Appt /\ freed' \in Nat
         /\ \A b \in Appt : status[b] # "NONE" => status'[b] # "NONE"
         /\ UNCHANGED <<slot, pro, deposit, thanked, offered>>
<1>1. freed' \in Nat
  BY DEF TablesOK, WriteStatus, CountOpening
<1> QED BY <1>1 DEF TablesOK, WriteStatus, RowStatus, Status

\* So does a guarded update, whether or not it matches the row.
LEMMA UpdateIfType ==
  ASSUME TablesOK, NEW a \in Appt, NEW t \in Status, NEW seen, UpdateIf(a, seen, t)
  PROVE  /\ status' \in [Appt -> RowStatus]
         /\ unchecked' \subseteq Appt /\ freed' \in Nat
         /\ \A b \in Appt : status[b] # "NONE" => status'[b] # "NONE"
         /\ UNCHANGED <<slot, pro, deposit, thanked, offered>>
<1>1. CASE status[a] = seen
  BY <1>1, WriteStatusType DEF UpdateIf
<1>2. CASE status[a] # seen
  BY <1>2 DEF UpdateIf, TablesOK, calendarVars, ghostVars
<1> QED BY <1>1, <1>2

\* The steps of a public booking.
LEMMA BookingSound ==
  ASSUME Sound, NEW r \in Actor,
         \/ BookPublicRead(r) \/ BookPublicCheck(r) \/ BookPublicInsert(r)
         \/ BookPublicAttend(r) \/ Announce(r)
  PROVE  Sound'
<1>1. CASE BookPublicRead(r)
  <2>1. PICK p \in Pro, s \in Slots, who \in Waiter \cup {NoWaiter}, d \in Deposits :
          Start(r, [Idle EXCEPT !.pc = "check", !.p = p, !.s = s, !.who = who, !.flag = d])
    BY <1>1 DEF BookPublicRead
  <2> DEFINE rec == [Idle EXCEPT !.pc = "check", !.p = p, !.s = s, !.who = who, !.flag = d]
  <2>2. rec \in Request /\ rec.pc = "check"
    BY IdleType, OptionsAssumption DEF Request, Pcs
  <2>3. Fits(rec, status)
    BY <2>2 DEF Fits, AtRow
  <2>4. Tables' /\ status' = status
    BY <1>1, TablesKept DEF BookPublicRead, Sound, Tables, RowFirst, TypeOK
  <2> QED BY <2>1, <2>2, <2>3, <2>4, StartStep DEF Sound, Tables, RowFirst, TypeOK
<1>2. CASE BookPublicCheck(r)
  <2>1. status' = status /\ Tables'
    BY <1>2 DEF BookPublicCheck, Sound, Tables, RowFirst, TypeOK, TablesOK, Request, calendarVars, pixVars, ghostVars
  <2>2. Goto(r, "insert") \/ Done(r)
    BY <1>2 DEF BookPublicCheck
  <2>3. Fits([req[r] EXCEPT !.pc = "insert"], status')
    BY DEF Fits, AtRow, Sound, Tables, RowFirst, TypeOK, Request
  <2> QED BY <2>1, <2>2, <2>3, GotoStep, DoneStep DEF Sound, Tables, RowFirst, TypeOK, Pcs
<1>3. CASE BookPublicInsert(r)
  <2>1. PICK a \in Appt :
          /\ status' = [status EXCEPT ![a] = IF req[r].flag THEN "PENDING_PAYMENT" ELSE "SCHEDULED"]
          /\ slot' = [slot EXCEPT ![a] = req[r].s]
          /\ pro' = [pro EXCEPT ![a] = req[r].p]
          /\ deposit' = IF req[r].flag THEN deposit \cup {a} ELSE deposit
          /\ req' = [req EXCEPT ![r] = [Idle EXCEPT !.pc = "attend", !.a = a,
                       !.who = req[r].who, !.flag = req[r].flag]]
    BY <1>3 DEF BookPublicInsert
  <2> DEFINE rec == [Idle EXCEPT !.pc = "attend", !.a = a, !.who = req[r].who, !.flag = req[r].flag]
  <2>2. req[r] \in Request
    BY DEF Sound, Tables, RowFirst, TypeOK
  <2>3. rec \in Request /\ rec.pc = "attend" /\ rec.a = a
    BY <2>2, IdleType DEF Request, Pcs, BookingTail
  <2>4. status' \in [Appt -> RowStatus] /\ \A b \in Appt : status[b] # "NONE" => status'[b] # "NONE"
    BY <2>1 DEF Sound, Tables, RowFirst, TypeOK, TablesOK, RowStatus, Status
  <2>5. Fits(rec, status')
    BY <2>1, <2>3, <2>4 DEF Fits, Sound, Tables, RowFirst, TypeOK, TablesOK
  <2>6. Tables'
    BY <1>3, <2>1, <2>2, <2>4, UnlockType
       DEF BookPublicInsert, Sound, Tables, RowFirst, TypeOK, TablesOK, Request, pixVars
  <2> QED BY <2>1, <2>3, <2>4, <2>5, <2>6, ReqStep DEF Sound, Tables, RowFirst, TypeOK
<1>4. CASE BookPublicAttend(r)
  <2>1. status' = status /\ Tables'
    BY <1>4 DEF BookPublicAttend, Sound, Tables, RowFirst, TypeOK, TablesOK, calendarVars, pixVars, ghostVars
  <2>2. req[r].a \in Appt /\ status[req[r].a] # "NONE"
    BY <1>4 DEF BookPublicAttend, Sound, InFlight, Fits, AtRow
  <2>3. Continue(r, "psp") \/ Continue(r, "announce")
    BY <1>4 DEF BookPublicAttend
  <2> QED BY <2>1, <2>2, <2>3, ContinueStep DEF Sound, Tables, RowFirst, TypeOK, Pcs, BookingTail
<1>5. CASE Announce(r)
  <2>1. req[r].a \in Appt
    BY <1>5 DEF Announce, Sound, InFlight, Fits, AtRow
  <2>2. status' = status /\ Tables'
    BY <1>5, <2>1 DEF Announce, Sound, Tables, RowFirst, TypeOK, TablesOK, calendarVars, pixVars, ghostVars
  <2> QED BY <1>5, <2>2, DoneStep DEF Announce, Sound, Tables, RowFirst, TypeOK
<1> QED BY <1>1, <1>2, <1>3, <1>4, <1>5

\* The steps that create the deposit charge, and the refusal.
LEMMA DepositSound ==
  ASSUME Sound, NEW r \in Actor,
         \/ CreatePixCharge(r) \/ StillPending(r) \/ InsertCharge(r)
         \/ ChargeError(r) \/ RefuseDeposit(r)
  PROVE  Sound'
<1>1. req[r].a \in Appt /\ status[req[r].a] # "NONE"
  BY DEF CreatePixCharge, StillPending, InsertCharge, ChargeError, RefuseDeposit,
         Sound, InFlight, Fits, AtRow
<1>2. \A l \in BookingTail : Fits([req[r] EXCEPT !.pc = l], status)
  BY <1>1 DEF Fits, BookingTail, Sound, Tables, RowFirst, TypeOK, Request
<1>3. CASE CreatePixCharge(r) \/ StillPending(r) \/ InsertCharge(r) \/ ChargeError(r)
  <2>1. status' = status /\ Tables'
    BY <1>1, <1>3 DEF CreatePixCharge, StillPending, InsertCharge, ChargeError, Sound, Tables, RowFirst, TypeOK,
         TablesOK, calendarVars, pixVars, ghostVars, PaymentStatus, ChargeStatus
  <2>2. Done(r) \/ \E l \in BookingTail : Goto(r, l)
    BY <1>3 DEF CreatePixCharge, StillPending, InsertCharge, ChargeError, BookingTail
  <2> QED BY <1>2, <2>1, <2>2, DoneStep, GotoStep DEF Sound, Tables, RowFirst, TypeOK, Pcs
<1>4. CASE RefuseDeposit(r)
  <2>1. Tables' /\ \A b \in Appt : status[b] # "NONE" => status'[b] # "NONE"
    BY <1>1, <1>4, UpdateIfType DEF RefuseDeposit, Sound, Tables, RowFirst, TypeOK, TablesOK, pixVars, Status
  <2> QED BY <1>4, <2>1, DoneStep DEF RefuseDeposit, Sound, Tables, RowFirst, TypeOK
<1> QED BY <1>3, <1>4

\* The first reads of the manage link, the dashboard and the webhook: what they take
\* away from the tables fits the step they go to.
LEMMA ReadSound ==
  ASSUME Sound, NEW r \in Actor,
         \/ ConfirmByTokenRead(r) \/ CancelByTokenRead(r) \/ RescheduleByTokenRead(r)
         \/ UpdateStatusRead(r) \/ WebhookRead(r)
  PROVE  Sound'
<1>1. \E rec \in Request : Start(r, rec) /\ Fits(rec, status)
  <2>1. CASE ConfirmByTokenRead(r)
    <3>1. PICK a \in Appt : /\ Exists(a)
                           /\ Start(r, [Idle EXCEPT !.pc = "confirm", !.a = a, !.to = "CONFIRMED"])
      BY <2>1 DEF ConfirmByTokenRead, HasLink
    <3> DEFINE rec == [Idle EXCEPT !.pc = "confirm", !.a = a, !.to = "CONFIRMED"]
    <3>2. rec \in Request /\ rec.pc = "confirm" /\ rec.a = a /\ rec.to = "CONFIRMED"
      BY IdleType DEF Request, Pcs, Writes, Status
    <3> QED BY <3>1, <3>2 DEF Fits, Exists, Status
  <2>2. CASE CancelByTokenRead(r)
    <3>1. PICK a \in Appt : /\ Exists(a)
                           /\ Start(r, [Idle EXCEPT !.pc = "cancel", !.a = a, !.to = "CANCELLED"])
      BY <2>2 DEF CancelByTokenRead, HasLink
    <3> DEFINE rec == [Idle EXCEPT !.pc = "cancel", !.a = a, !.to = "CANCELLED"]
    <3>2. rec \in Request /\ rec.pc = "cancel" /\ rec.a = a /\ rec.to = "CANCELLED"
      BY IdleType DEF Request, Pcs, Writes, Status
    <3> QED BY <3>1, <3>2 DEF Fits, Exists, Status
  <2>3. CASE RescheduleByTokenRead(r)
    <3>1. PICK a \in Appt, s \in Slots, t \in {"PENDING_PAYMENT", "SCHEDULED"} :
            /\ Exists(a)
            /\ Start(r, [Idle EXCEPT !.pc = "moveCheck", !.a = a, !.p = pro[a], !.s = s,
                                     !.to = t, !.flag = TRUE])
      BY <2>3 DEF RescheduleByTokenRead, HasLink
    <3> DEFINE rec == [Idle EXCEPT !.pc = "moveCheck", !.a = a, !.p = pro[a], !.s = s,
                                   !.to = t, !.flag = TRUE]
    <3>2. rec \in Request /\ rec.pc = "moveCheck" /\ rec.a = a /\ rec.to = t
      BY IdleType DEF Request, Pcs, Status, Sound, Tables, RowFirst, TypeOK, TablesOK
    <3> QED BY <3>1, <3>2 DEF Fits, Exists, Status
  <2>4. CASE UpdateStatusRead(r)
    <3>1. PICK a \in Appt, t \in Status :
            /\ Exists(a)
            /\ Start(r, [Idle EXCEPT !.pc = "staff", !.a = a, !.seen = status[a], !.to = t])
      BY <2>4 DEF UpdateStatusRead
    <3> DEFINE rec == [Idle EXCEPT !.pc = "staff", !.a = a, !.seen = status[a], !.to = t]
    <3>2. status[a] \in Status
      BY <3>1 DEF Exists, Sound, Tables, RowFirst, TypeOK, TablesOK, RowStatus
    <3>3. rec \in Request /\ rec.pc = "staff" /\ rec.a = a /\ rec.to = t
      BY <3>2, IdleType DEF Request, Pcs, Writes
    <3> QED BY <3>1, <3>3 DEF Fits, Exists
  <2>5. CASE WebhookRead(r)
    <3>1. PICK a \in Appt : /\ payment[a] \in PaymentStatus
                           /\ Start(r, [Idle EXCEPT !.pc = "hook", !.a = a, !.seen = payment[a]])
      BY <2>5 DEF WebhookRead
    <3> DEFINE rec == [Idle EXCEPT !.pc = "hook", !.a = a, !.seen = payment[a]]
    <3>2. rec \in Request /\ rec.pc = "hook" /\ rec.a = a
      BY <3>1, IdleType DEF Request, Pcs
    <3>3. status[a] # "NONE"
      BY <3>1 DEF Sound, RowFirst, PaymentStatus
    <3> QED BY <3>1, <3>2, <3>3 DEF Fits
  <2> QED BY <2>1, <2>2, <2>3, <2>4, <2>5
<1>2. Tables' /\ status' = status
  BY TablesKept DEF ConfirmByTokenRead, CancelByTokenRead, RescheduleByTokenRead,
       UpdateStatusRead, WebhookRead, Sound, Tables, RowFirst, TypeOK
<1> QED BY <1>1, <1>2, StartStep DEF Sound, Tables, RowFirst, TypeOK

\* The writes of the manage link and the dashboard.
LEMMA WriteSound ==
  ASSUME Sound, NEW r \in Actor,
         \/ ConfirmByTokenWrite(r) \/ CancelByTokenWrite(r) \/ UpdateStatusWrite(r)
         \/ RescheduleByTokenCheck(r) \/ RescheduleByTokenWrite(r)
  PROVE  Sound'
<1> DEFINE a == req[r].a
<1>1. a \in Appt /\ status[a] # "NONE" /\ req[r].to \in Status /\ req[r] \in Request
  BY DEF ConfirmByTokenWrite, CancelByTokenWrite, UpdateStatusWrite, RescheduleByTokenCheck,
         RescheduleByTokenWrite, Sound, TypeOK, InFlight, Fits, AtRow
<1>2. CASE ConfirmByTokenWrite(r) \/ CancelByTokenWrite(r) \/ UpdateStatusWrite(r)
  <2>1. \/ WriteStatus(a, req[r].to)
        \/ UNCHANGED <<calendarVars, ghostVars>>
    BY <1>2 DEF ConfirmByTokenWrite, CancelByTokenWrite, UpdateStatusWrite
  <2>2. credited' \subseteq Appt /\ UNCHANGED <<pixVars, mail, wait, lock, failures>>
    BY <1>1, <1>2 DEF ConfirmByTokenWrite, CancelByTokenWrite, UpdateStatusWrite, Sound, TypeOK,
         TablesOK
  <2>3. Tables' /\ \A b \in Appt : status[b] # "NONE" => status'[b] # "NONE"
    <3>1. CASE WriteStatus(a, req[r].to)
      BY <1>1, <2>2, <3>1, WriteStatusType DEF Sound, Tables, RowFirst, TypeOK, TablesOK, pixVars
    <3>2. CASE UNCHANGED <<calendarVars, ghostVars>>
      BY <2>2, <3>2 DEF Sound, Tables, RowFirst, TypeOK, TablesOK, pixVars, calendarVars, ghostVars
    <3> QED BY <2>1, <3>1, <3>2
  <2>4. Continue(r, "silence") \/ Done(r)
    BY <1>2 DEF ConfirmByTokenWrite, CancelByTokenWrite, UpdateStatusWrite
  <2> QED BY <1>1, <2>3, <2>4, ContinueStep, DoneStep DEF Sound, Tables, TypeOK, Pcs
<1>3. CASE RescheduleByTokenCheck(r)
  <2>1. status' = status /\ Tables'
    BY <1>3 DEF RescheduleByTokenCheck, Sound, Tables, RowFirst, TypeOK, TablesOK, Request,
         calendarVars, pixVars, ghostVars
  <2>2. Goto(r, "moveWrite") \/ Done(r)
    BY <1>3 DEF RescheduleByTokenCheck
  <2>3. Fits([req[r] EXCEPT !.pc = "moveWrite"], status')
    BY <1>1, <2>1 DEF Fits, Request
  <2> QED BY <2>1, <2>2, <2>3, GotoStep, DoneStep DEF Sound, Tables, TypeOK, Pcs
<1>4. CASE RescheduleByTokenWrite(r)
  <2>1. freed' \in Nat /\ unchecked' \subseteq Appt
    BY <1>4 DEF RescheduleByTokenWrite, CountOpening, Sound, TypeOK, TablesOK
  <2>2. Tables' /\ \A b \in Appt : status[b] # "NONE" => status'[b] # "NONE"
    BY <1>1, <1>4, <2>1, UnlockType DEF RescheduleByTokenWrite, Sound, Tables, RowFirst, TypeOK,
         TablesOK, Request, RowStatus, Status, pixVars
  <2> QED BY <1>1, <1>4, <2>2, ContinueStep
          DEF RescheduleByTokenWrite, Sound, Tables, TypeOK, Pcs
<1> QED BY <1>2, <1>3, <1>4

\* The side effects of a cancellation or a reschedule.
LEMMA EffectsSound ==
  ASSUME Sound, NEW r \in Actor,
         CancelPendingJobs(r) \/ FindCandidate(r) \/ ClaimCandidate(r)
  PROVE  Sound'
<1>1. req[r].a \in Appt /\ status[req[r].a] # "NONE" /\ req[r] \in Request
  BY DEF CancelPendingJobs, FindCandidate, ClaimCandidate, Sound, TypeOK, InFlight, Fits, AtRow
<1>2. CASE CancelPendingJobs(r)
  <2>1. status' = status /\ Tables'
    BY <1>2 DEF CancelPendingJobs, Sound, Tables, RowFirst, TypeOK, TablesOK, calendarVars,
         pixVars, ghostVars
  <2>2. Fits([req[r] EXCEPT !.pc = "find"], status')
    BY <1>1, <2>1 DEF Fits, Request
  <2> QED BY <1>2, <2>1, <2>2, GotoStep DEF CancelPendingJobs, Sound, Tables, TypeOK, Pcs
<1>3. AfterOffer(r) /\ status' = status => req' \in [Actor -> Request] /\ InFlight'
  BY <1>1, ContinueStep, DoneStep DEF AfterOffer, Pcs, BookingTail
<1>4. CASE FindCandidate(r)
  <2>1. status' = status /\ Tables'
    BY <1>4, TablesKept DEF FindCandidate, Sound, Tables, TypeOK
  <2>2. CASE \E w \in Waiting : req' = [req EXCEPT ![r].pc = "claim", ![r].who = w]
    <3>1. PICK w \in Waiter : req' = [req EXCEPT ![r] = [req[r] EXCEPT !.pc = "claim", !.who = w]]
      BY <2>2 DEF Waiting, Sound, TypeOK
    <3> DEFINE rec == [req[r] EXCEPT !.pc = "claim", !.who = w]
    <3>2. rec \in Request /\ Fits(rec, status')
      BY <1>1, <2>1 DEF Request, Pcs, Fits
    <3> QED BY <2>1, <3>1, <3>2, ReqStep DEF Sound, Tables, TypeOK
  <2>3. AfterOffer(r) \/ \E w \in Waiting : req' = [req EXCEPT ![r].pc = "claim", ![r].who = w]
    BY <1>4 DEF FindCandidate
  <2> QED BY <1>3, <2>1, <2>2, <2>3 DEF Sound, Tables, TypeOK
<1>5. CASE ClaimCandidate(r)
  <2>1. req[r].who \in Waiter
    BY <1>5 DEF ClaimCandidate, Sound, InFlight, Fits
  <2>2. status' = status /\ Tables'
    BY <1>5, <2>1 DEF ClaimCandidate, Sound, Tables, RowFirst, TypeOK, TablesOK, calendarVars,
         pixVars
  <2> QED BY <1>3, <1>5, <2>2 DEF ClaimCandidate, Sound, Tables, TypeOK
<1> QED BY <1>2, <1>4, <1>5

\* The webhook's three outcomes and the release of a hold.
LEMMA PixSound ==
  ASSUME Sound, NEW r \in Actor,
         \/ ConfirmPaid(r) \/ Thank(r) \/ MarkRefunded(r) \/ WebhookRelease(r)
         \/ ReleaseRead(r) \/ ReleaseTx(r)
  PROVE  Sound'
<1> DEFINE a == req[r].a
<1>1. a \in Appt /\ status[a] # "NONE" /\ req[r] \in Request
  BY DEF ConfirmPaid, Thank, MarkRefunded, WebhookRelease, ReleaseRead, ReleaseTx,
         Sound, TypeOK, InFlight, Fits, AtRow
<1>2. CASE ConfirmPaid(r)
  <2>1. /\ status' \in [Appt -> RowStatus] /\ unchecked' \subseteq Appt /\ freed' \in Nat
        /\ \A b \in Appt : status[b] # "NONE" => status'[b] # "NONE"
        /\ UNCHANGED <<slot, pro, deposit, thanked, offered>>
    <3>1. CASE UpdateIf(a, "PENDING_PAYMENT", "CONFIRMED")
      BY <1>1, <3>1, UpdateIfType DEF Sound, TypeOK, Status
    <3>2. CASE UNCHANGED <<calendarVars, ghostVars>>
      BY <3>2 DEF Sound, TypeOK, TablesOK, calendarVars, ghostVars
    <3> QED BY <1>2, <3>1, <3>2 DEF ConfirmPaid
  <2>2. charge' = charge \/ charge' = [charge EXCEPT ![a] = "PAID"]
    BY <1>2 DEF ConfirmPaid
  <2>3. Tables'
    BY <1>1, <1>2, <2>1, <2>2 DEF ConfirmPaid, Sound, Tables, RowFirst, TypeOK, TablesOK,
         ChargeStatus
  <2>4. Continue(r, "thank") \/ Done(r)
    BY <1>2 DEF ConfirmPaid
  <2> QED BY <1>1, <2>1, <2>3, <2>4, ContinueStep, DoneStep DEF Sound, Tables, TypeOK, Pcs
<1>3. CASE Thank(r)
  <2>1. status' = status /\ Tables'
    BY <1>1, <1>3 DEF Thank, Sound, Tables, RowFirst, TypeOK, TablesOK, calendarVars, pixVars
  <2> QED BY <1>3, <2>1, DoneStep DEF Thank, Sound, Tables, TypeOK
<1>4. CASE MarkRefunded(r)
  <2>1. status' = status /\ Tables'
    BY <1>1, <1>4 DEF MarkRefunded, Sound, Tables, RowFirst, TypeOK, TablesOK, calendarVars,
         ghostVars, ChargeStatus
  <2> QED BY <1>4, <2>1, DoneStep DEF MarkRefunded, Sound, Tables, TypeOK
<1>5. CASE WebhookRelease(r)
  <2>1. status' = status /\ Tables'
    BY <1>5, TablesKept DEF WebhookRelease, Sound, Tables, TypeOK
  <2>2. CASE Done(r)
    BY <2>1, <2>2, DoneStep DEF Sound, Tables, TypeOK
  <2>3. CASE ~Done(r)
    <3>1. PICK t \in {"CANCELLED", "EXPIRED"} :
            req' = [req EXCEPT ![r] = [Idle EXCEPT !.pc = "release", !.a = a, !.to = t]]
      BY <1>5, <2>3 DEF WebhookRelease
    <3> DEFINE rec == [Idle EXCEPT !.pc = "release", !.a = a, !.to = t]
    <3>2. rec \in Request /\ rec.pc = "release" /\ rec.a = a /\ rec.to = t
      BY <1>1, IdleType DEF Request, Pcs, ChargeStatus
    <3>3. Fits(rec, status')
      BY <1>1, <2>1, <3>2 DEF Fits
    <3> QED BY <2>1, <3>1, <3>2, <3>3, ReqStep DEF Sound, Tables, TypeOK
  <2> QED BY <2>2, <2>3
<1>6. CASE ReleaseRead(r)
  <2>1. status' = status /\ Tables'
    BY <1>6, TablesKept DEF ReleaseRead, Sound, Tables, TypeOK
  <2>2. CASE Done(r)
    BY <2>1, <2>2, DoneStep DEF Sound, Tables, TypeOK
  <2>3. CASE ~Done(r)
    <3> DEFINE rec == [req[r] EXCEPT !.pc = "releaseTx", !.seen = status[a],
                                     !.flag = charge[a] = "PENDING"]
    <3>1. req' = [req EXCEPT ![r] = rec]
      BY <1>6, <2>3 DEF ReleaseRead, Sound, TypeOK
    <3>2. req[r].to \in {"EXPIRED", "CANCELLED"} /\ status[a] \in Status
      BY <1>1, <1>6 DEF ReleaseRead, Sound, TypeOK, TablesOK, RowStatus, InFlight, Fits
    <3>3. (charge[a] = "PENDING") \in BOOLEAN
      OBVIOUS
    <3>4. rec \in Request /\ Fits(rec, status')
      BY <1>1, <2>1, <3>2, <3>3 DEF Request, Pcs, Fits
    <3> QED BY <2>1, <3>1, <3>4, ReqStep DEF Sound, Tables, TypeOK
  <2> QED BY <2>2, <2>3
<1>7. CASE ReleaseTx(r)
  <2>1. /\ status' \in [Appt -> RowStatus] /\ unchecked' \subseteq Appt /\ freed' \in Nat
        /\ \A b \in Appt : status[b] # "NONE" => status'[b] # "NONE"
        /\ UNCHANGED <<slot, pro, deposit, thanked, offered>>
    <3>1. CASE UpdateIf(a, req[r].seen, "CANCELLED")
      BY <1>1, <3>1, UpdateIfType DEF Sound, TypeOK, Status
    <3>2. CASE UNCHANGED <<calendarVars, ghostVars>>
      BY <3>2 DEF Sound, TypeOK, TablesOK, calendarVars, ghostVars
    <3> QED BY <1>7, <3>1, <3>2 DEF ReleaseTx
  <2>2. req[r].to \in {"EXPIRED", "CANCELLED"}
    BY <1>7 DEF ReleaseTx, Sound, InFlight, Fits
  <2>3. Tables'
    BY <1>1, <1>7, <2>1, <2>2 DEF ReleaseTx, Sound, Tables, RowFirst, TypeOK, TablesOK,
         ChargeStatus
  <2> DEFINE rec == [Idle EXCEPT !.pc = "find", !.a = a]
  <2>4. rec \in Request /\ rec.pc = "find" /\ rec.a = a
    BY <1>1, IdleType DEF Request, Pcs
  <2>5. Fits(rec, status')
    BY <1>1, <2>1, <2>4 DEF Fits
  <2>6. Done(r) \/ req' = [req EXCEPT ![r] = rec]
    BY <1>7 DEF ReleaseTx, Done
  <2> QED BY <2>1, <2>3, <2>4, <2>5, <2>6, ReqStep, DoneStep DEF Sound, Tables, TypeOK
<1> QED BY <1>2, <1>3, <1>4, <1>5, <1>6, <1>7

\* The reconciliation only selects appointments that exist.
LEMMA SweepSound == Sound /\ Sweep => Sound'
<1> SUFFICES ASSUME Sound, Sweep PROVE Sound'
  OBVIOUS
<1>1. PICK a \in Appt :
        /\ Overdue(a)
        /\ Start(Sweeper, [Idle EXCEPT !.pc = "release", !.a = a, !.to = "EXPIRED"])
  BY DEF Sweep
<1> DEFINE rec == [Idle EXCEPT !.pc = "release", !.a = a, !.to = "EXPIRED"]
<1>2. status[a] # "NONE"
  BY <1>1 DEF Overdue, Sound, RowFirst
<1>3. rec \in Request /\ rec.pc = "release" /\ rec.a = a /\ rec.to = "EXPIRED"
  BY IdleType DEF Request, Pcs, ChargeStatus
<1>4. Fits(rec, status)
  BY <1>2, <1>3 DEF Fits
<1>5. Tables' /\ status' = status
  BY TablesKept DEF Sweep, Sound, Tables, TypeOK
<1> QED BY <1>1, <1>3, <1>4, <1>5, StartStep DEF Sound, Tables, TypeOK, Actor

\* A handler that is refused by the database, or dies, leaves the tables alone.
LEMMA ErrorSound ==
  ASSUME Sound, NEW r \in Actor, DbRejects(r) \/ Fail(r)
  PROVE  Sound'
<1>1. Unlock(r) /\ Done(r) /\ failures' \in Nat
  BY DEF DbRejects, Fail, Sound, TypeOK, TablesOK
<1>2. Tables' /\ status' = status
  BY <1>1, UnlockType DEF DbRejects, Fail, Sound, Tables, RowFirst, TypeOK, TablesOK,
       calendarVars, pixVars, ghostVars
<1> QED BY <1>1, <1>2, DoneStep DEF Sound, Tables, TypeOK

\* Payments and the passing of time.
LEMMA WorldSound ==
  ASSUME Sound, NEW a \in Appt, Pay(a) \/ PaymentEnds(a) \/ TimePasses(a)
  PROVE  Sound'
<1>1. /\ status' = status /\ req' = req
      /\ UNCHANGED <<calendarVars, charge, credited, mail, wait, lock, failures, ghostVars>>
  BY DEF Pay, PaymentEnds, TimePasses, calendarVars
<1>2. due' \subseteq Appt /\ payment' \in [Appt -> PaymentStatus \cup {"NONE"}]
  BY DEF Pay, PaymentEnds, TimePasses, Sound, TypeOK, TablesOK, PaymentStatus
<1>3. RowFirst'
  BY <1>1 DEF Pay, PaymentEnds, TimePasses, Sound, RowFirst, TypeOK, TablesOK, ghostVars
<1> QED BY <1>1, <1>2, <1>3
        DEF Sound, TypeOK, TablesOK, InFlight, calendarVars, ghostVars

\* Every step keeps the invariant.
LEMMA NextSound == Sound /\ [Next]_vars => Sound'
<1> SUFFICES ASSUME Sound, [Next]_vars PROVE Sound'
  OBVIOUS
<1>1. CASE \E r \in Req : Arrive(r)
  BY <1>1, BookingSound, ReadSound DEF Arrive, Actor
<1>2. CASE Sweep
  BY <1>2, SweepSound
<1>3. ASSUME NEW r \in Actor, Step(r) PROVE Sound'
  BY <1>3, BookingSound, DepositSound, WriteSound, EffectsSound, PixSound, ErrorSound DEF Step
<1>4. ASSUME NEW r \in Actor, Fail(r) PROVE Sound'
  BY <1>4, ErrorSound
<1>5. ASSUME NEW a \in Appt, Pay(a) \/ PaymentEnds(a) \/ TimePasses(a) PROVE Sound'
  BY <1>5, WorldSound
<1>6. CASE UNCHANGED vars
  BY <1>6 DEF Sound, TypeOK, TablesOK, RowFirst, InFlight, vars, calendarVars, pixVars, ghostVars
<1> QED BY <1>1, <1>2, <1>3, <1>4, <1>5, <1>6 DEF Next

\* At every moment, whatever handlers are in flight, the tables are well typed, no
\* payment precedes its appointment and every handler works on a row that exists.
THEOREM SpecSound == Spec => []Sound
<1>1. Init => Sound
  BY InitSound
<1>2. Sound /\ [Next]_vars => Sound'
  BY NextSound
<1> QED BY <1>1, <1>2, PTL DEF Spec

\* Every table and every handler in flight keeps its type.
THEOREM TypeCorrect == Spec => []TypeOK
<1>1. Sound => TypeOK
  BY DEF Sound
<1> QED BY <1>1, SpecSound, PTL

-------------------------------------------------------------------------------
(***************************************************************************)
(* How handlers go on: the facts the proofs about the calendar and about   *)
(* deposits share.                                                         *)
(***************************************************************************)
\* The steps that write what an earlier step of the handler has decided.
Decided == {"insert", "moveCheck", "moveWrite", "confirm", "cancel", "staff", "claim"}

\* After a step of r, r is at l and every other handler where it was.
Reaches(r, l) == (\A q \in Actor \ {r} : req'[q] = req[q]) /\ req'[r].pc = l

\* How a step of r enters such a step, and what it does to the locks.
HandlerStep(r) ==
  /\ \A q \in Actor \ {r} : req'[q] = req[q]
  /\ req'[r].pc \in {"insert", "moveWrite"} =>
       BookPublicCheck(r) \/ RescheduleByTokenCheck(r)
  /\ req'[r].pc = "moveCheck" => RescheduleByTokenRead(r)
  /\ req'[r].pc = "confirm" => ConfirmByTokenRead(r)
  /\ req'[r].pc = "cancel" => CancelByTokenRead(r)
  /\ req'[r].pc = "staff" => UpdateStatusRead(r)
  /\ req'[r].pc = "claim" => FindCandidate(r)
  /\ \/ lock' = lock
     \/ Unlock(r)
     \/ lock[req[r].p] = NoReq /\ lock' = [lock EXCEPT ![req[r].p] = r]

\* The four ways a handler goes on, and where each of them leaves it.
LEMMA WhereNext ==
  ASSUME Sound, NEW r \in Actor
  PROVE  /\ Done(r) => Reaches(r, "idle")
         /\ \A l \in Pcs : Goto(r, l) => Reaches(r, l)
         /\ \A l \in Pcs : Continue(r, l) => Reaches(r, l)
         /\ \A rec \in Request : Start(r, rec) => Reaches(r, rec.pc)
         /\ \A rec \in Request : req' = [req EXCEPT ![r] = rec] => Reaches(r, rec.pc)
<1> USE DEF Sound, TypeOK
<1>1. Done(r) => Reaches(r, "idle")
  BY IdleType DEF Done, Reaches
<1>2. ASSUME NEW l \in Pcs, Goto(r, l) PROVE Reaches(r, l)
  BY <1>2 DEF Goto, Reaches, Request
<1>3. ASSUME NEW l \in Pcs, Continue(r, l) PROVE Reaches(r, l)
  <2> DEFINE rec == [Idle EXCEPT !.pc = l, !.a = req[r].a, !.flag = req[r].flag]
  <2>1. rec.pc = l
    BY IdleType DEF Request
  <2>2. req' = [req EXCEPT ![r] = rec]
    BY <1>3 DEF Continue
  <2> QED BY <2>1, <2>2 DEF Reaches
<1>4. \A rec \in Request : Start(r, rec) => Reaches(r, rec.pc)
  BY DEF Start, Reaches
<1>5. \A rec \in Request : req' = [req EXCEPT ![r] = rec] => Reaches(r, rec.pc)
  BY DEF Reaches
<1> QED BY <1>1, <1>2, <1>3, <1>4, <1>5

\* A step that decides nothing and takes no lock.
LEMMA OutsideStep ==
  ASSUME NEW r \in Actor, NEW l \in Pcs \ Decided, Reaches(r, l), lock' = lock \/ Unlock(r)
  PROVE  HandlerStep(r)
  BY DEF Decided, Reaches, HandlerStep

\* Every step of a handler is of this kind: only the first read of an entry point, or
\* a check under the lock, leads to a step that writes what was decided.
LEMMA ActorStep ==
  ASSUME Sound, NEW r \in Actor, Arrive(r) \/ Step(r) \/ Fail(r) \/ (r = Sweeper /\ Sweep)
  PROVE  HandlerStep(r)
<1>1. CASE BookPublicRead(r) \/ WebhookRead(r) \/ (r = Sweeper /\ Sweep)
  <2>1. \E l \in {"check", "hook", "release"} : Reaches(r, l)
    <3>1. CASE BookPublicRead(r)
      <4>1. PICK p \in Pro, s \in Slots, who \in Waiter \cup {NoWaiter}, d \in Deposits :
                    req' = [req EXCEPT ![r] = [Idle EXCEPT !.pc = "check", !.p = p, !.s = s,
                                                           !.who = who, !.flag = d]]
        BY <3>1 DEF BookPublicRead, Start
      <4> QED BY <4>1, IdleType DEF Reaches, Request, Sound, TypeOK
    <3>2. CASE WebhookRead(r)
      <4>1. PICK a \in Appt :
                    req' = [req EXCEPT ![r] = [Idle EXCEPT !.pc = "hook", !.a = a,
                                                           !.seen = payment[a]]]
        BY <3>2 DEF WebhookRead, Start
      <4> QED BY <4>1, IdleType DEF Reaches, Request, Sound, TypeOK
    <3>3. CASE r = Sweeper /\ Sweep
      <4>1. PICK a \in Appt :
                    req' = [req EXCEPT ![r] = [Idle EXCEPT !.pc = "release", !.a = a,
                                                           !.to = "EXPIRED"]]
        BY <3>3 DEF Sweep, Start
      <4> QED BY <4>1, IdleType DEF Reaches, Request, Sound, TypeOK
    <3> QED BY <1>1, <3>1, <3>2, <3>3
  <2>2. lock' = lock
    BY <1>1 DEF BookPublicRead, WebhookRead, Sweep
  <2> QED BY <2>1, <2>2, OutsideStep DEF Pcs, Decided
<1>2. CASE ConfirmByTokenRead(r)
  <2>1. PICK a \in Appt : req' = [req EXCEPT ![r] = [Idle EXCEPT !.pc = "confirm", !.a = a,
                                                                 !.to = "CONFIRMED"]]
    BY <1>2 DEF ConfirmByTokenRead, Start
  <2>2. Reaches(r, "confirm")
    BY <2>1, IdleType DEF Reaches, Request, Sound, TypeOK
  <2> QED BY <1>2, <2>2 DEF Reaches, HandlerStep, ConfirmByTokenRead
<1>3. CASE CancelByTokenRead(r)
  <2>1. PICK a \in Appt : req' = [req EXCEPT ![r] = [Idle EXCEPT !.pc = "cancel", !.a = a,
                                                                 !.to = "CANCELLED"]]
    BY <1>3 DEF CancelByTokenRead, Start
  <2>2. Reaches(r, "cancel")
    BY <2>1, IdleType DEF Reaches, Request, Sound, TypeOK
  <2> QED BY <1>3, <2>2 DEF Reaches, HandlerStep, CancelByTokenRead
<1>4. CASE UpdateStatusRead(r)
  <2>1. PICK a \in Appt, t \in Status :
          req' = [req EXCEPT ![r] = [Idle EXCEPT !.pc = "staff", !.a = a, !.seen = status[a],
                                                 !.to = t]]
    BY <1>4 DEF UpdateStatusRead, Start
  <2>2. Reaches(r, "staff")
    BY <2>1, IdleType DEF Reaches, Request, Sound, TypeOK
  <2> QED BY <1>4, <2>2 DEF Reaches, HandlerStep, UpdateStatusRead
<1>5. CASE RescheduleByTokenRead(r)
  <2>1. PICK a \in Appt, s \in Slots, t \in {"PENDING_PAYMENT", "SCHEDULED"} :
          req' = [req EXCEPT ![r] = [Idle EXCEPT !.pc = "moveCheck", !.a = a, !.p = pro[a],
                                                 !.s = s, !.to = t, !.flag = TRUE]]
    BY <1>5 DEF RescheduleByTokenRead, Start
  <2>2. lock' = lock
    BY <1>5 DEF RescheduleByTokenRead
  <2>3. Reaches(r, "moveCheck")
    BY <2>1, IdleType DEF Reaches, Request, Sound, TypeOK
  <2> QED BY <1>5, <2>2, <2>3 DEF Reaches, HandlerStep
<1>6. CASE BookPublicCheck(r) \/ RescheduleByTokenCheck(r)
  <2>1. Done(r) \/ Goto(r, "insert") \/ Goto(r, "moveWrite")
    BY <1>6 DEF BookPublicCheck, RescheduleByTokenCheck
  <2>2. /\ \A q \in Actor \ {r} : req'[q] = req[q]
        /\ req'[r].pc \in {"idle", "insert", "moveWrite"}
    BY <2>1, WhereNext DEF Reaches, Pcs
  <2>3. \/ lock' = lock
        \/ lock[req[r].p] = NoReq /\ lock' = [lock EXCEPT ![req[r].p] = r]
    BY <1>6 DEF BookPublicCheck, RescheduleByTokenCheck
  <2> QED BY <1>6, <2>2, <2>3 DEF HandlerStep
<1>7. CASE \/ BookPublicAttend(r) \/ Announce(r) \/ CreatePixCharge(r) \/ StillPending(r)
           \/ InsertCharge(r) \/ ChargeError(r) \/ RefuseDeposit(r)
           \/ ConfirmByTokenWrite(r) \/ CancelByTokenWrite(r) \/ UpdateStatusWrite(r)
           \/ RescheduleByTokenWrite(r) \/ CancelPendingJobs(r) \/ ClaimCandidate(r)
           \/ ConfirmPaid(r) \/ Thank(r) \/ MarkRefunded(r) \/ DbRejects(r) \/ Fail(r)
  <2>1. \/ Done(r)
        \/ \E l \in {"psp", "announce", "silence", "thank"} : Continue(r, l)
        \/ \E l \in {"recheck", "charge", "refuse", "find"} : Goto(r, l)
    BY <1>7 DEF BookPublicAttend, Announce, CreatePixCharge, StillPending, InsertCharge,
         ChargeError, RefuseDeposit, ConfirmByTokenWrite, CancelByTokenWrite,
         UpdateStatusWrite, RescheduleByTokenWrite, CancelPendingJobs, ClaimCandidate,
         AfterOffer, ConfirmPaid, Thank, MarkRefunded, DbRejects, Fail
  <2>2. \E l \in Pcs \ Decided : Reaches(r, l)
    BY <2>1, WhereNext DEF Pcs, BookingTail, Decided
  <2>3. lock' = lock \/ Unlock(r)
    BY <1>7 DEF BookPublicAttend, Announce, CreatePixCharge, StillPending, InsertCharge,
         ChargeError, RefuseDeposit, ConfirmByTokenWrite, CancelByTokenWrite,
         UpdateStatusWrite, RescheduleByTokenWrite, CancelPendingJobs, ClaimCandidate,
         ConfirmPaid, Thank, MarkRefunded, DbRejects, Fail
  <2> QED BY <2>2, <2>3, OutsideStep
<1>8. CASE BookPublicInsert(r)
  <2>1. PICK a \in Appt : req' = [req EXCEPT ![r] = [Idle EXCEPT !.pc = "attend", !.a = a,
                                     !.who = req[r].who, !.flag = req[r].flag]]
    BY <1>8 DEF BookPublicInsert
  <2>2. Reaches(r, "attend")
    BY <2>1, IdleType DEF Reaches, Request, Sound, TypeOK
  <2> QED BY <1>8, <2>2, OutsideStep DEF BookPublicInsert, Pcs, BookingTail, Decided
<1>9. CASE FindCandidate(r)
  <2>1. \/ Done(r) \/ Continue(r, "announce")
        \/ \E w \in Waiting : req' = [req EXCEPT ![r].pc = "claim", ![r].who = w]
    BY <1>9 DEF FindCandidate, AfterOffer
  <2>2. ASSUME NEW w \in Waiting, req' = [req EXCEPT ![r].pc = "claim", ![r].who = w]
        PROVE  Reaches(r, "claim")
    BY <2>2 DEF Reaches, Request, Sound, TypeOK
  <2>3. \E l \in {"idle", "announce", "claim"} : Reaches(r, l)
    BY <2>1, <2>2, WhereNext DEF Pcs, BookingTail
  <2>4. lock' = lock
    BY <1>9 DEF FindCandidate
  <2> QED BY <1>9, <2>3, <2>4 DEF Reaches, HandlerStep
<1>10. CASE WebhookRelease(r) \/ ReleaseRead(r) \/ ReleaseTx(r)
  <2>1. \E l \in {"idle", "release", "releaseTx", "find"} : Reaches(r, l)
    <3>1. CASE WebhookRelease(r)
      BY <3>1, IdleType DEF WebhookRelease, Done, Reaches, Request, Sound, TypeOK
    <3>2. CASE ReleaseRead(r)
      BY <3>2, IdleType DEF ReleaseRead, Done, Reaches, Request, Sound, TypeOK
    <3>3. CASE ReleaseTx(r)
      <4>1. Done(r) \/ req' = [req EXCEPT ![r] = [Idle EXCEPT !.pc = "find", !.a = req[r].a]]
        BY <3>3 DEF ReleaseTx, Done
      <4> QED BY <4>1, IdleType DEF Done, Reaches, Request, Sound, TypeOK
    <3> QED BY <1>10, <3>1, <3>2, <3>3
  <2>2. lock' = lock
    BY <1>10 DEF WebhookRelease, ReleaseRead, ReleaseTx
  <2> QED BY <2>1, <2>2, OutsideStep DEF Pcs, Decided
<1> QED BY <1>1, <1>2, <1>3, <1>4, <1>5, <1>6, <1>7, <1>8, <1>9, <1>10 DEF Arrive, Step

\* So every step of the system is one handler's, or moves none and writes no row.
LEMMA NextActor ==
  ASSUME Sound, [Next]_vars
  PROVE  \/ req' = req /\ lock' = lock /\ UNCHANGED <<status, slot, pro, unchecked>>
         \/ \E r \in Actor : HandlerStep(r)
<1>1. CASE \E r \in Req : Arrive(r)
  BY <1>1, ActorStep DEF Actor
<1>2. CASE Sweep
  BY <1>2, ActorStep DEF Actor
<1>3. CASE \E r \in Actor : Step(r) \/ Fail(r)
  BY <1>3, ActorStep
<1>4. CASE \E a \in Appt : Pay(a) \/ PaymentEnds(a) \/ TimePasses(a)
  BY <1>4 DEF Pay, PaymentEnds, TimePasses, calendarVars, ghostVars
<1>5. CASE UNCHANGED vars
  BY <1>5 DEF vars, calendarVars, ghostVars
<1> QED BY <1>1, <1>2, <1>3, <1>4, <1>5 DEF Next
===============================================================================
