------------------------------- MODULE PixProofs -------------------------------
(***************************************************************************)
(* The PIX charge, its payment at Mercado Pago and the confirmation sent   *)
(* for it, under every interleaving of bookings, webhooks, releases, the   *)
(* manage link and the dashboard.                                          *)
(*                                                                         *)
(* What the handlers read goes stale, so the argument is about what cannot *)
(* change behind them: one booking creates a row's charge (Alone), nobody  *)
(* pays before there is one (Carries), and a charge that was claimed by    *)
(* confirmPaid is never PENDING again (SettledStays).                      *)
(*                                                                         *)
(* DepositNeverBypassed alone is not inductive: between a handler's read   *)
(* of the status and its write by id anything may happen to the row.  It   *)
(* holds because a handler only decides on a status that needs the payment *)
(* when it has read one that needed it too, and a paid charge is never     *)
(* unpaid again; DecidedPaid says so of the handlers in flight.            *)
(***************************************************************************)
EXTENDS AppointmentsProofs

--------------------------------------------------------------------------------
(* The deposit: nothing goes ahead before its charge is paid.              *)

\* A charge's status once it was paid.
Paid(c) == c \in {"PAID", "REFUNDED"}

\* The statuses of an appointment that goes ahead.
GoesAhead == {"SCHEDULED", "CONFIRMED", "COMPLETED", "NO_SHOW"}

\* A handler that is going to write one of them for a deposit appointment does so
\* after the payment.
DecidedPaid ==
  \A r \in Actor :
    /\ req[r].pc \in {"confirm", "cancel", "staff", "moveCheck", "moveWrite"}
    /\ req[r].a \in deposit /\ req[r].to \in GoesAhead
    => Settled(req[r].a)

\* The inductive strengthening of DepositNeverBypassed.
DepositInv == DepositNeverBypassed /\ DecidedPaid

\* How statuses change: none does; one row is written, by id after a decision, by a
\* release or by a payment, and a deposit appointment only goes ahead with its charge
\* paid; or a row is created.
StatusStep ==
  \/ status' = status /\ deposit' = deposit
  \/ /\ deposit' = deposit
     /\ \E a \in Appt, t \in Status :
          /\ status' = [status EXCEPT ![a] = t]
          /\ a \in deposit /\ t \in GoesAhead => Paid(charge'[a])
  \/ \E a \in Appt, t \in {"PENDING_PAYMENT", "SCHEDULED"} :
       /\ status[a] = "NONE"
       /\ status' = [status EXCEPT ![a] = t]
       /\ deposit' = IF t = "PENDING_PAYMENT" THEN deposit \cup {a} ELSE deposit

\* A charge that was paid stays paid, or is refunded.
LEMMA SettledStays ==
  ASSUME Sound, [Next]_vars, NEW a \in Appt, Settled(a)
  PROVE  Paid(charge'[a])
<1> USE DEF Sound, TypeOK, TablesOK, Settled, Paid
<1>1. ASSUME NEW r \in Actor, Step(r) PROVE Paid(charge'[a])
  <2>1. CASE InsertCharge(r) \/ ConfirmPaid(r) \/ MarkRefunded(r) \/ ReleaseTx(r)
    BY <2>1 DEF InsertCharge, ConfirmPaid, MarkRefunded, ReleaseTx
  <2>2. CASE ~(InsertCharge(r) \/ ConfirmPaid(r) \/ MarkRefunded(r) \/ ReleaseTx(r))
    BY <1>1, <2>2 DEF Step, BookPublicCheck, BookPublicInsert, BookPublicAttend, Announce,
         CreatePixCharge, StillPending, ChargeError, RefuseDeposit, ConfirmByTokenWrite,
         CancelByTokenWrite, UpdateStatusWrite, RescheduleByTokenCheck,
         RescheduleByTokenWrite, CancelPendingJobs, FindCandidate, ClaimCandidate, Thank,
         WebhookRelease, ReleaseRead, DbRejects, pixVars
  <2> QED BY <2>1, <2>2
<1>2. CASE ~\E r \in Actor : Step(r)
  BY <1>2 DEF Next, Arrive, BookPublicRead, ConfirmByTokenRead, CancelByTokenRead,
       RescheduleByTokenRead, UpdateStatusRead, WebhookRead, Sweep, Fail, Pay, PaymentEnds,
       TimePasses, pixVars, vars
<1> QED BY <1>1, <1>2

\* Every step of the system changes statuses in one of these ways.
LEMMA StatusChanges ==
  ASSUME Sound, DepositInv, [Next]_vars
  PROVE  StatusStep
<1> USE DEF Sound, TypeOK, TablesOK, Settled, Paid
<1>1. ASSUME NEW r \in Actor, Step(r) PROVE StatusStep
  <2>1. CASE BookPublicInsert(r)
    <3>1. PICK a \in Appt :
            /\ status[a] = "NONE"
            /\ status' = [status EXCEPT ![a] = IF req[r].flag THEN "PENDING_PAYMENT"
                                                             ELSE "SCHEDULED"]
            /\ deposit' = IF req[r].flag THEN deposit \cup {a} ELSE deposit
      BY <2>1 DEF BookPublicInsert, Exists
    <3>2. CASE req[r].flag
      BY <3>1, <3>2 DEF StatusStep
    <3>3. CASE ~req[r].flag
      BY <3>1, <3>3 DEF StatusStep
    <3> QED BY <3>2, <3>3
  <2>2. CASE \/ ConfirmByTokenWrite(r) \/ CancelByTokenWrite(r) \/ UpdateStatusWrite(r)
             \/ RescheduleByTokenWrite(r)
    <3>1. /\ req[r].a \in Appt /\ req[r].to \in Status
          /\ req[r].pc \in {"confirm", "cancel", "staff", "moveWrite"}
      BY <2>2 DEF ConfirmByTokenWrite, CancelByTokenWrite, UpdateStatusWrite,
           RescheduleByTokenWrite, InFlight, Fits, AtRow, Writes
    <3>2. /\ deposit' = deposit
          /\ status' = status \/ status' = [status EXCEPT ![req[r].a] = req[r].to]
      BY <2>2 DEF ConfirmByTokenWrite, CancelByTokenWrite, UpdateStatusWrite,
           RescheduleByTokenWrite, WriteStatus, calendarVars, ghostVars
    <3>3. req[r].a \in deposit /\ req[r].to \in GoesAhead => Paid(charge'[req[r].a])
      BY <1>1, <3>1, SettledStays DEF DepositInv, DecidedPaid, Next
    <3> QED BY <3>1, <3>2, <3>3 DEF StatusStep
  <2>3. CASE ConfirmPaid(r)
    <3>1. req[r].a \in Appt
      BY <2>3 DEF ConfirmPaid, InFlight, Fits, AtRow
    <3>2. /\ deposit' = deposit
          /\ \/ status' = status
             \/ /\ status' = [status EXCEPT ![req[r].a] = "CONFIRMED"]
                /\ charge' = [charge EXCEPT ![req[r].a] = "PAID"]
      BY <2>3 DEF ConfirmPaid, UpdateIf, WriteStatus, calendarVars, ghostVars
    <3> QED BY <3>1, <3>2 DEF StatusStep, Status
  <2>4. CASE RefuseDeposit(r) \/ ReleaseTx(r)
    <3>1. req[r].a \in Appt
      BY <2>4 DEF RefuseDeposit, ReleaseTx, InFlight, Fits, AtRow
    <3>2. /\ deposit' = deposit
          /\ status' = status \/ status' = [status EXCEPT ![req[r].a] = "CANCELLED"]
      BY <2>4 DEF RefuseDeposit, ReleaseTx, UpdateIf, WriteStatus, calendarVars, ghostVars
    <3> QED BY <3>1, <3>2 DEF StatusStep, Status, GoesAhead
  <2>5. CASE \/ BookPublicCheck(r) \/ BookPublicAttend(r) \/ Announce(r) \/ CreatePixCharge(r)
             \/ StillPending(r) \/ InsertCharge(r) \/ ChargeError(r)
             \/ RescheduleByTokenCheck(r) \/ CancelPendingJobs(r) \/ FindCandidate(r)
             \/ ClaimCandidate(r) \/ Thank(r) \/ MarkRefunded(r) \/ WebhookRelease(r)
             \/ ReleaseRead(r) \/ DbRejects(r)
    BY <2>5 DEF BookPublicCheck, BookPublicAttend, Announce, CreatePixCharge, StillPending,
         InsertCharge, ChargeError, RescheduleByTokenCheck, CancelPendingJobs, FindCandidate,
         ClaimCandidate, Thank, MarkRefunded, WebhookRelease, ReleaseRead, DbRejects,
         calendarVars, ghostVars, StatusStep
  <2> QED BY <1>1, <2>1, <2>2, <2>3, <2>4, <2>5 DEF Step
<1>2. CASE ~\E r \in Actor : Step(r)
  BY <1>2 DEF Next, Arrive, BookPublicRead, ConfirmByTokenRead, CancelByTokenRead,
       RescheduleByTokenRead, UpdateStatusRead, WebhookRead, Sweep, Fail, Pay, PaymentEnds,
       TimePasses, calendarVars, ghostVars, vars, StatusStep
<1> QED BY <1>1, <1>2

\* The reads: what a handler decides to write, for the status it has read.
LEMMA DecisionPaid ==
  ASSUME Sound, DepositInv, NEW r \in Actor,
         \/ ConfirmByTokenRead(r) \/ CancelByTokenRead(r) \/ RescheduleByTokenRead(r)
         \/ UpdateStatusRead(r),
         req'[r].a \in deposit, req'[r].to \in GoesAhead
  PROVE  Paid(charge[req'[r].a])
<1> USE DEF Sound, TypeOK, TablesOK, Settled, Paid
<1>1. CASE ConfirmByTokenRead(r)
  <2>1. PICK a \in Appt :
          /\ Exists(a) /\ status[a] \notin {"CONFIRMED", "PENDING_PAYMENT"}
          /\ canTransition(status[a], "CONFIRMED")
          /\ req' = [req EXCEPT ![r] = [Idle EXCEPT !.pc = "confirm", !.a = a,
                                                    !.to = "CONFIRMED"]]
    BY <1>1 DEF ConfirmByTokenRead, HasLink, Start
  <2>2. req'[r].a = a
    BY <2>1, IdleType DEF Request
  <2>3. status[a] = "SCHEDULED"
    BY <2>1 DEF Exists, canTransition, TRANSITIONS, RowStatus, Status
  <2> QED BY <2>2, <2>3 DEF DepositInv, DepositNeverBypassed
<1>2. CASE CancelByTokenRead(r)
  <2>1. PICK a \in Appt : req' = [req EXCEPT ![r] = [Idle EXCEPT !.pc = "cancel", !.a = a,
                                                                 !.to = "CANCELLED"]]
    BY <1>2 DEF CancelByTokenRead, Start
  <2>2. req'[r].to = "CANCELLED"
    BY <2>1, IdleType DEF Request
  <2> QED BY <2>2 DEF GoesAhead
<1>3. CASE RescheduleByTokenRead(r)
  <2>1. PICK a \in Appt, s \in Slots, t \in {"PENDING_PAYMENT", "SCHEDULED"} :
          /\ isCancellableStatus(status[a])
          /\ t = "SCHEDULED" => status[a] # "PENDING_PAYMENT"
          /\ req' = [req EXCEPT ![r] = [Idle EXCEPT !.pc = "moveCheck", !.a = a, !.p = pro[a],
                                                    !.s = s, !.to = t, !.flag = TRUE]]
    BY <1>3 DEF RescheduleByTokenRead, Start
  <2>2. req'[r].a = a /\ req'[r].to = t
    BY <2>1, IdleType DEF Request
  <2> QED BY <2>1, <2>2 DEF DepositInv, DepositNeverBypassed, GoesAhead, isCancellableStatus
<1>4. CASE UpdateStatusRead(r)
  <2>1. PICK a \in Appt, t \in Status :
          /\ Exists(a) /\ canTransition(status[a], t)
          /\ req' = [req EXCEPT ![r] = [Idle EXCEPT !.pc = "staff", !.a = a,
                                                    !.seen = status[a], !.to = t]]
    BY <1>4 DEF UpdateStatusRead, Start
  <2>2. req'[r].a = a /\ req'[r].to = t
    BY <2>1, IdleType DEF Request
  <2>3. status[a] \in GoesAhead
    BY <2>1, <2>2 DEF Exists, canTransition, TRANSITIONS, RowStatus, Status, GoesAhead
  <2> QED BY <2>2, <2>3 DEF DepositInv, DepositNeverBypassed, GoesAhead
<1> QED BY <1>1, <1>2, <1>3, <1>4

\* Every step keeps the invariant: statuses change as StatusStep says, and a decision
\* is taken on a read row (DecisionPaid) or carried over from an earlier step.
LEMMA DepositStep ==
  ASSUME Sound, DepositInv, [Next]_vars
  PROVE  DepositInv'
<1> USE DEF Sound, TypeOK, TablesOK, Settled, Paid
<1>1. StatusStep
  BY StatusChanges
<1>2. ASSUME NEW a \in Appt, Settled(a) PROVE Paid(charge'[a])
  BY <1>2, SettledStays
<1>3. DepositNeverBypassed'
  <2> SUFFICES ASSUME NEW b \in Appt, b \in deposit', status'[b] \in GoesAhead
               PROVE  Paid(charge'[b])
    BY <1>1 DEF DepositNeverBypassed, GoesAhead, StatusStep
  <2>1. CASE status' = status /\ deposit' = deposit
    BY <1>2, <2>1 DEF DepositInv, DepositNeverBypassed, GoesAhead
  <2>2. ASSUME NEW a \in Appt, NEW t \in Status, deposit' = deposit,
               status' = [status EXCEPT ![a] = t], a \in deposit /\ t \in GoesAhead => Paid(charge'[a])
        PROVE  Paid(charge'[b])
    <3>1. CASE b = a
      BY <2>2, <3>1
    <3>2. CASE b # a
      BY <1>2, <2>2, <3>2 DEF DepositInv, DepositNeverBypassed, GoesAhead
    <3> QED BY <3>1, <3>2
  <2>3. ASSUME NEW a \in Appt, NEW t \in {"PENDING_PAYMENT", "SCHEDULED"}, status[a] = "NONE",
               status' = [status EXCEPT ![a] = t],
               deposit' = IF t = "PENDING_PAYMENT" THEN deposit \cup {a} ELSE deposit
        PROVE  Paid(charge'[b])
    <3>1. a \notin deposit
      BY <2>3 DEF RowFirst
    <3>2. b # a
      BY <2>3, <3>1 DEF GoesAhead
    <3> QED BY <1>2, <2>3, <3>2 DEF DepositInv, DepositNeverBypassed, GoesAhead
  <2> QED BY <1>1, <2>1, <2>2, <2>3 DEF StatusStep
<1>4. DecidedPaid'
  <2> SUFFICES ASSUME NEW q \in Actor,
                      req'[q].pc \in {"confirm", "cancel", "staff", "moveCheck", "moveWrite"},
                      req'[q].a \in deposit', req'[q].to \in GoesAhead
               PROVE  Paid(charge'[req'[q].a])
    BY DEF DecidedPaid
  <2>1. CASE req'[q] = req[q]
    <3>1. status[req[q].a] # "NONE" /\ req[q].a \in Appt
      BY <2>1 DEF InFlight, Fits, AtRow
    <3>2. req[q].a \in deposit
      BY <1>1, <2>1, <3>1 DEF StatusStep
    <3> QED BY <1>2, <2>1, <3>1, <3>2 DEF DepositInv, DecidedPaid
  <2>2. CASE HandlerStep(q) /\ req'[q].pc = "moveWrite"
    <3>1. RescheduleByTokenCheck(q) /\ Goto(q, "moveWrite")
      BY <2>2, WhereNext DEF HandlerStep, BookPublicCheck, RescheduleByTokenCheck, Reaches, Pcs
    <3>2. /\ req[q].pc = "moveCheck" /\ req'[q].a = req[q].a /\ req'[q].to = req[q].to
          /\ deposit' = deposit /\ req[q].a \in Appt
      BY <3>1 DEF RescheduleByTokenCheck, Goto, Request, ghostVars, InFlight, Fits, AtRow
    <3> QED BY <1>2, <3>2 DEF DepositInv, DecidedPaid
  <2>3. CASE HandlerStep(q) /\ req'[q].pc # "moveWrite"
    <3>1. \/ ConfirmByTokenRead(q) \/ CancelByTokenRead(q) \/ RescheduleByTokenRead(q)
          \/ UpdateStatusRead(q)
      BY <2>3 DEF HandlerStep
    <3>2. deposit' = deposit
      BY <3>1 DEF ConfirmByTokenRead, CancelByTokenRead, RescheduleByTokenRead,
           UpdateStatusRead, ghostVars
    <3>3. req'[q].a \in Appt
      BY <3>2
    <3> QED BY <1>2, <3>1, <3>2, <3>3, DecisionPaid
  <2> QED BY <2>1, <2>2, <2>3, NextActor DEF HandlerStep
<1> QED BY <1>3, <1>4 DEF DepositInv

\* However the handlers in flight interleave and die, an appointment booked with a
\* deposit goes ahead only after its charge was paid.
THEOREM DepositNotBypassed == Spec => []DepositNeverBypassed
<1>1. Init => DepositInv
  BY IdleType DEF Init, DepositInv, DepositNeverBypassed, DecidedPaid
<1>2. Sound /\ DepositInv /\ [Next]_vars => DepositInv'
  BY DepositStep
<1>3. DepositInv => DepositNeverBypassed
  BY DEF DepositInv
<1> QED BY <1>1, <1>2, <1>3, SpecSound, PTL DEF Spec

--------------------------------------------------------------------------------
(* Charges, payments, thanks and releases.                                 *)

\* Mercado Pago took the money, even if it gave it back since.
Approved(p) == p \in {"approved", "refunded"}

\* From the row's insertion to its charge's, the steps of a booking with a deposit.
Creating == {"attend", "psp", "recheck", "charge", "refuse"}

\* What a handler at a step may rely on in the tables.
Carries(rec) ==
  /\ rec.pc \in {"attend", "psp"} => payment[rec.a] = "NONE"
  /\ rec.pc \in Creating => charge[rec.a] = "NONE"
  /\ rec.pc \in Creating /\ (rec.pc = "attend" => rec.flag) => rec.a \in deposit
  /\ rec.pc \in {"attend", "announce"} /\ ~rec.flag => rec.a \notin deposit
  /\ rec.pc = "hook" /\ rec.seen = "approved" => Approved(payment[rec.a])
  /\ rec.pc = "thank" => Settled(rec.a) /\ rec.a \notin thanked

\* What a handler at a step may have decided.
Knows(rec) ==
  /\ rec.pc = "confirm" => rec.to = "CONFIRMED"
  /\ rec.pc = "cancel" => rec.to = "CANCELLED"
  /\ rec.pc \in {"moveCheck", "moveWrite"} => rec.to \in {"PENDING_PAYMENT", "SCHEDULED"}
  /\ rec.pc = "releaseTx" /\ rec.flag => rec.seen \notin {"CONFIRMED", "SCHEDULED"}

\* The reconciliation does nothing but release holds, and announces no reschedule.
Sweeps ==
  /\ req[Sweeper].pc \in {"idle", "release", "releaseTx", "find", "claim"}
  /\ req[Sweeper].pc \in {"find", "claim"} => ~req[Sweeper].flag

\* One booking creates the charge of a row, one webhook thanks for it.
Alone ==
  \A r, q \in Actor : r # q /\ req[r].a = req[q].a =>
    /\ ~(req[r].pc \in Creating /\ req[q].pc \in Creating)
    /\ ~(req[r].pc = "thank" /\ req[q].pc = "thank")

\* Charges belong to deposits, thanks to paid charges, paid charges to payments.
Charges ==
  \A a \in Appt :
    /\ charge[a] # "NONE" => a \in deposit
    /\ a \in thanked => Settled(a)
    /\ Settled(a) => Approved(payment[a])

\* The inductive invariant, on top of Sound and DepositInv.
PixInv ==
  /\ \A r \in Actor : Carries(req[r]) /\ Knows(req[r])
  /\ Sweeps /\ Alone /\ Charges

-------------------------------------------------------------------------------
(***************************************************************************)
(* The steps, seen from the deposit.                                       *)
(***************************************************************************)

\* A step of handler r.
Acts(r) == (r \in Req /\ Arrive(r)) \/ (r = Sweeper /\ Sweep) \/ Step(r) \/ Fail(r)

\* How r's record changes: where each step of interest is entered from, and with what.
MovesOn(r) ==
  LET o == req[r]
      n == req'[r]
  IN  /\ n.pc = "attend" => n.a \in Appt /\ status[n.a] = "NONE" /\ (n.flag <=> n.a \in deposit')
      /\ n.pc = "psp" => o.pc = "attend" /\ o.flag /\ n.a = o.a
      /\ n.pc \in {"recheck", "charge", "refuse"} =>
           o.pc \in {"psp", "recheck", "charge"} /\ n.a = o.a /\ charge' = charge
      /\ n.pc = "announce" /\ ~n.flag => o.pc = "attend" /\ ~o.flag /\ n.a = o.a
      /\ n.pc = "hook" => n.a \in Appt /\ n.seen = payment[n.a] /\ payment' = payment
      /\ n.pc = "thank" => /\ n.a \in Appt /\ charge[n.a] = "PENDING" /\ charge'[n.a] = "PAID"
                           /\ thanked' = thanked
      /\ Knows(n) \/ (n.pc = "releaseTx" /\ n.a \in Appt /\ n.seen = status[n.a]
                       /\ (n.flag => charge[n.a] = "PENDING"))
                  \/ (n.pc = "moveWrite" /\ o.pc = "moveCheck" /\ n.to = o.to)

\* How r's step changes the tables of the deposit.
PixTables(r) ==
  /\ \A a \in Appt :
       \/ charge'[a] = charge[a]
       \/ req[r].pc = "charge" /\ req[r].a = a /\ charge[a] = "NONE" /\ charge'[a] = "PENDING"
       \/ /\ req[r].pc = "hook" /\ req[r].a = a /\ req[r].seen = "approved"
          /\ charge[a] = "PENDING" /\ charge'[a] = "PAID"
       \/ charge[a] = "PAID" /\ charge'[a] = "REFUNDED"
       \/ charge[a] = "PENDING" /\ charge'[a] \in {"EXPIRED", "CANCELLED"}
  /\ \A a \in Appt : payment'[a] = payment[a] \/ (req[r].pc = "psp" /\ req[r].a = a)
  /\ deposit \subseteq deposit' /\ \A a \in deposit' : a \in deposit \/ status[a] = "NONE"
  /\ thanked \subseteq thanked'
  /\ \A a \in thanked' : a \in thanked \/ (req[r].pc = "thank" /\ req[r].a = a)

\* A step that is no handler's only lets a payment go on, or time pass.
WorldStep ==
  /\ UNCHANGED <<status, charge, deposit, thanked, req, mail>>
  /\ \A a \in Appt : payment'[a] # payment[a] =>
       \/ payment[a] = "pending"
       \/ payment[a] = "approved" /\ payment'[a] = "refunded"

\* Every step of the system is of one of these two kinds.
LEMMA NextActs ==
  ASSUME Sound, [Next]_vars
  PROVE  WorldStep \/ \E r \in Actor : Acts(r)
<1>1. CASE \E r \in Req : Arrive(r)
  BY <1>1 DEF Actor, Acts
<1>2. CASE Sweep
  BY <1>2 DEF Actor, Acts
<1>3. CASE \E r \in Actor : Step(r) \/ Fail(r)
  BY <1>3 DEF Acts
<1>4. CASE \E a \in Appt : Pay(a) \/ PaymentEnds(a) \/ TimePasses(a)
  BY <1>4 DEF Pay, PaymentEnds, TimePasses, calendarVars, ghostVars, WorldStep, Sound, TypeOK,
       TablesOK
<1>5. CASE UNCHANGED vars
  BY <1>5 DEF vars, calendarVars, pixVars, ghostVars, WorldStep
<1> QED BY <1>1, <1>2, <1>3, <1>4, <1>5 DEF Next

\* The other handlers do not move.
LEMMA OthersStay ==
  ASSUME Sound, NEW r \in Actor, Acts(r), NEW q \in Actor, q # r
  PROVE  req'[q] = req[q]
  BY ActorStep DEF Acts, HandlerStep

\* What one step of a request or a handler may do to the PIX tables.
LEMMA TablesOfActor ==
  ASSUME Sound, NEW r \in Actor, Acts(r)
  PROVE  PixTables(r)
<1> USE DEF Sound, TypeOK, TablesOK, PixTables
<1>1. CASE CreatePixCharge(r) \/ InsertCharge(r) \/ ConfirmPaid(r) \/ MarkRefunded(r) \/ Thank(r)
  <2>1. req[r].a \in Appt
    BY <1>1 DEF CreatePixCharge, InsertCharge, ConfirmPaid, MarkRefunded, Thank, InFlight, Fits,
         AtRow
  <2>2. CASE CreatePixCharge(r)
    BY <2>1, <2>2 DEF CreatePixCharge, ghostVars
  <2>3. CASE InsertCharge(r)
    BY <2>1, <2>3 DEF InsertCharge, ghostVars
  <2>4. CASE ConfirmPaid(r)
    <3>1. UNCHANGED <<deposit, thanked, payment>>
      BY <2>4 DEF ConfirmPaid, UpdateIf, WriteStatus, ghostVars
    <3>2. \/ charge' = charge
          \/ /\ req[r].pc = "hook" /\ req[r].seen = "approved" /\ charge[req[r].a] = "PENDING"
             /\ charge' = [charge EXCEPT ![req[r].a] = "PAID"]
      BY <2>4 DEF ConfirmPaid
    <3> QED BY <2>1, <3>1, <3>2
  <2>5. CASE MarkRefunded(r)
    BY <2>1, <2>5 DEF MarkRefunded, ghostVars
  <2>6. CASE Thank(r)
    BY <2>1, <2>6 DEF Thank, pixVars
  <2> QED BY <1>1, <2>2, <2>3, <2>4, <2>5, <2>6
<1>2. CASE ReleaseTx(r)
  <2>1. req[r].a \in Appt /\ req[r].to \in {"EXPIRED", "CANCELLED"}
    BY <1>2 DEF ReleaseTx, InFlight, Fits, AtRow
  <2>2. UNCHANGED <<deposit, thanked, payment>>
    BY <1>2 DEF ReleaseTx, UpdateIf, WriteStatus, ghostVars
  <2>3. charge' = [charge EXCEPT ![req[r].a] =
                     IF req[r].flag /\ @ = "PENDING" THEN req[r].to ELSE @]
    BY <1>2 DEF ReleaseTx
  <2> QED BY <2>1, <2>2, <2>3
<1>3. CASE BookPublicInsert(r)
  <2>1. UNCHANGED <<charge, payment, thanked>>
    BY <1>3 DEF BookPublicInsert, pixVars
  <2>2. PICK a \in Appt : status[a] = "NONE" /\ (deposit' = deposit \/ deposit' = deposit \cup {a})
    BY <1>3 DEF BookPublicInsert, Exists
  <2> QED BY <2>1, <2>2
<1>4. CASE ~(\/ CreatePixCharge(r) \/ InsertCharge(r) \/ ConfirmPaid(r) \/ MarkRefunded(r)
             \/ Thank(r) \/ ReleaseTx(r) \/ BookPublicInsert(r))
  <2>1. UNCHANGED <<charge, payment, thanked, deposit>>
    <3>1. CASE Step(r)
      BY <1>4, <3>1 DEF Step, BookPublicCheck, BookPublicAttend, Announce, StillPending,
           ChargeError, RefuseDeposit, UpdateIf, WriteStatus, ConfirmByTokenWrite,
           CancelByTokenWrite, UpdateStatusWrite, RescheduleByTokenCheck,
           RescheduleByTokenWrite, CancelPendingJobs, FindCandidate, ClaimCandidate,
           WebhookRelease, ReleaseRead, DbRejects, pixVars, ghostVars
    <3>2. CASE ~Step(r)
      BY <3>2 DEF Acts, Arrive, BookPublicRead, ConfirmByTokenRead, CancelByTokenRead,
           RescheduleByTokenRead, UpdateStatusRead, WebhookRead, Sweep, Fail, pixVars, ghostVars
    <3> QED BY <3>1, <3>2
  <2> QED BY <2>1
<1> QED BY <1>1, <1>2, <1>3, <1>4

\* The first reads.
LEMMA ReadMoves ==
  ASSUME Sound, NEW r \in Actor, Arrive(r) \/ (r = Sweeper /\ Sweep)
  PROVE  MovesOn(r)
<1> USE DEF Sound, TypeOK, TablesOK, MovesOn, Knows
<1>1. CASE BookPublicRead(r)
  <2>1. PICK p \in Pro, s \in Slots, who \in Waiter \cup {NoWaiter}, d \in Deposits :
          req' = [req EXCEPT ![r] = [Idle EXCEPT !.pc = "check", !.p = p, !.s = s,
                                                 !.who = who, !.flag = d]]
    BY <1>1 DEF BookPublicRead, Start
  <2>2. req'[r].pc = "check"
    BY <2>1, IdleType DEF Request
  <2> QED BY <2>2
<1>2. CASE ConfirmByTokenRead(r)
  <2>1. PICK a \in Appt : req' = [req EXCEPT ![r] = [Idle EXCEPT !.pc = "confirm", !.a = a,
                                                                 !.to = "CONFIRMED"]]
    BY <1>2 DEF ConfirmByTokenRead, Start
  <2>2. req'[r].pc = "confirm" /\ req'[r].to = "CONFIRMED"
    BY <2>1, IdleType DEF Request
  <2> QED BY <2>2
<1>3. CASE CancelByTokenRead(r)
  <2>1. PICK a \in Appt : req' = [req EXCEPT ![r] = [Idle EXCEPT !.pc = "cancel", !.a = a,
                                                                 !.to = "CANCELLED"]]
    BY <1>3 DEF CancelByTokenRead, Start
  <2>2. req'[r].pc = "cancel" /\ req'[r].to = "CANCELLED"
    BY <2>1, IdleType DEF Request
  <2> QED BY <2>2
<1>4. CASE RescheduleByTokenRead(r)
  <2>1. PICK a \in Appt, s \in Slots, t \in {"PENDING_PAYMENT", "SCHEDULED"} :
          req' = [req EXCEPT ![r] = [Idle EXCEPT !.pc = "moveCheck", !.a = a, !.p = pro[a],
                                                 !.s = s, !.to = t, !.flag = TRUE]]
    BY <1>4 DEF RescheduleByTokenRead, Start
  <2>2. req'[r].pc = "moveCheck" /\ req'[r].to = t
    BY <2>1, IdleType DEF Request
  <2> QED BY <2>2
<1>5. CASE UpdateStatusRead(r)
  <2>1. PICK a \in Appt, t \in Status :
          req' = [req EXCEPT ![r] = [Idle EXCEPT !.pc = "staff", !.a = a, !.seen = status[a],
                                                 !.to = t]]
    BY <1>5 DEF UpdateStatusRead, Start
  <2>2. req'[r].pc = "staff"
    BY <2>1, IdleType DEF Request
  <2> QED BY <2>2
<1>6. CASE WebhookRead(r)
  <2>1. PICK a \in Appt :
          req' = [req EXCEPT ![r] = [Idle EXCEPT !.pc = "hook", !.a = a, !.seen = payment[a]]]
    BY <1>6 DEF WebhookRead, Start
  <2>2. req'[r].pc = "hook" /\ req'[r].a = a /\ req'[r].seen = payment[a]
    BY <2>1, IdleType DEF Request
  <2>3. payment' = payment
    BY <1>6 DEF WebhookRead, pixVars
  <2> QED BY <2>2, <2>3
<1>7. CASE r = Sweeper /\ Sweep
  <2>1. PICK a \in Appt :
          req' = [req EXCEPT ![r] = [Idle EXCEPT !.pc = "release", !.a = a, !.to = "EXPIRED"]]
    BY <1>7 DEF Sweep, Start
  <2>2. req'[r].pc = "release"
    BY <2>1, IdleType DEF Request
  <2> QED BY <2>2
<1> QED BY <1>1, <1>2, <1>3, <1>4, <1>5, <1>6, <1>7 DEF Arrive

\* What the four ways of going on leave in the record.
LEMMA RecordNext ==
  ASSUME Sound, NEW r \in Actor
  PROVE  /\ Done(r) => req'[r].pc = "idle"
         /\ \A l \in Pcs : Goto(r, l) => req'[r].pc = l /\ req'[r].a = req[r].a
              /\ req'[r].to = req[r].to /\ req'[r].flag = req[r].flag
         /\ \A l \in Pcs : Continue(r, l) =>
              req'[r].pc = l /\ req'[r].a = req[r].a /\ req'[r].flag = req[r].flag
<1> USE DEF Sound, TypeOK
<1>1. Done(r) => req'[r].pc = "idle"
  BY IdleType DEF Done
<1>2. ASSUME NEW l \in Pcs, Goto(r, l)
      PROVE  req'[r].pc = l /\ req'[r].a = req[r].a
              /\ req'[r].to = req[r].to /\ req'[r].flag = req[r].flag
  BY <1>2 DEF Goto, Request
<1>3. ASSUME NEW l \in Pcs, Continue(r, l)
      PROVE  req'[r].pc = l /\ req'[r].a = req[r].a /\ req'[r].flag = req[r].flag
  BY <1>3, IdleType DEF Continue, Request
<1> QED BY <1>1, <1>2, <1>3

\* The steps of a handler in flight.
LEMMA StepMoves ==
  ASSUME Sound, NEW r \in Actor, Step(r) \/ Fail(r)
  PROVE  MovesOn(r)
<1> USE DEF Sound, TypeOK, TablesOK, MovesOn, Knows
<1>1. CASE BookPublicInsert(r)
  <2>1. PICK a \in Appt :
          /\ status[a] = "NONE"
          /\ deposit' = IF req[r].flag THEN deposit \cup {a} ELSE deposit
          /\ req' = [req EXCEPT ![r] = [Idle EXCEPT !.pc = "attend", !.a = a,
                       !.who = req[r].who, !.flag = req[r].flag]]
    BY <1>1 DEF BookPublicInsert, Exists
  <2>2. a \notin deposit /\ req[r].flag \in BOOLEAN
    BY <2>1 DEF RowFirst, Request
  <2>3. req'[r].pc = "attend" /\ req'[r].a = a /\ req'[r].flag = req[r].flag
    BY <2>1, IdleType DEF Request
  <2> QED BY <2>1, <2>2, <2>3
<1>2. CASE BookPublicAttend(r)
  <2>1. req[r].pc = "attend" /\ Continue(r, IF req[r].flag THEN "psp" ELSE "announce")
    BY <1>2 DEF BookPublicAttend
  <2>2. CASE req[r].flag
    BY <2>1, <2>2, RecordNext DEF Pcs, BookingTail
  <2>3. CASE ~req[r].flag
    BY <2>1, <2>3, RecordNext DEF Pcs, BookingTail
  <2> QED BY <2>2, <2>3
<1>3. CASE CreatePixCharge(r) \/ StillPending(r) \/ ChargeError(r)
  <2>1. req[r].pc \in {"psp", "recheck", "charge"} /\ charge' = charge
    BY <1>3 DEF CreatePixCharge, StillPending, ChargeError, pixVars
  <2>2. \E l \in {"recheck", "charge", "refuse"} : Goto(r, l)
    BY <1>3 DEF CreatePixCharge, StillPending, ChargeError
  <2> QED BY <2>1, <2>2, RecordNext DEF Pcs, BookingTail
<1>4. CASE \/ InsertCharge(r) \/ Announce(r) \/ RefuseDeposit(r) \/ ConfirmByTokenWrite(r)
           \/ CancelByTokenWrite(r) \/ UpdateStatusWrite(r) \/ RescheduleByTokenWrite(r)
           \/ CancelPendingJobs(r) \/ Thank(r) \/ MarkRefunded(r) \/ DbRejects(r) \/ Fail(r)
           \/ BookPublicCheck(r)
  <2>1. Done(r) \/ Continue(r, "silence") \/ Goto(r, "find") \/ Goto(r, "insert")
    BY <1>4 DEF InsertCharge, Announce, RefuseDeposit, ConfirmByTokenWrite, CancelByTokenWrite,
         UpdateStatusWrite, RescheduleByTokenWrite, CancelPendingJobs, Thank, MarkRefunded,
         DbRejects, Fail, BookPublicCheck
  <2>2. req'[r].pc \in {"idle", "silence", "find", "insert"}
    BY <2>1, RecordNext DEF Pcs
  <2> QED BY <2>2
<1>5. CASE RescheduleByTokenCheck(r)
  <2>1. req[r].pc = "moveCheck" /\ (Done(r) \/ Goto(r, "moveWrite"))
    BY <1>5 DEF RescheduleByTokenCheck
  <2>2. CASE Done(r)
    BY <2>2, RecordNext
  <2>3. CASE Goto(r, "moveWrite")
    <3>1. req'[r].pc = "moveWrite" /\ req'[r].to = req[r].to
      BY <2>3, RecordNext DEF Pcs
    <3> QED BY <2>1, <3>1
  <2> QED BY <2>1, <2>2, <2>3
<1>6. CASE FindCandidate(r) \/ ClaimCandidate(r)
  <2>1. AfterOffer(r) \/ \E w \in Waiting : req' = [req EXCEPT ![r].pc = "claim", ![r].who = w]
    BY <1>6 DEF FindCandidate, ClaimCandidate
  <2>2. ASSUME AfterOffer(r) PROVE req'[r].pc = "idle" \/ (req'[r].pc = "announce" /\ req'[r].flag)
    <3>1. CASE req[r].flag
      BY <2>2, <3>1, RecordNext DEF AfterOffer, Pcs, BookingTail
    <3>2. CASE ~req[r].flag
      BY <2>2, <3>2, RecordNext DEF AfterOffer
    <3> QED BY <3>1, <3>2
  <2>3. ASSUME NEW w \in Waiting, req' = [req EXCEPT ![r].pc = "claim", ![r].who = w]
        PROVE  req'[r].pc = "claim"
    BY <2>3 DEF Request
  <2> QED BY <2>1, <2>2, <2>3
<1>7. CASE ConfirmPaid(r)
  <2>1. req[r].a \in Appt
    BY <1>7 DEF ConfirmPaid, InFlight, Fits, AtRow
  <2>2. CASE charge[req[r].a] = "PENDING"
    <3>1. /\ charge' = [charge EXCEPT ![req[r].a] = "PAID"]
          /\ Continue(r, "thank") \/ Done(r)
          /\ thanked' = thanked
      BY <1>7, <2>2 DEF ConfirmPaid, UpdateIf, WriteStatus, ghostVars
    <3> QED BY <2>1, <2>2, <3>1, RecordNext DEF Pcs
  <2>3. CASE charge[req[r].a] # "PENDING"
    <3>1. Done(r)
      BY <1>7, <2>3 DEF ConfirmPaid
    <3> QED BY <3>1, RecordNext
  <2> QED BY <2>2, <2>3
<1>8. CASE WebhookRelease(r) \/ ReleaseTx(r)
  <2>1. req'[r].pc \in {"idle", "release", "find"}
    <3>1. CASE WebhookRelease(r)
      <4>1. Done(r) \/ \E t \in {"CANCELLED", "EXPIRED"} :
              req' = [req EXCEPT ![r] = [Idle EXCEPT !.pc = "release", !.a = req[r].a, !.to = t]]
        BY <3>1 DEF WebhookRelease
      <4>2. ASSUME NEW t \in {"CANCELLED", "EXPIRED"},
                   req' = [req EXCEPT ![r] = [Idle EXCEPT !.pc = "release", !.a = req[r].a, !.to = t]]
            PROVE  req'[r].pc = "release"
        BY <4>2, IdleType DEF Request
      <4> QED BY <4>1, <4>2, RecordNext
    <3>2. CASE ReleaseTx(r)
      <4>1. Done(r) \/ req' = [req EXCEPT ![r] = [Idle EXCEPT !.pc = "find", !.a = req[r].a]]
        BY <3>2 DEF ReleaseTx, Done
      <4>2. ASSUME req' = [req EXCEPT ![r] = [Idle EXCEPT !.pc = "find", !.a = req[r].a]]
            PROVE  req'[r].pc = "find"
        BY <4>2, IdleType DEF Request
      <4> QED BY <4>1, <4>2, RecordNext
    <3> QED BY <1>8, <3>1, <3>2
  <2> QED BY <2>1
<1>9. CASE ReleaseRead(r)
  <2> DEFINE a == req[r].a
             pending == charge[a] = "PENDING"
  <2>1. a \in Appt
    BY <1>9 DEF ReleaseRead, InFlight, Fits, AtRow
  <2>2. \/ Done(r)
        \/ req' = [req EXCEPT ![r].pc = "releaseTx", ![r].seen = status[a], ![r].flag = pending]
    BY <1>9 DEF ReleaseRead
  <2>3. CASE Done(r)
    BY <2>3, RecordNext
  <2>4. CASE req' = [req EXCEPT ![r].pc = "releaseTx", ![r].seen = status[a], ![r].flag = pending]
    <3>1. /\ req'[r].pc = "releaseTx" /\ req'[r].a = a /\ req'[r].seen = status[a]
          /\ req'[r].flag = pending
      BY <2>4 DEF Request
    <3> QED BY <2>1, <3>1
  <2> QED BY <2>2, <2>3, <2>4
<1> QED BY <1>1, <1>2, <1>3, <1>4, <1>5, <1>6, <1>7, <1>8, <1>9 DEF Step

\* An actor moves along its own program.
LEMMA ActsMoves ==
  ASSUME Sound, NEW r \in Actor, Acts(r)
  PROVE  MovesOn(r)
  BY ReadMoves, StepMoves DEF Acts

\* The reconciliation's own steps.
LEMMA SweeperStays ==
  ASSUME Sound, Sweeps, Acts(Sweeper)
  PROVE  Sweeps'
<1> USE DEF Sound, TypeOK, TablesOK, Sweeps, Actor
<1>1. Sweep \/ Step(Sweeper) \/ Fail(Sweeper)
  BY ActorAssumption DEF Acts
<1>2. CASE Sweep
  <2>1. PICK a \in Appt :
          req' = [req EXCEPT ![Sweeper] = [Idle EXCEPT !.pc = "release", !.a = a,
                                                       !.to = "EXPIRED"]]
    BY <1>2 DEF Sweep, Start
  <2>2. req'[Sweeper].pc = "release"
    BY <2>1, IdleType DEF Request
  <2> QED BY <2>2
<1>3. CASE Fail(Sweeper)
  BY <1>3, RecordNext DEF Fail
<1>4. CASE Step(Sweeper)
  <2>1. \/ ReleaseRead(Sweeper) \/ ReleaseTx(Sweeper) \/ FindCandidate(Sweeper)
        \/ ClaimCandidate(Sweeper)
    BY <1>4 DEF Step, BookPublicCheck, BookPublicInsert, BookPublicAttend, Announce,
         CreatePixCharge, StillPending, InsertCharge, ChargeError, RefuseDeposit,
         ConfirmByTokenWrite, CancelByTokenWrite, UpdateStatusWrite, RescheduleByTokenCheck,
         RescheduleByTokenWrite, CancelPendingJobs, ConfirmPaid, Thank, MarkRefunded,
         WebhookRelease, DbRejects, Writes
  <2>2. CASE ReleaseRead(Sweeper)
    <3>1. \/ Done(Sweeper)
          \/ req' = [req EXCEPT ![Sweeper].pc = "releaseTx",
                                ![Sweeper].seen = status[req[Sweeper].a],
                                ![Sweeper].flag = (charge[req[Sweeper].a] = "PENDING")]
      BY <2>2 DEF ReleaseRead
    <3>2. req'[Sweeper].pc \in {"idle", "releaseTx"}
      BY <3>1, RecordNext DEF Request
    <3> QED BY <3>2
  <2>3. CASE ReleaseTx(Sweeper)
    <3> DEFINE rec == [Idle EXCEPT !.pc = "find", !.a = req[Sweeper].a]
    <3>1. Done(Sweeper) \/ req' = [req EXCEPT ![Sweeper] = rec]
      BY <2>3 DEF ReleaseTx, Done
    <3>2. rec.pc = "find" /\ rec.flag = FALSE
      BY IdleType DEF Request, Idle
    <3> QED BY <3>1, <3>2, RecordNext
  <2>4. CASE FindCandidate(Sweeper) \/ ClaimCandidate(Sweeper)
    <3>1. /\ ~req[Sweeper].flag
          /\ \/ Done(Sweeper)
             \/ \E w \in Waiting :
                  req' = [req EXCEPT ![Sweeper].pc = "claim", ![Sweeper].who = w]
      BY <2>4 DEF FindCandidate, ClaimCandidate, AfterOffer
    <3>2. ASSUME NEW w \in Waiting,
                 req' = [req EXCEPT ![Sweeper].pc = "claim", ![Sweeper].who = w]
          PROVE  req'[Sweeper].pc = "claim" /\ req'[Sweeper].flag = req[Sweeper].flag
      BY <3>2 DEF Request
    <3> QED BY <3>1, <3>2, RecordNext
  <2> QED BY <2>1, <2>2, <2>3, <2>4
<1> QED BY <1>1, <1>2, <1>3, <1>4

-------------------------------------------------------------------------------
(***************************************************************************)
(* The invariant.                                                          *)
(***************************************************************************)

\* Payments going on and time passing disturb nobody.
LEMMA WorldKeeps ==
  ASSUME Sound, PixInv, WorldStep
  PROVE  PixInv'
<1> USE DEF PixInv, WorldStep
<1>1. \A r \in Actor : (Carries(req[r]) /\ Knows(req[r]))'
  <2> SUFFICES ASSUME NEW r \in Actor PROVE Carries(req[r])' /\ Knows(req[r])'
    OBVIOUS
  <2>1. req[r].pc \in AtRow => req[r].a \in Appt
    BY DEF Sound, InFlight, Fits
  <2> QED BY <2>1 DEF Carries, Knows, Settled, Approved, AtRow, Creating
<1>2. Charges'
  BY DEF Charges, Settled, Approved
<1>3. (Sweeps /\ Alone)'
  BY DEF Sweeps, Alone
<1> QED BY <1>1, <1>2, <1>3

\* A step of one handler leaves what the others rely on.
LEMMA OthersKeep ==
  ASSUME Sound, PixInv, NEW r \in Actor, Acts(r), NEW q \in Actor, q # r
  PROVE  Carries(req[q])' /\ Knows(req[q])'
<1>1. req'[q] = req[q] /\ PixTables(r)
  BY OthersStay, TablesOfActor
<1>2. /\ req[q].pc \in AtRow => req[q].a \in Appt /\ status[req[q].a] # "NONE"
      /\ req[r].pc \in AtRow => req[r].a \in Appt /\ status[req[r].a] # "NONE"
  BY DEF Sound, InFlight, Fits
<1>3. Carries(req[q]) /\ Knows(req[q]) /\ Carries(req[r])
  BY DEF PixInv
<1>4. req[q].a = req[r].a =>
        /\ ~(req[q].pc \in Creating /\ req[r].pc \in Creating)
        /\ ~(req[q].pc = "thank" /\ req[r].pc = "thank")
  BY DEF PixInv, Alone
<1>5. Carries(req[q])'
  BY <1>1, <1>2, <1>3, <1>4 DEF Carries, PixTables, Settled, Approved, AtRow, Creating
<1>6. Knows(req[q])'
  BY <1>1, <1>3 DEF Knows
<1> QED BY <1>5, <1>6

\* And the handler finds what its next step relies on.
LEMMA ActorKeeps ==
  ASSUME Sound, DepositInv, PixInv, NEW r \in Actor, Acts(r)
  PROVE  Carries(req[r])' /\ Knows(req[r])'
<1>1. MovesOn(r) /\ PixTables(r)
  BY ActsMoves, TablesOfActor
<1>2. req[r].pc \in AtRow => req[r].a \in Appt /\ status[req[r].a] # "NONE"
  BY DEF Sound, InFlight, Fits
<1>3. Carries(req[r]) /\ Knows(req[r]) /\ Charges /\ RowFirst
  BY DEF PixInv, Sound
<1>4. Carries(req[r])'
  BY <1>1, <1>2, <1>3 DEF Carries, MovesOn, PixTables, Charges, RowFirst, Settled, Approved,
       AtRow, Creating
<1>5. Knows(req[r])'
  <2>1. CASE req'[r].pc = "releaseTx" /\ req'[r].flag
    <3>1. Knows(req'[r]) \/ (req'[r].a \in Appt /\ req'[r].seen = status[req'[r].a] /\ charge[req'[r].a] = "PENDING")
      BY <1>1, <2>1 DEF MovesOn
    <3> QED BY <1>3, <2>1, <3>1 DEF Knows, Charges, DepositInv, DepositNeverBypassed, Settled
  <2>2. CASE ~(req'[r].pc = "releaseTx" /\ req'[r].flag)
    BY <1>1, <1>3, <2>2 DEF MovesOn, Knows
  <2> QED BY <2>1, <2>2
<1> QED BY <1>4, <1>5

\* No row gets a second booking or a second thanks.
LEMMA AloneKept ==
  ASSUME Sound, PixInv, NEW r \in Actor, Acts(r)
  PROVE  Alone'
<1> SUFFICES ASSUME NEW q \in Actor, q # r, req'[r].a = req'[q].a
             PROVE  /\ ~(req'[r].pc \in Creating /\ req'[q].pc \in Creating)
                    /\ ~(req'[r].pc = "thank" /\ req'[q].pc = "thank")
  BY OthersStay DEF Alone, PixInv
<1>1. req'[q] = req[q] /\ MovesOn(r)
  BY OthersStay, ActsMoves
<1>2. req[q].pc \in AtRow => req[q].a \in Appt /\ status[req[q].a] # "NONE"
  BY DEF Sound, InFlight, Fits
<1>3. Carries(req[q])
  BY DEF PixInv
<1>4. req[q].a = req[r].a => ~(req[q].pc \in Creating /\ req[r].pc \in Creating)
  BY DEF PixInv, Alone
<1>5. ~(req'[r].pc \in Creating /\ req'[q].pc \in Creating)
  BY <1>1, <1>2, <1>4 DEF MovesOn, Creating, AtRow
<1>6. ~(req'[r].pc = "thank" /\ req'[q].pc = "thank")
  BY <1>1, <1>3 DEF MovesOn, Carries, Settled
<1> QED BY <1>5, <1>6

\* Charges are made for deposits, paid on approval, thanked for once paid.
LEMMA ChargesKept ==
  ASSUME Sound, PixInv, NEW r \in Actor, Acts(r)
  PROVE  Charges'
<1>1. PixTables(r) /\ Carries(req[r]) /\ Charges
  BY TablesOfActor DEF PixInv
<1> QED BY <1>1 DEF PixTables, Carries, Charges, Settled, Approved, Creating

\* Every step keeps the charges in step with the appointments.
LEMMA PixStep ==
  ASSUME Sound, DepositInv, PixInv, [Next]_vars
  PROVE  PixInv'
<1>1. CASE WorldStep
  BY <1>1, WorldKeeps
<1>2. ASSUME NEW r \in Actor, Acts(r) PROVE PixInv'
  <2>1. \A q \in Actor : (Carries(req[q]) /\ Knows(req[q]))'
    BY <1>2, OthersKeep, ActorKeeps
  <2>2. Sweeps'
    BY <1>2, SweeperStays, OthersStay DEF Sweeps, PixInv, Actor
  <2> QED BY <1>2, <2>1, <2>2, AloneKept, ChargesKept DEF PixInv
<1> QED BY <1>1, <1>2, NextActs

\* The charges are in step with the appointments in every state.
LEMMA PixInvariant == Spec => [](Sound /\ DepositInv /\ PixInv)
<1>1. Init => DepositInv
  BY IdleType DEF Init, DepositInv, DepositNeverBypassed, DecidedPaid
<1>2. Init => PixInv
  BY IdleType, ActorAssumption
     DEF Init, PixInv, Carries, Knows, Sweeps, Alone, Charges, Creating, Settled, Actor
<1>3. Sound /\ DepositInv /\ [Next]_vars => DepositInv'
  BY DepositStep
<1>4. Sound /\ DepositInv /\ PixInv /\ [Next]_vars => PixInv'
  BY PixStep
<1> QED BY <1>1, <1>2, <1>3, <1>4, SpecSound, PTL DEF Spec

-------------------------------------------------------------------------------
(***************************************************************************)
(* The theorems.                                                           *)
(***************************************************************************)

\* However webhooks repeat, overtake one another and die half way, a charge counts
\* as paid only if Mercado Pago approved its payment.
THEOREM PaidIsApproved == Spec => []PaidMeansApproved
<1>1. PixInv => PaidMeansApproved
  BY DEF PixInv, Charges, PaidMeansApproved, Approved
<1> QED BY <1>1, PixInvariant, PTL

\* Who puts a booking confirmation of a deposit appointment into the queue.
LEMMA MailFor ==
  ASSUME Sound, PixInv, [Next]_vars, NEW a \in deposit, a \in mail', a \notin mail
  PROVE  Settled(a) \/ \E r \in Req : req[r].pc = "announce" /\ req[r].flag /\ req[r].a = a
<1>1. CASE WorldStep
  BY <1>1 DEF WorldStep
<1>2. ASSUME NEW r \in Actor, Acts(r)
      PROVE  Settled(a) \/ \E q \in Req : req[q].pc = "announce" /\ req[q].flag /\ req[q].a = a
  <2>1. CASE Announce(r)
    <3>1. req[r].pc = "announce" /\ req[r].a = a
      BY <2>1 DEF Announce
    <3>2. r \in Req
      BY <3>1 DEF PixInv, Sweeps, Actor
    <3>3. req[r].flag
      BY <3>1 DEF PixInv, Carries, Sound, TypeOK, Request
    <3> QED BY <3>1, <3>2, <3>3
  <2>2. CASE Thank(r)
    BY <2>2 DEF Thank, PixInv, Carries
  <2>3. CASE ~(Announce(r) \/ Thank(r))
    <3>1. mail' = mail \/ mail' = mail \ {req[r].a}
      BY <1>2, <2>3 DEF Acts, Arrive, Step, BookPublicRead, BookPublicCheck, BookPublicInsert,
           BookPublicAttend, CreatePixCharge, StillPending, InsertCharge, ChargeError,
           RefuseDeposit, ConfirmByTokenRead, ConfirmByTokenWrite, CancelByTokenRead,
           CancelByTokenWrite, UpdateStatusRead, UpdateStatusWrite, RescheduleByTokenRead,
           RescheduleByTokenCheck, RescheduleByTokenWrite, CancelPendingJobs, FindCandidate,
           ClaimCandidate, WebhookRead, ConfirmPaid, MarkRefunded, WebhookRelease,
           ReleaseRead, ReleaseTx, Sweep, DbRejects, Fail
    <3> QED BY <3>1
  <2> QED BY <2>1, <2>2, <2>3
<1> QED BY <1>1, <1>2, NextActs

\* A deposit appointment is confirmed to the customer once and for a payment, except
\* by the reschedule of an unpaid hold.
THEOREM ThankedOnceForAPayment == Spec => ThankedOncePaid
<1>1. PixInv => OneThanks
  BY DEF PixInv, Carries, Alone, OneThanks
<1>2. Sound /\ PixInv /\ [Next]_vars => [MailIsForPayment]_vars
  BY MailFor DEF MailIsForPayment
<1>3. PixInv' => OneThanks'
  BY <1>1, PTL
<1>4. Sound /\ PixInv /\ PixInv' /\ [Next]_vars => [OneThanks' /\ MailIsForPayment]_vars
  BY <1>2, <1>3
<1> QED BY <1>4, PixInvariant, PTL DEF Spec, ThankedOncePaid

\* A customer's or the staff's handler writes the cancellation of a.
CancelsByHand(a) ==
  \E r \in Req : req[r].pc \in {"cancel", "staff"} /\ req[r].a = a /\ req'[r].pc # req[r].pc

\* An active appointment that stops being one was cancelled by hand, or waited for
\* its payment.
LEMMA CancelledBy ==
  ASSUME Sound, PixInv, [Next]_vars, NEW a \in Appt, Active(a), status'[a] = "CANCELLED"
  PROVE  status[a] = "PENDING_PAYMENT" \/ CancelsByHand(a)
<1> USE DEF Sound, TypeOK, TablesOK, Active, ACTIVE_APPOINTMENT_STATUSES
<1>1. CASE WorldStep
  BY <1>1 DEF WorldStep
<1>2. ASSUME NEW r \in Actor, Acts(r) PROVE status[a] = "PENDING_PAYMENT" \/ CancelsByHand(a)
  <2>1. Carries(req[r]) /\ Knows(req[r])
    BY DEF PixInv
  <2>2. CASE CancelByTokenWrite(r) \/ UpdateStatusWrite(r)
    <3>1. req[r].pc \in {"cancel", "staff"} /\ req[r].a \in Appt /\ r \in Req
      BY <2>2 DEF CancelByTokenWrite, UpdateStatusWrite, InFlight, Fits, AtRow, PixInv, Sweeps,
           Actor
    <3>2. status' = status \/ status' = [status EXCEPT ![req[r].a] = req[r].to]
      BY <2>2 DEF CancelByTokenWrite, UpdateStatusWrite, WriteStatus, calendarVars
    <3>3. Done(r) \/ Continue(r, "silence")
      BY <2>2 DEF CancelByTokenWrite, UpdateStatusWrite
    <3>4. req'[r].pc \in {"idle", "silence"}
      BY <3>3, RecordNext DEF Pcs
    <3> QED BY <3>1, <3>2, <3>4 DEF CancelsByHand
  <2>3. CASE ConfirmByTokenWrite(r) \/ RescheduleByTokenWrite(r)
    <3>1. req[r].a \in Appt /\ req[r].to # "CANCELLED"
      BY <2>1, <2>3 DEF ConfirmByTokenWrite, RescheduleByTokenWrite, InFlight, Fits, AtRow, Knows
    <3>2. status' = [status EXCEPT ![req[r].a] = req[r].to]
      BY <2>3 DEF ConfirmByTokenWrite, RescheduleByTokenWrite, WriteStatus
    <3> QED BY <3>1, <3>2
  <2>4. CASE RefuseDeposit(r) \/ ConfirmPaid(r)
    <3>1. req[r].a \in Appt
      BY <2>4 DEF RefuseDeposit, ConfirmPaid, InFlight, Fits, AtRow
    <3>2. status' = status \/ (status[req[r].a] = "PENDING_PAYMENT"
                                /\ \E t \in Status : status' = [status EXCEPT ![req[r].a] = t])
      BY <2>4 DEF RefuseDeposit, ConfirmPaid, UpdateIf, WriteStatus, calendarVars, Status
    <3> QED BY <3>1, <3>2
  <2>5. CASE ReleaseTx(r)
    <3>1. req[r].a \in Appt
      BY <2>5 DEF ReleaseTx, InFlight, Fits, AtRow
    <3>2. \/ status' = status
          \/ /\ UnpaidActiveHold(req[r].seen, req[r].flag) /\ status[req[r].a] = req[r].seen
             /\ status' = [status EXCEPT ![req[r].a] = "CANCELLED"]
      BY <2>5 DEF ReleaseTx, UpdateIf, WriteStatus, calendarVars
    <3> QED BY <2>1, <2>5, <3>1, <3>2 DEF UnpaidActiveHold, Knows, ReleaseTx
  <2>6. CASE BookPublicInsert(r)
    <3>1. PICK b \in Appt, t \in {"PENDING_PAYMENT", "SCHEDULED"} :
            status' = [status EXCEPT ![b] = t]
      BY <2>6 DEF BookPublicInsert
    <3> QED BY <3>1
  <2>7. CASE ~(\/ CancelByTokenWrite(r) \/ UpdateStatusWrite(r) \/ ConfirmByTokenWrite(r)
               \/ RescheduleByTokenWrite(r) \/ RefuseDeposit(r) \/ ConfirmPaid(r)
               \/ ReleaseTx(r) \/ BookPublicInsert(r))
    <3>1. status' = status
      BY <1>2, <2>7 DEF Acts, Arrive, Step, BookPublicRead, BookPublicCheck, BookPublicAttend,
           Announce, CreatePixCharge, StillPending, InsertCharge, ChargeError,
           ConfirmByTokenRead, CancelByTokenRead, UpdateStatusRead, RescheduleByTokenRead,
           RescheduleByTokenCheck, CancelPendingJobs, FindCandidate, ClaimCandidate,
           WebhookRead, Thank, MarkRefunded, WebhookRelease, ReleaseRead, Sweep, DbRejects,
           Fail, calendarVars
    <3> QED BY <3>1
  <2> QED BY <2>2, <2>3, <2>4, <2>5, <2>6, <2>7
<1> QED BY <1>1, <1>2, NextActs

\* A scheduled or confirmed appointment is cancelled by the customer or the staff
\* and by no sweep, webhook or refusal, whatever they had read before.
ConfirmedNeverReleased ==
  [][\A a \in Appt : status[a] \in {"SCHEDULED", "CONFIRMED"} /\ status'[a] = "CANCELLED"
       => CancelsByHand(a)]_vars

\* No late release takes a scheduled or confirmed appointment away.
THEOREM ConfirmedIsKept == Spec => ConfirmedNeverReleased
<1>1. Sound /\ PixInv /\ [Next]_vars =>
        [\A a \in Appt : status[a] \in {"SCHEDULED", "CONFIRMED"} /\ status'[a] = "CANCELLED"
           => CancelsByHand(a)]_vars
  BY CancelledBy DEF Active, ACTIVE_APPOINTMENT_STATUSES
<1> QED BY <1>1, PixInvariant, PTL DEF Spec, ConfirmedNeverReleased

-------------------------------------------------------------------------------
(***************************************************************************)
(* Paid holds.  A reschedule or a status write of the dashboard may put    *)
(* PENDING_PAYMENT back over a row that was paid since they read it, and a *)
(* release would then cancel it; where neither runs, a paid row is never a *)
(* hold and so is never released.                                          *)
(***************************************************************************)

\* Where neither runs.
NoRewrites == Ops \cap {"move", "staff"} = {}

\* No handler of theirs is in flight, and no hold is paid.
HoldInv ==
  /\ \A r \in Actor : req[r].pc \notin {"moveCheck", "moveWrite", "staff"}
  /\ \A a \in Appt : Settled(a) => status[a] # "PENDING_PAYMENT"

\* Without these two, a row becomes a hold only when it is created.
LEMMA HoldIsNew ==
  ASSUME Sound, PixInv, HoldInv, NEW r \in Actor, Acts(r),
         NEW a \in Appt, status[a] # "PENDING_PAYMENT", status'[a] = "PENDING_PAYMENT"
  PROVE  status[a] = "NONE" /\ charge' = charge
<1> USE DEF Sound, TypeOK, TablesOK
<1>1. Carries(req[r]) /\ Knows(req[r]) /\ req[r].pc \notin {"moveCheck", "moveWrite", "staff"}
  BY DEF PixInv, HoldInv
<1>2. CASE BookPublicInsert(r)
  <2>1. PICK b \in Appt, t \in Status : status[b] = "NONE" /\ status' = [status EXCEPT ![b] = t]
    BY <1>2 DEF BookPublicInsert, Exists, Status
  <2> QED BY <1>2, <2>1 DEF BookPublicInsert, pixVars
<1>3. CASE ConfirmByTokenWrite(r) \/ CancelByTokenWrite(r)
  <2>1. req[r].a \in Appt /\ req[r].to # "PENDING_PAYMENT"
    BY <1>1, <1>3 DEF ConfirmByTokenWrite, CancelByTokenWrite, InFlight, Fits, AtRow, Knows
  <2>2. status' = [status EXCEPT ![req[r].a] = req[r].to]
    BY <1>3 DEF ConfirmByTokenWrite, CancelByTokenWrite, WriteStatus
  <2> QED BY <2>1, <2>2
<1>4. CASE RefuseDeposit(r) \/ ConfirmPaid(r) \/ ReleaseTx(r)
  <2>1. req[r].a \in Appt
    BY <1>4 DEF RefuseDeposit, ConfirmPaid, ReleaseTx, InFlight, Fits, AtRow
  <2>2. \/ status' = status
        \/ \E t \in {"CANCELLED", "CONFIRMED"} : status' = [status EXCEPT ![req[r].a] = t]
    BY <1>4 DEF RefuseDeposit, ConfirmPaid, ReleaseTx, UpdateIf, WriteStatus, calendarVars
  <2> QED BY <2>1, <2>2
<1>5. CASE ~(\/ BookPublicInsert(r) \/ ConfirmByTokenWrite(r) \/ CancelByTokenWrite(r)
             \/ RefuseDeposit(r) \/ ConfirmPaid(r) \/ ReleaseTx(r))
  <2>1. status' = status
    BY <1>1, <1>5 DEF Acts, Arrive, Step, BookPublicRead, BookPublicCheck, BookPublicAttend,
         Announce, CreatePixCharge, StillPending, InsertCharge, ChargeError,
         ConfirmByTokenRead, CancelByTokenRead, UpdateStatusRead, UpdateStatusWrite,
         RescheduleByTokenRead, RescheduleByTokenCheck, RescheduleByTokenWrite,
         CancelPendingJobs, FindCandidate, ClaimCandidate, WebhookRead, Thank, MarkRefunded,
         WebhookRelease, ReleaseRead, Sweep, DbRejects, Fail, calendarVars
  <2> QED BY <2>1
<1> QED BY <1>2, <1>3, <1>4, <1>5

\* The payment is recorded in the step that ends the hold.
LEMMA PaidEndsHold ==
  ASSUME Sound, PixInv, NEW r \in Actor, Acts(r),
         NEW a \in Appt, ~Settled(a), Settled(a)'
  PROVE  status'[a] # "PENDING_PAYMENT"
<1> USE DEF Sound, TypeOK, TablesOK, Settled
<1>1. PixTables(r)
  BY TablesOfActor
<1>2. req[r].pc = "hook" /\ req[r].a = a /\ req[r].seen = "approved" /\ charge[a] = "PENDING"
        /\ charge'[a] = "PAID"
  BY <1>1 DEF PixTables
<1>3. CASE ConfirmPaid(r)
  BY <1>2, <1>3 DEF ConfirmPaid, UpdateIf, WriteStatus, calendarVars
<1>4. CASE ~ConfirmPaid(r)
  BY <1>2, <1>4 DEF Acts, Arrive, Start, Step, BookPublicRead, BookPublicCheck,
       BookPublicInsert, BookPublicAttend, Announce, CreatePixCharge, StillPending,
       InsertCharge, ChargeError, RefuseDeposit, ConfirmByTokenRead, ConfirmByTokenWrite,
       CancelByTokenRead, CancelByTokenWrite, UpdateStatusRead, UpdateStatusWrite,
       RescheduleByTokenRead, RescheduleByTokenCheck, RescheduleByTokenWrite,
       CancelPendingJobs, FindCandidate, ClaimCandidate, WebhookRead, Thank, MarkRefunded,
       WebhookRelease, ReleaseRead, ReleaseTx, Sweep, DbRejects, Fail, Writes, pixVars
<1> QED BY <1>3, <1>4

\* Without rewrites no step lets go of a hold that was paid.
LEMMA HoldStep ==
  ASSUME NoRewrites, Sound, PixInv, HoldInv, [Next]_vars
  PROVE  HoldInv'
<1>1. CASE WorldStep
  BY <1>1 DEF WorldStep, HoldInv, Settled
<1>2. ASSUME NEW r \in Actor, Acts(r) PROVE HoldInv'
  <2>1. HandlerStep(r)
    BY <1>2, ActorStep DEF Acts
  <2>2. req'[r].pc \notin {"moveCheck", "staff"}
    BY <2>1 DEF HandlerStep, RescheduleByTokenRead, UpdateStatusRead, NoRewrites
  <2>3. req'[r].pc # "moveWrite"
    <3>1. CASE BookPublicCheck(r)
      <4>1. Done(r) \/ Goto(r, "insert")
        BY <3>1 DEF BookPublicCheck
      <4> QED BY <4>1, RecordNext DEF Pcs
    <3>2. ~RescheduleByTokenCheck(r)
      BY DEF HoldInv, RescheduleByTokenCheck
    <3> QED BY <2>1, <3>1, <3>2 DEF HandlerStep
  <2>4. \A q \in Actor : req'[q].pc \notin {"moveCheck", "moveWrite", "staff"}
    BY <1>2, <2>2, <2>3, OthersStay DEF HoldInv
  <2>5. ASSUME NEW a \in Appt, Settled(a)', status'[a] = "PENDING_PAYMENT" PROVE FALSE
    <3>1. Settled(a)
      BY <1>2, <2>5, PaidEndsHold
    <3>2. status[a] # "PENDING_PAYMENT"
      BY <3>1 DEF HoldInv
    <3>3. status[a] = "NONE"
      BY <1>2, <2>5, <3>2, HoldIsNew
    <3> QED BY <3>1, <3>3 DEF Settled, Sound, RowFirst
  <2> QED BY <2>4, <2>5 DEF HoldInv
<1> QED BY <1>1, <1>2, NextActs

\* However late the sweep, a webhook's release or a refusal runs, an appointment whose
\* charge was paid is cancelled by the customer or the staff alone.
THEOREM PaidIsKept ==
  ASSUME NoRewrites
  PROVE  Spec => PaidNeverReleased
<1>1. Init => HoldInv
  BY IdleType DEF Init, HoldInv, Settled
<1>2. Sound /\ PixInv /\ HoldInv /\ [Next]_vars => HoldInv'
  BY HoldStep
<1>3. Sound /\ PixInv /\ HoldInv /\ [Next]_vars =>
        [\A a \in Appt : Settled(a) /\ Active(a) /\ status'[a] = "CANCELLED" =>
           \E r \in Req : req[r].pc \in {"cancel", "staff"} /\ req[r].a = a
                           /\ req'[r].pc # req[r].pc]_vars
  BY CancelledBy DEF CancelsByHand, HoldInv
<1> QED BY <1>1, <1>2, <1>3, PixInvariant, PTL DEF Spec, PaidNeverReleased
===============================================================================
