----------------------------- MODULE CalendarProofs -----------------------------
(***************************************************************************)
(* The agenda: the appointments table implements SlotCalendar, and the     *)
(* advisory lock with the check under it keeps the buffer.  Then the       *)
(* waitlist, which is called in its order, and the month's limit, which    *)
(* the lock of each professional leaves open by the other professionals.   *)
(***************************************************************************)
EXTENDS AppointmentsProofs, FiniteSetTheorems

(***************************************************************************)
(* Of all the steps, three kinds touch the calendar: a status written by   *)
(* id, the insertion of a booking and the commit of a reschedule.          *)
(***************************************************************************)
LEMMA CalendarStep ==
  ASSUME Sound, [Next]_vars
  PROVE  \/ UNCHANGED <<status, slot, pro, unchecked>>
         \/ \E a \in Appt, t \in Status : WriteStatus(a, t) /\ status[a] # "NONE"
         \/ \E r \in Actor : BookPublicInsert(r) \/ RescheduleByTokenWrite(r)
<1> USE DEF calendarVars, ghostVars
<1>1. CASE \E r \in Req : Arrive(r)
  BY <1>1 DEF Arrive, BookPublicRead, ConfirmByTokenRead, CancelByTokenRead,
       RescheduleByTokenRead, UpdateStatusRead, WebhookRead
<1>2. CASE Sweep
  BY <1>2 DEF Sweep
<1>3. ASSUME NEW r \in Actor, Step(r)
      PROVE  \/ UNCHANGED <<status, slot, pro, unchecked>>
             \/ \E a \in Appt, t \in Status : WriteStatus(a, t) /\ status[a] # "NONE"
             \/ BookPublicInsert(r) \/ RescheduleByTokenWrite(r)
  <2>1. CASE RefuseDeposit(r) \/ ConfirmPaid(r) \/ ReleaseTx(r)
    <3>1. req[r].a \in Appt /\ status[req[r].a] # "NONE"
      BY <2>1 DEF RefuseDeposit, ConfirmPaid, ReleaseTx, Sound, InFlight, Fits, AtRow
    <3>2. \/ UNCHANGED <<status, slot, pro, unchecked>>
          \/ \E t \in Status : WriteStatus(req[r].a, t)
      BY <2>1 DEF RefuseDeposit, ConfirmPaid, ReleaseTx, UpdateIf, Status
    <3> QED BY <3>1, <3>2
  <2>2. CASE ConfirmByTokenWrite(r) \/ CancelByTokenWrite(r) \/ UpdateStatusWrite(r)
    <3>1. req[r].a \in Appt /\ status[req[r].a] # "NONE" /\ req[r].to \in Status
      BY <2>2 DEF ConfirmByTokenWrite, CancelByTokenWrite, UpdateStatusWrite, Sound, InFlight,
           Fits, AtRow
    <3>2. WriteStatus(req[r].a, req[r].to) \/ UNCHANGED <<status, slot, pro, unchecked>>
      BY <2>2 DEF ConfirmByTokenWrite, CancelByTokenWrite, UpdateStatusWrite
    <3> QED BY <3>1, <3>2
  <2>3. CASE \/ BookPublicCheck(r) \/ BookPublicAttend(r) \/ Announce(r) \/ CreatePixCharge(r)
             \/ StillPending(r) \/ InsertCharge(r) \/ ChargeError(r)
             \/ RescheduleByTokenCheck(r) \/ CancelPendingJobs(r) \/ FindCandidate(r)
             \/ ClaimCandidate(r) \/ Thank(r) \/ MarkRefunded(r) \/ WebhookRelease(r)
             \/ ReleaseRead(r) \/ DbRejects(r)
    BY <2>3 DEF BookPublicCheck, BookPublicAttend, Announce, CreatePixCharge, StillPending,
         InsertCharge, ChargeError, RescheduleByTokenCheck, CancelPendingJobs, FindCandidate,
         ClaimCandidate, Thank, MarkRefunded, WebhookRelease, ReleaseRead, DbRejects
  <2> QED BY <1>3, <2>1, <2>2, <2>3 DEF Step
<1>4. ASSUME NEW r \in Actor, Fail(r) PROVE UNCHANGED <<status, slot, pro, unchecked>>
  BY <1>4 DEF Fail
<1>5. ASSUME NEW a \in Appt, Pay(a) \/ PaymentEnds(a) \/ TimePasses(a)
      PROVE  UNCHANGED <<status, slot, pro, unchecked>>
  BY <1>5 DEF Pay, PaymentEnds, TimePasses
<1>6. CASE UNCHANGED vars
  BY <1>6 DEF vars
<1> QED BY <1>1, <1>2, <1>3, <1>4, <1>5, <1>6 DEF Next

-------------------------------------------------------------------------------
(***************************************************************************)
(* Refinement.                                                             *)
(***************************************************************************)

\* A step that sets one appointment's place, accepted by the constraint, is a step
\* of the calendar.
LEMMA PlaceStep ==
  ASSUME Sound, NEW a \in Appt, NEW t \in Status, NEW p \in Pro, NEW s \in Slots,
         DbAccepts(a, p, s, t),
         status' = [status EXCEPT ![a] = t],
         slot' = [slot EXCEPT ![a] = s],
         pro' = [pro EXCEPT ![a] = p]
  PROVE  Calendar!Next
<1> DEFINE place == [pro |-> p, slot |-> s]
<1> USE DEF Sound, TypeOK, TablesOK
<1>1. CASE t \in ACTIVE_APPOINTMENT_STATUSES
  <2>1. Held' = [Held EXCEPT ![a] = place]
    BY <1>1 DEF Held, Active
  <2>2. ASSUME NEW b \in Appt \ {a} PROVE ~Calendar!Clash(Held[b], place)
    BY <1>1 DEF Calendar!Clash, Calendar!overlaps, overlaps, Held, DbAccepts, Active
  <2>3. place \in Calendar!Place
    BY DEF Calendar!Place
  <2> QED BY <2>1, <2>2, <2>3 DEF Calendar!Next, Calendar!Occupy
<1>2. CASE t \notin ACTIVE_APPOINTMENT_STATUSES
  <2>1. Held' = [Held EXCEPT ![a] = NoAppt]
    BY <1>2 DEF Held, Active
  <2> QED BY <2>1 DEF Calendar!Next, Calendar!Vacate
<1> QED BY <1>1, <1>2

\* Every step of the handlers is a step of the calendar or leaves it alone.
LEMMA NextCalendar == Sound /\ [Next]_vars => Calendar!Next \/ UNCHANGED Held
<1> SUFFICES ASSUME Sound, [Next]_vars PROVE Calendar!Next \/ UNCHANGED Held
  OBVIOUS
<1> USE DEF Sound, TypeOK, TablesOK
<1>1. CASE UNCHANGED <<status, slot, pro, unchecked>>
  BY <1>1 DEF Held, Active
<1>2. ASSUME NEW a \in Appt, NEW t \in Status, WriteStatus(a, t) PROVE Calendar!Next
  <2>1. slot' = [slot EXCEPT ![a] = slot[a]] /\ pro' = [pro EXCEPT ![a] = pro[a]]
    BY <1>2 DEF WriteStatus
  <2> QED BY <1>2, <2>1, PlaceStep DEF WriteStatus
<1>3. ASSUME NEW r \in Actor, BookPublicInsert(r) PROVE Calendar!Next
  <2>1. PICK a \in Appt, t \in {"PENDING_PAYMENT", "SCHEDULED"} :
          /\ DbAccepts(a, req[r].p, req[r].s, t)
          /\ status' = [status EXCEPT ![a] = t]
          /\ slot' = [slot EXCEPT ![a] = req[r].s]
          /\ pro' = [pro EXCEPT ![a] = req[r].p]
    BY <1>3 DEF BookPublicInsert
  <2>2. req[r].p \in Pro /\ req[r].s \in Slots /\ t \in Status
    BY DEF Request, Status
  <2> QED BY <2>1, <2>2, PlaceStep
<1>4. ASSUME NEW r \in Actor, RescheduleByTokenWrite(r) PROVE Calendar!Next
  <2>1. req[r].a \in Appt /\ req[r].to \in Status /\ req[r].s \in Slots
    BY <1>4 DEF RescheduleByTokenWrite, InFlight, Fits, AtRow, Request
  <2>2. pro' = [pro EXCEPT ![req[r].a] = pro[req[r].a]]
    BY <1>4 DEF RescheduleByTokenWrite
  <2> QED BY <1>4, <2>1, <2>2, PlaceStep DEF RescheduleByTokenWrite
<1> QED BY <1>1, <1>2, <1>3, <1>4, CalendarStep

\* Whatever handlers interleave, the appointments table behaves as a calendar in
\* which no step lets two appointments of a professional overlap: every write of
\* the code is accepted by the constraint as one entry appearing, moving or going.
THEOREM TableImplementsCalendar == Spec => CalendarSpec
<1>1. Init => Calendar!Init
  BY DEF Init, Calendar!Init, Held, Active, ACTIVE_APPOINTMENT_STATUSES
<1>2. Sound /\ [Next]_vars => [Calendar!Next]_Held
  BY NextCalendar
<1> QED BY <1>1, <1>2, SpecSound, PTL DEF Spec, CalendarSpec, Calendar!Spec

-------------------------------------------------------------------------------
(***************************************************************************)
(* The buffer.  BufferKept is not inductive: it holds because a handler    *)
(* that is about to write an interval holds the professional's lock, and   *)
(* because nobody else can have come near since it looked, except by a     *)
(* revival, which unchecked records.                                       *)
(***************************************************************************)
\* Interval s is closer than the buffer to appointment b.
Near(s, b) == hasOverlap(s, {slot[b]}, Buffer)

\* Between its check and its write a handler holds the professional's lock.
Locked ==
  \A r \in Actor : req[r].pc \in {"insert", "moveWrite"} => lock[req[r].p] = r

\* A reschedule stays with the appointment's professional.
MovesOwn ==
  \A r \in Actor : req[r].pc \in {"moveCheck", "moveWrite"} => pro[req[r].a] = req[r].p

\* What it found free is still free, revivals and its own row aside.
Cleared ==
  \A r \in Actor, b \in Appt :
    /\ req[r].pc \in {"insert", "moveWrite"}
    /\ Active(b) /\ pro[b] = req[r].p /\ b \notin unchecked
    /\ req[r].pc = "moveWrite" => b # req[r].a
    => ~Near(req[r].s, b)

\* The inductive strengthening of BufferKept.
AgendaInv == Locked /\ MovesOwn /\ Cleared /\ BufferKept

\* The buffer test does not depend on the order of its arguments.
LEMMA NearSymmetric ==
  ASSUME NEW x \in Slots, NEW y \in Slots
  PROVE  hasOverlap(x, {y}, Buffer) <=> hasOverlap(y, {x}, Buffer)
  BY SlotsAssumption, BufferAssumption DEF hasOverlap, overlaps

\* An interval the check accepts is near none of the appointments it looked at.
LEMMA CheckClears ==
  ASSUME NEW s, NEW p, NEW skip, ~hasOverlap(s, Busy(p, skip), Buffer),
         NEW b \in Appt, b \notin skip, Active(b), pro[b] = p
  PROVE  ~Near(s, b)
  BY DEF hasOverlap, Busy, Near

\* The professional of an existing appointment never changes.
LEMMA ProKept ==
  ASSUME Sound, [Next]_vars, NEW a \in Appt, status[a] # "NONE"
  PROVE  pro'[a] = pro[a]
<1>1. ASSUME NEW r \in Actor, BookPublicInsert(r) PROVE pro'[a] = pro[a]
  BY <1>1 DEF BookPublicInsert, Exists, Sound, TypeOK, TablesOK
<1>2. ASSUME NEW r \in Actor, RescheduleByTokenWrite(r) PROVE pro'[a] = pro[a]
  BY <1>2 DEF RescheduleByTokenWrite
<1> QED BY <1>1, <1>2, CalendarStep DEF WriteStatus

\* A handler enters the critical section through its check, which finds the
\* lock free and the interval clear and writes nothing.
LEMMA EnterStep ==
  ASSUME Sound, NEW r \in Actor, HandlerStep(r), req'[r].pc \in {"insert", "moveWrite"}
  PROVE  /\ UNCHANGED <<status, slot, pro, unchecked>>
         /\ lock[req[r].p] = NoReq /\ lock' = [lock EXCEPT ![req[r].p] = r]
         /\ req'[r].a = req[r].a /\ req'[r].p = req[r].p /\ req'[r].s = req[r].s
         /\ req'[r].pc = "insert" => ~hasOverlap(req[r].s, Busy(req[r].p, {}), Buffer)
         /\ req'[r].pc = "moveWrite" =>
              /\ req[r].pc = "moveCheck"
              /\ ~hasOverlap(req[r].s, Busy(req[r].p, {req[r].a}), Buffer)
<1> USE DEF Sound, TypeOK, calendarVars, ghostVars
<1>1. ~Done(r)
  BY IdleType DEF Done
<1>2. CASE BookPublicCheck(r)
  <2>1. Goto(r, "insert")
    BY <1>1, <1>2 DEF BookPublicCheck
  <2>2. /\ req'[r].a = req[r].a /\ req'[r].p = req[r].p /\ req'[r].s = req[r].s
        /\ req'[r].pc = "insert"
    BY <2>1 DEF Goto, Request
  <2> QED BY <1>1, <1>2, <2>2 DEF BookPublicCheck
<1>3. CASE RescheduleByTokenCheck(r)
  <2>1. Goto(r, "moveWrite")
    BY <1>1, <1>3 DEF RescheduleByTokenCheck
  <2>2. /\ req'[r].a = req[r].a /\ req'[r].p = req[r].p /\ req'[r].s = req[r].s
        /\ req'[r].pc = "moveWrite"
    BY <2>1 DEF Goto, Request
  <2> QED BY <1>1, <1>3, <2>2 DEF RescheduleByTokenCheck
<1> QED BY <1>2, <1>3 DEF HandlerStep

\* The lock excludes: a free one is taken, and nobody frees another's.
LEMMA LockedKept ==
  ASSUME Sound, Locked, [Next]_vars
  PROVE  Locked'
<1> USE DEF Sound, TypeOK, TablesOK
<1>1. CASE req' = req /\ lock' = lock
  BY <1>1 DEF Locked
<1>2. ASSUME NEW r \in Actor, HandlerStep(r) PROVE Locked'
  <2> SUFFICES ASSUME NEW q \in Actor, req'[q].pc \in {"insert", "moveWrite"}
               PROVE  lock'[req'[q].p] = q
    BY DEF Locked
  <2>1. CASE q = r
    <3>1. req'[q].p = req[q].p /\ lock' = [lock EXCEPT ![req[q].p] = q]
      BY <1>2, <2>1, EnterStep
    <3>2. req[q].p \in Pro
      BY DEF Request
    <3> QED BY <3>1, <3>2
  <2>2. CASE q # r
    <3>1. req'[q] = req[q] /\ req[q].p \in Pro /\ lock[req[q].p] = q
      BY <1>2, <2>2 DEF HandlerStep, Locked, Request
    <3> QED BY <1>2, <2>2, <3>1, ActorAssumption DEF HandlerStep, Unlock, Actor
  <2> QED BY <2>1, <2>2
<1> QED BY <1>1, <1>2, NextActor

\* A reschedule stays with its professional: it copied the row's at its read, and no
\* handler ever changes an existing row's.
LEMMA MovesOwnKept ==
  ASSUME Sound, MovesOwn, [Next]_vars
  PROVE  MovesOwn'
<1> USE DEF Sound, TypeOK, TablesOK
<1> SUFFICES ASSUME NEW q \in Actor, req'[q].pc \in {"moveCheck", "moveWrite"}
             PROVE  pro'[req'[q].a] = req'[q].p
  BY DEF MovesOwn
<1>1. CASE req'[q] = req[q]
  BY <1>1, ProKept DEF MovesOwn, InFlight, Fits, AtRow
<1>2. CASE HandlerStep(q) /\ req'[q].pc = "moveCheck"
  <2>1. PICK a \in Appt, s \in Slots, t \in {"PENDING_PAYMENT", "SCHEDULED"} :
          req' = [req EXCEPT ![q] = [Idle EXCEPT !.pc = "moveCheck", !.a = a, !.p = pro[a],
                                                 !.s = s, !.to = t, !.flag = TRUE]]
    BY <1>2 DEF HandlerStep, RescheduleByTokenRead, Start
  <2>2. req'[q].a = a /\ req'[q].p = pro[a]
    BY <2>1, IdleType DEF Request
  <2>3. pro' = pro
    BY <1>2 DEF HandlerStep, RescheduleByTokenRead, calendarVars
  <2> QED BY <2>2, <2>3
<1>3. CASE HandlerStep(q) /\ req'[q].pc = "moveWrite"
  BY <1>3, EnterStep DEF MovesOwn, Request
<1> QED BY <1>1, <1>2, <1>3, NextActor DEF HandlerStep

\* A handler that writes an interval it has cleared, under the lock, disturbs
\* neither the buffer nor what the others have cleared.
LEMMA PlacedClear ==
  ASSUME Sound, AgendaInv, NEW r \in Actor, NEW c \in Appt, NEW t \in Status,
         req[r].pc \in {"insert", "moveWrite"},
         req[r].pc = "moveWrite" => c = req[r].a,
         req'[r].pc \notin {"insert", "moveWrite"},
         \A q \in Actor \ {r} : req'[q] = req[q],
         status' = [status EXCEPT ![c] = t],
         slot' = [slot EXCEPT ![c] = req[r].s],
         pro' = [pro EXCEPT ![c] = req[r].p],
         unchecked' \ {c} = unchecked \ {c}
  PROVE  Cleared' /\ BufferKept'
<1> USE DEF Sound, TypeOK, TablesOK
<1>0. req[r].s \in Slots /\ req[r].p \in Pro
  BY DEF Request
<1>1. \A b \in Appt \ {c} : /\ status'[b] = status[b] /\ slot'[b] = slot[b] /\ pro'[b] = pro[b]
                            /\ b \in unchecked' <=> b \in unchecked
  OBVIOUS
<1>2. slot'[c] = req[r].s /\ pro'[c] = req[r].p
  BY <1>0
<1>3. Cleared'
  <2> SUFFICES ASSUME NEW q \in Actor, NEW b \in Appt,
                      req'[q].pc \in {"insert", "moveWrite"},
                      status'[b] \in ACTIVE_APPOINTMENT_STATUSES, pro'[b] = req'[q].p,
                      b \notin unchecked', req'[q].pc = "moveWrite" => b # req'[q].a
               PROVE  ~hasOverlap(req'[q].s, {slot'[b]}, Buffer)
    BY DEF Cleared, Active, Near
  <2>1. q # r /\ req'[q] = req[q]
    OBVIOUS
  <2>2. req[q].p # req[r].p
    BY <2>1 DEF AgendaInv, Locked
  <2>3. b # c
    BY <1>2, <2>1, <2>2
  <2>4. /\ Active(b) /\ pro[b] = req[q].p /\ b \notin unchecked
        /\ slot'[b] = slot[b] /\ req'[q].s = req[q].s
        /\ req[q].pc \in {"insert", "moveWrite"}
        /\ req[q].pc = "moveWrite" => b # req[q].a
    BY <1>1, <2>1, <2>3 DEF Active
  <2>5. ~Near(req[q].s, b)
    BY <2>4 DEF AgendaInv, Cleared
  <2> QED BY <2>4, <2>5 DEF Near
<1>4. ASSUME NEW b \in Appt \ {c}, status'[b] \in ACTIVE_APPOINTMENT_STATUSES,
             pro'[b] = pro'[c], b \notin unchecked'
      PROVE  /\ ~hasOverlap(slot'[c], {slot'[b]}, Buffer)
             /\ ~hasOverlap(slot'[b], {slot'[c]}, Buffer)
  <2>1. ~hasOverlap(req[r].s, {slot[b]}, Buffer)
    BY <1>1, <1>2, <1>4 DEF AgendaInv, Cleared, Active, Near
  <2>2. slot[b] \in Slots
    OBVIOUS
  <2> QED BY <1>0, <1>1, <1>2, <2>1, <2>2, NearSymmetric
<1>5. BufferKept'
  <2> SUFFICES ASSUME NEW a \in Appt, NEW b \in Appt, a # b,
                      status'[a] \in ACTIVE_APPOINTMENT_STATUSES,
                      status'[b] \in ACTIVE_APPOINTMENT_STATUSES,
                      pro'[a] = pro'[b], hasOverlap(slot'[a], {slot'[b]}, Buffer)
               PROVE  a \in unchecked' \/ b \in unchecked'
    BY DEF BufferKept, TooClose, Active
  <2>1. CASE a # c /\ b # c
    BY <1>1, <2>1 DEF AgendaInv, BufferKept, TooClose, Active
  <2>2. CASE a = c \/ b = c
    BY <1>4, <2>2
  <2> QED BY <2>1, <2>2
<1> QED BY <1>3, <1>5

\* No step comes near an interval that a handler has cleared, or breaks the buffer,
\* other than by a revival: inserts and moves write only what they cleared, under
\* the lock, and status writes that activate a row put it into unchecked.
LEMMA ClearKept ==
  ASSUME Sound, AgendaInv, [Next]_vars
  PROVE  Cleared' /\ BufferKept'
<1> USE DEF Sound, TypeOK, TablesOK
<1>1. ASSUME NEW r \in Actor, BookPublicInsert(r) PROVE Cleared' /\ BufferKept'
  <2>1. PICK c \in Appt, t \in {"PENDING_PAYMENT", "SCHEDULED"} :
          /\ status' = [status EXCEPT ![c] = t]
          /\ slot' = [slot EXCEPT ![c] = req[r].s]
          /\ pro' = [pro EXCEPT ![c] = req[r].p]
          /\ req' = [req EXCEPT ![r] = [Idle EXCEPT !.pc = "attend", !.a = c,
                       !.who = req[r].who, !.flag = req[r].flag]]
    BY <1>1 DEF BookPublicInsert
  <2>2. Reaches(r, "attend")
    BY <2>1, IdleType DEF Reaches, Request
  <2>3. req[r].pc = "insert" /\ unchecked' = unchecked /\ t \in Status
    BY <1>1 DEF BookPublicInsert, Status
  <2> QED BY <2>1, <2>2, <2>3, PlacedClear DEF Reaches
<1>2. ASSUME NEW r \in Actor, RescheduleByTokenWrite(r) PROVE Cleared' /\ BufferKept'
  <2> DEFINE c == req[r].a
  <2>1. req[r].pc = "moveWrite" /\ c \in Appt /\ req[r].to \in Status
    BY <1>2 DEF RescheduleByTokenWrite, InFlight, Fits, AtRow
  <2>2. pro[c] = req[r].p
    BY <2>1 DEF AgendaInv, MovesOwn
  <2>3. /\ status' = [status EXCEPT ![c] = req[r].to]
        /\ slot' = [slot EXCEPT ![c] = req[r].s]
        /\ pro' = [pro EXCEPT ![c] = req[r].p]
        /\ unchecked' = unchecked \ {c}
    BY <1>2, <2>1, <2>2 DEF RescheduleByTokenWrite
  <2>4. Reaches(r, "silence")
    BY <1>2, WhereNext DEF RescheduleByTokenWrite, Pcs
  <2>5. unchecked' \ {c} = unchecked \ {c}
    BY <2>3
  <2> QED BY <2>1, <2>3, <2>4, <2>5, PlacedClear DEF Reaches
<1>3. CASE \/ UNCHANGED <<status, slot, pro, unchecked>>
           \/ \E a \in Appt, t \in Status : WriteStatus(a, t)
  <2>1. /\ slot' = slot /\ pro' = pro /\ unchecked \subseteq unchecked'
        /\ \A b \in Appt \ unchecked' : Active(b)' => Active(b)
    <3>1. ASSUME NEW a \in Appt, NEW t \in Status, WriteStatus(a, t)
          PROVE  /\ slot' = slot /\ pro' = pro /\ unchecked \subseteq unchecked'
                 /\ \A b \in Appt \ unchecked' : Active(b)' => Active(b)
      BY <3>1 DEF WriteStatus, Active
    <3> QED BY <1>3, <3>1 DEF Active
  <2>2. BufferKept'
    BY <2>1 DEF AgendaInv, BufferKept, TooClose
  <2>3. Cleared'
    <3> SUFFICES ASSUME NEW q \in Actor, NEW b \in Appt,
                        req'[q].pc \in {"insert", "moveWrite"},
                        Active(b)', pro'[b] = req'[q].p,
                        b \notin unchecked', req'[q].pc = "moveWrite" => b # req'[q].a
                 PROVE  ~hasOverlap(req'[q].s, {slot'[b]}, Buffer)
      BY DEF Cleared, Near
    <3>1. CASE req'[q] = req[q]
      BY <2>1, <3>1 DEF AgendaInv, Cleared, Near
    <3>2. CASE HandlerStep(q)
      <4>1. req'[q].a = req[q].a /\ req'[q].p = req[q].p /\ req'[q].s = req[q].s
        BY <3>2, EnterStep DEF Request
      <4>2. CASE req'[q].pc = "insert"
        <5>1. ~hasOverlap(req[q].s, Busy(req[q].p, {}), Buffer) /\ b \notin {}
          BY <3>2, <4>1, <4>2, EnterStep
        <5> QED BY <2>1, <4>1, <5>1, CheckClears DEF Near
      <4>3. CASE req'[q].pc = "moveWrite"
        <5>1. ~hasOverlap(req[q].s, Busy(req[q].p, {req[q].a}), Buffer) /\ b \notin {req[q].a}
          BY <3>2, <4>1, <4>3, EnterStep
        <5> QED BY <2>1, <4>1, <5>1, CheckClears DEF Near
      <4> QED BY <4>2, <4>3
    <3> QED BY <3>1, <3>2, NextActor DEF HandlerStep
  <2> QED BY <2>2, <2>3
<1> QED BY <1>1, <1>2, <1>3, CalendarStep

\* For every number of customers, professionals and intervals: an active
\* appointment that some write did look at keeps the buffer from all the others,
\* because the advisory lock is held from that look to the write.
THEOREM BufferIsKept == Spec => []BufferKept
<1>1. Init => AgendaInv
  BY IdleType DEF Init, AgendaInv, Locked, MovesOwn, Cleared, BufferKept, TooClose, Active,
       ACTIVE_APPOINTMENT_STATUSES
<1>2. Sound /\ AgendaInv /\ [Next]_vars => AgendaInv'
  BY LockedKept, MovesOwnKept, ClearKept DEF AgendaInv
<1>3. AgendaInv => BufferKept
  BY DEF AgendaInv
<1> QED BY <1>1, <1>2, <1>3, SpecSound, PTL DEF Spec

\* A calendar that starts empty and takes only steps that do not clash has no two
\* entries of one professional overlapping.
THEOREM NoOverlap == Spec => []Calendar!NoDoubleBooking
<1> DEFINE Inv == Calendar!NoDoubleBooking /\ Held \in [Appt -> Calendar!Place \cup {NoAppt}]
<1>1. Init => Inv
  BY DEF Init, Held, Active, ACTIVE_APPOINTMENT_STATUSES, Calendar!NoDoubleBooking,
         Calendar!Clash
<1>2. Inv /\ [Calendar!Next]_Held => Inv'
  <2> SUFFICES ASSUME Inv, [Calendar!Next]_Held PROVE Inv'
    OBVIOUS
  <2>1. CASE UNCHANGED Held
    BY <2>1 DEF Calendar!NoDoubleBooking, Calendar!Clash
  <2>2. ASSUME NEW a \in Appt, Calendar!Vacate(a) PROVE Inv'
    BY <2>2 DEF Calendar!NoDoubleBooking, Calendar!Clash, Calendar!Vacate
  <2>3. ASSUME NEW a \in Appt, NEW place \in Calendar!Place, Calendar!Occupy(a, place)
        PROVE  Inv'
    <3>1. \A x, y : Calendar!Clash(x, y) <=> Calendar!Clash(y, x)
      BY DEF Calendar!Clash, Calendar!overlaps, overlaps
    <3>2. Held' = [Held EXCEPT ![a] = place] /\ \A b \in Appt \ {a} : ~Calendar!Clash(Held[b], place)
      BY <2>3 DEF Calendar!Occupy
    <3>3. Held' \in [Appt -> Calendar!Place \cup {NoAppt}]
      BY <3>2
    <3> QED BY <3>1, <3>2, <3>3 DEF Calendar!NoDoubleBooking
  <2> QED BY <2>1, <2>2, <2>3 DEF Calendar!Next
<1>3. Inv => Calendar!NoDoubleBooking
  OBVIOUS
<1>4. Sound /\ [Next]_vars => [Calendar!Next]_Held
  BY NextCalendar
<1> QED BY <1>1, <1>2, <1>3, <1>4, SpecSound, PTL DEF Spec

-------------------------------------------------------------------------------
(***************************************************************************)
(* The waitlist.  OldestFirst alone is not inductive: between a handler's  *)
(* choice of the oldest waiting entry and its claim, other handlers call   *)
(* and serve customers.  But entries only ever stop waiting, so the entry  *)
(* chosen stays the oldest.                                                *)
(***************************************************************************)

\* Nobody older waits than the entry a handler is about to claim.
ChosenInTurn ==
  \A r \in Actor : req[r].pc = "claim" =>
    \A v \in Waiter : v < req[r].who => wait[v] # "WAITING"

\* Two steps change waitlist entries.
LEMMA WaitStep ==
  ASSUME Sound, [Next]_vars
  PROVE  wait' = wait \/ \E r \in Actor : BookPublicAttend(r) \/ ClaimCandidate(r)
<1>1. ASSUME NEW r \in Actor, Step(r)
      PROVE  wait' = wait \/ BookPublicAttend(r) \/ ClaimCandidate(r)
  BY <1>1 DEF Step, BookPublicCheck, BookPublicInsert, Announce, CreatePixCharge,
       StillPending, InsertCharge, ChargeError, RefuseDeposit, ConfirmByTokenWrite,
       CancelByTokenWrite, UpdateStatusWrite, RescheduleByTokenCheck, RescheduleByTokenWrite,
       CancelPendingJobs, FindCandidate, ConfirmPaid, Thank, MarkRefunded, WebhookRelease,
       ReleaseRead, ReleaseTx, DbRejects
<1>2. CASE ~\E r \in Actor : Step(r)
  BY <1>2 DEF Next, Arrive, BookPublicRead, ConfirmByTokenRead, CancelByTokenRead,
       RescheduleByTokenRead, UpdateStatusRead, WebhookRead, Sweep, Fail, Pay, PaymentEnds,
       TimePasses, vars
<1> QED BY <1>1, <1>2

\* No entry goes back to waiting, none that booked is called, and an entry is called
\* by the handler that chose it.
LEMMA EntryStep ==
  ASSUME Sound, [Next]_vars, NEW w \in Waiter
  PROVE  \/ wait'[w] = wait[w]
         \/ wait'[w] = "BOOKED"
         \/ /\ wait[w] = "WAITING" /\ wait'[w] = "NOTIFIED"
            /\ \E r \in Actor : req[r].pc = "claim" /\ req[r].who = w
<1> USE DEF Sound, TypeOK, TablesOK
<1>1. ASSUME NEW r \in Actor, BookPublicAttend(r)
      PROVE  wait'[w] = wait[w] \/ wait'[w] = "BOOKED"
  BY <1>1 DEF BookPublicAttend
<1>2. ASSUME NEW r \in Actor, ClaimCandidate(r)
      PROVE  \/ wait'[w] = wait[w]
             \/ /\ wait[w] = "WAITING" /\ wait'[w] = "NOTIFIED"
                /\ req[r].pc = "claim" /\ req[r].who = w
  BY <1>2 DEF ClaimCandidate
<1> QED BY <1>1, <1>2, WaitStep

\* The choice is in turn when it is made, and stays so.
LEMMA TurnStep ==
  ASSUME Sound, ChosenInTurn, OldestFirst, [Next]_vars
  PROVE  ChosenInTurn' /\ OldestFirst'
<1> USE DEF Sound, TypeOK, TablesOK
<1>1. \A v \in Waiter : wait[v] # "WAITING" => wait'[v] # "WAITING"
  BY EntryStep
<1>2. ASSUME NEW q \in Actor, req'[q].pc = "claim", NEW v \in Waiter, v < req'[q].who
      PROVE  wait'[v] # "WAITING"
  <2>1. CASE req'[q] = req[q]
    BY <1>1, <1>2, <2>1 DEF ChosenInTurn
  <2>2. CASE FindCandidate(q)
    <3>1. req'[q].pc # "idle" /\ req'[q].pc # "announce"
      BY <1>2
    <3>2. ~AfterOffer(q)
      BY <3>1, WhereNext DEF AfterOffer, Reaches, Pcs, BookingTail
    <3>3. PICK w \in Waiting : /\ \A u \in Waiting : w <= u
                               /\ req' = [req EXCEPT ![q].pc = "claim", ![q].who = w]
      BY <2>2, <3>2 DEF FindCandidate
    <3>4. req'[q].who = w /\ w \in Nat /\ v \in Nat
      BY <3>3, WaiterAssumption DEF Request, Waiting
    <3>5. wait' = wait
      BY <2>2 DEF FindCandidate
    <3>6. v \notin Waiting
      BY <1>2, <3>3, <3>4
    <3> QED BY <3>5, <3>6 DEF Waiting
  <2> QED BY <1>2, <2>1, <2>2, NextActor DEF HandlerStep
<1>3. OldestFirst'
  <2> SUFFICES ASSUME NEW v \in Waiter, NEW w \in Waiter, v < w, wait'[w] = "NOTIFIED"
               PROVE  wait'[v] # "WAITING"
    BY DEF OldestFirst
  <2>1. CASE wait[w] = "NOTIFIED"
    BY <1>1, <2>1 DEF OldestFirst
  <2>2. CASE wait[w] # "NOTIFIED"
    BY <1>1, <2>2, EntryStep DEF ChosenInTurn
  <2> QED BY <2>1, <2>2
<1> QED BY <1>2, <1>3 DEF ChosenInTurn

\* However many openings are offered at once, customers are called in the order they
\* joined the waitlist, and none that has booked is called again.
THEOREM WaitlistInTurn == Spec => CalledInTurn
<1>1. Init => ChosenInTurn /\ OldestFirst
  BY IdleType DEF Init, ChosenInTurn, OldestFirst
<1>2. Sound /\ ChosenInTurn /\ OldestFirst /\ [Next]_vars => ChosenInTurn' /\ OldestFirst'
  BY TurnStep
<1>3. Sound /\ [Next]_vars => [BookedStays]_vars
  BY EntryStep DEF BookedStays
<1> QED BY <1>1, <1>2, <1>3, SpecSound, PTL DEF Spec, CalledInTurn

-------------------------------------------------------------------------------
(***************************************************************************)
(* The plan's monthly limit.  The count is taken under a professional's    *)
(* lock, so only bookings of other professionals can slip in between the   *)
(* count and the insertion: one for each of them.                          *)
(***************************************************************************)

Booked == {a \in Appt : Exists(a)}

\* The professionals for whom a counted booking is about to be inserted.
Inserting == {req[r].p : r \in {q \in Actor : req[q].pc = "insert"}}

\* The inductive invariant: the rows there are and the rows about to be.
LimitInv ==
  /\ IsFiniteSet(Booked)
  /\ Cardinality(Booked) + Cardinality(Inserting) <= MonthlyLimit + Cardinality(Pro) - 1

\* A booking that was not just counted was about to be inserted before.
LEMMA InsertingStep ==
  ASSUME Sound, [Next]_vars, ~\E r \in Actor : BookPublicCheck(r) /\ Goto(r, "insert")
  PROVE  Inserting' \subseteq Inserting
<1> SUFFICES ASSUME NEW q \in Actor, req'[q].pc = "insert" PROVE req'[q] = req[q]
  BY DEF Inserting
<1>1. ASSUME HandlerStep(q) PROVE FALSE
  <2>1. CASE BookPublicCheck(q)
    <3>1. Done(q)
      BY <2>1 DEF BookPublicCheck
    <3> QED BY <3>1, WhereNext DEF Reaches
  <2>2. CASE RescheduleByTokenCheck(q)
    <3>1. Done(q) \/ Goto(q, "moveWrite")
      BY <2>2 DEF RescheduleByTokenCheck
    <3> QED BY <3>1, WhereNext DEF Reaches, Pcs
  <2> QED BY <1>1, <2>1, <2>2 DEF HandlerStep
<1> QED BY <1>1, NextActor DEF HandlerStep

\* A row appears by the insertion of a booking, and none disappears.
LEMMA BookedStep ==
  ASSUME Sound, [Next]_vars
  PROVE  \/ Booked' = Booked
         \/ \E r \in Actor, a \in Appt : BookPublicInsert(r) /\ Booked' = Booked \cup {a}
<1> USE DEF Sound, TypeOK, TablesOK, Booked, Exists
<1>1. CASE UNCHANGED <<status, slot, pro, unchecked>>
  BY <1>1
<1>2. ASSUME NEW a \in Appt, NEW t \in Status, WriteStatus(a, t), status[a] # "NONE"
      PROVE  Booked' = Booked
  BY <1>2 DEF WriteStatus, Status
<1>3. ASSUME NEW r \in Actor, BookPublicInsert(r)
      PROVE  \E a \in Appt : Booked' = Booked \cup {a}
  <2>1. PICK a \in Appt, t \in {"PENDING_PAYMENT", "SCHEDULED"} :
          status' = [status EXCEPT ![a] = t]
    BY <1>3 DEF BookPublicInsert
  <2>2. Booked' = Booked \cup {a}
    BY <2>1
  <2> QED BY <2>2
<1>4. ASSUME NEW r \in Actor, RescheduleByTokenWrite(r) PROVE Booked' = Booked
  BY <1>4 DEF RescheduleByTokenWrite, InFlight, Fits, AtRow, Status
<1> QED BY <1>1, <1>2, <1>3, <1>4, CalendarStep

\* The insertion of a booking uses up its professional's turn.
LEMMA InsertEnds ==
  ASSUME Sound, Locked, NEW r \in Actor, BookPublicInsert(r)
  PROVE  req[r].p \in Inserting /\ Inserting' \subseteq Inserting \ {req[r].p}
<1>1. req[r].pc = "insert"
  BY DEF BookPublicInsert
<1>2. Reaches(r, "attend")
  <2>1. PICK a \in Appt : req' = [req EXCEPT ![r] = [Idle EXCEPT !.pc = "attend", !.a = a,
                                     !.who = req[r].who, !.flag = req[r].flag]]
    BY DEF BookPublicInsert
  <2> QED BY <2>1, IdleType DEF Reaches, Request, Sound, TypeOK
<1>3. ASSUME NEW q \in Actor, req'[q].pc = "insert"
      PROVE  req'[q].p \in Inserting /\ req'[q].p # req[r].p
  <2>1. q # r /\ req'[q] = req[q]
    BY <1>2, <1>3 DEF Reaches
  <2> QED BY <1>1, <1>3, <2>1 DEF Inserting, Locked
<1> QED BY <1>1, <1>3 DEF Inserting

\* Every step keeps the month's bookings within the limit and one per other professional.
LEMMA LimitStep ==
  ASSUME IsFiniteSet(Pro), Sound, Locked, LimitInv, [Next]_vars
  PROVE  LimitInv'
<1>1. Inserting \subseteq Pro /\ IsFiniteSet(Inserting) /\ Cardinality(Inserting) \in Nat
  <2>1. Inserting \subseteq Pro
    BY DEF Inserting, Request, Sound, TypeOK
  <2> QED BY <2>1, FS_Subset, FS_CardinalityType
<1>2. Cardinality(Inserting') <= Cardinality(Pro) /\ IsFiniteSet(Inserting')
        /\ Cardinality(Inserting') \in Nat
  <2>1. Inserting' \subseteq Pro
    BY NextSound DEF Inserting, Request, Sound, TypeOK
  <2> QED BY <2>1, FS_Subset, FS_CardinalityType
<1>3. Cardinality(Pro) \in Nat /\ Cardinality(Booked) \in Nat /\ MonthlyLimit \in Nat
  BY FS_CardinalityType, LimitAssumption DEF LimitInv
<1>4. ASSUME NEW r \in Actor, BookPublicCheck(r), Goto(r, "insert") PROVE LimitInv'
  <2>1. Cardinality(Booked) < MonthlyLimit
    <3>1. ~Done(r)
      BY <1>4, WhereNext DEF Reaches, Pcs
    <3>2. ~(Cardinality({a \in Appt : Exists(a)}) >= MonthlyLimit)
      BY <1>4, <3>1 DEF BookPublicCheck
    <3> QED BY <1>3, <3>2 DEF Booked
  <2>2. Booked' = Booked
    BY <1>4 DEF BookPublicCheck, calendarVars, Booked, Exists
  <2> QED BY <1>2, <1>3, <2>1, <2>2 DEF LimitInv
<1>5. CASE /\ ~\E r \in Actor : BookPublicCheck(r) /\ Goto(r, "insert")
           /\ Booked' = Booked
  <2>1. Cardinality(Inserting') <= Cardinality(Inserting)
    BY <1>1, <1>5, InsertingStep, FS_Subset
  <2> QED BY <1>1, <1>2, <1>3, <1>5, <2>1 DEF LimitInv
<1>6. ASSUME NEW r \in Actor, NEW a \in Appt, BookPublicInsert(r), Booked' = Booked \cup {a}
      PROVE  LimitInv'
  <2>1. IsFiniteSet(Booked') /\ Cardinality(Booked') \in Nat
          /\ Cardinality(Booked') <= Cardinality(Booked) + 1
    <3>1. /\ IsFiniteSet(Booked \cup {a})
          /\ Cardinality(Booked \cup {a}) \in {Cardinality(Booked), Cardinality(Booked) + 1}
      BY FS_AddElement DEF LimitInv
    <3>2. IsFiniteSet(Booked') /\ Cardinality(Booked') \in {Cardinality(Booked), Cardinality(Booked) + 1}
      BY <1>6, <3>1
    <3> QED BY <1>3, <3>2
  <2>2. Cardinality(Inserting') <= Cardinality(Inserting) - 1
    <3>1. /\ IsFiniteSet(Inserting \ {req[r].p})
          /\ Cardinality(Inserting \ {req[r].p}) = Cardinality(Inserting) - 1
      BY <1>1, <1>6, InsertEnds, FS_RemoveElement
    <3>2. Cardinality(Inserting') <= Cardinality(Inserting \ {req[r].p})
      BY <1>6, <3>1, InsertEnds, FS_Subset
    <3> QED BY <3>1, <3>2
  <2> QED BY <1>1, <1>2, <1>3, <2>1, <2>2 DEF LimitInv
<1> QED BY <1>4, <1>5, <1>6, BookedStep

\* A tenant with n professionals never takes more than n - 1 bookings beyond its
\* plan's monthly limit, however many customers book at once.
THEOREM LimitOvershoot ==
  ASSUME IsFiniteSet(Pro)
  PROVE  Spec => [](Cardinality(Booked) <= MonthlyLimit + Cardinality(Pro) - 1)
<1>1. Init => Locked /\ LimitInv
  <2> SUFFICES ASSUME Init PROVE Locked /\ LimitInv
    OBVIOUS
  <2>1. Booked = {} /\ Inserting = {} /\ Locked
    BY IdleType DEF Init, Booked, Exists, Inserting, Locked
  <2>2. Pro # {} /\ Cardinality(Pro) \in Nat
    BY ProAssumption, FS_CardinalityType
  <2>3. Cardinality(Pro) # 0
    BY <2>2, FS_EmptySet
  <2> QED BY <2>1, <2>2, <2>3, FS_EmptySet, LimitAssumption DEF LimitInv
<1>2. Sound /\ Locked /\ LimitInv /\ [Next]_vars => Locked' /\ LimitInv'
  BY LockedKept, LimitStep
<1>3. Sound /\ LimitInv => Cardinality(Booked) <= MonthlyLimit + Cardinality(Pro) - 1
  <2> SUFFICES ASSUME Sound, LimitInv
               PROVE  Cardinality(Booked) <= MonthlyLimit + Cardinality(Pro) - 1
    OBVIOUS
  <2>1. Inserting \subseteq Pro
    BY DEF Inserting, Request, Sound, TypeOK
  <2>2. Cardinality(Inserting) \in Nat /\ Cardinality(Booked) \in Nat /\ Cardinality(Pro) \in Nat
    BY <2>1, FS_Subset, FS_CardinalityType DEF LimitInv
  <2> QED BY <2>2, LimitAssumption DEF LimitInv
<1> QED BY <1>1, <1>2, <1>3, SpecSound, PTL DEF Spec

\* So a tenant with one professional stays within the limit.
THEOREM LimitOfOne ==
  ASSUME NEW p, Pro = {p}
  PROVE  Spec => []WithinMonthlyLimit
<1>1. IsFiniteSet(Pro) /\ Cardinality(Pro) = 1
  BY FS_Singleton
<1>2. Spec => [](Cardinality(Booked) <= MonthlyLimit + Cardinality(Pro) - 1)
  BY <1>1, LimitOvershoot
<1>3. Cardinality(Booked) <= MonthlyLimit + Cardinality(Pro) - 1 => WithinMonthlyLimit
  BY <1>1, LimitAssumption DEF WithinMonthlyLimit, Booked
<1> QED BY <1>2, <1>3, PTL
===============================================================================
