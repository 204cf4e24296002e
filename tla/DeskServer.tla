------------------------------- MODULE DeskServer -------------------------------
(***************************************************************************)
(* What the API answers to the pages of the desk and to the manage link:   *)
(* appointments, client records (metrics, segments), reviews, settings.    *)
(*                                                                         *)
(* A request travels, is served, and its answer travels back: calls holds  *)
(* the requests whose answer the page has not taken yet.  A request of a   *)
(* page overtakes another of the same page only where limits.reorder says  *)
(* so.  A handler that checks an appointment and then writes it by its id  *)
(* takes two steps, and others may write the row in between; the settings  *)
(* are written and then read again; the others are served in one step      *)
(* (Appointments has every statement of those that write the agenda).      *)
(*                                                                         *)
(* Left out: names, phones and texts.  A search is the set of clients it   *)
(* matches, a note or a tag the client it speaks of, a slot the tick at    *)
(* which it starts.  Rows with equal sort keys come in any order.          *)
(***************************************************************************)
EXTENDS Integers, FiniteSets, Sequences, SequencesExt, FiniteSetsExt, AppointmentState

CONSTANTS
  Visit,          \* rows of the appointments table
  Mine,           \* the one whose manage link is open
  Client,
  Pro, Owner,     \* users: the owner and the members
  DAY,            \* ticks of a day
  CANCEL_MIN,     \* tenant.cancelMinHours, in ticks
  PAGE_SIZE,
  AT_RISK_DAYS, INACTIVE_DAYS, LOST_DAYS,  \* 30, 60 and 90 in the code
  VIP_MIN_VISITS, VIP_MIN_SPENT_CENTS, FREQUENT_MIN_VISITS,
  Limits,
  Nothing, NoTime

ASSUME DeskAssumption ==
  /\ Mine \in Visit /\ Owner \in Pro /\ DAY \in Nat \ {0} /\ PAGE_SIZE \in Nat \ {0}
  /\ CANCEL_MIN \in Nat
  /\ AT_RISK_DAYS \in Nat /\ INACTIVE_DAYS \in Nat /\ AT_RISK_DAYS < INACTIVE_DAYS
  /\ IsFiniteSet(Visit) /\ IsFiniteSet(Client) /\ IsFiniteSet(Pro)
  /\ Nothing \notin Visit /\ Nothing \notin Client /\ NoTime \notin Nat

VisitRow == [client : Client, pro : Pro, at : Nat, status : Status, price : Nat,
             review : {"none", "shown", "hidden"}, ver : Nat, undone : BOOLEAN]
Decision == [id : Visit, status : Status, at : Nat \cup {NoTime}]
Card == [notes : Client \cup {Nothing}, tags : Client \cup {Nothing}, consent : BOOLEAN]
Forms == {"profile", "booking", "loyalty"}

\* An instance: who looks at which pages of what shop, and what may happen.
ASSUME LimitsAssumption ==
  \A l \in Limits :
    /\ l.actor \in Pro /\ l.reorder \in BOOLEAN
    /\ {l.now, l.until, l.clicks, l.outside, l.faults, l.today} \subseteq Nat
    /\ l.visits \in [Visit -> VisitRow] /\ l.cards \in [Client -> Card]
    /\ l.tenant \in [Forms -> Nat] /\ l.created \in [Client -> Nat]
    /\ l.days \subseteq Nat /\ l.statuses \subseteq Status /\ l.values \subseteq Nat
    /\ \A c \in Client : {l.cards[c].notes, l.cards[c].tags} \subseteq {c, Nothing}

VARIABLES
  limits,   \* the instance explored, chosen at the start
  now,
  visit,    \* appointments and their reviews; history: ver counts a row's changes,
            \* undone says that a write took it out of COMPLETED or NO_SHOW
  decided,  \* writes that handlers elsewhere have checked and not made yet
  card,     \* clients: notes, tags, marketingOptIn
  tenant,   \* the settings of the three forms
  calls,
  faults, clicks, outside   \* lost answers, clicks, changes made elsewhere so far

tables == <<now, visit, decided, card, tenant>>
counters == <<faults, clicks, outside>>
serverVars == <<limits, tables, calls, counters>>

isOpen(page) == page \in limits.pages

Call(from, kind, arg, then) ==
  [from |-> from, kind |-> kind, arg |-> arg, then |-> then, pc |-> "sent", res |-> Nothing]

Ok(v) == [ok |-> TRUE, code |-> 200, val |-> v]
Error(n) == [ok |-> FALSE, code |-> n, val |-> Nothing]

Before(i) == {j \in 1..(i - 1) : calls[j].from = calls[i].from}
Served(i) == limits.reorder \/ \A j \in Before(i) : calls[j].pc = "done"
Is(i, kind) == calls[i].kind = kind /\ calls[i].pc = "sent" /\ Served(i)
Reply(i, r) == calls' = [calls EXCEPT ![i].pc = "done", ![i].res = r]
Read(i, kind, val) ==
  Is(i, kind) /\ Reply(i, Ok(val)) /\ UNCHANGED <<limits, tables, counters>>

\* The page takes the answer of call i.
Answers(i, page, kind) ==
  /\ calls[i].from = page /\ calls[i].kind = kind /\ calls[i].pc = "done"
  /\ limits.reorder \/ Before(i) = {}
  /\ UNCHANGED <<limits, tables, counters>>
Others(i) == RemoveAt(calls, i)
inFlight(kind) == \E i \in DOMAIN calls : calls[i].kind = kind
Quiet(page) == \A i \in DOMAIN calls : calls[i].from # page

Click == clicks < limits.clicks /\ clicks' = clicks + 1 /\ UNCHANGED <<limits, tables, faults, outside>>
Fault == faults < limits.faults /\ faults' = faults + 1 /\ UNCHANGED <<limits, tables, clicks, outside>>

\* The request never arrives, or its answer does not.
Lose(i) == calls[i].pc = "sent" /\ Fault /\ Reply(i, Error(0))
LoseAnswer(i) == calls[i].pc = "done" /\ calls[i].res.ok /\ Fault /\ Reply(i, Error(0))

--------------------------------------------------------------------------------
(* The manage link.                                                        *)

Ended == {"COMPLETED", "NO_SHOW"}
Moved(v, row) == <<row.status, row.at>> # <<visit[v].status, visit[v].at>>
Write(v, row) ==
  visit' = [visit EXCEPT ![v] = [row EXCEPT
    !.ver = visit[v].ver + 1,
    !.undone = visit[v].undone \/ (visit[v].status \in Ended /\ Moved(v, row))]]
Refuse(i, n) == Reply(i, Error(n)) /\ UNCHANGED visit

quietTables == UNCHANGED <<limits, now, decided, card, tenant, counters>>

\* The handler has found its write admissible, and goes on with the status it read.
Decide(i, v) ==
  calls' = [calls EXCEPT ![i].pc = "read", ![i].res = visit[v].status] /\ UNCHANGED visit

\* The database's constraint: no two active rows of a professional at one time.
DbAccepts(v, row) ==
  row.status \in ACTIVE_APPOINTMENT_STATUSES =>
    \A u \in Visit \ {v} : visit[u].pro = row.pro /\ visit[u].at = row.at
                            => visit[u].status \notin ACTIVE_APPOINTMENT_STATUSES

\* Its write, whatever the row holds by now; n answers a violated constraint.
ById(i, kind, v, row, n, val) ==
  /\ calls[i].kind = kind /\ calls[i].pc = "read" /\ Served(i) /\ quietTables
  /\ IF DbAccepts(v, row) THEN Write(v, row) /\ Reply(i, Ok(val)) ELSE Refuse(i, n)

managed(v) ==
  LET a == visit[v]
  IN [at |-> a.at, status |-> a.status, review |-> a.review,
      canCancel |-> isCancellableStatus(a.status) /\ now < a.at - CANCEL_MIN,
      canReview |-> a.status = "COMPLETED" /\ a.review = "none"]

getByManageToken(i) == Read(i, "get", managed(Mine))

\* As computeSlotsFor sees it, where the appointment to be moved counts too.
isFree(v, d) ==
  /\ d > now
  /\ \A u \in Visit : visit[u].pro = visit[v].pro /\ visit[u].at = d
                        => visit[u].status \notin ACTIVE_APPOINTMENT_STATUSES

\* An empty date is no date.
getPublicSlots(i) ==
  \/ calls[i].arg # NoTime /\ Read(i, "slots", IF isFree(Mine, calls[i].arg) THEN {calls[i].arg} ELSE {})
  \/ /\ calls[i].arg = NoTime /\ Is(i, "slots")
     /\ Reply(i, Error(500)) /\ UNCHANGED <<limits, tables, counters>>

confirmByToken(i) ==
  LET a == visit[Mine]
  IN /\ Is(i, "confirm") /\ quietTables
     /\ IF a.status = "CONFIRMED" THEN Reply(i, Ok([at |-> a.at])) /\ UNCHANGED visit
        ELSE IF a.status # "PENDING_PAYMENT" /\ canTransition(a.status, "CONFIRMED")
        THEN Decide(i, Mine) ELSE Refuse(i, 400)
confirmWrite(i) ==
  ById(i, "confirm", Mine, [visit[Mine] EXCEPT !.status = "CONFIRMED"], 500, [at |-> visit[Mine].at])

cancelByToken(i) ==
  LET a == visit[Mine]
  IN /\ Is(i, "cancel") /\ quietTables
     /\ IF isCancellableStatus(a.status) /\ a.at - now >= CANCEL_MIN
        THEN Decide(i, Mine) ELSE Refuse(i, 400)
cancelWrite(i) ==
  ById(i, "cancel", Mine, [visit[Mine] EXCEPT !.status = "CANCELLED"], 500, Nothing)

rescheduleByToken(i) ==
  LET a == visit[Mine]
      to == calls[i].arg.to
  IN /\ Is(i, "reschedule") /\ quietTables
     /\ IF ~isCancellableStatus(a.status) \/ a.at - now < CANCEL_MIN \/ to < now THEN Refuse(i, 400)
        ELSE IF ~isFree(Mine, to) THEN Refuse(i, 409)
        ELSE Decide(i, Mine)
afterMove(read) == IF read = "PENDING_PAYMENT" THEN read ELSE "SCHEDULED"
rescheduleWrite(i) ==
  ById(i, "reschedule", Mine,
       [visit[Mine] EXCEPT !.at = calls[i].arg.to, !.status = afterMove(calls[i].res)], 409, Nothing)

reviewByToken(i) ==
  LET a == visit[Mine]
  IN /\ Is(i, "review") /\ quietTables
     /\ IF a.status # "COMPLETED" THEN Refuse(i, 400)
        ELSE IF a.review # "none" THEN Refuse(i, 409)
        ELSE Decide(i, Mine)
\* A second review of an appointment violates the constraint of its table.
reviewWrite(i) ==
  /\ calls[i].kind = "review" /\ calls[i].pc = "read" /\ Served(i) /\ quietTables
  /\ IF visit[Mine].review # "none" THEN Refuse(i, 500)
     ELSE Write(Mine, [visit[Mine] EXCEPT !.review = "shown"]) /\ Reply(i, Ok(Nothing))

--------------------------------------------------------------------------------
(* Appointments and reviews at the desk.                                   *)

\* Page p of the sequence.
Page(s, p) == SubSeq(s, (p - 1) * PAGE_SIZE + 1, Min({p * PAGE_SIZE, Len(s)}))

isMember == limits.actor # Owner

agendaWhere(q) ==
  {v \in Visit : /\ visit[v].at \in q.from..q.to
                 /\ IF isMember THEN visit[v].pro = limits.actor
                    ELSE q.pro # Nothing => visit[v].pro = q.pro}

byStart(V) ==
  {s \in SetToSeqs(V) : \A m, n \in DOMAIN s : m < n => visit[s[m]].at <= visit[s[n]].at}

listAppointments(i) ==
  LET c == calls[i].arg
      row(v) == [id |-> v, status |-> visit[v].status, at |-> visit[v].at,
                 pro |-> visit[v].pro, ver |-> visit[v].ver]
  IN Is(i, "agenda") /\ \E all \in byStart(agendaWhere(c.q)) :
       Read(i, "agenda", [items |-> [n \in DOMAIN Page(all, c.page) |-> row(Page(all, c.page)[n])],
                          total |-> Len(all)])

UPCOMING_STATUSES == ACTIVE_APPOINTMENT_STATUSES
hasUpcoming(c, but) ==
  \E u \in Visit \ {but} : /\ visit[u].client = c /\ visit[u].at > now
                           /\ visit[u].status \in UPCOMING_STATUSES

updateStatus(i) ==
  LET a == visit[calls[i].arg.id]
  IN /\ Is(i, "status") /\ quietTables
     /\ IF (isMember /\ a.pro # limits.actor) \/ ~canTransition(a.status, calls[i].arg.to)
        THEN Refuse(i, 400) ELSE Decide(i, calls[i].arg.id)
statusWrite(i) ==
  LET v == calls[i].arg.id
      to == calls[i].arg.to
  IN ById(i, "status", v, [visit[v] EXCEPT !.status = to], 500,
          [ver |-> visit[v].ver + 1,
           rebookingSuggested |-> /\ to = "COMPLETED" /\ calls[i].res # "COMPLETED"
                                  /\ ~hasUpcoming(visit[v].client, v)])

listReviews(i) ==
  Read(i, "reviews", [v \in {u \in Visit : visit[u].review # "none"} |-> visit[v].review])

updateReview(i) ==
  LET c == calls[i].arg
  IN /\ Is(i, "publish") /\ quietTables
     /\ Write(c.id, [visit[c.id] EXCEPT !.review = c.to]) /\ Reply(i, Ok(Nothing))

--------------------------------------------------------------------------------
(* Client records.                                                         *)

ofClient(c, S) == {v \in Visit : visit[v].client = c /\ visit[v].status \in S}
Times(V) == {visit[v].at : v \in V}
Spent(V) == MapThenSumSet(LAMBDA v : visit[v].price, V)

loadClientMetrics(c) ==
  LET done == ofClient(c, {"COMPLETED"})
      next == {v \in ofClient(c, UPCOMING_STATUSES) : visit[v].at > now}
  IN [completedCount |-> Cardinality(done),
      cancelledCount |-> Cardinality(ofClient(c, {"CANCELLED"})),
      noShowCount |-> Cardinality(ofClient(c, {"NO_SHOW"})),
      totalSpentCents |-> Spent(done),
      lastVisit |-> IF done = {} THEN NoTime ELSE Max(Times(done)),
      nextAppointmentAt |-> IF next = {} THEN NoTime ELSE Min(Times(next))]

createdAt(c) == limits.created[c]
daysSince(t) == (now - t) \div DAY

inactiveBucket(last) ==
  IF last = NoTime \/ daysSince(last) < AT_RISK_DAYS THEN 0
  ELSE Max({n \in {AT_RISK_DAYS, INACTIVE_DAYS, LOST_DAYS} : n <= daysSince(last)})

\* Mutant: a visit is old only after the day is over.
resolveClientSegment_Late(c) ==
  LET m == loadClientMetrics(c)
  IN IF m.completedCount = 0 THEN IF daysSince(createdAt(c)) >= INACTIVE_DAYS THEN "inactive" ELSE "new"
     ELSE IF daysSince(m.lastVisit) > INACTIVE_DAYS THEN "inactive"
     ELSE IF daysSince(m.lastVisit) > AT_RISK_DAYS THEN "at_risk"
     ELSE IF m.completedCount >= VIP_MIN_VISITS \/ m.totalSpentCents >= VIP_MIN_SPENT_CENTS THEN "vip"
     ELSE IF m.completedCount >= FREQUENT_MIN_VISITS THEN "frequent" ELSE "new"

\* The label shown, from whole days.
resolveClientSegment(c) ==
  LET m == loadClientMetrics(c)
  IN IF m.completedCount = 0 THEN IF daysSince(createdAt(c)) >= INACTIVE_DAYS THEN "inactive" ELSE "new"
     ELSE IF daysSince(m.lastVisit) >= INACTIVE_DAYS THEN "inactive"
     ELSE IF daysSince(m.lastVisit) >= AT_RISK_DAYS THEN "at_risk"
     ELSE IF m.completedCount >= VIP_MIN_VISITS \/ m.totalSpentCents >= VIP_MIN_SPENT_CENTS THEN "vip"
     ELSE IF /\ m.completedCount >= FREQUENT_MIN_VISITS
             /\ daysSince(m.lastVisit) < AT_RISK_DAYS THEN "frequent"
     ELSE "new"

cutoff(days) == now - days * DAY

\* The filter's CASE in SQL, from instants.
rankedSegment(c) ==
  LET m == loadClientMetrics(c)
      old(t, days) == t <= cutoff(days)
  IN CASE m.completedCount = 0 -> IF old(createdAt(c), INACTIVE_DAYS) THEN "inactive" ELSE "new"
       [] m.completedCount > 0 /\ old(m.lastVisit, INACTIVE_DAYS) -> "inactive"
       [] m.completedCount > 0 /\ ~old(m.lastVisit, INACTIVE_DAYS)
            /\ old(m.lastVisit, AT_RISK_DAYS) -> "at_risk"
       [] OTHER -> IF m.completedCount >= VIP_MIN_VISITS \/ m.totalSpentCents >= VIP_MIN_SPENT_CENTS
                   THEN "vip"
                   ELSE IF m.completedCount >= FREQUENT_MIN_VISITS THEN "frequent" ELSE "new"

resolveInactiveClientIds(days) ==
  {c \in Client : LET last == loadClientMetrics(c).lastVisit
                  IN (IF last = NoTime THEN createdAt(c) ELSE last) < cutoff(days)}

findClientIdsBySegment(s, ids) == {c \in ids : rankedSegment(c) = s}

scope ==
  IF isMember THEN {visit[v].client : v \in {u \in Visit : visit[u].pro = limits.actor}} ELSE Client

\* With a segment the member's scope is not applied.
clientsWhere(q) ==
  LET inactive == IF q.inactive = 0 THEN Client ELSE resolveInactiveClientIds(q.inactive)
  IN IF q.segment = "" THEN scope \cap q.search \cap inactive
     ELSE findClientIdsBySegment(q.segment, q.search \cap inactive)

byNewest(C) ==
  {s \in SetToSeqs(C) : \A m, n \in DOMAIN s : m < n => createdAt(s[m]) >= createdAt(s[n])}

listClients(i) ==
  LET c == calls[i].arg
      row(x) == [id |-> x, bucket |-> inactiveBucket(loadClientMetrics(x).lastVisit),
                 segment |-> IF c.q.segment = "" THEN resolveClientSegment(x) ELSE c.q.segment]
  IN Is(i, "list") /\ \E all \in byNewest(clientsWhere(c.q)) :
       Read(i, "list", [items |-> [n \in DOMAIN Page(all, c.page) |-> row(Page(all, c.page)[n])],
                        total |-> Len(all)])

clientDetail(i) ==
  LET c == calls[i].arg
      m == loadClientMetrics(c)
  IN IF c \notin scope
     THEN Is(i, "card") /\ Reply(i, Error(404)) /\ UNCHANGED <<limits, tables, counters>>
     ELSE Read(i, "card", [of |-> c, notes |-> card[c].notes, tags |-> card[c].tags,
                           consent |-> card[c].consent, segment |-> resolveClientSegment(c),
                           suggestRebooking |-> m.completedCount > 0 /\ m.nextAppointmentAt = NoTime])

WriteCard(i, kind, c, row) ==
  /\ Is(i, kind) /\ card' = [card EXCEPT ![c] = row] /\ Reply(i, Ok(Nothing))
  /\ UNCHANGED <<limits, now, visit, decided, tenant, counters>>

updateNotes(i) ==
  LET c == calls[i].arg.id IN WriteCard(i, "notes", c, [card[c] EXCEPT !.notes = calls[i].arg.text])
updateMarketingConsent(i) ==
  LET c == calls[i].arg.id IN WriteCard(i, "consent", c, [card[c] EXCEPT !.consent = calls[i].arg.to])
updateProfile(i) ==
  LET c == calls[i].arg.id IN WriteCard(i, "profile", c, [card[c] EXCEPT !.tags = calls[i].arg.tags])

--------------------------------------------------------------------------------
(* Settings: the tenant row is written, then read for the answer.          *)

getSettings(i) ==
  /\ calls[i].kind \in {"settings", "save"} /\ Served(i)
  /\ calls[i].pc = (IF calls[i].kind = "settings" THEN "sent" ELSE "written")
  /\ Reply(i, Ok(tenant)) /\ UNCHANGED <<limits, tables, counters>>

updateSettings(i) ==
  LET c == calls[i].arg
  IN /\ Is(i, "save") /\ UNCHANGED <<limits, now, visit, decided, card, counters>>
     /\ IF c.refused THEN Reply(i, Error(400)) /\ UNCHANGED tenant
        ELSE /\ tenant' = IF c.skipped THEN tenant ELSE [tenant EXCEPT ![c.form] = c.value]
             /\ calls' = [calls EXCEPT ![i].pc = "written"]

Serve(i) ==
  \/ getByManageToken(i) \/ getPublicSlots(i) \/ confirmByToken(i) \/ cancelByToken(i)
  \/ rescheduleByToken(i) \/ reviewByToken(i)
  \/ confirmWrite(i) \/ cancelWrite(i) \/ rescheduleWrite(i) \/ reviewWrite(i) \/ statusWrite(i)
  \/ listAppointments(i) \/ updateStatus(i) \/ listReviews(i) \/ updateReview(i)
  \/ listClients(i) \/ clientDetail(i) \/ updateNotes(i) \/ updateMarketingConsent(i) \/ updateProfile(i)
  \/ getSettings(i) \/ updateSettings(i)

--------------------------------------------------------------------------------
(* Elsewhere: another member of the staff, another customer, the clock.    *)

Elsewhere == outside < limits.outside /\ outside' = outside + 1
             /\ UNCHANGED <<limits, now, visit, card, tenant, calls, faults, clicks>>
WillWrite(v, status, at) == decided' = decided \cup {[id |-> v, status |-> status, at |-> at]}

StaffElsewhere(v, to) ==
  /\ Elsewhere /\ visit[v].status # to /\ canTransition(visit[v].status, to)
  /\ WillWrite(v, to, NoTime)

CustomerElsewhere(v, d) ==
  /\ Elsewhere /\ v # Mine /\ isCancellableStatus(visit[v].status) /\ isFree(v, d)
  /\ WillWrite(v, afterMove(visit[v].status), d)

WriteElsewhere(x) ==
  LET row == [visit[x.id] EXCEPT !.status = x.status, !.at = IF x.at = NoTime THEN @ ELSE x.at]
  IN /\ decided' = decided \ {x} /\ UNCHANGED <<limits, now, card, tenant, calls, counters>>
     /\ IF DbAccepts(x.id, row) THEN Write(x.id, row) ELSE UNCHANGED visit

TimePasses ==
  /\ now < limits.until /\ now' = now + 1
  /\ UNCHANGED <<limits, visit, decided, card, tenant, calls, counters>>
================================================================================
