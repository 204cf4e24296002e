---------------------------------- MODULE Desk ----------------------------------
(***************************************************************************)
(* The pages of the desk and a customer's manage page over one database.   *)
(***************************************************************************)
EXTENDS ManagePage, AgendaPage, ClientsPage, SettingsPage, ReportsPage

pages == <<mp, ag, rv, cp, sp, rp>>
vars == <<serverVars, pages>>

Init ==
  /\ limits \in Limits
  /\ now = limits.now /\ visit = limits.visits /\ decided = {} /\ card = limits.cards /\ tenant = limits.tenant
  /\ faults = 0 /\ clicks = 0 /\ outside = 0
  /\ ManageInit /\ AgendaInit /\ ClientsInit /\ SettingsInit /\ ReportInit
  /\ calls = ManageStart \o AgendaStart \o ClientsStart \o SettingsStart

Manage == isOpen("manage") /\ UNCHANGED <<ag, rv, cp, sp, rp>>
Agenda == (isOpen("agenda") \/ isOpen("reviews")) /\ UNCHANGED <<mp, cp, sp, rp>>
Clients == isOpen("clients") /\ UNCHANGED <<mp, ag, rv, sp, rp>>
Settings == isOpen("settings") /\ UNCHANGED <<mp, ag, rv, cp, rp>>
Report == isOpen("report") /\ UNCHANGED <<mp, ag, rv, cp, sp>>

User ==
  \/ Manage /\ ManageClicks
  \/ Agenda /\ AgendaClicks
  \/ Clients /\ ClientsClicks
  \/ Settings /\ SettingsClicks
  \/ Report /\ loadReport

Answer ==
  \E i \in DOMAIN calls :
    \/ Manage /\ ManageReply(i)
    \/ Agenda /\ AgendaPageReply(i)
    \/ Clients /\ ClientsReply(i)
    \/ Settings /\ SettingsPageReply(i)

Server == UNCHANGED pages /\ \E i \in DOMAIN calls : Serve(i)
Timer == Clients /\ Debounce
Queries == Report /\ \E q \in rp.want : RunQuery(q)

World ==
  /\ UNCHANGED pages
  /\ \/ \E i \in DOMAIN calls : Lose(i) \/ LoseAnswer(i)
     \/ \E v \in Visit, to \in limits.statuses : StaffElsewhere(v, to)
     \/ \E v \in Visit, d \in limits.days : CustomerElsewhere(v, d)
     \/ \E x \in decided : WriteElsewhere(x)
     \/ TimePasses

System == Answer \/ Server \/ Timer \/ Queries
Next == User \/ System \/ World
Spec == Init /\ [][Next]_vars

\* The network and the API answer, the page's timer fires; people need not act.
FairSpec == Spec /\ WF_vars(System)

--------------------------------------------------------------------------------

\* Rows, cards, settings and the pages' own state hold what their columns may.
TypeOK ==
  /\ limits \in Limits /\ now \in Nat /\ {faults, clicks, outside} \subseteq Nat
  /\ visit \in [Visit -> VisitRow] /\ decided \subseteq Decision /\ card \in [Client -> Card]
  /\ tenant \in [Forms -> Nat]
  /\ \A i \in DOMAIN calls : calls[i].pc \in {"sent", "read", "written", "done"}
  /\ mp.phase \in {"loading", "ready", "lost"} /\ mp.open \in {"", "cancel", "reschedule"}
  /\ mp.busy \in {"", "confirm", "cancel", "reschedule", "review"}
  /\ ag.updating \in Visit \cup {Nothing} /\ ag.hint \in Visit \cup {Nothing} /\ ag.page \in Nat \ {0}
  /\ cp.selected \in Client \cup {Nothing} /\ cp.saving \subseteq {"notes", "consent", "profile"}
  /\ sp.saving \subseteq Forms /\ sp.typed \subseteq Forms

\* A customer moves the appointment to the date her form shows, whatever is lost or
\* late, unless she has emptied the field, which leaves the former date's times on
\* the page, or chose that date while a list of times or a move was on its way; and
\* while no answer is lost, a presence is confirmed for the time shown, after any
\* number of moves (agendamento/[token]/page.tsx:174-265).
ActsOnWhatIsShown ==
  /\ \A i \in DOMAIN calls : calls[i].kind = "reschedule" =>
       LET move == calls[i].arg
       IN move.to = move.shown \/ move.shown = NoTime \/ move.hurried
  /\ faults = 0 => \A i \in DOMAIN calls :
       calls[i].kind = "confirm" /\ calls[i].pc = "done" /\ calls[i].res.ok
         => calls[i].res.val.at = calls[i].arg.at

\* A list at rest is that of the filters above it, however fast they were changed:
\* the agenda with no error shown, unless the filter was changed while a status
\* change was on its way (appointments/page.tsx:256-325); the clients when answers
\* come in order and the last is not a failure (clients/page.tsx:97-124).
ListsAreOfFilters ==
  /\ isOpen("agenda") /\ Quiet("agenda") /\ ~ag.error /\ ~ag.crossed => ag.of = Query(ag)
  /\ isOpen("clients") /\ Quiet("clients") /\ ~cp.failed /\ ~limits.reorder => cp.of = ListQuery(cp)

\* What a page shows at rest is what is stored, answers in order: its own status
\* changes in the agenda (appointments/page.tsx:300-325); and, while none is lost,
\* a review's publication, unless one was toggled twice at once
\* (reviews/page.tsx:33-52), the consent on a card, unless consent and profile were
\* saved at once (clients/page.tsx:165-220), an untouched form, also after a value
\* the save left out, replaced or had refused (settings/page.tsx:57-163).
ShownIsStored ==
  /\ Quiet("agenda") /\ ~ag.error /\ ~limits.reorder =>
       \A n \in DOMAIN ag.items : ag.items[n].ver >= ag.acked[ag.items[n].id]
  /\ isOpen("reviews") /\ Quiet("reviews") /\ ~rv.doubled /\ faults = 0 =>
       \A v \in DOMAIN rv.list : rv.list[v] = visit[v].review
  /\ cardShown /\ Quiet("clients") /\ faults = 0 /\ ~limits.reorder /\ ~cp.mixed /\ ~cp.overlapped
       => cp.detail.consent = card[cp.selected].consent
  /\ formShown /\ Quiet("settings") /\ faults = 0 /\ ~limits.reorder =>
       \A f \in Forms \ sp.typed : sp.form[f] = tenant[f]

\* What is kept in a client's record was written about that client, unless an
\* answer of one card was applied to another's (clients/page.tsx:126-220).
NotesStayWithClient ==
  cp.mixed \/ \A c \in Client : {card[c].notes, card[c].tags} \subseteq {c, Nothing}

\* The label computed for the list and the CASE that filters it agree on every
\* client at every moment (client-segment.ts:49-71, clients.service.ts:400-420).
SegmentsAgree == \A c \in Client : resolveClientSegment(c) = rankedSegment(c)

\* Although its queries see different moments, the figures of a report, in total and
\* by professional, are at least those of the visits completed when it was asked for
\* and at most those of the visits completed when it is read, and no visit is counted
\* as completed and as missed (reports.service.ts:29-68); all that but for the visits
\* that a handler which had read them before they ended wrote by id afterwards
\* (appointment-lifecycle.service.ts:135-142, manage-appointment.service.ts:115-143),
\* each of which may be missing or be counted twice.
ReportWithinBounds ==
  summaryReady =>
    LET undone == {v \in Visit : visit[v].undone}
        least == rp.since \ undone
        most == within({"COMPLETED"}) \cup undone
    IN /\ rp.totals.completed \in Cardinality(least)..Cardinality(most)
       /\ {rp.totals.revenue, MapThenSumSet(LAMBDA p : rp.byPro[p], Pro)} \subseteq Spent(least)..Spent(most)
       /\ rp.totals.completed + rp.noShow <= Cardinality(inPeriod \cup undone) + Cardinality(undone)

\* What a page shows as under way is on its way: a button is busy, a list or a card
\* is loading, only while a request about that very change, query, client, review
\* or form has not been answered yet (agendamento page.tsx:148-290, appointments
\* page.tsx:256-325, reviews page.tsx:20-52, clients page.tsx:97-220, settings
\* page.tsx:57-163).
BusyAwaits ==
  /\ isOpen("manage") /\ mp.phase = "loading" => inFlight("get")
  /\ mp.busy # "" => \E i \in DOMAIN calls :
       /\ calls[i].from = "manage"
       /\ mp.busy = IF calls[i].kind \in {"get", "slots"} THEN calls[i].then ELSE calls[i].kind
  /\ mp.slotsLoading => inFlight("slots")
  /\ ag.loading => \E i \in DOMAIN calls :
       calls[i].kind = "agenda" /\ calls[i].then = "effect" /\ calls[i].arg = Query(ag)
  /\ ag.updating # Nothing => \E i \in DOMAIN calls :
       \/ calls[i].kind = "status" /\ calls[i].arg.id = ag.updating
       \/ calls[i].kind = "agenda" /\ calls[i].then = "update"
  /\ rv.loading => inFlight("reviews")
  /\ rv.toggling # Nothing => \E i \in DOMAIN calls :
       calls[i].kind = "publish" /\ calls[i].arg.id = rv.toggling
  /\ cp.loading => \E i \in DOMAIN calls : calls[i].kind = "list" /\ calls[i].arg = ListQuery(cp)
  /\ cp.detailLoading => \E i \in DOMAIN calls :
       calls[i].kind = "card" /\ cp.selected \in {calls[i].arg, Nothing}
  /\ \A k \in cp.saving : inFlight(k)
  /\ sp.loading => inFlight("settings")
  /\ \A f \in sp.saving : \E i \in DOMAIN calls : calls[i].kind = "save" /\ calls[i].arg.form = f

\* Whatever is lost, every page comes to rest: no spinner, no button left busy
\* (agendamento page.tsx:148-290, appointments page.tsx:279-325, clients
\* page.tsx:105-220, settings page.tsx:79-163).
AtRest ==
  /\ mp.busy = "" /\ ~mp.slotsLoading /\ (isOpen("manage") => mp.phase # "loading")
  /\ ~ag.loading /\ ag.updating = Nothing /\ rv.toggling = Nothing /\ ~rv.loading
  /\ ~cp.loading /\ ~cp.detailLoading /\ cp.saving = {} /\ sp.saving = {} /\ ~sp.loading /\ rp.want = {}
PagesSettle == <>[]AtRest
================================================================================
