------------------------------ MODULE DeskInvariants -----------------------------
(***************************************************************************)
(* The inductive invariants of the desk: what each page, and its requests  *)
(* on their way, keep between steps.  Each speaks of the requests of one   *)
(* page only.  DeskProofs shows that every step keeps them.                *)
(***************************************************************************)
EXTENDS Desk, Sequences

\* The requests of a page, by their places in s.
At(page, s) == {i \in DOMAIN s : s[i].from = page}

Elems(s) == {s[i] : i \in DOMAIN s}

\* A sequence, with no word about the set its elements are from.
IsSeqOf(s) == s \in Seq(Elems(s))

ManageKinds == {"get", "slots", "confirm", "cancel", "reschedule", "review"}
AgendaKinds == {"agenda", "status"}
ReviewKinds == {"reviews", "publish"}
ClientKinds == {"list", "card", "notes", "consent", "profile"}
SettingsKinds == {"settings", "save"}
KindsOf == [manage |-> ManageKinds, agenda |-> AgendaKinds, reviews |-> ReviewKinds,
            clients |-> ClientKinds, settings |-> SettingsKinds]
PageNames == {"manage", "agenda", "reviews", "clients", "settings"}

Hidden == {"shown", "hidden"}
Text == Client \cup {Nothing}
Details == [of : Client, consent : BOOLEAN, tags : Text]

Day == Nat \cup {NoTime}
StepKinds == {"confirm", "cancel", "reschedule", "review", "status"}

\* What a request carries, by its kind.
CarriesOf(c) ==
  /\ c.kind = "slots" => c.arg \in Day
  /\ c.kind = "reschedule" => c.arg.to \in Nat /\ c.arg.shown \in Day /\ c.arg.hurried \in BOOLEAN
  /\ c.kind = "status" => /\ c.arg.id \in Visit /\ c.arg.to \in Status
                          /\ c.then.hint \in Visit \cup {Nothing} /\ c.then.query.page \in Nat \ {0}
  /\ c.kind = "publish" => c.arg.id \in Visit /\ c.arg.to \in Hidden
  /\ c.kind \in {"agenda", "list"} => c.arg.page \in Nat \ {0}
  /\ c.kind = "card" => c.arg \in Client
  /\ c.kind \in {"notes", "consent", "profile"} => c.arg.id \in Client /\ c.then \in Details
  /\ c.kind = "notes" => c.arg.text \in Text
  /\ c.kind = "consent" => c.arg.to \in BOOLEAN
  /\ c.kind = "profile" => c.arg.tags \in Text
  /\ c.kind = "save" => c.arg.form \in Forms /\ c.arg.value \in Nat

\* What its answer brings, when it is not an error.
BringsOf(c) ==
  /\ c.kind = "slots" => c.arg \in Nat /\ c.res.val \subseteq {c.arg}
  /\ c.kind = "agenda" => /\ \A n \in DOMAIN c.res.val.items :
                               c.res.val.items[n].id \in Visit /\ c.res.val.items[n].ver \in Nat
                          /\ c.res.val.total \in Nat
  /\ c.kind = "status" => c.res.val.ver \in Nat
  /\ c.kind = "reviews" => \E V \in SUBSET Visit : c.res.val \in [V -> Hidden]
  /\ c.kind = "list" => /\ \A n \in DOMAIN c.res.val.items : c.res.val.items[n].id \in Client
                        /\ c.res.val.total \in Nat
  /\ c.kind = "card" => /\ c.res.val.of = c.arg /\ c.res.val.consent \in BOOLEAN
                        /\ c.res.val.notes \in Text /\ c.res.val.tags \in Text
  /\ c.kind \in SettingsKinds => c.res.val \in [Forms -> Nat]

CallType(c) ==
  /\ c = [from |-> c.from, kind |-> c.kind, arg |-> c.arg, then |-> c.then, pc |-> c.pc, res |-> c.res]
  /\ c.from \in PageNames /\ c.kind \in KindsOf[c.from]
  /\ c.pc \in {"sent", "read", "written", "done"} /\ (c.pc = "written" => c.kind = "save")
  /\ c.pc = "read" => c.kind \in StepKinds /\ c.res \in Status
  /\ CarriesOf(c)
  /\ c.pc = "done" /\ c.res.ok => BringsOf(c)

ManageType ==
  mp \in [phase : {"loading", "ready", "lost"}, data : {mp.data}, busy : {"", "confirm", "cancel", "reschedule", "review"},
          open : {"", "cancel", "reschedule"}, date : Day, slots : SUBSET Nat,
          slotsLoading : BOOLEAN, pick : Day, hurried : BOOLEAN]

AgendaType ==
  /\ ag \in [form : {ag.form}, applied : {ag.applied}, page : Nat \ {0}, items : {ag.items},
             of : {ag.of}, total : Nat, loading : BOOLEAN, error : BOOLEAN,
             updating : Visit \cup {Nothing}, hint : Visit \cup {Nothing},
             acked : [Visit -> Nat], crossed : BOOLEAN]
  /\ \A n \in DOMAIN ag.items : ag.items[n].id \in Visit /\ ag.items[n].ver \in Nat

ReviewType ==
  /\ rv \in [list : {rv.list}, loading : BOOLEAN, toggling : Visit \cup {Nothing}, doubled : BOOLEAN]
  /\ \E V \in SUBSET Visit : rv.list \in [V -> Hidden]

ClientsType ==
  /\ cp \in [q : {cp.q}, typed : {cp.typed}, timer : BOOLEAN, page : Nat \ {0},
             items : {cp.items}, total : Nat, of : {cp.of}, loading : BOOLEAN,
             error : BOOLEAN, failed : BOOLEAN, selected : Text, detail : Details \cup {Nothing},
             detailLoading : BOOLEAN, notes : Text, tags : Text,
             saving : SUBSET {"notes", "consent", "profile"}, mixed : BOOLEAN, overlapped : BOOLEAN]
  /\ \A n \in DOMAIN cp.items : cp.items[n].id \in Client

SettingsType ==
  sp \in [form : [Forms -> Nat] \cup {Nothing}, typed : SUBSET Forms, saving : SUBSET Forms,
          loading : BOOLEAN, errors : SUBSET Forms]

\* What the tables hold.
TablesType ==
  /\ limits \in Limits /\ now \in Nat /\ faults \in Nat /\ clicks \in Nat /\ outside \in Nat
  /\ visit \in [Visit -> VisitRow]
  /\ decided \subseteq Decision /\ \A x \in decided : x.id = Mine => x.at = NoTime
  /\ card \in [Client -> Card] /\ tenant \in [Forms -> Nat]

CallsType == IsSeqOf(calls) /\ \A i \in DOMAIN calls : CallType(calls[i])

Types ==
  /\ TablesType /\ CallsType
  /\ ManageType /\ AgendaType /\ ReviewType /\ ClientsType /\ SettingsType

--------------------------------------------------------------------------------
(* The manage link.                                                        *)

\* The requests a button of the page waits for.
IsMain(c) ==
  c.kind \in {"get", "confirm", "cancel", "reschedule", "review"} \/ (c.kind = "slots" /\ c.then # "")

\* Every move sent is to the date its form showed, but for the two exceptions; and
\* while neither applies to the form shown, that date is the one of every list of
\* times and of every move on its way, and of the pick.
OfDate(c, d) == (c.kind = "slots" => c.arg = d) /\ (c.kind = "reschedule" => c.arg.shown = d)
MoveIsShown(c) ==
  c.kind = "reschedule" => c.arg.to = c.arg.shown \/ c.arg.shown = NoTime \/ c.arg.hurried
AsShown == ~mp.hurried /\ mp.date # NoTime
DateShown ==
  /\ \A i \in At("manage", calls) : MoveIsShown(calls[i])
  /\ AsShown =>
       /\ \A i \in At("manage", calls) : OfDate(calls[i], mp.date)
       /\ mp.slotsLoading \/ mp.slots \subseteq {mp.date}
       /\ mp.pick \in {NoTime, mp.date}

\* One such request at a time, and none while the page is idle.
OneMain ==
  \A i \in At("manage", calls) :
    IsMain(calls[i]) =>
      /\ ~isIdle
      /\ \A j \in At("manage", calls) : IsMain(calls[j]) => i = j

\* The page, or a load on its way, knows the time of the appointment.
Stale(c) == c.kind = "get" \/ (c.kind = "reschedule" /\ c.pc = "done" /\ c.res.ok)
TimeKnown ==
  faults = 0 =>
    /\ \A i \in At("manage", calls) :
         /\ calls[i].kind = "get" /\ calls[i].pc = "done"
              => calls[i].res.ok /\ calls[i].res.val.at = visit[Mine].at
         /\ calls[i].kind = "confirm" =>
              /\ calls[i].arg.at = visit[Mine].at
              /\ calls[i].pc = "done" /\ calls[i].res.ok => calls[i].res.val.at = calls[i].arg.at
    /\ mp.phase = "ready" /\ (\A i \in At("manage", calls) : ~Stale(calls[i]))
         => mp.data.at = visit[Mine].at

ManageInv == DateShown /\ OneMain /\ TimeKnown

--------------------------------------------------------------------------------
(* The agenda and the reviews.                                             *)

\* While no filter crossed a change, every request is of the filter shown.
OfQuery(c, q) == (c.kind = "agenda" => c.arg = q) /\ (c.kind = "status" => c.then.query = q)
QueriesAgree ==
  ~ag.crossed =>
    /\ \A i \in At("agenda", calls) : OfQuery(calls[i], Query(ag))
    /\ isOpen("agenda") /\ At("agenda", calls) = {} /\ ~ag.error => ag.of = Query(ag)

\* In order, what was served follows what was answered.
InOrder(page) ==
  ~limits.reorder =>
    \A i \in At(page, calls) : calls[i].pc # "sent" /\ (calls[i].pc = "done" => calls[i].res.ok)
      => \A j \in At(page, calls) : j < i => calls[j].pc = "done"

\* Answers in order: what a load brings is as new as every change answered before it.
Knows(items, id, ver) == \A n \in DOMAIN items : items[n].id = id => items[n].ver >= ver
Brings(i) == calls[i].pc = "done" /\ calls[i].res.ok
Loads(c) == c.kind = "agenda" /\ c.pc = "done" /\ c.res.ok
Changes(c) == c.kind = "status" /\ c.pc = "done" /\ c.res.ok
KnowsAll(items, acked) == \A v \in Visit : Knows(items, v, acked[v])
RowsAreNew ==
  /\ \A v \in Visit : ag.acked[v] <= visit[v].ver
  /\ \A i \in At("agenda", calls) : Changes(calls[i]) => calls[i].res.val.ver <= visit[calls[i].arg.id].ver
  /\ ~limits.reorder =>
       /\ \A i \in At("agenda", calls) : Loads(calls[i]) =>
            /\ KnowsAll(calls[i].res.val.items, ag.acked)
            /\ \A j \in At("agenda", calls) : j < i /\ Changes(calls[j])
                 => Knows(calls[i].res.val.items, calls[j].arg.id, calls[j].res.val.ver)
       /\ At("agenda", calls) = {} /\ ~ag.error => KnowsAll(ag.items, ag.acked)

AgendaInv == QueriesAgree /\ InOrder("agenda") /\ RowsAreNew

\* The list is loaded once, before anything is toggled.
LoadedOnce ==
  \A i \in At("reviews", calls) :
    /\ rv.loading <=> calls[i].kind = "reviews"
    /\ rv.loading => \A j \in At("reviews", calls) : i = j

\* What request c brings, or has changed, by the list and the rows.
LoadKnown(c, rows) ==
  c.kind = "reviews" /\ c.pc = "done" /\ c.res.ok => \A v \in DOMAIN c.res.val : c.res.val[v] = rows[v].review
ToggleKnown(c, list, rows) ==
  LET v == c.arg.id
  IN c.kind = "publish" =>
       /\ v \in DOMAIN list
       /\ IF c.pc = "sent" THEN list[v] = rows[v].review /\ c.arg.to = flipped(list[v])
          ELSE c.res.ok /\ rows[v].review = flipped(list[v])
Toggles(c, v) == c.kind = "publish" /\ c.arg.id = v

\* What no toggle in flight has turned over is shown as it is stored.
PublishedAsShown ==
  faults = 0 /\ ~rv.doubled =>
    /\ \A i \in At("reviews", calls) : LoadKnown(calls[i], visit) /\ ToggleKnown(calls[i], rv.list, visit)
    /\ \A i, j \in At("reviews", calls) : Toggles(calls[j], calls[i].arg.id) /\ calls[i].kind = "publish" => i = j
    /\ \A v \in DOMAIN rv.list :
         (\A i \in At("reviews", calls) : ~Toggles(calls[i], v)) => rv.list[v] = visit[v].review

ReviewInv == LoadedOnce /\ PublishedAsShown

--------------------------------------------------------------------------------
(* The clients.                                                            *)

IsLast(i) == \A j \in At("clients", calls) : calls[j].kind = "list" => j <= i

\* The last list on its way is that of the filters shown.
LastIsAsked ==
  ~limits.reorder =>
    /\ \A i \in At("clients", calls) : calls[i].kind = "list" /\ IsLast(i) => calls[i].arg = ListQuery(cp)
    /\ isOpen("clients") /\ (\A i \in At("clients", calls) : calls[i].kind # "list")
         => cp.failed \/ cp.of = ListQuery(cp)

Own(c, x) == x \in {c, Nothing}

\* What request c carries or brings is of its client.
OwnCall(c) ==
  /\ c.kind = "card" /\ c.pc = "done" /\ c.res.ok => Own(c.arg, c.res.val.notes) /\ Own(c.arg, c.res.val.tags)
  /\ c.kind = "notes" => Own(c.arg.id, c.arg.text)
  /\ c.kind = "profile" => Own(c.arg.id, c.arg.tags)
  /\ c.kind \in {"consent", "profile"} => c.then.of = c.arg.id

\* The card not loading is that of the client chosen.
OwnCard ==
  cp.selected # Nothing /\ ~cp.detailLoading =>
    cp.detail.of = cp.selected /\ Own(cp.selected, cp.notes) /\ Own(cp.selected, cp.tags)

\* Unless cards were mixed, what is on its way to a client's record, or from it, and
\* what is on the card shown is of that client.
RecordsApart ==
  ~cp.mixed =>
    /\ \A c \in Client : Own(c, card[c].notes) /\ Own(c, card[c].tags)
    /\ \A i \in At("clients", calls) : OwnCall(calls[i])
    /\ OwnCard

\* One consent at a time and, unless they overlapped, none with a profile.
OneConsent ==
  /\ \A i, j \in At("clients", calls) : calls[i].kind = "consent" /\ calls[j].kind = "consent" => i = j
  /\ \A i \in At("clients", calls) : calls[i].kind = "consent" => "consent" \in cp.saving
  /\ ~cp.overlapped => \A i, j \in At("clients", calls) :
                         ~(calls[i].kind = "consent" /\ calls[j].kind = "profile")

\* What is known of the consents while answers come in order and none is lost, no card
\* is mixed with another and consents and profiles are not saved at once.
Calm == faults = 0 /\ ~limits.reorder /\ ~cp.mixed /\ ~cp.overlapped
Consents(i, c) == calls[i].kind = "consent" /\ calls[i].arg.id = c
SavesOf(c) ==
  /\ c.kind = "consent" /\ c.pc = "done" => c.res.ok /\ c.arg.to = card[c.arg.id].consent
  /\ c.kind = "profile" => c.then.consent = card[c.arg.id].consent
CardsKnown ==
  \A i \in At("clients", calls) : calls[i].kind = "card" /\ Brings(i) =>
    \/ calls[i].res.val.consent = card[calls[i].arg].consent
    \/ \E j \in At("clients", calls) : j > i /\ Consents(j, calls[i].arg)
ShownKnown ==
  cardShown => \/ cp.detail.consent = card[cp.selected].consent
               \/ \E i \in At("clients", calls) : Consents(i, cp.selected)
ConsentKnown ==
  Calm => CardsKnown /\ ShownKnown /\ \A i \in At("clients", calls) : SavesOf(calls[i])

ClientsInv == InOrder("clients") /\ LastIsAsked /\ RecordsApart /\ OneConsent /\ ConsentKnown

--------------------------------------------------------------------------------
(* The settings.                                                           *)

\* Save c has changed form f in the row.
Saves(c, f) ==
  c.kind = "save" /\ c.arg.form = f /\ (c.pc = "written" \/ (c.pc = "done" /\ c.res.ok))

\* An answer, or an untouched form, that differs from the row has a later save on its way.
AnswersKnown ==
  \A i \in At("settings", calls) : Brings(i) =>
    \A f \in Forms : \/ calls[i].res.val[f] = tenant[f]
                     \/ \E j \in At("settings", calls) : j > i /\ Saves(calls[j], f)
FormKnown ==
  sp.form # Nothing =>
    \A f \in Forms \ sp.typed : \/ sp.form[f] = tenant[f]
                                \/ \E j \in At("settings", calls) : Saves(calls[j], f)
FormsKnown == faults = 0 /\ ~limits.reorder => AnswersKnown /\ FormKnown

SettingsInv == InOrder("settings") /\ FormsKnown

--------------------------------------------------------------------------------
(* The report: each of its figures counts visits that were over, or that   *)
(* a write has taken out again.                                            *)

Done == within({"COMPLETED"})
Missed == within({"NO_SHOW"})
Undone == {v \in Visit : visit[v].undone}
CountsOf(C) == [completed |-> Cardinality(C), revenue |-> Spent(C)]
PerPro(C) == [p \in Pro |-> Spent({v \in C : visit[v].pro = p})]

ReportType ==
  /\ rp = [want |-> rp.want, asked |-> rp.asked, appointments |-> rp.appointments, noShow |-> rp.noShow,
           totals |-> rp.totals, byPro |-> rp.byPro, since |-> rp.since]
  /\ rp.want \subseteq {"byStatus", "completedAgg", "byProfessional"}

\* Each answer counts a set of visits: those completed when the report was asked for, or
\* more of those completed by now; those missed are apart; and so but for those undone.
Counted ==
  rp.asked =>
    /\ rp.since \subseteq Done \cup Undone
    /\ "completedAgg" \in rp.want
       \/ \E D \in SUBSET (Done \cup Undone) : rp.since \ Undone \subseteq D /\ rp.totals = CountsOf(D)
    /\ "byProfessional" \in rp.want
       \/ \E D \in SUBSET (Done \cup Undone) : rp.since \ Undone \subseteq D /\ rp.byPro = PerPro(D)
    /\ "byStatus" \in rp.want \/ \E N \in SUBSET (Missed \cup Undone) : rp.noShow = Cardinality(N)

ReportInv == ReportType /\ Counted

--------------------------------------------------------------------------------
(* What a page shows as under way.                                         *)

\* What each page waits for: the button of a manage link by the kind it asked for,
Named(x) == x # ""
ButtonOf(c) == IF c.kind \in {"get", "slots"} THEN c.then ELSE c.kind
ManageWaits ==
  /\ isOpen("manage") /\ mp.phase = "loading" => \E i \in At("manage", calls) : calls[i].kind = "get"
  /\ Named(mp.busy) => \E i \in At("manage", calls) : ButtonOf(calls[i]) = mp.busy
  /\ mp.slotsLoading => \E i \in At("manage", calls) : calls[i].kind = "slots"

\* the agenda's list and the row whose status changes,
Loading(c, q) == c.kind = "agenda" /\ c.then = "effect" /\ c.arg = q
Updating(c, v) == (c.kind = "status" /\ c.arg.id = v) \/ (c.kind = "agenda" /\ c.then = "update")
AgendaWaits ==
  /\ ag.loading => \E i \in At("agenda", calls) : Loading(calls[i], Query(ag))
  /\ ag.updating # Nothing => \E i \in At("agenda", calls) : Updating(calls[i], ag.updating)

\* the list of reviews and the one turned over last,
ReviewWaits ==
  /\ rv.loading => \E i \in At("reviews", calls) : calls[i].kind = "reviews"
  /\ rv.toggling # Nothing => \E i \in At("reviews", calls) : Toggles(calls[i], rv.toggling)

\* the list of clients, the card and its buttons,
Listing(c, q) == c.kind = "list" /\ c.arg = q
Opening(c, x) == c.kind = "card" /\ x \in {c.arg, Nothing}
ClientsWait ==
  /\ cp.loading => \E i \in At("clients", calls) : Listing(calls[i], ListQuery(cp))
  /\ cp.detailLoading => \E i \in At("clients", calls) : Opening(calls[i], cp.selected)
  /\ \A k \in cp.saving : \E i \in At("clients", calls) : calls[i].kind = k

\* and the settings and each of their forms.
SavingForm(c, f) == c.kind = "save" /\ c.arg.form = f
SettingsWait ==
  /\ sp.loading => \E i \in At("settings", calls) : calls[i].kind = "settings"
  /\ \A f \in sp.saving : \E i \in At("settings", calls) : SavingForm(calls[i], f)

Waits == ManageWaits /\ AgendaWaits /\ ReviewWaits /\ ClientsWait /\ SettingsWait
================================================================================
