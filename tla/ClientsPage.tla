------------------------------- MODULE ClientsPage -------------------------------
(***************************************************************************)
(* The clients page of the desk (dashboard/clients): a list by search,     *)
(* segment, inactivity and page, and the card of one client with notes,    *)
(* tags and marketing consent, each saved by a button of its own.          *)
(*                                                                         *)
(* No request is ever cancelled: an answer is applied to whatever the page *)
(* shows by then.  What the user types is about the client whose card is   *)
(* shown.  History: failed, the last load of the list failed (error does   *)
(* not say so any more once a card is opened); mixed, an answer of one     *)
(* client's card was applied while another's was open; overlapped, consent *)
(* and profile were saved at the same time.  The birthday goes with the    *)
(* tags.                                                                   *)
(***************************************************************************)
EXTENDS DeskServer

VARIABLE cp

NoFilter == [search |-> Client, segment |-> "", inactive |-> 0]

ClientsInit ==
  cp = [q |-> NoFilter, typed |-> Client, timer |-> isOpen("clients"), page |-> 1,
        items |-> <<>>, total |-> 0, of |-> Nothing, loading |-> isOpen("clients"),
        error |-> FALSE, failed |-> FALSE,
        selected |-> Nothing, detail |-> Nothing, detailLoading |-> FALSE,
        notes |-> Nothing, tags |-> Nothing, saving |-> {}, mixed |-> FALSE, overlapped |-> FALSE]

ListQuery(p) == [q |-> p.q, page |-> p.page]
ListCall(p) == Call("clients", "list", ListQuery(p), "")
ClientsStart ==
  IF isOpen("clients") THEN <<Call("clients", "list", [q |-> NoFilter, page |-> 1], "")>> ELSE <<>>

\* The effect on [loadList].
loadList(p) ==
  IF ListQuery(p) = ListQuery(cp) THEN cp' = p /\ UNCHANGED calls
  ELSE cp' = [p EXCEPT !.loading = TRUE, !.error = FALSE] /\ calls' = Append(calls, ListCall(p))

\* A member's page shows neither filters nor list.
listShown == isOpen("clients") /\ cp.selected = Nothing /\ ~isMember

TypeSearch(s) ==
  /\ listShown /\ s # cp.typed /\ Click /\ UNCHANGED calls
  /\ cp' = [cp EXCEPT !.typed = s, !.timer = TRUE]

\* 350 ms after the last key the search counts.
Debounce ==
  /\ cp.timer /\ UNCHANGED <<limits, tables, counters>>
  /\ loadList([cp EXCEPT !.timer = FALSE, !.q.search = cp.typed, !.page = 1])

ChooseSegment(s) ==
  listShown /\ Click /\ s # cp.q.segment /\ loadList([cp EXCEPT !.q.segment = s, !.page = 1])
ChooseInactive(n) ==
  listShown /\ Click /\ n # cp.q.inactive /\ loadList([cp EXCEPT !.q.inactive = n, !.page = 1])

ClearFilters ==
  /\ listShown /\ ~cp.loading /\ cp.items = <<>> /\ cp.q # NoFilter /\ Click
  /\ loadList([cp EXCEPT !.q = NoFilter, !.typed = Client, !.page = 1,
                 !.timer = @ \/ cp.typed # Client])

TurnList(by) ==
  /\ listShown /\ ~cp.loading /\ cp.items # <<>> /\ Click
  /\ cp.page + by \in 1..Max({1, (cp.total + PAGE_SIZE - 1) \div PAGE_SIZE})
  /\ loadList([cp EXCEPT !.page = @ + by])

ListReply(i) ==
  LET r == calls[i].res
  IN /\ Answers(i, "clients", "list") /\ calls' = Others(i)
     /\ cp' = IF r.ok THEN [cp EXCEPT !.items = r.val.items, !.total = r.val.total, !.of = calls[i].arg,
                                      !.loading = FALSE, !.failed = FALSE]
              ELSE [cp EXCEPT !.error = TRUE, !.loading = FALSE, !.failed = TRUE]

--------------------------------------------------------------------------------
(* The card.                                                               *)

openDetail(c) ==
  /\ listShown /\ ~cp.loading /\ Click
  /\ cp' = [cp EXCEPT !.selected = c, !.detailLoading = TRUE, !.error = FALSE]
  /\ calls' = Append(calls, Call("clients", "card", c, ""))

Back ==
  /\ cp.selected # Nothing /\ Click /\ UNCHANGED calls
  /\ cp' = [cp EXCEPT !.selected = Nothing, !.detail = Nothing]

Mixes(c) == cp.selected \notin {Nothing, c}

\* Mutant: a client without notes leaves the field as it is.
CardReply_KeepNotes(i) ==
  LET r == calls[i].res
      shown == [cp EXCEPT !.detail = [of |-> r.val.of, consent |-> r.val.consent, tags |-> r.val.tags],
                          !.notes = IF r.val.notes = Nothing THEN @ ELSE r.val.notes,
                          !.tags = r.val.tags]
  IN /\ Answers(i, "clients", "card") /\ calls' = Others(i)
     /\ cp' = [(IF r.ok THEN shown ELSE [cp EXCEPT !.error = TRUE, !.selected = Nothing])
                 EXCEPT !.detailLoading = FALSE, !.mixed = @ \/ Mixes(calls[i].arg)]

CardReply(i) ==
  LET r == calls[i].res
      shown == [cp EXCEPT !.detail = [of |-> r.val.of, consent |-> r.val.consent, tags |-> r.val.tags],
                          !.notes = r.val.notes, !.tags = r.val.tags]
  IN /\ Answers(i, "clients", "card") /\ calls' = Others(i)
     /\ cp' = [(IF r.ok THEN shown ELSE [cp EXCEPT !.error = TRUE, !.selected = Nothing])
                 EXCEPT !.detailLoading = FALSE, !.mixed = @ \/ Mixes(calls[i].arg)]

cardShown == cp.selected # Nothing /\ ~cp.detailLoading /\ cp.detail # Nothing

EditNotes(text) ==
  /\ cardShown /\ text \in {Nothing, cp.detail.of} /\ text # cp.notes /\ Click
  /\ cp' = [cp EXCEPT !.notes = text] /\ UNCHANGED calls

EditTags(tag) ==
  /\ cardShown /\ tag \in {Nothing, cp.detail.of} /\ tag # cp.tags /\ Click
  /\ cp' = [cp EXCEPT !.tags = tag] /\ UNCHANGED calls


Save(kind, arg) ==
  /\ cardShown /\ kind \notin cp.saving /\ Click
  /\ cp' = [cp EXCEPT !.saving = @ \cup {kind}, !.error = FALSE,
              !.overlapped = @ \/ (kind = "consent" /\ inFlight("profile"))
                               \/ (kind = "profile" /\ inFlight("consent"))]
  /\ calls' = Append(calls, Call("clients", kind, arg, cp.detail))

saveNotes == Save("notes", [id |-> cp.selected, text |-> cp.notes])
toggleMarketingConsent ==
  cp.detail # Nothing /\ Save("consent", [id |-> cp.selected, to |-> ~cp.detail.consent])
saveProfile == Save("profile", [id |-> cp.selected, tags |-> cp.tags])

SaveReply(i, kind, p) ==
  /\ Answers(i, "clients", kind) /\ calls' = Others(i)
  /\ cp' = [(IF calls[i].res.ok THEN p ELSE [cp EXCEPT !.error = TRUE])
              EXCEPT !.saving = @ \ {kind}, !.mixed = @ \/ Mixes(calls[i].arg.id)]

NotesReply(i) == SaveReply(i, "notes", cp)

\* The card of the click, with the change: detail is the closure's.
ConsentReply(i) ==
  SaveReply(i, "consent",
            [cp EXCEPT !.detail = [calls[i].then EXCEPT !.consent = calls[i].arg.to]])
ProfileReply(i) ==
  SaveReply(i, "profile",
            [cp EXCEPT !.detail = [calls[i].then EXCEPT !.tags = calls[i].arg.tags],
                       !.tags = calls[i].arg.tags])

ClientsClicks ==
  \/ \E s \in limits.searches : TypeSearch(s)
  \/ \E s \in limits.segments : ChooseSegment(s)
  \/ \E n \in limits.inactive : ChooseInactive(n)
  \/ ClearFilters \/ Back \/ saveNotes \/ toggleMarketingConsent \/ saveProfile
  \/ \E by \in {-1, 1} : TurnList(by)
  \/ \E n \in DOMAIN cp.items : openDetail(cp.items[n].id)
  \/ \E text \in Client \cup {Nothing} : EditNotes(text) \/ EditTags(text)

ClientsReply(i) ==
  ListReply(i) \/ CardReply(i) \/ NotesReply(i) \/ ConsentReply(i) \/ ProfileReply(i)
================================================================================
