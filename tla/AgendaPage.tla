------------------------------- MODULE AgendaPage -------------------------------
(***************************************************************************)
(* Two pages of the desk: the agenda (dashboard/appointments), whose list  *)
(* is loaded for a filter and a page and again after a status change, and  *)
(* the reviews (dashboard/reviews), whose list is loaded once and then     *)
(* kept up by the page itself.                                             *)
(*                                                                         *)
(* A status change loads with the filter of the render it was clicked in.  *)
(* History: crossed, the filter changed while a change was on its way;     *)
(* acked, the version of each row by the desk's own changes; doubled, one  *)
(* review was toggled again before the first toggle's answer.              *)
(***************************************************************************)
EXTENDS DeskServer

VARIABLES ag, rv

agendaVars == <<ag, rv>>

AgendaInit ==
  /\ ag = [form |-> 1, applied |-> 1, page |-> 1, items |-> <<>>, of |-> Nothing, total |-> 0,
           loading |-> isOpen("agenda"), error |-> FALSE, updating |-> Nothing, hint |-> Nothing,
           acked |-> [v \in Visit |-> 0], crossed |-> FALSE]
  /\ rv = [list |-> <<>>, loading |-> isOpen("reviews"), toggling |-> Nothing, doubled |-> FALSE]

Query(a) == [q |-> limits.filters[a.applied], page |-> a.page]
AgendaCall(q, then) == Call("agenda", "agenda", q, then)
AgendaStart ==
  (IF isOpen("agenda") THEN <<AgendaCall([q |-> limits.filters[1], page |-> 1], "effect")>> ELSE <<>>)
    \o (IF isOpen("reviews") THEN <<Call("reviews", "reviews", Nothing, "")>> ELSE <<>>)

\* Mutant: the effect does not depend on the page.
AgendaEffect_FilterOnly(a) ==
  IF Query(a).q = Query(ag).q THEN ag' = a /\ UNCHANGED calls
  ELSE /\ ag' = [a EXCEPT !.loading = TRUE, !.error = FALSE, !.crossed = @ \/ ~Quiet("agenda")]
       /\ calls' = Append(calls, AgendaCall(Query(a), "effect"))

\* The effect on [load]: a new filter or page is loaded.
AgendaEffect(a) ==
  IF Query(a) = Query(ag) THEN ag' = a /\ UNCHANGED calls
  ELSE /\ ag' = [a EXCEPT !.loading = TRUE, !.error = FALSE, !.crossed = @ \/ ~Quiet("agenda")]
       /\ calls' = Append(calls, AgendaCall(Query(a), "effect"))

ChooseFilter(f) == f # ag.form /\ Click /\ ag' = [ag EXCEPT !.form = f] /\ UNCHANGED <<calls, rv>>

\* The form's button; the empty list offers it too.
applyFilter ==
  /\ ~ag.loading /\ Click /\ UNCHANGED rv
  /\ AgendaEffect([ag EXCEPT !.applied = ag.form, !.page = 1])

totalPages == Max({1, (ag.total + PAGE_SIZE - 1) \div PAGE_SIZE})

\* The pager is part of a list that is not empty.
TurnPage(by) ==
  /\ ~ag.loading /\ ag.items # <<>> /\ ag.page + by \in 1..totalPages /\ Click /\ UNCHANGED rv
  /\ AgendaEffect([ag EXCEPT !.page = @ + by])

updateStatus_Click(row, to) ==
  /\ ~ag.loading /\ ag.updating # row.id /\ to # row.status /\ Click
  /\ ag' = [ag EXCEPT !.updating = row.id, !.error = FALSE]
  /\ calls' = Append(calls, Call("agenda", "status", [id |-> row.id, to |-> to],
                                  [query |-> Query(ag), hint |-> ag.hint]))
  /\ UNCHANGED rv

\* The suggestion shown after call c: that of the click decides whether it goes.
hintAfter(c) ==
  IF c.arg.to = "COMPLETED" /\ c.res.val.rebookingSuggested THEN c.arg.id
  ELSE IF c.then.hint = c.arg.id THEN Nothing ELSE ag.hint

Acked(id, ver) == [ag.acked EXCEPT ![id] = Max({@, ver})]

\* Mutant: the list is left as it is.
StatusReply_NoLoad(i) ==
  LET c == calls[i]
  IN /\ Answers(i, "agenda", "status") /\ UNCHANGED rv
     /\ calls' = Others(i)
     /\ ag' = IF c.res.ok
              THEN [ag EXCEPT !.hint = hintAfter(c), !.updating = Nothing,
                              !.acked = Acked(c.arg.id, c.res.val.ver)]
              ELSE [ag EXCEPT !.error = TRUE, !.updating = Nothing]

StatusReply(i) ==
  LET c == calls[i]
  IN /\ Answers(i, "agenda", "status") /\ UNCHANGED rv
     /\ IF c.res.ok
        THEN /\ ag' = [ag EXCEPT !.hint = hintAfter(c), !.error = FALSE,
                                 !.acked = Acked(c.arg.id, c.res.val.ver)]
             /\ calls' = Append(Others(i), AgendaCall(c.then.query, "update"))
        ELSE /\ ag' = [ag EXCEPT !.error = TRUE, !.updating = Nothing]
             /\ calls' = Others(i)

dismissHint == ag.hint # Nothing /\ Click /\ ag' = [ag EXCEPT !.hint = Nothing] /\ UNCHANGED <<calls, rv>>

\* Every answer becomes the list, whichever load asked for it.
AgendaReply(i) ==
  LET c == calls[i]
      done == IF c.then = "effect" THEN [ag EXCEPT !.loading = FALSE]
              ELSE [ag EXCEPT !.updating = Nothing]
  IN /\ Answers(i, "agenda", "agenda") /\ calls' = Others(i) /\ UNCHANGED rv
     /\ ag' = IF c.res.ok
              THEN [done EXCEPT !.items = c.res.val.items, !.total = c.res.val.total, !.of = c.arg]
              ELSE [done EXCEPT !.error = TRUE]

--------------------------------------------------------------------------------
(* Reviews.                                                                *)

ReviewsReply(i) ==
  /\ Answers(i, "reviews", "reviews") /\ calls' = Others(i) /\ UNCHANGED ag
  /\ rv' = [rv EXCEPT !.loading = FALSE, !.list = IF calls[i].res.ok THEN calls[i].res.val ELSE @]

flipped(r) == IF r = "shown" THEN "hidden" ELSE "shown"

\* Only the last toggle's button is disabled.
togglePublished(v) ==
  /\ ~rv.loading /\ rv.toggling # v /\ Click /\ UNCHANGED ag
  /\ rv' = [rv EXCEPT !.toggling = v,
              !.doubled = @ \/ \E i \in DOMAIN calls : calls[i].kind = "publish" /\ calls[i].arg.id = v]
  /\ calls' = Append(calls, Call("reviews", "publish", [id |-> v, to |-> flipped(rv.list[v])], ""))

\* Mutant: the button is freed only by a success.
PublishReply_KeepBusy(i) ==
  /\ Answers(i, "reviews", "publish") /\ calls' = Others(i) /\ UNCHANGED ag
  /\ rv' = IF calls[i].res.ok
           THEN [rv EXCEPT !.toggling = Nothing, !.list = [rv.list EXCEPT ![calls[i].arg.id] = flipped(@)]]
           ELSE rv

\* The answer turns over what the list shows by then.
PublishReply(i) ==
  /\ Answers(i, "reviews", "publish") /\ calls' = Others(i) /\ UNCHANGED ag
  /\ rv' = [rv EXCEPT !.toggling = Nothing,
              !.list = IF calls[i].res.ok THEN [rv.list EXCEPT ![calls[i].arg.id] = flipped(@)] ELSE @]

AgendaClicks ==
  \/ \E f \in DOMAIN limits.filters : ChooseFilter(f)
  \/ applyFilter \/ dismissHint
  \/ \E by \in {-1, 1} : TurnPage(by)
  \/ \E n \in DOMAIN ag.items, to \in limits.statuses : updateStatus_Click(ag.items[n], to)
  \/ \E v \in DOMAIN rv.list : togglePublished(v)

AgendaPageReply(i) == StatusReply(i) \/ AgendaReply(i) \/ ReviewsReply(i) \/ PublishReply(i)
================================================================================
