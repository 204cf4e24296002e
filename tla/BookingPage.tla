------------------------------- MODULE BookingPage -------------------------------
(***************************************************************************)
(* The public booking page (PublicBookingClient) of one customer in front  *)
(* of the catalogue: service, professional, day and time, details, done.   *)
(*                                                                         *)
(* A click and the effects of the render it causes are one step.  Asking   *)
(* for slots starts a request; a later choice cancels it, which means that *)
(* its answer, whenever it comes, is ignored.                              *)
(*                                                                         *)
(* Left out: the contact fields, the waitlist form, texts and layout.  No  *)
(* professional and "any" are one choice: both send no professionalId.     *)
(***************************************************************************)
EXTENDS SlotCache

CONSTANTS NoDay, NoSlot, NoService, NoHandler

ASSUME HandlerAssumption == NoHandler \notin Handler

VARIABLES page, clicks

pageVars == <<page, clicks>>
vars == <<cacheVars, pageVars>>

\* The days the customer looks at.
days == {k.day : k \in limits.keys \ {ProfileKey}}
today == Min(days)
choice(p) == [svc |-> p.svc, day |-> p.day, pro |-> p.pro]
professionals == IF page.profile = NoEntry THEN {} ELSE page.profile.pros
hasProfessionalStep == Cardinality(professionals) > 1
stepOrder == IF hasProfessionalStep THEN <<"service", "professional", "when", "details", "done">>
             ELSE <<"service", "when", "details", "done">>

Asked(hs, h, key, by) == [hs EXCEPT ![h] = [Idle EXCEPT !.pc = "get", !.key = key, !.by = by]]

\* History: of and slotOf are the choices that the list and the time were taken for.
Init ==
  /\ CacheInit
  /\ page = [step |-> "loading", profile |-> NoEntry, svc |-> NoService, pro |-> NoPro,
             day |-> today, slots |-> {}, of |-> NoEntry, slot |-> NoSlot, slotOf |-> NoEntry,
             loading |-> FALSE, searching |-> FALSE, at |-> 0, next |-> NoDay,
             live |-> NoHandler, submit |-> NoHandler]
  /\ clicks = 0

server == <<shop, cache, redisUp, circuit, begun, limits>>

\* The page asks for the profile once.
Load(h) ==
  /\ page.step = "loading" /\ page.live = NoHandler /\ At(h, "idle") /\ "browse" \in limits.ops
  /\ handlers' = Asked(handlers, h, ProfileKey, "page") /\ page' = [page EXCEPT !.live = h]
  /\ UNCHANGED <<server, faults, clicks>>

Freed(h) == [handlers EXCEPT ![h] = Idle]

LoadReply(h) ==
  /\ page.step = "loading" /\ page.live = h /\ handlers[h].pc \in {"done", "failed"}
  /\ handlers' = Freed(h)
  /\ page' = [page EXCEPT !.live = NoHandler, !.profile = handlers[h].val,
                !.step = IF At(h, "done") THEN "service" ELSE "lost"]
  /\ UNCHANGED <<server, faults, clicks>>

--------------------------------------------------------------------------------
(* The effect that loads slots: it runs when the step or the choice has    *)
(* changed, after cancelling the request it had started.                   *)

Deps(p) == <<p.step, choice(p)>>

Render(p, hs) ==
  IF Deps(p) = Deps(page) THEN page' = p /\ handlers' = hs
  ELSE IF p.step # "when" \/ p.day = NoDay
       THEN page' = [p EXCEPT !.live = NoHandler] /\ handlers' = hs
       ELSE \E h \in Handler :
              /\ hs[h].pc = "idle" /\ handlers' = Asked(hs, h, choice(p), "page")
              /\ page' = [p EXCEPT !.live = h, !.loading = TRUE, !.at = 0, !.next = NoDay]

\* An empty list starts the search for the next day with a free time.
NextDay(hs, h, p, i) ==
  IF p.day + i \in days
  THEN /\ handlers' = Asked(hs, h, [choice(p) EXCEPT !.day = @ + i], "page")
       /\ page' = [p EXCEPT !.live = h, !.searching = TRUE, !.at = i]
  ELSE /\ handlers' = hs
       /\ page' = [p EXCEPT !.live = NoHandler, !.searching = FALSE, !.loading = FALSE]

SlotsReply(h) ==
  LET times == handlers[h].val
      quiet == [page EXCEPT !.live = NoHandler, !.loading = FALSE]
  IN /\ handlers[h].by = "page" /\ page.live = h /\ page.step = "when"
     /\ \/ /\ At(h, "done") /\ page.at = 0
           /\ LET p == [page EXCEPT !.slots = times, !.of = handlers[h].key]
              IN IF times = {} THEN NextDay(Freed(h), h, p, 1)
                 ELSE handlers' = Freed(h) /\ page' = [p EXCEPT !.live = NoHandler, !.loading = FALSE]
        \/ /\ At(h, "done") /\ page.at > 0
           /\ IF times = {} THEN NextDay(Freed(h), h, page, page.at + 1)
              ELSE /\ handlers' = Freed(h)
                   /\ page' = [quiet EXCEPT !.searching = FALSE, !.next = page.day + page.at]
        \/ /\ At(h, "failed") /\ handlers' = Freed(h)
           /\ page' = [quiet EXCEPT !.slots = {}, !.of = choice(page),
                         !.searching = @ /\ page.at = 0]
     /\ UNCHANGED <<server, faults, clicks>>

\* Mutant: it is shown all the same.
Ignored_Shown(h) ==
  /\ handlers[h].by = "page" /\ page.live # h /\ handlers[h].pc \in {"done", "failed"}
  /\ handlers' = Freed(h)
  /\ page' = IF At(h, "done") /\ handlers[h].key # ProfileKey
             THEN [page EXCEPT !.slots = handlers[h].val, !.of = handlers[h].key] ELSE page
  /\ UNCHANGED <<server, faults, clicks>>

\* The answer to a cancelled request.
Ignored(h) ==
  /\ handlers[h].by = "page" /\ page.live # h /\ handlers[h].pc \in {"done", "failed"}
  /\ handlers' = Freed(h)
  /\ UNCHANGED <<server, faults, pageVars>>

--------------------------------------------------------------------------------
(* What the customer does.                                                 *)

Click(step) ==
  /\ page.step = step /\ clicks < limits.clicks /\ clicks' = clicks + 1
  /\ limits.patient => page.submit = NoHandler
  /\ UNCHANGED <<server, faults>>

ChooseService(s) ==
  /\ Click("service") /\ s \in page.profile.services
  /\ Render([page EXCEPT !.svc = s, !.slot = NoSlot,
               !.step = IF hasProfessionalStep THEN "professional" ELSE "when"], handlers)

ChooseProfessional(p) ==
  /\ Click("professional") /\ p \in professionals \cup {NoPro}
  /\ Render([page EXCEPT !.pro = p, !.slot = NoSlot, !.step = "when"], handlers)

\* A chip, the date field, which can be emptied, or the next day found.
selectDate(d) ==
  /\ Click("when") /\ d # page.day
  /\ Render([page EXCEPT !.day = d, !.slot = NoSlot, !.next = NoDay], handlers)

selectSlot(t) ==
  /\ Click("when") /\ ~page.loading /\ t \in page.slots
  /\ Render([page EXCEPT !.slot = t, !.slotOf = page.of, !.step = "details"], handlers)

Back ==
  \/ Click("professional") /\ Render([page EXCEPT !.step = "service"], handlers)
  \/ Click("when") /\ Render([page EXCEPT !.step = IF hasProfessionalStep THEN "professional"
                                                   ELSE "service"], handlers)
  \/ Click("details") /\ Render([page EXCEPT !.step = "when"], handlers)

\* Mutant: every step of the bar can be jumped to.
jumpToCompletedStep_Any ==
  \E i, j \in DOMAIN stepOrder :
    Click(stepOrder[j]) /\ Render([page EXCEPT !.step = stepOrder[i]], handlers)

jumpToCompletedStep ==
  \E i, j \in DOMAIN stepOrder :
    /\ stepOrder[j] \in {"professional", "when", "details"} /\ i < j
    /\ Click(stepOrder[j]) /\ Render([page EXCEPT !.step = stepOrder[i]], handlers)

\* Mutant: the button stays enabled while a submission is on its way.
submitBooking_Twice(h) ==
  /\ Click("details") /\ page.slot # NoSlot /\ At(h, "idle")
  /\ handlers' = [handlers EXCEPT ![h] = [Idle EXCEPT !.pc = "book", !.by = "submit", !.edit = "book",
                                            !.seen = page.slot, !.key = choice(page)]]
  /\ page' = [page EXCEPT !.submit = h]

\* One submission at a time; what is on screen is what is sent.
submitBooking(h) ==
  /\ Click("details") /\ page.slot # NoSlot /\ page.submit = NoHandler /\ At(h, "idle")
  /\ handlers' = [handlers EXCEPT ![h] = [Idle EXCEPT !.pc = "book", !.by = "submit", !.edit = "book",
                                            !.seen = page.slot, !.key = choice(page)]]
  /\ page' = [page EXCEPT !.submit = h]

\* bookPublic as one transaction; Appointments has its steps.
bookPublic(h) ==
  LET k == handlers[h].key  t == handlers[h].seen  pro == proOf(k)
      end(l) == Goto(h, l) /\ UNCHANGED shop
  IN /\ At(h, "book")
     /\ IF ~(Serves(shop, k) /\ assertWithinBookingWindow(t, shop, Now)) THEN end("failed")
        ELSE \E times \in computeSlotsFor(settingsOf(shop, k), shop, pro, shop.duration[k.svc],
                                          toDateKey(t, shop.zone), Now) :
               IF t \notin times THEN end("conflict")
               ELSE /\ shop' = [shop EXCEPT !.booked = @ \cup
                         {[pro |-> pro, from |-> t, to |-> t + shop.duration[k.svc], by |-> "page",
                           svc |-> k.svc]}]
                    /\ Committed(h, [handlers[h] EXCEPT !.pc = FirstDelete("book")])
     /\ UNCHANGED <<cache, redisUp, circuit, begun, limits, faults, pageVars>>

\* Done; taken by someone else, back to the times; or an error that changes nothing.
SubmitReply(h) ==
  /\ handlers[h].by = "submit" /\ handlers[h].pc \in {"done", "conflict", "failed"}
  /\ LET p == [page EXCEPT !.submit = IF @ = h THEN NoHandler ELSE @]
     IN CASE At(h, "done") -> Render([p EXCEPT !.step = "done"], Freed(h))
          [] At(h, "conflict") -> Render([p EXCEPT !.slot = NoSlot, !.step = "when"], Freed(h))
          [] At(h, "failed") -> Render(p, Freed(h))
  /\ UNCHANGED <<server, faults, clicks>>

\* The network loses a request or an answer of the page.
Lost(h) ==
  /\ handlers[h].by \in {"page", "submit"} /\ handlers[h].pc \in {"get", "book", "done"}
  /\ Fault("lost") /\ handlers' = [handlers EXCEPT ![h].pc = "failed", ![h].val = NoEntry]
  /\ UNCHANGED <<server, pageVars>>

Customer ==
  \/ \E s \in Service : ChooseService(s)
  \/ \E p \in Pro \cup {NoPro} : ChooseProfessional(p)
  \/ \E d \in days \cup {NoDay} : selectDate(d)
  \/ \E t \in page.slots : selectSlot(t)
  \/ Back \/ jumpToCompletedStep
  \/ \E h \in Handler : submitBooking(h)

Answer(h) == LoadReply(h) \/ SlotsReply(h) \/ Ignored(h) \/ SubmitReply(h)

Next ==
  \/ CacheStep /\ UNCHANGED pageVars
  \/ Customer
  \/ \E h \in Handler : Load(h) \/ bookPublic(h) \/ Answer(h) \/ Lost(h)

Spec == Init /\ [][Next]_vars

\* Requests are served and answered; customers, visitors and staff act if they like.
FairSpec ==
  /\ Spec
  /\ \A h \in Handler : WF_vars((Serve(h) /\ UNCHANGED pageVars) \/ bookPublic(h) \/ Answer(h))
  /\ WF_vars(Expires /\ UNCHANGED pageVars)
  /\ WF_vars(Cooldown /\ UNCHANGED pageVars) /\ WF_vars(RedisReturns /\ UNCHANGED pageVars)

--------------------------------------------------------------------------------

\* TypeOK: every step on the page has what it shows: a time on the details, a
\* service from the second step on; a request on its way belongs to the page.
TypeOK ==
  /\ DOMAIN cache = limits.keys /\ faults <= limits.faults /\ begun <= limits.count
  /\ page.step \in {"loading", "lost", "service", "professional", "when", "details", "done"}
  /\ page.step \in {"professional", "when", "details", "done"} => page.svc \in Service
  /\ page.live # NoHandler => handlers[page.live].by = "page"
  /\ page.submit # NoHandler => handlers[page.submit].by = "submit"
  /\ page.slots \subseteq Int /\ page.next \in Day \cup {NoDay}
  /\ \A h \in Handler : handlers[h].by # "submit" => handlers[h].key \in limits.keys

\* SlotsFit: what the engine answers, for whatever shop the edits lead to, is
\* exactly the starts that fit: whole visits within the opening hours of the civil
\* day, the buffer away from every appointment, including those that fall on
\* another day in UTC (computeSlotsFor reads a widened day and computeDaySlots
\* works on instants).
SlotsFit ==
  \A k \in limits.keys \ {ProfileKey} :
    LET pro == proOf(k)  d == shop.duration[k.svc]
        apply == {e \in shop.exceptions : e.day = k.day /\ e.pro \in {pro, AllPros}}
        chosen == IF apply = {} THEN {{}} ELSE {{e} : e \in apply}
        instants == k.day * DAY - shop.zone .. k.day * DAY + DAY - shop.zone
    IN computeSlotsFor(settingsOf(shop, k), shop, pro, d, k.day, Now)
         = {{t \in instants : Fits(t, k.day, d, shop, pro, Now, e)} : e \in chosen}

\* InvalidationSuffices: once every edit has deleted what it deletes, an entry is
\* what a request would compute now, unless its reader overlapped an edit (the old
\* mark), Redis failed, or the edit was one that deletes nothing.
InvalidationSuffices ==
  faults = 0 /\ limits.ops \cap silent = {} /\ (\A h \in Handler : handlers[h].edit = "none")
    => \A k \in limits.keys : cache[k] # NoEntry /\ ~cache[k].old => ~Stale(k)

Mine == {b \in shop.booked : b.by = "page"}

\* TimesAreOfChoice: the times a customer can click on, and the one held, answer
\* the service, professional and day now chosen, however late earlier answers
\* arrive: every change of choice lets go of both.  Only an emptied date field
\* leaves the former list on screen.
TimesAreOfChoice ==
  page.day # NoDay =>
    /\ page.step = "when" /\ ~page.loading /\ page.slots # {} => page.of = choice(page)
    /\ page.slot # NoSlot /\ page.step # "done" => page.slotOf = choice(page)

\* BookedAsShown: a customer whose requests are not lost books once, whatever she
\* clicks while a submission is on its way; and for one who waits for the answer
\* the last page shows the booking that was made.
BookedAsShown ==
  /\ "lost" \notin limits.faulty => Cardinality(Mine) <= 1
  /\ limits.patient /\ page.step = "done"
       => \E b \in Mine : b.svc = page.svc /\ b.from = page.slot /\ b.pro = proOf(choice(page))

\* CacheCatchesUp: stale entries do not last: the time to live ends them even when
\* their deletion was skipped, overtaken or never asked for.
CacheCatchesUp ==
  LET behind == \E k \in limits.keys : Stale(k)
  IN behind ~> ~behind
================================================================================
