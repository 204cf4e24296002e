------------------------------- MODULE SlotEngine -------------------------------
(***************************************************************************)
(* The availability engine: which times of a civil day a professional      *)
(* offers.  Instants and minutes of the day are counted in units of which  *)
(* a day has DAY; a time zone is the offset of its clock from UTC.         *)
(*                                                                         *)
(* A shop is the configuration of a tenant: time zone, grid, buffer,       *)
(* notice, advance, its weekly rules, its exceptions and the appointments  *)
(* that occupy time.  Rules and exceptions of pro AllPros are the tenant's *)
(* own, those without a professionalId.                                    *)
(***************************************************************************)
EXTENDS Intervals, FiniteSets, Sequences, SequencesExt

CONSTANTS DAY, WEEK, AllPros

ASSUME DayAssumption == DAY \in Nat /\ DAY % 2 = 0 /\ DAY > 0 /\ WEEK \in Nat \ {0}

\* The day a clock of the zone shows at an instant.
toDateKey(t, zone) == (t + zone) \div DAY

\* The instant of a minute of a civil day: the offset is read at the instant the
\* same clock would show in UTC.  A zone with one offset needs no second try.
zonedCivilToUtc(day, minute, zone) == day * DAY + minute - zone

\* The weekday is that of noon.
dayOfWeek(day, zone) == toDateKey(zonedCivilToUtc(day, DAY \div 2, zone), zone) % WEEK

\* The exception that is found first decides the day alone; without one, the
\* rules of the weekday.
windows(day, zone, rules, exceptions) ==
  LET found == {i \in DOMAIN exceptions : exceptions[i].day = day}
      first == exceptions[Min(found)]
  IN IF found # {}
     THEN IF first.isAvailable THEN {[start |-> first.start, end |-> first.end]} ELSE {}
     ELSE {[start |-> r.start, end |-> r.end] :
             r \in {r \in rules : r.dayOfWeek = dayOfWeek(day, zone)}}

\* The starts of one window: a grid anchored at its start.
grid(window, duration, step) ==
  {m \in window.start .. (window.end - duration) : (m - window.start) % step = 0}

computeDaySlots(day, duration, shop, rules, exceptions, busy, now) ==
  LET minutes == UNION {grid(w, duration, shop.step) :
                          w \in windows(day, shop.zone, rules, exceptions)}
      starts == {zonedCivilToUtc(day, m, shop.zone) : m \in minutes}
  IN {t \in starts : /\ t >= now + shop.notice
                     /\ ~hasOverlap([from |-> t, to |-> t + duration], busy, shop.buffer)}

\* Mutant: only the appointments of the day in UTC are read.
fetched_UtcDay(day, pro, booked) ==
  {b \in booked : b.pro = pro /\ b.from < (day + 1) * DAY /\ b.to > day * DAY}

\* The rows that computeSlotsFor reads: a day in UTC, widened by half a day.
fetched(day, pro, booked) ==
  {b \in booked : /\ b.pro = pro
                  /\ b.from < (day + 1) * DAY + DAY \div 2
                  /\ b.to > day * DAY - DAY \div 2}

\* Settings are those read earlier; rules, exceptions and appointments those read
\* now.  The exceptions come back in no particular order.
computeSlotsFor(settings, shop, pro, duration, day, now) ==
  LET mine(rows) == {r \in rows : r.pro \in {pro, AllPros}}
      theDay == {e \in mine(shop.exceptions) : e.day = day}
  IN {computeDaySlots(day, duration, settings, mine(shop.rules), order,
                      fetched(day, pro, shop.booked), now) : order \in SetToSeqs(theDay)}

\* Booking itself insists on more than the notice, and on the advance.
assertWithinBookingWindow(t, shop, now) ==
  /\ t > now + shop.notice
  /\ toDateKey(t, shop.zone) <= toDateKey(now + shop.advance * DAY, shop.zone)

--------------------------------------------------------------------------------
(* What the engine promises, said of one start.                            *)

\* The opening hours of a day for a professional, under exception e if there is one.
Openings(day, shop, pro, e) ==
  IF e # {} THEN {x \in e : x.isAvailable}
  ELSE {r \in shop.rules : r.pro \in {pro, AllPros} /\ r.dayOfWeek = day % WEEK}

\* A start of the grid whose whole visit lies in opening hours, at least the buffer
\* away from every appointment of the professional, and not too soon.
Fits(t, day, duration, shop, pro, now, e) ==
  LET local == t + shop.zone - day * DAY
  IN /\ \E o \in Openings(day, shop, pro, e) :
          o.start <= local /\ local + duration <= o.end /\ (local - o.start) % shop.step = 0
     /\ t >= now + shop.notice
     /\ \A b \in shop.booked :
          b.pro = pro => t + duration + shop.buffer <= b.from \/ b.to + shop.buffer <= t
================================================================================
