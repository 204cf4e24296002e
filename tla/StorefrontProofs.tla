---------------------------- MODULE StorefrontProofs ----------------------------
(***************************************************************************)
(* The booking page and the catalogue behind it, for every shop, cache,    *)
(* number of handlers and customer.                                        *)
(*                                                                         *)
(* First the engine: what it offers is what fits, whatever the order in    *)
(* which exceptions are found.  Then Inv: StoreOK, the database, Redis and *)
(* the handlers are well formed; PageOK, what the page shows and waits for *)
(* is what was chosen; BookedOK, the rows of the customer are those of the *)
(* submission that was accepted.  Last, Coherent: an entry that no edit    *)
(* overtook is fresh, or a handler is on its way to delete it.             *)
(***************************************************************************)
EXTENDS BookingPage, FiniteSetTheorems, WellFoundedInduction, TLAPS

--------------------------------------------------------------------------------
(* The engine.                                                             *)

\* Whole days and the rest: what division by the length of a day gives.
LEMMA DayOfNoon ==
  ASSUME NEW day \in Int, NEW zone \in Int
  PROVE  dayOfWeek(day, zone) = day % WEEK
<1>1. zonedCivilToUtc(day, DAY \div 2, zone) + zone = day * DAY + DAY \div 2
  <2>1. day * DAY \in Int /\ DAY \div 2 \in Int BY DayAssumption
  <2> QED BY <2>1 DEF zonedCivilToUtc
<1>2. (day * DAY + DAY \div 2) \div DAY = day
  BY DayAssumption, SMTT(60)
<1> QED BY <1>1, <1>2 DEF dayOfWeek, toDateKey

\* Enough of a zone and a buffer for the rows of a widened day.
HalfDay(zone, buffer) == zone + buffer <= DAY \div 2 /\ buffer - zone <= DAY \div 2

\* The rules of a professional, the windows of a weekday, the starts that fit.
RulesOf(s, pro) == {r \in s.rules : r.pro \in {pro, AllPros}}
Weekly(rules, day) == {[start |-> r.start, end |-> r.end] :
                         r \in {r \in rules : r.dayOfWeek = day % WEEK}}
Special(e) == IF e.isAvailable THEN {[start |-> e.start, end |-> e.end]} ELSE {}
FitStarts(s, pro, d, day, now, e) ==
  {t \in day * DAY - s.zone .. day * DAY + DAY - s.zone : Fits(t, day, d, s, pro, now, e)}

\* A sequence of n exceptions that are all of one day; its first decides.
OfDay(day, zone, n, E, order) ==
  /\ day \in Int /\ zone \in Int /\ n \in Nat
  /\ order \in [1 .. n -> E] /\ \A e \in E : e.day = day

\* The first exception found decides the windows; without one the weekday does.
LEMMA WindowsOfOrder ==
  ASSUME NEW day, NEW zone, NEW rules, NEW n, NEW E, NEW order, OfDay(day, zone, n, E, order)
  PROVE  /\ n = 0 => windows(day, zone, rules, order) = Weekly(rules, day)
         /\ n # 0 => windows(day, zone, rules, order) = Special(order[1])
<1> USE DEF OfDay
<1> DEFINE found == {i \in DOMAIN order : order[i].day = day}
<1>1. found = 1 .. n OBVIOUS
<1>2. CASE n = 0
  <2>1. found = {} BY <1>1, <1>2
  <2>2. windows(day, zone, rules, order)
        = {[start |-> r.start, end |-> r.end] : r \in {r \in rules : r.dayOfWeek = dayOfWeek(day, zone)}}
    BY <2>1 DEF windows
  <2> QED BY <1>2, <2>2, DayOfNoon DEF Weekly
<1>3. CASE n # 0
  <2>1. Min(found) = 1
    <3>1. 1 \in found /\ \A j \in found : 1 <= j BY <1>1, <1>3
    <3>2. Min(found) \in found /\ \A j \in found : Min(found) <= j BY <3>1 DEF Min
    <3>3. Min(found) <= 1 /\ 1 <= Min(found) /\ Min(found) \in Int BY <1>1, <3>1, <3>2
    <3> QED BY <3>3
  <2>2. found # {} BY <1>1, <1>3
  <2> QED BY <1>3, <2>1, <2>2 DEF windows, Special
<1> QED BY <1>2, <1>3

\* The orders of a finite set start with any of its elements.
LEMMA OrdersOf ==
  ASSUME NEW S, IsFiniteSet(S)
  PROVE  /\ Cardinality(S) \in Nat
         /\ Cardinality(S) = 0 <=> S = {}
         /\ SetToSeqs(S) \subseteq [1 .. Cardinality(S) -> S]
         /\ SetToSeqs(S) # {}
         /\ S # {} => \A f \in SetToSeqs(S) : f[1] \in S
         /\ \A e \in S : \E f \in SetToSeqs(S) : f[1] = e
<1> DEFINE n == Cardinality(S)
<1>1. n \in Nat /\ (n = 0 <=> S = {}) BY FS_CardinalityType, FS_EmptySet
<1>2. PICK f \in Bijection(1 .. n, S) : TRUE
  <2>1. ExistsBijection(1 .. n, S) BY FS_CardinalityType
  <2> QED BY <2>1 DEF ExistsBijection
<1>3. /\ f \in [1 .. n -> S] /\ \A i, j \in 1 .. n : f[i] = f[j] => i = j
      /\ \A e \in S : \E i \in 1 .. n : f[i] = e
  BY <1>2 DEF Bijection, Injection, Surjection, IsInjective
<1>4. f \in SetToSeqs(S) BY <1>3 DEF SetToSeqs
<1>5. ASSUME NEW e \in S PROVE \E g \in SetToSeqs(S) : g[1] = e
  <2>1. PICK i \in 1 .. n : f[i] = e BY <1>3
  <2>2. 1 \in 1 .. n BY <1>1, <2>1
  <2> DEFINE g == [j \in 1 .. n |-> IF j = 1 THEN e ELSE IF j = i THEN f[1] ELSE f[j]]
  <2>3. g \in [1 .. n -> S] BY <1>3, <2>2
  <2>4. ASSUME NEW a \in 1 .. n, NEW b \in 1 .. n, a # b PROVE g[a] # g[b]
    BY <1>3, <2>1, <2>2, <2>4
  <2>5. g \in SetToSeqs(S) BY <2>3, <2>4 DEF SetToSeqs
  <2>6. g[1] = e BY <2>2
  <2> QED BY <2>5, <2>6
<1>6. SetToSeqs(S) \subseteq [1 .. n -> S] BY DEF SetToSeqs
<1>7. S # {} => \A g \in SetToSeqs(S) : g[1] \in S
  <2>1. S # {} => 1 \in 1 .. n BY <1>1
  <2> QED BY <1>6, <2>1
<1> QED BY <1>1, <1>4, <1>5, <1>6, <1>7

\* A start that windows offer is one whose visit fits, and the rows read are all
\* that matter to it.
LEMMA StartFits ==
  ASSUME NEW s \in Shops, NEW pro \in Pro, NEW d \in Nat \ {0}, NEW day \in Int, NEW now \in Int,
         HalfDay(s.zone, s.buffer), NEW t \in Int, NEW a \in 0 .. DAY, NEW z \in 0 .. DAY,
         a <= t + s.zone - day * DAY, t + s.zone - day * DAY + d <= z
  PROVE  hasOverlap([from |-> t, to |-> t + d], fetched(day, pro, s.booked), s.buffer)
         <=> ~\A b \in s.booked :
                b.pro = pro => t + d + s.buffer <= b.from \/ b.to + s.buffer <= t
<1> DEFINE x == day * DAY
<1>1. x \in Int /\ DAY \in Nat /\ DAY \div 2 \in Nat /\ s.zone \in Int /\ s.buffer \in Nat
      /\ (day + 1) * DAY = x + DAY
  BY DayAssumption DEF Shops
<1>2. \A b \in s.booked : b.from \in Int /\ b.to \in Int BY DEF Shops, Row
<1>3. ASSUME NEW b \in s.booked, b.pro = pro,
             ~(t + d + s.buffer <= b.from \/ b.to + s.buffer <= t)
      PROVE  b \in fetched(day, pro, s.booked)
  <2>1. b.from < x + DAY + DAY \div 2
    <3>1. b.from < t + d + s.buffer /\ t + d <= x - s.zone + DAY BY <1>1, <1>2, <1>3
    <3> HIDE DEF x
    <3> QED BY <1>1, <1>2, <3>1 DEF HalfDay
  <2>2. b.to > x - DAY \div 2
    <3>1. b.to + s.buffer > t /\ t >= x - s.zone BY <1>1, <1>2, <1>3
    <3> HIDE DEF x
    <3> QED BY <1>1, <1>2, <3>1 DEF HalfDay
  <2> QED BY <1>1, <1>3, <2>1, <2>2 DEF fetched
<1>4. ASSUME NEW b \in s.booked
      PROVE  overlaps([from |-> t, to |-> t + d], [from |-> b.from - s.buffer, to |-> b.to + s.buffer])
             <=> ~(t + d + s.buffer <= b.from \/ b.to + s.buffer <= t)
  BY <1>1, <1>2 DEF overlaps
<1>5. \A b \in fetched(day, pro, s.booked) : b \in s.booked /\ b.pro = pro BY DEF fetched
<1> QED BY <1>3, <1>4, <1>5 DEF hasOverlap

\* Settings read now are the shop's.
SameSettings(settings, s) ==
  /\ settings.zone = s.zone /\ settings.step = s.step
  /\ settings.buffer = s.buffer /\ settings.notice = s.notice

Computing(s, pro, d, day, now, settings, n, E, order) ==
  /\ s \in Shops /\ pro \in Pro /\ d \in Nat \ {0} /\ day \in Int /\ now \in Int
  /\ HalfDay(s.zone, s.buffer) /\ SameSettings(settings, s)
  /\ E \subseteq s.exceptions /\ OfDay(day, s.zone, n, E, order)

\* One order of the day's exceptions gives the starts that fit.
LEMMA DayFits ==
  ASSUME NEW s, NEW pro, NEW d, NEW day, NEW now, NEW settings, NEW n, NEW E, NEW order,
         Computing(s, pro, d, day, now, settings, n, E, order)
  PROVE  LET times == computeDaySlots(day, d, settings, RulesOf(s, pro), order,
                                      fetched(day, pro, s.booked), now)
         IN /\ n = 0 => times = FitStarts(s, pro, d, day, now, {})
            /\ n # 0 => times = FitStarts(s, pro, d, day, now, {order[1]})
<1>0. settings.zone = s.zone /\ settings.step = s.step /\ settings.buffer = s.buffer
      /\ settings.notice = s.notice /\ n \in Nat /\ order \in [1 .. n -> E]
      /\ s \in Shops /\ pro \in Pro /\ d \in Nat \ {0} /\ day \in Int /\ now \in Int
      /\ HalfDay(s.zone, s.buffer) /\ E \subseteq s.exceptions /\ \A e \in E : e.day = day
  BY DEF Computing, SameSettings, OfDay
<1> USE <1>0
<1> DEFINE rules == RulesOf(s, pro)
           ws == windows(day, settings.zone, rules, order)
           e == IF n = 0 THEN {} ELSE {order[1]}
           opens == Openings(day, s, pro, e)
           x == day * DAY
           minutes == UNION {grid(w, d, settings.step) : w \in ws}
<1>1. x \in Int /\ s.zone \in Int /\ s.buffer \in Nat /\ s.step \in Nat \ {0} /\ s.notice \in Nat
      /\ DAY \in Nat
  BY DayAssumption DEF Shops
<1> HIDE DEF x
<1>2. /\ \A o \in opens : o.start \in 0 .. DAY /\ o.end \in 0 .. DAY
      /\ ws = {[start |-> o.start, end |-> o.end] : o \in opens}
  <2>0. (n = 0 => ws = Weekly(rules, day)) /\ (n # 0 => ws = Special(order[1]))
    <3>1. settings.zone \in Int BY <1>1
    <3>2. OfDay(day, settings.zone, n, E, order) BY <3>1 DEF OfDay
    <3> QED BY <3>2, WindowsOfOrder
  <2>1. CASE n = 0
    <3>1. ws = Weekly(rules, day) BY <2>0, <2>1
    <3>2. opens = {r \in rules : r.dayOfWeek = day % WEEK} BY <2>1 DEF Openings, RulesOf
    <3>3. opens \subseteq s.rules /\ s.rules \subseteq Rule BY <3>2 DEF Shops, RulesOf
    <3>4. \A o \in opens : o.start \in 0 .. DAY /\ o.end \in 0 .. DAY BY <3>3 DEF Rule
    <3> HIDE DEF ws, opens, rules
    <3> QED BY <3>1, <3>2, <3>4 DEF Weekly
  <2>2. CASE n # 0
    <3>1. ws = IF order[1].isAvailable
               THEN {[start |-> order[1].start, end |-> order[1].end]} ELSE {}
      BY <2>0, <2>2 DEF Special
    <3>2. opens = {y \in {order[1]} : y.isAvailable} BY <2>2 DEF Openings
    <3>3. order[1] \in s.exceptions BY <2>2
    <3>4. order[1].start \in 0 .. DAY /\ order[1].end \in 0 .. DAY BY <3>3 DEF Shops, Exception
    <3> QED BY <3>1, <3>2, <3>4
  <2> QED BY <2>1, <2>2
<1> HIDE DEF ws, opens
<1>3. ASSUME NEW m
      PROVE  m \in minutes <=>
               m \in Int /\ \E o \in opens : o.start <= m /\ m + d <= o.end /\ (m - o.start) % s.step = 0
  <2>1. m \in minutes <=> \E o \in opens : m \in grid([start |-> o.start, end |-> o.end], d, s.step)
    BY <1>2
  <2>2. ASSUME NEW o \in opens
        PROVE  m \in grid([start |-> o.start, end |-> o.end], d, s.step) <=>
                 m \in Int /\ o.start <= m /\ m + d <= o.end /\ (m - o.start) % s.step = 0
    BY <1>1, <1>2 DEF grid
  <2> QED BY <2>1, <2>2
<1> HIDE DEF minutes
<1> DEFINE starts == {zonedCivilToUtc(day, m, settings.zone) : m \in minutes}
           Good(t) == /\ t >= now + s.notice
                      /\ ~hasOverlap([from |-> t, to |-> t + d], fetched(day, pro, s.booked), s.buffer)
<1>4. computeDaySlots(day, d, settings, rules, order, fetched(day, pro, s.booked), now)
      = {t \in starts : Good(t)}
  BY DEF computeDaySlots, minutes, ws
<1>5. ASSUME NEW t
      PROVE  t \in starts <=>
               t \in Int /\ \E o \in opens : o.start <= t + s.zone - x /\ t + s.zone - x + d <= o.end
                                            /\ (t + s.zone - x - o.start) % s.step = 0
  <2>1. ASSUME t \in starts
        PROVE  t \in Int /\ \E o \in opens : o.start <= t + s.zone - x /\ t + s.zone - x + d <= o.end
                                            /\ (t + s.zone - x - o.start) % s.step = 0
    <3>1. PICK m \in minutes : t = x + m - s.zone BY <2>1 DEF zonedCivilToUtc, x
    <3>2. PICK o \in opens : o.start <= m /\ m + d <= o.end /\ (m - o.start) % s.step = 0
      BY <1>3
    <3>3. m \in Int BY <1>3
    <3>4. t \in Int /\ t + s.zone - x = m
      <4>1. \A i, j, k \in Int : i + j - k \in Int /\ (i + j - k) + k - i = j OBVIOUS
      <4> QED BY <1>1, <3>1, <3>3, <4>1
    <3>5. o.start <= t + s.zone - x /\ t + s.zone - x + d <= o.end BY <3>2, <3>4
    <3>6. (t + s.zone - x - o.start) % s.step = 0
      <4> DEFINE y == t + s.zone - x
      <4>1. y = m BY <3>4
      <4> HIDE DEF y
      <4>2. (y - o.start) % s.step = 0 BY <3>2, <4>1
      <4>3. o.start \in Int BY <1>2
      <4> QED BY <1>1, <3>4, <4>2, <4>3 DEF y
    <3> QED BY <3>4, <3>5, <3>6
  <2>2. ASSUME t \in Int, NEW o \in opens, o.start <= t + s.zone - x, t + s.zone - x + d <= o.end,
               (t + s.zone - x - o.start) % s.step = 0
        PROVE  t \in starts
    <3> DEFINE m == t + s.zone - x
    <3>1. m \in Int /\ t = x + m - s.zone
      BY <1>1, <2>2
    <3>2. m \in minutes
      <4>1. o.start <= m /\ m + d <= o.end /\ (m - o.start) % s.step = 0
        BY <1>1, <1>2, <2>2
      <4> HIDE DEF m
      <4> QED BY <1>3, <3>1, <4>1
    <3> QED BY <3>1, <3>2 DEF zonedCivilToUtc, x
  <2> QED BY <2>1, <2>2
<1> HIDE DEF starts
<1>6. ASSUME NEW t
      PROVE  (t \in starts /\ Good(t)) <=>
               t \in x - s.zone .. x + DAY - s.zone /\ Fits(t, day, d, s, pro, now, e)
  <2>1. ASSUME NEW o \in opens, t \in Int, o.start <= t + s.zone - x, t + s.zone - x + d <= o.end
        PROVE  /\ t \in x - s.zone .. x + DAY - s.zone
               /\ hasOverlap([from |-> t, to |-> t + d], fetched(day, pro, s.booked), s.buffer)
                  <=> ~\A b \in s.booked :
                         b.pro = pro => t + d + s.buffer <= b.from \/ b.to + s.buffer <= t
    <3>1. o.start \in 0 .. DAY /\ o.end \in 0 .. DAY BY <1>2
    <3>2. t \in x - s.zone .. x + DAY - s.zone
      <4>1. o.start \in Int /\ o.start >= 0 /\ o.end \in Int /\ o.end <= DAY BY <1>1, <3>1
      <4>2. t >= x - s.zone BY <1>1, <2>1, <4>1
      <4>3. t <= x + DAY - s.zone BY <1>1, <2>1, <4>1
      <4> QED BY <1>1, <2>1, <4>2, <4>3
    <3> QED BY <2>1, <3>1, <3>2, StartFits DEF x
  <2>2. ASSUME t \in Int
        PROVE  Fits(t, day, d, s, pro, now, e) <=>
          /\ \E o \in opens : o.start <= t + s.zone - x /\ t + s.zone - x + d <= o.end
                              /\ (t + s.zone - x - o.start) % s.step = 0
          /\ t >= now + s.notice
          /\ \A b \in s.booked : b.pro = pro => t + d + s.buffer <= b.from \/ b.to + s.buffer <= t
    <3> DEFINE local == t + s.zone - x
    <3>1. local = t + s.zone - day * DAY BY DEF x
    <3>2. Fits(t, day, d, s, pro, now, e) <=>
          /\ \E o \in opens : o.start <= local /\ local + d <= o.end
                              /\ (local - o.start) % s.step = 0
          /\ t >= now + s.notice
          /\ \A b \in s.booked : b.pro = pro => t + d + s.buffer <= b.from \/ b.to + s.buffer <= t
      <4> HIDE DEF local
      <4> QED BY <3>1, Zenon DEF Fits, opens
    <3>3. \A o \in opens : o.start \in Int /\ o.end \in Int BY <1>2
    <3> QED BY <1>1, <2>2, <3>2, <3>3
  <2>3. x - s.zone .. x + DAY - s.zone \subseteq Int BY <1>1
  <2> HIDE DEF e, x
  <2> QED BY <1>5, <2>1, <2>2, <2>3
<1> HIDE DEF e, x, Good
<1>7. {t \in starts : Good(t)}
      = {t \in x - s.zone .. x + DAY - s.zone : Fits(t, day, d, s, pro, now, e)}
  BY <1>6
<1>8. FitStarts(s, pro, d, day, now, e)
      = {t \in x - s.zone .. x + DAY - s.zone : Fits(t, day, d, s, pro, now, e)}
  BY DEF FitStarts, x
<1>9. computeDaySlots(day, d, settings, RulesOf(s, pro), order, fetched(day, pro, s.booked), now)
      = FitStarts(s, pro, d, day, now, e)
  BY <1>4, <1>7, <1>8
<1> QED BY <1>9 DEF e

\* A request for the times of a day, computed with settings read now.
Offering(s, pro, d, day, now, settings) ==
  /\ s \in Shops /\ IsFiniteSet(s.exceptions) /\ HalfDay(s.zone, s.buffer)
  /\ pro \in Pro /\ d \in Nat \ {0} /\ day \in Int /\ now \in Int /\ SameSettings(settings, s)

\* An answer for each exception that may decide the day.
FitAnswers(s, pro, d, day, now) ==
  LET apply == {e \in s.exceptions : e.day = day /\ e.pro \in {pro, AllPros}}
      chosen == IF apply = {} THEN {{}} ELSE {{e} : e \in apply}
  IN {FitStarts(s, pro, d, day, now, e) : e \in chosen}

\* What the engine answers is exactly the starts that fit.
LEMMA EngineFits ==
  ASSUME NEW s, NEW pro, NEW d, NEW day, NEW now, NEW settings,
         Offering(s, pro, d, day, now, settings)
  PROVE  computeSlotsFor(settings, s, pro, d, day, now) = FitAnswers(s, pro, d, day, now)
<1> USE DEF Offering, FitAnswers
<1> DEFINE apply == {e \in s.exceptions : e.day = day /\ e.pro \in {pro, AllPros}}
           n == Cardinality(apply)
           Starts(e) == FitStarts(s, pro, d, day, now, e)
           Times(order) == computeDaySlots(day, d, settings, RulesOf(s, pro), order,
                                           fetched(day, pro, s.booked), now)
<1>1. apply \subseteq s.exceptions /\ (\A e \in apply : e.day = day) OBVIOUS
<1>2. IsFiniteSet(apply) BY <1>1, FS_Subset
<1>3. computeSlotsFor(settings, s, pro, d, day, now) = {Times(order) : order \in SetToSeqs(apply)}
  <2>1. {e \in {r \in s.exceptions : r.pro \in {pro, AllPros}} : e.day = day} = apply OBVIOUS
  <2> QED BY <2>1 DEF computeSlotsFor, RulesOf
<1> HIDE DEF apply
<1>4. /\ n \in Nat /\ (n = 0 <=> apply = {}) /\ SetToSeqs(apply) \subseteq [1 .. n -> apply]
      /\ SetToSeqs(apply) # {}
      /\ apply # {} => \A f \in SetToSeqs(apply) : f[1] \in apply
      /\ \A e \in apply : \E f \in SetToSeqs(apply) : f[1] = e
  BY <1>2, OrdersOf
<1> HIDE DEF n
<1>5. ASSUME NEW order \in SetToSeqs(apply)
      PROVE  (n = 0 => Times(order) = Starts({})) /\ (n # 0 => Times(order) = Starts({order[1]}))
  <2>1. order \in [1 .. n -> apply] BY <1>4
  <2>2. OfDay(day, s.zone, n, apply, order) BY <1>1, <1>4, <2>1 DEF OfDay, Shops
  <2>3. Computing(s, pro, d, day, now, settings, n, apply, order) BY <1>1, <2>2 DEF Computing
  <2> QED BY <2>3, DayFits
<1> HIDE DEF Times, Starts
<1>6. CASE apply = {}
  <2>1. {Times(order) : order \in SetToSeqs(apply)} = {Starts({})} BY <1>4, <1>5, <1>6
  <2>2. {Starts(e) : e \in {{}}} = {Starts({})} OBVIOUS
  <2> QED BY <1>3, <1>6, <2>1, <2>2 DEF Starts, apply
<1>7. CASE apply # {}
  <2>1. {Times(order) : order \in SetToSeqs(apply)} = {Starts(e) : e \in {{y} : y \in apply}}
    <3>1. \A order \in SetToSeqs(apply) : order[1] \in apply /\ Times(order) = Starts({order[1]})
      BY <1>4, <1>5, <1>7
    <3>2. \A e \in apply : \E order \in SetToSeqs(apply) : order[1] = e BY <1>4
    <3> QED BY <3>1, <3>2
  <2> QED BY <1>3, <1>7, <2>1 DEF Starts, apply
<1> QED BY <1>6, <1>7

--------------------------------------------------------------------------------
(* Types of the catalogue.                                                 *)

Settings == [zone : Int, step : Nat \ {0}, buffer : Nat, notice : Nat, duration : Nat \ {0}]
Profiles == [services : SUBSET Service, pros : SUBSET Pro]
Picks == [svc : Service \cup {NoService}, day : Day \cup {NoDay}, pro : Pro \cup {NoPro}]
Chosen == [svc : Service, day : Day \cup {NoDay}, pro : Pro \cup {NoPro}]
Edits == {"createRule", "deleteRule", "createException", "deleteException", "createService",
          "addMember", "updateService", "removeService", "updateBooking", "updateProfile",
          "removeMember", "cancel", "release", "deleteAccount"}
Handling ==
  [pc : {"idle", "get", "tenant", "compute", "set", "done", "failed", "delProfile", "scan",
         "del", "book", "conflict"},
   by : {"nobody", "page", "submit", "visitor", "staff"}, key : {ProfileKey} \cup Picks,
   seen : Settings \cup Int \cup {NoEntry}, val : Response \cup {NoEntry},
   todo : SUBSET Key, edit : Edits \cup {"none", "book"}, old : BOOLEAN]
Entries == [val : Response, old : BOOLEAN, expires : BOOLEAN]

\* Where a page is open no service and no member is added.
Shown(l, v) ==
  v \in Profiles /\ ("browse" \in l.ops => v.services \subseteq l.shop.services /\ v.pros \subseteq l.shop.pros)

\* An answer is of its key.
Valued(l, key, v) == (key = ProfileKey => Shown(l, v)) /\ (key # ProfileKey => v \in SUBSET Int)

\* Who is at which step, with what.
Places(c) ==
  /\ c.pc = "idle" => c.by = "nobody"
  /\ c.by = "nobody" => c.pc = "idle"
  /\ c.by \in {"page", "visitor"} => c.pc \in {"get", "tenant", "compute", "set", "done", "failed"}
  /\ c.by = "submit" => c.pc \in {"book", "scan", "del", "done", "conflict", "failed"}
  /\ c.by = "staff" => c.pc \in {"delProfile", "scan", "del", "done"}

Handled(l, c) ==
  /\ c \in Handling /\ Places(c)
  /\ c.by # "submit" => c.key \in l.keys
  /\ c.by = "submit" => c.key \in Chosen /\ c.seen \in Int /\ c.edit = "book"
  /\ c.pc \in {"delProfile", "scan", "del"} => c.edit # "none"
  /\ c.pc = "del" => c.todo \subseteq l.keys \ {ProfileKey}
  /\ c.pc = "compute" => c.key # ProfileKey /\ c.seen \in Settings
  /\ c.pc = "set" \/ (c.pc = "done" /\ c.by \in {"page", "visitor"}) => Valued(l, c.key, c.val)
  /\ c.pc = "failed" /\ c.by = "page" => c.val = NoEntry

ShopOK(l, s) ==
  /\ s \in Shops /\ IsFiniteSet(s.exceptions)
  /\ s.zone \in l.zones \cup {l.shop.zone} /\ s.buffer \in l.buffers \cup {l.shop.buffer}
  /\ "browse" \in l.ops => s.services \subseteq l.shop.services /\ s.pros \subseteq l.shop.pros

CacheOK(l, c) ==
  /\ DOMAIN c = l.keys
  /\ \A k \in l.keys : c[k] # NoEntry => c[k] \in Entries /\ Valued(l, k, c[k].val)

HandlersOK(l, hs) == DOMAIN hs = Handler /\ \A h \in Handler : Handled(l, hs[h])

StoreOK ==
  /\ limits \in Limits /\ ShopOK(limits, shop) /\ CacheOK(limits, cache)
  /\ HandlersOK(limits, handlers)
  /\ redisUp \in BOOLEAN /\ circuit \in {"closed", "open"}
  /\ faults \in 0 .. limits.faults /\ begun \in 0 .. limits.count

Deletes(c, k) ==
  \/ c.pc = "delProfile"
  \/ c.pc = "scan" /\ k # ProfileKey
  \/ c.pc = "del" /\ k \in c.todo

\* Neither Redis nor the shop does anything that leaves entries to their time to live.
Calm == faults = 0 /\ limits.ops \cap silent = {}

\* An answer is what a request would compute from shop s.
AnswersOf(s, key) ==
  IF key = ProfileKey THEN {profileOf(s)}
  ELSE IF TooFar(s, key.day) THEN {{}}
  ELSE computeSlotsFor(settingsOf(s, key), s, proOf(key), s.duration[key.svc], key.day, Now)
Fresh(s, key, v) == Serves(s, key) /\ v \in AnswersOf(s, key)

\* What a request that overlapped no edit has read, what it has found, what it wrote:
\* an entry is fresh or about to be deleted.
ReadFresh(s, c) ==
  c.pc = "compute" /\ ~c.old =>
    Serves(s, c.key) /\ ~TooFar(s, c.key.day) /\ c.seen = settingsOf(s, c.key)
FoundFresh(s, c) == c.pc = "set" /\ ~c.old => Fresh(s, c.key, c.val)
EntryFresh(s, e, k, hs) ==
  e # NoEntry /\ ~e.old => Fresh(s, k, e.val) \/ \E h \in Handler : Deletes(hs[h], k)

Coherent ==
  Calm => /\ redisUp /\ circuit = "closed"
          /\ \A h \in Handler : ReadFresh(shop, handlers[h]) /\ FoundFresh(shop, handlers[h])
          /\ \A k \in limits.keys : EntryFresh(shop, cache[k], k, handlers)

Pages ==
  [step : {"loading", "lost", "service", "professional", "when", "details", "done"},
   profile : Profiles \cup {NoEntry}, svc : Service \cup {NoService}, pro : Pro \cup {NoPro},
   day : Day \cup {NoDay}, slots : SUBSET Int, of : Picks \cup {NoEntry},
   slot : Int \cup {NoSlot}, slotOf : Picks \cup {NoEntry}, loading : BOOLEAN,
   searching : BOOLEAN, at : Nat, next : Day \cup {NoDay},
   live : Handler \cup {NoHandler}, submit : Handler \cup {NoHandler}]

Several(p) == p.profile # NoEntry /\ Cardinality(p.profile.pros) > 1

\* What is chosen is what the profile shows.
ChoiceOK(l, p) ==
  /\ p \in Pages /\ p.day \in days \cup {NoDay}
  /\ p.step \notin {"loading", "lost"} => "browse" \in l.ops /\ Shown(l, p.profile)
  /\ p.live # NoHandler => "browse" \in l.ops
  /\ p.step \in {"professional", "when", "details", "done"} \/ p.submit # NoHandler
       => p.svc \in p.profile.services
  /\ p.step \in {"loading", "lost"} => p.pro = NoPro
  /\ p.pro # NoPro => Several(p) /\ p.pro \in p.profile.pros
  /\ p.step = "professional" => Several(p)

\* The request that the page waits for.
Awaited(p, c) ==
  /\ c.by = "page" /\ p.step \in {"loading", "when"}
  /\ p.step = "loading" => c.key = ProfileKey
  /\ p.step = "when" =>
       /\ p.loading /\ p.day # NoDay
       /\ p.at = 0 => c.key = choice(p)
       /\ p.at > 0 => p.slots = {} /\ p.day + p.at \in days
                      /\ c.key = [choice(p) EXCEPT !.day = p.day + p.at]

TimesOK(p) ==
  p.day # NoDay =>
    /\ p.step = "when" /\ ~p.loading /\ p.slots # {} => p.of = choice(p)
    /\ p.slot # NoSlot /\ p.step # "done" => p.slotOf = choice(p)

\* The row of a submission that was accepted.
RowOf(key, t, b) == b.svc = key.svc /\ b.from = t /\ b.pro = proOf(key)

Accepted(c) == c.by = "submit" /\ c.pc \in {"scan", "del", "done"}

SubmitOK(p, hs) ==
  /\ \A h \in Handler : hs[h].by = "submit" => p.submit = h
  /\ p.submit # NoHandler => hs[p.submit].by = "submit" /\ p.step \notin {"loading", "lost", "done"}
  /\ limits.patient /\ p.submit # NoHandler =>
       p.step = "details" /\ hs[p.submit].key = choice(p) /\ hs[p.submit].seen = p.slot

BookedOK ==
  /\ \A h \in Handler : Accepted(handlers[h]) =>
       \E b \in Mine : RowOf(handlers[h].key, handlers[h].seen, b)
  /\ "lost" \notin limits.faulty =>
       Mine = {} \/ \E b \in Mine : Mine = {b} /\ (page.step = "done" \/ \E h \in Handler : Accepted(handlers[h]))
  /\ limits.patient /\ page.step = "done" => \E b \in Mine : RowOf(choice(page), page.slot, b)

PageOK ==
  /\ ChoiceOK(limits, page) /\ TimesOK(page) /\ SubmitOK(page, handlers)
  /\ page.live # NoHandler => Awaited(page, handlers[page.live])

--------------------------------------------------------------------------------
(* The catalogue and the edits.                                            *)

\* The times of a day are instants, whatever was read when.
LEMMA TimesAreInstants ==
  ASSUME NEW settings, settings.zone \in Int, NEW s, NEW pro, NEW d, NEW day \in Int, NEW now,
         NEW times \in computeSlotsFor(settings, s, pro, d, day, now)
  PROVE  times \in SUBSET Int
<1>1. PICK rules, order, busy : times = computeDaySlots(day, d, settings, rules, order, busy, now)
  BY DEF computeSlotsFor
<1>2. ASSUME NEW t \in times PROVE t \in Int
  <2> DEFINE minutes == UNION {grid(w, d, settings.step) : w \in windows(day, settings.zone, rules, order)}
  <2>1. t \in {zonedCivilToUtc(day, m, settings.zone) : m \in minutes} BY <1>1 DEF computeDaySlots
  <2>2. PICK m \in minutes : t = zonedCivilToUtc(day, m, settings.zone) BY <2>1
  <2>3. m \in Int BY DEF grid
  <2>4. day * DAY \in Int BY DayAssumption
  <2> QED BY <2>2, <2>3, <2>4 DEF zonedCivilToUtc
<1> QED BY <1>2

\* A handler at rest is well formed.
LEMMA IdleOK ==
  ASSUME NEW l \in Limits
  PROVE  Handled(l, Idle) /\ Idle \in Handling
<1>1. Idle \in Handling BY DEF Handling, Idle
<1>2. Idle.pc = "idle" /\ Idle.by = "nobody" /\ Idle.key = ProfileKey BY DEF Idle
<1>3. ProfileKey \in l.keys BY LimitsAssumption
<1> QED BY <1>1, <1>2, <1>3 DEF Handled, Places

\* One handler moves.
LEMMA HandlerStep ==
  ASSUME NEW l, NEW hs, HandlersOK(l, hs), NEW h \in Handler, NEW c, Handled(l, c)
  PROVE  HandlersOK(l, [hs EXCEPT ![h] = c])
  BY DEF HandlersOK

\* A commit moves one handler and makes others old.
LEMMA CommitStep ==
  ASSUME StoreOK, NEW h \in Handler, NEW c, Handled(limits, c), Committed(h, c)
  PROVE  HandlersOK(limits, handlers')
<1>1. ASSUME NEW g \in Handler PROVE Handled(limits, handlers'[g])
  <2>1. CASE g = h BY <2>1 DEF Committed
  <2>2. CASE g # h
    <3>1. handlers'[g] = [handlers[g] EXCEPT !.old = @ \/ Reading(g)] BY <2>2 DEF Committed
    <3>2. Handled(limits, handlers[g]) BY DEF StoreOK, HandlersOK
    <3>3. handlers[g].old \/ Reading(g) \in BOOLEAN
      BY <3>2 DEF Handled, Handling, Reading
    <3> DEFINE o == handlers[g].old \/ Reading(g)
               r == [handlers[g] EXCEPT !.old = o]
    <3>4. o \in BOOLEAN BY <3>3
    <3> HIDE DEF o
    <3>5. r \in Handling /\ \A f \in {"pc", "by", "key", "seen", "val", "todo", "edit"} : r[f] = handlers[g][f]
      BY <3>2, <3>4 DEF Handled, Handling
    <3>6. Handled(limits, r) BY <3>2, <3>5 DEF Handled, Places
    <3> QED BY <3>1, <3>6 DEF o
  <2> QED BY <2>1, <2>2
<1> QED BY <1>1 DEF HandlersOK, Committed

\* Whose requests they are and what they ask for stays.
SameRequests(hs, hs2) ==
  \A h \in Handler : hs[h].by \in {"page", "submit"} \/ hs2[h].by \in {"page", "submit"} =>
    /\ hs2[h].by = hs[h].by /\ hs2[h].key = hs[h].key
    /\ hs2[h].by = "submit" => hs2[h].seen = hs[h].seen

\* A handler takes its next step.
Onward(h, c) ==
  /\ handlers' = [handlers EXCEPT ![h] = c] /\ Handled(limits, c)
  /\ c.by = handlers[h].by /\ c.key = handlers[h].key
  /\ c.by = "submit" => c.seen = handlers[h].seen

\* A step of one handler keeps the handlers well formed and the requests the same.
LEMMA MoveOK ==
  ASSUME StoreOK, NEW h \in Handler, NEW c, Onward(h, c)
  PROVE  HandlersOK(limits, handlers') /\ SameRequests(handlers, handlers')
<1>1. HandlersOK(limits, handlers') BY HandlerStep DEF StoreOK, Onward
<1>2. \A g \in Handler : handlers'[g] = IF g = h THEN c ELSE handlers[g]
  BY DEF StoreOK, HandlersOK, Onward
<1> QED BY <1>1, <1>2 DEF SameRequests, Onward

\* The step alone.
LEMMA GotoOK ==
  ASSUME StoreOK, NEW h \in Handler, NEW l, Goto(h, l), Handled(limits, [handlers[h] EXCEPT !.pc = l])
  PROVE  HandlersOK(limits, handlers') /\ SameRequests(handlers, handlers')
<1> DEFINE c == [handlers[h] EXCEPT !.pc = l]
<1>1. handlers[h] \in Handling BY DEF StoreOK, HandlersOK, Handled
<1>2. handlers' = [handlers EXCEPT ![h] = c] BY DEF Goto
<1>3. c.by = handlers[h].by /\ c.key = handlers[h].key /\ c.seen = handlers[h].seen
  BY <1>1 DEF Handling
<1>4. Onward(h, c) BY <1>2, <1>3 DEF Onward
<1> QED BY <1>4, MoveOK

\* getJson answers with an entry, which fits its key, or goes on to the database.
LEMMA GetJsonOK ==
  ASSUME StoreOK, NEW h \in Handler, getJson(h)
  PROVE  StoreOK' /\ SameRequests(handlers, handlers')
<1> DEFINE H == handlers[h]
           entry == IF Reached THEN cache[H.key] ELSE NoEntry
<1>1. Handled(limits, H) /\ H \in Handling /\ H.pc = "get" /\ H.by \in {"page", "visitor"}
  /\ H.key \in limits.keys
  BY DEF StoreOK, HandlersOK, Handled, Places, getJson, At, Handling
<1>2. HandlersOK(limits, handlers') /\ SameRequests(handlers, handlers')
  <2>1. CASE entry # NoEntry
    <3> DEFINE c == [H EXCEPT !.pc = "done", !.val = entry.val]
    <3>1. handlers' = [handlers EXCEPT ![h] = c]
      BY <2>1 DEF getJson
    <3>2. entry \in Entries /\ Valued(limits, H.key, entry.val)
      BY <1>1, <2>1 DEF StoreOK, CacheOK
    <3>3. entry.val \in Response BY <3>2 DEF Entries
    <3> HIDE DEF entry
    <3>4. c \in Handling BY <1>1, <3>3 DEF Handling
    <3>5. /\ c.pc = "done" /\ c.val = entry.val /\ c.by = H.by /\ c.key = H.key
          /\ c.seen = H.seen /\ c.edit = H.edit
      BY <1>1 DEF Handling
    <3> HIDE DEF c
    <3>6. Handled(limits, c) BY <1>1, <3>2, <3>4, <3>5 DEF Handled, Places
    <3>7. Onward(h, c) BY <3>1, <3>5, <3>6 DEF Onward
    <3> QED BY <3>7, MoveOK
  <2>2. CASE entry = NoEntry
    <3> DEFINE c == [H EXCEPT !.pc = "tenant"]
    <3>1. Goto(h, "tenant") BY <2>2 DEF getJson, Goto
    <3>2. c \in Handling /\ c.pc = "tenant" /\ c.by = H.by /\ c.key = H.key /\ c.edit = H.edit
      BY <1>1 DEF Handling
    <3> HIDE DEF c
    <3>3. Handled(limits, c) BY <1>1, <3>2 DEF Handled, Places
    <3> QED BY <3>1, <3>3, GotoOK DEF c
  <2> QED BY <2>1, <2>2
<1>3. circuit' \in {"closed", "open"} BY DEF StoreOK, getJson, tripCircuit
<1> QED BY <1>2, <1>3 DEF StoreOK, getJson

\* setJson writes what the handler has found, which fits the key.
LEMMA SetJsonOK ==
  ASSUME StoreOK, NEW h \in Handler, setJson(h)
  PROVE  StoreOK' /\ SameRequests(handlers, handlers')
<1> DEFINE H == handlers[h]
           c == [H EXCEPT !.pc = "done"]
<1>1. Handled(limits, H) /\ H \in Handling /\ H.pc = "set" /\ H.by \in {"page", "visitor"}
  /\ H.key \in limits.keys
  BY DEF StoreOK, HandlersOK, Handled, Places, setJson, At, Handling
<1>2. c \in Handling /\ c.pc = "done" /\ c.by = H.by /\ c.key = H.key /\ c.val = H.val
      /\ c.edit = H.edit
  BY <1>1 DEF Handling
<1>3. Valued(limits, H.key, H.val) BY <1>1 DEF Handled
<1>4. Handled(limits, c)
  <2> HIDE DEF c
  <2> QED BY <1>1, <1>2, <1>3 DEF Handled, Places
<1>5. HandlersOK(limits, handlers') /\ SameRequests(handlers, handlers')
  BY <1>4, GotoOK DEF setJson
<1>6. Entry(h) \in Entries /\ Entry(h).val = H.val
  <2>0. H.val \in Profiles \/ H.val \in SUBSET Int BY <1>3 DEF Valued, Shown
  <2>1. H.val \in Response BY <2>0 DEF Response, Profiles
  <2>2. H.old \in BOOLEAN BY <1>1 DEF Handling
  <2> QED BY <2>1, <2>2 DEF Entry, Entries
<1>7. CacheOK(limits, cache')
  <2>1. CASE cache' = cache BY <2>1 DEF StoreOK
  <2>2. CASE cache' = [cache EXCEPT ![H.key] = Entry(h)]
    BY <1>1, <1>3, <1>6, <2>2 DEF StoreOK, CacheOK
  <2> QED BY <2>1, <2>2 DEF setJson
<1>8. circuit' \in {"closed", "open"} BY DEF StoreOK, setJson, tripCircuit
<1> QED BY <1>5, <1>7, <1>8 DEF StoreOK, setJson

\* The deletion of the profile's entry keeps the store well formed.
LEMMA DelProfileOK ==
  ASSUME StoreOK, NEW h \in Handler, delProfile(h)
  PROVE  StoreOK' /\ SameRequests(handlers, handlers')
<1> DEFINE H == handlers[h]
           c == [H EXCEPT !.pc = "scan"]
<1>1. Handled(limits, H) /\ H \in Handling /\ H.pc = "delProfile" /\ H.by = "staff"
  BY DEF StoreOK, HandlersOK, Handled, Places, delProfile, At, Handling
<1>2. c \in Handling /\ c.pc = "scan" /\ c.by = H.by /\ c.key = H.key /\ c.edit = H.edit
  BY <1>1 DEF Handling
<1>4. Handled(limits, c)
  <2> HIDE DEF c
  <2> QED BY <1>1, <1>2 DEF Handled, Places
<1>5. HandlersOK(limits, handlers') /\ SameRequests(handlers, handlers')
  BY <1>4, GotoOK DEF delProfile
<1>7. CacheOK(limits, cache')
  <2>1. CASE cache' = cache BY <2>1 DEF StoreOK
  <2>2. CASE cache' = [cache EXCEPT ![ProfileKey] = NoEntry]
    BY <2>2 DEF StoreOK, CacheOK
  <2> QED BY <2>1, <2>2 DEF delProfile
<1>8. circuit' \in {"closed", "open"} BY DEF StoreOK, delProfile, tripCircuit
<1> QED BY <1>5, <1>7, <1>8 DEF StoreOK, delProfile

\* The scan finds keys of slots only.
LEMMA ScanOK ==
  ASSUME StoreOK, NEW h \in Handler, scan(h)
  PROVE  StoreOK' /\ SameRequests(handlers, handlers')
<1> DEFINE H == handlers[h]
           found == {k \in limits.keys \ {ProfileKey} : cache[k] # NoEntry}
<1>1. Handled(limits, H) /\ H \in Handling /\ H.pc = "scan" /\ H.by \in {"staff", "submit"}
  BY DEF StoreOK, HandlersOK, Handled, Places, scan, At, Handling
<1>2. found \subseteq limits.keys \ {ProfileKey} /\ limits.keys \subseteq Key
  BY LimitsAssumption DEF StoreOK
<1>3. HandlersOK(limits, handlers') /\ SameRequests(handlers, handlers')
  <2>1. CASE handlers' = [handlers EXCEPT ![h].pc = "del", ![h].todo = found]
    <3> HIDE DEF found
    <3> DEFINE c == [H EXCEPT !.pc = "del", !.todo = found]
    <3>1. handlers' = [handlers EXCEPT ![h] = c] BY <2>1
    <3>2. c \in Handling BY <1>1, <1>2 DEF Handling
    <3>3. /\ c.pc = "del" /\ c.by = H.by /\ c.key = H.key /\ c.seen = H.seen /\ c.edit = H.edit
          /\ c.todo = found
      BY <1>1 DEF Handling
    <3> HIDE DEF c
    <3>4. Handled(limits, c) BY <1>1, <1>2, <3>2, <3>3 DEF Handled, Places
    <3>5. Onward(h, c) BY <3>1, <3>3, <3>4 DEF Onward
    <3> QED BY <3>5, MoveOK
  <2>2. CASE Goto(h, "done")
    <3> DEFINE c == [H EXCEPT !.pc = "done"]
    <3>1. c \in Handling /\ c.pc = "done" /\ c.by = H.by /\ c.key = H.key /\ c.seen = H.seen
          /\ c.edit = H.edit
      BY <1>1 DEF Handling
    <3> HIDE DEF c
    <3>2. Handled(limits, c) BY <1>1, <3>1 DEF Handled, Places
    <3> QED BY <2>2, <3>2, GotoOK DEF c
  <2> QED BY <2>1, <2>2 DEF scan, Goto
<1>8. circuit' \in {"closed", "open"} BY DEF StoreOK, scan, tripCircuit
<1> QED BY <1>3, <1>8 DEF StoreOK, scan

\* The deletion of the keys found keeps the store well formed.
LEMMA DelByPrefixOK ==
  ASSUME StoreOK, NEW h \in Handler, delByPrefix(h)
  PROVE  StoreOK' /\ SameRequests(handlers, handlers')
<1> DEFINE H == handlers[h]
           c == [H EXCEPT !.pc = "done", !.todo = {}]
<1>1. Handled(limits, H) /\ H \in Handling /\ H.pc = "del" /\ H.by \in {"staff", "submit"}
  BY DEF StoreOK, HandlersOK, Handled, Places, delByPrefix, At, Handling
<1>2. handlers' = [handlers EXCEPT ![h] = c] BY DEF delByPrefix
<1>3. c \in Handling BY <1>1 DEF Handling
<1>4. /\ c.pc = "done" /\ c.by = H.by /\ c.key = H.key /\ c.seen = H.seen /\ c.edit = H.edit
  BY <1>1 DEF Handling
<1>5. HandlersOK(limits, handlers') /\ SameRequests(handlers, handlers')
  <2> HIDE DEF c
  <2>1. Handled(limits, c) BY <1>1, <1>3, <1>4 DEF Handled, Places
  <2>2. Onward(h, c) BY <1>2, <1>4, <2>1 DEF Onward
  <2> QED BY <2>2, MoveOK
<1>7. CacheOK(limits, cache')
  <2>1. CASE cache' = cache BY <2>1 DEF StoreOK
  <2>2. CASE cache' = [k \in limits.keys |-> IF k \in H.todo THEN NoEntry ELSE cache[k]]
    BY <2>2 DEF StoreOK, CacheOK
  <2> QED BY <2>1, <2>2 DEF delByPrefix
<1>8. circuit' \in {"closed", "open"} BY DEF StoreOK, delByPrefix, tripCircuit
<1> QED BY <1>5, <1>7, <1>8 DEF StoreOK, delByPrefix

\* The settings of a request for times.
LEMMA SettingsType ==
  ASSUME NEW s \in Shops, NEW key, key.svc \in Service
  PROVE  settingsOf(s, key) \in Settings
<1>1. s.duration[key.svc] \in Nat \ {0} BY DEF Shops
<1> QED BY <1>1 DEF Shops, settingsOf, Settings

\* A key other than the profile's has a service, a day and a professional.
LEMMA SlotKey ==
  ASSUME NEW l \in Limits, NEW key \in l.keys, key # ProfileKey
  PROVE  key.svc \in Service /\ key.day \in Day /\ key.day \in Nat /\ proOf(key) \in Pro
<1>1. key \in [svc : Service, day : Day, pro : Pro \cup {NoPro}] BY LimitsAssumption DEF Key
<1> QED BY <1>1, ShopAssumption, KeyAssumption DEF proOf

\* What the first reads find: the profile, no times, or the settings to compute with.
LEMMA ReadTenantOK ==
  ASSUME StoreOK, NEW h \in Handler, ReadTenant(h)
  PROVE  StoreOK' /\ SameRequests(handlers, handlers')
<1> DEFINE H == handlers[h]
           k == H.key
<1>1. Handled(limits, H) /\ H \in Handling /\ H.pc = "tenant" /\ H.by \in {"page", "visitor"}
  /\ H.key \in limits.keys
  BY DEF StoreOK, HandlersOK, Handled, Places, ReadTenant, At, Handling
<1>2. shop \in Shops /\ ShopOK(limits, shop) BY DEF StoreOK, ShopOK
<1>3. ASSUME NEW l \in {"failed", "set", "compute"}, NEW v \in Response \cup {NoEntry},
             NEW s \in Settings \cup {NoEntry},
             handlers' = [handlers EXCEPT ![h].pc = l, ![h].val = v, ![h].seen = s],
             l = "failed" => v = NoEntry, l = "set" => Valued(limits, k, v),
             l = "compute" => k # ProfileKey /\ s \in Settings
      PROVE  HandlersOK(limits, handlers') /\ SameRequests(handlers, handlers')
  <2> DEFINE c == [H EXCEPT !.pc = l, !.val = v, !.seen = s]
  <2>1. handlers' = [handlers EXCEPT ![h] = c] BY <1>3
  <2>2. c \in Handling BY <1>1, <1>3 DEF Handling
  <2>3. c.pc = l /\ c.by = H.by /\ c.key = k /\ c.val = v /\ c.seen = s /\ c.edit = H.edit
    BY <1>1 DEF Handling
  <2> HIDE DEF c
  <2>4. Handled(limits, c) BY <1>1, <1>3, <2>2, <2>3 DEF Handled, Places
  <2>5. Onward(h, c) BY <1>1, <2>1, <2>3, <2>4 DEF Onward
  <2> QED BY <2>5, MoveOK
<1>4. HandlersOK(limits, handlers') /\ SameRequests(handlers, handlers')
  <2>1. CASE ~Serves(shop, k)
    <3>1. handlers' = [handlers EXCEPT ![h].pc = "failed", ![h].val = NoEntry, ![h].seen = NoEntry]
      BY <2>1, Zenon DEF ReadTenant
    <3> QED BY <1>3, <3>1
  <2>2. CASE Serves(shop, k) /\ k = ProfileKey
    <3>0. profileOf(shop) \in Profiles BY <1>2 DEF profileOf, Profiles, Shops
    <3>1. profileOf(shop) \in Response /\ Shown(limits, profileOf(shop))
      BY <1>2, <3>0 DEF profileOf, Response, Shown, Profiles, ShopOK
    <3>2. handlers' = [handlers EXCEPT ![h].pc = "set", ![h].val = profileOf(shop), ![h].seen = NoEntry]
      BY <2>2, Zenon DEF ReadTenant
    <3>3. Valued(limits, k, profileOf(shop)) BY <2>2, <3>1 DEF Valued
    <3> QED BY <1>3, <3>1, <3>2, <3>3
  <2>3. CASE Serves(shop, k) /\ k # ProfileKey /\ TooFar(shop, k.day)
    <3>1. {} \in Response /\ Valued(limits, k, {}) BY <2>3 DEF Response, Valued
    <3>2. handlers' = [handlers EXCEPT ![h].pc = "set", ![h].val = {}, ![h].seen = NoEntry]
      BY <2>3 DEF ReadTenant
    <3> QED BY <1>3, <3>1, <3>2
  <2>4. CASE Serves(shop, k) /\ k # ProfileKey /\ ~TooFar(shop, k.day)
    <3>1. settingsOf(shop, k) \in Settings
      BY <1>1, <1>2, <2>4, SlotKey, SettingsType DEF StoreOK
    <3>2. handlers' = [handlers EXCEPT ![h].pc = "compute", ![h].val = NoEntry,
                                       ![h].seen = settingsOf(shop, k)]
      BY <2>4 DEF ReadTenant
    <3> QED BY <1>3, <2>4, <3>1, <3>2
  <2> QED BY <2>1, <2>2, <2>3, <2>4
<1> QED BY <1>4 DEF StoreOK, ReadTenant

\* The times computed are instants, so they fit a key of slots.
LEMMA ComputeOK ==
  ASSUME StoreOK, NEW h \in Handler, Compute(h)
  PROVE  StoreOK' /\ SameRequests(handlers, handlers')
<1> DEFINE H == handlers[h]
           k == H.key
<1>1. Handled(limits, H) /\ H \in Handling /\ H.pc = "compute" /\ H.by \in {"page", "visitor"}
  /\ H.key \in limits.keys /\ k # ProfileKey /\ H.seen \in Settings
  BY DEF StoreOK, HandlersOK, Handled, Places, Compute, At, Handling
<1>2. PICK times \in computeSlotsFor(H.seen, shop, proOf(k), H.seen.duration, k.day, Now) :
        handlers' = [handlers EXCEPT ![h].pc = "set", ![h].val = times, ![h].seen = NoEntry]
  BY DEF Compute
<1>3. times \in SUBSET Int
  <2>1. H.seen.zone \in Int BY <1>1 DEF Settings
  <2>2. k.day \in Int BY <1>1, SlotKey DEF StoreOK
  <2> QED BY <1>2, <2>1, <2>2, TimesAreInstants
<1>4. HandlersOK(limits, handlers') /\ SameRequests(handlers, handlers')
  <2> DEFINE c == [H EXCEPT !.pc = "set", !.val = times, !.seen = NoEntry]
  <2>1. handlers' = [handlers EXCEPT ![h] = c] BY <1>2
  <2>2. c \in Handling BY <1>1, <1>3 DEF Handling, Response
  <2>3. c.pc = "set" /\ c.by = H.by /\ c.key = k /\ c.val = times /\ c.edit = H.edit
    BY <1>1 DEF Handling
  <2> HIDE DEF c
  <2>4. Handled(limits, c) BY <1>1, <1>3, <2>2, <2>3 DEF Handled, Places, Valued
  <2>5. Onward(h, c) BY <1>1, <2>1, <2>3, <2>4 DEF Onward
  <2> QED BY <2>5, MoveOK
<1> QED BY <1>4 DEF StoreOK, Compute

\* A visitor's or the staff's request ends.
LEMMA LeaveOK ==
  ASSUME StoreOK, NEW h \in Handler, Leave(h)
  PROVE  StoreOK' /\ SameRequests(handlers, handlers')
<1>1. Handled(limits, Idle) /\ Idle.by = "nobody" BY IdleOK DEF StoreOK, Idle
<1>2. handlers' = [handlers EXCEPT ![h] = Idle] /\ handlers[h].by \in {"visitor", "staff"}
  BY DEF Leave
<1>3. HandlersOK(limits, handlers') BY <1>1, <1>2, HandlerStep DEF StoreOK
<1>4. \A g \in Handler : handlers'[g] = IF g = h THEN Idle ELSE handlers[g]
  BY <1>2 DEF StoreOK, HandlersOK
<1>5. SameRequests(handlers, handlers') BY <1>1, <1>2, <1>4 DEF SameRequests
<1> QED BY <1>3, <1>5 DEF StoreOK, Leave

\* A request as it begins.
Beginning(key, by) == [Idle EXCEPT !.pc = "get", !.key = key, !.by = by]

\* A request for a key of the instance is well formed when it begins.
LEMMA AskedOK ==
  ASSUME NEW l \in Limits, NEW key \in l.keys, NEW by \in {"page", "visitor"}
  PROVE  /\ Handled(l, Beginning(key, by)) /\ Beginning(key, by).key = key
         /\ Beginning(key, by).by = by
<1> DEFINE c == Beginning(key, by)
<1>1. key \in {ProfileKey} \cup Picks BY LimitsAssumption DEF Key, Picks
<1>2. c \in Handling BY <1>1, IdleOK DEF Handling, Beginning
<1>3. c.pc = "get" /\ c.key = key /\ c.by = by BY IdleOK DEF Handling, Beginning
<1> HIDE DEF c
<1>4. Handled(l, c) BY <1>2, <1>3 DEF Handled, Places
<1> QED BY <1>3, <1>4 DEF c

\* Another visitor asks.
LEMMA VisitOK ==
  ASSUME StoreOK, NEW h \in Handler, NEW key \in limits.keys, Visit(h, key)
  PROVE  StoreOK' /\ SameRequests(handlers, handlers')
<1> DEFINE c == Beginning(key, "visitor")
<1>1. handlers' = [handlers EXCEPT ![h] = c] /\ handlers[h].pc = "idle"
  BY DEF Visit, Ask, At, Beginning
<1>2. Handled(limits, c) /\ c.by = "visitor" BY AskedOK DEF StoreOK
<1> HIDE DEF c
<1>3. HandlersOK(limits, handlers') BY <1>1, <1>2, HandlerStep DEF StoreOK
<1>4. handlers[h].by = "nobody" BY <1>1 DEF StoreOK, HandlersOK, Handled, Places
<1>5. \A g \in Handler : handlers'[g] = IF g = h THEN c ELSE handlers[g]
  BY <1>1 DEF StoreOK, HandlersOK
<1>6. SameRequests(handlers, handlers') BY <1>2, <1>4, <1>5 DEF SameRequests
<1>7. begun' \in 0 .. limits.count BY LimitsAssumption DEF StoreOK, Visit
<1> QED BY <1>3, <1>6, <1>7 DEF StoreOK, Visit

\* What an edit leads to is a shop.
LEMMA EditedShop ==
  ASSUME StoreOK, NEW e \in limits.ops, NEW s \in After(e)
  PROVE  ShopOK(limits, s) /\ e \in Edits
<1>1. e \in Edits BY DEF After, Edits
<1>2. ShopOK(limits, shop) /\ limits \in Limits BY DEF StoreOK
<1>3. shop \in Shops /\ IsFiniteSet(shop.exceptions) BY <1>2 DEF ShopOK
<1>4. limits.shop \in Shops /\ limits.rules \subseteq Rule /\ limits.exceptions \subseteq Exception
      /\ limits.durations \subseteq Nat \ {0} /\ limits.buffers \subseteq Nat /\ limits.zones \subseteq Int
  BY <1>2, LimitsAssumption
<1>5. CASE e \in {"createRule", "deleteRule"}
  <2>1. PICK rules \in SUBSET Rule : s = [shop EXCEPT !.rules = rules]
    <3>1. CASE e = "createRule"
      <4>1. s \in createRule BY <3>1 DEF After
      <4>2. PICK r \in limits.rules : s = [shop EXCEPT !.rules = shop.rules \cup {r}]
        BY <4>1 DEF createRule
      <4>3. shop.rules \cup {r} \in SUBSET Rule BY <1>3, <1>4 DEF Shops
      <4> QED BY <4>2, <4>3
    <3>2. CASE e = "deleteRule"
      <4>1. s \in deleteRule BY <3>2 DEF After
      <4>2. PICK r \in shop.rules : s = [shop EXCEPT !.rules = shop.rules \ {r}]
        BY <4>1 DEF deleteRule
      <4>3. shop.rules \ {r} \in SUBSET Rule BY <1>3, <1>4 DEF Shops
      <4> QED BY <4>2, <4>3
    <3> QED BY <1>5, <3>1, <3>2
  <2>2. s \in Shops BY <1>3, <2>1 DEF Shops
  <2>3. /\ s.zone = shop.zone /\ s.buffer = shop.buffer /\ s.exceptions = shop.exceptions
        /\ s.services = shop.services /\ s.pros = shop.pros
    BY <1>3, <2>1 DEF Shops
  <2> QED BY <1>1, <1>2, <2>2, <2>3 DEF ShopOK
<1>6. CASE e \in {"createException", "deleteException"}
  <2>1. PICK es \in SUBSET Exception : s = [shop EXCEPT !.exceptions = es] /\ IsFiniteSet(es)
    <3>1. CASE e = "createException"
      <4>1. s \in createException BY <3>1 DEF After
      <4>2. PICK x \in limits.exceptions : s = [shop EXCEPT !.exceptions = shop.exceptions \cup {x}]
        BY <4>1 DEF createException
      <4>3. shop.exceptions \cup {x} \in SUBSET Exception BY <1>3, <1>4 DEF Shops
      <4>4. IsFiniteSet(shop.exceptions \cup {x}) BY <1>3, FS_AddElement
      <4> QED BY <4>2, <4>3, <4>4
    <3>2. CASE e = "deleteException"
      <4>1. s \in deleteException BY <3>2 DEF After
      <4>2. PICK x \in shop.exceptions : s = [shop EXCEPT !.exceptions = shop.exceptions \ {x}]
        BY <4>1 DEF deleteException
      <4>3. shop.exceptions \ {x} \in SUBSET Exception BY <1>3, <1>4 DEF Shops
      <4>4. IsFiniteSet(shop.exceptions \ {x}) BY <1>3, FS_Subset
      <4> QED BY <4>2, <4>3, <4>4
    <3> QED BY <1>6, <3>1, <3>2
  <2>2. s \in Shops BY <1>3, <2>1 DEF Shops
  <2>3. /\ s.zone = shop.zone /\ s.buffer = shop.buffer /\ s.exceptions = es
        /\ s.services = shop.services /\ s.pros = shop.pros
    BY <1>3, <2>1 DEF Shops
  <2> QED BY <1>1, <1>2, <2>1, <2>2, <2>3 DEF ShopOK
<1>7. CASE e \in {"createService", "removeService"}
  <2>1. PICK v \in SUBSET Service : s = [shop EXCEPT !.services = v]
                                   /\ ("browse" \in limits.ops => v \subseteq shop.services)
    <3>1. CASE e = "createService"
      <4>1. s \in createService BY <3>1 DEF After
      <4>2. PICK x \in Service : s = [shop EXCEPT !.services = shop.services \cup {x}]
        BY <4>1 DEF createService
      <4>3. shop.services \cup {x} \in SUBSET Service BY <1>3 DEF Shops
      <4>4. "browse" \notin limits.ops BY <1>2, <3>1, LimitsAssumption DEF Browsable
      <4> QED BY <4>2, <4>3, <4>4
    <3>2. CASE e = "removeService"
      <4>1. s \in removeService BY <3>2 DEF After
      <4>2. PICK x \in shop.services : s = [shop EXCEPT !.services = shop.services \ {x}]
        BY <4>1 DEF removeService
      <4>3. shop.services \ {x} \in SUBSET Service BY <1>3 DEF Shops
      <4> QED BY <4>2, <4>3
    <3> QED BY <1>7, <3>1, <3>2
  <2>2. s \in Shops BY <1>3, <2>1 DEF Shops
  <2>3. /\ s.zone = shop.zone /\ s.buffer = shop.buffer /\ s.exceptions = shop.exceptions
        /\ s.services = v /\ s.pros = shop.pros
    BY <1>3, <2>1 DEF Shops
  <2> QED BY <1>1, <1>2, <2>1, <2>2, <2>3 DEF ShopOK
<1>8. CASE e \in {"addMember", "removeMember"}
  <2>1. PICK v \in SUBSET Pro : s = [shop EXCEPT !.pros = v]
                                   /\ ("browse" \in limits.ops => v \subseteq shop.pros)
    <3>1. CASE e = "addMember"
      <4>1. s \in addMember BY <3>1 DEF After
      <4>2. PICK x \in Pro : s = [shop EXCEPT !.pros = shop.pros \cup {x}]
        BY <4>1 DEF addMember
      <4>3. shop.pros \cup {x} \in SUBSET Pro BY <1>3 DEF Shops
      <4>4. "browse" \notin limits.ops BY <1>2, <3>1, LimitsAssumption DEF Browsable
      <4> QED BY <4>2, <4>3, <4>4
    <3>2. CASE e = "removeMember"
      <4>1. s \in removeMember BY <3>2 DEF After
      <4>2. PICK x \in shop.pros : s = [shop EXCEPT !.pros = shop.pros \ {x}]
        BY <4>1 DEF removeMember
      <4>3. shop.pros \ {x} \in SUBSET Pro BY <1>3 DEF Shops
      <4> QED BY <4>2, <4>3
    <3> QED BY <1>8, <3>1, <3>2
  <2>2. s \in Shops BY <1>3, <2>1 DEF Shops
  <2>3. /\ s.zone = shop.zone /\ s.buffer = shop.buffer /\ s.exceptions = shop.exceptions
        /\ s.services = shop.services /\ s.pros = v
    BY <1>3, <2>1 DEF Shops
  <2> QED BY <1>1, <1>2, <2>1, <2>2, <2>3 DEF ShopOK
<1>9. CASE e = "updateService"
  <2>1. s \in updateService BY <1>9 DEF After
  <2>2. PICK v \in shop.services, d \in limits.durations : s = [shop EXCEPT !.duration[v] = d]
    BY <2>1 DEF updateService
  <2> DEFINE f == [shop.duration EXCEPT ![v] = d]
  <2>3. f \in [Service -> Nat \ {0}] BY <1>3, <1>4 DEF Shops
  <2>4. s = [shop EXCEPT !.duration = f] BY <2>2
  <2> HIDE DEF f
  <2>5. s \in Shops BY <1>3, <2>3, <2>4 DEF Shops
  <2>6. /\ s.zone = shop.zone /\ s.buffer = shop.buffer /\ s.exceptions = shop.exceptions
        /\ s.services = shop.services /\ s.pros = shop.pros
    BY <1>3, <2>4 DEF Shops
  <2> QED BY <1>1, <1>2, <2>5, <2>6 DEF ShopOK
<1>10. CASE e = "updateBooking"
  <2>1. s \in updateBooking BY <1>10 DEF After
  <2>2. PICK b \in limits.buffers : s = [shop EXCEPT !.buffer = b] BY <2>1 DEF updateBooking
  <2>5. s \in Shops BY <1>3, <1>4, <2>2 DEF Shops
  <2>6. /\ s.zone = shop.zone /\ s.buffer = b /\ s.exceptions = shop.exceptions
        /\ s.services = shop.services /\ s.pros = shop.pros
    BY <1>3, <2>2 DEF Shops
  <2> QED BY <1>1, <1>2, <2>5, <2>6 DEF ShopOK
<1>11. CASE e = "updateProfile"
  <2>1. s \in updateProfile BY <1>11 DEF After
  <2>2. PICK z \in limits.zones : s = [shop EXCEPT !.zone = z] BY <2>1 DEF updateProfile
  <2>5. s \in Shops BY <1>3, <1>4, <2>2 DEF Shops
  <2>6. /\ s.zone = z /\ s.buffer = shop.buffer /\ s.exceptions = shop.exceptions
        /\ s.services = shop.services /\ s.pros = shop.pros
    BY <1>3, <2>2 DEF Shops
  <2> QED BY <1>1, <1>2, <2>5, <2>6 DEF ShopOK
<1>12. CASE e \in {"cancel", "release"}
  <2>1. s \in cancel BY <1>12 DEF After, release
  <2>2. PICK b \in shop.booked : s = [shop EXCEPT !.booked = shop.booked \ {b}] BY <2>1 DEF cancel
  <2>5. s \in Shops BY <1>3, <2>2 DEF Shops
  <2>6. /\ s.zone = shop.zone /\ s.buffer = shop.buffer /\ s.exceptions = shop.exceptions
        /\ s.services = shop.services /\ s.pros = shop.pros
    BY <1>3, <2>2 DEF Shops
  <2> QED BY <1>1, <1>2, <2>5, <2>6 DEF ShopOK
<1>13. CASE e = "deleteAccount"
  <2>1. s = [shop EXCEPT !.deleted = TRUE] BY <1>13 DEF After, deleteAccount
  <2>5. s \in Shops BY <1>3, <2>1 DEF Shops
  <2>6. /\ s.zone = shop.zone /\ s.buffer = shop.buffer /\ s.exceptions = shop.exceptions
        /\ s.services = shop.services /\ s.pros = shop.pros
    BY <1>3, <2>1 DEF Shops
  <2> QED BY <1>1, <1>2, <2>5, <2>6 DEF ShopOK
<1> QED BY <1>1, <1>5, <1>6, <1>7, <1>8, <1>9, <1>10, <1>11, <1>12, <1>13 DEF Edits

\* An edit leads to a shop of the instance and marks the readers it overtakes.
LEMMA EditOK ==
  ASSUME StoreOK, NEW h \in Handler, NEW e \in limits.ops, Edit(h, e)
  PROVE  StoreOK' /\ SameRequests(handlers, handlers')
<1> DEFINE c == [Idle EXCEPT !.pc = FirstDelete(e), !.by = "staff", !.edit = e]
<1>1. e \in Edits /\ ShopOK(limits, shop') BY EditedShop DEF Edit
<1>2. FirstDelete(e) \in {"done", "scan", "delProfile"} BY DEF FirstDelete
<1>3. c \in Handling BY <1>1, <1>2, IdleOK DEF StoreOK, Handling
<1>4. c.pc = FirstDelete(e) /\ c.by = "staff" /\ c.edit = e /\ c.key = ProfileKey
  BY DEF Idle
<1>5. e # "none" BY <1>1 DEF Edits
<1> HIDE DEF c
<1>6. ProfileKey \in limits.keys BY LimitsAssumption DEF StoreOK
<1>7. Handled(limits, c) BY <1>2, <1>3, <1>4, <1>5, <1>6 DEF Handled, Places
<1>8. Committed(h, c) BY DEF Edit, c
<1>9. HandlersOK(limits, handlers') BY <1>7, <1>8, CommitStep
<1>10. handlers[h].by = "nobody" BY DEF Edit, At, StoreOK, HandlersOK, Handled, Places
<1>11. ASSUME NEW g \in Handler, g # h
       PROVE  /\ handlers'[g].by = handlers[g].by /\ handlers'[g].key = handlers[g].key
              /\ handlers'[g].seen = handlers[g].seen
  <2>1. handlers[g] \in Handling BY DEF StoreOK, HandlersOK, Handled
  <2>2. handlers'[g] = [handlers[g] EXCEPT !.old = @ \/ Reading(g)] BY <1>8, <1>11 DEF Committed
  <2> QED BY <2>1, <2>2 DEF Handling
<1>12. handlers'[h].by = "staff" BY <1>4, <1>8 DEF Committed
<1>13. SameRequests(handlers, handlers') BY <1>10, <1>11, <1>12 DEF SameRequests
<1>14. begun' \in 0 .. limits.count BY LimitsAssumption DEF StoreOK, Edit
<1> QED BY <1>1, <1>9, <1>13, <1>14 DEF StoreOK, Edit

\* Redis by itself.
LEMMA RedisOK ==
  ASSUME StoreOK, Expires \/ Cooldown \/ RedisStops \/ RedisReturns
  PROVE  StoreOK' /\ SameRequests(handlers, handlers')
<1>1. handlers' = handlers /\ shop' = shop /\ limits' = limits /\ begun' = begun
  BY DEF Expires, Expire, Cooldown, RedisStops, RedisReturns
<1>2. SameRequests(handlers, handlers') BY <1>1 DEF SameRequests
<1>3. CacheOK(limits, cache')
  <2>1. CASE Expires
    <3>1. PICK k \in limits.keys : Expire(k) BY <2>1 DEF Expires
    <3> QED BY <3>1 DEF Expire, StoreOK, CacheOK
  <2>2. CASE Cooldown \/ RedisStops BY <2>2 DEF Cooldown, RedisStops, StoreOK
  <2>3. CASE RedisReturns
    <3>1. CacheOK(limits, [k \in limits.keys |-> NoEntry]) BY DEF CacheOK
    <3> QED BY <2>3, <3>1 DEF RedisReturns, StoreOK
  <2> QED BY <2>1, <2>2, <2>3
<1>4. redisUp' \in BOOLEAN /\ circuit' \in {"closed", "open"} /\ faults' \in 0 .. limits.faults
  <2>1. CASE Expires BY <2>1 DEF Expires, Expire, StoreOK
  <2>2. CASE Cooldown BY <2>2 DEF Cooldown, StoreOK
  <2>3. CASE RedisStops
    <3>1. limits.faults \in Nat BY LimitsAssumption DEF StoreOK
    <3>2. faults \in 0 .. limits.faults /\ faults < limits.faults /\ faults' = faults + 1
      BY <2>3 DEF RedisStops, Fault, StoreOK
    <3>3. faults' \in 0 .. limits.faults BY <3>1, <3>2
    <3> QED BY <2>3, <3>3 DEF RedisStops, StoreOK
  <2>4. CASE RedisReturns BY <2>4 DEF RedisReturns, StoreOK
  <2> QED BY <2>1, <2>2, <2>3, <2>4
<1> QED BY <1>1, <1>2, <1>3, <1>4 DEF StoreOK

\* Every step of the catalogue and of the shop.
LEMMA CacheStepOK ==
  ASSUME StoreOK, CacheStep
  PROVE  StoreOK' /\ SameRequests(handlers, handlers') /\ limits' = limits
<1>0. limits' = limits
  BY DEF CacheStep, Serve, Expires, Expire, Cooldown, RedisStops, RedisReturns, getJson, setJson,
         delProfile, scan, delByPrefix, ReadTenant, Compute, Leave, Visit, Edit
<1>1. ASSUME NEW h \in Handler, Serve(h)
      PROVE  StoreOK' /\ SameRequests(handlers, handlers')
  BY <1>1, GetJsonOK, SetJsonOK, DelProfileOK, ScanOK, DelByPrefixOK, ReadTenantOK, ComputeOK,
     LeaveOK DEF Serve
<1> QED BY <1>0, <1>1, VisitOK, EditOK, RedisOK DEF CacheStep

\* The row that a submission adds.
RowAt(key, t, dur) == [pro |-> proOf(key), from |-> t, to |-> t + dur, by |-> "page", svc |-> key.svc]

\* What bookPublic does: it refuses, finds the time taken, or adds the row of the request.
LEMMA BookSteps ==
  ASSUME StoreOK, NEW h \in Handler, bookPublic(h)
  PROVE  LET H == handlers[h]
         IN /\ H.pc = "book" /\ H.by = "submit" /\ H.key \in Chosen /\ H.seen \in Int
            /\ \/ Goto(h, "failed") /\ shop' = shop
               \/ Goto(h, "conflict") /\ shop' = shop
               \/ /\ shop' = [shop EXCEPT !.booked = @ \cup
                                 {RowAt(H.key, H.seen, shop.duration[H.key.svc])}]
                  /\ Committed(h, [H EXCEPT !.pc = "scan"])
<1> DEFINE H == handlers[h]
<1>1. Handled(limits, H) /\ H.pc = "book" BY DEF StoreOK, HandlersOK, bookPublic, At
<1>2. H.by = "submit" /\ H.key \in Chosen /\ H.seen \in Int
  BY <1>1 DEF Handled, Places, Handling
<1>3. FirstDelete("book") = "scan" BY DEF FirstDelete, silent
<1>4. CASE ~(Serves(shop, H.key) /\ assertWithinBookingWindow(H.seen, shop, Now))
  BY <1>1, <1>2, <1>4, Zenon DEF bookPublic
<1>5. CASE Serves(shop, H.key) /\ assertWithinBookingWindow(H.seen, shop, Now)
  BY <1>1, <1>2, <1>3, <1>5, Zenon DEF bookPublic, RowAt
<1> QED BY <1>4, <1>5

\* bookPublic keeps the store well formed and every request as it was asked.
LEMMA BookOK ==
  ASSUME StoreOK, NEW h \in Handler, bookPublic(h)
  PROVE  StoreOK' /\ SameRequests(handlers, handlers') /\ UNCHANGED <<limits, page>>
<1> DEFINE H == handlers[h]
           dur == shop.duration[H.key.svc]
<1>1. H.pc = "book" /\ H.by = "submit" /\ H.key \in Chosen /\ H.seen \in Int BY BookSteps
<1>2. Handled(limits, H) /\ H \in Handling BY DEF StoreOK, HandlersOK, Handled
<1>3. ASSUME NEW l \in {"failed", "conflict", "scan"}
      PROVE  LET c == [H EXCEPT !.pc = l]
             IN Handled(limits, c) /\ c.by = "submit" /\ c.key = H.key /\ c.seen = H.seen
  <2> DEFINE c == [H EXCEPT !.pc = l]
  <2>1. c \in Handling /\ c.pc = l BY <1>2 DEF Handling
  <2>2. c.by = "submit" /\ c.key = H.key /\ c.seen = H.seen /\ c.edit = H.edit
    BY <1>1, <1>2 DEF Handling
  <2>3. H.edit = "book" BY <1>1, <1>2 DEF Handled
  <2> HIDE DEF c
  <2>4. Handled(limits, c) BY <1>1, <2>1, <2>2, <2>3 DEF Handled, Places
  <2> QED BY <2>2, <2>4 DEF c
<1>0. UNCHANGED <<cache, redisUp, circuit, begun, limits, faults, page>>
  BY Zenon DEF bookPublic, pageVars
<1>4. CASE /\ Goto(h, "failed") \/ Goto(h, "conflict")
           /\ shop' = shop
  <2>1. HandlersOK(limits, handlers') /\ SameRequests(handlers, handlers')
    BY <1>3, <1>4, GotoOK
  <2> QED BY <1>0, <1>4, <2>1 DEF StoreOK
<1>5. CASE /\ shop' = [shop EXCEPT !.booked = @ \cup {RowAt(H.key, H.seen, dur)}]
           /\ Committed(h, [H EXCEPT !.pc = "scan"])
  <2> DEFINE c == [H EXCEPT !.pc = "scan"]
  <2>1. Handled(limits, c) /\ c.by = "submit" /\ c.key = H.key /\ c.seen = H.seen BY <1>3
  <2>2. Committed(h, c) BY <1>5
  <2> HIDE DEF c
  <2>3. HandlersOK(limits, handlers') BY <2>1, <2>2, CommitStep
  <2>4. ASSUME NEW g \in Handler, g # h
        PROVE  /\ handlers'[g].by = handlers[g].by /\ handlers'[g].key = handlers[g].key
               /\ handlers'[g].seen = handlers[g].seen
    <3>1. handlers[g] \in Handling BY DEF StoreOK, HandlersOK, Handled
    <3>2. handlers'[g] = [handlers[g] EXCEPT !.old = @ \/ Reading(g)] BY <2>2, <2>4 DEF Committed
    <3> QED BY <3>1, <3>2 DEF Handling
  <2>5. handlers'[h] = c BY <2>2 DEF Committed
  <2>6. SameRequests(handlers, handlers') BY <1>1, <2>1, <2>4, <2>5 DEF SameRequests
  <2>7. ShopOK(limits, shop) /\ shop \in Shops BY DEF StoreOK, ShopOK
  <2>8. RowAt(H.key, H.seen, dur) \in Row
    <3>1. dur \in Nat BY <1>1, <2>7 DEF Chosen, Shops
    <3>2. H.seen + dur \in Int BY <1>1, <3>1
    <3>3. proOf(H.key) \in Pro /\ H.key.svc \in Service
      BY <1>1, ShopAssumption DEF proOf, Chosen
    <3> HIDE DEF dur
    <3> QED BY <1>1, <3>2, <3>3 DEF RowAt, Row
  <2>9. shop' \in Shops BY <1>5, <2>7, <2>8 DEF Shops
  <2>10. /\ shop'.zone = shop.zone /\ shop'.buffer = shop.buffer
         /\ shop'.exceptions = shop.exceptions
         /\ shop'.services = shop.services /\ shop'.pros = shop.pros
    BY <1>5, <2>7 DEF Shops
  <2>11. ShopOK(limits, shop') BY <2>7, <2>9, <2>10 DEF ShopOK
  <2> QED BY <1>0, <2>3, <2>6, <2>11 DEF StoreOK
<1>6. \/ Goto(h, "failed") /\ shop' = shop
      \/ Goto(h, "conflict") /\ shop' = shop
      \/ /\ shop' = [shop EXCEPT !.booked = @ \cup {RowAt(H.key, H.seen, dur)}]
         /\ Committed(h, [H EXCEPT !.pc = "scan"])
  BY BookSteps
<1> QED BY <1>0, <1>4, <1>5, <1>6

--------------------------------------------------------------------------------
(* The page.                                                               *)

\* The days shown are days, and today is one of them.
LEMMA DaysOK ==
  ASSUME StoreOK
  PROVE  days \subseteq Day /\ days \subseteq Nat /\ today \in days
<1>1. limits.keys \subseteq Key /\ ProfileKey \in limits.keys /\ limits.keys # {ProfileKey}
  BY LimitsAssumption DEF StoreOK
<1>2. days \subseteq Day BY <1>1 DEF days, Key
<1>3. days \subseteq Nat BY <1>2, KeyAssumption
<1>4. days # {} BY <1>1 DEF days
<1> DEFINE R == {ss \in Nat \X Nat : ss[1] < ss[2]}
<1>5. IsWellFoundedOn(R, Nat)
  <2>1. R = OpToRel(<, Nat) BY DEF OpToRel
  <2> QED BY <2>1, NatLessThanWellFounded
<1>6. PICK x \in days : \A y \in days : ~(<<y, x>> \in R)
  <2> HIDE DEF R
  <2> QED BY <1>3, <1>4, <1>5, WFMin
<1>7. ASSUME NEW y \in days PROVE x <= y
  <2>1. x \in Nat /\ y \in Nat BY <1>3
  <2>2. <<y, x>> \in Nat \X Nat /\ ~(<<y, x>> \in R) BY <1>6, <2>1
  <2>3. ~(y < x) BY <2>1, <2>2
  <2> QED BY <2>1, <2>3
<1>8. today \in days BY <1>7 DEF today, Min
<1> QED BY <1>2, <1>3, <1>8

\* What can be chosen on the page is a request that the instance lists.
LEMMA KeyOfChoice ==
  ASSUME StoreOK, NEW p, ChoiceOK(limits, p), p.step \in {"professional", "when", "details", "done"},
         NEW d \in days
  PROVE  /\ [svc |-> p.svc, day |-> d, pro |-> p.pro] \in limits.keys
         /\ [svc |-> p.svc, day |-> d, pro |-> p.pro] # ProfileKey
<1>0. limits \in Limits BY DEF StoreOK
<1>1. "browse" \in limits.ops /\ Shown(limits, p.profile) /\ p.svc \in p.profile.services
  BY DEF ChoiceOK
<1>2. p.profile.services \subseteq limits.shop.services /\ p.profile.pros \subseteq limits.shop.pros
      /\ limits.shop \in Shops
  BY <1>0, <1>1, LimitsAssumption DEF Shown
<1>3. Browsable(limits) BY <1>0, <1>1, LimitsAssumption
<1>4. PICK S \in SUBSET Service, D \in SUBSET Day, P \in SUBSET (Pro \cup {NoPro}) :
        /\ limits.keys = {ProfileKey} \cup [svc : S, day : D, pro : P] /\ D # {} /\ NoPro \in P
        /\ limits.shop.services \subseteq S
        /\ limits.shop.pros \subseteq P \/ Cardinality(limits.shop.pros) <= 1
  BY <1>3 DEF Browsable
<1>5. d \in D
  <2>1. PICK k \in limits.keys \ {ProfileKey} : d = k.day BY DEF days
  <2>2. k \in [svc : S, day : D, pro : P] BY <1>4, <2>1
  <2> QED BY <2>1, <2>2
<1>6. p.svc \in S BY <1>1, <1>2, <1>4
<1>7. p.pro \in P
  <2>1. CASE p.pro = NoPro BY <1>4, <2>1
  <2>2. CASE p.pro # NoPro
    <3>1. Cardinality(p.profile.pros) > 1 /\ p.pro \in p.profile.pros
      BY <2>2 DEF ChoiceOK, Several
    <3>2. IsFiniteSet(limits.shop.pros)
      <4>1. limits.shop.pros \subseteq Pro BY <1>2 DEF Shops
      <4> QED BY <4>1, KeyAssumption, FS_Subset
    <3>3. Cardinality(p.profile.pros) <= Cardinality(limits.shop.pros)
          /\ Cardinality(p.profile.pros) \in Nat /\ Cardinality(limits.shop.pros) \in Nat
      BY <1>2, <3>2, FS_Subset, FS_CardinalityType
    <3>4. ~(Cardinality(limits.shop.pros) <= 1) BY <3>1, <3>3
    <3> QED BY <1>2, <1>4, <3>1, <3>4
  <2> QED BY <2>1, <2>2
<1>8. [svc |-> p.svc, day |-> d, pro |-> p.pro] \in [svc : S, day : D, pro : P]
  BY <1>5, <1>6, <1>7
<1>9. [svc |-> p.svc, day |-> d, pro |-> p.pro] \in [svc : Service, day : Day, pro : Pro \cup {NoPro}]
  BY <1>5, <1>6, <1>7
<1> QED BY <1>4, <1>8, <1>9, KeyAssumption

\* The invariant of the next page, by its parts.
LEMMA PageNext ==
  ASSUME limits' = limits, ChoiceOK(limits, page'), TimesOK(page'), SubmitOK(page', handlers'),
         page'.live # NoHandler => Awaited(page', handlers'[page'.live])
  PROVE  PageOK'
<1>1. days' = days BY DEF days
<1>2. ChoiceOK(limits, page)' BY <1>1 DEF ChoiceOK
<1>3. TimesOK(page)' BY DEF TimesOK
<1>4. SubmitOK(page, handlers)' BY DEF SubmitOK
<1>5. page'.live # NoHandler => Awaited(page, handlers[page.live])' BY <1>1 DEF Awaited
<1> QED BY <1>2, <1>3, <1>4, <1>5 DEF PageOK

\* Steps that are not the page's own leave it as it was.
LEMMA ElsewhereOK ==
  ASSUME PageOK, SameRequests(handlers, handlers'), UNCHANGED <<limits, page>>
  PROVE  PageOK'
<1>1. SubmitOK(page', handlers')
  <2>1. ASSUME NEW h \in Handler, handlers'[h].by = "submit" PROVE page'.submit = h
    BY <2>1 DEF PageOK, SubmitOK, SameRequests
  <2>2. ASSUME page.submit # NoHandler
        PROVE  /\ handlers'[page.submit].by = "submit" /\ page.step \notin {"loading", "lost", "done"}
               /\ handlers'[page.submit].key = handlers[page.submit].key
               /\ handlers'[page.submit].seen = handlers[page.submit].seen
    <3>1. page.submit \in Handler BY <2>2 DEF PageOK, ChoiceOK, Pages
    <3>2. handlers[page.submit].by = "submit" /\ page.step \notin {"loading", "lost", "done"}
      BY <2>2 DEF PageOK, SubmitOK
    <3> QED BY <3>1, <3>2 DEF SameRequests
  <2> QED BY <2>1, <2>2 DEF PageOK, SubmitOK
<1>2. ASSUME page.live # NoHandler PROVE Awaited(page', handlers'[page.live])
  <2>1. page.live \in Handler BY <1>2 DEF PageOK, ChoiceOK, Pages
  <2>2. Awaited(page, handlers[page.live]) BY <1>2 DEF PageOK
  <2>3. handlers'[page.live].by = "page" /\ handlers'[page.live].key = handlers[page.live].key
    BY <2>1, <2>2 DEF Awaited, SameRequests
  <2> QED BY <2>2, <2>3 DEF Awaited
<1> QED BY <1>1, <1>2, PageNext DEF PageOK

\* A page about to be rendered.
Rendering(p, hs) ==
  /\ HandlersOK(limits, hs) /\ ChoiceOK(limits, p) /\ SubmitOK(p, hs)
  /\ p.live = page.live /\ p.loading = page.loading /\ p.slots = page.slots
  /\ p.of = page.of /\ p.at = page.at
  /\ p.day # NoDay /\ p.slot # NoSlot /\ p.step # "done" => p.slotOf = choice(p)
  /\ page.live # NoHandler => hs[page.live] = handlers[page.live]

\* What a render leaves alone.
Painted(p, hs) ==
  /\ page'.step = p.step /\ page'.slot = p.slot /\ choice(page') = choice(p)
  /\ page'.submit = p.submit
  /\ \A h \in Handler : hs[h].by = "submit" \/ handlers'[h].by = "submit" => handlers'[h] = hs[h]

\* A render keeps the page well formed: if it asks for slots, it waits for that request.
LEMMA RenderOK ==
  ASSUME StoreOK, PageOK, NEW p, NEW hs, Rendering(p, hs), Render(p, hs), limits' = limits
  PROVE  HandlersOK(limits, handlers') /\ PageOK' /\ Painted(p, hs)
<1>1. p \in Pages /\ ChoiceOK(limits, p) /\ SubmitOK(p, hs) /\ HandlersOK(limits, hs)
  BY DEF Rendering, ChoiceOK
<1>2. CASE Deps(p) = Deps(page)
  <2>1. page' = p /\ handlers' = hs BY <1>2 DEF Render
  <2>2. p.step = page.step /\ choice(p) = choice(page) BY <1>2 DEF Deps
  <2>3. p.day = page.day BY <2>2 DEF choice
  <2>4. TimesOK(p) BY <2>2, <2>3 DEF TimesOK, PageOK, Rendering
  <2>5. page.live # NoHandler => Awaited(p, hs[p.live])
    BY <2>2, <2>3 DEF Awaited, PageOK, Rendering
  <2>6. p.live = page.live BY DEF Rendering
  <2>7. PageOK' BY <1>1, <2>1, <2>4, <2>5, <2>6, PageNext
  <2> QED BY <1>1, <2>1, <2>7 DEF Painted
<1>3. CASE Deps(p) # Deps(page) /\ (p.step # "when" \/ p.day = NoDay)
  <2>1. page' = [p EXCEPT !.live = NoHandler] /\ handlers' = hs BY <1>3 DEF Render
  <2>2. page' \in Pages BY <1>1, <2>1 DEF Pages
  <2>3. /\ page'.step = p.step /\ page'.svc = p.svc /\ page'.day = p.day /\ page'.pro = p.pro
        /\ page'.profile = p.profile /\ page'.slot = p.slot /\ page'.slotOf = p.slotOf
        /\ page'.submit = p.submit /\ page'.live = NoHandler
    BY <1>1, <2>1 DEF Pages
  <2>4. choice(page') = choice(p) BY <2>3 DEF choice
  <2>5. ChoiceOK(limits, page') BY <1>1, <2>2, <2>3 DEF ChoiceOK, Several
  <2>6. TimesOK(page') BY <1>3, <2>3, <2>4 DEF TimesOK, Rendering
  <2>7. SubmitOK(page', handlers') BY <1>1, <2>1, <2>3, <2>4 DEF SubmitOK
  <2>8. PageOK' BY <2>3, <2>5, <2>6, <2>7, PageNext
  <2> QED BY <1>1, <2>1, <2>3, <2>4, <2>8 DEF Painted
<1>4. CASE Deps(p) # Deps(page) /\ p.step = "when" /\ p.day # NoDay
  <2>1. PICK h \in Handler :
          /\ hs[h].pc = "idle" /\ handlers' = Asked(hs, h, choice(p), "page")
          /\ page' = [p EXCEPT !.live = h, !.loading = TRUE, !.at = 0, !.next = NoDay]
    BY <1>4 DEF Render
  <2>2. page' \in Pages BY <1>1, <2>1 DEF Pages
  <2>3. /\ page'.step = p.step /\ page'.svc = p.svc /\ page'.day = p.day /\ page'.pro = p.pro
        /\ page'.profile = p.profile /\ page'.slot = p.slot /\ page'.slotOf = p.slotOf
        /\ page'.submit = p.submit /\ page'.live = h /\ page'.loading = TRUE /\ page'.at = 0
    BY <1>1, <2>1 DEF Pages
  <2>4. choice(page') = choice(p) BY <2>3 DEF choice
  <2>5. choice(p) \in limits.keys
    <3>1. p.day \in days BY <1>1, <1>4 DEF ChoiceOK
    <3> QED BY <1>1, <1>4, <3>1, KeyOfChoice DEF choice
  <2> DEFINE c == Beginning(choice(p), "page")
  <2>6. Handled(limits, c) /\ c.key = choice(p) /\ c.by = "page"
    <3>1. limits \in Limits /\ "page" \in {"page", "visitor"} BY DEF StoreOK
    <3> QED BY <2>5, <3>1, AskedOK, Zenon
  <2>7. handlers' = [hs EXCEPT ![h] = c] BY <2>1 DEF Asked, Beginning
  <2> HIDE DEF c
  <2>8. HandlersOK(limits, handlers') BY <1>1, <2>6, <2>7, HandlerStep
  <2>9. hs[h].by = "nobody" BY <1>1, <2>1 DEF HandlersOK, Handled, Places
  <2>10. \A g \in Handler : handlers'[g] = IF g = h THEN c ELSE hs[g]
    BY <1>1, <2>7 DEF HandlersOK
  <2>11. ChoiceOK(limits, page') BY <1>1, <1>4, <2>2, <2>3 DEF ChoiceOK, Several
  <2>12. TimesOK(page') BY <1>4, <2>3, <2>4 DEF TimesOK, Rendering
  <2>13. SubmitOK(page', handlers')
    <3>1. p.submit # NoHandler => p.submit \in Handler /\ p.submit # h /\ hs[p.submit].by = "submit"
      BY <1>1, <2>9 DEF SubmitOK, Pages
    <3>2. p.submit # NoHandler => handlers'[p.submit] = hs[p.submit] BY <2>10, <3>1
    <3>3. \A g \in Handler : handlers'[g].by = "submit" => hs[g].by = "submit" BY <2>6, <2>10
    <3> QED BY <1>1, <2>3, <2>4, <3>2, <3>3 DEF SubmitOK
  <2>14. Awaited(page', handlers'[page'.live])
    BY <1>4, <2>3, <2>4, <2>6, <2>10 DEF Awaited
  <2>15. PageOK' BY <2>11, <2>12, <2>13, <2>14, PageNext
  <2>16. Painted(p, hs) BY <2>3, <2>4, <2>6, <2>9, <2>10 DEF Painted
  <2> QED BY <2>8, <2>15, <2>16
<1> QED BY <1>2, <1>3, <1>4

\* The bookings of the page survive a step that makes none.
LEMMA BookedKept ==
  ASSUME BookedOK, Mine' = Mine, limits' = limits,
         \A h \in Handler : Accepted(handlers'[h]) =>
           /\ Accepted(handlers[h]) /\ handlers'[h].key = handlers[h].key
           /\ handlers'[h].seen = handlers[h].seen,
         "lost" \notin limits.faulty =>
           \A h \in Handler : Accepted(handlers[h]) => Accepted(handlers'[h]) \/ page'.step = "done",
         page.step = "done" => page'.step = "done",
         limits.patient /\ page'.step = "done" =>
           \/ page.step = "done" /\ choice(page') = choice(page) /\ page'.slot = page.slot
           \/ \E h \in Handler : /\ Accepted(handlers[h]) /\ handlers[h].key = choice(page')
                                 /\ handlers[h].seen = page'.slot
  PROVE  BookedOK'
<1>1. ASSUME NEW h \in Handler, Accepted(handlers'[h])
      PROVE  \E b \in Mine' : RowOf(handlers'[h].key, handlers'[h].seen, b)
  BY <1>1 DEF BookedOK
<1>2. ASSUME "lost" \notin limits.faulty
      PROVE  Mine' = {} \/ \E b \in Mine' : Mine' = {b}
                          /\ (page'.step = "done" \/ \E h \in Handler : Accepted(handlers'[h]))
  BY <1>2 DEF BookedOK
<1>3. ASSUME limits.patient, page'.step = "done"
      PROVE  \E b \in Mine' : RowOf(choice(page'), page'.slot, b)
  BY <1>3 DEF BookedOK
<1>4. choice(page)' = choice(page') BY DEF choice
<1>5. \A h \in Handler : Accepted(handlers[h])' <=> Accepted(handlers'[h]) BY DEF Accepted
<1>6. \A key, t, b : RowOf(key, t, b)' <=> RowOf(key, t, b) BY DEF RowOf, proOf
<1> QED BY <1>1, <1>2, <1>3, <1>4, <1>5, <1>6 DEF BookedOK

\* A step that leaves submissions alone.
Aside ==
  /\ \A h \in Handler : handlers[h].by = "submit" \/ handlers'[h].by = "submit"
                          => handlers'[h] = handlers[h]
  /\ page'.submit = page.submit /\ choice(page') = choice(page) /\ page'.slot = page.slot
  /\ \/ page'.step = page.step
     \/ page.submit = NoHandler /\ page.step # "done" /\ page'.step # "done"

\* A step that touches neither the submission nor its rows keeps the booking.
LEMMA AsideOK ==
  ASSUME StoreOK, PageOK, Aside, UNCHANGED <<shop, limits>>
  PROVE  SubmitOK(page', handlers') /\ (BookedOK => BookedOK')
<1>1. SubmitOK(page', handlers')
  <2>1. page.submit # NoHandler => page.submit \in Handler /\ handlers[page.submit].by = "submit"
    BY DEF PageOK, SubmitOK, ChoiceOK, Pages
  <2>2. page.submit # NoHandler => handlers'[page.submit] = handlers[page.submit]
    BY <2>1 DEF Aside
  <2> QED BY <2>1, <2>2 DEF PageOK, SubmitOK, Aside
<1>2. ASSUME BookedOK PROVE BookedOK'
  <2>1. Mine' = Mine BY DEF Mine
  <2>2. \A h \in Handler : Accepted(handlers'[h]) \/ Accepted(handlers[h]) => handlers'[h] = handlers[h]
    BY DEF Accepted, Aside
  <2> QED BY <1>2, <2>1, <2>2, BookedKept DEF Aside
<1> QED BY <1>1, <1>2

\* A handler is let go, or asks for the page.
LEMMA FreedOK ==
  ASSUME StoreOK, NEW h \in Handler
  PROVE  /\ HandlersOK(limits, Freed(h)) /\ Freed(h)[h].by = "nobody" /\ Freed(h)[h].pc = "idle"
         /\ \A g \in Handler : g # h => Freed(h)[g] = handlers[g]
<1>1. Handled(limits, Idle) /\ Idle.by = "nobody" /\ Idle.pc = "idle" BY IdleOK DEF StoreOK, Idle
<1>2. HandlersOK(limits, Freed(h)) BY <1>1, HandlerStep DEF StoreOK, Freed
<1> QED BY <1>1, <1>2 DEF StoreOK, HandlersOK, Freed

\* A request of the page is well formed, and the other handlers stay.
LEMMA PageAsks ==
  ASSUME StoreOK, NEW hs, HandlersOK(limits, hs), NEW h \in Handler, NEW key \in limits.keys
  PROVE  /\ HandlersOK(limits, Asked(hs, h, key, "page"))
         /\ Asked(hs, h, key, "page")[h].by = "page" /\ Asked(hs, h, key, "page")[h].key = key
         /\ \A g \in Handler : g # h => Asked(hs, h, key, "page")[g] = hs[g]
<1> DEFINE c == Beginning(key, "page")
<1>1. limits \in Limits /\ "page" \in {"page", "visitor"} BY DEF StoreOK
<1>2. Handled(limits, c) /\ c.key = key /\ c.by = "page"
  BY <1>1, AskedOK
<1> HIDE DEF c
<1>3. Asked(hs, h, key, "page") = [hs EXCEPT ![h] = c] BY DEF Asked, Beginning, c
<1>4. HandlersOK(limits, [hs EXCEPT ![h] = c]) BY <1>2, HandlerStep
<1> QED BY <1>2, <1>3, <1>4 DEF HandlersOK

\* The page asks for the profile.
LEMMA LoadOK ==
  ASSUME StoreOK, PageOK, NEW h \in Handler, Load(h)
  PROVE  StoreOK' /\ PageOK' /\ (BookedOK => BookedOK')
<1>1. /\ page.step = "loading" /\ page.live = NoHandler /\ handlers[h].pc = "idle"
      /\ handlers' = Asked(handlers, h, ProfileKey, "page") /\ page' = [page EXCEPT !.live = h]
      /\ "browse" \in limits.ops
      /\ UNCHANGED <<shop, cache, redisUp, circuit, begun, limits, faults>>
  BY DEF Load, At, server
<1>2. ProfileKey \in limits.keys BY LimitsAssumption DEF StoreOK
<1>3. /\ HandlersOK(limits, handlers') /\ handlers'[h].by = "page" /\ handlers'[h].key = ProfileKey
      /\ \A g \in Handler : g # h => handlers'[g] = handlers[g]
  BY <1>1, <1>2, PageAsks DEF StoreOK
<1>4. handlers[h].by = "nobody" BY <1>1 DEF StoreOK, HandlersOK, Handled, Places
<1>5. page \in Pages /\ ChoiceOK(limits, page) BY DEF PageOK, ChoiceOK
<1>6. page' \in Pages BY <1>1, <1>5 DEF Pages
<1>7. /\ page'.live = h
      /\ \A f \in {"step", "profile", "svc", "pro", "day", "slots", "of", "slot", "slotOf", "loading",
                   "at", "submit"} : page'[f] = page[f]
  BY <1>1, <1>5 DEF Pages
<1>8. ChoiceOK(limits, page') BY <1>1, <1>5, <1>6, <1>7 DEF ChoiceOK, Several
<1>9. TimesOK(page') BY <1>7 DEF TimesOK, PageOK, choice
<1>10. Awaited(page', handlers'[page'.live]) BY <1>1, <1>3, <1>7 DEF Awaited
<1>11. Aside BY <1>3, <1>4, <1>7 DEF Aside, choice
<1>12. PageOK' BY <1>1, <1>8, <1>9, <1>10, <1>11, AsideOK, PageNext
<1> QED BY <1>1, <1>3, <1>11, <1>12, AsideOK DEF StoreOK

\* The profile arrives, or the page gives up.
LEMMA LoadReplyOK ==
  ASSUME StoreOK, PageOK, NEW h \in Handler, LoadReply(h)
  PROVE  StoreOK' /\ PageOK' /\ (BookedOK => BookedOK')
<1>1. /\ page.step = "loading" /\ page.live = h /\ handlers[h].pc \in {"done", "failed"}
      /\ handlers' = Freed(h)
      /\ page' = [page EXCEPT !.live = NoHandler, !.profile = handlers[h].val,
                             !.step = IF At(h, "done") THEN "service" ELSE "lost"]
      /\ UNCHANGED <<shop, cache, redisUp, circuit, begun, limits, faults>>
  BY DEF LoadReply, server
<1>2. handlers[h].by = "page" /\ handlers[h].key = ProfileKey
  BY <1>1, HandlerAssumption DEF PageOK, Awaited
<1>3. Handled(limits, handlers[h]) BY DEF StoreOK, HandlersOK
<1>4. /\ handlers[h].pc = "done" => Shown(limits, handlers[h].val)
      /\ handlers[h].pc = "failed" => handlers[h].val = NoEntry
  BY <1>2, <1>3 DEF Handled, Valued
<1>5. page \in Pages /\ ChoiceOK(limits, page) /\ SubmitOK(page, handlers) BY DEF PageOK, ChoiceOK
<1>6. page' \in Pages
  <2>1. handlers[h].val \in Profiles \cup {NoEntry} BY <1>1, <1>4 DEF Shown
  <2> DEFINE step == IF At(h, "done") THEN "service" ELSE "lost"
  <2>2. step \in {"service", "lost"} OBVIOUS
  <2>3. page' = [page EXCEPT !.live = NoHandler, !.profile = handlers[h].val, !.step = step]
    BY <1>1
  <2> HIDE DEF step
  <2> QED BY <1>5, <2>1, <2>2, <2>3 DEF Pages
<1>7. /\ page'.live = NoHandler /\ page'.profile = handlers[h].val
      /\ page'.step = IF handlers[h].pc = "done" THEN "service" ELSE "lost"
      /\ \A f \in {"svc", "pro", "day", "slots", "of", "slot", "slotOf", "loading",
                   "at", "submit"} : page'[f] = page[f]
  BY <1>1, <1>5 DEF Pages, At
<1>8. page.submit = NoHandler /\ page.pro = NoPro /\ page.day \in days \cup {NoDay}
  BY <1>1, <1>5 DEF SubmitOK, ChoiceOK
<1>9. "browse" \in limits.ops BY <1>1, <1>5, HandlerAssumption DEF ChoiceOK
<1>10. ChoiceOK(limits, page') BY <1>4, <1>6, <1>7, <1>8, <1>9 DEF ChoiceOK
<1>11. TimesOK(page') BY <1>1, <1>7 DEF TimesOK, PageOK, choice
<1>12. Aside
  <2>1. \A g \in Handler : handlers[g].by = "submit" \/ handlers'[g].by = "submit"
                          => handlers'[g] = handlers[g]
    BY <1>1, <1>2, FreedOK
  <2> QED BY <1>1, <1>7, <1>8, <2>1 DEF Aside, choice
<1>13. HandlersOK(limits, handlers') BY <1>1, FreedOK
<1>14. PageOK' BY <1>1, <1>7, <1>10, <1>11, <1>12, AsideOK, PageNext
<1> QED BY <1>1, <1>12, <1>13, <1>14, AsideOK DEF StoreOK

\* The answer to a cancelled request changes nothing on the page.
LEMMA IgnoredOK ==
  ASSUME StoreOK, PageOK, NEW h \in Handler, Ignored(h)
  PROVE  StoreOK' /\ PageOK' /\ (BookedOK => BookedOK')
<1>1. /\ handlers[h].by = "page" /\ page.live # h /\ handlers' = Freed(h) /\ page' = page
      /\ UNCHANGED <<shop, cache, redisUp, circuit, begun, limits, faults>>
  BY DEF Ignored, server, pageVars
<1>2. HandlersOK(limits, handlers') /\ handlers'[h].by = "nobody"
      /\ \A g \in Handler : g # h => handlers'[g] = handlers[g]
  BY <1>1, FreedOK
<1>3. Aside BY <1>1, <1>2 DEF Aside
<1>4. page'.live # NoHandler => Awaited(page', handlers'[page'.live])
  <2>1. page.live \in Handler \cup {NoHandler} BY DEF PageOK, ChoiceOK, Pages
  <2> QED BY <1>1, <1>2, <2>1 DEF PageOK
<1>5. PageOK' BY <1>1, <1>3, <1>4, AsideOK, PageNext DEF PageOK
<1> QED BY <1>1, <1>2, <1>3, <1>5, AsideOK DEF StoreOK

\* The answer with times: what the page may do with it.
Answering(h) ==
  /\ page.live = h /\ page.step = "when" /\ handlers[h].by = "page"
  /\ UNCHANGED <<shop, cache, redisUp, circuit, begun, limits, faults>>
  /\ page' \in Pages
  /\ \A f \in {"step", "profile", "svc", "pro", "day", "slot", "slotOf", "submit"} : page'[f] = page[f]

\* Nobody is asked any more.
LEMMA Quiet ==
  ASSUME StoreOK, PageOK, NEW h \in Handler, Answering(h), handlers' = Freed(h),
         page'.live = NoHandler, page'.slots # {} => page'.of = choice(page)
  PROVE  StoreOK' /\ PageOK' /\ (BookedOK => BookedOK')
<1>1. HandlersOK(limits, handlers') /\ handlers'[h].by = "nobody"
      /\ \A g \in Handler : g # h => handlers'[g] = handlers[g]
  BY FreedOK
<1>2. choice(page') = choice(page) BY DEF Answering, choice
<1>3. Aside BY <1>1, <1>2 DEF Aside, Answering
<1>4. ChoiceOK(limits, page') BY DEF PageOK, ChoiceOK, Several, Answering
<1>5. TimesOK(page') BY <1>2 DEF PageOK, TimesOK, Answering
<1>6. PageOK' BY <1>3, <1>4, <1>5, AsideOK, PageNext DEF Answering
<1> QED BY <1>1, <1>3, <1>6, AsideOK DEF StoreOK, Answering

\* The next day is asked for.
LEMMA Searching ==
  ASSUME StoreOK, PageOK, NEW h \in Handler, Answering(h), NEW i \in Nat, i > 0,
         page.day # NoDay, page.day + i \in days,
         handlers' = Asked(Freed(h), h, [choice(page) EXCEPT !.day = page.day + i], "page"),
         page'.live = h, page'.at = i, page'.slots = {}, page'.loading = TRUE
  PROVE  StoreOK' /\ PageOK' /\ (BookedOK => BookedOK')
<1> DEFINE key == [choice(page) EXCEPT !.day = page.day + i]
<1>1. HandlersOK(limits, Freed(h)) /\ \A g \in Handler : g # h => Freed(h)[g] = handlers[g]
  BY FreedOK
<1>2. key \in limits.keys
  <2>1. key = [svc |-> page.svc, day |-> page.day + i, pro |-> page.pro] BY DEF choice
  <2>2. ChoiceOK(limits, page) /\ page.step = "when" BY DEF PageOK, Answering
  <2> QED BY <2>1, <2>2, KeyOfChoice
<1> HIDE DEF key
<1>3. /\ HandlersOK(limits, handlers') /\ handlers'[h].by = "page" /\ handlers'[h].key = key
      /\ \A g \in Handler : g # h => handlers'[g] = handlers[g]
  BY <1>1, <1>2, PageAsks DEF key
<1>4. choice(page') = choice(page) BY DEF Answering, choice
<1>5. Aside BY <1>3, <1>4 DEF Aside, Answering
<1>6. ChoiceOK(limits, page')
  <2>1. page.live # NoHandler => "browse" \in limits.ops BY DEF PageOK, ChoiceOK
  <2>2. page'.live = page.live BY DEF Answering
  <2> QED BY <2>1, <2>2 DEF PageOK, ChoiceOK, Several, Answering
<1>7. TimesOK(page') BY <1>4 DEF PageOK, TimesOK, Answering
<1>8. Awaited(page', handlers'[page'.live])
  <2>1. page'.day = page.day /\ page'.step = "when" BY DEF Answering
  <2> QED BY <1>3, <1>4, <2>1 DEF Awaited, key
<1>9. PageOK' BY <1>5, <1>6, <1>7, <1>8, AsideOK, PageNext DEF Answering
<1> QED BY <1>3, <1>5, <1>9, AsideOK DEF StoreOK, Answering

\* The answer the page waits for: its times, the next day to look at, or an error.
LEMMA SlotsReplyOK ==
  ASSUME StoreOK, PageOK, NEW h \in Handler, SlotsReply(h)
  PROVE  StoreOK' /\ PageOK' /\ (BookedOK => BookedOK')
<1> DEFINE times == handlers[h].val
           p == [page EXCEPT !.slots = times, !.of = handlers[h].key]
           quiet == [page EXCEPT !.live = NoHandler, !.loading = FALSE]
<1>1. /\ page.live = h /\ page.step = "when" /\ handlers[h].by = "page"
      /\ UNCHANGED <<shop, cache, redisUp, circuit, begun, limits, faults>>
  BY DEF SlotsReply, server
<1>2. Awaited(page, handlers[h]) BY <1>1, HandlerAssumption DEF PageOK
<1>3. page.loading /\ page.day # NoDay /\ page.day \in Nat /\ page.at \in Nat
  <2>1. page.day \in days BY <1>1, <1>2 DEF Awaited, PageOK, ChoiceOK
  <2>2. page.at \in Nat BY DEF PageOK, ChoiceOK, Pages
  <2> QED BY <1>1, <1>2, <2>1, <2>2, DaysOK DEF Awaited
<1>4. page \in Pages /\ Handled(limits, handlers[h]) /\ handlers[h].key \in limits.keys
  BY <1>1 DEF PageOK, ChoiceOK, StoreOK, HandlersOK, Handled
<1>5. /\ page.at = 0 => handlers[h].key = choice(page)
      /\ page.at > 0 => page.slots = {} /\ page.day + page.at \in days
                        /\ handlers[h].key = [choice(page) EXCEPT !.day = page.day + page.at]
  BY <1>1, <1>2 DEF Awaited
<1>6. handlers[h].pc = "done" => times \in SUBSET Int
  <2>1. handlers[h].key # ProfileKey
    <3>0. ChoiceOK(limits, page) BY DEF PageOK
    <3>1. CASE page.at = 0
      <4>1. page.day \in days BY <1>1, <1>2 DEF Awaited, PageOK, ChoiceOK
      <4> QED BY <1>1, <1>5, <3>0, <3>1, <4>1, KeyOfChoice DEF choice
    <3>2. CASE page.at > 0
      <4>1. handlers[h].key = [svc |-> page.svc, day |-> page.day + page.at, pro |-> page.pro]
        BY <1>5, <3>2 DEF choice
      <4> QED BY <1>1, <1>5, <3>0, <3>2, <4>1, KeyOfChoice
    <3> QED BY <1>3, <3>1, <3>2
  <2> QED BY <1>1, <1>4, <2>1 DEF Handled, Valued
<1>7. handlers[h].key \in Picks \cup {NoEntry} \/ handlers[h].key = ProfileKey
  BY <1>4 DEF Handled, Handling
<1>8. handlers[h].key \in Picks
  <2>1. choice(page) \in Picks BY <1>4 DEF choice, Picks, Pages
  <2>2. page.at > 0 => page.day + page.at \in Day BY <1>5, DaysOK
  <2>3. page.at > 0 => handlers[h].key \in Picks BY <1>5, <2>1, <2>2 DEF Picks
  <2> QED BY <1>3, <1>5, <2>1, <2>3
<1>9. CASE At(h, "done") /\ page.at = 0 /\ times = {}
  <2>0. ~(page.at > 0) BY <1>9
  <2>1. NextDay(Freed(h), h, p, 1) BY <1>9, <2>0 DEF SlotsReply, At
  <2>2. p \in Pages
    <3>1. {} \in SUBSET Int OBVIOUS
    <3> QED BY <1>4, <1>8, <1>9, <3>1 DEF Pages
  <2>3. /\ p.of = handlers[h].key /\ p.slots = {}
        /\ \A f \in {"step", "profile", "svc", "pro", "day", "slot", "slotOf", "submit", "loading"} :
             p[f] = page[f]
    BY <1>4, <1>9 DEF Pages
  <2>4. choice(p) = choice(page) BY <2>3 DEF choice
  <2> HIDE DEF p
  <2>5. CASE p.day + 1 \in days
    <3>1. /\ handlers' = Asked(Freed(h), h, [choice(page) EXCEPT !.day = page.day + 1], "page")
          /\ page' = [p EXCEPT !.live = h, !.searching = TRUE, !.at = 1]
      BY <2>1, <2>3, <2>4, <2>5 DEF NextDay, choice
    <3>2. page' \in Pages BY <2>2, <3>1 DEF Pages
    <3>3. /\ page'.live = h /\ page'.at = 1
          /\ \A f \in {"step", "profile", "svc", "pro", "day", "slots", "slot", "slotOf", "submit",
                       "loading"} : page'[f] = p[f]
      BY <2>2, <3>1 DEF Pages
    <3>4. Answering(h) BY <1>1, <2>3, <3>2, <3>3 DEF Answering
    <3>5. page'.slots = {} /\ page'.loading = TRUE /\ page.day + 1 \in days
      BY <1>3, <1>4, <2>3, <2>5, <3>3 DEF Pages
    <3>6. 1 \in Nat /\ 1 > 0 OBVIOUS
    <3> QED BY <1>3, <3>1, <3>3, <3>4, <3>5, <3>6, Searching
  <2>6. CASE p.day + 1 \notin days
    <3>1. /\ handlers' = Freed(h)
          /\ page' = [p EXCEPT !.live = NoHandler, !.searching = FALSE, !.loading = FALSE]
      BY <2>1, <2>6 DEF NextDay
    <3>2. page' \in Pages BY <2>2, <3>1 DEF Pages
    <3>3. /\ page'.live = NoHandler
          /\ \A f \in {"step", "profile", "svc", "pro", "day", "slots", "slot", "slotOf", "submit"} :
               page'[f] = p[f]
      BY <2>2, <3>1 DEF Pages
    <3>4. Answering(h) BY <1>1, <2>3, <3>2, <3>3 DEF Answering
    <3> QED BY <2>3, <3>1, <3>3, <3>4, Quiet
  <2> QED BY <2>5, <2>6
<1>10. CASE At(h, "done") /\ page.at = 0 /\ times # {}
  <2>0. ~(page.at > 0) BY <1>10
  <2>1. handlers' = Freed(h) /\ page' = [p EXCEPT !.live = NoHandler, !.loading = FALSE]
    BY <1>10, <2>0 DEF SlotsReply, At
  <2>2. times \in SUBSET Int BY <1>6, <1>10 DEF At
  <2>3. p \in Pages BY <1>4, <1>8, <2>2 DEF Pages
  <2>4. /\ p.of = handlers[h].key
        /\ \A f \in {"step", "profile", "svc", "pro", "day", "slot", "slotOf", "submit"} :
             p[f] = page[f]
    BY <1>4 DEF Pages
  <2> HIDE DEF p
  <2>5. page' \in Pages BY <2>1, <2>3 DEF Pages
  <2>6. /\ page'.live = NoHandler
        /\ \A f \in {"step", "profile", "svc", "pro", "day", "slot", "slotOf", "submit", "of"} :
             page'[f] = p[f]
    BY <2>1, <2>3 DEF Pages
  <2>7. Answering(h) BY <1>1, <2>4, <2>5, <2>6 DEF Answering
  <2> QED BY <1>5, <1>10, <2>1, <2>4, <2>6, <2>7, Quiet
<1>11. CASE At(h, "done") /\ page.at > 0 /\ times = {}
  <2>0. page.at # 0 BY <1>3, <1>11
  <2>1. NextDay(Freed(h), h, page, page.at + 1)
    BY <1>11, <2>0 DEF SlotsReply, At
  <2>5. CASE page.day + (page.at + 1) \in days
    <3>1. /\ handlers' = Asked(Freed(h), h, [choice(page) EXCEPT !.day = page.day + (page.at + 1)], "page")
          /\ page' = [page EXCEPT !.live = h, !.searching = TRUE, !.at = page.at + 1]
      BY <2>1, <2>5 DEF NextDay, choice
    <3>0. page.at + 1 \in Nat /\ page.at + 1 > 0 BY <1>3
    <3>2. page' \in Pages BY <1>4, <3>0, <3>1 DEF Pages
    <3>3. /\ page'.live = h /\ page'.at = page.at + 1
          /\ \A f \in {"step", "profile", "svc", "pro", "day", "slots", "slot", "slotOf", "submit",
                       "loading"} : page'[f] = page[f]
      BY <1>4, <3>1 DEF Pages
    <3>4. Answering(h) BY <1>1, <3>2, <3>3 DEF Answering
    <3>5. page'.slots = {} /\ page'.loading = TRUE
      BY <1>3, <1>4, <1>5, <1>11, <3>3 DEF Pages
    <3> QED BY <1>3, <2>5, <3>0, <3>1, <3>3, <3>4, <3>5, Searching
  <2>6. CASE page.day + (page.at + 1) \notin days
    <3>1. /\ handlers' = Freed(h)
          /\ page' = [page EXCEPT !.live = NoHandler, !.searching = FALSE, !.loading = FALSE]
      BY <2>1, <2>6 DEF NextDay
    <3>2. page' \in Pages BY <1>4, <3>1 DEF Pages
    <3>3. /\ page'.live = NoHandler
          /\ \A f \in {"step", "profile", "svc", "pro", "day", "slots", "slot", "slotOf", "submit"} :
               page'[f] = page[f]
      BY <1>4, <3>1 DEF Pages
    <3>4. Answering(h) BY <1>1, <3>2, <3>3 DEF Answering
    <3> QED BY <1>5, <1>11, <3>1, <3>3, <3>4, Quiet
  <2> QED BY <2>5, <2>6
<1>12. CASE At(h, "done") /\ page.at > 0 /\ times # {}
  <2>0. page.at # 0 BY <1>3, <1>12
  <2>1. /\ handlers' = Freed(h)
        /\ page' = [quiet EXCEPT !.searching = FALSE, !.next = page.day + page.at]
    BY <1>12, <2>0 DEF SlotsReply, At
  <2>2. page.day + page.at \in Day BY <1>5, <1>12, DaysOK
  <2>3. page' \in Pages BY <1>4, <2>1, <2>2 DEF Pages
  <2>4. /\ page'.live = NoHandler
        /\ \A f \in {"step", "profile", "svc", "pro", "day", "slots", "slot", "slotOf", "submit"} :
             page'[f] = page[f]
    BY <1>4, <2>1 DEF Pages
  <2>5. Answering(h) BY <1>1, <2>3, <2>4 DEF Answering
  <2> QED BY <1>5, <1>12, <2>1, <2>4, <2>5, Quiet
<1>13. CASE At(h, "failed")
  <2> DEFINE still == page.searching /\ page.at = 0
  <2>1. /\ handlers' = Freed(h)
        /\ page' = [quiet EXCEPT !.slots = {}, !.of = choice(page), !.searching = still]
    BY <1>13 DEF SlotsReply, At
  <2>2. still \in BOOLEAN BY <1>4 DEF Pages
  <2> HIDE DEF still
  <2>3. choice(page) \in Picks BY <1>4 DEF choice, Picks, Pages
  <2>4. page' \in Pages BY <1>4, <2>1, <2>2, <2>3 DEF Pages
  <2>5. /\ page'.live = NoHandler /\ page'.slots = {}
        /\ \A f \in {"step", "profile", "svc", "pro", "day", "slot", "slotOf", "submit"} :
             page'[f] = page[f]
    BY <1>4, <2>1 DEF Pages
  <2>6. Answering(h) BY <1>1, <2>4, <2>5 DEF Answering
  <2> QED BY <2>1, <2>5, <2>6, Quiet
<1>14. \/ At(h, "done") /\ page.at = 0
       \/ At(h, "done") /\ page.at > 0
       \/ At(h, "failed")
  BY Zenon DEF SlotsReply
<1> QED BY <1>9, <1>10, <1>11, <1>12, <1>13, <1>14

\* A click leads to a page p.
Clickable == {"service", "professional", "when", "details"}
Clicked(p) ==
  /\ page.step \in Clickable /\ p.step \in Clickable
  /\ limits.patient => page.submit = NoHandler
  /\ UNCHANGED <<shop, cache, redisUp, circuit, begun, limits, faults>>
  /\ ChoiceOK(limits, p)
  /\ p.live = page.live /\ p.loading = page.loading /\ p.slots = page.slots
  /\ p.of = page.of /\ p.at = page.at /\ p.submit = page.submit
  /\ p.day # NoDay /\ p.slot # NoSlot => p.slotOf = choice(p)

\* A click whose render is well formed keeps the whole invariant.
LEMMA ClickOK ==
  ASSUME StoreOK, PageOK, NEW p, Clicked(p), Render(p, handlers)
  PROVE  StoreOK' /\ PageOK' /\ (BookedOK => BookedOK')
<1>1. SubmitOK(p, handlers)
  BY DEF PageOK, SubmitOK, Clicked, Clickable
<1>2. Rendering(p, handlers) BY <1>1 DEF Rendering, Clicked, StoreOK
<1>3. limits' = limits BY DEF Clicked
<1>4. HandlersOK(limits, handlers') /\ PageOK' /\ Painted(p, handlers)
  BY <1>2, <1>3, RenderOK
<1>5. StoreOK' BY <1>4 DEF StoreOK, Clicked
<1>6. ASSUME BookedOK PROVE BookedOK'
  <2>1. Mine' = Mine BY DEF Mine, Clicked
  <2>2. \A h \in Handler : Accepted(handlers'[h]) \/ Accepted(handlers[h]) => handlers'[h] = handlers[h]
    BY <1>4 DEF Accepted, Painted
  <2>3. page.step # "done" /\ page'.step # "done" BY <1>4 DEF Painted, Clicked, Clickable
  <2> QED BY <1>3, <1>6, <2>1, <2>2, <2>3, BookedKept
<1> QED BY <1>4, <1>5, <1>6

\* What a click changes of the page.
Redrawn(p, changed) ==
  /\ p \in Pages
  /\ \A f \in {"step", "profile", "svc", "pro", "day", "slots", "of", "slot", "slotOf", "loading", "at",
              "live", "submit"} \ changed : p[f] = page[f]

\* The step for professionals is there only when the profile shows several.
LEMMA SeveralShown ==
  hasProfessionalStep => Several(page)
<1>1. Cardinality({}) = 0 BY FS_EmptySet
<1> QED BY <1>1 DEF hasProfessionalStep, professionals, Several

\* A service is chosen.
LEMMA ChooseServiceOK ==
  ASSUME StoreOK, PageOK, NEW s \in Service, ChooseService(s)
  PROVE  StoreOK' /\ PageOK' /\ (BookedOK => BookedOK')
<1> DEFINE step == IF hasProfessionalStep THEN "professional" ELSE "when"
           p == [page EXCEPT !.svc = s, !.slot = NoSlot, !.step = step]
<1>1. /\ page.step = "service" /\ s \in page.profile.services /\ Render(p, handlers)
      /\ limits.patient => page.submit = NoHandler
      /\ UNCHANGED <<shop, cache, redisUp, circuit, begun, limits, faults>>
  BY DEF ChooseService, Click, server
<1>2. ChoiceOK(limits, page) /\ page \in Pages BY DEF PageOK, ChoiceOK
<1>3. step \in {"professional", "when"} /\ (step = "professional" => Several(page))
  BY SeveralShown
<1> HIDE DEF step
<1>4. Redrawn(p, {"svc", "slot", "step"}) /\ p.svc = s /\ p.slot = NoSlot /\ p.step = step
  <2>1. p \in Pages BY <1>2, <1>3 DEF Pages
  <2>2. /\ p.svc = s /\ p.slot = NoSlot /\ p.step = step
        /\ \A f \in {"profile", "pro", "day", "slots", "of", "slotOf", "loading", "at", "live", "submit"} :
             p[f] = page[f]
    BY <1>2 DEF Pages
  <2> HIDE DEF p
  <2> QED BY <2>1, <2>2 DEF Redrawn
<1> HIDE DEF p
<1>5. ChoiceOK(limits, p) BY <1>1, <1>2, <1>3, <1>4 DEF ChoiceOK, Several, Redrawn
<1>6. Clicked(p) BY <1>1, <1>3, <1>4, <1>5 DEF Clicked, Clickable, Redrawn
<1> QED BY <1>1, <1>6, ClickOK

\* A professional is chosen, or none.
LEMMA ChooseProfessionalOK ==
  ASSUME StoreOK, PageOK, NEW pro \in Pro \cup {NoPro}, ChooseProfessional(pro)
  PROVE  StoreOK' /\ PageOK' /\ (BookedOK => BookedOK')
<1> DEFINE p == [page EXCEPT !.pro = pro, !.slot = NoSlot, !.step = "when"]
<1>1. /\ page.step = "professional" /\ pro \in professionals \cup {NoPro} /\ Render(p, handlers)
      /\ limits.patient => page.submit = NoHandler
      /\ UNCHANGED <<shop, cache, redisUp, circuit, begun, limits, faults>>
  BY DEF ChooseProfessional, Click, server
<1>2. ChoiceOK(limits, page) /\ page \in Pages BY DEF PageOK, ChoiceOK
<1>3. pro # NoPro => pro \in page.profile.pros
  BY <1>1 DEF professionals
<1>4. Redrawn(p, {"pro", "slot", "step"}) /\ p.pro = pro /\ p.slot = NoSlot /\ p.step = "when"
  <2>1. p \in Pages BY <1>2 DEF Pages
  <2>2. /\ p.pro = pro /\ p.slot = NoSlot /\ p.step = "when"
        /\ \A f \in {"profile", "svc", "day", "slots", "of", "slotOf", "loading", "at", "live", "submit"} :
             p[f] = page[f]
    BY <1>2 DEF Pages
  <2> HIDE DEF p
  <2> QED BY <2>1, <2>2 DEF Redrawn
<1> HIDE DEF p
<1>5. ChoiceOK(limits, p) BY <1>1, <1>2, <1>3, <1>4 DEF ChoiceOK, Several, Redrawn
<1>6. Clicked(p) BY <1>1, <1>4, <1>5 DEF Clicked, Clickable, Redrawn
<1> QED BY <1>1, <1>6, ClickOK

\* Another day is chosen, or the field is emptied.
LEMMA SelectDateOK ==
  ASSUME StoreOK, PageOK, NEW d \in days \cup {NoDay}, selectDate(d)
  PROVE  StoreOK' /\ PageOK' /\ (BookedOK => BookedOK')
<1> DEFINE p == [page EXCEPT !.day = d, !.slot = NoSlot, !.next = NoDay]
<1>1. /\ page.step = "when" /\ Render(p, handlers)
      /\ limits.patient => page.submit = NoHandler
      /\ UNCHANGED <<shop, cache, redisUp, circuit, begun, limits, faults>>
  BY DEF selectDate, Click, server
<1>2. ChoiceOK(limits, page) /\ page \in Pages BY DEF PageOK, ChoiceOK
<1>3. d \in Day \cup {NoDay} BY DaysOK
<1>4. Redrawn(p, {"day", "slot"}) /\ p.day = d /\ p.slot = NoSlot
  <2>1. p \in Pages BY <1>2, <1>3 DEF Pages
  <2>2. /\ p.day = d /\ p.slot = NoSlot
        /\ \A f \in {"step", "profile", "svc", "pro", "slots", "of", "slotOf", "loading", "at", "live", "submit"} :
             p[f] = page[f]
    BY <1>2 DEF Pages
  <2> HIDE DEF p
  <2> QED BY <2>1, <2>2 DEF Redrawn
<1> HIDE DEF p
<1>5. ChoiceOK(limits, p) BY <1>1, <1>2, <1>4 DEF ChoiceOK, Several, Redrawn
<1>6. Clicked(p) BY <1>1, <1>4, <1>5 DEF Clicked, Clickable, Redrawn
<1> QED BY <1>1, <1>6, ClickOK

\* A time of the list is taken together with the choice the list answers.
LEMMA SelectSlotOK ==
  ASSUME StoreOK, PageOK, NEW t \in page.slots, selectSlot(t)
  PROVE  StoreOK' /\ PageOK' /\ (BookedOK => BookedOK')
<1> DEFINE p == [page EXCEPT !.slot = t, !.slotOf = page.of, !.step = "details"]
<1>1. /\ page.step = "when" /\ ~page.loading /\ Render(p, handlers)
      /\ limits.patient => page.submit = NoHandler
      /\ UNCHANGED <<shop, cache, redisUp, circuit, begun, limits, faults>>
  BY DEF selectSlot, Click, server
<1>2. ChoiceOK(limits, page) /\ page \in Pages BY DEF PageOK, ChoiceOK
<1>3. t \in Int /\ page.of \in Picks \cup {NoEntry} BY <1>2 DEF Pages
<1>4. Redrawn(p, {"slot", "slotOf", "step"}) /\ p.slotOf = page.of /\ p.step = "details"
  <2>1. p \in Pages BY <1>2, <1>3 DEF Pages
  <2>2. /\ p.slotOf = page.of /\ p.step = "details"
        /\ \A f \in {"profile", "svc", "pro", "day", "slots", "of", "loading", "at", "live", "submit"} :
             p[f] = page[f]
    BY <1>2 DEF Pages
  <2> HIDE DEF p
  <2> QED BY <2>1, <2>2 DEF Redrawn
<1> HIDE DEF p
<1>5. ChoiceOK(limits, p) BY <1>1, <1>2, <1>4 DEF ChoiceOK, Several, Redrawn
<1>6. p.day # NoDay => p.slotOf = choice(p)
  BY <1>1, <1>4 DEF PageOK, TimesOK, Redrawn, choice
<1>7. Clicked(p) BY <1>1, <1>4, <1>5, <1>6 DEF Clicked, Clickable, Redrawn
<1> QED BY <1>1, <1>7, ClickOK

\* A step back, by the button or the bar.
LEMMA StepBackOK ==
  ASSUME StoreOK, PageOK, NEW step \in {"service", "professional", "when"},
         Render([page EXCEPT !.step = step], handlers),
         page.step \in {"professional", "when", "details"},
         step = "professional" => hasProfessionalStep,
         limits.patient => page.submit = NoHandler,
         UNCHANGED <<shop, cache, redisUp, circuit, begun, limits, faults>>
  PROVE  StoreOK' /\ PageOK' /\ (BookedOK => BookedOK')
<1> DEFINE p == [page EXCEPT !.step = step]
<1>2. ChoiceOK(limits, page) /\ page \in Pages BY DEF PageOK, ChoiceOK
<1>3. step = "professional" => Several(page) BY SeveralShown
<1>4. Redrawn(p, {"step"}) /\ p.step = step
  BY <1>2 DEF Redrawn, Pages
<1> HIDE DEF p
<1>5. ChoiceOK(limits, p) BY <1>2, <1>3, <1>4 DEF ChoiceOK, Several, Redrawn
<1>6. p.day # NoDay /\ p.slot # NoSlot => p.slotOf = choice(p)
  BY <1>4 DEF PageOK, TimesOK, Redrawn, choice
<1>7. Clicked(p) BY <1>4, <1>5, <1>6 DEF Clicked, Clickable, Redrawn
<1> QED BY <1>7, ClickOK DEF p

\* Going back keeps the choice, and the time only together with it.
LEMMA BackOK ==
  ASSUME StoreOK, PageOK, Back \/ jumpToCompletedStep
  PROVE  StoreOK' /\ PageOK' /\ (BookedOK => BookedOK')
<1>1. PICK old \in {"professional", "when", "details"}, step \in {"service", "professional", "when"} :
        /\ Click(old) /\ Render([page EXCEPT !.step = step], handlers)
        /\ step = "professional" => hasProfessionalStep
  <2>1. CASE Back BY <2>1 DEF Back
  <2>2. CASE jumpToCompletedStep
    <3>1. PICK i, j \in DOMAIN stepOrder :
            /\ stepOrder[j] \in {"professional", "when", "details"} /\ i < j
            /\ Click(stepOrder[j]) /\ Render([page EXCEPT !.step = stepOrder[i]], handlers)
      BY <2>2 DEF jumpToCompletedStep
    <3>2. /\ stepOrder[i] \in {"service", "professional", "when"}
          /\ stepOrder[i] = "professional" => hasProfessionalStep
      BY <3>1 DEF stepOrder
    <3> QED BY <3>1, <3>2
  <2> QED BY <2>1, <2>2
<1> QED BY <1>1, StepBackOK DEF Click, server

--------------------------------------------------------------------------------
(* Submissions.                                                            *)

\* A submission carries the time and the choice on screen, and is the only one.
LEMMA SubmitBookingOK ==
  ASSUME StoreOK, PageOK, NEW h \in Handler, submitBooking(h)
  PROVE  StoreOK' /\ PageOK' /\ (BookedOK => BookedOK')
<1> DEFINE c == [Idle EXCEPT !.pc = "book", !.by = "submit", !.edit = "book",
                             !.seen = page.slot, !.key = choice(page)]
<1>1. /\ page.step = "details" /\ page.slot # NoSlot /\ page.submit = NoHandler
      /\ handlers[h].pc = "idle" /\ handlers' = [handlers EXCEPT ![h] = c]
      /\ page' = [page EXCEPT !.submit = h]
      /\ UNCHANGED <<shop, cache, redisUp, circuit, begun, limits, faults>>
  BY DEF submitBooking, Click, server, At
<1>2. ChoiceOK(limits, page) /\ page \in Pages BY DEF PageOK, ChoiceOK
<1>3. page.svc \in Service
  <2>1. page.svc \in page.profile.services /\ page.profile \in Profiles
    BY <1>1, <1>2 DEF ChoiceOK, Shown
  <2> QED BY <2>1 DEF Profiles
<1>4. choice(page) \in Chosen /\ choice(page) \in Picks /\ page.slot \in Int
  BY <1>1, <1>2, <1>3 DEF choice, Chosen, Picks, Pages
<1>5. c \in Handling BY <1>4, IdleOK DEF StoreOK, Handling
<1>6. c.pc = "book" /\ c.by = "submit" /\ c.edit = "book" /\ c.seen = page.slot /\ c.key = choice(page)
  BY IdleOK DEF StoreOK, Handling
<1> HIDE DEF c
<1>7. Handled(limits, c) BY <1>4, <1>5, <1>6 DEF Handled, Places
<1>8. HandlersOK(limits, handlers') BY <1>1, <1>7, HandlerStep DEF StoreOK
<1>9. \A g \in Handler : handlers'[g] = IF g = h THEN c ELSE handlers[g]
  BY <1>1 DEF StoreOK, HandlersOK
<1>10. page' \in Pages BY <1>1, <1>2 DEF Pages
<1>11. /\ page'.submit = h
       /\ \A f \in {"step", "profile", "svc", "pro", "day", "slots", "of", "slot", "slotOf", "loading",
                    "at", "live"} : page'[f] = page[f]
  BY <1>1, <1>2 DEF Pages
<1>12. choice(page') = choice(page) BY <1>11 DEF choice
<1>13. ChoiceOK(limits, page') BY <1>1, <1>2, <1>10, <1>11 DEF ChoiceOK, Several
<1>14. TimesOK(page') BY <1>11, <1>12 DEF TimesOK, PageOK
<1>15. SubmitOK(page', handlers')
  <2>1. \A g \in Handler : g # h => handlers[g].by # "submit"
    BY <1>1, HandlerAssumption DEF PageOK, SubmitOK
  <2> QED BY <1>1, <1>6, <1>9, <1>11, <1>12, <2>1 DEF SubmitOK
<1>16. page'.live # NoHandler => Awaited(page', handlers'[page'.live])
  BY <1>1, <1>11 DEF PageOK, Awaited
<1>17. PageOK' BY <1>1, <1>13, <1>14, <1>15, <1>16, PageNext
<1>18. ASSUME BookedOK PROVE BookedOK'
  <2>1. Mine' = Mine BY <1>1 DEF Mine
  <2>2. ~Accepted(handlers[h]) /\ ~Accepted(handlers'[h]) BY <1>1, <1>6, <1>9 DEF Accepted
  <2>3. page.step # "done" /\ page'.step # "done" BY <1>1, <1>11
  <2> QED BY <1>1, <1>9, <1>18, <2>1, <2>2, <2>3, BookedKept
<1> QED BY <1>1, <1>8, <1>17, <1>18 DEF StoreOK

\* The answer to the submission: done, taken by someone else, or refused.
LEMMA SubmitReplyOK ==
  ASSUME StoreOK, PageOK, NEW h \in Handler, SubmitReply(h)
  PROVE  StoreOK' /\ PageOK' /\ (BookedOK => BookedOK')
<1> DEFINE p == [page EXCEPT !.submit = IF @ = h THEN NoHandler ELSE @]
           q == [page EXCEPT !.submit = NoHandler]
<1>1. /\ handlers[h].by = "submit" /\ handlers[h].pc \in {"done", "conflict", "failed"}
      /\ UNCHANGED <<shop, cache, redisUp, circuit, begun, limits, faults>>
  BY Zenon DEF SubmitReply, server
<1>2. ChoiceOK(limits, page) /\ page \in Pages /\ SubmitOK(page, handlers)
  BY DEF PageOK, ChoiceOK
<1>3. page.submit = h /\ page.step \notin {"loading", "lost", "done"} /\ h # NoHandler
  BY <1>1, <1>2, HandlerAssumption DEF SubmitOK
<1>4. p = q BY <1>2, <1>3 DEF Pages
<1>5. /\ handlers[h].pc = "done" => Render([q EXCEPT !.step = "done"], Freed(h))
      /\ handlers[h].pc = "conflict" => Render([q EXCEPT !.slot = NoSlot, !.step = "when"], Freed(h))
      /\ handlers[h].pc = "failed" => Render(q, Freed(h))
  <2>1. CASE handlers[h].pc = "done" BY <1>1, <1>4, <2>1 DEF SubmitReply, At
  <2>2. CASE handlers[h].pc = "conflict" BY <1>1, <1>4, <2>2 DEF SubmitReply, At
  <2>3. CASE handlers[h].pc = "failed" BY <1>1, <1>4, <2>3 DEF SubmitReply, At
  <2> QED BY <2>1, <2>2, <2>3
<1>6. /\ HandlersOK(limits, Freed(h)) /\ Freed(h)[h].by = "nobody"
      /\ \A g \in Handler : g # h => Freed(h)[g] = handlers[g]
  BY FreedOK
<1>7. \A g \in Handler : Freed(h)[g].by # "submit" BY <1>2, <1>3, <1>6 DEF SubmitOK
<1>8. Redrawn(q, {"submit"}) /\ q.submit = NoHandler BY <1>2 DEF Redrawn, Pages
<1>9. page.svc \in page.profile.services BY <1>2, <1>3, HandlerAssumption DEF ChoiceOK
<1>10. page.live # NoHandler => Freed(h)[page.live] = handlers[page.live]
  <2>1. page.live # NoHandler => page.live \in Handler /\ handlers[page.live].by = "page"
    BY <1>2 DEF PageOK, Awaited, Pages
  <2> QED BY <1>1, <1>6, <2>1
<1> HIDE DEF p, q
<1>11. ASSUME NEW r, Redrawn(r, {"submit", "slot", "step"}), r.submit = NoHandler,
              r.step \in {page.step, "when", "done"}, r.slot \in {page.slot, NoSlot},
              Render(r, Freed(h)),
              r.step = "done" => handlers[h].pc = "done" /\ r.slot = page.slot,
              handlers[h].pc = "done" => r.step = "done"
       PROVE  StoreOK' /\ PageOK' /\ (BookedOK => BookedOK')
  <2>1. ChoiceOK(limits, r) BY <1>2, <1>3, <1>9, <1>11 DEF ChoiceOK, Several, Redrawn
  <2>2. SubmitOK(r, Freed(h)) BY <1>7, <1>11 DEF SubmitOK
  <2>3. choice(r) = choice(page) BY <1>11 DEF choice, Redrawn
  <2>4. r.day # NoDay /\ r.slot # NoSlot /\ r.step # "done" => r.slotOf = choice(r)
    BY <1>3, <1>11, <2>3 DEF PageOK, TimesOK, Redrawn
  <2>5. Rendering(r, Freed(h)) BY <1>6, <1>10, <1>11, <2>1, <2>2, <2>4 DEF Rendering, Redrawn
  <2>6. HandlersOK(limits, handlers') /\ PageOK' /\ Painted(r, Freed(h))
    BY <1>1, <1>11, <2>5, RenderOK
  <2>7. StoreOK' BY <1>1, <2>6 DEF StoreOK
  <2>8. ASSUME BookedOK PROVE BookedOK'
    <3>1. Mine' = Mine BY <1>1 DEF Mine
    <3>2. \A g \in Handler : ~Accepted(handlers'[g])
      BY <1>7, <2>6 DEF Accepted, Painted
    <3>3. \A g \in Handler : Accepted(handlers[g]) => page'.step = "done"
      <4>1. \A g \in Handler : Accepted(handlers[g]) => g = h
        BY <1>2, <1>3 DEF Accepted, SubmitOK
      <4>2. Accepted(handlers[h]) => handlers[h].pc = "done" BY <1>1 DEF Accepted
      <4> QED BY <1>11, <2>6, <4>1, <4>2 DEF Painted
    <3>4. limits.patient /\ page'.step = "done" =>
            /\ Accepted(handlers[h]) /\ handlers[h].key = choice(page')
            /\ handlers[h].seen = page'.slot
      <4>1. page'.step = "done" => Accepted(handlers[h]) /\ page'.slot = page.slot
        BY <1>1, <1>11, <2>6 DEF Accepted, Painted
      <4>2. limits.patient => handlers[h].key = choice(page) /\ handlers[h].seen = page.slot
        BY <1>2, <1>3 DEF SubmitOK
      <4> QED BY <2>3, <2>6, <4>1, <4>2 DEF Painted
    <3> QED BY <1>1, <1>3, <2>8, <3>1, <3>2, <3>3, <3>4, BookedKept
  <2> QED BY <2>6, <2>7, <2>8
<1>12. CASE handlers[h].pc = "done"
  <2> DEFINE r == [q EXCEPT !.step = "done"]
  <2>1. Redrawn(r, {"submit", "slot", "step"}) /\ r.submit = NoHandler /\ r.step = "done" /\ r.slot = page.slot
    BY <1>8 DEF Redrawn, Pages
  <2>2. Render(r, Freed(h)) BY <1>5, <1>12
  <2> HIDE DEF r
  <2> QED BY <1>11, <1>12, <2>1, <2>2
<1>13. CASE handlers[h].pc = "conflict"
  <2> DEFINE r == [q EXCEPT !.slot = NoSlot, !.step = "when"]
  <2>1. Redrawn(r, {"submit", "slot", "step"}) /\ r.submit = NoHandler /\ r.step = "when" /\ r.slot = NoSlot
    BY <1>8 DEF Redrawn, Pages
  <2>2. Render(r, Freed(h)) BY <1>5, <1>13
  <2> HIDE DEF r
  <2> QED BY <1>11, <1>13, <2>1, <2>2
<1>14. CASE handlers[h].pc = "failed"
  <2>1. Redrawn(q, {"submit", "slot", "step"}) /\ q.step = page.step /\ q.slot = page.slot
    BY <1>8 DEF Redrawn, Pages
  <2> QED BY <1>3, <1>5, <1>8, <1>11, <1>14, <2>1
<1> QED BY <1>1, <1>12, <1>13, <1>14

\* A request or an answer of the page is lost.
LEMMA LostOK ==
  ASSUME StoreOK, PageOK, NEW h \in Handler, Lost(h)
  PROVE  StoreOK' /\ PageOK' /\ (BookedOK => BookedOK')
<1> DEFINE H == handlers[h]
           c == [H EXCEPT !.pc = "failed", !.val = NoEntry]
<1>1. /\ H.by \in {"page", "submit"} /\ H.pc \in {"get", "book", "done"}
      /\ "lost" \in limits.faulty /\ faults < limits.faults /\ faults' = faults + 1
      /\ handlers' = [handlers EXCEPT ![h] = c]
      /\ UNCHANGED <<shop, cache, redisUp, circuit, begun, limits, page>>
  BY DEF Lost, Fault, server, pageVars
<1>2. Handled(limits, H) /\ H \in Handling BY DEF StoreOK, HandlersOK, Handled
<1>3. c \in Handling BY <1>2 DEF Handling
<1>4. /\ c.pc = "failed" /\ c.val = NoEntry /\ c.by = H.by /\ c.key = H.key /\ c.seen = H.seen
      /\ c.edit = H.edit
  BY <1>2 DEF Handling
<1> HIDE DEF c
<1>5. Handled(limits, c) BY <1>1, <1>2, <1>3, <1>4 DEF Handled, Places
<1>6. Onward(h, c) BY <1>1, <1>4, <1>5 DEF Onward
<1>7. HandlersOK(limits, handlers') /\ SameRequests(handlers, handlers') BY <1>6, MoveOK
<1>8. faults' \in 0 .. limits.faults
  <2>1. limits.faults \in Nat /\ faults \in 0 .. limits.faults BY LimitsAssumption DEF StoreOK
  <2> QED BY <1>1, <2>1
<1>9. StoreOK' BY <1>1, <1>7, <1>8 DEF StoreOK
<1>10. PageOK' BY <1>1, <1>7, ElsewhereOK
<1>11. ASSUME BookedOK PROVE BookedOK'
  <2>1. Mine' = Mine BY <1>1 DEF Mine
  <2>2. \A g \in Handler : handlers'[g] = IF g = h THEN c ELSE handlers[g]
    BY <1>1 DEF StoreOK, HandlersOK
  <2>3. \A g \in Handler : Accepted(handlers'[g]) => handlers'[g] = handlers[g]
    BY <1>4, <2>2 DEF Accepted
  <2>4. choice(page') = choice(page) BY <1>1
  <2> QED BY <1>1, <1>11, <2>1, <2>3, <2>4, BookedKept
<1> QED BY <1>9, <1>10, <1>11

\* Edits cancel no booking of the page.
LEMMA EditedMine ==
  ASSUME StoreOK, NEW e \in limits.ops, NEW s \in After(e)
  PROVE  {b \in s.booked : b.by = "page"} = Mine
<1>1. shop \in Shops BY DEF StoreOK, ShopOK
<1>2. CASE e \in {"cancel", "release"}
  <2>1. s \in cancel BY <1>2 DEF After, release
  <2>2. PICK b \in shop.booked : b.by = "other" /\ s = [shop EXCEPT !.booked = shop.booked \ {b}]
    BY <2>1 DEF cancel
  <2>3. s.booked = shop.booked \ {b} BY <1>1, <2>2 DEF Shops
  <2> QED BY <2>2, <2>3 DEF Mine
<1>3. CASE e \notin {"cancel", "release"}
  <2>1. CASE e \in {"createRule", "deleteRule", "createException", "deleteException"}
    <3>1. s \in createRule \cup deleteRule \cup createException \cup deleteException
      BY <2>1 DEF After
    <3>2. s.booked = shop.booked
      BY <1>1, <3>1 DEF Shops, createRule, deleteRule, createException, deleteException
    <3> QED BY <3>2 DEF Mine
  <2>2. CASE e \in {"createService", "addMember", "removeService", "removeMember"}
    <3>1. s \in createService \cup addMember \cup removeService \cup removeMember
      BY <2>2 DEF After
    <3>2. s.booked = shop.booked
      BY <1>1, <3>1 DEF Shops, createService, addMember, removeService, removeMember
    <3> QED BY <3>2 DEF Mine
  <2>3. CASE e \in {"updateService", "updateBooking", "updateProfile", "deleteAccount"}
    <3>1. s \in updateService \cup updateBooking \cup updateProfile \cup deleteAccount
      BY <2>3 DEF After
    <3>2. s.booked = shop.booked
      BY <1>1, <3>1 DEF Shops, updateService, updateBooking, updateProfile, deleteAccount
    <3> QED BY <3>2 DEF Mine
  <2> QED BY <1>3, <2>1, <2>2, <2>3, EditedShop DEF Edits
<1> QED BY <1>2, <1>3

\* A submission that was accepted goes on deleting, or waits for its answer.
LEMMA SubmissionsGoOn ==
  ASSUME StoreOK, CacheStep, NEW g \in Handler, handlers[g].by = "submit"
  PROVE  \/ handlers'[g].pc = handlers[g].pc
         \/ handlers[g].pc \in {"scan", "del", "done"} /\ handlers'[g].pc \in {"scan", "del", "done"}
<1>1. handlers[g] \in Handling /\ handlers[g].pc \in {"book", "scan", "del", "done", "conflict", "failed"}
  BY DEF StoreOK, HandlersOK, Handled, Places
<1>2. ASSUME NEW h \in Handler, Serve(h)
      PROVE  \/ handlers'[g].pc = handlers[g].pc
             \/ handlers[g].pc \in {"scan", "del", "done"} /\ handlers'[g].pc \in {"scan", "del", "done"}
  <2>1. DOMAIN handlers = Handler BY DEF StoreOK, HandlersOK
  <2>2. CASE getJson(h) \/ setJson(h) \/ Leave(h)
    <3>1. handlers[h].pc \in {"get", "set"} \/ handlers[h].by # "submit"
      BY <2>2 DEF getJson, setJson, Leave, At
    <3>2. g # h BY <1>1, <3>1
    <3>3. handlers'[g] = handlers[g]
      BY <2>1, <2>2, <3>2 DEF getJson, setJson, Leave, Goto
    <3> QED BY <3>3
  <2>3. CASE ReadTenant(h) \/ Compute(h) \/ delProfile(h)
    <3>1. handlers[h].pc \in {"tenant", "compute", "delProfile"}
      BY <2>3, Zenon DEF ReadTenant, Compute, delProfile, At
    <3>2. g # h BY <1>1, <3>1
    <3>3. handlers'[g] = handlers[g]
      BY <2>1, <2>3, <3>2 DEF ReadTenant, Compute, delProfile, Goto
    <3> QED BY <3>3
  <2>4. CASE scan(h)
    <3>1. CASE g # h BY <2>1, <2>4, <3>1 DEF scan
    <3>2. CASE g = h BY <1>1, <2>1, <2>4, <3>2 DEF scan, At, Handling
    <3> QED BY <3>1, <3>2
  <2>5. CASE delByPrefix(h)
    <3>1. CASE g # h BY <2>1, <2>5, <3>1 DEF delByPrefix
    <3>2. CASE g = h BY <1>1, <2>1, <2>5, <3>2 DEF delByPrefix, At, Handling
    <3> QED BY <3>1, <3>2
  <2> QED BY <1>2, <2>2, <2>3, <2>4, <2>5 DEF Serve
<1>3. ASSUME NEW h \in Handler, NEW k \in limits.keys, Visit(h, k)
      PROVE  handlers'[g].pc = handlers[g].pc
  <2>1. handlers[h].pc = "idle" BY <1>3 DEF Visit, Ask, At
  <2>2. g # h BY <1>1, <2>1
  <2> QED BY <1>3, <2>2 DEF Visit, Ask, StoreOK, HandlersOK
<1>4. ASSUME NEW h \in Handler, NEW e \in limits.ops, Edit(h, e)
      PROVE  handlers'[g].pc = handlers[g].pc
  <2>1. handlers[h].pc = "idle" BY <1>4 DEF Edit, At
  <2>2. g # h BY <1>1, <2>1
  <2>3. handlers'[g] = [handlers[g] EXCEPT !.old = @ \/ Reading(g)]
    BY <1>4, <2>2 DEF Edit, Committed
  <2> QED BY <1>1, <2>3 DEF Handling
<1>5. CASE Expires \/ Cooldown \/ RedisStops \/ RedisReturns
  BY <1>5 DEF Expires, Expire, Cooldown, RedisStops, RedisReturns
<1> QED BY <1>2, <1>3, <1>4, <1>5 DEF CacheStep

\* The catalogue and the staff leave the customer's booking alone.
LEMMA CacheStepBooked ==
  ASSUME StoreOK, BookedOK, CacheStep, UNCHANGED page
  PROVE  BookedOK'
<1>1. SameRequests(handlers, handlers') /\ limits' = limits BY CacheStepOK
<1>2. Mine' = Mine
  <2>1. CASE shop' = shop BY <2>1 DEF Mine
  <2>2. CASE \E h \in Handler : \E e \in limits.ops : Edit(h, e)
    <3>1. PICK e \in limits.ops : shop' \in After(e) BY <2>2 DEF Edit
    <3> QED BY <3>1, EditedMine DEF Mine
  <2>3. shop' = shop \/ \E h \in Handler : \E e \in limits.ops : Edit(h, e)
    BY DEF CacheStep, Serve, Expires, Expire, Cooldown, RedisStops, RedisReturns, getJson, setJson,
           delProfile, scan, delByPrefix, ReadTenant, Compute, Leave, Visit
  <2> QED BY <2>1, <2>2, <2>3
<1>3. \A g \in Handler : Accepted(handlers'[g]) \/ Accepted(handlers[g]) =>
        /\ Accepted(handlers'[g]) /\ Accepted(handlers[g])
        /\ handlers'[g].key = handlers[g].key /\ handlers'[g].seen = handlers[g].seen
  <2>1. ASSUME NEW g \in Handler, Accepted(handlers'[g]) \/ Accepted(handlers[g])
        PROVE  /\ handlers[g].by = "submit" /\ handlers'[g].by = "submit"
               /\ handlers'[g].key = handlers[g].key /\ handlers'[g].seen = handlers[g].seen
    BY <1>1, <2>1 DEF Accepted, SameRequests
  <2> QED BY <2>1, SubmissionsGoOn DEF Accepted
<1>4. choice(page') = choice(page) /\ page' = page OBVIOUS
<1> QED BY <1>1, <1>2, <1>3, <1>4, BookedKept

\* bookPublic adds a first row of the customer, for the request accepted.
LEMMA BookPublicBooked ==
  ASSUME StoreOK, PageOK, BookedOK, NEW h \in Handler, bookPublic(h)
  PROVE  BookedOK'
<1> DEFINE H == handlers[h]
           row == RowAt(H.key, H.seen, shop.duration[H.key.svc])
<1>1. /\ H.pc = "book" /\ H.by = "submit"
      /\ \/ Goto(h, "failed") /\ shop' = shop
         \/ Goto(h, "conflict") /\ shop' = shop
         \/ /\ shop' = [shop EXCEPT !.booked = @ \cup {row}]
            /\ Committed(h, [H EXCEPT !.pc = "scan"])
  BY BookSteps
<1>2. UNCHANGED <<limits, page>> /\ SameRequests(handlers, handlers') BY BookOK
<1>3. H \in Handling /\ DOMAIN handlers = Handler BY DEF StoreOK, HandlersOK, Handled
<1>4. page.step # "done" /\ \A g \in Handler : handlers[g].by = "submit" => g = h
  BY <1>1, HandlerAssumption DEF PageOK, SubmitOK
<1>5. \A g \in Handler : handlers'[g].by = "submit" => g = h BY <1>2, <1>4 DEF SameRequests
<1>6. ~Accepted(handlers[h]) BY <1>1 DEF Accepted
<1>7. CASE /\ Goto(h, "failed") \/ Goto(h, "conflict")
           /\ shop' = shop
  <2>1. Mine' = Mine BY <1>7 DEF Mine
  <2>2. handlers'[h].pc \in {"failed", "conflict"} BY <1>3, <1>7 DEF Goto, Handling
  <2>3. \A g \in Handler : ~Accepted(handlers[g]) /\ ~Accepted(handlers'[g])
    BY <1>4, <1>5, <1>6, <2>2 DEF Accepted
  <2> QED BY <1>2, <1>4, <2>1, <2>3, BookedKept
<1>8. CASE /\ shop' = [shop EXCEPT !.booked = @ \cup {row}]
           /\ Committed(h, [H EXCEPT !.pc = "scan"])
  <2>1. handlers'[h] = [H EXCEPT !.pc = "scan"] BY <1>8 DEF Committed
  <2>2. handlers'[h].pc = "scan" /\ handlers'[h].by = "submit" /\ handlers'[h].key = H.key
        /\ handlers'[h].seen = H.seen
    BY <1>1, <1>3, <2>1 DEF Handling
  <2>3. row.by = "page" /\ RowOf(H.key, H.seen, row) BY DEF RowAt, RowOf
  <2> HIDE DEF row
  <2>4. shop'.booked = shop.booked \cup {row} BY <1>8 DEF StoreOK, ShopOK, Shops
  <2>5. Mine' = Mine \cup {row} BY <2>3, <2>4 DEF Mine
  <2>6. Accepted(handlers'[h]) BY <2>2 DEF Accepted
  <2>7. ASSUME NEW g \in Handler, Accepted(handlers'[g])
        PROVE  \E b \in Mine' : RowOf(handlers'[g].key, handlers'[g].seen, b)
    <3>1. g = h BY <1>5, <2>7 DEF Accepted
    <3> QED BY <2>2, <2>3, <2>5, <3>1
  <2>8. ASSUME "lost" \notin limits.faulty PROVE Mine' = {row}
    <3>1. \A g \in Handler : ~Accepted(handlers[g]) BY <1>4, <1>6 DEF Accepted
    <3>2. Mine = {} BY <1>4, <2>8, <3>1 DEF BookedOK
    <3> QED BY <2>5, <3>2
  <2>9. \A g \in Handler : Accepted(handlers[g])' <=> Accepted(handlers'[g]) BY DEF Accepted
  <2>10. \A key, t, b : RowOf(key, t, b)' <=> RowOf(key, t, b) BY DEF RowOf, proOf
  <2>11. page'.step # "done" BY <1>2, <1>4
  <2> QED BY <1>2, <2>5, <2>6, <2>7, <2>8, <2>9, <2>10, <2>11 DEF BookedOK
<1> QED BY <1>1, <1>7, <1>8

--------------------------------------------------------------------------------
(* The whole.                                                              *)

Inv == StoreOK /\ PageOK /\ BookedOK

\* The store and the page are well formed before anything happens.
LEMMA InvInit == Init => Inv
<1> SUFFICES ASSUME Init PROVE Inv OBVIOUS
<1>1. limits \in Limits /\ shop = limits.shop BY DEF Init, CacheInit
<1>2. shop \in Shops /\ IsFiniteSet(shop.exceptions) /\ \A b \in shop.booked : b.by = "other"
  BY <1>1, LimitsAssumption
<1>3. ShopOK(limits, shop) BY <1>1, <1>2 DEF ShopOK
<1>4. CacheOK(limits, cache) BY DEF Init, CacheInit, CacheOK
<1>5. \A h \in Handler : handlers[h] = Idle BY DEF Init, CacheInit
<1>6. Idle.by = "nobody" /\ Handled(limits, Idle) BY <1>1, IdleOK DEF Idle
<1>7. HandlersOK(limits, handlers) BY <1>5, <1>6 DEF HandlersOK, Init, CacheInit
<1>8. limits.faults \in Nat /\ limits.count \in Nat BY <1>1, LimitsAssumption
<1>9. faults \in 0 .. limits.faults /\ begun \in 0 .. limits.count BY <1>8 DEF Init, CacheInit
<1>10. StoreOK BY <1>1, <1>3, <1>4, <1>7, <1>9 DEF StoreOK, Init, CacheInit
<1>11. today \in days /\ today \in Day BY <1>10, DaysOK
<1>12. page \in Pages BY <1>11 DEF Init, Pages
<1>13. /\ page.step = "loading" /\ page.day = today /\ page.pro = NoPro /\ page.slot = NoSlot
       /\ page.live = NoHandler /\ page.submit = NoHandler
  BY DEF Init
<1>14. ChoiceOK(limits, page) BY <1>11, <1>12, <1>13 DEF ChoiceOK
<1>15. TimesOK(page) BY <1>13 DEF TimesOK
<1>16. SubmitOK(page, handlers) BY <1>5, <1>6, <1>13 DEF SubmitOK
<1>17. PageOK BY <1>13, <1>14, <1>15, <1>16 DEF PageOK
<1>18. Mine = {} BY <1>2 DEF Mine
<1>19. BookedOK BY <1>5, <1>6, <1>13, <1>18 DEF BookedOK, Accepted
<1> QED BY <1>10, <1>17, <1>19 DEF Inv

\* Every step keeps the store, the page and the booking well formed.
LEMMA InvNext == Inv /\ [Next]_vars => Inv'
<1> SUFFICES ASSUME Inv, [Next]_vars PROVE Inv' OBVIOUS
<1> USE DEF Inv
<1>1. CASE CacheStep /\ UNCHANGED pageVars
  <2>1. UNCHANGED page BY <1>1 DEF pageVars
  <2>2. StoreOK' /\ SameRequests(handlers, handlers') /\ limits' = limits BY <1>1, CacheStepOK
  <2>3. PageOK' BY <2>1, <2>2, ElsewhereOK
  <2>4. BookedOK' BY <1>1, <2>1, CacheStepBooked
  <2> QED BY <2>2, <2>3, <2>4
<1>2. CASE Customer
  <2>1. CASE \E s \in Service : ChooseService(s) BY <2>1, ChooseServiceOK
  <2>2. CASE \E p \in Pro \cup {NoPro} : ChooseProfessional(p) BY <2>2, ChooseProfessionalOK
  <2>3. CASE \E d \in days \cup {NoDay} : selectDate(d) BY <2>3, SelectDateOK
  <2>4. CASE \E t \in page.slots : selectSlot(t) BY <2>4, SelectSlotOK
  <2>5. CASE Back \/ jumpToCompletedStep BY <2>5, BackOK
  <2>6. CASE \E h \in Handler : submitBooking(h) BY <2>6, SubmitBookingOK
  <2> QED BY <1>2, <2>1, <2>2, <2>3, <2>4, <2>5, <2>6 DEF Customer
<1>3. ASSUME NEW h \in Handler, Load(h) \/ bookPublic(h) \/ Answer(h) \/ Lost(h) PROVE Inv'
  <2>1. CASE Load(h) BY <2>1, LoadOK
  <2>2. CASE bookPublic(h)
    <3>1. StoreOK' /\ SameRequests(handlers, handlers') /\ UNCHANGED <<limits, page>>
      BY <2>2, BookOK
    <3>2. PageOK' BY <3>1, ElsewhereOK
    <3> QED BY <2>2, <3>1, <3>2, BookPublicBooked
  <2>3. CASE LoadReply(h) BY <2>3, LoadReplyOK
  <2>4. CASE SlotsReply(h) BY <2>4, SlotsReplyOK
  <2>5. CASE Ignored(h) BY <2>5, IgnoredOK
  <2>6. CASE SubmitReply(h) BY <2>6, SubmitReplyOK
  <2>7. CASE Lost(h) BY <2>7, LostOK
  <2> QED BY <1>3, <2>1, <2>2, <2>3, <2>4, <2>5, <2>6, <2>7 DEF Answer
<1>4. CASE UNCHANGED vars
  <2>1. UNCHANGED <<shop, cache, redisUp, circuit, handlers, begun, faults, limits, page>>
    BY <1>4 DEF vars, cacheVars, pageVars
  <2>2. StoreOK' BY <2>1 DEF StoreOK
  <2>3. SameRequests(handlers, handlers') BY <2>1 DEF SameRequests
  <2>4. PageOK' BY <2>1, <2>3, ElsewhereOK
  <2>5. Mine' = Mine /\ choice(page') = choice(page) BY <2>1 DEF Mine
  <2>6. BookedOK' BY <2>1, <2>5, BookedKept
  <2> QED BY <2>2, <2>4, <2>6
<1> QED BY <1>1, <1>2, <1>3, <1>4 DEF Next

\* The inductive invariant: the store, the page and the booking of its customer.
THEOREM StoreInvariant == Spec => []Inv
BY InvInit, InvNext, PTL DEF Spec

\* Every step of the page has what it shows, and a request on its way is the page's.
THEOREM StorefrontTypes == Spec => []TypeOK
<1>1. Inv => TypeOK
  <2> SUFFICES ASSUME Inv PROVE TypeOK OBVIOUS
  <2> USE DEF Inv
  <2>1. page \in Pages /\ ChoiceOK(limits, page) BY DEF PageOK, ChoiceOK
  <2>2. DOMAIN cache = limits.keys BY DEF StoreOK, CacheOK
  <2>3. faults <= limits.faults /\ begun <= limits.count BY DEF StoreOK
  <2>4. page.step \in {"professional", "when", "details", "done"} => page.svc \in Service
    <3>1. page.step \in {"professional", "when", "details", "done"} =>
            page.svc \in page.profile.services /\ page.profile \in Profiles
      BY <2>1 DEF ChoiceOK, Shown
    <3> QED BY <3>1 DEF Profiles
  <2>5. page.live # NoHandler => handlers[page.live].by = "page" BY DEF PageOK, Awaited
  <2>6. page.submit # NoHandler => handlers[page.submit].by = "submit" BY DEF PageOK, SubmitOK
  <2>7. page.slots \subseteq Int /\ page.next \in Day \cup {NoDay}
        /\ page.step \in {"loading", "lost", "service", "professional", "when", "details", "done"}
    BY <2>1 DEF Pages
  <2>8. \A h \in Handler : handlers[h].by # "submit" => handlers[h].key \in limits.keys
    BY DEF StoreOK, HandlersOK, Handled
  <2> QED BY <2>2, <2>3, <2>4, <2>5, <2>6, <2>7, <2>8 DEF TypeOK
<1> QED BY <1>1, StoreInvariant, PTL

\* TimesAreOfChoice: however late answers come, the times on screen, and the one held,
\* are those of the choice on screen.
THEOREM TimesOfTheChoice == Spec => []TimesAreOfChoice
<1>1. Inv => TimesAreOfChoice BY DEF Inv, PageOK, TimesOK, TimesAreOfChoice
<1> QED BY <1>1, StoreInvariant, PTL

\* BookedAsShown: without losses one customer has at most one booking, and the last page
\* shows a booking that was made.
THEOREM BookedOnce == Spec => []BookedAsShown
<1>1. Inv => BookedAsShown
  <2> SUFFICES ASSUME Inv PROVE BookedAsShown OBVIOUS
  <2>1. ASSUME "lost" \notin limits.faulty PROVE Cardinality(Mine) <= 1
    <3>1. Mine = {} \/ \E b : Mine = {b} BY <2>1 DEF Inv, BookedOK
    <3>2. Cardinality({}) = 0 /\ \A b : Cardinality({b}) = 1 BY FS_EmptySet, FS_Singleton
    <3>3. Cardinality(Mine) \in {0, 1} BY <3>1, <3>2
    <3> QED BY <3>3
  <2>2. ASSUME limits.patient, page.step = "done"
        PROVE  \E b \in Mine : b.svc = page.svc /\ b.from = page.slot /\ b.pro = proOf(choice(page))
    <3>1. choice(page).svc = page.svc BY DEF choice
    <3> QED BY <2>2, <3>1 DEF Inv, BookedOK, RowOf
  <2> QED BY <2>1, <2>2 DEF BookedAsShown
<1> QED BY <1>1, StoreInvariant, PTL

\* Zones and buffers for which half a day more on each side is enough.
WithinHalfDay ==
  \A l \in Limits : \A z \in l.zones \cup {l.shop.zone}, b \in l.buffers \cup {l.shop.buffer} :
    HalfDay(z, b)

\* SlotsFit: computeSlotsFor offers exactly the starts that fit, for every shop whose
\* zone and buffer the widened day covers.
THEOREM StartsThatFit ==
  ASSUME WithinHalfDay
  PROVE  Spec => []SlotsFit
<1>1. Inv => SlotsFit
  <2> SUFFICES ASSUME Inv, NEW k \in limits.keys \ {ProfileKey}
               PROVE  LET pro == proOf(k)  d == shop.duration[k.svc]
                          apply == {e \in shop.exceptions : e.day = k.day /\ e.pro \in {pro, AllPros}}
                          chosen == IF apply = {} THEN {{}} ELSE {{e} : e \in apply}
                          instants == k.day * DAY - shop.zone .. k.day * DAY + DAY - shop.zone
                      IN computeSlotsFor(settingsOf(shop, k), shop, pro, d, k.day, Now)
                           = {{t \in instants : Fits(t, k.day, d, shop, pro, Now, e)} : e \in chosen}
    BY DEF SlotsFit
  <2> DEFINE pro == proOf(k)
             d == shop.duration[k.svc]
  <2>1. limits \in Limits /\ ShopOK(limits, shop) /\ shop \in Shops /\ IsFiniteSet(shop.exceptions)
    BY DEF Inv, StoreOK, ShopOK
  <2>2. HalfDay(shop.zone, shop.buffer) BY <2>1 DEF ShopOK, WithinHalfDay
  <2>3. k.svc \in Service /\ k.day \in Nat /\ pro \in Pro BY <2>1, SlotKey
  <2>4. d \in Nat \ {0} BY <2>1, <2>3 DEF Shops
  <2>5. SameSettings(settingsOf(shop, k), shop) BY DEF SameSettings, settingsOf
  <2>6. Now \in Int /\ k.day \in Int BY <2>3 DEF Now
  <2> HIDE DEF pro, d
  <2>7. Offering(shop, pro, d, k.day, Now, settingsOf(shop, k))
    BY <2>1, <2>2, <2>3, <2>4, <2>5, <2>6 DEF Offering
  <2>8. computeSlotsFor(settingsOf(shop, k), shop, pro, d, k.day, Now)
        = FitAnswers(shop, pro, d, k.day, Now)
    BY <2>7, EngineFits
  <2> QED BY <2>8 DEF FitAnswers, FitStarts, pro, d
<1> QED BY <1>1, StoreInvariant, PTL

--------------------------------------------------------------------------------
(* Entries of the cache are fresh.                                         *)

\* The invariant of the next state, by its parts.
LEMMA CoherentNext ==
  ASSUME limits' = limits,
         Calm' => /\ redisUp' /\ circuit' = "closed"
                  /\ \A h \in Handler : ReadFresh(shop', handlers'[h]) /\ FoundFresh(shop', handlers'[h])
                  /\ \A k \in limits.keys : EntryFresh(shop', cache'[k], k, handlers')
  PROVE  Coherent'
<1>1. \A h \in Handler : (ReadFresh(shop, handlers[h])' <=> ReadFresh(shop', handlers'[h]))
                       /\ (FoundFresh(shop, handlers[h])' <=> FoundFresh(shop', handlers'[h]))
  BY DEF ReadFresh, FoundFresh
<1>2. \A k : EntryFresh(shop, cache[k], k, handlers)' <=> EntryFresh(shop', cache'[k], k, handlers')
  BY DEF EntryFresh
<1> QED BY <1>1, <1>2 DEF Coherent

\* Calm was before.
LEMMA CalmBefore ==
  ASSUME StoreOK, limits' = limits, faults' = faults \/ faults' = faults + 1, Calm'
  PROVE  Calm /\ faults' = faults
<1>1. faults \in Nat BY LimitsAssumption DEF StoreOK
<1>2. faults' = 0 BY DEF Calm
<1>3. faults = 0 BY <1>1, <1>2
<1> QED BY <1>2, <1>3 DEF Calm

\* Steps that read, write and delete nothing.
LEMMA CoherentKept ==
  ASSUME StoreOK, Coherent, UNCHANGED <<shop, cache, limits>>,
         faults' = faults \/ faults' = faults + 1,
         redisUp /\ circuit = "closed" /\ faults' = faults => redisUp' /\ circuit' = "closed",
         \A h \in Handler : \/ handlers'[h] = handlers[h]
                           \/ /\ handlers'[h].pc \notin {"compute", "set"}
                              /\ handlers[h].pc \notin {"delProfile", "scan", "del"}
  PROVE  Coherent'
<1> SUFFICES ASSUME Calm'
             PROVE  /\ redisUp' /\ circuit' = "closed"
                    /\ \A h \in Handler : ReadFresh(shop', handlers'[h]) /\ FoundFresh(shop', handlers'[h])
                    /\ \A k \in limits.keys : EntryFresh(shop', cache'[k], k, handlers')
  BY CoherentNext
<1>1. Calm /\ faults' = faults BY CalmBefore
<1>2. redisUp' /\ circuit' = "closed" BY <1>1 DEF Coherent
<1>3. ASSUME NEW h \in Handler PROVE ReadFresh(shop', handlers'[h]) /\ FoundFresh(shop', handlers'[h])
  <2>1. CASE handlers'[h] = handlers[h] BY <1>1, <2>1 DEF Coherent
  <2>2. CASE handlers'[h].pc \notin {"compute", "set"} BY <2>2 DEF ReadFresh, FoundFresh
  <2> QED BY <2>1, <2>2
<1>4. ASSUME NEW k \in limits.keys PROVE EntryFresh(shop', cache'[k], k, handlers')
  <2>1. EntryFresh(shop, cache[k], k, handlers) BY <1>1 DEF Coherent
  <2>2. \A h \in Handler : Deletes(handlers[h], k) => Deletes(handlers'[h], k) BY DEF Deletes
  <2> QED BY <2>1, <2>2 DEF EntryFresh
<1> QED BY <1>2, <1>3, <1>4

\* Calm: every command reaches Redis.
LEMMA CalmReaches ==
  ASSUME Coherent, Calm, tripCircuit
  PROVE  Reached /\ circuit' = "closed" /\ redisUp
BY DEF Coherent, Reached, tripCircuit

\* setJson writes what is fresh, or what it has marked old.
LEMMA SetCoherent ==
  ASSUME StoreOK, Coherent, NEW h \in Handler, setJson(h)
  PROVE  Coherent'
<1>0. UNCHANGED <<shop, redisUp, begun, faults, limits>> /\ tripCircuit BY DEF setJson
<1> SUFFICES ASSUME Calm'
             PROVE  /\ redisUp' /\ circuit' = "closed"
                    /\ \A g \in Handler : ReadFresh(shop', handlers'[g]) /\ FoundFresh(shop', handlers'[g])
                    /\ \A k \in limits.keys : EntryFresh(shop', cache'[k], k, handlers')
  BY <1>0, CoherentNext
<1>1. Calm BY <1>0, CalmBefore
<1>2. Reached /\ circuit' = "closed" /\ redisUp BY <1>0, <1>1, CalmReaches
<1> DEFINE H == handlers[h]
<1>3. H \in Handling /\ H.pc = "set" /\ H.key \in limits.keys /\ DOMAIN handlers = Handler
  BY DEF StoreOK, HandlersOK, Handled, Places, setJson, At, Handling
<1>4. handlers' = [handlers EXCEPT ![h].pc = "done"] /\ cache' = [cache EXCEPT ![H.key] = Entry(h)]
  BY <1>2 DEF setJson, Goto
<1>5. handlers'[h].pc = "done" /\ \A g \in Handler : g # h => handlers'[g] = handlers[g]
  BY <1>3, <1>4 DEF Handling
<1>6. ASSUME NEW g \in Handler PROVE ReadFresh(shop', handlers'[g]) /\ FoundFresh(shop', handlers'[g])
  <2>1. CASE g = h BY <1>5, <2>1 DEF ReadFresh, FoundFresh
  <2>2. CASE g # h BY <1>0, <1>1, <1>5, <2>2 DEF Coherent
  <2> QED BY <2>1, <2>2
<1>7. ASSUME NEW k \in limits.keys PROVE EntryFresh(shop', cache'[k], k, handlers')
  <2>1. CASE k = H.key
    <3>1. cache'[k] = Entry(h) BY <1>4, <2>1 DEF StoreOK, CacheOK
    <3>2. Entry(h).val = H.val /\ Entry(h).old = H.old BY DEF Entry
    <3>3. ~H.old => Fresh(shop, H.key, H.val) BY <1>1, <1>3 DEF Coherent, FoundFresh
    <3> QED BY <1>0, <2>1, <3>1, <3>2, <3>3 DEF EntryFresh
  <2>2. CASE k # H.key
    <3>1. cache'[k] = cache[k] BY <1>4, <2>2 DEF StoreOK, CacheOK
    <3>2. EntryFresh(shop, cache[k], k, handlers) BY <1>1 DEF Coherent
    <3>3. \A g \in Handler : Deletes(handlers[g], k) => Deletes(handlers'[g], k)
      BY <1>3, <1>5 DEF Deletes
    <3> QED BY <1>0, <3>1, <3>2, <3>3 DEF EntryFresh
  <2> QED BY <2>1, <2>2
<1> QED BY <1>0, <1>2, <1>6, <1>7

\* A step of a deletion: it drops entries, or still deletes them.
LEMMA DeletionCoherent ==
  ASSUME StoreOK, Coherent, NEW h \in Handler, delProfile(h) \/ scan(h) \/ delByPrefix(h)
  PROVE  Coherent'
<1>0. UNCHANGED <<shop, redisUp, begun, faults, limits>> /\ tripCircuit
  BY DEF delProfile, scan, delByPrefix
<1> SUFFICES ASSUME Calm'
             PROVE  /\ redisUp' /\ circuit' = "closed"
                    /\ \A g \in Handler : ReadFresh(shop', handlers'[g]) /\ FoundFresh(shop', handlers'[g])
                    /\ \A k \in limits.keys : EntryFresh(shop', cache'[k], k, handlers')
  BY <1>0, CoherentNext
<1>1. Calm BY <1>0, CalmBefore
<1>2. Reached /\ circuit' = "closed" /\ redisUp BY <1>0, <1>1, CalmReaches
<1> DEFINE H == handlers[h]
<1>3. H \in Handling /\ DOMAIN handlers = Handler /\ DOMAIN cache = limits.keys
      /\ ProfileKey \in limits.keys
  BY LimitsAssumption DEF StoreOK, HandlersOK, Handled, CacheOK
<1>4. handlers'[h].pc \in {"scan", "del", "done"} /\ \A g \in Handler : g # h => handlers'[g] = handlers[g]
  BY <1>3 DEF delProfile, scan, delByPrefix, Goto, Handling
<1>5. ASSUME NEW g \in Handler PROVE ReadFresh(shop', handlers'[g]) /\ FoundFresh(shop', handlers'[g])
  <2>1. CASE g = h BY <1>4, <2>1 DEF ReadFresh, FoundFresh
  <2>2. CASE g # h BY <1>0, <1>1, <1>4, <2>2 DEF Coherent
  <2> QED BY <2>1, <2>2
<1>6. ASSUME NEW k \in limits.keys
      PROVE  \/ cache'[k] = NoEntry
             \/ /\ cache'[k] = cache[k]
                /\ Deletes(H, k) => Deletes(handlers'[h], k)
  <2>1. CASE delProfile(h)
    <3>1. handlers'[h].pc = "scan" BY <1>3, <2>1 DEF delProfile, Goto, Handling
    <3>2. cache' = [cache EXCEPT ![ProfileKey] = NoEntry] BY <1>2, <1>3, <2>1 DEF delProfile
    <3>3. k # ProfileKey => Deletes(handlers'[h], k) BY <3>1 DEF Deletes
    <3> QED BY <1>3, <3>2, <3>3
  <2>2. CASE scan(h)
    <3> DEFINE found == {key \in limits.keys \ {ProfileKey} : cache[key] # NoEntry}
    <3>1. cache' = cache /\ H.pc = "scan" BY <2>2 DEF scan, At
    <3>2. CASE found = {}
      <4>1. k # ProfileKey => cache[k] = NoEntry BY <3>2
      <4>2. ~Deletes(H, ProfileKey) BY <3>1 DEF Deletes
      <4> QED BY <3>1, <4>1, <4>2
    <3>3. CASE found # {}
      <4>1. handlers' = [handlers EXCEPT ![h].pc = "del", ![h].todo = found]
        BY <1>2, <2>2, <3>3 DEF scan
      <4> HIDE DEF found
      <4>2. handlers'[h].pc = "del" /\ handlers'[h].todo = found BY <1>3, <4>1 DEF Handling
      <4>3. Deletes(H, k) => k # ProfileKey BY <3>1 DEF Deletes
      <4>4. k # ProfileKey => cache[k] = NoEntry \/ k \in found BY DEF found
      <4>5. k \in found => Deletes(handlers'[h], k) BY <4>2 DEF Deletes
      <4> QED BY <3>1, <4>3, <4>4, <4>5
    <3> QED BY <3>2, <3>3
  <2>3. CASE delByPrefix(h)
    <3>1. H.pc = "del" BY <2>3 DEF delByPrefix, At
    <3>2. cache' = [key \in limits.keys |-> IF key \in H.todo THEN NoEntry ELSE cache[key]]
      BY <1>2, <2>3 DEF delByPrefix
    <3>3. Deletes(H, k) => k \in H.todo BY <3>1 DEF Deletes
    <3> QED BY <3>2, <3>3
  <2> QED BY <2>1, <2>2, <2>3
<1>7. ASSUME NEW k \in limits.keys PROVE EntryFresh(shop', cache'[k], k, handlers')
  <2>1. EntryFresh(shop, cache[k], k, handlers) BY <1>1 DEF Coherent
  <2>2. cache'[k] = cache[k] => \A g \in Handler : Deletes(handlers[g], k) => Deletes(handlers'[g], k)
                                \/ cache'[k] = NoEntry
    BY <1>4, <1>6
  <2> QED BY <1>0, <1>6, <2>1, <2>2 DEF EntryFresh
<1> QED BY <1>0, <1>2, <1>5, <1>7

\* A request reads and computes.
LEMMA ReadCoherent ==
  ASSUME StoreOK, Coherent, NEW h \in Handler, ReadTenant(h) \/ Compute(h)
  PROVE  Coherent'
<1>0. UNCHANGED <<shop, cache, redisUp, circuit, begun, faults, limits>>
  BY Zenon DEF ReadTenant, Compute
<1> SUFFICES ASSUME Calm'
             PROVE  /\ redisUp' /\ circuit' = "closed"
                    /\ \A g \in Handler : ReadFresh(shop', handlers'[g]) /\ FoundFresh(shop', handlers'[g])
                    /\ \A k \in limits.keys : EntryFresh(shop', cache'[k], k, handlers')
  BY <1>0, CoherentNext
<1>1. Calm BY <1>0, CalmBefore
<1> DEFINE H == handlers[h]
           k == H.key
<1>2. H \in Handling /\ DOMAIN handlers = Handler /\ Handled(limits, H)
  BY DEF StoreOK, HandlersOK, Handled
<1>3. H.pc \in {"tenant", "compute"} BY Zenon DEF ReadTenant, Compute, At
<1>4. ASSUME NEW l, NEW v, NEW s,
             handlers' = [handlers EXCEPT ![h].pc = l, ![h].val = v, ![h].seen = s]
      PROVE  /\ handlers'[h].pc = l /\ handlers'[h].val = v /\ handlers'[h].seen = s
             /\ handlers'[h].key = k /\ handlers'[h].old = H.old
             /\ \A g \in Handler : g # h => handlers'[g] = handlers[g]
  BY <1>2, <1>4 DEF Handling
<1>5. /\ \A g \in Handler : g # h => handlers'[g] = handlers[g]
      /\ ReadFresh(shop, handlers'[h]) /\ FoundFresh(shop, handlers'[h])
  <2>1. CASE ReadTenant(h)
    <3>1. CASE ~Serves(shop, k)
      <4>1. handlers' = [handlers EXCEPT ![h].pc = "failed", ![h].val = NoEntry, ![h].seen = NoEntry]
        BY <2>1, <3>1, Zenon DEF ReadTenant
      <4> QED BY <1>4, <4>1 DEF ReadFresh, FoundFresh
    <3>2. CASE Serves(shop, k) /\ k = ProfileKey
      <4>1. handlers' = [handlers EXCEPT ![h].pc = "set", ![h].val = profileOf(shop), ![h].seen = NoEntry]
        BY <2>1, <3>2, Zenon DEF ReadTenant
      <4>2. Fresh(shop, k, profileOf(shop)) BY <3>2 DEF Fresh, AnswersOf
      <4> QED BY <1>4, <4>1, <4>2 DEF ReadFresh, FoundFresh
    <3>3. CASE Serves(shop, k) /\ k # ProfileKey /\ TooFar(shop, k.day)
      <4>1. handlers' = [handlers EXCEPT ![h].pc = "set", ![h].val = {}, ![h].seen = NoEntry]
        BY <2>1, <3>3, Zenon DEF ReadTenant
      <4>2. Fresh(shop, k, {}) BY <3>3 DEF Fresh, AnswersOf
      <4> QED BY <1>4, <4>1, <4>2 DEF ReadFresh, FoundFresh
    <3>4. CASE Serves(shop, k) /\ k # ProfileKey /\ ~TooFar(shop, k.day)
      <4>1. handlers' = [handlers EXCEPT ![h].pc = "compute", ![h].val = NoEntry,
                                         ![h].seen = settingsOf(shop, k)]
        BY <2>1, <3>4, Zenon DEF ReadTenant
      <4>2. /\ handlers'[h].pc = "compute" /\ handlers'[h].seen = settingsOf(shop, k)
            /\ handlers'[h].key = k
            /\ \A g \in Handler : g # h => handlers'[g] = handlers[g]
        BY <1>2, <4>1 DEF Handling
      <4> QED BY <3>4, <4>2 DEF ReadFresh, FoundFresh
    <3> QED BY <3>1, <3>2, <3>3, <3>4
  <2>2. CASE Compute(h)
    <3>1. PICK times \in computeSlotsFor(H.seen, shop, proOf(k), H.seen.duration, k.day, Now) :
            handlers' = [handlers EXCEPT ![h].pc = "set", ![h].val = times, ![h].seen = NoEntry]
      BY <2>2 DEF Compute
    <3>2. H.pc = "compute" /\ k # ProfileKey BY <1>2, <2>2 DEF Compute, At, Handled
    <3>3. ASSUME ~H.old PROVE Fresh(shop, k, times)
      <4>1. Serves(shop, k) /\ ~TooFar(shop, k.day) /\ H.seen = settingsOf(shop, k)
        BY <1>1, <3>2, <3>3 DEF Coherent, ReadFresh
      <4>2. H.seen.duration = shop.duration[k.svc] BY <4>1 DEF settingsOf
      <4> QED BY <3>1, <3>2, <4>1, <4>2 DEF Fresh, AnswersOf
    <3> QED BY <1>4, <3>1, <3>3 DEF ReadFresh, FoundFresh
  <2> QED BY <2>1, <2>2
<1>6. \A g \in Handler : ReadFresh(shop', handlers'[g]) /\ FoundFresh(shop', handlers'[g])
  BY <1>0, <1>1, <1>5 DEF Coherent
<1>7. ASSUME NEW key \in limits.keys PROVE EntryFresh(shop', cache'[key], key, handlers')
  <2>1. EntryFresh(shop, cache[key], key, handlers) BY <1>1 DEF Coherent
  <2>2. \A g \in Handler : Deletes(handlers[g], key) => Deletes(handlers'[g], key)
    BY <1>3, <1>5 DEF Deletes
  <2> QED BY <1>0, <2>1, <2>2 DEF EntryFresh
<1> QED BY <1>0, <1>1, <1>6, <1>7 DEF Coherent

\* A commit: what has been read becomes old, and the handler that committed deletes
\* every entry that may be stale now.
LEMMA CommitCoherent ==
  ASSUME StoreOK, Coherent, NEW h \in Handler, NEW c, Committed(h, c),
         c.pc \in {"delProfile", "scan"}, handlers[h].pc \in {"idle", "book"},
         c.pc = "scan" => profileOf(shop') = profileOf(shop) /\ shop'.deleted = shop.deleted,
         UNCHANGED <<cache, redisUp, circuit, faults, limits>>
  PROVE  Coherent'
<1> SUFFICES ASSUME Calm'
             PROVE  /\ redisUp' /\ circuit' = "closed"
                    /\ \A g \in Handler : ReadFresh(shop', handlers'[g]) /\ FoundFresh(shop', handlers'[g])
                    /\ \A k \in limits.keys : EntryFresh(shop', cache'[k], k, handlers')
  BY CoherentNext
<1>1. Calm BY CalmBefore
<1>2. handlers'[h] = c BY DEF Committed
<1>3. ASSUME NEW g \in Handler, g # h
      PROVE  /\ handlers'[g].pc = handlers[g].pc /\ handlers'[g].todo = handlers[g].todo
             /\ Reading(g) => handlers'[g].old
  <2>1. handlers[g] \in Handling BY DEF StoreOK, HandlersOK, Handled
  <2>2. handlers'[g] = [handlers[g] EXCEPT !.old = @ \/ Reading(g)] BY <1>3 DEF Committed
  <2> QED BY <2>1, <2>2 DEF Handling
<1>4. ASSUME NEW g \in Handler PROVE ReadFresh(shop', handlers'[g]) /\ FoundFresh(shop', handlers'[g])
  <2>1. CASE g = h BY <1>2, <2>1 DEF ReadFresh, FoundFresh
  <2>2. CASE g # h BY <1>3, <2>2 DEF ReadFresh, FoundFresh, Reading
  <2> QED BY <2>1, <2>2
<1>5. ASSUME NEW k \in limits.keys PROVE EntryFresh(shop', cache'[k], k, handlers')
  <2>1. CASE Deletes(c, k) BY <1>2, <2>1 DEF EntryFresh
  <2>2. CASE ~Deletes(c, k)
    <3>1. k = ProfileKey /\ c.pc = "scan" BY <2>2 DEF Deletes
    <3>2. \A v : Fresh(shop, k, v) => Fresh(shop', k, v)
      BY <3>1 DEF Fresh, AnswersOf, Serves
    <3>3. \A g \in Handler : Deletes(handlers[g], k) => Deletes(handlers'[g], k)
      BY <1>3 DEF Deletes
    <3>4. EntryFresh(shop, cache[k], k, handlers) BY <1>1 DEF Coherent
    <3> QED BY <3>2, <3>3, <3>4 DEF EntryFresh
  <2> QED BY <2>1, <2>2
<1> QED BY <1>1, <1>4, <1>5 DEF Coherent

\* An edit is not silent, or Calm is over.
LEMMA EditCoherent ==
  ASSUME StoreOK, Coherent, NEW h \in Handler, NEW e \in limits.ops, Edit(h, e)
  PROVE  Coherent'
<1> DEFINE c == [Idle EXCEPT !.pc = FirstDelete(e), !.by = "staff", !.edit = e]
<1>1. /\ UNCHANGED <<cache, redisUp, circuit, faults, limits>> /\ Committed(h, c)
      /\ handlers[h].pc = "idle" /\ shop' \in After(e)
  BY DEF Edit, At
<1>2. c.pc = FirstDelete(e) BY DEF Idle
<1> HIDE DEF c
<1>3. CASE e \in silent
  <2>1. ~Calm' BY <1>1, <1>3 DEF Calm
  <2> QED BY <1>1, <2>1, CoherentNext
<1>4. CASE e \notin silent
  <2>1. c.pc \in {"delProfile", "scan"} BY <1>2, <1>4 DEF FirstDelete
  <2>2. ASSUME c.pc = "scan" PROVE profileOf(shop') = profileOf(shop) /\ shop'.deleted = shop.deleted
    <3>1. e \in {"createRule", "deleteRule", "createException", "deleteException", "cancel"}
      <4>1. e \in Edits BY <1>1, EditedShop
      <4> QED BY <1>2, <1>4, <2>2, <4>1 DEF FirstDelete, Edits, silent
    <3>2. \/ \E r : shop' = [shop EXCEPT !.rules = r]
          \/ \E x : shop' = [shop EXCEPT !.exceptions = x]
          \/ \E b : shop' = [shop EXCEPT !.booked = b]
      <4>1. CASE e = "createRule" BY <1>1, <4>1 DEF After, createRule
      <4>2. CASE e = "deleteRule" BY <1>1, <4>2 DEF After, deleteRule
      <4>3. CASE e = "createException" BY <1>1, <4>3 DEF After, createException
      <4>4. CASE e = "deleteException" BY <1>1, <4>4 DEF After, deleteException
      <4>5. CASE e = "cancel" BY <1>1, <4>5 DEF After, cancel
      <4> QED BY <3>1, <4>1, <4>2, <4>3, <4>4, <4>5
    <3>3. shop \in Shops BY DEF StoreOK, ShopOK
    <3>4. shop'.services = shop.services /\ shop'.pros = shop.pros /\ shop'.deleted = shop.deleted
      BY <3>2, <3>3 DEF Shops
    <3> QED BY <3>4 DEF profileOf
  <2> QED BY <1>1, <2>1, <2>2, CommitCoherent
<1> QED BY <1>3, <1>4

\* A booking changes neither what the profile shows nor whether the shop is there.
LEMMA BookCoherent ==
  ASSUME StoreOK, Coherent, NEW h \in Handler, bookPublic(h)
  PROVE  Coherent'
<1> DEFINE H == handlers[h]
           row == RowAt(H.key, H.seen, shop.duration[H.key.svc])
<1>1. UNCHANGED <<cache, redisUp, circuit, limits, faults>> BY Zenon DEF bookPublic
<1>2. H.pc = "book" /\ \/ Goto(h, "failed") /\ shop' = shop
                       \/ Goto(h, "conflict") /\ shop' = shop
                       \/ /\ shop' = [shop EXCEPT !.booked = @ \cup {row}]
                          /\ Committed(h, [H EXCEPT !.pc = "scan"])
  BY BookSteps
<1>3. H \in Handling /\ DOMAIN handlers = Handler /\ shop \in Shops
  BY DEF StoreOK, HandlersOK, Handled, ShopOK
<1>4. ASSUME NEW l \in {"failed", "conflict"}, Goto(h, l), shop' = shop PROVE Coherent'
  <2>1. handlers'[h].pc = l /\ \A g \in Handler : g # h => handlers'[g] = handlers[g]
    BY <1>3, <1>4 DEF Goto, Handling
  <2> QED BY <1>1, <1>2, <1>4, <2>1, CoherentKept
<1>5. ASSUME shop' = [shop EXCEPT !.booked = @ \cup {row}], Committed(h, [H EXCEPT !.pc = "scan"])
      PROVE  Coherent'
  <2> DEFINE c == [H EXCEPT !.pc = "scan"]
  <2>1. c.pc = "scan" /\ Committed(h, c) BY <1>3, <1>5 DEF Handling
  <2> HIDE DEF c, row
  <2>2. shop'.services = shop.services /\ shop'.pros = shop.pros /\ shop'.deleted = shop.deleted
    BY <1>3, <1>5 DEF Shops
  <2>3. profileOf(shop') = profileOf(shop) BY <2>2 DEF profileOf
  <2> QED BY <1>1, <1>2, <2>1, <2>2, <2>3, CommitCoherent
<1> QED BY <1>2, <1>4, <1>5

\* A request that finds an entry, or goes on without.
LEMMA GetCoherent ==
  ASSUME StoreOK, Coherent, NEW h \in Handler, getJson(h)
  PROVE  Coherent'
<1>1. UNCHANGED <<shop, cache, redisUp, faults, limits>> /\ tripCircuit /\ handlers[h].pc = "get"
  BY DEF getJson, At
<1>2. handlers[h] \in Handling /\ DOMAIN handlers = Handler BY DEF StoreOK, HandlersOK, Handled
<1>3. (\E v : handlers' = [handlers EXCEPT ![h].pc = "done", ![h].val = v])
      \/ handlers' = [handlers EXCEPT ![h].pc = "tenant"]
  BY Zenon DEF getJson
<1>4. handlers'[h].pc \in {"done", "tenant"} /\ \A g \in Handler : g # h => handlers'[g] = handlers[g]
  BY <1>2, <1>3 DEF Handling
<1>5. redisUp /\ circuit = "closed" => redisUp' /\ circuit' = "closed" BY <1>1 DEF tripCircuit
<1> QED BY <1>1, <1>4, <1>5, CoherentKept

\* What Redis does by itself, and the time to live.
LEMMA RedisCoherent ==
  ASSUME StoreOK, Coherent, Expires \/ Cooldown \/ RedisStops \/ RedisReturns
  PROVE  Coherent'
<1>1. ASSUME NEW k \in limits.keys, Expire(k) PROVE Coherent'
  <2>1. UNCHANGED <<shop, redisUp, circuit, handlers, faults, limits>>
        /\ cache' = [cache EXCEPT ![k] = NoEntry]
    BY <1>1 DEF Expire
  <2>2. ASSUME NEW g \in limits.keys PROVE cache'[g] = NoEntry \/ cache'[g] = cache[g]
    BY <2>1 DEF StoreOK, CacheOK
  <2>3. Calm' => Calm BY <2>1 DEF Calm
  <2>4. Calm => \A g \in limits.keys : EntryFresh(shop', cache'[g], g, handlers')
    BY <2>1, <2>2 DEF Coherent, EntryFresh
  <2> QED BY <2>1, <2>3, <2>4, CoherentNext DEF Coherent
<1>2. CASE Cooldown
  <2>1. UNCHANGED <<shop, cache, limits, faults, redisUp, handlers>> /\ circuit' = "closed"
    BY <1>2 DEF Cooldown
  <2> QED BY <2>1, CoherentKept
<1>3. CASE RedisStops
  <2>1. UNCHANGED <<shop, cache, limits, handlers>> /\ faults' = faults + 1 /\ faults \in Nat
    BY <1>3, LimitsAssumption DEF RedisStops, Fault, StoreOK
  <2>2. faults' # faults BY <2>1
  <2> QED BY <2>1, <2>2, CoherentKept
<1>4. CASE RedisReturns
  <2>1. ~redisUp /\ limits' = limits /\ faults' = faults BY <1>4 DEF RedisReturns
  <2>2. ~Calm' BY <2>1 DEF Calm, Coherent
  <2> QED BY <2>1, <2>2, CoherentNext
<1> QED BY <1>1, <1>2, <1>3, <1>4 DEF Expires

\* Every step of the catalogue, of Redis and of the staff keeps entries fresh.
LEMMA CacheStepCoherent ==
  ASSUME StoreOK, Coherent, CacheStep
  PROVE  Coherent'
<1>1. DOMAIN handlers = Handler BY DEF StoreOK, HandlersOK
<1>2. ASSUME NEW h \in Handler, Leave(h) PROVE Coherent'
  <2>1. UNCHANGED <<shop, cache, redisUp, circuit, faults, limits>>
        /\ handlers[h].pc \in {"done", "failed"} /\ handlers' = [handlers EXCEPT ![h] = Idle]
    BY <1>2 DEF Leave
  <2>2. handlers'[h].pc = "idle" /\ \A g \in Handler : g # h => handlers'[g] = handlers[g]
    BY <1>1, <2>1 DEF Idle
  <2> QED BY <2>1, <2>2, CoherentKept
<1>3. ASSUME NEW h \in Handler, NEW k \in limits.keys, Visit(h, k) PROVE Coherent'
  <2>1. UNCHANGED <<shop, cache, redisUp, circuit, faults, limits>>
        /\ handlers[h].pc = "idle" /\ handlers' = [handlers EXCEPT ![h] = Beginning(k, "visitor")]
    BY <1>3 DEF Visit, Ask, At, Beginning
  <2>2. Beginning(k, "visitor").pc = "get" BY DEF Beginning, Idle
  <2>3. handlers'[h].pc = "get" /\ \A g \in Handler : g # h => handlers'[g] = handlers[g]
    BY <1>1, <2>1, <2>2
  <2> QED BY <2>1, <2>3, CoherentKept
<1>4. ASSUME NEW h \in Handler, Serve(h) PROVE Coherent'
  BY <1>2, <1>4, GetCoherent, SetCoherent, DeletionCoherent, ReadCoherent DEF Serve
<1> QED BY <1>3, <1>4, EditCoherent, RedisCoherent DEF CacheStep

\* The page starts requests on handlers that rest and lets go of those that have ended.
Restful(hs) ==
  \A g \in Handler : \/ hs[g] = handlers[g]
                    \/ /\ hs[g].pc \in {"idle", "get", "book", "failed"}
                       /\ handlers[g].pc \notin {"delProfile", "scan", "del"}

\* A request that has ended is let go.
LEMMA RestfulFreed ==
  ASSUME StoreOK, NEW h \in Handler, handlers[h].pc \in {"done", "failed", "conflict"}
  PROVE  Restful(Freed(h)) /\ DOMAIN Freed(h) = Handler /\ Freed(h)[h].pc = "idle"
<1>1. DOMAIN handlers = Handler BY DEF StoreOK, HandlersOK
<1>2. Freed(h)[h] = Idle /\ \A g \in Handler : g # h => Freed(h)[g] = handlers[g] BY <1>1 DEF Freed
<1>3. Idle.pc = "idle" BY DEF Idle
<1> QED BY <1>1, <1>2, <1>3 DEF Restful, Freed

\* A request starts on a handler at rest.
LEMMA RestfulAsked ==
  ASSUME NEW hs, DOMAIN hs = Handler, Restful(hs), NEW h \in Handler, hs[h].pc = "idle", NEW key
  PROVE  Restful(Asked(hs, h, key, "page"))
<1>1. Beginning(key, "page").pc = "get" BY DEF Beginning, Idle
<1>2. Asked(hs, h, key, "page") = [hs EXCEPT ![h] = Beginning(key, "page")] BY DEF Asked, Beginning
<1> HIDE DEF Beginning
<1> QED BY <1>1, <1>2 DEF Restful

\* A render starts at most one request.
LEMMA RestfulRender ==
  ASSUME NEW hs, DOMAIN hs = Handler, Restful(hs), NEW p, Render(p, hs)
  PROVE  Restful(handlers')
<1>1. handlers' = hs \/ \E h \in Handler : hs[h].pc = "idle" /\ handlers' = Asked(hs, h, choice(p), "page")
  BY Zenon DEF Render
<1> QED BY <1>1, RestfulAsked

\* Such steps write and delete nothing, so entries stay fresh.
LEMMA RestfulCoherent ==
  ASSUME StoreOK, Coherent, UNCHANGED server, faults' = faults \/ faults' = faults + 1,
         Restful(handlers')
  PROVE  Coherent'
BY CoherentKept DEF server, Restful

\* Clicks keep entries fresh.
LEMMA CustomerCoherent ==
  ASSUME StoreOK, Coherent, Customer
  PROVE  Coherent'
<1>0. DOMAIN handlers = Handler /\ Restful(handlers) BY DEF StoreOK, HandlersOK, Restful
<1>1. ASSUME NEW p, Render(p, handlers), UNCHANGED <<server, faults>> PROVE Coherent'
  BY <1>0, <1>1, RestfulRender, RestfulCoherent
<1>2. CASE \E s \in Service : ChooseService(s) BY <1>1, <1>2 DEF ChooseService, Click
<1>3. CASE \E p \in Pro \cup {NoPro} : ChooseProfessional(p)
  BY <1>1, <1>3 DEF ChooseProfessional, Click
<1>4. CASE \E d \in days \cup {NoDay} : selectDate(d) BY <1>1, <1>4 DEF selectDate, Click
<1>5. CASE \E t \in page.slots : selectSlot(t) BY <1>1, <1>5 DEF selectSlot, Click
<1>6. CASE Back \/ jumpToCompletedStep BY <1>1, <1>6 DEF Back, jumpToCompletedStep, Click
<1>7. ASSUME NEW h \in Handler, submitBooking(h) PROVE Coherent'
  <2> DEFINE c == [Idle EXCEPT !.pc = "book", !.by = "submit", !.edit = "book",
                               !.seen = page.slot, !.key = choice(page)]
  <2>1. handlers' = [handlers EXCEPT ![h] = c] /\ handlers[h].pc = "idle" /\ UNCHANGED <<server, faults>>
    BY <1>7 DEF submitBooking, Click, At
  <2>2. c.pc = "book" BY DEF Idle
  <2> HIDE DEF c
  <2>3. Restful(handlers') BY <1>0, <2>1, <2>2 DEF Restful
  <2> QED BY <2>1, <2>3, RestfulCoherent
<1> QED BY <1>2, <1>3, <1>4, <1>5, <1>6, <1>7 DEF Customer

\* The page's requests for the profile, answers and losses keep entries fresh.
LEMMA AnswerCoherent ==
  ASSUME StoreOK, Coherent, NEW h \in Handler, Load(h) \/ Answer(h) \/ Lost(h)
  PROVE  Coherent'
<1>0. DOMAIN handlers = Handler /\ Restful(handlers) BY DEF StoreOK, HandlersOK, Restful
<1>1. CASE Load(h)
  <2>1. handlers' = Asked(handlers, h, ProfileKey, "page") /\ handlers[h].pc = "idle"
        /\ UNCHANGED <<server, faults>>
    BY <1>1 DEF Load, At
  <2> QED BY <1>0, <2>1, RestfulAsked, RestfulCoherent
<1>2. CASE LoadReply(h) \/ Ignored(h)
  <2>1. handlers' = Freed(h) /\ handlers[h].pc \in {"done", "failed"} /\ UNCHANGED <<server, faults>>
    BY <1>2, Zenon DEF LoadReply, Ignored
  <2> QED BY <2>1, RestfulFreed, RestfulCoherent
<1>3. CASE SlotsReply(h)
  <2>1. /\ UNCHANGED <<server, faults>> /\ handlers[h].pc \in {"done", "failed"}
        /\ handlers' = Freed(h) \/ \E key : handlers' = Asked(Freed(h), h, key, "page")
    BY <1>3, Zenon DEF SlotsReply, NextDay, At
  <2>2. Restful(handlers') BY <2>1, RestfulFreed, RestfulAsked
  <2> QED BY <2>1, <2>2, RestfulCoherent
<1>4. CASE SubmitReply(h)
  <2>1. /\ UNCHANGED <<server, faults>> /\ handlers[h].pc \in {"done", "conflict", "failed"}
        /\ \E p : Render(p, Freed(h))
    BY <1>4 DEF SubmitReply, At
  <2>2. Restful(handlers') BY <2>1, RestfulFreed, RestfulRender
  <2> QED BY <2>1, <2>2, RestfulCoherent
<1>5. CASE Lost(h)
  <2>1. /\ UNCHANGED server /\ faults' = faults + 1 /\ handlers[h].pc \in {"get", "book", "done"}
        /\ handlers' = [handlers EXCEPT ![h].pc = "failed", ![h].val = NoEntry]
    BY <1>5 DEF Lost, Fault
  <2>2. handlers[h] \in Handling BY DEF StoreOK, HandlersOK, Handled
  <2>3. handlers'[h].pc = "failed" /\ \A g \in Handler : g # h => handlers'[g] = handlers[g]
    BY <1>0, <2>1, <2>2 DEF Handling
  <2>4. Restful(handlers') BY <2>1, <2>3 DEF Restful
  <2> QED BY <2>1, <2>4, RestfulCoherent
<1> QED BY <1>1, <1>2, <1>3, <1>4, <1>5 DEF Answer

\* The cache is empty at first.
LEMMA CoherentInit == Init => Coherent
<1> SUFFICES ASSUME Init PROVE Coherent OBVIOUS
<1>1. /\ redisUp /\ circuit = "closed" /\ \A k \in limits.keys : cache[k] = NoEntry
      /\ \A h \in Handler : handlers[h] = Idle
  BY DEF Init, CacheInit
<1>2. Idle.pc = "idle" BY DEF Idle
<1> QED BY <1>1, <1>2 DEF Coherent, ReadFresh, FoundFresh, EntryFresh

\* Every step keeps entries fresh or about to be deleted.
LEMMA CoherentStep == Inv /\ Coherent /\ [Next]_vars => Coherent'
<1> SUFFICES ASSUME StoreOK, Coherent, [Next]_vars PROVE Coherent' BY DEF Inv
<1>1. CASE UNCHANGED vars
  <2>1. UNCHANGED <<shop, cache, redisUp, circuit, handlers, faults, limits>>
    BY <1>1 DEF vars, cacheVars
  <2> QED BY <2>1, CoherentKept
<1>2. CASE Next BY <1>2, CacheStepCoherent, CustomerCoherent, BookCoherent, AnswerCoherent DEF Next
<1> QED BY <1>1, <1>2

\* InvalidationSuffices: once all deletions are done, an entry whose reader overlapped
\* no edit is what a request would compute now.
THEOREM EditsSuffice == Spec => []InvalidationSuffices
<1>1. Inv /\ Coherent => InvalidationSuffices
  <2> SUFFICES ASSUME Inv, Coherent, Calm, \A h \in Handler : handlers[h].edit = "none",
                      NEW k \in limits.keys, cache[k] # NoEntry, ~cache[k].old
               PROVE  ~Stale(k)
    BY DEF InvalidationSuffices, Calm
  <2>1. \A h \in Handler : ~Deletes(handlers[h], k)
    <3>1. \A h \in Handler : Handled(limits, handlers[h]) BY DEF Inv, StoreOK, HandlersOK
    <3> QED BY <3>1 DEF Handled, Deletes
  <2>2. Fresh(shop, k, cache[k].val) BY <2>1 DEF Coherent, EntryFresh
  <2>3. AnswersOf(shop, k) = Answers(k) BY DEF AnswersOf, Answers
  <2> QED BY <2>2, <2>3 DEF Stale, Fresh
<1>2. Spec => []Coherent BY CoherentInit, CoherentStep, StoreInvariant, PTL DEF Spec
<1> QED BY <1>1, <1>2, StoreInvariant, PTL
=================================================================================
