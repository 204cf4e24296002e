------------------------------ MODULE MCStorefront ------------------------------
(***************************************************************************)
(* Instances of BookingPage for TLC.                                       *)
(***************************************************************************)
EXTENDS BookingPage

CONSTANTS s1, s2, ana, bia

\* A day has twelve units of two hours; two weekdays.
Hours(p, w, a, b) == [pro |-> p, dayOfWeek |-> w, start |-> a, end |-> b]
Visit2(p, a, b) == [pro |-> p, from |-> a, to |-> b, by |-> "other", svc |-> s1]
Except(p, d, on, a, b) == [pro |-> p, day |-> d, isAvailable |-> on, start |-> a, end |-> b]

Shop(z, buf, rules, booked, pros) ==
  [zone |-> z, step |-> 1, buffer |-> buf, notice |-> 1, advance |-> 1, deleted |-> FALSE,
   services |-> Service, duration |-> (s1 :> 1 @@ s2 :> 2), pros |-> pros,
   rules |-> rules, exceptions |-> {}, booked |-> booked]

Keys(svcs, ds, ps) == {ProfileKey} \cup [svc : svcs, day : ds, pro : ps]

Base == [shop |-> Shop(-2, 0, {Hours(AllPros, 0, 4, 6), Hours(AllPros, 1, 4, 5)}, {}, {ana}),
         keys |-> Keys(Service, Day, {NoPro}), ops |-> {"browse"}, count |-> 0, clicks |-> 0,
         faults |-> 0, faulty |-> {}, patient |-> FALSE,
         rules |-> {}, exceptions |-> {}, durations |-> {1, 2}, buffers |-> {0}, zones |-> {-2}]

MCLimits ==
  { \* edits of every kind, no page
    [Base EXCEPT !.shop = Shop(-2, 0, {Hours(AllPros, 0, 4, 7), Hours(ana, 1, 9, 12)},
                               {Visit2(ana, 6, 7), Visit2(ana, 25, 26)}, {ana, bia}),
                 !.keys = Keys({s1}, Day, {NoPro}),
                 !.ops = {"createRule", "deleteRule", "createException", "deleteException",
                          "updateService", "removeService", "updateBooking", "updateProfile",
                          "removeMember", "cancel", "visit"},
                 !.count = 3, !.rules = {Hours(ana, 1, 4, 6), Hours(ana, 1, 6, 4)},
                 !.exceptions = {Except(AllPros, 1, FALSE, 0, 0), Except(ana, 1, TRUE, 9, 12)},
                 !.buffers = {0, 1}, !.zones = {-2, 4}],
    \* services and members come and go
    [Base EXCEPT !.keys = Keys(Service, {0}, {NoPro, bia}), !.shop.services = {s1}, !.count = 3,
                 !.ops = {"createService", "removeService", "addMember", "removeMember", "visit"}],
    \* edits that delete nothing, Redis failing
    [Base EXCEPT !.keys = Keys({s1}, {0}, {NoPro}), !.shop.booked = {Visit2(ana, 6, 7)},
                 !.ops = {"release", "deleteAccount", "cancel", "removeService", "visit"},
                 !.count = 3, !.faults = 1, !.faulty = {"redis"}],
    \* a customer at work while another books or cancels
    [Base EXCEPT !.clicks = 4],
    [Base EXCEPT !.clicks = 6, !.shop.services = {s1}, !.keys = Keys({s1}, {0}, {NoPro})],
    [Base EXCEPT !.clicks = 5, !.shop.pros = {ana, bia}, !.shop.services = {s1},
                 !.keys = Keys({s1}, {0}, {NoPro, ana, bia}), !.shop.rules = {Hours(AllPros, 0, 4, 6)}],
    [Base EXCEPT !.clicks = 4, !.patient = TRUE, !.shop.services = {s1}, !.keys = Keys({s1}, {0}, {NoPro}),
                 !.ops = {"browse", "createException"}, !.count = 1,
                 !.exceptions = {Except(AllPros, 0, FALSE, 0, 0)}],
    [Base EXCEPT !.clicks = 4, !.shop.services = {s1}, !.keys = Keys({s1}, Day, {NoPro}),
                 !.faults = 1, !.faulty = {"lost"}] }
=================================================================================
