----------------------------- MODULE SlotCalendar -----------------------------
(***************************************************************************)
(* What the booking system promises about time: a calendar in which every  *)
(* entry is an interval of one professional, entries appear, move and      *)
(* disappear one at a time, and no step ever leaves two entries of one     *)
(* professional overlapping.  It is the abstract specification that        *)
(* Appointments implements; it knows nothing of statuses, locks, payments  *)
(* or requests.                                                            *)
(***************************************************************************)
EXTENDS Intervals

CONSTANTS Appt,         \* appointment identifiers
          Pro,          \* professionals
          Slots,        \* intervals [from, to) that may be booked
          Nowhere       \* the value of an appointment that holds no time

VARIABLE held           \* held[a]: the professional and interval a occupies

Place == [pro : Pro, slot : Slots]

Clash(x, y) == /\ x # Nowhere /\ y # Nowhere
               /\ x.pro = y.pro
               /\ overlaps(x.slot, y.slot)

Init == held = [a \in Appt |-> Nowhere]

Occupy(a, place) ==
  /\ \A b \in Appt \ {a} : ~Clash(held[b], place)
  /\ held' = [held EXCEPT ![a] = place]

Vacate(a) == held' = [held EXCEPT ![a] = Nowhere]

Next == \E a \in Appt : Vacate(a) \/ \E place \in Place : Occupy(a, place)

Spec == Init /\ [][Next]_held

-------------------------------------------------------------------------------
\* No double booking: two appointments of a professional never overlap.
NoDoubleBooking ==
  \A a, b \in Appt : a # b => ~Clash(held[a], held[b])
===============================================================================
