---------------------------- MODULE MCAppointments ----------------------------
(***************************************************************************)
(* Instances of Appointments for TLC: a morning of half-hour cells.        *)
(***************************************************************************)
EXTENDS Appointments, TLC

Cell(i, n) == [from |-> i, to |-> i + n]

\* Three cells in a row: with a buffer of one, the middle one is too close to
\* both others although it overlaps neither.
ThreeSlots == {Cell(0, 1), Cell(1, 1), Cell(2, 1)}
OneSlot == {Cell(0, 1)}
FarSlots == {Cell(0, 1), Cell(2, 1)}

ReqSymmetry == Permutations(Req) \cup Permutations(Appt)
===============================================================================
