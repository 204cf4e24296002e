--------------------------- MODULE AppointmentState ---------------------------
(***************************************************************************)
(* The vocabulary of an appointment row and of its PIX charge, and the     *)
(* transition table that every handler consults before it writes a status  *)
(* (appointments/appointment-state.ts).  Constant-level: no variables.     *)
(***************************************************************************)

Status == {"PENDING_PAYMENT", "SCHEDULED", "CONFIRMED",
           "COMPLETED", "CANCELLED", "NO_SHOW"}

ChargeStatus == {"PENDING", "PAID", "EXPIRED", "CANCELLED", "REFUNDED"}

\* Statuses that occupy the professional's calendar.
ACTIVE_APPOINTMENT_STATUSES == {"PENDING_PAYMENT", "SCHEDULED", "CONFIRMED"}

TRANSITIONS ==
  [PENDING_PAYMENT |-> {"CANCELLED"},
   SCHEDULED       |-> {"CONFIRMED", "CANCELLED", "NO_SHOW", "COMPLETED"},
   CONFIRMED       |-> {"SCHEDULED", "COMPLETED", "CANCELLED", "NO_SHOW"},
   COMPLETED       |-> {},
   CANCELLED       |-> {},
   NO_SHOW         |-> {}]

canTransition(from, to) == from = to \/ to \in TRANSITIONS[from]

isCancellableStatus(s) == s \in {"PENDING_PAYMENT", "SCHEDULED", "CONFIRMED"}

Terminal == {s \in Status : TRANSITIONS[s] = {}}
===============================================================================
