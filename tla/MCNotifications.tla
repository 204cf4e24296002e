---------------------------- MODULE MCNotifications ----------------------------
(***************************************************************************)
(* Instances of Notifications for TLC.  The model values r1, r2 are the    *)
(* handlers and w1, w2 the workers.                                        *)
(***************************************************************************)
EXTENDS Notifications

CONSTANTS r1, r2, w1, w2

Behaviour(n, f, rs, ws, os, cs) ==
  [rows |-> n, faults |-> f, handlers |-> rs, workers |-> ws, ops |-> os, contacts |-> cs]

\* Two handlers race with one worker and with each other, nothing fails; one
\* handler and two workers, and one thing fails; the operations left; one row and
\* three failures.
MCLimits ==
  {Behaviour(5, 0, {r1, r2}, {w1}, {"move"}, {"EMAIL"}),
   Behaviour(4, 0, {r1, r2}, {w1}, {"move", "cancel"}, {"EMAIL"}),
   Behaviour(3, 1, {r1}, {w1, w2}, {"book", "move", "cancel"}, {"EMAIL"}),
   Behaviour(2, 1, {r1, r2}, {w1}, {"book", "absent", "call"}, {"WHATSAPP"}),
   Behaviour(1, 3, {}, {w1, w2}, {}, {"EMAIL"})}
================================================================================
