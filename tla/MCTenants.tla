-------------------------------- MODULE MCTenants --------------------------------
(***************************************************************************)
(* Instances of Tenants for TLC.                                           *)
(***************************************************************************)
EXTENDS Tenants

CONSTANTS h1, h2, u1, u2, u3

Behaviour(s, o, f, n, ps, os) ==
  [serial |-> s, ordered |-> o, faults |-> f, calls |-> n, plans |-> ps, ops |-> os]

MCLimits ==
  {Behaviour(TRUE, TRUE, 0, 5, {"PRO", "BUSINESS"},
             {"starter", "checkout", "cancel", "delete", "unpaid"}),
   Behaviour(TRUE, TRUE, 2, 4, {"PRO"}, {"starter", "checkout", "cancel", "unpaid", "delete"}),
   Behaviour(TRUE, TRUE, 0, 4, {"PRO", "BUSINESS"}, {"starter", "checkout", "upgrade"}),
   Behaviour(TRUE, TRUE, 0, 6, {"BUSINESS"}, {"starter", "checkout", "create", "remove"}),
   Behaviour(FALSE, TRUE, 0, 4, {"PRO"}, {"starter", "checkout", "cancel", "delete"}),
   Behaviour(FALSE, FALSE, 1, 3, {"PRO"}, {"starter", "checkout", "cancel"}),
   Behaviour(FALSE, FALSE, 1, 1, {"PRO"}, {"checkout", "unpaid"}),
   Behaviour(FALSE, FALSE, 0, 3, {"BUSINESS"}, {"checkout", "create", "update", "remove", "delete"})}
================================================================================
