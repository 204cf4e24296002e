------------------------------- MODULE MCSessions -------------------------------
(***************************************************************************)
(* Instances of Sessions for TLC: two calls in one tab or in two.          *)
(***************************************************************************)
EXTENDS Sessions

CONSTANTS k1, k2, b1, b2

OneTab == [k \in {k1, k2} |-> b1]
TwoTabs == [k \in {k1, k2} |-> IF k = k1 THEN b1 ELSE b2]
Behaviour(ts, s, c, f, n, os) ==
  [tab |-> ts, serial |-> s, legible |-> c, faults |-> f, calls |-> n, ops |-> os]

MCLimits ==
  {Behaviour(TwoTabs, TRUE, FALSE, 0, 5, {"me", "write", "deactivate"}),
   Behaviour(TwoTabs, TRUE, TRUE, 0, 5, {"me", "write", "logout"}),
   Behaviour(OneTab, FALSE, FALSE, 2, 3, {"me", "logout", "login"}),
   Behaviour(TwoTabs, FALSE, TRUE, 1, 3, {"write", "logout"}),
   Behaviour(TwoTabs, FALSE, FALSE, 1, 2, {"write"}),
   Behaviour(TwoTabs, FALSE, FALSE, 0, 4, {"read", "forgot", "reset"})}
================================================================================
