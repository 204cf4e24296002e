------------------------------- MODULE Intervals -------------------------------
(***************************************************************************)
(* The overlap test of the availability engine, on intervals [from, to).   *)
(* The slot computation and both booking transactions use it; the database *)
(* constraint uses the same test without a buffer.                         *)
(***************************************************************************)
EXTENDS Integers

overlaps(x, y) == x.from < y.to /\ y.from < x.to

\* Busy intervals are widened by the buffer on both sides.
hasOverlap(x, busy, buffer) ==
  \E b \in busy : overlaps(x, [from |-> b.from - buffer, to |-> b.to + buffer])
===============================================================================
