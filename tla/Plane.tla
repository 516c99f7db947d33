------------------------------- MODULE Plane -------------------------------
(***************************************************************************)
(* Positions on a plane, in whole units: over the few hundred metres the   *)
(* algorithms look at, haversine_m and local_xy_m are the distance on it.  *)
(* Distances are compared by their squares.                                *)
(***************************************************************************)
EXTENDS Integers

Magnitude(n) == IF n < 0 THEN -n ELSE n
Clamp(low, n, high) == IF n < low THEN low ELSE IF n > high THEN high ELSE n

Square(n) == n * n
Minus(p, q) == [x |-> p.x - q.x, y |-> p.y - q.y]
Dot(u, v) == u.x * v.x + u.y * v.y
Distance2(p, q) == Dot(Minus(p, q), Minus(p, q))
==============================================================================
