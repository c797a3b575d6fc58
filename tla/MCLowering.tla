------------------------------- MODULE MCLowering -------------------------------
(* Four nodes: every matrix of up to three pairs, and every two legs of up to    *)
(* two, so that pairs meet in chains, stars, triangles and both directions.      *)
EXTENDS Lowering, FiniteSetsExt

MCNode == 0 .. 3

\* Every matrix with at most k pairs that have work, of at most "most" packets each.
Matrices(k, most) ==
  {[p \in Pair |-> IF p \in DOMAIN f THEN f[p] ELSE 0] :
     f \in UNION {[S -> 1 .. most] : S \in UNION {kSubset(i, Pair) : i \in 0 .. k}}}

NoRounds == [start |-> 0, period |-> 1, length |-> 1, num |-> 0]
\* Rounds that touch the first epoch of some plans and the third of others.
SomeRounds == [start |-> 4, period |-> 9, length |-> 2, num |-> 3]

OneLeg(m, r)  == [legs |-> <<m>>, pause |-> 0, rounds |-> r]
TwoLegs(m, w, pause) == [legs |-> <<m, w>>, pause |-> pause, rounds |-> NoRounds]

MCWorkload ==
  {OneLeg(m, r) : m \in Matrices(3, 2), r \in {NoRounds, SomeRounds}} \union
  {TwoLegs(m, w, pause) : m, w \in Matrices(2, 1), pause \in {0, 1}}

Timing(mode, fixed, packet, gap, latency, guard, reconfig) ==
  [mode |-> mode, fixed |-> fixed, packet |-> packet, gap |-> gap, latency |-> latency,
   guard |-> guard, reconfig |-> reconfig]

\* Derived durations on a plane with guards, and the defaults of schedule_timing.py
\* but for a window's length: no guard, no reconfiguration.
MCPlane == {Timing("derived", 0, 2, 1, 1, 1, 2), Timing("fixed", 3, 0, 0, 0, 0, 0)}

===============================================================================
