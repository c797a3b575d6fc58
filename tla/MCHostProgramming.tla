--------------------------- MODULE MCHostProgramming ---------------------------
(* An instance of HostProgramming: a pair of programs, one per bank, and a    *)
(* time input that ticks once per clock edge.                                 *)
EXTENDS HostProgramming

CONSTANTS MaxTime, a1, a2

MCTime == 0 .. MaxTime

Ticking  == {<<t, u>> \in MCTime \X MCTime : u = t + 1} \cup {<<MaxTime, MaxTime>>}

Run == {"valid", "enable"}
From(s, e, a) == [start |-> s, end |-> e, flags |-> Run, app |-> a]
For(b, t, ontx, onrx) ==
  [bank |-> b, time |-> t, enableSubsystem |-> TRUE,
   entries |-> [c \in Channel |-> IF c = TX THEN ontx ELSE onrx]]

\* The second program takes over in the very cycle a window of the first opens.
CollidingPrograms ==
  {For(1, 10, <<From(22, 25, a1)>>, <<>>), For(0, 22, <<From(24, 25, a1)>>, <<>>)}

===============================================================================
