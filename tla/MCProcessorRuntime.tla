--------------------------- MODULE MCProcessorRuntime ---------------------------
(* One instance: programs for either bank, long and short, for one channel    *)
(* and for both, each in time or too late depending on when it is started,    *)
(* whose entries name two applications, one of which has no slot, and end     *)
(* with a completion event.                                                   *)
EXTENDS ProcessorRuntime

CONSTANTS MaxTime, a1, a2

MCTime   == 0 .. MaxTime
Drifting == {<<t, u>> \in MCTime \X MCTime : u \in {t, t + 1}}

Run == {"valid", "enable", "completion"}
From(s, e, a) == [start |-> s, end |-> e, flags |-> Run, app |-> a]
For(b, t, ontx, onrx) ==
  [bank |-> b, time |-> t, enableSubsystem |-> TRUE,
   entries |-> [c \in Channel |-> IF c = TX THEN ontx ELSE onrx]]

MCProgram ==
  {For(1, 1, <<From(3, 4, a1), From(5, 6, a2)>>, <<From(3, 5, a1)>>),
   For(0, 2, <<>>, <<From(4, 5, a1)>>),
   For(1, 3, <<From(5, 6, a1)>>, <<>>)}

===============================================================================
