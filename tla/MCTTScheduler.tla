----------------------------- MODULE MCTTScheduler -----------------------------
(* Instances of TTScheduler for TLC: a short time horizon and one or two   *)
(* entries that software writes, a word at a time, anywhere in the table.  *)
EXTENDS TTScheduler, TLC

CONSTANTS MaxTime, a1

MCTime == 0 .. MaxTime

\* The PTP input may stand still, tick, or be stepped over a value.
Stepping == {<<t, u>> \in MCTime \X MCTime : u \in t .. t + 2}

\* As delivered: seconds wrap to zero in dni_subsystem.v:603, and PTP may slew back.
Wrapping == Stepping \cup {<<MaxTime, 0>>}

\* Entries that share as many words as possible with a cleared one, since each
\* word that differs doubles the mixtures a half-written slot can hold.
Run   == {"valid", "enable", "completion"}
Short == [start |-> 0, end |-> 1, flags |-> Run, app |-> NoApp]

OneSlot == {Short}

SwapChannels == Permutations(Channel)

===============================================================================
