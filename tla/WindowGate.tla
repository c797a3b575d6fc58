------------------------------- MODULE WindowGate -------------------------------
(***************************************************************************)
(* What the rest of the NIC may assume of the executor, and nothing of how *)
(* it works: per channel a gate that is lit or dark, and the id of the     *)
(* window it is lit for.  A lit gate keeps its id, so a handover from one  *)
(* window to the next always passes through darkness; a fresh id is the    *)
(* successor of the last one.  A gate that was dimmed without a new window *)
(* (its entry was rewritten, or time was stepped) may be lit again under   *)
(* the id it had.                                                          *)
(***************************************************************************)
EXTENDS Naturals

CONSTANTS Channel, IdModulus

VARIABLES lit, id

Init == lit = [c \in Channel |-> FALSE] /\ id = [c \in Channel |-> 0]

Stay(c)   == lit'[c] = lit[c] /\ id'[c] = id[c]
GoDark(c) == lit[c] /\ ~lit'[c] /\ id'[c] = id[c]
Open(c)   == ~lit[c] /\ lit'[c] /\ id'[c] = (id[c] + 1) % IdModulus
Relight(c) == ~lit[c] /\ lit'[c] /\ id'[c] = id[c]

\* Both gates move on the same clock edge.
Move ==
  /\ lit' \in [Channel -> BOOLEAN]
  /\ id' \in [Channel -> 0 .. IdModulus - 1]
  /\ \A c \in Channel : Stay(c) \/ GoDark(c) \/ Open(c) \/ Relight(c)

Reset == lit' = [c \in Channel |-> FALSE] /\ id' = [c \in Channel |-> 0]

Next == Move \/ Reset

Spec == Init /\ [][Next]_<<lit, id>>

===============================================================================
