-------------------------------- MODULE Notifier --------------------------------
(***************************************************************************)
(* What a completion queue of the NIC promises its driver, and all that    *)
(* the transmit path needs of it: completions wait unread until a poll     *)
(* takes them, and one token, which is the queue's arm bit, its event or   *)
(* its poll, sees to it that a poll comes.  EventQueue implements it.      *)
(***************************************************************************)
EXTENDS Naturals

CONSTANT Capacity   \* entries of the completion queue

ASSUME CapacityAssumption == Capacity \in Nat \ {0}

VARIABLES
  unread,   \* completions in host memory that the driver has not read
  held,     \* completions it has read and not yet given back to the NIC
  signal    \* where the queue's token is

noteVars == <<unread, held, signal>>

\* The NIC reports a piece of work, unless the queue is full: then the report is lost.
Deliver ==
  /\ unread' = IF unread + held < Capacity THEN unread + 1 ELSE unread
  /\ UNCHANGED <<held, signal>>

Raise    == signal = "armed" /\ unread > 0 /\ signal' = "raised" /\ UNCHANGED <<unread, held>>
Schedule == signal = "raised" /\ signal' = "polling" /\ UNCHANGED <<unread, held>>

Read ==
  /\ signal = "polling" /\ unread > 0
  /\ unread' = unread - 1 /\ held' = held + 1 /\ UNCHANGED signal

Release == signal = "polling" /\ held' = 0 /\ UNCHANGED <<unread, signal>>

\* The NIC may raise the event at once, also for completions that have been read.
Rearm ==
  /\ signal = "polling" /\ held = 0
  /\ signal' \in {"armed", "raised"} /\ UNCHANGED <<unread, held>>

NoteInit == unread = 0 /\ held = 0 /\ signal = "armed"

NoteNext == Deliver \/ Raise \/ Schedule \/ Read \/ Release \/ Rearm

\* The NIC and the kernel keep the token moving until it reaches the poll, and
\* the poll does not stop while there is something to read.
NoteSpec ==
  /\ NoteInit /\ [][NoteNext]_noteVars
  /\ WF_noteVars(Raise) /\ WF_noteVars(Schedule) /\ SF_noteVars(Read)

===============================================================================
