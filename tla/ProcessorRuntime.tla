---------------------------- MODULE ProcessorRuntime ----------------------------
(***************************************************************************)
(* What the applications in the NIC are told of their windows: the control *)
(* fan-out of runtime/dni/rtl/core/processor_runtime.v behind the executor *)
(* and the host that programs it.  The module has no registers of its own, *)
(* so it is a handful of functions of the executor's outputs.              *)
(***************************************************************************)
EXTENDS HostProgramming

CONSTANT Slotted   \* the application ids that have a slot: 1 .. APP_COUNT

ASSUME SlotAssumption == Slotted \subseteq App \ {NoApp}

\* tx_app_selected, rx_app_selected
Selected(c) == enable /\ allowed[c] /\ app[c] \in Slotted

Strobe(pulse, c, a) == pulse[c] /\ Selected(c) /\ app[c] = a

AppOpen(c, a)   == Strobe(open, c, a)
AppClose(c, a)  == Strobe(close, c, a)
AppCommit(c, a) == Strobe(commit, c, a)
AppAllowed(c, a) == Strobe(allowed, c, a)

-------------------------------------------------------------------------------
(* Properties.                                                             *)

\* The completion event of a window is a commit pulse, and the pulse reaches the
\* application that the entry names.
CommitReachesApplication ==
  \A c \in Channel : commit[c] /\ app[c] \in Slotted => AppCommit(c, app[c])

\* Close and commit pulses come in the cycle in which the gate has just dropped,
\* and the gate is part of the selection (processor_runtime.v:101-102, 114-115), so
\* no application is ever told that a window of its own has ended or committed.
EndOfWindowIsSwallowed ==
  \A c \in Channel, a \in Slotted : ~AppClose(c, a) /\ ~AppCommit(c, a)

\* Whoever may use the wire has been told so: an application's gate is lit only by
\* the open pulse of its own window, and no window changes hands while it is lit, as
\* long as no program has rewritten a bank in use.
GateIsAnnounced ==
  [][astray = "never" =>
       \A c \in Channel, a \in Slotted :
         ~AppAllowed(c, a) /\ AppAllowed(c, a)' => AppOpen(c, a)']_allVars

===============================================================================
