----------------------------- MODULE MCCommDatapath -----------------------------
(* What frames may do to a NIC, for TLC: the datapath under any streams, with    *)
(* what the host's frames may count on, and a consensus replica that may be      *)
(* handed any frame on any edge.  They share no state: a behaviour is one of     *)
(* either, and the other stays where it started.  Whether the applications and   *)
(* the host program have kept to their side is a history variable, so that one   *)
(* run covers those that do and those that do not.                               *)
EXTENDS CommDatapath, ConsensusReplica

VARIABLES
  machine,  \* which of the two this is a behaviour of
  lapsed    \* history: a window closed on an untaken beat, or the NIC was disabled

allVars == <<vars, replica, machine, lapsed>>

\* No window closes on an application that still waits for its beat to be taken.
Patient == procValid /\ carried' # Processor => procValid'
\* As sync_dcn_program.py does it: the enable bit is set once and stays set.
StaysEnabled == enable => enable'

MCInit == machine \in {"datapath", "replica"} /\ Init /\ ReplicaInit /\ lapsed = FALSE

MCEdge(macReady, dmaReady) ==
  /\ machine = "datapath"
  /\ Edge(macReady, dmaReady)
  /\ Quiet
  /\ lapsed' = (lapsed \/ ~Patient \/ ~StaysEnabled)
  /\ UNCHANGED <<replica, machine>>

MCReset == machine = "datapath" /\ Reset /\ UNCHANGED <<replica, machine, lapsed>>

MCReplica == machine = "replica" /\ ReplicaNext /\ UNCHANGED <<vars, machine, lapsed>>

MCNext == MCReset \/ MCReplica \/ \E m, d \in BOOLEAN : MCEdge(m, d)

\* The MAC lifts its backpressure again and again, and so does the host's queue; no
\* application always has the next beat ready.
MCSpec ==
  /\ MCInit /\ [][MCNext]_allVars
  /\ WF_allVars(\E d \in BOOLEAN : MCEdge(TRUE, d))
  /\ WF_allVars(\E m \in BOOLEAN : MCEdge(m, TRUE))
  /\ SF_allVars(\E m, d \in BOOLEAN : MCEdge(m, d) /\ ~procValid')

\* The processor has priority at every frame boundary (comm_datapath.v:94), and yet
\* the host's next beat is taken, as long as nobody has lapsed.
HostIsServed == (hostValid ~> (~hostValid \/ carried = Host)) \/ <>lapsed

===============================================================================
