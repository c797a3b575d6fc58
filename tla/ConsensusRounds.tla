------------------------------ MODULE ConsensusRounds -----------------------------
(***************************************************************************)
(* A cluster of consensus replicas (runtime/dni/rtl/apps/consensus_node.v: *)
(* consensus_core, consensus_tx and consensus_rx of every NIC) driven by   *)
(* schedules compiled for it: the replicas' windows open together, are     *)
(* long enough for every broadcast to be sent and received, and close      *)
(* together with a completion event.  One window is one round.             *)
(*                                                                         *)
(* A replica may crash at any moment, also between two frames of its       *)
(* broadcast, which goes to the other nodes in the order of their ids.     *)
(***************************************************************************)
EXTENDS ConsensusCore

CONSTANTS
  MaxCrash,   \* replicas that may crash
  MaxRound    \* bound: windows of a behaviour

ASSUME ClusterAssumption ==
  /\ Node = 0 .. (Cardinality(Node) - 1)
  /\ MaxCrash \in Nat
  /\ MaxRound \in Nat

VARIABLES
  core,      \* consensus_core's registers in each replica
  crashed,   \* replicas that have crashed
  sent,      \* replicas whose broadcast of this window is out
  down,      \* history: replicas that were down when this window opened
  phase,     \* where the window is: "dark", "lit", "detect" or "commit"
  round      \* i_current_window_id

vars == <<core, crashed, sent, down, phase, round>>

Up      == Node \ crashed
\* The replicas that go on: up, not halted, and not just started afresh.
Correct == {n \in Up : ~core[n].halted /\ core[n] # InitialCore}

\* All replicas that are up take an edge with the same strobes and no frame.
AllEdge(open, commit) ==
  core' = [n \in Node |-> IF n \in Up THEN CoreEdge(n, core[n], open, commit, NoFrame) ELSE core[n]]

Init ==
  /\ core = [n \in Node |-> InitialCore]
  /\ crashed = {} /\ sent = {} /\ down = {} /\ phase = "dark" /\ round = 0

WindowOpens ==
  /\ phase = "dark" /\ round < MaxRound
  /\ AllEdge(TRUE, FALSE)
  /\ phase' = "lit" /\ sent' = {} /\ down' = crashed /\ round' = round + 1
  /\ UNCHANGED crashed

\* consensus_tx sends to the nodes below `to`, consensus_rx of each hands the frame to
\* its core.  The transmit engine does not ask whether its core has halted.
FramesReach(n, to) ==
  core' = [t \in Node |->
             IF t \in Up \ {n} /\ t < to
             THEN CoreEdge(t, core[t], FALSE, FALSE, FrameFrom(n, core[n].kv))
             ELSE core[t]]

Broadcast(n) ==
  /\ phase = "lit" /\ n \in Up \ sent
  /\ FramesReach(n, Cardinality(Node))
  /\ sent' = sent \cup {n}
  /\ UNCHANGED <<crashed, down, phase, round>>

\* A crash cuts the broadcast short.
Crash(n) ==
  /\ Cardinality(crashed) < MaxCrash
  /\ n \in Up
  /\ crashed' = crashed \cup {n}
  /\ IF phase = "lit" /\ n \notin sent
     THEN \E to \in 0 .. Cardinality(Node) : FramesReach(n, to)
     ELSE UNCHANGED core
  /\ UNCHANGED <<sent, down, phase, round>>

WindowCloses ==
  /\ phase = "lit" /\ Up \subseteq sent
  /\ AllEdge(FALSE, TRUE)
  /\ phase' = "detect"
  /\ UNCHANGED <<crashed, sent, down, round>>

EdgeAfter(now, next) ==
  /\ phase = now
  /\ AllEdge(FALSE, FALSE)
  /\ phase' = next
  /\ UNCHANGED <<crashed, sent, down, round>>

\* The host restarts the protocol of a halted replica between windows.
ClearHalt(n) ==
  /\ phase = "dark" /\ n \in Up /\ core[n].halted
  /\ core' = [core EXCEPT ![n] = InitialCore]
  /\ UNCHANGED <<crashed, sent, down, phase, round>>

Next ==
  \/ WindowOpens
  \/ \E n \in Node : Broadcast(n) \/ Crash(n) \/ ClearHalt(n)
  \/ WindowCloses
  \/ EdgeAfter("detect", "commit")
  \/ EdgeAfter("commit", "dark")

Spec == Init /\ [][Next]_vars

-------------------------------------------------------------------------------
(* Properties.                                                             *)

Settled == phase = "dark" /\ round > 0

\* After every window the replicas that go on have agreed on the same set of logs.
ReplicasAgree ==
  Settled => \A a, b \in Correct : core[a].valid = core[b].valid

\* The replicas that go on never declare each other dead.
NoFalseSuspicion ==
  Settled => \A a, b \in Correct : b \in core[a].alive

\* A replica halts only when more than a minority has crashed.
MinorityHaltsNobody ==
  2 * Cardinality(crashed) < Cardinality(Node) => \A n \in Up : ~core[n].halted

\* A replica that was down for a whole window is taken for dead by those that go on.
CrashesAreDetected ==
  Settled => \A a \in Correct : core[a].alive \cap down = {}

===============================================================================
