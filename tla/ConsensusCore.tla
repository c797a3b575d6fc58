------------------------------ MODULE ConsensusCore ------------------------------
(***************************************************************************)
(* One clock edge of runtime/dni/rtl/apps/consensus_core.v as a function   *)
(* of its registers: the protocol state of one replica of the synchronous  *)
(* consensus application.  ConsensusReplica gives it an arbitrary          *)
(* environment, ConsensusRounds composes replicas into a cluster.          *)
(*                                                                         *)
(* A bit mask is the set of its nodes.  A replica proposes the same log in *)
(* every window (o_tx_propose is its node id), so a log buffer is the set  *)
(* of nodes whose log is in it; the other entries are blank.               *)
(***************************************************************************)
EXTENDS Naturals, FiniteSets

CONSTANT Node     \* 0 .. P_NODE_COUNT - 1

ASSUME NodeAssumption == IsFiniteSet(Node) /\ Node \subseteq Nat

Quorum == (Cardinality(Node) \div 2) + 1

States == {"idle", "collect", "detect", "commit"}
Core   == [state : States,
           halted : BOOLEAN,            \* o_system_halt
           alive : SUBSET Node,         \* r_alive_mask
           heard : SUBSET Node,         \* r_rx_mask
           heardBefore : SUBSET Node,   \* r_last_rx_mask
           matrix : [Node -> SUBSET Node],  \* r_knowledge_matrix
           logs : SUBSET Node,          \* r_propose_log
           kv : SUBSET Node,            \* o_tx_knowledge_vec
           valid : SUBSET Node,         \* o_commit_valid
           output : SUBSET Node]        \* o_commit_log

\* Out of reset and after i_clear_halt everyone is presumed alive and heard.
InitialCore ==
  [state |-> "idle", halted |-> FALSE, alive |-> Node, heard |-> Node, heardBefore |-> {},
   matrix |-> [j \in Node |-> {}], logs |-> {}, kv |-> Node, valid |-> {}, output |-> {}]

NoFrame == [arrived |-> FALSE]
FrameFrom(n, kv) == [arrived |-> TRUE, node |-> n, kv |-> kv]

-------------------------------------------------------------------------------
(* What a replica concludes from what it has heard.                        *)

VouchedBy(c, k) == {j \in c.alive : k \in c.matrix[j]}

\* Slip: half the nodes are a majority.
ReachedByHalf(c) == {k \in Node : 2 * Cardinality(VouchedBy(c, k)) >= Cardinality(Node)}
\* r_consensus_reached
Reached(c) == {k \in Node : Cardinality(VouchedBy(c, k)) >= Quorum}

Blind(me, c) == (c.alive \cap c.heard) \ {me} = {}
Mute(me, c)  == VouchedBy(c, me) \ {me} = {}

\* Slip: a replica halts as soon as one node is silent.
HaltsUnlessComplete(me, c) == c.heard # Node \/ Blind(me, c) \/ Mute(me, c)
MustHalt(me, c) == Cardinality(c.heard) < Quorum \/ Blind(me, c) \/ Mute(me, c)

\* Rule A: dead if unresponsive.  Rule B: dead if it did not acknowledge an agreed log.
Survivors(c) == {i \in c.alive : i \in c.heard /\ Reached(c) \subseteq c.matrix[i]}

-------------------------------------------------------------------------------
(* The state machine.                                                      *)

NextState(c, open, commit) ==
  IF open /\ ~c.halted THEN "collect"
  ELSE CASE c.state = "idle"    -> "idle"
         [] c.state = "collect" -> IF commit THEN "detect" ELSE "collect"
         [] c.state = "detect"  -> IF c.halted THEN "idle" ELSE "commit"
         [] c.state = "commit"  -> "idle"

\* Slip: who was heard in the last window stays heard.
BeginKeepsHeard(c) ==
  [c EXCEPT !.matrix = [j \in Node |-> {}], !.logs = {}, !.valid = {}, !.output = {},
            !.heardBefore = c.heard, !.kv = c.heard]
\* A window opens on an idle core: clear the buffers, tell the others whom we heard.
Begin(c) ==
  [c EXCEPT !.matrix = [j \in Node |-> {}], !.logs = {}, !.valid = {}, !.output = {},
            !.heardBefore = c.heard, !.kv = c.heard, !.heard = {}]

\* A received vector is cut down to the nodes there are.
Collect(me, c, frame) ==
  LET own == [c EXCEPT !.heard = @ \cup {me}, !.matrix[me] = c.heardBefore]
  IN IF ~frame.arrived THEN own
     ELSE [own EXCEPT !.matrix[frame.node] = frame.kv \cap Node,
                      !.logs = @ \cup {frame.node},
                      !.heard = @ \cup {frame.node}]

Detect(me, c) ==
  IF c.halted THEN c
  ELSE IF MustHalt(me, c) THEN [c EXCEPT !.halted = TRUE]
  ELSE [c EXCEPT !.alive = Survivors(c)]

\* Slip: the valid flags of the window before are kept.
CommitAdds(c) ==
  [c EXCEPT !.valid = @ \cup Reached(c), !.output = (@ \ Reached(c)) \cup (Reached(c) \cap c.logs)]
Commit(c) ==
  [c EXCEPT !.valid = Reached(c),
            !.output = (@ \ Reached(c)) \cup (Reached(c) \cap c.logs)]

Act(me, c, open, frame) ==
  CASE c.state = "idle"    -> IF open /\ ~c.halted THEN Begin(c) ELSE c
    [] c.state = "collect" -> Collect(me, c, frame)
    [] c.state = "detect"  -> Detect(me, c)
    [] c.state = "commit"  -> Commit(c)

\* posedge clk out of reset
CoreEdge(me, c, open, commit, frame) ==
  [Act(me, c, open, frame) EXCEPT !.state = NextState(c, open, commit)]

===============================================================================
