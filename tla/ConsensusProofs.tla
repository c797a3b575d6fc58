--------------------------- MODULE ConsensusProofs ---------------------------
(***************************************************************************)
(* Proofs about the consensus application: one replica in an arbitrary     *)
(* environment, a cluster whose windows are driven by a common schedule,   *)
(* and that each member of the cluster is such a replica.  They hold for   *)
(* every number of replicas, crashes and windows, with crashes that cut    *)
(* broadcasts short.  Me, KvBit and what is assumed of them are of the     *)
(* single replica; the cluster's theorems do not use them.                 *)
(***************************************************************************)
EXTENDS ConsensusReplica, ConsensusRounds, FiniteSetTheorems, WellFoundedInduction, TLAPS

LEMMA InitialTyping == InitialCore \in Core
BY DEF InitialCore, Core, States

-------------------------------------------------------------------------------
(* One replica: the types of its registers.                                *)

\* What a frame of the environment is to the replica.
LEMMA FrameShape ==
  ASSUME NEW frame \in Frames
  PROVE  frame.arrived \in BOOLEAN /\ (frame.arrived => frame.node \in Node)
<1>1. CASE frame = NoFrame
  BY <1>1 DEF NoFrame
<1>2. CASE \E n \in Node \ {Me}, kv \in SUBSET KvBit : frame = FrameFrom(n, kv)
  BY <1>2 DEF FrameFrom
<1>3. QED
  BY <1>1, <1>2 DEF Frames

\* Conclusions stay within the nodes.
LEMMA SurvivorsAreAlive ==
  ASSUME NEW c \in Core
  PROVE  Survivors(c) \subseteq c.alive /\ Reached(c) \subseteq Node
BY DEF Survivors, Reached

LEMMA BeginTyping ==
  ASSUME NEW c \in Core
  PROVE  Begin(c) \in Core
BY DEF Begin, Core

LEMMA CollectTyping ==
  ASSUME NEW c \in Core, NEW frame \in Frames
  PROVE  Collect(Me, c, frame) \in Core
<1> DEFINE own == [c EXCEPT !.heard = @ \cup {Me}, !.matrix[Me] = c.heardBefore]
           row == frame.kv \cap Node
           full == [own EXCEPT !.matrix[frame.node] = row,
                               !.logs = @ \cup {frame.node},
                               !.heard = @ \cup {frame.node}]
<1>1. own \in Core
  BY ReplicaAssumption DEF Core
<1>2. CASE ~frame.arrived
  BY <1>1, <1>2 DEF Collect
<1>3. CASE frame.arrived
  <2>1. frame.node \in Node /\ row \in SUBSET Node
    BY <1>3, FrameShape
  <2>2. full \in Core
    <3> HIDE DEF own, row
    <3> QED  BY <1>1, <2>1 DEF Core
  <2>3. QED
    BY <1>3, <2>2 DEF Collect
<1>4. QED
  BY <1>2, <1>3, FrameShape

LEMMA DetectTyping ==
  ASSUME NEW c \in Core
  PROVE  Detect(Me, c) \in Core
<1>1. Survivors(c) \in SUBSET Node
  BY SurvivorsAreAlive DEF Core
<1>2. [c EXCEPT !.halted = TRUE] \in Core
  BY DEF Core
<1>3. [c EXCEPT !.alive = Survivors(c)] \in Core
  BY <1>1 DEF Core
<1>4. QED
  BY <1>2, <1>3 DEF Detect

LEMMA CommitTyping ==
  ASSUME NEW c \in Core
  PROVE  Commit(c) \in Core
<1> DEFINE R == Reached(c)
<1>1. R \in SUBSET Node
  BY SurvivorsAreAlive
<1>2. [c EXCEPT !.valid = R, !.output = (@ \ R) \cup (R \cap c.logs)] \in Core
  <2> HIDE DEF R
  <2> QED  BY <1>1 DEF Core
<1>3. QED
  BY <1>2 DEF Commit

LEMMA EdgeTyping ==
  ASSUME NEW c \in Core, NEW open \in BOOLEAN, NEW commit \in BOOLEAN, NEW frame \in Frames
  PROVE  CoreEdge(Me, c, open, commit, frame) \in Core
<1>1. c.state \in States
  BY DEF Core
<1>2. Act(Me, c, open, frame) \in Core
  BY <1>1, BeginTyping, CollectTyping, DetectTyping, CommitTyping DEF Act, States
<1>3. NextState(c, open, commit) \in States
  BY <1>1 DEF NextState, States
<1>4. QED
  BY <1>2, <1>3 DEF CoreEdge, Core

\* ReplicaTypeOK: the masks never leave the node set, however wide the vectors that arrive.
THEOREM ReplicaTypeCorrect == ReplicaSpec => []ReplicaTypeOK
<1>1. ReplicaInit => ReplicaTypeOK
  BY InitialTyping DEF ReplicaInit, ReplicaTypeOK
<1>2. ReplicaTypeOK /\ [ReplicaNext]_replica => ReplicaTypeOK'
  <2> SUFFICES ASSUME ReplicaTypeOK, [ReplicaNext]_replica PROVE ReplicaTypeOK'
    OBVIOUS
  <2>1. ASSUME NEW open \in BOOLEAN, NEW commit \in BOOLEAN, NEW frame \in Frames,
               ReplicaEdge(open, commit, frame)
        PROVE  ReplicaTypeOK'
    BY <2>1, EdgeTyping DEF ReplicaEdge, ReplicaTypeOK
  <2>2. CASE ReplicaClearHalt
    BY <2>2, InitialTyping DEF ReplicaClearHalt, ReplicaTypeOK
  <2>3. CASE UNCHANGED replica
    BY <2>3 DEF ReplicaTypeOK
  <2>4. QED
    BY <2>1, <2>2, <2>3 DEF ReplicaNext
<1>3. QED
  BY <1>1, <1>2, PTL DEF ReplicaSpec

-------------------------------------------------------------------------------
(* Suspicion.                                                              *)

LEMMA EdgeOnlyShrinksAlive ==
  ASSUME NEW c \in Core, NEW open \in BOOLEAN, NEW commit \in BOOLEAN, NEW frame \in Frames
  PROVE  CoreEdge(Me, c, open, commit, frame).alive \subseteq c.alive
<1> DEFINE act == Act(Me, c, open, frame)
<1>1. act \in Core /\ c.state \in States
  BY BeginTyping, CollectTyping, DetectTyping, CommitTyping DEF Act, States, Core
<1>2. act.alive \subseteq c.alive
  <2>1. CASE c.state = "idle"
    BY <2>1 DEF Act, Begin, Core
  <2>2. CASE c.state = "collect"
    BY <2>2 DEF Act, Collect, Core
  <2>3. CASE c.state = "detect"
    BY <2>3, SurvivorsAreAlive DEF Act, Detect, Core
  <2>4. CASE c.state = "commit"
    BY <2>4 DEF Act, Commit, Core
  <2>5. QED
    BY <1>1, <2>1, <2>2, <2>3, <2>4 DEF States
<1>3. QED
  BY <1>1, <1>2 DEF CoreEdge, Core

\* SuspicionIsForGood: for every set of nodes and every environment, back-to-back
\* windows included, a node declared dead is not readmitted by anything it sends.
THEOREM DeadStayDead == ReplicaSpec => SuspicionIsForGood
<1>1. ReplicaTypeOK /\ [ReplicaNext]_replica => [replica' = InitialCore \/ replica'.alive \subseteq replica.alive]_replica
  <2> SUFFICES ASSUME ReplicaTypeOK, ReplicaNext
               PROVE  replica' = InitialCore \/ replica'.alive \subseteq replica.alive
    OBVIOUS
  <2>1. ASSUME NEW open \in BOOLEAN, NEW commit \in BOOLEAN, NEW frame \in Frames,
               ReplicaEdge(open, commit, frame)
        PROVE  replica'.alive \subseteq replica.alive
    BY <2>1, EdgeOnlyShrinksAlive DEF ReplicaEdge, ReplicaTypeOK
  <2>2. QED
    BY <2>1 DEF ReplicaNext, ReplicaClearHalt
<1>2. QED
  BY <1>1, ReplicaTypeCorrect, PTL DEF ReplicaSpec, SuspicionIsForGood

-------------------------------------------------------------------------------
(* Agreement with those believed alive.                                    *)

\* The verdict of a window, once reached, holds between detection and the next window.
VerdictHolds(c) ==
  ~c.halted =>
    /\ c.state = "commit" => \A i \in c.alive : Reached(c) \subseteq c.matrix[i]
    /\ c.state = "idle"   => \A i \in c.alive : c.valid \subseteq c.matrix[i]

\* Fewer believers vouch for fewer logs.
LEMMA ReachedShrinks ==
  ASSUME NEW c \in Core, NEW d \in Core, d.alive \subseteq c.alive, d.matrix = c.matrix
  PROVE  Reached(d) \subseteq Reached(c)
<1> SUFFICES ASSUME NEW k \in Reached(d) PROVE k \in Reached(c)
  OBVIOUS
<1>1. VouchedBy(d, k) \subseteq VouchedBy(c, k) /\ VouchedBy(c, k) \subseteq Node
  BY DEF VouchedBy, Core
<1>2. IsFiniteSet(VouchedBy(c, k)) /\ IsFiniteSet(VouchedBy(d, k))
  BY <1>1, NodeAssumption, FS_Subset
<1>3. Cardinality(VouchedBy(d, k)) <= Cardinality(VouchedBy(c, k))
  BY <1>1, <1>2, FS_Subset
<1>4. /\ Cardinality(VouchedBy(d, k)) \in Nat /\ Cardinality(VouchedBy(c, k)) \in Nat
      /\ Quorum \in Nat
  BY <1>2, NodeAssumption, FS_CardinalityType DEF Quorum
<1>5. QED
  BY <1>3, <1>4 DEF Reached

LEMMA VerdictOfDetect ==
  ASSUME NEW c \in Core, ~Detect(Me, c).halted
  PROVE  \A i \in Detect(Me, c).alive : Reached(Detect(Me, c)) \subseteq Detect(Me, c).matrix[i]
<1> DEFINE d == Detect(Me, c)
<1>1. d \in Core
  BY DetectTyping
<1>2. ~c.halted /\ ~MustHalt(Me, c)
  BY DEF Detect, Core
<1>3. d = [c EXCEPT !.alive = Survivors(c)]
  BY <1>2 DEF Detect
<1>4. d.alive = Survivors(c) /\ d.matrix = c.matrix
  BY <1>3 DEF Core
<1>5. Reached(d) \subseteq Reached(c)
  BY <1>1, <1>4, SurvivorsAreAlive, ReachedShrinks
<1>6. \A i \in d.alive : Reached(d) \subseteq d.matrix[i]
  BY <1>4, <1>5 DEF Survivors
<1>7. QED
  BY <1>6

LEMMA EdgeKeepsVerdict ==
  ASSUME NEW c \in Core, NEW open \in BOOLEAN, NEW commit \in BOOLEAN, NEW frame \in Frames,
         VerdictHolds(c)
  PROVE  VerdictHolds(CoreEdge(Me, c, open, commit, frame))
<1> DEFINE act == Act(Me, c, open, frame)
           new == CoreEdge(Me, c, open, commit, frame)
<1>1. act \in Core /\ c.state \in States /\ NextState(c, open, commit) \in States
  BY BeginTyping, CollectTyping, DetectTyping, CommitTyping DEF Act, States, Core, NextState
<1>2. /\ new.state = NextState(c, open, commit) /\ new.halted = act.halted
      /\ new.alive = act.alive /\ new.matrix = act.matrix /\ new.valid = act.valid
  BY <1>1 DEF CoreEdge, Core
<1>3. Reached(new) = Reached(act)
  BY <1>2 DEF Reached, VouchedBy
<1>4. CASE new.state \in {"collect", "detect"}
  BY <1>4 DEF VerdictHolds
<1>5. CASE c.state = "detect" /\ new.state = "commit"
  BY <1>2, <1>3, <1>5, VerdictOfDetect DEF Act, VerdictHolds
<1>6. CASE c.state = "detect" /\ new.state = "idle"
  <2>1. c.halted
    BY <1>2, <1>6 DEF NextState
  <2>2. QED
    BY <1>2, <1>6, <2>1 DEF Act, Detect, VerdictHolds
<1>7. CASE c.state = "commit" /\ new.state = "idle"
  <2>1. act = Commit(c)
    BY <1>7 DEF Act
  <2>2. /\ act.valid = Reached(c) /\ act.alive = c.alive
        /\ act.matrix = c.matrix /\ act.halted = c.halted
    BY <2>1 DEF Commit, Core
  <2>3. QED
    BY <1>2, <1>7, <2>2 DEF VerdictHolds
<1>8. CASE c.state = "idle" /\ new.state = "idle"
  <2>1. act = c
    BY <1>2, <1>8 DEF Act, NextState
  <2>2. QED
    BY <1>2, <1>8, <2>1 DEF VerdictHolds
<1>9. QED
  BY <1>1, <1>2, <1>4, <1>5, <1>6, <1>7, <1>8 DEF NextState, States

\* CommitsAreUnanimous, with the invariant it rests on: for every finite set of nodes,
\* what a replica marks as committed was acknowledged by all it still believes alive.
THEOREM CommitsUnanimous == ReplicaSpec => []CommitsAreUnanimous
<1>1. ReplicaInit => VerdictHolds(replica)
  BY DEF ReplicaInit, InitialCore, VerdictHolds
<1>2. ReplicaTypeOK /\ VerdictHolds(replica) /\ [ReplicaNext]_replica => VerdictHolds(replica)'
  <2> SUFFICES ASSUME ReplicaTypeOK, VerdictHolds(replica), [ReplicaNext]_replica PROVE VerdictHolds(replica')
    BY DEF VerdictHolds, Reached, VouchedBy, Quorum
  <2>1. ASSUME NEW open \in BOOLEAN, NEW commit \in BOOLEAN, NEW frame \in Frames,
               ReplicaEdge(open, commit, frame)
        PROVE  VerdictHolds(replica')
    BY <2>1, EdgeKeepsVerdict DEF ReplicaEdge, ReplicaTypeOK
  <2>2. CASE ReplicaClearHalt
    BY <2>2 DEF ReplicaClearHalt, InitialCore, VerdictHolds
  <2>3. CASE UNCHANGED replica
    BY <2>3
  <2>4. QED
    BY <2>1, <2>2, <2>3 DEF ReplicaNext
<1>3. VerdictHolds(replica) => CommitsAreUnanimous
  BY DEF VerdictHolds, CommitsAreUnanimous
<1>4. QED
  BY <1>1, <1>2, <1>3, ReplicaTypeCorrect, PTL DEF ReplicaSpec

-------------------------------------------------------------------------------
(* The cluster.  One clock edge of a core, seen from each place of a window. *)

\* An idle core does nothing unless a window opens.
LEMMA IdleEdge ==
  ASSUME NEW me \in Node, NEW c \in Core, c.state = "idle", NEW commit \in BOOLEAN, NEW frame
  PROVE  CoreEdge(me, c, FALSE, commit, frame) = c
BY DEF CoreEdge, Act, NextState, Core

\* The edges of a window, by name.
Opened(me, c)       == CoreEdge(me, c, TRUE, FALSE, NoFrame)
Heard(me, c, n, kv) == CoreEdge(me, c, FALSE, FALSE, FrameFrom(n, kv))
Closed(me, c)       == CoreEdge(me, c, FALSE, TRUE, NoFrame)
Stepped(me, c)      == CoreEdge(me, c, FALSE, FALSE, NoFrame)

\* A core that has halted does not open a window.
LEMMA OpenEdge ==
  ASSUME NEW me \in Node, NEW c \in Core, c.state = "idle",
         NEW d, d = Opened(me, c)
  PROVE  /\ d \in Core
         /\ c.halted => d = c
         /\ ~c.halted => /\ d.state = "collect" /\ ~d.halted /\ d.alive = c.alive
                         /\ d.heard = {} /\ d.heardBefore = c.heard /\ d.kv = c.heard
                         /\ (\A j \in Node : d.matrix[j] = {}) /\ d.valid = {}
<1>1. CASE c.halted
  <2>1. d = [c EXCEPT !.state = "idle"]
    BY <1>1 DEF Opened, Heard, Closed, Stepped, CoreEdge, Act, NextState
  <2>2. [c EXCEPT !.state = "idle"] = c
    BY DEF Core
  <2> QED  BY <2>1, <2>2, <1>1
<1>2. CASE ~c.halted
  <2>1. d = [Begin(c) EXCEPT !.state = "collect"]
    BY <1>2 DEF Opened, Heard, Closed, Stepped, CoreEdge, Act, NextState
  <2>2. /\ Begin(c) \in Core
        /\ Begin(c).state = "idle" /\ Begin(c).halted = c.halted /\ Begin(c).alive = c.alive
        /\ Begin(c).heard = {} /\ Begin(c).heardBefore = c.heard /\ Begin(c).kv = c.heard
        /\ Begin(c).matrix = [j \in Node |-> {}] /\ Begin(c).valid = {}
    BY DEF Begin, Core
  <2> QED  BY <2>1, <2>2, <1>2 DEF Core, States
<1> QED  BY <1>1, <1>2

\* Whatever a core collects at an edge, it counts itself among those it has heard.
LEMMA FrameEdge ==
  ASSUME NEW me \in Node, NEW c \in Core, c.state = "collect", ~c.halted,
         NEW n \in Node, NEW kv \in SUBSET Node,
         NEW d, d = Heard(me, c, n, kv)
  PROVE  /\ d \in Core
         /\ d.state = "collect" /\ ~d.halted /\ d.alive = c.alive
         /\ d.heardBefore = c.heardBefore /\ d.kv = c.kv /\ d.valid = c.valid
         /\ d.heard = c.heard \cup {me, n}
         /\ \A j \in Node : d.matrix[j] = IF j = n THEN kv
                                          ELSE IF j = me THEN c.heardBefore ELSE c.matrix[j]
<1> DEFINE own == [c EXCEPT !.heard = @ \cup {me}, !.matrix[me] = c.heardBefore]
           full == [own EXCEPT !.matrix[n] = kv, !.logs = @ \cup {n}, !.heard = @ \cup {n}]
<1>1. kv \cap Node = kv
  OBVIOUS
<1>2. Collect(me, c, FrameFrom(n, kv)) = full
  BY <1>1 DEF Collect, FrameFrom
<1>3. d = [full EXCEPT !.state = "collect"]
  <2> HIDE DEF full
  <2> QED  BY <1>2 DEF Opened, Heard, Closed, Stepped, CoreEdge, Act, NextState
<1>4. /\ own \in Core
      /\ own.state = c.state /\ own.halted = c.halted /\ own.alive = c.alive
      /\ own.heardBefore = c.heardBefore /\ own.kv = c.kv /\ own.valid = c.valid
      /\ own.heard = c.heard \cup {me}
      /\ \A j \in Node : own.matrix[j] = IF j = me THEN c.heardBefore ELSE c.matrix[j]
  BY DEF Core
<1>5. /\ full \in Core
      /\ full.state = c.state /\ full.halted = c.halted /\ full.alive = c.alive
      /\ full.heardBefore = c.heardBefore /\ full.kv = c.kv /\ full.valid = c.valid
      /\ full.heard = c.heard \cup {me, n}
      /\ \A j \in Node : full.matrix[j] = IF j = n THEN kv
                                          ELSE IF j = me THEN c.heardBefore ELSE c.matrix[j]
  <2> HIDE DEF own
  <2> QED  BY <1>4 DEF Core
<1> HIDE DEF full
<1> QED  BY <1>3, <1>5 DEF Core, States

LEMMA CloseEdge ==
  ASSUME NEW me \in Node, NEW c \in Core, c.state = "collect", ~c.halted,
         NEW d, d = Closed(me, c)
  PROVE  /\ d \in Core
         /\ d.state = "detect" /\ ~d.halted /\ d.alive = c.alive
         /\ d.heardBefore = c.heardBefore /\ d.kv = c.kv /\ d.valid = c.valid
         /\ d.heard = c.heard \cup {me}
         /\ \A j \in Node : d.matrix[j] = IF j = me THEN c.heardBefore ELSE c.matrix[j]
<1> DEFINE own == [c EXCEPT !.heard = @ \cup {me}, !.matrix[me] = c.heardBefore]
<1>1. Collect(me, c, NoFrame) = own
  BY DEF Collect, NoFrame
<1>2. d = [own EXCEPT !.state = "detect"]
  <2> HIDE DEF own
  <2> QED  BY <1>1 DEF Opened, Heard, Closed, Stepped, CoreEdge, Act, NextState
<1>3. /\ own \in Core
      /\ own.state = c.state /\ own.halted = c.halted /\ own.alive = c.alive
      /\ own.heardBefore = c.heardBefore /\ own.kv = c.kv /\ own.valid = c.valid
      /\ own.heard = c.heard \cup {me}
      /\ \A j \in Node : own.matrix[j] = IF j = me THEN c.heardBefore ELSE c.matrix[j]
  BY DEF Core
<1> HIDE DEF own
<1> QED  BY <1>2, <1>3 DEF Core, States

LEMMA DetectEdge ==
  ASSUME NEW me \in Node, NEW c \in Core, c.state = "detect", ~c.halted,
         NEW d, d = Stepped(me, c)
  PROVE  /\ d \in Core
         /\ d.state = "commit"
         /\ d.heard = c.heard /\ d.heardBefore = c.heardBefore /\ d.kv = c.kv
         /\ d.matrix = c.matrix
         /\ MustHalt(me, c) => d.halted /\ d.alive = c.alive
         /\ ~MustHalt(me, c) => ~d.halted /\ d.alive = Survivors(c)
<1> DEFINE S == Survivors(c)
<1>1. S \in SUBSET Node
  BY DEF Survivors, Core
<1>2. CASE MustHalt(me, c)
  <2>1. d = [[c EXCEPT !.halted = TRUE] EXCEPT !.state = "commit"]
    BY <1>2 DEF Opened, Heard, Closed, Stepped, CoreEdge, Act, NextState, Detect
  <2> QED  BY <2>1, <1>2 DEF Core, States
<1>3. CASE ~MustHalt(me, c)
  <2>1. d = [[c EXCEPT !.alive = S] EXCEPT !.state = "commit"]
    BY <1>3 DEF Opened, Heard, Closed, Stepped, CoreEdge, Act, NextState, Detect
  <2> HIDE DEF S
  <2>2. /\ d \in Core /\ d.state = "commit"
        /\ d.heard = c.heard /\ d.heardBefore = c.heardBefore /\ d.kv = c.kv
        /\ d.matrix = c.matrix
        /\ ~d.halted /\ d.alive = S
    BY <2>1, <1>1 DEF Core, States
  <2> QED  BY <2>2, <1>3 DEF S
<1> QED  BY <1>2, <1>3

LEMMA CommitEdge ==
  ASSUME NEW me \in Node, NEW c \in Core, c.state = "commit",
         NEW d, d = Stepped(me, c)
  PROVE  /\ d \in Core
         /\ d.state = "idle" /\ d.halted = c.halted /\ d.alive = c.alive
         /\ d.heard = c.heard /\ d.heardBefore = c.heardBefore /\ d.kv = c.kv
         /\ d.matrix = c.matrix /\ d.valid = Reached(c)
<1> DEFINE R == Reached(c)
           O == (c.output \ R) \cup (R \cap c.logs)
<1>1. R \in SUBSET Node
  BY DEF Reached
<1>2. O \in SUBSET Node
  BY <1>1 DEF Core
<1>3. d = [[c EXCEPT !.valid = R, !.output = O] EXCEPT !.state = "idle"]
  BY DEF Opened, Heard, Closed, Stepped, CoreEdge, Act, NextState, Commit
<1> HIDE DEF R, O
<1>4. /\ d \in Core
      /\ d.state = "idle" /\ d.halted = c.halted /\ d.alive = c.alive
      /\ d.heard = c.heard /\ d.heardBefore = c.heardBefore /\ d.kv = c.kv
      /\ d.matrix = c.matrix /\ d.valid = R
  BY <1>1, <1>2, <1>3 DEF Core, States
<1> QED  BY <1>4 DEF R

-------------------------------------------------------------------------------
(* The invariant of a window, in named parts.                              *)

\* The state a replica's core is in while it takes part in the window.
Expected == CASE phase = "dark"   -> "idle"
              [] phase = "lit"    -> "collect"
              [] phase = "detect" -> "detect"
              [] phase = "commit" -> "commit"

Typing ==
  /\ core \in [Node -> Core]
  /\ crashed \subseteq Node /\ sent \subseteq Node /\ down \subseteq crashed
  /\ phase \in {"dark", "lit", "detect", "commit"} /\ round \in Nat

\* Who has not halted takes part; who halts in a window sees it through.
InStep ==
  \A a \in Up :
    /\ core[a].state = Expected \/ (core[a].halted /\ core[a].state = "idle")
    /\ phase \in {"lit", "detect"} /\ core[a].halted => core[a].state = "idle"

Plays(a) == a \in Up /\ core[a].state # "idle"

\* What the one that takes part has heard: nobody that was down, all whose broadcast is
\* out, and from each the vector it sends in this window.
HeardInWindow ==
  \A a \in Node : Plays(a) =>
    /\ core[a].heard \cap down = {}
    /\ sent \subseteq core[a].heard \cup {a}
    /\ phase # "lit" => Up \subseteq core[a].heard
    /\ core[a].heardBefore = core[a].kv
    /\ \A n \in Node : core[a].matrix[n] = IF n \in core[a].heard THEN core[n].kv ELSE {}

\* Between windows nobody that is up is missed, and what a replica tells of the window
\* before leaves out only who was down before this one.
NobodyMissed ==
  phase = "dark" => \A a \in Up : ~core[a].halted => Up \subseteq core[a].heard
VectorsLackTheDown == \A n \in Node \ down : Node \ core[n].kv \subseteq down

RoundInv == Typing /\ InStep /\ HeardInWindow /\ NobodyMissed /\ VectorsLackTheDown

-------------------------------------------------------------------------------
(* Detection.                                                              *)

DownAreDead ==
  \A a \in Up : ~core[a].halted /\ (phase = "commit" \/ (Settled /\ core[a] # InitialCore))
                  => core[a].alive \cap down = {}

-------------------------------------------------------------------------------
(* Small clusters: whoever misses a log that has a quorum is its owner.    *)

SmallCluster == Cardinality(Node) <= 4

AllUpAreAlive ==
  \A a \in Up : ~core[a].halted =>
    /\ phase \in {"lit", "detect"} => Node \ down \subseteq core[a].alive
    /\ phase \in {"commit", "dark"} => Up \subseteq core[a].alive
    /\ phase = "commit" => core[a].alive = core[a].heard /\ Cardinality(core[a].heard) >= Quorum

SmallInv == RoundInv /\ AllUpAreAlive /\ ReplicasAgree

-------------------------------------------------------------------------------
(* A minority of crashes.                                                  *)

Minority == 2 * Cardinality(crashed) < Cardinality(Node)

NobodyHalts == \A n \in Up : ~core[n].halted

\* Broadcasts go out in the order of ids: of two replicas the lower one hears more.
LowerHearMore ==
  \A s, t \in Up : s < t => core[t].heard \subseteq core[s].heard \cup {s, t}
LowerTellMore ==
  \A s, t \in Node \ down : s < t => core[t].kv \subseteq core[s].kv

\* The believed and the crashed are all, or more than a quorum.
EnoughBelieved ==
  \A a \in Up : \/ core[a].alive \cup crashed = Node
                \/ Cardinality(core[a].alive \cup crashed) > Quorum

MinorityInv ==
  Minority => NobodyHalts /\ LowerHearMore /\ LowerTellMore /\ EnoughBelieved

LEMMA InitRound == Init => RoundInv /\ DownAreDead
<1> SUFFICES ASSUME Init PROVE RoundInv /\ DownAreDead
  OBVIOUS
<1>1. /\ \A n \in Node : core[n] = InitialCore
      /\ core \in [Node -> Core]
      /\ crashed = {} /\ sent = {} /\ down = {} /\ phase = "dark" /\ round = 0
  BY InitialTyping DEF Init
<1>2. /\ InitialCore.state = "idle" /\ InitialCore.heard = Node /\ InitialCore.kv = Node
      /\ ~InitialCore.halted
  BY DEF InitialCore
<1>3. Typing
  BY <1>1 DEF Typing
<1>4. Up = Node
  BY <1>1 DEF Up
<1>5. InStep /\ HeardInWindow /\ NobodyMissed /\ VectorsLackTheDown
  BY <1>1, <1>2, <1>4 DEF InStep, Expected, HeardInWindow, Plays, NobodyMissed,
                          VectorsLackTheDown
<1>6. DownAreDead
  BY <1>1, <1>4 DEF DownAreDead, Settled
<1> QED  BY <1>3, <1>5, <1>6 DEF RoundInv

\* A window opens: who plays starts afresh, and tells whom it heard in the one before.
LEMMA OpenCores ==
  ASSUME RoundInv, WindowOpens
  PROVE  /\ Typing' /\ phase = "dark" /\ phase' = "lit" /\ sent' = {}
         /\ down' = crashed /\ crashed' = crashed /\ Up' = Up
         /\ \A a \in Node \ Up : core'[a] = core[a]
         /\ \A a \in Up :
              /\ core[a].halted => core'[a] = core[a] /\ core[a].state = "idle"
              /\ ~core[a].halted =>
                   /\ core'[a].state = "collect" /\ ~core'[a].halted
                   /\ core'[a].alive = core[a].alive /\ core'[a].valid = {}
                   /\ core'[a].heard = {} /\ core'[a].heardBefore = core[a].heard
                   /\ core'[a].kv = core[a].heard /\ (\A j \in Node : core'[a].matrix[j] = {})
<1>1. /\ phase = "dark" /\ phase' = "lit" /\ sent' = {} /\ down' = crashed /\ crashed' = crashed
      /\ round' = round + 1 /\ AllEdge(TRUE, FALSE)
  BY DEF WindowOpens
<1>2. Up' = Up /\ Up \subseteq Node
  BY <1>1 DEF Up
<1>3. \A a \in Up : core[a] \in Core /\ core[a].state = "idle"
  BY <1>1, <1>2 DEF RoundInv, Typing, InStep, Expected
<1>4. /\ DOMAIN core' = Node
      /\ core' = [a \in Node |-> core'[a]]
      /\ \A a \in Up : core'[a] = Opened(a, core[a])
      /\ \A a \in Node \ Up : core'[a] = core[a]
  BY <1>1, <1>2 DEF AllEdge, Opened
<1>5. ASSUME NEW a \in Up
      PROVE  /\ core'[a] \in Core
             /\ core[a].halted => core'[a] = core[a]
             /\ ~core[a].halted =>
                  /\ core'[a].state = "collect" /\ ~core'[a].halted
                  /\ core'[a].alive = core[a].alive /\ core'[a].valid = {}
                  /\ core'[a].heard = {} /\ core'[a].heardBefore = core[a].heard
                  /\ core'[a].kv = core[a].heard /\ (\A j \in Node : core'[a].matrix[j] = {})
  <2> DEFINE c == core[a]
             d == core'[a]
  <2>1. a \in Node /\ c \in Core /\ c.state = "idle"
        /\ d = Opened(a, c)
    BY <1>2, <1>3, <1>4
  <2> HIDE DEF c, d
  <2>2. /\ d \in Core
        /\ c.halted => d = c
        /\ ~c.halted => /\ d.state = "collect" /\ ~d.halted /\ d.alive = c.alive
                        /\ d.heard = {} /\ d.heardBefore = c.heard /\ d.kv = c.heard
                        /\ (\A j \in Node : d.matrix[j] = {}) /\ d.valid = {}
    BY <2>1, OpenEdge
  <2> QED  BY <2>2 DEF c, d
<1>6. Typing'
  BY <1>1, <1>2, <1>4, <1>5 DEF RoundInv, Typing
<1> QED  BY <1>1, <1>2, <1>3, <1>4, <1>5, <1>6

LEMMA OpenKeeps ==
  ASSUME RoundInv, WindowOpens
  PROVE  RoundInv' /\ DownAreDead'
<1>1. /\ Typing' /\ phase = "dark" /\ phase' = "lit" /\ sent' = {}
      /\ down' = crashed /\ crashed' = crashed /\ Up' = Up
      /\ \A a \in Node \ Up : core'[a] = core[a]
      /\ \A a \in Up :
           /\ core[a].halted => core'[a] = core[a] /\ core[a].state = "idle"
           /\ ~core[a].halted =>
                /\ core'[a].state = "collect" /\ ~core'[a].halted
                /\ core'[a].alive = core[a].alive
                /\ core'[a].heard = {} /\ core'[a].heardBefore = core[a].heard
                /\ core'[a].kv = core[a].heard /\ (\A j \in Node : core'[a].matrix[j] = {})
  BY OpenCores
<1>2. InStep'
  BY <1>1 DEF InStep, Expected
<1>3. HeardInWindow'
  <2> SUFFICES ASSUME NEW a \in Node, Plays(a)'
               PROVE  /\ core'[a].heard \cap down' = {}
                      /\ sent' \subseteq core'[a].heard \cup {a}
                      /\ core'[a].heardBefore = core'[a].kv
                      /\ \A n \in Node : core'[a].matrix[n] =
                                           IF n \in core'[a].heard THEN core'[n].kv ELSE {}
    BY <1>1 DEF HeardInWindow
  <2>1. a \in Up /\ ~core[a].halted
    BY <1>1 DEF Plays
  <2> QED  BY <2>1, <1>1
<1>4. NobodyMissed' /\ DownAreDead'
  BY <1>1 DEF NobodyMissed, DownAreDead, Settled
<1>5. VectorsLackTheDown'
  <2> SUFFICES ASSUME NEW n \in Node \ crashed PROVE Node \ core'[n].kv \subseteq crashed
    BY <1>1 DEF VectorsLackTheDown
  <2>1. n \in Up /\ n \in Node \ down /\ down \subseteq crashed
    BY DEF Up, RoundInv, Typing
  <2>2. CASE core[n].halted
    BY <2>1, <2>2, <1>1 DEF RoundInv, VectorsLackTheDown
  <2>3. CASE ~core[n].halted
    BY <2>1, <2>3, <1>1 DEF RoundInv, NobodyMissed, Up
  <2> QED  BY <2>2, <2>3
<1> QED  BY <1>1, <1>2, <1>3, <1>4, <1>5 DEF RoundInv

\* Frames of one sender reach those below `to` that play: they hear it, and themselves.
LEMMA Delivery ==
  ASSUME RoundInv, phase = "lit", NEW n \in Up, NEW to, FramesReach(n, to)
  PROVE  /\ core' \in [Node -> Core]
         /\ \A t \in Node :
              /\ core'[t].state = core[t].state /\ core'[t].halted = core[t].halted
              /\ core'[t].alive = core[t].alive /\ core'[t].kv = core[t].kv
              /\ core'[t].heardBefore = core[t].heardBefore
              /\ core'[t].valid = core[t].valid
              /\ ~(t < to /\ t # n) \/ ~Plays(t) => core'[t] = core[t]
              /\ t < to /\ t # n /\ Plays(t) =>
                   /\ core'[t].heard = core[t].heard \cup {t, n}
                   /\ \A j \in Node : core'[t].matrix[j] =
                        IF j \in core'[t].heard THEN core[j].kv ELSE {}
<1>1. n \in Node /\ Up \subseteq Node /\ core[n].kv \in SUBSET Node
  BY DEF Up, RoundInv, Typing, Core
<1>2. /\ core' = [t \in Node |-> core'[t]]
      /\ \A t \in Node :
           /\ t \in Up \ {n} /\ t < to =>
                core'[t] = Heard(t, core[t], n, core[n].kv)
           /\ ~(t \in Up \ {n} /\ t < to) => core'[t] = core[t]
  BY DEF FramesReach, Heard
<1>3. \A t \in Node : core[t] \in Core
  BY DEF RoundInv, Typing
<1>4. ASSUME NEW t \in Node, t \in Up \ {n}, t < to, ~Plays(t)
      PROVE  core'[t] = core[t]
  BY <1>2, <1>3, <1>4, IdleEdge DEF Plays, Heard
<1>5. ASSUME NEW t \in Node, t \in Up \ {n}, t < to, Plays(t)
      PROVE  /\ core'[t] \in Core
             /\ core'[t].state = core[t].state /\ core'[t].halted = core[t].halted
             /\ core'[t].alive = core[t].alive /\ core'[t].kv = core[t].kv
             /\ core'[t].heardBefore = core[t].heardBefore
             /\ core'[t].valid = core[t].valid
             /\ core'[t].heard = core[t].heard \cup {t, n}
             /\ \A j \in Node : core'[t].matrix[j] =
                  IF j \in core'[t].heard THEN core[j].kv ELSE {}
  <2>1. core[t].state = "collect" /\ ~core[t].halted
    BY <1>5 DEF Plays, RoundInv, InStep, Expected
  <2>2. core'[t] = Heard(t, core[t], n, core[n].kv)
    BY <1>2, <1>5
  <2> DEFINE c == core[t]
             d == core'[t]
             kv == core[n].kv
  <2>3. /\ d \in Core
        /\ d.state = "collect" /\ ~d.halted /\ d.alive = c.alive
        /\ d.heardBefore = c.heardBefore /\ d.kv = c.kv /\ d.valid = c.valid
        /\ d.heard = c.heard \cup {t, n}
        /\ \A j \in Node : d.matrix[j] = IF j = n THEN kv
                                         ELSE IF j = t THEN c.heardBefore ELSE c.matrix[j]
    <3>1. /\ c \in Core /\ c.state = "collect" /\ ~c.halted /\ n \in Node /\ kv \in SUBSET Node
          /\ d = Heard(t, c, n, kv)
      BY <2>1, <2>2, <1>1, <1>3
    <3> HIDE DEF c, d, kv
    <3> QED  BY <3>1, FrameEdge
  <2>4. /\ core[t].heardBefore = core[t].kv
        /\ \A j \in Node : core[t].matrix[j] = IF j \in core[t].heard THEN core[j].kv ELSE {}
    BY <1>5 DEF RoundInv, HeardInWindow
  <2>5. core'[t].halted = core[t].halted
    BY <2>1, <2>3, <1>3 DEF Core
  <2> QED  BY <2>1, <2>3, <2>4, <2>5
<1>6. \A t \in Node : core'[t] \in Core
  BY <1>2, <1>3, <1>4, <1>5
<1>7. core' \in [Node -> Core]
  BY <1>2, <1>6
<1> QED  BY <1>2, <1>4, <1>5, <1>7 DEF Plays

LEMMA BroadcastKeeps ==
  ASSUME RoundInv, NEW n \in Node, Broadcast(n)
  PROVE  RoundInv' /\ DownAreDead'
<1>1. /\ phase = "lit" /\ n \in Up \ sent /\ FramesReach(n, Cardinality(Node))
      /\ sent' = sent \cup {n} /\ crashed' = crashed /\ down' = down
      /\ phase' = phase /\ round' = round /\ Up' = Up /\ Up \subseteq Node
  BY DEF Broadcast, Up
<1>2. \A t \in Node : t < Cardinality(Node)
  BY ClusterAssumption, NodeAssumption, FS_CardinalityType
<1>3. /\ core' \in [Node -> Core]
      /\ \A t \in Node :
           /\ core'[t].state = core[t].state /\ core'[t].halted = core[t].halted
           /\ core'[t].kv = core[t].kv /\ core'[t].heardBefore = core[t].heardBefore
           /\ t = n \/ ~Plays(t) => core'[t] = core[t]
           /\ t # n /\ Plays(t) =>
                /\ core'[t].heard = core[t].heard \cup {t, n}
                /\ \A j \in Node : core'[t].matrix[j] =
                     IF j \in core'[t].heard THEN core[j].kv ELSE {}
  BY <1>1, <1>2, Delivery
<1>4. Typing'
  BY <1>1, <1>3 DEF RoundInv, Typing
<1>5. InStep' /\ NobodyMissed' /\ DownAreDead' /\ VectorsLackTheDown'
  BY <1>1, <1>3 DEF RoundInv, InStep, Expected, NobodyMissed, DownAreDead, Settled,
                    VectorsLackTheDown
<1>6. HeardInWindow'
  <2> SUFFICES ASSUME NEW a \in Node, Plays(a)
               PROVE  /\ core'[a].heard \cap down = {}
                      /\ sent' \subseteq core'[a].heard \cup {a}
                      /\ core'[a].heardBefore = core'[a].kv
                      /\ \A j \in Node : core'[a].matrix[j] =
                                           IF j \in core'[a].heard THEN core'[j].kv ELSE {}
    BY <1>1, <1>3 DEF HeardInWindow, Plays
  <2>1. /\ core[a].heard \cap down = {}
        /\ sent \subseteq core[a].heard \cup {a}
        /\ core[a].heardBefore = core[a].kv
        /\ \A j \in Node : core[a].matrix[j] = IF j \in core[a].heard THEN core[j].kv ELSE {}
    BY DEF RoundInv, HeardInWindow
  <2>2. a \notin down /\ n \notin down
    BY <1>1 DEF Plays, RoundInv, Typing, Up
  <2> QED  BY <2>1, <2>2, <1>1, <1>3
<1> QED  BY <1>4, <1>5, <1>6 DEF RoundInv

LEMMA CrashKeeps ==
  ASSUME RoundInv, DownAreDead, NEW n \in Node, Crash(n)
  PROVE  RoundInv' /\ DownAreDead'
<1>1. /\ n \in Up /\ crashed' = crashed \cup {n} /\ sent' = sent /\ down' = down
      /\ phase' = phase /\ round' = round /\ Up' = Up \ {n} /\ Up \subseteq Node
  BY DEF Crash, Up
<1>2. CASE phase = "lit" /\ n \notin sent
  <2>1. PICK to \in 0 .. Cardinality(Node) : FramesReach(n, to)
    BY <1>2 DEF Crash
  <2>2. /\ core' \in [Node -> Core]
        /\ \A t \in Node :
             /\ core'[t].state = core[t].state /\ core'[t].halted = core[t].halted
             /\ core'[t].kv = core[t].kv /\ core'[t].heardBefore = core[t].heardBefore
             /\ ~(t < to /\ t # n) \/ ~Plays(t) => core'[t] = core[t]
             /\ t < to /\ t # n /\ Plays(t) =>
                  /\ core'[t].heard = core[t].heard \cup {t, n}
                  /\ \A j \in Node : core'[t].matrix[j] =
                       IF j \in core'[t].heard THEN core[j].kv ELSE {}
    BY <1>1, <1>2, <2>1, Delivery
  <2>3. Typing'
    BY <1>1, <2>2 DEF RoundInv, Typing
  <2>4. InStep' /\ NobodyMissed' /\ DownAreDead' /\ VectorsLackTheDown'
    BY <1>1, <1>2, <2>2 DEF RoundInv, InStep, Expected, NobodyMissed, DownAreDead, Settled,
                            VectorsLackTheDown
  <2>5. HeardInWindow'
    <3> SUFFICES ASSUME NEW a \in Node, Plays(a)
                 PROVE  /\ core'[a].heard \cap down = {}
                        /\ sent \subseteq core'[a].heard \cup {a}
                        /\ core'[a].heardBefore = core'[a].kv
                        /\ \A j \in Node : core'[a].matrix[j] =
                                             IF j \in core'[a].heard THEN core'[j].kv ELSE {}
      BY <1>1, <1>2, <2>2 DEF HeardInWindow, Plays
    <3>1. /\ core[a].heard \cap down = {}
          /\ sent \subseteq core[a].heard \cup {a}
          /\ core[a].heardBefore = core[a].kv
          /\ \A j \in Node : core[a].matrix[j] = IF j \in core[a].heard THEN core[j].kv ELSE {}
      BY DEF RoundInv, HeardInWindow
    <3>2. a \notin down /\ n \notin down
      BY <1>1 DEF Plays, RoundInv, Typing, Up
    <3> QED  BY <3>1, <3>2, <1>1, <2>2
  <2> QED  BY <2>3, <2>4, <2>5 DEF RoundInv
<1>3. CASE ~(phase = "lit" /\ n \notin sent)
  <2>1. core' = core
    BY <1>3 DEF Crash
  <2>2. Typing' /\ InStep' /\ NobodyMissed' /\ DownAreDead' /\ VectorsLackTheDown'
    BY <1>1, <2>1 DEF RoundInv, Typing, InStep, Expected, NobodyMissed, DownAreDead, Settled,
                      VectorsLackTheDown
  <2>3. HeardInWindow'
    BY <1>1, <2>1 DEF RoundInv, HeardInWindow, Plays
  <2> QED  BY <2>2, <2>3 DEF RoundInv
<1> QED  BY <1>2, <1>3

\* The edge that closes a window: each that plays has heard all that are up, and itself.
LEMMA CloseCores ==
  ASSUME RoundInv, WindowCloses
  PROVE  /\ phase = "lit" /\ phase' = "detect" /\ sent' = sent /\ down' = down
         /\ crashed' = crashed /\ Up' = Up /\ round' = round
         /\ core' \in [Node -> Core]
         /\ \A a \in Node :
              /\ ~Plays(a) => core'[a] = core[a]
              /\ Plays(a) =>
                   /\ core'[a].state = "detect" /\ ~core[a].halted /\ ~core'[a].halted
                   /\ core'[a].alive = core[a].alive
                   /\ core'[a].heardBefore = core'[a].kv /\ core'[a].valid = core[a].valid
                   /\ core'[a].heard = core[a].heard \cup {a} /\ Up \subseteq core'[a].heard
                   /\ \A j \in Node : core'[a].matrix[j] =
                        IF j \in core'[a].heard THEN core[j].kv ELSE {}
         /\ \A a \in Node : core'[a].kv = core[a].kv
<1>1. /\ phase = "lit" /\ phase' = "detect" /\ sent' = sent /\ down' = down
      /\ crashed' = crashed /\ Up' = Up /\ round' = round
      /\ Up \subseteq sent /\ AllEdge(FALSE, TRUE) /\ Up \subseteq Node
  BY DEF WindowCloses, Up
<1>2. /\ core' = [a \in Node |-> core'[a]]
      /\ \A a \in Node : /\ a \in Up => core'[a] = Closed(a, core[a])
                         /\ a \notin Up => core'[a] = core[a]
  BY <1>1 DEF AllEdge, Closed
<1>3. \A a \in Node : core[a] \in Core
  BY DEF RoundInv, Typing
<1>4. ASSUME NEW a \in Node, ~Plays(a)
      PROVE  core'[a] = core[a]
  BY <1>2, <1>3, <1>4, IdleEdge DEF Plays, Closed
<1>5. ASSUME NEW a \in Node, Plays(a)
      PROVE  /\ core'[a] \in Core
             /\ core'[a].state = "detect" /\ ~core[a].halted /\ ~core'[a].halted
             /\ core'[a].alive = core[a].alive
             /\ core'[a].heardBefore = core'[a].kv /\ core'[a].valid = core[a].valid
             /\ core'[a].heard = core[a].heard \cup {a} /\ Up \subseteq core'[a].heard
             /\ core'[a].kv = core[a].kv
             /\ \A j \in Node : core'[a].matrix[j] =
                  IF j \in core'[a].heard THEN core[j].kv ELSE {}
  <2> DEFINE c == core[a]
             d == core'[a]
  <2>1. a \in Up /\ c.state = "collect" /\ ~c.halted /\ c \in Core /\ d = Closed(a, c)
    BY <1>1, <1>2, <1>3, <1>5 DEF Plays, RoundInv, InStep, Expected
  <2>2. /\ sent \subseteq c.heard \cup {a} /\ c.heardBefore = c.kv
        /\ \A j \in Node : c.matrix[j] = IF j \in c.heard THEN core[j].kv ELSE {}
    BY <1>5 DEF RoundInv, HeardInWindow
  <2>3. c.kv = core[a].kv
    OBVIOUS
  <2> HIDE DEF c, d
  <2>4. /\ d \in Core
        /\ d.state = "detect" /\ ~d.halted /\ d.alive = c.alive
        /\ d.heardBefore = c.heardBefore /\ d.kv = c.kv /\ d.valid = c.valid
        /\ d.heard = c.heard \cup {a}
        /\ \A j \in Node : d.matrix[j] = IF j = a THEN c.heardBefore ELSE c.matrix[j]
    BY <2>1, CloseEdge
  <2>5. \A j \in Node : d.matrix[j] = IF j \in d.heard THEN core[j].kv ELSE {}
    BY <2>2, <2>3, <2>4
  <2>6. Up \subseteq d.heard
    BY <1>1, <2>2, <2>4
  <2> QED  BY <2>1, <2>2, <2>4, <2>5, <2>6 DEF c, d
<1>6. core' \in [Node -> Core]
  BY <1>2, <1>3, <1>4, <1>5
<1> QED  BY <1>1, <1>4, <1>5, <1>6

LEMMA CloseKeeps ==
  ASSUME RoundInv, WindowCloses
  PROVE  RoundInv' /\ DownAreDead'
<1>1. /\ phase = "lit" /\ phase' = "detect" /\ sent' = sent /\ down' = down
      /\ crashed' = crashed /\ Up' = Up /\ round' = round
      /\ core' \in [Node -> Core]
      /\ \A a \in Node :
           /\ ~Plays(a) => core'[a] = core[a]
           /\ Plays(a) =>
                /\ core'[a].state = "detect" /\ ~core'[a].halted
                /\ core'[a].heardBefore = core'[a].kv
                /\ core'[a].heard = core[a].heard \cup {a} /\ Up \subseteq core'[a].heard
                /\ \A j \in Node : core'[a].matrix[j] =
                     IF j \in core'[a].heard THEN core[j].kv ELSE {}
      /\ \A a \in Node : core'[a].kv = core[a].kv
  BY CloseCores
<1>2. Typing'
  BY <1>1 DEF RoundInv, Typing
<1>3. InStep' /\ NobodyMissed' /\ DownAreDead' /\ VectorsLackTheDown'
  BY <1>1 DEF RoundInv, InStep, Expected, Plays, Up, NobodyMissed, DownAreDead, Settled,
              VectorsLackTheDown
<1>4. HeardInWindow'
  <2> SUFFICES ASSUME NEW a \in Node, Plays(a)
               PROVE  /\ core'[a].heard \cap down = {}
                      /\ sent \subseteq core'[a].heard \cup {a}
                      /\ Up \subseteq core'[a].heard
                      /\ core'[a].heardBefore = core'[a].kv
                      /\ \A j \in Node : core'[a].matrix[j] =
                                           IF j \in core'[a].heard THEN core'[j].kv ELSE {}
    BY <1>1 DEF HeardInWindow, Plays
  <2>1. core[a].heard \cap down = {} /\ sent \subseteq core[a].heard \cup {a}
    BY DEF RoundInv, HeardInWindow
  <2>2. a \notin down
    BY DEF Plays, RoundInv, Typing, Up
  <2> QED  BY <2>1, <2>2, <1>1
<1> QED  BY <1>2, <1>3, <1>4 DEF RoundInv

\* The edge of the verdict: who plays halts or keeps its survivors.
LEMMA DetectCores ==
  ASSUME RoundInv, EdgeAfter("detect", "commit")
  PROVE  /\ phase = "detect" /\ phase' = "commit" /\ sent' = sent /\ down' = down
         /\ crashed' = crashed /\ Up' = Up /\ round' = round
         /\ core' \in [Node -> Core]
         /\ \A a \in Node :
              /\ ~Plays(a) => core'[a] = core[a] /\ (a \in Up => core[a].halted)
              /\ Plays(a) =>
                   /\ core'[a].state = "commit" /\ ~core[a].halted
                   /\ core'[a].heard = core[a].heard /\ core'[a].matrix = core[a].matrix
                   /\ core'[a].heardBefore = core[a].heardBefore
                   /\ MustHalt(a, core[a]) => core'[a].halted /\ core'[a].alive = core[a].alive
                   /\ ~MustHalt(a, core[a]) =>
                        ~core'[a].halted /\ core'[a].alive = Survivors(core[a])
         /\ \A a \in Node : core'[a].kv = core[a].kv
<1>1. /\ phase = "detect" /\ phase' = "commit" /\ sent' = sent /\ down' = down
      /\ crashed' = crashed /\ Up' = Up /\ round' = round
      /\ AllEdge(FALSE, FALSE) /\ Up \subseteq Node
  BY DEF EdgeAfter, Up
<1>2. /\ core' = [a \in Node |-> core'[a]]
      /\ \A a \in Node : /\ a \in Up => core'[a] = Stepped(a, core[a])
                         /\ a \notin Up => core'[a] = core[a]
  BY <1>1 DEF AllEdge, Stepped
<1>3. \A a \in Node : core[a] \in Core
  BY DEF RoundInv, Typing
<1>4. ASSUME NEW a \in Node, ~Plays(a)
      PROVE  core'[a] = core[a] /\ (a \in Up => core[a].halted)
  <2>1. core'[a] = core[a]
    BY <1>2, <1>3, <1>4, IdleEdge DEF Plays, Stepped
  <2>2. a \in Up => core[a].halted
    BY <1>1, <1>4 DEF Plays, RoundInv, InStep, Expected
  <2> QED  BY <2>1, <2>2
<1>5. ASSUME NEW a \in Node, Plays(a)
      PROVE  /\ core'[a] \in Core
             /\ core'[a].state = "commit" /\ ~core[a].halted
             /\ core'[a].heard = core[a].heard /\ core'[a].matrix = core[a].matrix
             /\ core'[a].heardBefore = core[a].heardBefore
             /\ MustHalt(a, core[a]) => core'[a].halted /\ core'[a].alive = core[a].alive
             /\ ~MustHalt(a, core[a]) =>
                  ~core'[a].halted /\ core'[a].alive = Survivors(core[a])
             /\ core'[a].kv = core[a].kv
  <2> DEFINE c == core[a]
             d == core'[a]
  <2>1. c.state = "detect" /\ ~c.halted /\ c \in Core /\ d = Stepped(a, c)
    BY <1>1, <1>2, <1>3, <1>5 DEF Plays, RoundInv, InStep, Expected
  <2> HIDE DEF c, d
  <2>2. /\ d \in Core
        /\ d.state = "commit"
        /\ d.heard = c.heard /\ d.heardBefore = c.heardBefore /\ d.kv = c.kv
        /\ d.matrix = c.matrix
        /\ MustHalt(a, c) => d.halted /\ d.alive = c.alive
        /\ ~MustHalt(a, c) => ~d.halted /\ d.alive = Survivors(c)
    BY <2>1, DetectEdge
  <2> QED  BY <2>1, <2>2 DEF c, d
<1>6. core' \in [Node -> Core]
  BY <1>2, <1>3, <1>4, <1>5
<1> QED  BY <1>1, <1>4, <1>5, <1>6

LEMMA DetectKeeps ==
  ASSUME RoundInv, EdgeAfter("detect", "commit")
  PROVE  RoundInv' /\ DownAreDead'
<1>1. /\ phase = "detect" /\ phase' = "commit" /\ sent' = sent /\ down' = down
      /\ crashed' = crashed /\ Up' = Up /\ round' = round
      /\ core' \in [Node -> Core]
      /\ \A a \in Node :
           /\ ~Plays(a) => core'[a] = core[a] /\ (a \in Up => core[a].halted)
           /\ Plays(a) =>
                /\ core'[a].state = "commit"
                /\ core'[a].heard = core[a].heard /\ core'[a].matrix = core[a].matrix
                /\ core'[a].heardBefore = core[a].heardBefore
                /\ MustHalt(a, core[a]) => core'[a].halted
                /\ ~MustHalt(a, core[a]) => core'[a].alive = Survivors(core[a])
      /\ \A a \in Node : core'[a].kv = core[a].kv
  BY DetectCores
<1>2. Typing'
  BY <1>1 DEF RoundInv, Typing
<1>3. InStep' /\ NobodyMissed' /\ VectorsLackTheDown'
  BY <1>1 DEF RoundInv, InStep, Expected, Plays, Up, NobodyMissed, VectorsLackTheDown
<1>4. HeardInWindow'
  BY <1>1 DEF RoundInv, HeardInWindow, Plays
<1>5. DownAreDead'
  <2> SUFFICES ASSUME NEW a \in Up, ~core'[a].halted
               PROVE  core'[a].alive \cap down = {}
    BY <1>1 DEF DownAreDead
  <2>1. a \in Node
    BY DEF Up
  <2>2. Plays(a) /\ core'[a].alive = Survivors(core[a])
    BY <1>1, <2>1
  <2>3. Survivors(core[a]) \subseteq core[a].heard
    BY DEF Survivors
  <2>4. core[a].heard \cap down = {}
    BY <2>1, <2>2 DEF RoundInv, HeardInWindow
  <2> QED  BY <2>2, <2>3, <2>4
<1> QED  BY <1>2, <1>3, <1>4, <1>5 DEF RoundInv

\* The edge of the commit ends the round.
LEMMA CommitCores ==
  ASSUME RoundInv, EdgeAfter("commit", "dark")
  PROVE  /\ phase = "commit" /\ phase' = "dark" /\ sent' = sent /\ down' = down
         /\ crashed' = crashed /\ Up' = Up /\ round' = round
         /\ core' \in [Node -> Core]
         /\ \A a \in Node :
              /\ ~Plays(a) => core'[a] = core[a] /\ (a \in Up => core[a].halted)
              /\ Plays(a) =>
                   /\ core'[a].state = "idle" /\ core'[a].valid = Reached(core[a])
                   /\ core'[a].alive = core[a].alive /\ Up \subseteq core'[a].heard
              /\ core'[a].halted = core[a].halted
              /\ core'[a].heard = core[a].heard /\ core'[a].kv = core[a].kv
<1>1. /\ phase = "commit" /\ phase' = "dark" /\ sent' = sent /\ down' = down
      /\ crashed' = crashed /\ Up' = Up /\ round' = round
      /\ AllEdge(FALSE, FALSE) /\ Up \subseteq Node
  BY DEF EdgeAfter, Up
<1>2. /\ core' = [a \in Node |-> core'[a]]
      /\ \A a \in Node : /\ a \in Up => core'[a] = Stepped(a, core[a])
                         /\ a \notin Up => core'[a] = core[a]
  BY <1>1 DEF AllEdge, Stepped
<1>3. \A a \in Node : core[a] \in Core
  BY DEF RoundInv, Typing
<1>4. ASSUME NEW a \in Node, ~Plays(a)
      PROVE  core'[a] = core[a] /\ (a \in Up => core[a].halted)
  <2>1. core'[a] = core[a]
    BY <1>2, <1>3, <1>4, IdleEdge DEF Plays, Stepped
  <2>2. a \in Up => core[a].halted
    BY <1>1, <1>4 DEF Plays, RoundInv, InStep, Expected
  <2> QED  BY <2>1, <2>2
<1>5. ASSUME NEW a \in Node, Plays(a)
      PROVE  /\ core'[a] \in Core
             /\ core'[a].state = "idle" /\ core'[a].valid = Reached(core[a])
             /\ core'[a].alive = core[a].alive /\ Up \subseteq core'[a].heard
             /\ core'[a].halted = core[a].halted
             /\ core'[a].heard = core[a].heard /\ core'[a].kv = core[a].kv
  <2> DEFINE c == core[a]
             d == core'[a]
  <2>1. c.state = "commit" /\ c \in Core /\ d = Stepped(a, c) /\ Up \subseteq c.heard
    BY <1>1, <1>2, <1>3, <1>5 DEF Plays, RoundInv, InStep, Expected, HeardInWindow
  <2> HIDE DEF c, d
  <2>2. /\ d \in Core
        /\ d.state = "idle" /\ d.halted = c.halted /\ d.alive = c.alive
        /\ d.heard = c.heard /\ d.kv = c.kv /\ d.valid = Reached(c)
    BY <2>1, CommitEdge
  <2> QED  BY <2>1, <2>2 DEF c, d
<1>6. core' \in [Node -> Core]
  BY <1>2, <1>3, <1>4, <1>5
<1> QED  BY <1>1, <1>4, <1>5, <1>6

LEMMA CommitKeeps ==
  ASSUME RoundInv, DownAreDead, EdgeAfter("commit", "dark")
  PROVE  RoundInv' /\ DownAreDead'
<1>1. /\ phase = "commit" /\ phase' = "dark" /\ sent' = sent /\ down' = down
      /\ crashed' = crashed /\ Up' = Up /\ round' = round
      /\ core' \in [Node -> Core]
      /\ \A a \in Node :
           /\ ~Plays(a) => core'[a] = core[a] /\ (a \in Up => core[a].halted)
           /\ Plays(a) =>
                /\ core'[a].state = "idle"
                /\ core'[a].alive = core[a].alive /\ Up \subseteq core'[a].heard
           /\ core'[a].halted = core[a].halted
           /\ core'[a].heard = core[a].heard /\ core'[a].kv = core[a].kv
  BY CommitCores
<1>2. Typing'
  BY <1>1 DEF RoundInv, Typing
<1>3. \A a \in Up : core'[a].state = "idle"
  BY <1>1 DEF Plays, Up
<1>4. InStep' /\ HeardInWindow' /\ VectorsLackTheDown'
  BY <1>1, <1>3 DEF RoundInv, InStep, Expected, HeardInWindow, Plays, VectorsLackTheDown
<1>5. NobodyMissed'
  BY <1>1 DEF NobodyMissed, Up
<1>6. DownAreDead'
  BY <1>1 DEF DownAreDead, Settled, Plays, Up
<1> QED  BY <1>2, <1>4, <1>5, <1>6 DEF RoundInv

LEMMA ClearCores ==
  ASSUME RoundInv, NEW n \in Node, ClearHalt(n)
  PROVE  /\ phase = "dark" /\ phase' = "dark" /\ sent' = sent /\ down' = down
         /\ crashed' = crashed /\ Up' = Up /\ round' = round
         /\ n \in Up /\ core[n].halted
         /\ core' \in [Node -> Core] /\ core'[n] = InitialCore
         /\ InitialCore.state = "idle" /\ ~InitialCore.halted /\ InitialCore.alive = Node
         /\ InitialCore.heard = Node /\ InitialCore.kv = Node
         /\ \A a \in Node \ {n} : core'[a] = core[a]
<1>1. InitialCore.state = "idle" /\ ~InitialCore.halted /\ InitialCore.alive = Node
      /\ InitialCore.heard = Node /\ InitialCore.kv = Node
  BY DEF InitialCore
<1> QED  BY <1>1, InitialTyping DEF ClearHalt, RoundInv, Typing, Up

LEMMA ClearKeeps ==
  ASSUME RoundInv, DownAreDead, NEW n \in Node, ClearHalt(n)
  PROVE  RoundInv' /\ DownAreDead'
<1>1. /\ phase = "dark" /\ phase' = "dark" /\ sent' = sent /\ down' = down
      /\ crashed' = crashed /\ Up' = Up /\ round' = round
      /\ n \in Up /\ core' \in [Node -> Core] /\ core'[n] = InitialCore
      /\ InitialCore.state = "idle" /\ ~InitialCore.halted
      /\ InitialCore.heard = Node /\ InitialCore.kv = Node
      /\ \A a \in Node \ {n} : core'[a] = core[a]
  BY ClearCores
<1>2. Typing'
  BY <1>1 DEF RoundInv, Typing
<1>3. \A a \in Up : core'[a].state = "idle"
  BY <1>1 DEF RoundInv, InStep, Expected, Up
<1>4. InStep' /\ HeardInWindow' /\ VectorsLackTheDown' /\ NobodyMissed'
  BY <1>1, <1>3 DEF RoundInv, InStep, Expected, HeardInWindow, Plays, VectorsLackTheDown,
                    NobodyMissed, Up
<1>5. DownAreDead'
  BY <1>1 DEF DownAreDead, Settled, Up
<1> QED  BY <1>2, <1>4, <1>5 DEF RoundInv

LEMMA RoundInvHolds == Spec => [](RoundInv /\ DownAreDead)
<1>1. RoundInv /\ DownAreDead /\ [Next]_vars => RoundInv' /\ DownAreDead'
  <2> SUFFICES ASSUME RoundInv, DownAreDead, [Next]_vars PROVE RoundInv' /\ DownAreDead'
    OBVIOUS
  <2>1. CASE WindowOpens
    BY <2>1, OpenKeeps
  <2>2. CASE \E n \in Node : Broadcast(n)
    BY <2>2, BroadcastKeeps
  <2>3. CASE \E n \in Node : Crash(n)
    BY <2>3, CrashKeeps
  <2>4. CASE \E n \in Node : ClearHalt(n)
    BY <2>4, ClearKeeps
  <2>5. CASE WindowCloses
    BY <2>5, CloseKeeps
  <2>6. CASE EdgeAfter("detect", "commit")
    BY <2>6, DetectKeeps
  <2>7. CASE EdgeAfter("commit", "dark")
    BY <2>7, CommitKeeps
  <2>8. CASE UNCHANGED vars
    BY <2>8 DEF vars, RoundInv, Typing, InStep, Expected, HeardInWindow, Plays, NobodyMissed,
                VectorsLackTheDown, DownAreDead, Settled, Up
  <2> QED  BY <2>1, <2>2, <2>3, <2>4, <2>5, <2>6, <2>7, <2>8 DEF Next
<1> QED  BY <1>1, InitRound, PTL DEF Spec

\* A replica that was down for a whole window is dead to all that go on
\* (consensus_core.v:261), however many there are and whoever else crashes.
THEOREM DownIsDetected == Spec => []CrashesAreDetected
<1>1. DownAreDead => CrashesAreDetected
  BY DEF DownAreDead, CrashesAreDetected, Correct
<1> QED  BY <1>1, RoundInvHolds, PTL

-------------------------------------------------------------------------------
(* Clusters in which whoever misses a log that has a quorum is its owner.  *)

LEMMA Counting ==
  /\ Cardinality(Node) \in Nat /\ Quorum \in Nat /\ Cardinality(Node) < 2 * Quorum
  /\ 2 * Quorum <= Cardinality(Node) + 2
  /\ \A S \in SUBSET Node : IsFiniteSet(S) /\ Cardinality(S) \in Nat
<1>1. IsFiniteSet(Node)
  BY NodeAssumption
<1>2. Cardinality(Node) \in Nat
  BY <1>1, FS_CardinalityType
<1>3. \A n \in Nat : /\ (n \div 2) + 1 \in Nat /\ n < 2 * ((n \div 2) + 1)
                     /\ 2 * ((n \div 2) + 1) <= n + 2
  OBVIOUS
<1>4. Quorum \in Nat /\ Cardinality(Node) < 2 * Quorum /\ 2 * Quorum <= Cardinality(Node) + 2
  BY <1>2, <1>3 DEF Quorum
<1>5. \A S \in SUBSET Node : IsFiniteSet(S) /\ Cardinality(S) \in Nat
  BY <1>1, FS_Subset, FS_CardinalityType
<1> QED  BY <1>2, <1>4, <1>5

\* Then a quorum is all but one.
LEMMA QuorumIsAllButOne == SmallCluster => Cardinality(Node) <= Quorum + 1
<1>1. Cardinality(Node) \in Nat
  BY Counting
<1>2. \A n \in Nat : n <= 4 => n <= (n \div 2) + 1 + 1
  OBVIOUS
<1> QED  BY <1>1, <1>2 DEF SmallCluster, Quorum

\* What a replica has from those it has heard, once the window is closed.
LEMMA Vectors ==
  ASSUME RoundInv, NEW a \in Node, Plays(a)
  PROVE  /\ core[a] \in Core /\ core[a].heard \subseteq Node \ down
         /\ \A j \in core[a].heard : /\ core[a].matrix[j] = core[j].kv
                                     /\ Node \ core[j].kv \subseteq down
         /\ \A j \in Node \ core[a].heard : core[a].matrix[j] = {}
         /\ \A k \in Node : VouchedBy(core[a], k) \subseteq core[a].heard
         /\ \A k \in down : k \in Node /\ k \notin core[a].heard
<1>1. core[a] \in Core /\ core[a].heard \subseteq Node /\ down \subseteq Node
  BY DEF RoundInv, Typing, Core
<1>2. core[a].heard \cap down = {}
  BY DEF RoundInv, HeardInWindow
<1>3. \A j \in Node : core[a].matrix[j] = IF j \in core[a].heard THEN core[j].kv ELSE {}
  BY DEF RoundInv, HeardInWindow
<1>4. \A j \in Node \ down : Node \ core[j].kv \subseteq down
  BY DEF RoundInv, VectorsLackTheDown
<1>5. core[a].alive \subseteq Node
  BY <1>1 DEF Core
<1>6. \A k \in Node : VouchedBy(core[a], k) \subseteq core[a].heard
  BY <1>3, <1>5 DEF VouchedBy
<1> QED  BY <1>1, <1>2, <1>3, <1>4, <1>6

\* Nobody that was heard has missed an agreed log, so all that were heard survive.
LEMMA TheHeardSurvive ==
  ASSUME RoundInv, SmallCluster, NEW a \in Node, Plays(a), Node \ down \subseteq core[a].alive
  PROVE  Survivors(core[a]) = core[a].heard
<1> DEFINE c == core[a]
<1>1. /\ c.heard \subseteq Node \ down
      /\ \A j \in c.heard : c.matrix[j] = core[j].kv /\ Node \ core[j].kv \subseteq down
      /\ \A k \in Node : VouchedBy(c, k) \subseteq c.heard
      /\ \A k \in down : k \notin c.heard
  BY Vectors
<1>2. ASSUME NEW i \in c.heard, NEW k \in Reached(c), k \notin c.matrix[i]
      PROVE  FALSE
  <2>1. k \in Node /\ Cardinality(VouchedBy(c, k)) >= Quorum
    BY <1>2 DEF Reached
  <2>2. k \in down /\ i \in Node /\ i # k
    BY <1>1, <1>2, <2>1
  <2>3. VouchedBy(c, k) \subseteq (Node \ {i}) \ {k}
    <3>1. i \notin VouchedBy(c, k)
      BY <1>2 DEF VouchedBy
    <3> QED  BY <3>1, <1>1, <2>1, <2>2
  <2>4. /\ IsFiniteSet(Node \ {i}) /\ Cardinality(Node \ {i}) = Cardinality(Node) - 1
        /\ IsFiniteSet((Node \ {i}) \ {k})
        /\ Cardinality((Node \ {i}) \ {k}) = Cardinality(Node \ {i}) - 1
    <3>1. IsFiniteSet(Node)
      BY NodeAssumption
    <3>2. IsFiniteSet(Node \ {i}) /\ Cardinality(Node \ {i}) = Cardinality(Node) - 1
      BY <3>1, <2>2, FS_RemoveElement
    <3>3. k \in Node \ {i}
      BY <2>1, <2>2
    <3>4. /\ IsFiniteSet((Node \ {i}) \ {k})
          /\ Cardinality((Node \ {i}) \ {k}) = Cardinality(Node \ {i}) - 1
      BY <3>2, <3>3, FS_RemoveElement
    <3> QED  BY <3>2, <3>4
  <2>5. Cardinality(VouchedBy(c, k)) <= Cardinality((Node \ {i}) \ {k})
    BY <2>3, <2>4, FS_Subset
  <2>6. Cardinality(VouchedBy(c, k)) \in Nat
    BY <2>3, Counting
  <2> QED  BY <2>1, <2>4, <2>5, <2>6, Counting, QuorumIsAllButOne
<1>3. c.heard \subseteq c.alive
  BY <1>1
<1> HIDE DEF c
<1>4. c.heard \subseteq Survivors(c)
  BY <1>2, <1>3 DEF Survivors
<1>5. Survivors(c) \subseteq c.heard
  BY DEF Survivors
<1> QED  BY <1>4, <1>5 DEF c

\* Two replicas that commit have reached the same verdict on every log.
LEMMA SameVerdicts ==
  ASSUME RoundInv, SmallCluster, NEW a \in Node, NEW b \in Node, Plays(a), Plays(b),
         core[a].alive = core[a].heard, Cardinality(core[a].heard) >= Quorum,
         core[b].alive = core[b].heard, Cardinality(core[b].heard) >= Quorum
  PROVE  Reached(core[a]) \subseteq Reached(core[b])
<1> DEFINE ca == core[a]
           cb == core[b]
<1>1. /\ ca.heard \subseteq Node \ down
      /\ \A j \in ca.heard : ca.matrix[j] = core[j].kv
      /\ \A k \in Node : VouchedBy(ca, k) \subseteq ca.heard
      /\ \A k \in down : k \in Node /\ k \notin ca.heard
  BY Vectors
<1>2. /\ cb.heard \subseteq Node \ down
      /\ \A j \in cb.heard : cb.matrix[j] = core[j].kv /\ Node \ core[j].kv \subseteq down
      /\ \A k \in Node : VouchedBy(cb, k) \subseteq cb.heard
      /\ \A k \in down : k \notin cb.heard
  BY Vectors
<1>3. /\ ca.alive = ca.heard /\ Cardinality(ca.heard) >= Quorum
      /\ cb.alive = cb.heard /\ Cardinality(cb.heard) >= Quorum
  OBVIOUS
<1> HIDE DEF ca, cb
<1>4. SUFFICES ASSUME NEW k \in Reached(ca) PROVE k \in Reached(cb)
  BY DEF ca, cb
<1>5. k \in Node /\ Cardinality(VouchedBy(ca, k)) >= Quorum
  BY DEF Reached
<1>6. SUFFICES Cardinality(VouchedBy(cb, k)) >= Quorum
  BY <1>5 DEF Reached
<1>7. CASE k \notin down
  <2>1. VouchedBy(cb, k) = cb.heard
    BY <1>2, <1>3, <1>5, <1>7 DEF VouchedBy
  <2> QED  BY <2>1, <1>3
<1>8. CASE k \in down
  <2> DEFINE Others == Node \ {k}
  <2>1. IsFiniteSet(Others) /\ Cardinality(Others) = Cardinality(Node) - 1
    BY NodeAssumption, <1>5, FS_RemoveElement
  <2>2. VouchedBy(ca, k) \in SUBSET Others /\ cb.heard \in SUBSET Others
    BY <1>1, <1>2, <1>5, <1>8
  <2>3. ASSUME NEW S \in SUBSET Others, Cardinality(S) >= Quorum PROVE S = Others
    <3>1. /\ Cardinality(S) <= Cardinality(Others)
          /\ Cardinality(Others) = Cardinality(S) => S = Others
      BY <2>1, FS_Subset
    <3>2. Cardinality(S) \in Nat
      BY Counting
    <3> QED  BY <3>1, <3>2, <2>1, <2>3, Counting, QuorumIsAllButOne
  <2>4. VouchedBy(ca, k) = Others /\ cb.heard = Others
    BY <2>2, <2>3, <1>3, <1>5
  <2>5. Others \subseteq VouchedBy(cb, k)
    <3> SUFFICES ASSUME NEW j \in Others PROVE j \in VouchedBy(cb, k)
      OBVIOUS
    <3>1. j \in ca.heard /\ k \in ca.matrix[j]
      BY <2>4, <1>1, <1>5 DEF VouchedBy
    <3>2. j \in cb.heard /\ k \in cb.matrix[j]
      BY <3>1, <2>4, <1>1, <1>2
    <3> QED  BY <3>2, <1>3 DEF VouchedBy
  <2>6. VouchedBy(cb, k) = VouchedBy(ca, k)
    BY <2>4, <2>5, <2>2, <1>2, <1>5
  <2> QED  BY <2>6, <1>5
<1> QED  BY <1>7, <1>8

LEMMA InitSmall == Init => SmallInv
<1> SUFFICES ASSUME Init PROVE SmallInv
  OBVIOUS
<1>1. /\ \A n \in Node : core[n].alive = Node
      /\ phase = "dark" /\ round = 0 /\ Up \subseteq Node
  BY DEF Init, InitialCore, Up
<1>2. AllUpAreAlive /\ ReplicasAgree
  BY <1>1 DEF AllUpAreAlive, ReplicasAgree, Settled
<1> QED  BY <1>2, InitRound DEF SmallInv

\* A crash changes only what others have heard, and that while a window is lit.
LEMMA CrashCores ==
  ASSUME RoundInv, NEW n \in Node, Crash(n)
  PROVE  /\ n \in Up /\ crashed' = crashed \cup {n} /\ sent' = sent /\ down' = down
         /\ phase' = phase /\ round' = round /\ Up' = Up \ {n}
         /\ phase # "lit" => core' = core
         /\ \A t \in Node : core'[t].alive = core[t].alive /\ core'[t].halted = core[t].halted
                            /\ core'[t].kv = core[t].kv
<1>1. /\ n \in Up /\ crashed' = crashed \cup {n} /\ sent' = sent /\ down' = down
      /\ phase' = phase /\ round' = round /\ Up' = Up \ {n}
  BY DEF Crash, Up
<1>2. CASE phase = "lit" /\ n \notin sent
  <2>1. PICK to \in 0 .. Cardinality(Node) : FramesReach(n, to)
    BY <1>2 DEF Crash
  <2>2. \A t \in Node : core'[t].alive = core[t].alive /\ core'[t].halted = core[t].halted
                        /\ core'[t].kv = core[t].kv
    BY <1>1, <1>2, <2>1, Delivery
  <2> QED  BY <1>1, <1>2, <2>2
<1>3. CASE ~(phase = "lit" /\ n \notin sent)
  BY <1>1, <1>3 DEF Crash
<1> QED  BY <1>2, <1>3

LEMMA DetectKeepsAlive ==
  ASSUME SmallInv, SmallCluster, EdgeAfter("detect", "commit")
  PROVE  AllUpAreAlive'
<1>1. /\ phase = "detect" /\ phase' = "commit" /\ down' = down /\ Up' = Up
      /\ \A a \in Node :
           /\ ~Plays(a) => core'[a] = core[a] /\ (a \in Up => core[a].halted)
           /\ Plays(a) =>
                /\ ~core[a].halted
                /\ core'[a].heard = core[a].heard
                /\ MustHalt(a, core[a]) => core'[a].halted
                /\ ~MustHalt(a, core[a]) => core'[a].alive = Survivors(core[a])
  BY DetectCores DEF SmallInv
<1>2. SUFFICES ASSUME NEW a \in Up, ~core'[a].halted
               PROVE  /\ core'[a].alive = core'[a].heard /\ Up \subseteq core'[a].alive
                      /\ Cardinality(core'[a].heard) >= Quorum
  BY <1>1 DEF AllUpAreAlive
<1>3. a \in Node /\ Plays(a) /\ ~core[a].halted /\ ~MustHalt(a, core[a])
  BY <1>1, <1>2 DEF Up
<1>4. Node \ down \subseteq core[a].alive
  BY <1>1, <1>3 DEF SmallInv, AllUpAreAlive
<1>5. core'[a].alive = core[a].heard /\ core'[a].heard = core[a].heard
  BY <1>1, <1>3, <1>4, TheHeardSurvive DEF SmallInv
<1>6. Up \subseteq core[a].heard
  BY <1>1, <1>3 DEF SmallInv, RoundInv, HeardInWindow
<1>7. core[a].heard \in SUBSET Node
  BY <1>3, Vectors DEF SmallInv
<1>8. Cardinality(core[a].heard) \in Nat
  BY <1>7, Counting
<1>9. ~(Cardinality(core[a].heard) < Quorum)
  BY <1>3 DEF MustHalt
<1>10. Cardinality(core[a].heard) >= Quorum
  BY <1>8, <1>9, Counting
<1> QED  BY <1>5, <1>6, <1>10

LEMMA CommitAgrees ==
  ASSUME SmallInv, SmallCluster, EdgeAfter("commit", "dark")
  PROVE  AllUpAreAlive' /\ ReplicasAgree'
<1>1. /\ phase = "commit" /\ phase' = "dark" /\ Up' = Up /\ Up \subseteq Node
      /\ \A a \in Node :
           /\ ~Plays(a) => core'[a] = core[a] /\ (a \in Up => core[a].halted)
           /\ Plays(a) => core'[a].valid = Reached(core[a]) /\ core'[a].alive = core[a].alive
           /\ core'[a].halted = core[a].halted
  BY CommitCores DEF SmallInv, Up
<1>2. AllUpAreAlive'
  BY <1>1 DEF SmallInv, AllUpAreAlive, Up
<1>3. ReplicasAgree'
  <2> SUFFICES ASSUME NEW a \in Up, NEW b \in Up, ~core'[a].halted, ~core'[b].halted
               PROVE  core'[a].valid = core'[b].valid
    BY <1>1 DEF ReplicasAgree, Correct
  <2>1. a \in Node /\ b \in Node /\ Plays(a) /\ Plays(b) /\ ~core[a].halted /\ ~core[b].halted
    BY <1>1
  <2>2. /\ core[a].alive = core[a].heard /\ Cardinality(core[a].heard) >= Quorum
        /\ core[b].alive = core[b].heard /\ Cardinality(core[b].heard) >= Quorum
    BY <1>1, <2>1 DEF SmallInv, AllUpAreAlive
  <2>3. Reached(core[a]) = Reached(core[b])
    BY <2>1, <2>2, SameVerdicts DEF SmallInv
  <2> QED  BY <1>1, <2>1, <2>3
<1> QED  BY <1>2, <1>3

LEMMA SmallInvHolds == ASSUME SmallCluster PROVE Spec => []SmallInv
<1>1. SmallInv /\ RoundInv' /\ [Next]_vars => SmallInv'
  <2> SUFFICES ASSUME SmallInv, RoundInv', [Next]_vars PROVE AllUpAreAlive' /\ ReplicasAgree'
    BY DEF SmallInv
  <2>0. RoundInv /\ Up \subseteq Node
    BY DEF SmallInv, Up
  <2>1. CASE WindowOpens
    <3>1. /\ phase = "dark" /\ phase' = "lit" /\ down' = crashed /\ Up' = Up
          /\ \A a \in Up : /\ core[a].halted => core'[a] = core[a]
                           /\ ~core[a].halted => core'[a].alive = core[a].alive
      BY <2>0, <2>1, OpenCores
    <3> QED  BY <3>1 DEF SmallInv, AllUpAreAlive, ReplicasAgree, Settled, Up
  <2>2. CASE \E n \in Node : Broadcast(n)
    <3>1. PICK n \in Node : Broadcast(n)
      BY <2>2
    <3>2. /\ phase = "lit" /\ phase' = "lit" /\ down' = down /\ Up' = Up
          /\ n \in Up /\ FramesReach(n, Cardinality(Node))
      BY <3>1 DEF Broadcast, Up
    <3>3. \A t \in Node : core'[t].alive = core[t].alive /\ core'[t].halted = core[t].halted
      BY <2>0, <3>2, Delivery
    <3> QED  BY <2>0, <3>2, <3>3 DEF SmallInv, AllUpAreAlive, ReplicasAgree, Settled
  <2>3. CASE \E n \in Node : Crash(n)
    <3>1. PICK n \in Node : Crash(n)
      BY <2>3
    <3>2. /\ down' = down /\ phase' = phase /\ round' = round /\ Up' = Up \ {n}
          /\ phase # "lit" => core' = core
          /\ \A t \in Node : core'[t].alive = core[t].alive /\ core'[t].halted = core[t].halted
      BY <2>0, <3>1, CrashCores
    <3>3. AllUpAreAlive'
      BY <2>0, <3>2 DEF SmallInv, AllUpAreAlive
    <3>4. ReplicasAgree'
      BY <3>2 DEF SmallInv, ReplicasAgree, Settled, Correct
    <3> QED  BY <3>3, <3>4
  <2>4. CASE \E n \in Node : ClearHalt(n)
    <3>1. PICK n \in Node : ClearHalt(n)
      BY <2>4
    <3>2. /\ phase = "dark" /\ phase' = "dark" /\ Up' = Up /\ round' = round
          /\ core'[n] = InitialCore /\ InitialCore.alive = Node
          /\ \A a \in Node \ {n} : core'[a] = core[a]
      BY <2>0, <3>1, ClearCores
    <3>3. AllUpAreAlive'
      BY <2>0, <3>2 DEF SmallInv, AllUpAreAlive
    <3>4. ReplicasAgree'
      BY <2>0, <3>2 DEF SmallInv, ReplicasAgree, Settled, Correct
    <3> QED  BY <3>3, <3>4
  <2>5. CASE WindowCloses
    <3>1. /\ phase = "lit" /\ phase' = "detect" /\ down' = down /\ Up' = Up
          /\ \A a \in Node : /\ ~Plays(a) => core'[a] = core[a]
                             /\ Plays(a) => ~core[a].halted /\ core'[a].alive = core[a].alive
      BY <2>0, <2>5, CloseCores
    <3> QED  BY <2>0, <3>1 DEF SmallInv, AllUpAreAlive, ReplicasAgree, Settled
  <2>6. CASE EdgeAfter("detect", "commit")
    <3>1. phase' = "commit"
      BY <2>6 DEF EdgeAfter
    <3> QED  BY <2>6, <3>1, DetectKeepsAlive DEF ReplicasAgree, Settled
  <2>7. CASE EdgeAfter("commit", "dark")
    BY <2>7, CommitAgrees
  <2>8. CASE UNCHANGED vars
    BY <2>8 DEF vars, SmallInv, AllUpAreAlive, ReplicasAgree, Settled, Correct, Up
  <2> QED  BY <2>1, <2>2, <2>3, <2>4, <2>5, <2>6, <2>7, <2>8 DEF Next
<1>2. RoundInv /\ DownAreDead => RoundInv
  OBVIOUS
<1> QED  BY <1>1, <1>2, InitSmall, RoundInvHolds, PTL DEF Spec

\* With at most four replicas those that go on agree after every window on what is
\* committed (consensus_core.v:281), whoever crashes and however often.  Run "fivenodes"
\* shows that five are too many.
THEOREM ReplicasAlwaysAgree == ASSUME SmallCluster PROVE Spec => []ReplicasAgree
<1>1. SmallInv => ReplicasAgree
  BY DEF SmallInv
<1> QED  BY <1>1, SmallInvHolds, PTL

\* With at most four replicas nobody that goes on is taken for dead by another that does:
\* Rule B (consensus_core.v:265) only ever condemns the crashed.
THEOREM NobodyFalselySuspected == ASSUME SmallCluster PROVE Spec => []NoFalseSuspicion
<1>1. SmallInv => NoFalseSuspicion
  BY DEF SmallInv, AllUpAreAlive, NoFalseSuspicion, Settled, Correct
<1> QED  BY <1>1, SmallInvHolds, PTL

-------------------------------------------------------------------------------
(* A minority of crashes.                                                  *)

\* A nonempty set of numbers has a least element.
LEMMA LeastNumber ==
  ASSUME NEW S \in SUBSET Nat, S # {}
  PROVE  \E n \in S : \A m \in S : n <= m
<1>1. IsWellFoundedOn(OpToRel(<, Nat), Nat)
  BY NatLessThanWellFounded
<1>2. PICK n \in S : \A m \in S : ~(<<m, n>> \in OpToRel(<, Nat))
  BY <1>1, WFMin
<1>3. \A m \in S : ~(m < n)
  BY <1>2, Zenon DEF OpToRel
<1> QED  BY <1>3

\* A set that is all, or larger than a quorum, holds two that are up.
LEMMA AnotherIsUp ==
  ASSUME Typing, Minority, Cardinality(Node) >= 2, NEW X \in SUBSET Node,
         X = Node \/ Cardinality(X) > Quorum, NEW a
  PROVE  \E b \in X : b \in Up /\ b # a
<1>1. crashed \in SUBSET Node
  BY DEF Typing
<1>2. Cardinality(crashed) \in Nat /\ IsFiniteSet(crashed) /\ Cardinality(X) \in Nat
  BY <1>1, Counting
<1>3. SUFFICES ASSUME X \subseteq crashed \cup {a} PROVE FALSE
  BY DEF Up
<1>4. /\ IsFiniteSet(crashed \cup {a})
      /\ Cardinality(crashed \cup {a}) <= Cardinality(crashed) + 1
      /\ Cardinality(crashed \cup {a}) \in Nat
  BY <1>2, FS_AddElement
<1>5. Cardinality(X) <= Cardinality(crashed) + 1
  <2>1. Cardinality(X) <= Cardinality(crashed \cup {a})
    BY <1>3, <1>4, FS_Subset
  <2> QED  BY <2>1, <1>2, <1>4
<1> QED  BY <1>2, <1>5, Counting DEF Minority

LEMMA UpIsAQuorum ==
  ASSUME Typing, Minority, NEW X \in SUBSET Node, Up \subseteq X
  PROVE  Cardinality(X) >= Quorum
<1>1. crashed \in SUBSET Node
  BY DEF Typing
<1>2. Cardinality(crashed) \in Nat /\ IsFiniteSet(crashed) /\ Cardinality(X) \in Nat
      /\ IsFiniteSet(X)
  BY <1>1, Counting
<1>3. Node = X \cup crashed
  BY <1>1 DEF Up
<1>4. Cardinality(X \cup crashed) = Cardinality(X) + Cardinality(crashed)
                                    - Cardinality(X \cap crashed)
  BY <1>2, FS_Union
<1>5. Cardinality(X \cap crashed) \in Nat
  BY Counting
<1>6. Cardinality(Node) <= Cardinality(X) + Cardinality(crashed)
  BY <1>2, <1>3, <1>4, <1>5
<1> QED  BY <1>2, <1>6, Counting DEF Minority

\* Of two logs, one is vouched for by all that vouch for the other.
LEMMA VotesAreNested ==
  ASSUME RoundInv, LowerTellMore, NEW a \in Node, Plays(a), NEW k \in Node, NEW m \in Node
  PROVE  \/ VouchedBy(core[a], k) \subseteq VouchedBy(core[a], m)
         \/ VouchedBy(core[a], m) \subseteq VouchedBy(core[a], k)
<1> DEFINE c == core[a]
<1>1. /\ c.heard \subseteq Node \ down
      /\ \A j \in c.heard : c.matrix[j] = core[j].kv
      /\ VouchedBy(c, k) \subseteq c.heard /\ VouchedBy(c, m) \subseteq c.heard
  BY Vectors
<1> HIDE DEF c
<1>2. SUFFICES ASSUME NEW x \in VouchedBy(c, k), x \notin VouchedBy(c, m),
                      NEW y \in VouchedBy(c, m), y \notin VouchedBy(c, k)
               PROVE  FALSE
  BY DEF c
<1>3. /\ x \in c.alive /\ k \in core[x].kv /\ m \notin core[x].kv
      /\ y \in c.alive /\ m \in core[y].kv /\ k \notin core[y].kv
  BY <1>1, <1>2 DEF VouchedBy
<1>4. x \in Nat /\ y \in Nat /\ x \in Node \ down /\ y \in Node \ down
  BY <1>1, <1>2, NodeAssumption
<1>5. CASE x < y
  BY <1>3, <1>4, <1>5 DEF LowerTellMore
<1>6. CASE y < x
  BY <1>3, <1>4, <1>6 DEF LowerTellMore
<1>7. CASE x = y
  BY <1>3, <1>7
<1> QED  BY <1>4, <1>5, <1>6, <1>7

\* The replica that a minority of crashes leaves does not halt.
LEMMA GoesOn ==
  ASSUME RoundInv, MinorityInv, Minority, Cardinality(Node) >= 2, phase = "detect",
         NEW a \in Up
  PROVE  Plays(a) /\ ~MustHalt(a, core[a])
<1> DEFINE c == core[a]
<1>1. a \in Node /\ ~c.halted /\ Typing
  BY DEF Up, RoundInv, MinorityInv, NobodyHalts
<1>2. Plays(a)
  BY <1>1 DEF RoundInv, InStep, Expected, Plays
<1>3. /\ Up \subseteq c.heard /\ c.heard \in SUBSET Node
      /\ \A j \in c.heard : c.matrix[j] = core[j].kv /\ Node \ core[j].kv \subseteq down
  BY <1>1, <1>2, Vectors DEF RoundInv, HeardInWindow
<1>4. Cardinality(c.heard) >= Quorum /\ Cardinality(c.heard) \in Nat
  BY <1>1, <1>3, UpIsAQuorum, Counting
<1>5. PICK b \in Up : b \in c.alive /\ b # a
  <2> DEFINE X == c.alive \cup crashed
  <2>1. X \in SUBSET Node
    BY <1>1, <1>2, Vectors DEF Typing, Core
  <2>2. X = Node \/ Cardinality(X) > Quorum
    BY DEF MinorityInv, EnoughBelieved
  <2>3. \E b \in X : b \in Up /\ b # a
    <3> HIDE DEF X
    <3> QED  BY <1>1, <2>1, <2>2, AnotherIsUp
  <2> QED  BY <2>3 DEF Up
<1>6. b \in c.heard /\ a \in c.matrix[b]
  <2>1. a \notin down
    BY DEF Up, RoundInv, Typing
  <2> QED  BY <2>1, <1>1, <1>3, <1>5
<1>7. ~Blind(a, c) /\ ~Mute(a, c)
  BY <1>5, <1>6 DEF Blind, Mute, VouchedBy
<1> HIDE DEF c
<1>8. ~MustHalt(a, c)
  BY <1>4, <1>7, Counting DEF MustHalt
<1> QED  BY <1>2, <1>8 DEF c

\* Rule B spares a quorum, and hits somebody only if a crashed node besides has one.
LEMMA EnoughSurvive ==
  ASSUME RoundInv, MinorityInv, Minority, phase = "detect", NEW a \in Up, Plays(a)
  PROVE  \/ Survivors(core[a]) \cup crashed = Node
         \/ Cardinality(Survivors(core[a]) \cup crashed) > Quorum
<1> DEFINE c == core[a]
           X == c.alive \cup crashed
           Y == Survivors(c) \cup crashed
<1>1. a \in Node /\ c \in Core /\ c.alive \in SUBSET Node /\ crashed \in SUBSET Node
      /\ Up \subseteq Node /\ Node = Up \cup crashed
  BY Vectors DEF Up, Core, RoundInv, Typing
<1>2. /\ Up \subseteq c.heard /\ c.heard \subseteq Node \ down
      /\ \A j \in c.heard : c.matrix[j] = core[j].kv /\ Node \ core[j].kv \subseteq down
      /\ \A k \in Node : VouchedBy(c, k) \subseteq c.heard
      /\ \A k \in down : k \notin c.heard
  BY <1>1, Vectors DEF RoundInv, HeardInWindow
<1>3. X = Node \/ Cardinality(X) > Quorum
  BY DEF MinorityInv, EnoughBelieved
<1>4. \A k, m \in Node : VouchedBy(c, k) \subseteq VouchedBy(c, m)
                         \/ VouchedBy(c, m) \subseteq VouchedBy(c, k)
  BY <1>1, VotesAreNested DEF MinorityInv
<1>5. down \subseteq crashed
  BY DEF RoundInv, Typing
<1> HIDE DEF c
<1>6. Y \in SUBSET Node
  BY <1>1 DEF Survivors
<1>7. CASE c.alive \cap Up \subseteq Survivors(c)
  <2>1. X \subseteq Y
    BY <1>1, <1>7
  <2>2. Cardinality(X) <= Cardinality(Y) /\ Cardinality(X) \in Nat /\ Cardinality(Y) \in Nat
    <3> HIDE DEF X, Y
    <3>1. X \in SUBSET Y /\ IsFiniteSet(Y) /\ X \in SUBSET Node
      BY <2>1, <1>6, Counting
    <3> QED  BY <3>1, <1>6, FS_Subset, Counting
  <2>3. Y = Node \/ Cardinality(Y) > Quorum
    <3> HIDE DEF X, Y
    <3> QED  BY <2>1, <2>2, <1>3, <1>6, Counting
  <2> QED  BY <2>3 DEF c
<1>8. CASE ~(c.alive \cap Up \subseteq Survivors(c))
  <2>1. PICK i \in c.alive : i \in Up /\ i \notin Survivors(c)
    BY <1>8
  <2>2. PICK m \in Reached(c) : m \notin c.matrix[i]
    BY <2>1, <1>2 DEF Survivors
  <2>3. \A k \in Reached(c) : /\ k \in Node /\ Cardinality(VouchedBy(c, k)) >= Quorum
                              /\ VouchedBy(c, k) \in SUBSET Node
                              /\ IsFiniteSet(VouchedBy(c, k))
                              /\ Cardinality(VouchedBy(c, k)) \in Nat
    BY <1>1, Counting DEF Reached, VouchedBy
  <2>4. PICK k \in Reached(c) :
          \A l \in Reached(c) : Cardinality(VouchedBy(c, k)) <= Cardinality(VouchedBy(c, l))
    <3> DEFINE T == {Cardinality(VouchedBy(c, l)) : l \in Reached(c)}
    <3>1. T \in SUBSET Nat /\ T # {}
      BY <2>2, <2>3
    <3>2. PICK x \in T : \A y \in T : x <= y
      <4> HIDE DEF T
      <4> QED  BY <3>1, LeastNumber
    <3> QED  BY <3>2
  <2>5. ASSUME NEW l \in Reached(c)
        PROVE  VouchedBy(c, k) \subseteq VouchedBy(c, l)
    <3>1. CASE VouchedBy(c, l) \subseteq VouchedBy(c, k)
      <4> DEFINE A == VouchedBy(c, l)
                 B == VouchedBy(c, k)
      <4>1. /\ A \in SUBSET B /\ IsFiniteSet(B) /\ Cardinality(B) <= Cardinality(A)
            /\ Cardinality(A) \in Nat /\ Cardinality(B) \in Nat
        BY <3>1, <2>3, <2>4
      <4> HIDE DEF A, B
      <4>2. Cardinality(A) <= Cardinality(B) /\ (Cardinality(B) = Cardinality(A) => B = A)
        BY <4>1, FS_Subset
      <4>3. A = B
        BY <4>1, <4>2
      <4> QED  BY <4>3 DEF A, B
    <3> QED  BY <3>1, <1>4, <2>3
  <2> DEFINE S == VouchedBy(c, k)
  <2>6. S \subseteq Survivors(c)
    <3> SUFFICES ASSUME NEW j \in S PROVE j \in Survivors(c)
      OBVIOUS
    <3>1. j \in c.alive /\ j \in c.heard
      BY <1>2, <2>3 DEF VouchedBy
    <3>2. Reached(c) \subseteq c.matrix[j]
      BY <2>5 DEF VouchedBy
    <3> QED  BY <3>1, <3>2 DEF Survivors
  <2>7. k \in crashed /\ k \notin S
    <3>1. i \notin VouchedBy(c, m)
      BY <2>2 DEF VouchedBy
    <3>2. i \notin S
      BY <3>1, <2>5
    <3>3. k \notin c.matrix[i]
      BY <3>2, <2>1 DEF VouchedBy
    <3>4. k \in down
      BY <3>3, <2>1, <2>3, <1>2
    <3> QED  BY <3>4, <1>2, <1>5, <2>3
  <2>8. Cardinality(S \cup {k}) = Cardinality(S) + 1 /\ S \cup {k} \in SUBSET Y
    <3>1. IsFiniteSet(S) /\ k \notin S /\ S \cup {k} \in SUBSET Y
      BY <2>3, <2>6, <2>7
    <3> HIDE DEF S, Y
    <3> QED  BY <3>1, FS_AddElement
  <2>9. Cardinality(S) \in Nat /\ Cardinality(S) >= Quorum
    BY <2>3
  <2> HIDE DEF S
  <2>10. Cardinality(Y) > Quorum
    <3> HIDE DEF Y
    <3>1. Cardinality(S \cup {k}) <= Cardinality(Y) /\ Cardinality(Y) \in Nat
      BY <2>8, <1>6, FS_Subset, Counting
    <3> QED  BY <3>1, <2>8, <2>9, Counting
  <2> QED  BY <2>10 DEF c
<1> QED  BY <1>7, <1>8

\* The crashes only become more.
LEMMA MinorityBefore ==
  ASSUME Typing, crashed \subseteq crashed', crashed' \subseteq Node, Minority'
  PROVE  Minority
<1>1. crashed \in SUBSET crashed' /\ crashed \in SUBSET Node /\ crashed' \in SUBSET Node
  BY DEF Typing
<1>2. IsFiniteSet(crashed') /\ Cardinality(crashed) \in Nat /\ Cardinality(crashed') \in Nat
  BY <1>1, Counting
<1>3. Cardinality(crashed) <= Cardinality(crashed')
  BY <1>1, <1>2, FS_Subset
<1> QED  BY <1>2, <1>3, Counting DEF Minority

LEMMA InitMinority == Init => MinorityInv
<1> SUFFICES ASSUME Init PROVE MinorityInv
  OBVIOUS
<1>1. /\ \A n \in Node : core[n] = InitialCore
      /\ crashed = {} /\ down = {} /\ Up \subseteq Node
  BY DEF Init, Up
<1>2. /\ InitialCore.heard = Node /\ InitialCore.kv = Node /\ InitialCore.alive = Node
      /\ ~InitialCore.halted
  BY DEF InitialCore
<1>3. NobodyHalts /\ LowerHearMore /\ LowerTellMore /\ EnoughBelieved
  BY <1>1, <1>2 DEF NobodyHalts, LowerHearMore, LowerTellMore, EnoughBelieved
<1> QED  BY <1>3 DEF MinorityInv

\* The parts of MinorityInv once they are needed.
Led == RoundInv /\ Minority /\ NobodyHalts /\ LowerHearMore /\ LowerTellMore /\ EnoughBelieved

LEMMA OpenKeepsMinority ==
  ASSUME Led, WindowOpens
  PROVE  NobodyHalts' /\ LowerHearMore' /\ LowerTellMore' /\ EnoughBelieved'
<1>1. /\ phase = "dark" /\ down' = crashed /\ crashed' = crashed /\ Up' = Up
      /\ \A a \in Up : /\ ~core'[a].halted
                       /\ core'[a].alive = core[a].alive /\ core'[a].heard = {}
                       /\ core'[a].kv = core[a].heard
  BY OpenCores DEF Led, NobodyHalts
<1>2. NobodyHalts' /\ LowerHearMore' /\ EnoughBelieved'
  BY <1>1 DEF Led, NobodyHalts, LowerHearMore, EnoughBelieved
<1>3. LowerTellMore'
  <2> SUFFICES ASSUME NEW s \in Up, NEW t \in Up, s < t
               PROVE  core[t].heard \subseteq core[s].heard
    BY <1>1 DEF LowerTellMore, Up
  <2>1. Up \subseteq core[s].heard
    BY <1>1 DEF Led, RoundInv, NobodyMissed, NobodyHalts
  <2> QED  BY <2>1 DEF Led, LowerHearMore
<1> QED  BY <1>2, <1>3

LEMMA BroadcastKeepsMinority ==
  ASSUME Led, NEW n \in Node, Broadcast(n)
  PROVE  NobodyHalts' /\ LowerHearMore' /\ LowerTellMore' /\ EnoughBelieved'
<1>1. /\ phase = "lit" /\ n \in Up /\ FramesReach(n, Cardinality(Node))
      /\ crashed' = crashed /\ down' = down /\ Up' = Up /\ Up \subseteq Node
  BY DEF Broadcast, Up
<1>2. \A t \in Node : t < Cardinality(Node)
  BY ClusterAssumption, NodeAssumption, FS_CardinalityType
<1>3. \A t \in Up : Plays(t)
  BY <1>1 DEF Led, RoundInv, InStep, Expected, NobodyHalts, Plays
<1>4. \A t \in Node :
        /\ core'[t].halted = core[t].halted /\ core'[t].kv = core[t].kv
        /\ core'[t].alive = core[t].alive
        /\ t = n => core'[t] = core[t]
        /\ t # n /\ Plays(t) => core'[t].heard = core[t].heard \cup {t, n}
  BY <1>1, <1>2, Delivery DEF Led
<1>5. LowerHearMore'
  <2> SUFFICES ASSUME NEW s \in Up, NEW t \in Up, s < t
               PROVE  core'[t].heard \subseteq core'[s].heard \cup {s, t}
    BY <1>1 DEF LowerHearMore
  <2>1. core[t].heard \subseteq core[s].heard \cup {s, t}
    BY DEF Led, LowerHearMore
  <2> QED  BY <2>1, <1>1, <1>3, <1>4
<1> QED  BY <1>1, <1>4, <1>5 DEF Led, NobodyHalts, LowerTellMore, EnoughBelieved

\* A broadcast that is cut short has reached the lower of two if it has reached the higher.
LEMMA CrashKeepsMinority ==
  ASSUME Led, NEW n \in Node, Crash(n)
  PROVE  NobodyHalts' /\ LowerHearMore' /\ LowerTellMore' /\ EnoughBelieved'
<1>1. /\ n \in Up /\ crashed' = crashed \cup {n} /\ down' = down /\ phase' = phase
      /\ Up' = Up \ {n}
      /\ \A t \in Node : core'[t].alive = core[t].alive /\ core'[t].halted = core[t].halted
                         /\ core'[t].kv = core[t].kv
  BY CrashCores DEF Led
<1>2. Up \subseteq Node /\ Node \subseteq Nat
  BY NodeAssumption DEF Up
<1>3. NobodyHalts' /\ LowerTellMore'
  BY <1>1, <1>2 DEF Led, NobodyHalts, LowerTellMore
<1>4. LowerHearMore'
  <2> SUFFICES ASSUME NEW s \in Up \ {n}, NEW t \in Up \ {n}, s < t
               PROVE  core'[t].heard \subseteq core'[s].heard \cup {s, t}
    BY <1>1 DEF LowerHearMore
  <2>1. core[t].heard \subseteq core[s].heard \cup {s, t}
    BY DEF Led, LowerHearMore
  <2>2. CASE phase = "lit" /\ n \notin sent
    <3>1. PICK to \in 0 .. Cardinality(Node) : FramesReach(n, to)
      BY <2>2 DEF Crash
    <3>2. Plays(s) /\ Plays(t)
      BY <2>2 DEF Led, RoundInv, InStep, Expected, NobodyHalts, Plays
    <3>3. \A u \in {s, t} :
            /\ ~(u < to) => core'[u] = core[u]
            /\ u < to => core'[u].heard = core[u].heard \cup {u, n}
      BY <1>1, <1>2, <2>2, <3>1, <3>2, Delivery DEF Led
    <3>4. to \in Nat /\ s \in Nat /\ t \in Nat /\ (t < to => s < to)
      BY <1>2, Counting
    <3> QED  BY <2>1, <3>3, <3>4
  <2>3. CASE ~(phase = "lit" /\ n \notin sent)
    BY <2>1, <2>3 DEF Crash
  <2> QED  BY <2>2, <2>3
<1>5. EnoughBelieved'
  <2> SUFFICES ASSUME NEW a \in Up
               PROVE  \/ core[a].alive \cup (crashed \cup {n}) = Node
                      \/ Cardinality(core[a].alive \cup (crashed \cup {n})) > Quorum
    BY <1>1, <1>2 DEF EnoughBelieved
  <2> DEFINE X == core[a].alive \cup crashed
             Y == core[a].alive \cup (crashed \cup {n})
  <2>1. X \in SUBSET Y /\ Y \in SUBSET Node
    BY <1>2 DEF Led, RoundInv, Typing, Core
  <2>2. X = Node \/ Cardinality(X) > Quorum
    BY DEF Led, EnoughBelieved
  <2> HIDE DEF X, Y
  <2>3. Cardinality(X) <= Cardinality(Y) /\ Cardinality(X) \in Nat /\ Cardinality(Y) \in Nat
    <3>1. X \in SUBSET Node /\ IsFiniteSet(Y)
      BY <2>1, Counting
    <3> QED  BY <2>1, <3>1, FS_Subset, Counting
  <2>4. Y = Node \/ Cardinality(Y) > Quorum
    BY <2>1, <2>2, <2>3, Counting
  <2> QED  BY <2>4 DEF Y
<1> QED  BY <1>3, <1>4, <1>5

LEMMA CloseKeepsMinority ==
  ASSUME Led, WindowCloses
  PROVE  NobodyHalts' /\ LowerHearMore' /\ LowerTellMore' /\ EnoughBelieved'
<1>1. /\ phase = "lit" /\ down' = down /\ crashed' = crashed /\ Up' = Up /\ Up \subseteq Node
      /\ \A a \in Node :
           Plays(a) => /\ ~core'[a].halted /\ core'[a].alive = core[a].alive
                       /\ core'[a].heard = core[a].heard \cup {a} /\ Up \subseteq core'[a].heard
      /\ \A a \in Node : core'[a].kv = core[a].kv
  BY CloseCores DEF Led, Up
<1>2. \A t \in Up : Plays(t)
  BY <1>1 DEF Led, RoundInv, InStep, Expected, NobodyHalts, Plays
<1>3. LowerHearMore'
  BY <1>1, <1>2 DEF Led, LowerHearMore
<1> QED  BY <1>1, <1>2, <1>3 DEF Led, NobodyHalts, LowerTellMore, EnoughBelieved

LEMMA DetectKeepsMinority ==
  ASSUME Led, Cardinality(Node) >= 2, EdgeAfter("detect", "commit")
  PROVE  NobodyHalts' /\ LowerHearMore' /\ LowerTellMore' /\ EnoughBelieved'
<1>1. /\ phase = "detect" /\ down' = down /\ crashed' = crashed /\ Up' = Up /\ Up \subseteq Node
      /\ \A a \in Node :
           Plays(a) => /\ core'[a].heard = core[a].heard
                       /\ ~MustHalt(a, core[a]) =>
                            ~core'[a].halted /\ core'[a].alive = Survivors(core[a])
      /\ \A a \in Node : core'[a].kv = core[a].kv
  BY DetectCores DEF Led, Up
<1>2. RoundInv /\ MinorityInv /\ Minority
  BY DEF Led, MinorityInv
<1>3. \A a \in Up : Plays(a) /\ ~MustHalt(a, core[a])
  BY <1>1, <1>2, GoesOn
<1>4. \A a \in Up : \/ Survivors(core[a]) \cup crashed = Node
                    \/ Cardinality(Survivors(core[a]) \cup crashed) > Quorum
  BY <1>1, <1>2, <1>3, EnoughSurvive
<1>5. NobodyHalts' /\ LowerHearMore' /\ LowerTellMore'
  BY <1>1, <1>3 DEF Led, NobodyHalts, LowerHearMore, LowerTellMore
<1>6. EnoughBelieved'
  BY <1>1, <1>3, <1>4 DEF EnoughBelieved
<1> QED  BY <1>5, <1>6

LEMMA CommitKeepsMinority ==
  ASSUME Led, EdgeAfter("commit", "dark")
  PROVE  NobodyHalts' /\ LowerHearMore' /\ LowerTellMore' /\ EnoughBelieved'
<1>1. /\ phase = "commit" /\ down' = down /\ crashed' = crashed /\ Up' = Up /\ Up \subseteq Node
      /\ \A a \in Node : /\ ~Plays(a) => core'[a] = core[a]
                         /\ Plays(a) => core'[a].alive = core[a].alive
                         /\ core'[a].halted = core[a].halted
                         /\ core'[a].heard = core[a].heard /\ core'[a].kv = core[a].kv
  BY CommitCores DEF Led, Up
<1>2. \A a \in Node : core'[a].alive = core[a].alive
  BY <1>1
<1> QED  BY <1>1, <1>2 DEF Led, NobodyHalts, LowerHearMore, LowerTellMore, EnoughBelieved

\* As long as fewer than half the replicas have crashed nobody halts
\* (consensus_core.v:256), whatever logs the crashes cut short.  A single replica is no
\* cluster: it halts for want of another.
THEOREM MinorityIsHarmless ==
  ASSUME Cardinality(Node) >= 2
  PROVE  Spec => []MinorityHaltsNobody
<1>1. RoundInv /\ MinorityInv /\ RoundInv' /\ [Next]_vars => MinorityInv'
  <2> SUFFICES ASSUME RoundInv, MinorityInv, RoundInv', [Next]_vars, Minority'
               PROVE  NobodyHalts' /\ LowerHearMore' /\ LowerTellMore' /\ EnoughBelieved'
    BY DEF MinorityInv
  <2>1. crashed \subseteq crashed'
    BY DEF Next, vars, WindowOpens, Broadcast, Crash, ClearHalt, WindowCloses, EdgeAfter
  <2>2. Led
    <3>1. Typing /\ crashed' \subseteq Node
      BY DEF RoundInv, Typing
    <3>2. Minority
      BY <2>1, <3>1, MinorityBefore
    <3> QED  BY <3>2 DEF Led, MinorityInv
  <2>3. CASE WindowOpens
    BY <2>2, <2>3, OpenKeepsMinority
  <2>4. CASE \E n \in Node : Broadcast(n)
    BY <2>2, <2>4, BroadcastKeepsMinority
  <2>5. CASE \E n \in Node : Crash(n)
    BY <2>2, <2>5, CrashKeepsMinority
  <2>6. CASE \E n \in Node : ClearHalt(n)
    BY <2>2, <2>6 DEF Led, NobodyHalts, ClearHalt
  <2>7. CASE WindowCloses
    BY <2>2, <2>7, CloseKeepsMinority
  <2>8. CASE EdgeAfter("detect", "commit")
    BY <2>2, <2>8, DetectKeepsMinority
  <2>9. CASE EdgeAfter("commit", "dark")
    BY <2>2, <2>9, CommitKeepsMinority
  <2>10. CASE UNCHANGED vars
    BY <2>2, <2>10 DEF vars, Led, NobodyHalts, LowerHearMore, LowerTellMore, EnoughBelieved, Up
  <2> QED  BY <2>3, <2>4, <2>5, <2>6, <2>7, <2>8, <2>9, <2>10 DEF Next
<1>2. MinorityInv => MinorityHaltsNobody
  BY DEF MinorityInv, Minority, NobodyHalts, MinorityHaltsNobody
<1> QED  BY <1>1, <1>2, InitMinority, RoundInvHolds, PTL DEF Spec

-------------------------------------------------------------------------------
(* A member of the cluster is a replica.                                   *)

Member == INSTANCE ConsensusReplica WITH replica <- core[Me]

LEMMA SameEdge ==
  ASSUME NEW me, NEW c, NEW open, NEW commit, NEW frame
  PROVE  Member!CoreEdge(me, c, open, commit, frame) = CoreEdge(me, c, open, commit, frame)
BY DEF CoreEdge, Act, NextState, Begin, Collect, Detect, Commit, MustHalt, Survivors, Reached,
       Blind, Mute, VouchedBy, Quorum,
       Member!CoreEdge, Member!Act, Member!NextState, Member!Begin, Member!Collect,
       Member!Detect, Member!Commit, Member!MustHalt, Member!Survivors, Member!Reached,
       Member!Blind, Member!Mute, Member!VouchedBy, Member!Quorum

\* The strobes and frames of the cluster are among those of the arbitrary environment, and
\* a crash is a clock that stops: what holds of every replica, like CommitsUnanimous, holds
\* of every member (consensus_node.v:131).
THEOREM MembersAreReplicas == Spec => Member!ReplicaSpec
<1>1. Init => Member!ReplicaInit
  BY ReplicaAssumption DEF Init, Member!ReplicaInit, InitialCore, Member!InitialCore
<1>2. RoundInv /\ [Next]_vars => [Member!ReplicaNext]_(core[Me])
  <2> SUFFICES ASSUME RoundInv, [Next]_vars, core'[Me] # core[Me]
               PROVE  Member!ReplicaNext
    OBVIOUS
  <2>1. /\ Me \in Node /\ core \in [Node -> Core] /\ core[Me] \in Core
        /\ \A n \in Node : core[n].kv \in SUBSET KvBit
    BY ReplicaAssumption DEF RoundInv, Typing, Core
  <2>2. Member!NoFrame \in Member!Frames /\ Member!NoFrame = NoFrame
    BY DEF Member!Frames, Member!NoFrame, NoFrame
  <2>3. \A n \in Node : Member!FrameFrom(n, core[n].kv) = FrameFrom(n, core[n].kv)
    BY DEF Member!FrameFrom, FrameFrom
  <2>4. ASSUME NEW open \in BOOLEAN, NEW commit \in BOOLEAN, ~(open /\ commit),
               AllEdge(open, commit)
        PROVE  Member!ReplicaNext
    <3>1. core'[Me] = CoreEdge(Me, core[Me], open, commit, NoFrame)
      BY <2>1, <2>4 DEF AllEdge
    <3>2. Member!ReplicaEdge(open, commit, Member!NoFrame)
      BY <3>1, <2>2, <2>4, SameEdge DEF Member!ReplicaEdge
    <3> QED  BY <3>2, <2>2 DEF Member!ReplicaNext
  <2>5. ASSUME NEW n \in Node, NEW to, FramesReach(n, to)
        PROVE  Member!ReplicaNext
    <3>1. n # Me /\ core'[Me] = CoreEdge(Me, core[Me], FALSE, FALSE, FrameFrom(n, core[n].kv))
      BY <2>1, <2>5 DEF FramesReach
    <3>2. Member!ReplicaEdge(FALSE, FALSE, Member!FrameFrom(n, core[n].kv))
      BY <3>1, <2>3, SameEdge DEF Member!ReplicaEdge
    <3>3. Member!FrameFrom(n, core[n].kv) \in Member!Frames
      BY <2>1, <3>1 DEF Member!Frames
    <3> QED  BY <3>2, <3>3 DEF Member!ReplicaNext
  <2>6. CASE WindowOpens
    BY <2>4, <2>6 DEF WindowOpens
  <2>7. CASE WindowCloses
    BY <2>4, <2>7 DEF WindowCloses
  <2>8. CASE EdgeAfter("detect", "commit") \/ EdgeAfter("commit", "dark")
    BY <2>4, <2>8 DEF EdgeAfter
  <2>9. CASE \E n \in Node : Broadcast(n) \/ Crash(n)
    BY <2>5, <2>9 DEF Broadcast, Crash
  <2>10. CASE \E n \in Node : ClearHalt(n)
    <3>1. core'[Me] = InitialCore
      BY <2>1, <2>10 DEF ClearHalt
    <3> QED  BY <3>1 DEF Member!ReplicaNext, Member!ReplicaClearHalt, InitialCore,
                         Member!InitialCore
  <2>11. CASE UNCHANGED vars
    BY <2>11 DEF vars
  <2> QED  BY <2>6, <2>7, <2>8, <2>9, <2>10, <2>11 DEF Next
<1> QED  BY <1>1, <1>2, RoundInvHolds, PTL DEF Spec, Member!ReplicaSpec

===============================================================================
