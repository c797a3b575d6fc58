------------------------------ MODULE GlobalCompile ------------------------------
(***************************************************************************)
(* The scheduling of AI traffic matrices into windows, one node's phase    *)
(* list at a time: compile_ai_matrix_workload, greedy_matching and the two *)
(* legs of compile_moe_phase_sequence                                      *)
(* (toolchain/compiler/utopia_global_compile.py).                          *)
(*                                                                         *)
(* A workload is a sequence of legs, each a matrix of packet counts: one   *)
(* leg for an ai_matrix, two (dispatch, combine) for a MoE step.  Each     *)
(* step looks at one candidate pair, closes an epoch, or starts a leg.  A  *)
(* node's phases are a set, since lowering sorts them by time.  The global *)
(* plan, which only reports, is left out, and so is the cut to local_nodes:*)
(* every active node is local.                                             *)
(***************************************************************************)
EXTENDS Integers, Sequences, FiniteSets

CONSTANTS
  Node,       \* active_nodes
  Workload,   \* the workloads an instance may be given
  Plane       \* the timings of the plane they are scheduled on

Pair  == {p \in Node \X Node : p[1] # p[2]}
NoPair == <<0, 0>>
Matrix == [Pair -> Nat]

ASSUME NodeAssumption == Node \subseteq Nat /\ IsFiniteSet(Node)

\* A leg starts "pause" ns after the leg before it (expert compute, combine prepare);
\* "rounds" is the consensus_periodic phase every node has besides, num = 0 for none.
ASSUME WorkloadAssumption ==
  \A w \in Workload :
    /\ w.legs \in Seq(Matrix) /\ w.legs # <<>> /\ w.pause \in Nat
    /\ w.rounds \in [start : Nat, period : Nat \ {0}, length : Nat \ {0}, num : Nat]
    /\ w.rounds.length <= w.rounds.period

ASSUME PlaneAssumption ==
  Plane \subseteq [mode : {"fixed", "derived"}, fixed : Nat, packet : Nat, gap : Nat,
                   latency : Nat, guard : Nat, reconfig : Nat]

VARIABLES
  workload,    \* the workload being compiled
  plane,       \* plane_timing
  leg,         \* the leg being scheduled
  remaining,   \* packets not yet given a window
  candidates,  \* greedy_matching: pairs with work it has not looked at in this epoch
  matching,    \* greedy_matching: pairs it has chosen
  epoch,       \* epoch_index: epochs closed in this leg
  cursor,      \* cursor_ns
  phases       \* local_specs[node]["phases"], as a set

vars == <<workload, plane, leg, remaining, candidates, matching, epoch, cursor, phases>>

-------------------------------------------------------------------------------
(* One epoch: a greedy matching and its duration.                          *)

Touches(p, q) == {p[1], p[2]} \intersect {q[1], q[2]} # {}

\* matrix_has_work: the pairs that still need a window.
Busy(m) == {p \in Pair : m[p] > 0}

\* The pairs greedy_matching goes through in one epoch.
Candidates(m) == {p \in Pair : m[p] > 0}

\* candidates.sort: the heaviest pair first, then by source and destination.
Before(p, q) ==
  \/ remaining[p] > remaining[q]
  \/ /\ remaining[p] = remaining[q]
     /\ p[1] < q[1] \/ (p[1] = q[1] /\ p[2] < q[2])

Foremost(p) == p \in candidates /\ \A q \in candidates \ {p} : Before(p, q)

\* Slip: only senders count as used.
FreeToSend(p) == \A q \in matching : q[1] # p[1]
\* Slip: one pair an epoch.
FreeAlone(p) == matching = {}
\* A node sends or receives, and that once, in an epoch.
Free(p) == \A q \in matching : ~Touches(p, q)

\* One turn of greedy_matching's loop.
Consider(p) ==
  /\ Foremost(p)
  /\ candidates' = candidates \ {p}
  /\ matching' = IF Free(p) THEN matching \union {p} ELSE matching
  /\ UNCHANGED <<workload, plane, leg, remaining, epoch, cursor, phases>>

\* estimate_edge_transfer_time_ns; rounding to whole nanoseconds is left out.
EdgeTime(count) ==
  IF plane.mode = "fixed" THEN plane.fixed
  ELSE count * plane.packet + (count - 1) * plane.gap + plane.latency

\* estimate_epoch_duration_ns: as long as the slowest burst of the matching.
Duration == CHOOSE d \in {EdgeTime(remaining[p]) : p \in matching} :
              \A p \in matching : d >= EdgeTime(remaining[p])

-------------------------------------------------------------------------------
(* The windows of an epoch, and the silence after it.                      *)

Window(kind, start, end, pair, count) ==
  [kind |-> kind, start |-> start, end |-> end, pair |-> pair, count |-> count]

\* Slip: the receiver's window is laid out behind the sender's.
EpochOfInSequence(n, end) ==
  {Window("tx", cursor, end, p, remaining[p]) : p \in {q \in matching : q[1] = n}} \union
  {Window("rx", end, end + Duration, p, remaining[p]) : p \in {q \in matching : q[2] = n}}

\* make_ai_phase, once for the sender and once for the receiver of each chosen pair.
EpochOf(n, end) ==
  {Window("tx", cursor, end, p, remaining[p]) : p \in {q \in matching : q[1] = n}} \union
  {Window("rx", cursor, end, p, remaining[p]) : p \in {q \in matching : q[2] = n}}

\* make_guard_phase: guard, reconfiguration, guard, for every node alike.
SilenceAfter(end) ==
  LET mid == end + plane.guard
      fin == mid + plane.reconfig
  IN  { Window("guard", end, mid, NoPair, 0),
         Window("reconfig", mid, fin, NoPair, 0),
         Window("guard", fin, fin + plane.guard, NoPair, 0) }

\* Slip: the next epoch starts before the second guard is over.
AfterReconfig(end) == end + plane.guard + plane.reconfig
AfterSilence(end) == end + plane.guard + plane.reconfig + plane.guard

\* Slip: packets beyond the first stay in the matrix.
ServedOnePacket == [p \in Pair |-> IF p \in matching THEN remaining[p] - 1 ELSE remaining[p]]
Served == [p \in Pair |-> IF p \in matching THEN 0 ELSE remaining[p]]

\* The rest of the while loop's body, and greedy_matching's start in the next turn.
CloseEpoch ==
  /\ candidates = {} /\ matching # {}
  /\ LET end == cursor + Duration
         more == Busy(Served) # {}
     IN  /\ phases' = [n \in Node |->
                         phases[n] \union EpochOf(n, end)
                                   \union IF more THEN SilenceAfter(end) ELSE {}]
         /\ cursor' = IF more THEN AfterSilence(end) ELSE end
  /\ remaining' = Served
  /\ candidates' = Candidates(Served)
  /\ matching' = {}
  /\ epoch' = epoch + 1
  /\ UNCHANGED <<workload, plane, leg>>

\* The combine leg of a MoE step starts behind the dispatch leg and the experts.
NextLeg ==
  /\ candidates = {} /\ matching = {} /\ Busy(remaining) = {}
  /\ leg < Len(workload.legs)
  /\ leg' = leg + 1
  /\ remaining' = workload.legs[leg + 1]
  /\ candidates' = Candidates(workload.legs[leg + 1])
  /\ epoch' = 0
  /\ cursor' = cursor + workload.pause
  /\ UNCHANGED <<workload, plane, matching, phases>>

Done == candidates = {} /\ matching = {} /\ Busy(remaining) = {} /\ leg = Len(workload.legs)

Init ==
  /\ workload \in Workload /\ plane \in Plane
  /\ leg = 1
  /\ remaining = workload.legs[1]
  /\ candidates = Candidates(workload.legs[1])
  /\ matching = {}
  /\ epoch = 0
  /\ cursor = 0
  /\ phases = [n \in Node |-> {}]

Next == (\E p \in candidates : Consider(p)) \/ CloseEpoch \/ NextLeg

Spec == Init /\ [][Next]_vars

-------------------------------------------------------------------------------
(* Properties.                                                             *)

Windows == [kind : {"tx", "rx", "guard", "reconfig"}, start : Nat, end : Nat,
            pair : Pair \union {NoPair}, count : Nat]

TypeOK ==
  /\ plane \in Plane
  /\ leg \in 1 .. Len(workload.legs)
  /\ remaining \in Matrix
  /\ candidates \subseteq Busy(remaining) /\ matching \subseteq Busy(remaining)
  /\ epoch \in Nat /\ cursor \in Nat
  /\ phases \in [Node -> SUBSET Windows]

\* The loop never meets work it cannot place: the RuntimeError of
\* utopia_global_compile.py:278 is out of reach.
GreedyMakesProgress == candidates = {} /\ matching = {} => Busy(remaining) = {}

\* A node is never asked to do two things at a time, across pairs, epochs, silences
\* and legs: the local executor and apps know one window at a time (line 143).
NodeDoesOneThingAtATime ==
  \A n \in Node : \A v, w \in phases[n] : v = w \/ v.end <= w.start \/ w.end <= v.start

\* Whenever a node sends, the node it sends to has an equal window to receive, and
\* nobody waits to receive what nobody sends.
BothEndsMeet ==
  \A n \in Node : \A w \in phases[n] :
    /\ w.kind = "tx" => /\ w.pair[1] = n
                        /\ [w EXCEPT !.kind = "rx"] \in phases[w.pair[2]]
    /\ w.kind = "rx" => /\ w.pair[2] = n
                        /\ [w EXCEPT !.kind = "tx"] \in phases[w.pair[1]]

Sent(p) == {w \in phases[p[1]] : w.kind = "tx" /\ w.pair = p}
ServedLegs(p) ==
  {k \in 1 .. leg : workload.legs[k][p] > 0 /\ (k < leg \/ remaining[p] = 0)}

\* Each demand of each leg gets one window, with all of its packets: none is split,
\* repeated or forgotten.
EveryPairIsServedOnce ==
  \A p \in Pair :
    /\ Cardinality(Sent(p)) = Cardinality(ServedLegs(p))
    /\ \A k \in ServedLegs(p) : \E w \in Sent(p) : w.count = workload.legs[k][p]
    /\ remaining[p] # 0 => remaining[p] = workload.legs[leg][p]

\* A pair is passed over only for the sake of one it shares a node with, and once for
\* each: the number of epochs is bounded by the degrees of the matrix, not its size.
PairsWaitForTheirNeighbours ==
  \A p \in Busy(remaining) :
    epoch <= Cardinality({q \in Busy(workload.legs[leg]) : Touches(p, q) /\ remaining[q] = 0})

===============================================================================
