-------------------------------- MODULE Lowering --------------------------------
(***************************************************************************)
(* One node's phases made into the entries of its two hardware tables:     *)
(* compile_phases (toolchain/lowering/compile.py), and, on the host,       *)
(* split_execution_entries_for_hw                                          *)
(* (host/control_plane/sync_dcn_program.py).  Consensus rounds come from a *)
(* workload of their own and share the node's timeline.                    *)
(***************************************************************************)
EXTENDS GlobalCompile

\* compile_consensus_periodic_phase: a window for each round.
ConsensusEntries ==
  LET r == workload.rounds
  IN  {Window("round", r.start + i * r.period, r.start + i * r.period + r.length, NoPair, i) :
         i \in 0 .. r.num - 1}

\* All entries of a node.  Their order is that of their times, so a set has it too.
Entries(n) == phases[n] \union ConsensusEntries

\* execution_entries.sort: by start, then by end.
Earlier(v, w) == v.start < w.start \/ (v.start = w.start /\ v.end < w.end)

\* v and w are neighbours in the sorted list; those with equal times stand in any order.
Follows(w, v, es) ==
  /\ v # w /\ ~Earlier(w, v)
  /\ ~\E u \in es : Earlier(v, u) /\ Earlier(u, w)

\* Slip: only windows of one kind are compared.
OverlapOfOneKind(es) ==
  \E v, w \in es : Follows(w, v, es) /\ w.kind = v.kind /\ w.start < v.end
\* Each entry is compared with its predecessor.
Overlap(es) == \E v, w \in es : Follows(w, v, es) /\ w.start < v.end

\* compile_spec raises a ValueError for a node without phases, compile_phases one for an
\* empty window and one for an overlap; one node that is refused refuses the plan.
Accepted(n) ==
  /\ Entries(n) # {}
  /\ \A w \in phases[n] : w.start < w.end
  /\ ~Overlap(Entries(n))

\* Guards and reconfigurations are in neither table, a round is in both.
TxTable(n) == {e \in Entries(n) : e.kind \in {"tx", "round"}}
RxTable(n) == {e \in Entries(n) : e.kind \in {"rx", "round"}}

-------------------------------------------------------------------------------
(* Properties of what is lowered once the last leg is scheduled.           *)

\* v ends before w starts, and stands before it in every table that has both.
Precedes(v, w) == Earlier(v, w) /\ v.end <= w.start

\* What is accepted can be run by an executor that retires entries in order: in each
\* table every entry ends before any later one starts, and a node never sends for one
\* application while it receives for another.
AcceptedTablesRunInOrder ==
  Done => \A n \in Node : Accepted(n) =>
    \A v, w \in TxTable(n) \union RxTable(n) : v = w \/ Precedes(v, w) \/ Precedes(w, v)

\* The node sends or receives in some leg.
TakesPart(n) ==
  \E k \in 1 .. Len(workload.legs), p \in Pair : workload.legs[k][p] > 0 /\ n \in {p[1], p[2]}

\* On a plane that takes time to guard and reconfigure, with windows of a length and no
\* consensus round in the way, a node that has traffic is never refused: only one that
\* has none, in a plan without the silence that would give it phases (compile.py:433).
OnlyIdleNodesAreRefused ==
  Done /\ workload.rounds.num = 0 /\ plane.guard > 0 /\ plane.reconfig > 0
       /\ (plane.mode = "fixed" => plane.fixed > 0)
       /\ (plane.mode = "derived" => plane.packet > 0)
    => \A n \in Node : Accepted(n) \/ (~TakesPart(n) /\ phases[n] = {})

===============================================================================
