----------------------------- MODULE ConsensusReplica -----------------------------
(***************************************************************************)
(* One consensus replica whose windows, completion events and peers do as  *)
(* they please: windows may open back to back or without a completion      *)
(* event before, any peer's frame with any knowledge vector may arrive at  *)
(* any edge, and the host may clear the halt whenever it likes.            *)
(***************************************************************************)
EXTENDS ConsensusCore

CONSTANTS
  Me,      \* P_NODE_ID
  KvBit    \* bits of the knowledge vector's field, 0 .. P_KV_WIDTH - 1

ASSUME ReplicaAssumption == Me \in Node /\ Node \subseteq KvBit

VARIABLE replica

Frames == {NoFrame} \cup {FrameFrom(n, kv) : n \in Node \ {Me}, kv \in SUBSET KvBit}

ReplicaInit == replica = InitialCore

\* The executor never opens a window in the cycle in which it completes one.
ReplicaEdge(open, commit, frame) ==
  /\ ~(open /\ commit)
  /\ replica' = CoreEdge(Me, replica, open, commit, frame)

ReplicaClearHalt == replica' = InitialCore

ReplicaNext ==
  \/ \E open, commit \in BOOLEAN, frame \in Frames : ReplicaEdge(open, commit, frame)
  \/ ReplicaClearHalt

ReplicaSpec == ReplicaInit /\ [][ReplicaNext]_replica

-------------------------------------------------------------------------------
(* Properties.                                                             *)

ReplicaTypeOK == replica \in Core

\* A node that has been declared dead stays dead until the host starts the protocol
\* afresh, whatever it sends.
SuspicionIsForGood == [][replica' = InitialCore \/ replica'.alive \subseteq replica.alive]_replica

\* Rule B's purpose: after a window, whatever is marked as committed has been
\* acknowledged by every node that the replica still believes in.
CommitsAreUnanimous ==
  replica.state = "idle" /\ ~replica.halted =>
    \A i \in replica.alive : replica.valid \subseteq replica.matrix[i]

===============================================================================
