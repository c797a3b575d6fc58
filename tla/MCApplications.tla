----------------------------- MODULE MCApplications -----------------------------
(* The applications that windows drive, for TLC: the sending half of the trace  *)
(* replay of one NIC, and a cluster of consensus replicas.  They share no state *)
(* (a behaviour is one of either, and the other stays where it started).        *)
EXTENDS AiTraceReplay, ConsensusRounds

VARIABLE machine    \* the application this is a behaviour of

allVars == <<replayVars, vars, machine>>

MCInit == machine \in {"replay", "cluster"} /\ ReplayInit /\ Init

ReplayStep  == machine = "replay" /\ ReplayNext /\ UNCHANGED <<vars, machine>>
ClusterStep == machine = "cluster" /\ Next /\ UNCHANGED <<replayVars, machine>>

MCSpec == MCInit /\ [][ReplayStep \/ ClusterStep]_allVars

===============================================================================
