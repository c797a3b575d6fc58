------------------------------ MODULE PortLifecycle ------------------------------
(***************************************************************************)
(* A port of the NIC driver that goes down and up while its transmit ring  *)
(* is in use: mqnic_start_port and mqnic_stop_port of                      *)
(* host/nic_driver/mqnic_netdev.c, step by step, around TxRing.            *)
(*                                                                         *)
(* ndo_stop comes with the stack quiet: the kernel has detached the queue  *)
(* and waited for its users.  A change of the MTU, of the ring sizes or of *)
(* the channels stops and starts the port under a stack that goes on.      *)
(***************************************************************************)
EXTENDS TxRing

VARIABLES
  port,       \* how far the start or the stop of the port has come
  quiesced,   \* the stack has been detached
  woken       \* history: the queue was woken, since the last stop began, while the port was not up

lifeVars == <<port, quiesced, woken>>
allVars  == <<vars, lifeVars>>

\* priv->port_up: the stack may use the ring.
PortUp == port \in {"raised", "enabled", "up", "stopped", "draining"}

\* The NIC's queue is enabled: it hears the doorbell.
RingListens == port \in {"enabled", "up", "stopped"}

-------------------------------------------------------------------------------
(* mqnic_stop_port.                                                        *)

\* Slip: the queues are stopped without taking their locks.
StopQueuesUnlocked(quiet) ==
  /\ port = "up" /\ (quiet => xmit = "idle")
  /\ port' = "stopped" /\ stopped' = TRUE /\ quiesced' = quiet /\ woken' = FALSE
  /\ UNCHANGED <<noteVars, xmitVars, pollVars, prod, cons, skb, sent>>
\* netif_tx_disable waits for the queue's lock, which mqnic_start_xmit runs under.
StopQueues(quiet) ==
  /\ port = "up" /\ xmit = "idle"
  /\ port' = "stopped" /\ stopped' = TRUE /\ quiesced' = quiet /\ woken' = FALSE
  /\ UNCHANGED <<noteVars, xmitVars, pollVars, prod, cons, skb, sent>>

\* The scheduler and the ring are disabled; the driver sleeps for what was begun.
DisableRing == port = "stopped" /\ port' = "draining" /\ UNCHANGED <<vars, quiesced, woken>>

ClearPortUp == port = "draining" /\ port' = "down" /\ UNCHANGED <<vars, quiesced, woken>>

\* Slip: the ring is closed without waiting for its poll.
CloseRingUnderPoll ==
  /\ port = "down" /\ port' = "gone"
  /\ prod' = 0 /\ cons' = 0 /\ skb' = [s \in Slot |-> None]
  /\ doorbell' = 0 /\ sent' = 0 /\ stranded' = FALSE
  /\ ring' = "read" /\ done' = 0 /\ freed' = 0 /\ newCons' = 0
  /\ unread' = 0 /\ held' = 0 /\ signal' = "armed"
  /\ UNCHANGED <<stopped, xmit, more, stopping, quiesced, woken>>

\* napi_disable waits for the poll; then the packets between cons_ptr and prod_ptr
\* are freed with the ring and its completion queue.
CloseRing ==
  /\ port = "down" /\ signal # "polling"
  /\ port' = "gone"
  /\ prod' = 0 /\ cons' = 0 /\ skb' = [s \in Slot |-> None]
  /\ doorbell' = 0 /\ sent' = 0 /\ stranded' = FALSE
  /\ ring' = "read" /\ done' = 0 /\ freed' = 0 /\ newCons' = 0
  /\ unread' = 0 /\ held' = 0 /\ signal' = "armed"
  /\ UNCHANGED <<stopped, xmit, more, stopping, quiesced, woken>>

-------------------------------------------------------------------------------
(* mqnic_start_port.  A packet that is on its way into a ring that is gone *)
(* has undefined consequences, and the model ends with it.                 *)

OpenRing ==
  /\ port = "gone" /\ xmit = "idle" /\ port' = "opened"
  /\ UNCHANGED <<vars, quiesced, woken>>

\* The stack sees the port up before the ring is enabled.
RaisePort == port = "opened" /\ port' = "raised" /\ UNCHANGED <<vars, quiesced, woken>>

\* The scheduler, enabled last, remembers doorbells that come before it.
EnableRing == port = "raised" /\ port' = "enabled" /\ UNCHANGED <<vars, quiesced, woken>>

StartQueues ==
  /\ port = "enabled" /\ port' = "up"
  /\ stopped' = FALSE /\ quiesced' = FALSE
  /\ UNCHANGED <<noteVars, xmitVars, pollVars, prod, cons, skb, sent, woken>>

-------------------------------------------------------------------------------
(* The transmit path around it.                                            *)

\* A port that is down drops what it is given.
CallDriver ==
  /\ ~quiesced
  /\ \E m \in BOOLEAN : DropPacket(m) \/ (PortUp /\ MapPacket(m))
  /\ UNCHANGED lifeVars

Woken == woken' = (woken \/ (port # "up" /\ stopped /\ ~stopped'))

Driver == Xmit(RingListens) /\ port # "gone" /\ Woken /\ UNCHANGED <<port, quiesced>>

NicTransmits ==
  /\ port \in {"enabled", "up", "stopped", "draining"} /\ Transmit /\ UNCHANGED lifeVars

\* A disabled NAPI context is not scheduled any more.
Notify == (Raise \/ (Schedule /\ port # "down"))
          /\ UNCHANGED <<xmitVars, pollVars, ringVars, sent, lifeVars>>

PollPort ==
  /\ PortUp \/ ring # "read" \/ done > 0
  /\ Poll /\ Woken /\ UNCHANGED <<port, quiesced>>

\* The poll of a port that is down reads nothing and arms the queue again.
PollNothing ==
  /\ ~PortUp /\ At("read") /\ done = 0 /\ Rearm
  /\ UNCHANGED <<xmitVars, pollVars, ringVars, sent, lifeVars>>

-------------------------------------------------------------------------------

PortInit == Init /\ port = "up" /\ quiesced = FALSE /\ woken = FALSE

Stopping == DisableRing \/ ClearPortUp \/ CloseRing
Starting == RaisePort \/ EnableRing \/ StartQueues

PortNext ==
  \/ \E quiet \in BOOLEAN : StopQueues(quiet)
  \/ OpenRing \/ Stopping \/ Starting
  \/ CallDriver \/ Driver \/ NicTransmits \/ Notify \/ PollPort \/ PollNothing

PortSpec == PortInit /\ [][PortNext]_allVars

\* A stop or a start that was begun is carried through; nothing makes it begin.
FairPortSpec ==
  /\ PortSpec
  /\ WF_allVars(Stopping) /\ WF_allVars(Starting)
  /\ WF_allVars(Driver) /\ WF_allVars(port = "up" /\ NicTransmits)
  /\ WF_allVars(Notify) /\ WF_allVars(PollPort \/ PollNothing)
  /\ WF_allVars(more /\ CallDriver)

-------------------------------------------------------------------------------
(* Properties.                                                             *)

\* Nobody is inside a ring that is freed, unless a poll woke the queue of the port
\* that was being stopped (mqnic_netdev.c:209-251) and the stack was not detached.
\* And what mqnic_free_tx_buf frees with the ring, no poll has freed before.
RingIsFreedOnce ==
  [][CloseRing => /\ ring = "read" /\ done = 0 /\ (xmit = "idle" \/ (woken /\ ~quiesced))
                  /\ \A k \in cons .. prod - 1 : skb[k % Size] = k]_allVars

\* A stopped queue is woken, or its port is taken down.
StoppedQueueWakes == stopped ~> ~stopped \/ port = "gone"

\* A posted packet is freed, by the poll or with the ring.  The exceptions wait for the
\* next doorbell: the rest of a batch whose last packet was dropped, and packets that
\* were announced to a ring that is not enabled yet (mqnic_netdev.c:143 against 150).
PacketsAreFreed ==
  \A n \in 1 .. MaxPackets : prod >= n ~> cons >= n \/ stranded \/ port = "gone"

===============================================================================
