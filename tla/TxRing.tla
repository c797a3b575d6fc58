-------------------------------- MODULE TxRing --------------------------------
(***************************************************************************)
(* The steps of the NIC driver's transmit path                             *)
(* (host/nic_driver/mqnic_tx.c): mqnic_start_xmit, called by the network   *)
(* stack on one CPU, the completion poll on another, and the NIC between   *)
(* them.  The ring's lock-free protocol is modelled store by store; the    *)
(* completion queue is the one Notifier promises and EventQueue provides.  *)
(*                                                                         *)
(* prod and cons count from zero and never wrap: the driver only masks     *)
(* them with the ring size or subtracts them modulo 2^32.                  *)
(***************************************************************************)
EXTENDS Notifier

CONSTANTS
  Size,         \* ring->size
  Weight,       \* napi_budget: completions a poll may process
  MaxPackets,   \* bound: packets posted in a behaviour
  None          \* the NULL of tx_info->skb

ASSUME RingAssumption ==
  /\ Size \in Nat /\ Size > 1 /\ Size <= Capacity
  /\ Weight \in Nat \ {0} /\ MaxPackets \in Nat /\ None \notin Nat

Slot     == 0 .. Size - 1
FullSize == Size \div 2     \* ring->full_size

VARIABLES
  prod, cons,   \* ring->prod_ptr, ring->cons_ptr
  skb,          \* per slot: tx_info->skb; packets are numbered as they are posted
  stopped,      \* the stack's queue is stopped
  xmit,         \* where mqnic_start_xmit is
  more,         \* netdev_xmit_more(): the stack is about to call again
  stopping,     \* stop_queue
  doorbell,     \* the producer pointer of the last doorbell the NIC has heard
  sent,         \* packets the NIC has transmitted and reported
  ring,         \* where mqnic_process_tx_cq is
  done,         \* completions it has processed
  freed,        \* completions processed since the ring was opened
  newCons,      \* ring_cons_ptr
  stranded      \* history: posted packets wait for the next doorbell, since the last packet
                \* of their batch was dropped or the NIC did not hear theirs

xmitVars == <<xmit, more, stopping, doorbell, stranded>>
pollVars == <<ring, done, freed, newCons>>
ringVars == <<prod, cons, skb, stopped>>
vars     == <<noteVars, xmitVars, pollVars, ringVars, sent>>

-------------------------------------------------------------------------------
(* mqnic_start_xmit.  The stack does not call it while the queue is stopped. *)

\* The packet is mapped into the slot under prod; a failure on the way there drops
\* the packet and leaves the ring alone, the doorbell included.
MapPacket(m) ==
  /\ xmit = "idle" /\ ~stopped /\ prod < MaxPackets
  /\ skb' = [skb EXCEPT ![prod % Size] = prod]
  /\ xmit' = "mapped" /\ more' = m /\ stranded' = FALSE
  /\ UNCHANGED <<noteVars, pollVars, prod, cons, stopped, stopping, doorbell, sent>>

DropPacket(m) ==
  /\ xmit = "idle" /\ ~stopped
  /\ more' = m /\ stranded' = (~m /\ doorbell < prod)
  /\ UNCHANGED <<noteVars, pollVars, ringVars, xmit, stopping, doorbell, sent>>

PostPacket ==
  /\ xmit = "mapped" /\ xmit' = "posted"
  /\ prod' = prod + 1
  /\ UNCHANGED <<noteVars, pollVars, cons, skb, stopped, more, stopping, doorbell, stranded, sent>>

\* Slip: the ring counts as full when it has overflowed.
FullLate == prod - cons > Size
RingFull == prod - cons >= FullSize

TestFull ==
  /\ xmit = "posted"
  /\ stopping' = RingFull /\ xmit' = IF RingFull THEN "stop" ELSE "ring"
  /\ UNCHANGED <<noteVars, pollVars, ringVars, more, doorbell, stranded, sent>>

StopQueue ==
  /\ xmit = "stop" /\ xmit' = "ring" /\ stopped' = TRUE
  /\ UNCHANGED <<noteVars, pollVars, prod, cons, skb, more, stopping, doorbell, stranded, sent>>

\* The doorbell is the write of the producer pointer.  The NIC's queue manager keeps
\* the pointer, and passes the doorbell on to its scheduler if the queue is enabled.
Announce(heard) ==
  /\ doorbell' = IF heard THEN prod ELSE doorbell
  /\ stranded' = ~heard

\* Slip: a batch cut short by a full ring is not announced.
RingUnlessMore(heard) ==
  /\ xmit = "ring" /\ xmit' = IF stopping THEN "recheck" ELSE "idle"
  /\ IF ~more THEN Announce(heard) ELSE UNCHANGED <<doorbell, stranded>>
  /\ UNCHANGED <<noteVars, pollVars, ringVars, more, stopping, sent>>
RingDoorbell(heard) ==
  /\ xmit = "ring" /\ xmit' = IF stopping THEN "recheck" ELSE "idle"
  /\ IF ~more \/ stopping THEN Announce(heard) ELSE UNCHANGED <<doorbell, stranded>>
  /\ UNCHANGED <<noteVars, pollVars, ringVars, more, stopping, sent>>

\* The queue may have emptied between the test and the stop.
Recheck ==
  /\ xmit = "recheck" /\ xmit' = "idle" /\ stopping' = FALSE
  /\ stopped' = (stopped /\ RingFull)
  /\ UNCHANGED <<noteVars, pollVars, prod, cons, skb, more, doorbell, stranded, sent>>

-------------------------------------------------------------------------------
(* The NIC transmits announced packets and reports them in order.          *)

Transmit ==
  /\ sent < doorbell /\ sent' = sent + 1 /\ Deliver
  /\ UNCHANGED <<xmitVars, pollVars, ringVars>>

-------------------------------------------------------------------------------
(* mqnic_process_tx_cq and mqnic_poll_tx_cq.                               *)

At(p) == signal = "polling" /\ ring = p

FreeDesc ==
  /\ At("read") /\ done < Weight /\ Read
  /\ skb' = [skb EXCEPT ![freed % Size] = None]
  /\ freed' = freed + 1 /\ done' = done + 1
  /\ UNCHANGED <<xmitVars, ring, newCons, prod, cons, stopped, sent>>

\* Slip: a poll that is called again does not write the consumer pointer.
WriteCqConsPtrOnReturn ==
  /\ At("read") /\ (done = Weight \/ unread = 0)
  /\ IF done = Weight THEN UNCHANGED noteVars ELSE Release
  /\ ring' = "scan"
  /\ UNCHANGED <<xmitVars, done, freed, newCons, ringVars, sent>>
WriteCqConsPtr ==
  /\ At("read") /\ (done = Weight \/ unread = 0) /\ Release
  /\ ring' = "scan"
  /\ UNCHANGED <<xmitVars, done, freed, newCons, ringVars, sent>>

\* Skip the slots whose packet is gone.
ScanRing ==
  /\ At("scan") /\ ring' = "publish"
  /\ \E n \in cons .. prod :
       /\ \A k \in cons .. n - 1 : skb[k % Size] = None
       /\ n # prod => skb[n % Size] # None
       /\ newCons' = n
  /\ UNCHANGED <<noteVars, xmitVars, done, freed, ringVars, sent>>

\* The store to cons_ptr and the load of the queue state are not ordered by a
\* barrier, so the load may come first.
LookFirst ==
  /\ At("publish") /\ ~stopped /\ ring' = "late"
  /\ UNCHANGED <<noteVars, xmitVars, done, freed, newCons, ringVars, sent>>

WriteConsPtr ==
  /\ \/ At("publish") /\ ring' = "wake"
     \/ At("late") /\ ring' = "return"
  /\ cons' = newCons
  /\ UNCHANGED <<noteVars, xmitVars, done, freed, newCons, prod, skb, stopped, sent>>

WakeQueue ==
  /\ At("wake") /\ ring' = "return"
  /\ stopped' = (stopped /\ RingFull)
  /\ UNCHANGED <<noteVars, xmitVars, done, freed, newCons, prod, cons, skb, sent>>

\* Slip: the queue is armed before napi_complete, which swallows an event at once.
ReturnArmingFirst ==
  /\ At("return") /\ ring' = "read" /\ done' = 0
  /\ signal' = IF done = Weight THEN signal ELSE IF unread > 0 THEN "lost" ELSE "armed"
  /\ UNCHANGED <<unread, held, xmitVars, freed, newCons, ringVars, sent>>
\* A poll that used up its budget is called again; any other arms the queue.
ReturnFromPoll ==
  /\ At("return") /\ ring' = "read" /\ done' = 0
  /\ IF done = Weight THEN UNCHANGED noteVars ELSE Rearm
  /\ UNCHANGED <<xmitVars, freed, newCons, ringVars, sent>>

-------------------------------------------------------------------------------

\* mqnic_open_tx_ring, and the start of the port.
Init ==
  /\ NoteInit
  /\ prod = 0 /\ cons = 0 /\ skb = [s \in Slot |-> None] /\ stopped = FALSE
  /\ xmit = "idle" /\ more = FALSE /\ stopping = FALSE /\ doorbell = 0 /\ stranded = FALSE
  /\ sent = 0
  /\ ring = "read" /\ done = 0 /\ freed = 0 /\ newCons = 0

Xmit(heard) == PostPacket \/ TestFull \/ StopQueue \/ RingDoorbell(heard) \/ Recheck

Poll  == FreeDesc \/ WriteCqConsPtr \/ ScanRing \/ LookFirst \/ WriteConsPtr \/ WakeQueue
         \/ ReturnFromPoll

-------------------------------------------------------------------------------
(* Properties.                                                             *)

\* A packet that is posted and not reported is left alone: its slot holds it, so
\* neither a later packet nor the poll frees or overwrites it under the NIC.
SlotsBelongToNic == \A k \in freed .. prod - 1 : skb[k % Size] = k

\* The ring leaves the completion queue room for every report, also for those that
\* were read and not given back: none is lost, and each is processed once.
NoReportIsLost == sent = freed + unread

===============================================================================
