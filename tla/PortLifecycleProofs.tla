--------------------------- MODULE PortLifecycleProofs ---------------------------
(***************************************************************************)
(* Proofs about the transmit ring of a port that goes down and up          *)
(* (PortLifecycle), for every size of the ring, capacity of the completion *)
(* queue and budget of the poll: no packet the NIC still owns is freed or  *)
(* overwritten, and no report is lost.                                     *)
(***************************************************************************)
EXTENDS PortLifecycle, Integers, TLAPS

Types ==
  /\ unread \in Nat /\ held \in Nat /\ doorbell \in Nat /\ sent \in Nat
  /\ freed \in Nat /\ newCons \in Nat /\ prod \in Nat /\ cons \in Nat
  /\ skb \in [Slot -> Nat \cup {None}]
  /\ stopped \in BOOLEAN

\* The ring may be used one slot beyond full_size: see Fresh.
Counts ==
  /\ cons <= freed /\ sent = freed + unread /\ sent <= doorbell /\ doorbell <= prod
  /\ prod <= cons + FullSize + 1

\* A packet that is being posted has room, and it is in its slot.
Mapped == xmit = "mapped" /\ port # "gone" => prod <= cons + FullSize /\ skb[prod % Size] = prod

Limit == port # "gone" => xmit \in {"posted", "stop"} \/ stopped \/ prod <= cons + FullSize

Closed == port = "gone" => prod = 0

\* What was read and not given back to the NIC is room the ring does not use either.
Held == /\ ring # "read" => held = 0
        /\ ring = "read" => held + cons <= freed

Freed == \A k \in cons .. freed - 1 : skb[k % Size] = None

Scanned == ring \in {"publish", "late"} => cons <= newCons /\ newCons <= freed

\* Until its queues are started, a new ring is not used beyond full_size.  Starting
\* them wakes a queue that was stopped on a full ring, which takes one packet more.
Fresh == port \in {"opened", "raised", "enabled"} =>
  /\ prod <= cons + FullSize
  /\ xmit = "mapped" => prod < cons + FullSize
  /\ xmit \in {"posted", "stop"} \/ stopped \/ prod < cons + FullSize

Numbers == Types /\ Counts /\ Limit /\ Closed /\ Held /\ Scanned /\ Fresh
PortInv == Numbers /\ Mapped /\ Freed /\ SlotsBelongToNic

-------------------------------------------------------------------------------
(* Slots.                                                                  *)

LEMMA Sizes == /\ Size \in Nat \ {0} /\ Size <= Capacity /\ Capacity \in Nat
               /\ FullSize \in Nat /\ FullSize >= 1 /\ FullSize + 1 <= Size
  BY RingAssumption, CapacityAssumption DEF FullSize

LEMMA Division ==
  ASSUME NEW N \in Nat \ {0}, NEW a \in Nat
  PROVE  a = N * (a \div N) + (a % N) /\ a % N \in 0 .. N - 1 /\ a \div N \in Nat
  BY SMT

\* Two different multiples of N are at least N apart.
LEMMA Multiples ==
  ASSUME NEW N \in Nat \ {0}, NEW p \in Nat, NEW q \in Nat, NEW r \in Nat, NEW a, NEW b,
         a = N * p + r, b = N * q + r, a < b
  PROVE  b - a >= N
  <1>1. CASE q <= p
    <2>1. PICK d \in Nat : p = q + d
      BY <1>1
    <2>2. N * p = N * q + N * d /\ N * d \in Nat
      BY <2>1
    <2> QED BY <2>2
  <1>2. CASE q > p
    <2>1. PICK d \in Nat : q = p + 1 + d
      <3>1. q - p - 1 \in Nat /\ q = p + 1 + (q - p - 1)
        BY <1>2
      <3> QED BY <3>1
    <2>2. N * q = N * p + N + N * d /\ N * d \in Nat
      BY <2>1
    <2> QED BY <2>2
  <1> QED BY <1>1, <1>2

\* Packets that are less than the ring's size apart have slots of their own.
LEMMA SlotsDiffer ==
  ASSUME NEW a \in Nat, NEW b \in Nat, a < b, b - a < Size
  PROVE  a % Size # b % Size
  <1>1. SUFFICES ASSUME a % Size = b % Size PROVE FALSE
    OBVIOUS
  <1>2. a = Size * (a \div Size) + (a % Size) /\ a \div Size \in Nat /\ a % Size \in Nat
    BY Division, Sizes, Z3
  <1>3. b = Size * (b \div Size) + (a % Size) /\ b \div Size \in Nat
    <2>1. b = Size * (b \div Size) + (b % Size) /\ b \div Size \in Nat
      BY Division, Sizes, Z3
    <2> QED BY <2>1, <1>1, Zenon
  <1>4. b - a >= Size
    BY <1>2, <1>3, Multiples, Sizes, Zenon
  <1> QED BY <1>4, Sizes

LEMMA SlotOf == ASSUME NEW a \in Nat PROVE a % Size \in Slot
  BY Division, Sizes, Z3 DEF Slot

LEMMA OtherSlots ==
  ASSUME NEW n \in Nat, NEW k \in Nat, k # n, k - n < Size, n - k < Size
  PROVE  k % Size \in Slot /\ k % Size # n % Size
  <1>1. CASE k < n
    BY <1>1, SlotsDiffer, SlotOf
  <1>2. CASE n < k
    <2>1. n % Size # k % Size
      BY <1>2, SlotsDiffer
    <2> QED BY <2>1, SlotOf
  <1> QED BY <1>1, <1>2

LEMMA OwnSlot ==
  ASSUME NEW f \in [Slot -> Nat \cup {None}], NEW n \in Nat, NEW v \in Nat \cup {None}
  PROVE  /\ [f EXCEPT ![n % Size] = v][n % Size] = v
         /\ [f EXCEPT ![n % Size] = v] \in [Slot -> Nat \cup {None}]
  BY SlotOf, Zenon

-------------------------------------------------------------------------------
(* Each step keeps the invariant.                                          *)

\* A step that leaves the ring's pointers and slots alone keeps what is said of them.
LEMMA SlotsStay ==
  ASSUME PortInv, UNCHANGED <<prod, cons, freed, skb>>
  PROVE  Freed' /\ SlotsBelongToNic'
  BY DEF PortInv, Freed, SlotsBelongToNic

LEMMA InitHolds == PortInit => PortInv
  <1> SUFFICES ASSUME PortInit PROVE PortInv
    OBVIOUS
  <1> USE DEF PortInit, Init, NoteInit
  <1>1. Types
    BY Zenon DEF Types
  <1>2. Numbers
    BY <1>1, Sizes DEF Numbers, Counts, Limit, Closed, Held, Scanned, Fresh
  <1>3. Mapped /\ Freed /\ SlotsBelongToNic
    BY Sizes DEF Mapped, Freed, SlotsBelongToNic
  <1> QED BY <1>2, <1>3 DEF PortInv

LEMMA MapStep ==
  ASSUME PortInv, NEW m \in BOOLEAN, MapPacket(m), PortUp, UNCHANGED lifeVars
  PROVE  PortInv'
  <1> USE DEF PortInv, Numbers, Types
  <1>0. port # "gone" /\ UNCHANGED <<unread, held, doorbell, sent, freed, newCons, prod, cons,
                                     done, stopped, ring, port>>
    BY DEF MapPacket, PortUp, noteVars, pollVars, lifeVars
  <1>1. skb' = [skb EXCEPT ![prod % Size] = prod] /\ xmit = "idle" /\ ~stopped /\ xmit' = "mapped"
    BY DEF MapPacket
  <1>2. Types'
    BY <1>0, <1>1, OwnSlot, Zenon
  <1>3. Numbers'
    BY <1>0, <1>1, <1>2, Sizes DEF Counts, Limit, Closed, Held, Scanned, Fresh
  <1>t. skb \in [Slot -> Nat \cup {None}] /\ prod \in Nat /\ prod \in Nat \cup {None}
    OBVIOUS
  <1>4. skb'[prod % Size] = prod
    <2>1. [skb EXCEPT ![prod % Size] = prod][prod % Size] = prod
      BY <1>t, OwnSlot
    <2> QED BY <1>1, <2>1
  <1>5. prod <= cons + FullSize
    BY <1>0, <1>1 DEF Limit
  <1>6. \A k \in cons .. prod - 1 : k % Size \in Slot /\ k % Size # prod % Size
    <2> TAKE k \in cons .. prod - 1
    <2>1. k \in Nat /\ k # prod /\ k - prod < Size /\ prod - k < Size
      BY <1>5, Sizes
    <2> QED BY <1>t, <2>1, OtherSlots
  <1>7. \A s \in Slot : s # prod % Size => skb'[s] = skb[s]
    BY <1>1, <1>t
  <1>8. Freed'
    <2>1. \A k \in cons .. freed - 1 : k \in cons .. prod - 1
      BY DEF Counts
    <2> QED BY <1>0, <1>6, <1>7, <2>1, Zenon DEF Freed
  <1>9. SlotsBelongToNic'
    <2>1. \A k \in freed .. prod - 1 : k \in cons .. prod - 1
      BY DEF Counts
    <2> QED BY <1>0, <1>6, <1>7, <2>1, Zenon DEF SlotsBelongToNic
  <1> QED BY <1>0, <1>3, <1>4, <1>5, <1>8, <1>9 DEF Mapped

LEMMA DropStep ==
  ASSUME PortInv, NEW m \in BOOLEAN, DropPacket(m), UNCHANGED lifeVars
  PROVE  PortInv'
  <1>1. UNCHANGED <<unread, held, doorbell, sent, freed, newCons, prod, cons,
                    skb, stopped, ring, xmit, port>>
    BY DEF DropPacket, noteVars, pollVars, ringVars, lifeVars
  <1> QED BY <1>1 DEF PortInv, Numbers, Types, Counts, Limit, Closed, Held, Scanned, Fresh,
                      Mapped, Freed, SlotsBelongToNic

LEMMA PostStep ==
  ASSUME PortInv, PostPacket, port # "gone", UNCHANGED <<port, quiesced>>
  PROVE  PortInv'
  <1> USE DEF PortInv, Numbers, Types
  <1>1. /\ UNCHANGED <<unread, held, doorbell, sent, freed, newCons, cons, skb, stopped, ring, port>>
        /\ xmit = "mapped" /\ xmit' = "posted" /\ prod' = prod + 1
    BY DEF PostPacket, noteVars, pollVars
  <1>2. prod <= cons + FullSize /\ skb[prod % Size] = prod
    BY <1>1 DEF Mapped
  <1>3. Numbers' /\ Mapped'
    BY <1>1, <1>2, Sizes DEF Counts, Limit, Closed, Held, Scanned, Fresh, Mapped
  <1>4. Freed'
    BY <1>1 DEF Freed
  <1>5. SlotsBelongToNic'
    <2>1. \A k \in freed .. prod : k = prod \/ k \in freed .. prod - 1
      OBVIOUS
    <2>2. \A k \in freed .. prod : skb[k % Size] = k
      BY <1>2, <2>1, Zenon DEF SlotsBelongToNic
    <2>3. freed' .. prod' - 1 = freed .. prod
      BY <1>1
    <2> QED BY <1>1, <2>2, <2>3, Zenon DEF SlotsBelongToNic
  <1> QED BY <1>3, <1>4, <1>5

LEMMA XmitStep ==
  ASSUME PortInv, TestFull \/ StopQueue \/ RingDoorbell(RingListens) \/ Recheck,
         port # "gone", UNCHANGED <<port, quiesced>>
  PROVE  PortInv'
  <1> USE DEF PortInv, Numbers, Types
  <1>1. UNCHANGED <<unread, held, sent, freed, newCons, prod, cons, skb, ring, port>>
    BY DEF TestFull, StopQueue, RingDoorbell, Recheck, noteVars, pollVars, ringVars
  <1>2. Freed' /\ SlotsBelongToNic'
    BY <1>1, SlotsStay
  <1>3. doorbell' \in {doorbell, prod} /\ stopped' \in BOOLEAN /\ xmit' # "mapped"
    BY DEF TestFull, StopQueue, RingDoorbell, Announce, Recheck, ringVars
  <1>4. Types' /\ Counts' /\ Closed' /\ Held' /\ Scanned' /\ Mapped'
    BY <1>1, <1>3, Sizes DEF Counts, Closed, Held, Scanned, Mapped
  <1>5. Limit' /\ Fresh'
    <2>1. CASE TestFull
      BY <1>1, <2>1, Sizes DEF TestFull, RingFull, ringVars, Limit, Fresh
    <2>2. CASE StopQueue
      BY <1>1, <2>2, Sizes DEF StopQueue, Limit, Fresh
    <2>3. CASE RingDoorbell(RingListens)
      BY <1>1, <2>3, Sizes DEF RingDoorbell, ringVars, Limit, Fresh
    <2>4. CASE Recheck
      BY <1>1, <2>4, Sizes DEF Recheck, RingFull, Limit, Fresh
    <2> QED BY <2>1, <2>2, <2>3, <2>4
  <1> QED BY <1>2, <1>4, <1>5

LEMMA TransmitStep ==
  ASSUME PortInv, Transmit, UNCHANGED lifeVars
  PROVE  PortInv'
  <1> USE DEF PortInv, Numbers, Types
  <1>1. /\ UNCHANGED <<held, doorbell, freed, newCons, prod, cons, skb, stopped, ring, xmit, port>>
        /\ sent < doorbell /\ sent' = sent + 1
        /\ unread' = IF unread + held < Capacity THEN unread + 1 ELSE unread
    BY DEF Transmit, Deliver, xmitVars, pollVars, ringVars, lifeVars
  <1>2. held + cons <= freed
    BY DEF Held, Counts
  <1>3. unread + held < Capacity
    BY <1>1, <1>2, Sizes DEF Counts
  <1>4. Numbers' /\ Mapped'
    BY <1>1, <1>3, Sizes DEF Counts, Limit, Closed, Held, Scanned, Fresh, Mapped
  <1>5. Freed' /\ SlotsBelongToNic'
    BY <1>1, SlotsStay
  <1> QED BY <1>4, <1>5

LEMMA FreeStep ==
  ASSUME PortInv, FreeDesc, UNCHANGED <<port, quiesced>>
  PROVE  PortInv'
  <1> USE DEF PortInv, Numbers, Types
  <1>1. /\ UNCHANGED <<doorbell, sent, newCons, prod, cons, stopped, ring, xmit, port>>
        /\ ring = "read" /\ unread > 0 /\ freed' = freed + 1
        /\ unread' = unread - 1 /\ held' = held + 1
    BY DEF FreeDesc, At, Read, xmitVars
  <1>2. skb' = [skb EXCEPT ![freed % Size] = None]
    BY DEF FreeDesc
  <1>3. skb \in [Slot -> Nat \cup {None}] /\ freed \in Nat /\ freed < prod
    BY <1>1 DEF Counts
  <1>4. skb'[freed % Size] = None /\ skb' \in [Slot -> Nat \cup {None}]
    <2>1. None \in Nat \cup {None}
      OBVIOUS
    <2>2. /\ [skb EXCEPT ![freed % Size] = None][freed % Size] = None
          /\ [skb EXCEPT ![freed % Size] = None] \in [Slot -> Nat \cup {None}]
      BY <1>3, <2>1, OwnSlot
    <2> QED BY <1>2, <2>2
  <1>5. Numbers'
    BY <1>1, <1>4, Sizes DEF Counts, Limit, Closed, Held, Scanned, Fresh
  <1>6. \A k \in cons .. prod : k # freed /\ (k < prod \/ prod <= cons + FullSize)
                                => k % Size \in Slot /\ k % Size # freed % Size
    <2> TAKE k \in cons .. prod
    <2>1. SUFFICES ASSUME k # freed, k < prod \/ prod <= cons + FullSize
                   PROVE  k % Size \in Slot /\ k % Size # freed % Size
      OBVIOUS
    <2>2. k \in Nat /\ k - freed < Size /\ freed - k < Size
      BY <2>1, <1>3, Sizes DEF Counts
    <2> QED BY <1>3, <2>1, <2>2, OtherSlots
  <1>7. \A s \in Slot : s # freed % Size => skb'[s] = skb[s]
    BY <1>2, <1>3
  <1>8. Mapped'
    <2>1. SUFFICES ASSUME xmit = "mapped", port # "gone"
                   PROVE  prod <= cons + FullSize /\ skb'[prod % Size] = prod
      BY <1>1 DEF Mapped
    <2>2. prod <= cons + FullSize /\ skb[prod % Size] = prod
      BY <2>1 DEF Mapped
    <2>3. prod \in cons .. prod /\ prod # freed
      BY <1>3 DEF Counts
    <2>4. prod % Size \in Slot /\ prod % Size # freed % Size
      BY <1>6, <2>2, <2>3, Zenon
    <2> QED BY <1>7, <2>2, <2>4, Zenon
  <1>9. Freed'
    <2>1. \A k \in cons .. freed : k = freed \/ (k \in cons .. freed - 1 /\ k \in cons .. prod /\ k # freed /\ k < prod)
      BY <1>3
    <2>2. \A k \in cons .. freed : skb'[k % Size] = None
      BY <1>4, <1>6, <1>7, <2>1, Zenon DEF Freed
    <2>3. cons' .. freed' - 1 = cons .. freed
      BY <1>1
    <2> QED BY <2>2, <2>3, Zenon DEF Freed
  <1>10. SlotsBelongToNic'
    <2>1. \A k \in freed' .. prod - 1 : k \in freed .. prod - 1 /\ k \in cons .. prod /\ k # freed /\ k < prod
      BY <1>1 DEF Counts
    <2> QED BY <1>1, <1>6, <1>7, <2>1, Zenon DEF SlotsBelongToNic
  <1> QED BY <1>5, <1>8, <1>9, <1>10

LEMMA ScanStep ==
  ASSUME PortInv, ScanRing, UNCHANGED <<port, quiesced>>
  PROVE  PortInv'
  <1> USE DEF PortInv, Numbers, Types
  <1>1. /\ UNCHANGED <<unread, held, doorbell, sent, freed, prod, cons, skb, stopped, xmit, port>>
        /\ ring = "scan" /\ ring' = "publish"
    BY DEF ScanRing, At, noteVars, xmitVars, ringVars
  <1>2. cons <= newCons' /\ newCons' <= freed /\ newCons' \in Nat
    <2>1. PICK n \in cons .. prod : (\A k \in cons .. n - 1 : skb[k % Size] = None) /\ newCons' = n
      BY DEF ScanRing
    <2>2. n <= freed
      <3>1. SUFFICES ASSUME freed < n PROVE FALSE
        BY <2>1
      <3>2. freed \in cons .. n - 1 /\ freed \in freed .. prod - 1 /\ freed \in Nat
        BY <3>1 DEF Counts
      <3>3. skb[freed % Size] = None
        BY <2>1, <3>2, Zenon
      <3>4. skb[freed % Size] = freed
        BY <3>2, Zenon DEF SlotsBelongToNic
      <3> QED BY <3>2, <3>3, <3>4, RingAssumption
    <2> QED BY <2>1, <2>2
  <1>3. Numbers' /\ Mapped'
    BY <1>1, <1>2, Sizes DEF Counts, Limit, Closed, Held, Scanned, Fresh, Mapped
  <1>4. Freed' /\ SlotsBelongToNic'
    BY <1>1, SlotsStay
  <1> QED BY <1>3, <1>4

LEMMA PublishStep ==
  ASSUME PortInv, WriteConsPtr, UNCHANGED <<port, quiesced>>
  PROVE  PortInv'
  <1> USE DEF PortInv, Numbers, Types
  <1>1. /\ UNCHANGED <<unread, held, doorbell, sent, freed, newCons, prod, skb, stopped, xmit, port>>
        /\ ring \in {"publish", "late"} /\ ring' \in {"wake", "return"} /\ cons' = newCons
    BY DEF WriteConsPtr, At, noteVars, xmitVars
  <1>2. Numbers' /\ Mapped'
    BY <1>1, Sizes DEF Counts, Limit, Closed, Held, Scanned, Fresh, Mapped
  <1>3. Freed'
    <2>1. \A k \in cons' .. freed - 1 : k \in cons .. freed - 1
      BY <1>1 DEF Scanned
    <2> QED BY <1>1, <2>1 DEF Freed
  <1>4. SlotsBelongToNic'
    BY <1>1 DEF SlotsBelongToNic
  <1> QED BY <1>2, <1>3, <1>4

LEMMA PollStep ==
  ASSUME PortInv, WriteCqConsPtr \/ LookFirst \/ WakeQueue \/ ReturnFromPoll,
         UNCHANGED <<port, quiesced>>
  PROVE  PortInv'
  <1> USE DEF PortInv, Numbers, Types
  <1>1. UNCHANGED <<unread, doorbell, sent, freed, newCons, prod, cons, skb, xmit, port>>
    BY DEF WriteCqConsPtr, LookFirst, WakeQueue, ReturnFromPoll, At, Release, Rearm,
           noteVars, xmitVars, ringVars
  <1>2. Freed' /\ SlotsBelongToNic'
    BY <1>1, SlotsStay
  <1>3. Mapped'
    BY <1>1 DEF Mapped
  <1>4. CASE WriteCqConsPtr
    <2>1. held' = 0 /\ ring' = "scan" /\ UNCHANGED stopped
      BY <1>4 DEF WriteCqConsPtr, Release, ringVars
    <2> QED BY <1>1, <1>2, <1>3, <2>1, Sizes DEF Counts, Limit, Closed, Held, Scanned, Fresh
  <1>5. CASE LookFirst
    <2>1. ring = "publish" /\ ring' = "late" /\ UNCHANGED <<held, stopped>>
      BY <1>5 DEF LookFirst, At, noteVars, ringVars
    <2> QED BY <1>1, <1>2, <1>3, <2>1, Sizes DEF Counts, Limit, Closed, Held, Scanned, Fresh
  <1>6. CASE WakeQueue
    <2>1. /\ ring = "wake" /\ ring' = "return" /\ UNCHANGED held
          /\ stopped' = (stopped /\ prod - cons >= FullSize)
      BY <1>6 DEF WakeQueue, At, RingFull, noteVars
    <2> QED BY <1>1, <1>2, <1>3, <2>1, Sizes DEF Counts, Limit, Closed, Held, Scanned, Fresh
  <1>7. CASE ReturnFromPoll
    <2>1. ring = "return" /\ ring' = "read" /\ UNCHANGED <<held, stopped>>
      BY <1>7 DEF ReturnFromPoll, At, Rearm, noteVars, ringVars
    <2> QED BY <1>1, <1>2, <1>3, <2>1, Sizes DEF Counts, Limit, Closed, Held, Scanned, Fresh
  <1> QED BY <1>4, <1>5, <1>6, <1>7

LEMMA CloseStep ==
  ASSUME PortInv, CloseRing
  PROVE  PortInv'
  <1> USE DEF PortInv, Numbers, Types
  <1>1. /\ prod' = 0 /\ cons' = 0 /\ skb' = [s \in Slot |-> None] /\ doorbell' = 0 /\ sent' = 0
        /\ ring' = "read" /\ freed' = 0 /\ newCons' = 0 /\ unread' = 0 /\ held' = 0
        /\ port' = "gone" /\ UNCHANGED <<stopped, xmit>>
    BY DEF CloseRing
  <1>2. Types'
    BY <1>1
  <1>3. Numbers'
    BY <1>1, <1>2, Sizes DEF Counts, Limit, Closed, Held, Scanned, Fresh
  <1>4. Mapped' /\ Freed' /\ SlotsBelongToNic'
    BY <1>1 DEF Mapped, Freed, SlotsBelongToNic
  <1> QED BY <1>3, <1>4

\* The steps of the port that leave the ring alone.
LEMMA LifeStep ==
  ASSUME PortInv, NEW quiet \in BOOLEAN,
         StopQueues(quiet) \/ DisableRing \/ ClearPortUp \/ OpenRing
           \/ RaisePort \/ EnableRing \/ StartQueues
  PROVE  PortInv'
  <1> USE DEF PortInv, Numbers, Types
  <1>1. UNCHANGED <<unread, held, doorbell, sent, freed, newCons, prod, cons, skb, ring, xmit>>
    BY DEF StopQueues, DisableRing, ClearPortUp, OpenRing, RaisePort,
           EnableRing, StartQueues,
           vars, noteVars, xmitVars, pollVars, ringVars
  <1>2. Freed' /\ SlotsBelongToNic'
    BY <1>1, SlotsStay
  <1>3. Types' /\ Counts' /\ Held' /\ Scanned'
    <2>1. stopped' \in BOOLEAN
      BY DEF StopQueues, DisableRing, ClearPortUp, OpenRing, RaisePort,
           EnableRing, StartQueues,
             vars, ringVars
    <2> QED BY <1>1, <2>1 DEF Counts, Held, Scanned
  <1>4. Limit' /\ Closed' /\ Fresh' /\ Mapped'
    <2>1. CASE StopQueues(quiet)
      BY <1>1, <2>1 DEF StopQueues, Limit, Closed, Fresh, Mapped
    <2>2. CASE DisableRing \/ ClearPortUp
      BY <1>1, <2>2 DEF DisableRing, ClearPortUp, vars, ringVars, Limit, Closed, Fresh, Mapped
    <2>3. CASE OpenRing
      BY <1>1, <2>3, Sizes DEF OpenRing, vars, ringVars, Limit, Closed, Fresh, Mapped
    <2>4. CASE RaisePort \/ EnableRing
      BY <1>1, <2>4 DEF RaisePort, EnableRing, vars, ringVars, Limit, Closed, Fresh, Mapped
    <2>5. CASE StartQueues
      BY <1>1, <2>5, Sizes DEF StartQueues, Limit, Closed, Fresh, Mapped
    <2> QED BY <2>1, <2>2, <2>3, <2>4, <2>5
  <1> QED BY <1>2, <1>3, <1>4

\* The token moves; nothing of the ring does.
LEMMA TokenStep ==
  ASSUME PortInv, Notify \/ PollNothing
  PROVE  PortInv'
  <1>1. UNCHANGED <<unread, held, doorbell, sent, freed, newCons, prod, cons,
                    skb, stopped, ring, xmit, port>>
    BY DEF Notify, PollNothing, Raise, Schedule, Rearm, xmitVars, pollVars, ringVars, lifeVars
  <1> QED BY <1>1 DEF PortInv, Numbers, Types, Counts, Limit, Closed, Held, Scanned, Fresh,
                      Mapped, Freed, SlotsBelongToNic

-------------------------------------------------------------------------------
(* The theorems.                                                           *)

LEMMA PortInvHolds == PortSpec => []PortInv
  <1>1. PortInv /\ [PortNext]_allVars => PortInv'
    <2> SUFFICES ASSUME PortInv, [PortNext]_allVars PROVE PortInv'
      OBVIOUS
    <2>1. CASE UNCHANGED allVars
      <3>1. UNCHANGED <<unread, held, doorbell, sent, freed, newCons, prod, cons,
                        skb, stopped, ring, xmit, port>>
        BY <2>1 DEF allVars, lifeVars, vars, noteVars, xmitVars, pollVars, ringVars
      <3> QED BY <3>1 DEF PortInv, Numbers, Types, Counts, Limit, Closed, Held, Scanned, Fresh,
                          Mapped, Freed, SlotsBelongToNic
    <2>2. CASE \E quiet \in BOOLEAN : StopQueues(quiet)
      BY <2>2, LifeStep
    <2>3. CASE OpenRing \/ DisableRing \/ ClearPortUp \/ Starting
      BY <2>3, LifeStep DEF Starting
    <2>4. CASE CloseRing
      BY <2>4, CloseStep
    <2>5. CASE CallDriver
      <3>1. PICK m \in BOOLEAN : DropPacket(m) \/ (PortUp /\ MapPacket(m))
        BY <2>5 DEF CallDriver
      <3> QED BY <2>5, <3>1, DropStep, MapStep DEF CallDriver
    <2>6. CASE Driver
      BY <2>6, PostStep, XmitStep DEF Driver, Xmit
    <2>7. CASE NicTransmits
      BY <2>7, TransmitStep DEF NicTransmits
    <2>8. CASE Notify \/ PollNothing
      BY <2>8, TokenStep
    <2>9. CASE PollPort
      BY <2>9, FreeStep, ScanStep, PublishStep, PollStep DEF PollPort, Poll
    <2> QED BY <2>1, <2>2, <2>3, <2>4, <2>5, <2>6, <2>7, <2>8, <2>9 DEF PortNext, Stopping
  <1> QED BY InitHolds, <1>1, PTL DEF PortSpec

\* A packet that is posted and not reported sits in its slot, whatever the stack, the
\* poll and a restart of the port do (mqnic_tx.c: tx_info of mqnic_start_xmit and
\* mqnic_process_tx_cq).
THEOREM PortKeepsSlots == PortSpec => []SlotsBelongToNic
  <1>1. PortInv => SlotsBelongToNic
    BY DEF PortInv
  <1> QED BY PortInvHolds, <1>1, PTL

\* No report of the NIC is lost to a full completion queue (mqnic_open_tx_ring gives the
\* queue as many entries as the ring has; mqnic_process_tx_cq gives them back late).
THEOREM PortLosesNoReport == PortSpec => []NoReportIsLost
  <1>1. PortInv => NoReportIsLost
    BY DEF PortInv, Numbers, Counts, NoReportIsLost
  <1> QED BY PortInvHolds, <1>1, PTL

\* A stopped queue keeps half of the ring free, but for the one packet that
\* netif_tx_start_all_queues lets into a ring that filled while the port started
\* (mqnic_netdev.c:167): never do the ring's pointers run into each other.
THEOREM RingIsHalfUsed == PortSpec => [](prod - cons <= FullSize + 1)
  <1>1. PortInv => prod - cons <= FullSize + 1
    BY Sizes DEF PortInv, Numbers, Types, Counts
  <1> QED BY PortInvHolds, <1>1, PTL

-------------------------------------------------------------------------------
(* What closing a ring finds.                                              *)

\* Between two polls, what the poll has freed is published; the poll holds the token.
Polled ==
  /\ done \in Nat
  /\ ring \in {"publish", "late"} => newCons = freed
  /\ ring \in {"wake", "return"} \/ (ring = "read" /\ done = 0) => cons = freed
  /\ signal # "polling" => ring = "read" /\ done = 0

\* The queue of a port that is going down stays stopped, unless it is woken; a stack
\* that was detached does not come back before the queues are started.
Detached ==
  /\ quiesced => xmit = "idle"
  /\ port \in {"stopped", "draining", "down"} => (xmit = "idle" /\ stopped) \/ woken

\* The scan stops where the poll stopped freeing, no earlier: everything up to there is
\* gone.
LEMMA ScanFindsFreed ==
  ASSUME PortInv, ScanRing
  PROVE  newCons' = freed
  <1> USE DEF PortInv, Numbers, Types
  <1>1. PICK n \in cons .. prod :
               /\ \A k \in cons .. n - 1 : skb[k % Size] = None
               /\ n # prod => skb[n % Size] # None
               /\ newCons' = n
    BY DEF ScanRing
  <1>2. ~(freed < n)
    <2> SUFFICES ASSUME freed < n PROVE FALSE
      OBVIOUS
    <2>1. freed \in cons .. n - 1 /\ freed \in freed .. prod - 1 /\ freed \in Nat
      BY DEF Counts
    <2>2. skb[freed % Size] = None
      BY <1>1, <2>1, Zenon
    <2>3. skb[freed % Size] = freed
      BY <2>1, Zenon DEF SlotsBelongToNic
    <2> QED BY <2>1, <2>2, <2>3, RingAssumption
  <1>3. ~(n < freed)
    <2> SUFFICES ASSUME n < freed PROVE FALSE
      OBVIOUS
    <2>1. n \in cons .. freed - 1 /\ n # prod
      BY DEF Counts
    <2>2. skb[n % Size] = None
      BY <2>1, Zenon DEF Freed
    <2> QED BY <1>1, <2>1, <2>2
  <1> QED BY <1>1, <1>2, <1>3

LEMMA StepKeepsPolled ==
  ASSUME PortInv, Polled, [PortNext]_allVars
  PROVE  Polled'
  <1> USE DEF Polled
  <1>0. freed \in Nat /\ done + 1 \in Nat /\ done + 1 # 0
    BY DEF PortInv, Numbers, Types
  <1>1. CASE UNCHANGED <<pollVars, cons>> /\ (signal' # "polling" => signal # "polling")
    BY <1>1 DEF pollVars
  <1>2. CASE CloseRing
    BY <1>2 DEF CloseRing
  <1>3. CASE PollPort
    <2>1. CASE FreeDesc
      <3>1. ring' = "read" /\ done' = done + 1 /\ signal = "polling" /\ signal' = signal
        BY <2>1 DEF FreeDesc, At, Read
      <3> QED BY <1>0, <3>1
    <2>2. CASE WriteCqConsPtr
      <3>1. ring' = "scan" /\ done' = done /\ signal = "polling" /\ signal' = signal
        BY <2>2 DEF WriteCqConsPtr, At, Release
      <3> QED BY <3>1
    <2>3. CASE ScanRing
      <3>1. /\ ring' = "publish" /\ done' = done /\ signal = "polling" /\ signal' = signal
            /\ freed' = freed
        BY <2>3 DEF ScanRing, At, noteVars
      <3>2. newCons' = freed
        BY <2>3, ScanFindsFreed
      <3> QED BY <3>1, <3>2
    <2>4. CASE LookFirst
      BY <2>4 DEF LookFirst, At, noteVars, ringVars
    <2>5. CASE WriteConsPtr
      BY <2>5 DEF WriteConsPtr, At, noteVars
    <2>6. CASE WakeQueue
      BY <2>6 DEF WakeQueue, At, noteVars
    <2>7. CASE ReturnFromPoll
      BY <2>7 DEF ReturnFromPoll, At, ringVars
    <2> QED BY <1>3, <2>1, <2>2, <2>3, <2>4, <2>5, <2>6, <2>7 DEF PollPort, Poll
  <1>4. CASE PollNothing
    BY <1>4 DEF PollNothing, At, pollVars, ringVars
  <1>5. CASE Notify
    BY <1>1, <1>5 DEF Notify, Raise, Schedule, ringVars
  <1>6. CASE CallDriver \/ Driver \/ NicTransmits
    <2>1. UNCHANGED <<pollVars, cons, signal>>
      BY <1>6 DEF CallDriver, DropPacket, MapPacket, Driver, Xmit, PostPacket, TestFull, StopQueue,
                  RingDoorbell, Recheck, NicTransmits, Transmit, Deliver, noteVars, ringVars
    <2> QED BY <1>1, <2>1
  <1>7. CASE \/ \E quiet \in BOOLEAN : StopQueues(quiet)
             \/ OpenRing \/ DisableRing \/ ClearPortUp \/ Starting
             \/ UNCHANGED allVars
    <2>1. UNCHANGED <<pollVars, cons, signal>>
      BY <1>7 DEF StopQueues, OpenRing, DisableRing, ClearPortUp, Starting, RaisePort,
                  EnableRing, StartQueues,
                  allVars, vars, noteVars, ringVars
    <2> QED BY <1>1, <2>1
  <1> QED BY <1>2, <1>3, <1>4, <1>5, <1>6, <1>7 DEF PortNext, Stopping

LEMMA StepKeepsDetached ==
  ASSUME Detached, [PortNext]_allVars
  PROVE  Detached'
  <1> USE DEF Detached
  <1>1. CASE UNCHANGED <<xmit, stopped, port, quiesced>> /\ (woken => woken')
    BY <1>1
  <1>2. CASE \E quiet \in BOOLEAN : StopQueues(quiet)
    BY <1>2 DEF StopQueues, xmitVars
  <1>3. CASE OpenRing \/ Stopping
    BY <1>3 DEF OpenRing, Stopping, DisableRing, ClearPortUp, CloseRing, vars, xmitVars, ringVars
  <1>4. CASE Starting
    BY <1>4 DEF Starting, RaisePort, EnableRing, StartQueues, vars, xmitVars, ringVars
  <1>5. CASE CallDriver
    <2>1. PICK m \in BOOLEAN : DropPacket(m) \/ MapPacket(m)
      BY <1>5 DEF CallDriver
    <2>2. ~quiesced /\ ~stopped /\ UNCHANGED <<port, quiesced, woken, stopped>>
      BY <1>5, <2>1 DEF CallDriver, DropPacket, MapPacket, lifeVars, ringVars
    <2> QED BY <2>2
  <1>6. CASE Driver
    <2>1. xmit # "idle" /\ UNCHANGED <<port, quiesced>> /\ (woken => woken')
      BY <1>6 DEF Driver, Xmit, PostPacket, TestFull, StopQueue, RingDoorbell, Recheck, Woken
    <2> QED BY <2>1
  <1>7. CASE PollPort
    <2>1. /\ UNCHANGED <<port, quiesced, xmit>>
          /\ woken' = (woken \/ (port # "up" /\ stopped /\ ~stopped'))
      BY <1>7 DEF PollPort, Poll, FreeDesc, WriteCqConsPtr, ScanRing, LookFirst, WriteConsPtr,
                  WakeQueue, ReturnFromPoll, Woken, xmitVars
    <2> QED BY <2>1
  <1>8. CASE NicTransmits \/ Notify \/ PollNothing \/ UNCHANGED allVars
    <2>1. UNCHANGED <<xmit, stopped, port, quiesced, woken>>
      BY <1>8 DEF NicTransmits, Transmit, Notify, PollNothing, allVars, lifeVars, vars, xmitVars,
                  ringVars
    <2> QED BY <1>1, <2>1
  <1> QED BY <1>2, <1>3, <1>4, <1>5, <1>6, <1>7, <1>8 DEF PortNext

LEMMA ClosingHolds == PortSpec => [](Polled /\ Detached)
  <1>1. PortInit => Polled /\ Detached
    BY DEF PortInit, Init, NoteInit, Polled, Detached
  <1>2. PortInv /\ Polled /\ Detached /\ [PortNext]_allVars => Polled' /\ Detached'
    BY StepKeepsPolled, StepKeepsDetached
  <1> QED BY <1>1, <1>2, PortInvHolds, PTL DEF PortSpec

\* Nobody is inside a ring that is freed, and what is freed with it the poll has not
\* freed before (mqnic_stop_port: netif_tx_disable, napi_disable, mqnic_free_tx_buf).
\* The exception is the code's: a stack that was not detached, and whose queue a poll
\* woke while the port went down, may be on its way into the ring.
THEOREM RingIsFreedWithNobodyInside == PortSpec => RingIsFreedOnce
  <1>1. PortInv /\ Polled /\ Detached /\ [PortNext]_allVars
          => [CloseRing => /\ ring = "read" /\ done = 0 /\ (xmit = "idle" \/ (woken /\ ~quiesced))
                           /\ \A k \in cons .. prod - 1 : skb[k % Size] = k]_allVars
    <2> SUFFICES ASSUME PortInv, Polled, Detached, CloseRing
                 PROVE  /\ ring = "read" /\ done = 0 /\ (xmit = "idle" \/ (woken /\ ~quiesced))
                        /\ \A k \in cons .. prod - 1 : skb[k % Size] = k
      OBVIOUS
    <2>1. ring = "read" /\ done = 0 /\ cons = freed
      BY DEF CloseRing, Polled
    <2>2. xmit = "idle" \/ (woken /\ ~quiesced)
      BY DEF CloseRing, Detached
    <2>3. \A k \in cons .. prod - 1 : skb[k % Size] = k
      BY <2>1, Zenon DEF PortInv, SlotsBelongToNic
    <2> QED BY <2>1, <2>2, <2>3
  <1> QED BY <1>1, PortInvHolds, ClosingHolds, PTL DEF PortSpec, RingIsFreedOnce

===============================================================================
