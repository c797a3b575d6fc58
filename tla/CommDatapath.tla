------------------------------ MODULE CommDatapath ------------------------------
(***************************************************************************)
(* The boundary between host, processor and MAC streams of one NIC         *)
(* (runtime/dni/rtl/core/comm_datapath.v).                                 *)
(*                                                                         *)
(* One step is one clock edge.  It computes the combinational outputs from *)
(* the registers, the streams' valid signals and the inputs of the cycle   *)
(* (macReady, dmaReady), moves the beats that are taken, updates both      *)
(* frame locks, and lets every source decide what it presents next.  A     *)
(* beat carries nothing but the side it belongs to and whether it is the   *)
(* last of its frame; the applications' frames are one beat long           *)
(* (consensus_tx.v:212, ai_trace_replay.v:333, the stub's line 196).        *)
(***************************************************************************)
EXTENDS Naturals

CONSTANT MaxBeats   \* longest frame a test instance sends or receives, in beats

ASSUME MaxBeatsAssumption == MaxBeats \in Nat \ {0}

Host      == "host"
Processor == "processor"
None      == "none"
Side      == {Host, Processor}

VARIABLES
  enable,     \* subsystem_enable: a control register bit
  txSel,      \* tx_sel_reg
  txLock,     \* tx_lock_reg
  hostLeft,   \* beats left of the frame the host's DMA engine sends; 0: no frame
  hostValid,  \* s_axis_dma_tx_tvalid
  procValid,  \* i_processor_tx_valid: an application's beat, seen through its window
  wire,       \* history: the side whose frame the MAC has begun and not finished
  carried,    \* history: the side whose beat the MAC took on the last edge
  rxActive,   \* rx_active_reg
  rxRoute,    \* rx_route_reg
  macLeft,    \* beats left of the frame the MAC delivers; 0: no frame
  macValid,   \* s_axis_mac_rx_tvalid
  looks,      \* what the bytes at the EtherType's place of the current beat say
  heading,    \* history: where the unfinished inbound frame's beats have gone
  delivered   \* history: where the last edge's inbound beat went

txVars == <<txSel, txLock, hostLeft, hostValid, procValid, wire, carried>>
rxVars == <<rxActive, rxRoute, macLeft, macValid, looks, heading, delivered>>
vars   == <<enable, txVars, rxVars>>

-------------------------------------------------------------------------------
(* Transmit: the multiplexer and its lock.                                 *)

Valid(s) == IF s = Host THEN hostValid ELSE procValid
Last(s)  == IF s = Host THEN hostLeft = 1 ELSE TRUE

Preferred == IF procValid THEN Processor ELSE Host
\* Slip: the lock does not hold the multiplexer.
TxSelUnlocked == Preferred
TxSelEff  == IF txLock THEN txSel ELSE Preferred
TxSide    == IF enable THEN TxSelEff ELSE Host

TxFire(ready)      == ready /\ Valid(TxSide)
\* Slip: the lock is never let go by a processor's frame.
TxLastBeatOfHost(ready) == ready /\ TxSelEff = Host /\ hostValid /\ Last(Host)
TxLastBeat(ready)  == ready /\ Valid(TxSelEff) /\ Last(TxSelEff)

TxBeat(ready) ==
  IF TxFire(ready)
  THEN /\ wire' = IF Last(TxSide) THEN None ELSE TxSide
       /\ carried' = TxSide
  ELSE /\ carried' = None
       /\ UNCHANGED wire

TxLockEdge(ready) ==
  IF ~enable THEN txSel' = Host /\ txLock' = FALSE
  ELSE /\ txSel' = IF ~txLock /\ (procValid \/ hostValid) THEN Preferred ELSE txSel
       /\ txLock' = /\ txLock \/ procValid \/ hostValid
                    /\ ~TxLastBeat(ready)

\* The host's DMA engine keeps a beat up until it is taken; a frame follows a frame.
HostSource(fired) ==
  \/ /\ hostValid /\ ~fired
     /\ UNCHANGED <<hostLeft, hostValid>>
  \/ /\ ~hostValid \/ fired
     /\ LET left == IF fired THEN hostLeft - 1 ELSE hostLeft
        IN  IF left = 0 THEN hostLeft' \in 0 .. MaxBeats ELSE hostLeft' = left
     /\ hostValid' \in BOOLEAN /\ (hostValid' => hostLeft' > 0)

Tx(ready) ==
  /\ TxBeat(ready)
  /\ TxLockEdge(ready)
  /\ HostSource(TxSide = Host /\ TxFire(ready))
  \* Windows open and close at any time, with or without a taker; none is open in a
  \* disabled NIC (processor_runtime.v:101).
  /\ procValid' \in BOOLEAN /\ (procValid' => enable')

-------------------------------------------------------------------------------
(* Receive: the classifier and its latched route.                          *)

\* Slip: every beat is classified.
RxRouteUnlatched == looks
RxRouteEff == IF rxActive THEN rxRoute ELSE looks
RxSide     == IF enable THEN RxRouteEff ELSE Host

\* The processor's side takes every beat, whether an application is ready or not.
RxFire(ready) == macValid /\ (RxSide = Processor \/ ready)

RxRouteEdge(fired) ==
  IF ~enable THEN rxActive' = FALSE /\ rxRoute' = Host
  ELSE IF ~fired THEN UNCHANGED <<rxActive, rxRoute>>
  ELSE IF ~rxActive THEN rxActive' = (macLeft # 1) /\ rxRoute' = RxRouteEff
  ELSE IF macLeft = 1 THEN rxActive' = FALSE /\ rxRoute' = Host
  ELSE UNCHANGED <<rxActive, rxRoute>>

\* The MAC keeps a beat up until it is taken.
MacSource(fired) ==
  \/ /\ macValid /\ ~fired
     /\ UNCHANGED <<macLeft, macValid, looks>>
  \/ /\ ~macValid \/ fired
     /\ LET left == IF fired THEN macLeft - 1 ELSE macLeft
        IN  IF left = 0 THEN macLeft' \in 0 .. MaxBeats ELSE macLeft' = left
     /\ macValid' \in BOOLEAN /\ (macValid' => macLeft' > 0)
     /\ looks' \in Side /\ (macValid' \/ looks' = Host)

Rx(ready) ==
  LET fired == RxFire(ready)
  IN  /\ RxRouteEdge(fired)
      /\ heading' = IF ~fired THEN heading ELSE IF macLeft = 1 THEN None ELSE RxSide
      /\ delivered' = IF fired THEN RxSide ELSE None
      /\ MacSource(fired)

-------------------------------------------------------------------------------
Init ==
  /\ enable = FALSE
  /\ txSel = Host /\ txLock = FALSE
  /\ hostLeft = 0 /\ hostValid = FALSE /\ procValid = FALSE
  /\ wire = None /\ carried = None
  /\ rxActive = FALSE /\ rxRoute = Host
  /\ macLeft = 0 /\ macValid = FALSE /\ looks = Host
  /\ heading = None /\ delivered = None

\* Any ready pattern of the MAC and of the host's receive queue; the host writes the
\* enable bit when it likes.
Edge(macReady, dmaReady) == enable' \in BOOLEAN /\ Tx(macReady) /\ Rx(dmaReady)

\* A reset reaches the MAC and the DMA engine with the datapath: every frame is gone.
Reset ==
  /\ txSel' = Host /\ txLock' = FALSE
  /\ hostLeft' = 0 /\ hostValid' = FALSE /\ procValid' = FALSE
  /\ wire' = None /\ carried' = None
  /\ rxActive' = FALSE /\ rxRoute' = Host
  /\ macLeft' = 0 /\ macValid' = FALSE /\ looks' = Host
  /\ heading' = None /\ delivered' = None
  /\ UNCHANGED enable

Next == Reset \/ \E macReady, dmaReady \in BOOLEAN : Edge(macReady, dmaReady)

\* The host moves the enable bit only between frames.
Quiet == enable' = enable \/ (wire' = None /\ heading' = None)
Spec      == Init /\ [][Next]_vars
QuietSpec == Init /\ [][Next /\ Quiet]_vars

-------------------------------------------------------------------------------
(* Properties.                                                             *)

TypeOK ==
  /\ enable \in BOOLEAN
  /\ txSel \in Side /\ txLock \in BOOLEAN
  /\ hostLeft \in 0 .. MaxBeats /\ hostValid \in BOOLEAN /\ (hostValid => hostLeft > 0)
  /\ procValid \in BOOLEAN
  /\ wire \in Side \union {None} /\ carried \in Side \union {None}
  /\ rxActive \in BOOLEAN /\ rxRoute \in Side
  /\ macLeft \in 0 .. MaxBeats /\ macValid \in BOOLEAN /\ (macValid => macLeft > 0)
  /\ looks \in Side
  /\ heading \in Side \union {None} /\ delivered \in Side \union {None}

\* Once the first beat of a frame has been sent, only beats of that frame are sent
\* until its last: two sides' frames never interleave on the wire.
TxFramesStayWhole ==
  [][wire # None /\ carried' # None => carried' = wire]_vars

\* Once the first beat of a received frame has been routed, every later beat of it
\* takes the same way, whatever its payload looks like.
RxFramesStayWhole ==
  [][heading # None /\ delivered' # None => delivered' = heading]_vars

\* Each side's lock agrees with what the MAC and the receivers have seen of the frame.
LocksFollowFrames ==
  /\ wire # Processor
  /\ wire = Host => hostLeft > 0 /\ (enable => txLock /\ txSel = Host)
  /\ heading # None => /\ macLeft > 0
                       /\ enable => rxActive /\ rxRoute = heading
                       /\ ~enable => heading = Host
  /\ enable /\ rxActive => heading = rxRoute

===============================================================================
