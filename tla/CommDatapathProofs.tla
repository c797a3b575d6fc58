--------------------------- MODULE CommDatapathProofs ---------------------------
(* Frames are never split or interleaved by the datapath as long as the enable *)
(* bit moves between frames, for frames of any length and any ready pattern.   *)
EXTENDS CommDatapath, TLAPS

\* Types hold whatever the host does with the enable bit.
LEMMA EdgeTyping ==
  ASSUME NEW m \in BOOLEAN, NEW d \in BOOLEAN, TypeOK, Edge(m, d)
  PROVE  TypeOK'
<1> USE MaxBeatsAssumption DEF TypeOK, Side, Host, Processor, None
<1>1. enable' \in BOOLEAN /\ procValid' \in BOOLEAN
  BY DEF Edge, Tx
<1>2. txSel' \in Side /\ txLock' \in BOOLEAN
  BY DEF Edge, Tx, TxLockEdge, Preferred, TxLastBeat
<1>3. /\ wire' \in Side \union {None}
      /\ carried' \in Side \union {None}
  BY DEF Edge, Tx, TxBeat, TxSide, TxSelEff, Preferred
<1>4. hostLeft' \in 0 .. MaxBeats /\ hostValid' \in BOOLEAN /\ (hostValid' => hostLeft' > 0)
  <2>1. TxSide = Host /\ TxFire(m) => hostValid
    BY DEF TxFire, Valid
  <2>2. HostSource(TxSide = Host /\ TxFire(m))
    BY DEF Edge, Tx
  <2>3. CASE TxSide = Host /\ TxFire(m)
    BY <2>1, <2>2, <2>3 DEF HostSource
  <2>4. CASE ~(TxSide = Host /\ TxFire(m))
    BY <2>2, <2>4 DEF HostSource
  <2> QED  BY <2>3, <2>4
<1>5. rxActive' \in BOOLEAN /\ rxRoute' \in Side
  BY DEF Edge, Rx, RxRouteEdge, RxRouteEff
<1>6. heading' \in Side \union {None} /\ delivered' \in Side \union {None}
  BY DEF Edge, Rx, RxSide, RxRouteEff
<1>7. macLeft' \in 0 .. MaxBeats /\ macValid' \in BOOLEAN /\ (macValid' => macLeft' > 0) /\ looks' \in Side
  <2>1. RxFire(d) => macValid
    BY DEF RxFire
  <2>2. MacSource(RxFire(d))
    BY DEF Edge, Rx
  <2>3. CASE RxFire(d)
    BY <2>1, <2>2, <2>3 DEF MacSource
  <2>4. CASE ~RxFire(d)
    BY <2>2, <2>4 DEF MacSource
  <2> QED  BY <2>3, <2>4
<1> QED  BY <1>1, <1>2, <1>3, <1>4, <1>5, <1>6, <1>7

LEMMA ResetTyping == TypeOK /\ Reset => TypeOK'
<1> SUFFICES ASSUME TypeOK, Reset PROVE TypeOK'
  OBVIOUS
<1>1. 0 \in 0 .. MaxBeats
  BY MaxBeatsAssumption
<1> QED  BY <1>1 DEF TypeOK, Reset, Side

LEMMA InitTyping == Init => TypeOK
<1> SUFFICES ASSUME Init PROVE TypeOK
  OBVIOUS
<1>1. 0 \in 0 .. MaxBeats
  BY MaxBeatsAssumption
<1> QED  BY <1>1 DEF TypeOK, Init, Side

\* The type invariant, for every frame length.
THEOREM TypeCorrect == Spec => []TypeOK
<1>1. TypeOK /\ [Next]_vars => TypeOK'
  <2> SUFFICES ASSUME TypeOK, [Next]_vars PROVE TypeOK'
    OBVIOUS
  <2>1. CASE UNCHANGED vars
    BY <2>1 DEF TypeOK, vars, txVars, rxVars
  <2>2. CASE Reset
    BY <2>2, ResetTyping
  <2>3. CASE \E m, d \in BOOLEAN : Edge(m, d)
    BY <2>3, EdgeTyping
  <2> QED  BY <2>1, <2>2, <2>3 DEF Next
<1> QED  BY InitTyping, <1>1, PTL DEF Spec

-------------------------------------------------------------------------------
\* The transmit lock stands for the frame under way.
LEMMA EdgeKeepsTxLock ==
  ASSUME NEW m \in BOOLEAN, NEW d \in BOOLEAN, TypeOK, LocksFollowFrames, Edge(m, d), Quiet
  PROVE  /\ wire' # Processor
         /\ wire' = Host => hostLeft' > 0 /\ (enable' => txLock' /\ txSel' = Host)
<1> USE DEF Side, Host, Processor, None
<1>1. wire' # Processor
  BY DEF LocksFollowFrames, Edge, Tx, TxBeat, Last
<1>2. ASSUME wire' = Host PROVE hostLeft' > 0
  <2>1. CASE TxFire(m)
    <3>1. TxSide = Host /\ hostLeft # 1 /\ hostValid
      BY <1>2, <2>1 DEF Edge, Tx, TxBeat, Last, TxFire, Valid, TypeOK, TxSide, TxSelEff, Preferred
    <3>2. HostSource(TRUE)
      BY <2>1, <3>1 DEF Edge, Tx
    <3> QED  BY <3>1, <3>2, MaxBeatsAssumption DEF HostSource, TypeOK
  <2>2. CASE ~TxFire(m)
    <3>1. wire = Host /\ hostLeft > 0
      BY <1>2, <2>2 DEF Edge, Tx, TxBeat, LocksFollowFrames
    <3>2. HostSource(FALSE)
      BY <2>2 DEF Edge, Tx
    <3> QED  BY <3>1, <3>2, MaxBeatsAssumption DEF HostSource, TypeOK
  <2> QED  BY <2>1, <2>2
<1>3. ASSUME wire' = Host, enable' PROVE txLock' /\ txSel' = Host
  <2>1. enable
    BY <1>3 DEF Quiet, TypeOK
  <2>2. CASE TxFire(m)
    <3>1. TxSelEff = Host /\ hostLeft # 1 /\ hostValid
      BY <1>3, <2>1, <2>2 DEF Edge, Tx, TxBeat, Last, TxFire, Valid, TypeOK, TxSide, TxSelEff, Preferred
    <3>2. ~TxLastBeat(m)
      BY <3>1 DEF TxLastBeat, Last
    <3> QED  BY <2>1, <3>1, <3>2 DEF Edge, Tx, TxLockEdge, TxSelEff, TypeOK
  <2>3. CASE ~TxFire(m)
    <3>1. wire = Host /\ txLock /\ txSel = Host
      BY <1>3, <2>1, <2>3 DEF Edge, Tx, TxBeat, LocksFollowFrames
    <3>2. ~TxLastBeat(m)
      BY <2>1, <2>3, <3>1 DEF TxLastBeat, TxFire, TxSide
    <3> QED  BY <2>1, <3>1, <3>2 DEF Edge, Tx, TxLockEdge
  <2> QED  BY <2>2, <2>3
<1> QED  BY <1>1, <1>2, <1>3

\* The latched route stands for the frame coming in.
LEMMA EdgeKeepsRxRoute ==
  ASSUME NEW m \in BOOLEAN, NEW d \in BOOLEAN, TypeOK, LocksFollowFrames, Edge(m, d), Quiet
  PROVE  /\ heading' # None => /\ macLeft' > 0
                               /\ enable' => rxActive' /\ rxRoute' = heading'
                               /\ ~enable' => heading' = Host
         /\ enable' /\ rxActive' => heading' = rxRoute'
<1> USE DEF Side, Host, Processor, None
<1>1. RxFire(d) => macValid /\ macLeft > 0
  BY DEF RxFire, TypeOK
<1>2. MacSource(RxFire(d)) /\ RxRouteEdge(RxFire(d))
  BY DEF Edge, Rx
<1>3. heading' = IF ~RxFire(d) THEN heading ELSE IF macLeft = 1 THEN None ELSE RxSide
  BY DEF Edge, Rx
<1>4. ASSUME heading' # None PROVE macLeft' > 0 /\ enable' = enable
  <2>1. enable' = enable
    BY <1>4 DEF Quiet
  <2>2. CASE RxFire(d)
    BY <1>1, <1>2, <1>3, <1>4, <2>1, <2>2, MaxBeatsAssumption DEF MacSource, TypeOK
  <2>3. CASE ~RxFire(d)
    BY <1>2, <1>3, <1>4, <2>1, <2>3, MaxBeatsAssumption DEF MacSource, TypeOK, LocksFollowFrames
  <2> QED  BY <2>2, <2>3, <2>1
<1>5. heading' # None /\ enable' => rxActive' /\ rxRoute' = heading'
  BY <1>1, <1>2, <1>3, <1>4 DEF RxRouteEdge, RxSide, RxRouteEff, LocksFollowFrames, TypeOK
<1>6. heading' # None /\ ~enable' => heading' = Host
  BY <1>3, <1>4 DEF RxSide, LocksFollowFrames
<1>7. enable' /\ rxActive' => heading' = rxRoute'
  <2> SUFFICES ASSUME enable', rxActive' PROVE heading' = rxRoute'
    OBVIOUS
  <2>1. enable
    BY <1>2 DEF RxRouteEdge
  <2> QED  BY <2>1, <1>2, <1>3 DEF RxRouteEdge, RxSide, RxRouteEff, LocksFollowFrames, TypeOK
<1> QED  BY <1>4, <1>5, <1>6, <1>7

\* Both locks agree with the frames, while the enable bit moves only between frames.
THEOREM LocksAgree == QuietSpec => [](TypeOK /\ LocksFollowFrames)
<1>1. Init => LocksFollowFrames
  BY DEF Init, LocksFollowFrames, Host, Processor, None
<1>2. TypeOK /\ LocksFollowFrames /\ [Next /\ Quiet]_vars => (TypeOK /\ LocksFollowFrames)'
  <2> SUFFICES ASSUME TypeOK, LocksFollowFrames, [Next /\ Quiet]_vars
               PROVE  (TypeOK /\ LocksFollowFrames)'
    OBVIOUS
  <2>1. CASE UNCHANGED vars
    BY <2>1 DEF TypeOK, LocksFollowFrames, vars, txVars, rxVars
  <2>2. CASE Reset
    <3>1. LocksFollowFrames'
      BY <2>2 DEF Reset, LocksFollowFrames, Host, Processor, None
    <3> QED  BY <2>2, <3>1, ResetTyping
  <2>3. CASE Quiet /\ \E m, d \in BOOLEAN : Edge(m, d)
    <3>1. PICK m \in BOOLEAN, d \in BOOLEAN : Edge(m, d)
      BY <2>3
    <3>2. TypeOK'
      BY <3>1, EdgeTyping
    <3>3. /\ wire' # Processor
          /\ wire' = Host => hostLeft' > 0 /\ (enable' => txLock' /\ txSel' = Host)
      BY <2>3, <3>1, EdgeKeepsTxLock
    <3>4. /\ heading' # None => /\ macLeft' > 0
                                /\ enable' => rxActive' /\ rxRoute' = heading'
                                /\ ~enable' => heading' = Host
          /\ enable' /\ rxActive' => heading' = rxRoute'
      BY <2>3, <3>1, EdgeKeepsRxRoute
    <3> QED  BY <3>2, <3>3, <3>4 DEF LocksFollowFrames
  <2> QED  BY <2>1, <2>2, <2>3 DEF Next
<1> QED  BY InitTyping, <1>1, <1>2, PTL DEF QuietSpec

\* No frame is split between the two sides of the wire.
THEOREM SentFramesAreWhole == QuietSpec => TxFramesStayWhole
<1>1. TypeOK /\ LocksFollowFrames /\ [Next /\ Quiet]_vars =>
        [wire # None /\ carried' # None => carried' = wire]_vars
  <2> SUFFICES ASSUME TypeOK, LocksFollowFrames, Next, wire # None, carried' # None
               PROVE  carried' = wire
    BY DEF vars, txVars, rxVars
  <2>1. CASE Reset
    BY <2>1 DEF Reset, None
  <2>2. CASE \E m, d \in BOOLEAN : Edge(m, d)
    <3>1. PICK m \in BOOLEAN, d \in BOOLEAN : Edge(m, d)
      BY <2>2
    <3>2. carried' = TxSide
      BY <3>1 DEF Edge, Tx, TxBeat, None
    <3>3. wire = Host
      BY DEF TypeOK, LocksFollowFrames, Side
    <3> QED  BY <3>2, <3>3 DEF LocksFollowFrames, TxSide, TxSelEff
  <2> QED  BY <2>1, <2>2 DEF Next
<1> QED  BY LocksAgree, <1>1, PTL DEF QuietSpec, TxFramesStayWhole

\* No received frame is split between the host and the processor.
THEOREM ReceivedFramesAreWhole == QuietSpec => RxFramesStayWhole
<1>1. TypeOK /\ LocksFollowFrames /\ [Next /\ Quiet]_vars =>
        [heading # None /\ delivered' # None => delivered' = heading]_vars
  <2> SUFFICES ASSUME TypeOK, LocksFollowFrames, Next, heading # None, delivered' # None
               PROVE  delivered' = heading
    BY DEF vars, txVars, rxVars
  <2>1. CASE Reset
    BY <2>1 DEF Reset
  <2>2. CASE \E m, d \in BOOLEAN : Edge(m, d)
    <3>1. PICK m \in BOOLEAN, d \in BOOLEAN : Edge(m, d)
      BY <2>2
    <3>2. delivered' = RxSide
      BY <3>1 DEF Edge, Rx
    <3> QED  BY <3>2 DEF LocksFollowFrames, RxSide, RxRouteEff
  <2> QED  BY <2>1, <2>2 DEF Next
<1> QED  BY LocksAgree, <1>1, PTL DEF QuietSpec, RxFramesStayWhole

===============================================================================
