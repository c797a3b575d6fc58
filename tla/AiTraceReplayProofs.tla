--------------------------- MODULE AiTraceReplayProofs ---------------------------
(* For every trace table and every schedule of windows: one burst per window,    *)
(* its packets numbered without a gap, all of its flow and of its window.       *)
EXTENDS AiTraceReplay, TLAPS

USE DEF NoPacket

\* What an idle engine holds, and the one clock cycle between a window and its burst.
ArmingInv ==
  /\ tx.opens => tx.lit /\ ~pending
  /\ bursts \in {0, 1}
  /\ pending /\ ~tx.opens => bursts = 0

\* How far the burst has come.
NumberInv ==
  /\ state \in {"idle", "wait", "send"} /\ remaining \in Nat /\ lastNum \in Nat
  /\ state # "idle" => lastNum = remaining + 1
  /\ packet.valid \in BOOLEAN
  /\ packet.valid => state = "send" /\ packet.num = remaining /\ remaining > 0

\* What the burst is made of.
SourceInv ==
  /\ state # "idle" => record = source.flow /\ windowId = source.id
  /\ packet.valid => packet.flow = source.flow /\ packet.id = source.id

TableOK == trace \in [Context -> Record] /\ tx \in Window

LEMMA ZeroIsAValue ==
  0 \in Context /\ Blank \in Record /\ 0 \in WindowId /\ Count \subseteq Nat
BY TraceAssumption DEF Blank, Record, WindowId

\* The window opens only out of the dark.
LEMMA WindowStep ==
  ASSUME tx \in Window, WindowEdge
  PROVE  tx' \in Window /\ (tx'.opens => (~tx.lit /\ tx'.lit) \/ tx' = tx)
<1>1. CASE tx.lit /\ tx' = [tx EXCEPT !.opens = FALSE]
  BY <1>1 DEF Window
<1>2. CASE tx.lit /\ tx' = Dark(tx.id)
  BY <1>2, ZeroIsAValue DEF Window, Dark
<1>3. CASE ~tx.lit /\ tx' = tx
  BY <1>3
<1>4. CASE ~tx.lit /\ \E id \in WindowId \ {tx.id}, ai \in BOOLEAN, c \in Context :
              tx' = [lit |-> TRUE, opens |-> TRUE, id |-> id, ai |-> ai, ctx |-> c]
  BY <1>4 DEF Window
<1> QED  BY <1>1, <1>2, <1>3, <1>4 DEF WindowEdge

\* The table keeps its shape and the window one of its contexts.
LEMMA EdgeKeepsTable ==
  ASSUME NEW ready \in BOOLEAN, TableOK, Edge(ready)
  PROVE  TableOK'
<1>1. trace' \in [Context -> Record]
  <2>1. CASE UNCHANGED trace
    BY <2>1 DEF TableOK
  <2>2. CASE WriteWord
    <3>1. PICK c \in Context :
            \/ \E v \in Count : trace' = [trace EXCEPT ![c].count = v]
            \/ \E v \in Gap   : trace' = [trace EXCEPT ![c].gap = v]
            \/ \E v \in Route : trace' = [trace EXCEPT ![c].route = v]
            \/ \E v \in Flow  : trace' = [trace EXCEPT ![c].flow = v]
      BY <2>2 DEF WriteWord
    <3> QED  BY <3>1 DEF TableOK, Record
  <2> QED  BY <2>1, <2>2 DEF Edge
<1>2. tx' \in Window
  BY WindowStep DEF Edge, TableOK
<1> QED  BY <1>1, <1>2 DEF TableOK

\* An edge starts at most one burst in each window.
LEMMA EdgeKeepsArming ==
  ASSUME NEW ready \in BOOLEAN, ArmingInv, TableOK, Edge(ready)
  PROVE  ArmingInv'
<1> DEFINE begins == state = "idle" /\ state' = "wait"
<1>1. bursts' = (IF tx.opens THEN 0 ELSE bursts) + (IF begins THEN 1 ELSE 0)
  BY DEF Edge, Transmit
<1>2. begins => pending /\ Ours /\ ~pending'
  BY DEF Edge, Transmit, InIdle, InWait, InSend, Off, Start
<1>3. pending' => IF tx.opens THEN Ours ELSE pending /\ Ours
  BY DEF Edge, Transmit, InIdle, InWait, InSend, Off, Start, Pending
<1>4. tx'.opens => ~tx.lit /\ tx'.lit
  <2>1. tx'.opens => (~tx.lit /\ tx'.lit) \/ tx' = tx
    BY WindowStep DEF Edge, TableOK
  <2>2. tx.lit /\ tx' = tx => ~tx'.opens
    BY DEF Edge, WindowEdge, Dark, TableOK, Window
  <2> QED  BY <2>1, <2>2 DEF ArmingInv
<1>5. bursts' \in {0, 1}
  BY <1>1, <1>2 DEF ArmingInv
<1>6. pending' => bursts' = 0
  BY <1>1, <1>2, <1>3 DEF ArmingInv
<1>7. tx'.opens => tx'.lit /\ ~pending'
  BY <1>3, <1>4 DEF ArmingInv, Ours
<1> QED  BY <1>5, <1>6, <1>7 DEF ArmingInv

\* The packets of a burst count down by one.
LEMMA EdgeKeepsNumbers ==
  ASSUME NEW ready \in BOOLEAN, TableOK, NumberInv, Edge(ready)
  PROVE  NumberInv'
<1> USE DEF NumberInv
<1>0. Transmit(ready) /\ trace[tx.ctx].count \in Nat
  BY ZeroIsAValue DEF Edge, TableOK, Record, Window
<1>1. CASE ~on
  <2>1. state' = "idle" /\ remaining' = 0 /\ packet' = NoPacket
    BY <1>0, <1>1 DEF Transmit, Off
  <2>2. lastNum' \in Nat
    BY <1>0, <2>1 DEF Transmit, Taken
  <2> QED  BY <2>1, <2>2
<1>2. CASE on /\ InIdle
  <2>1. packet' = NoPacket /\ ~packet.valid
    BY <1>2 DEF InIdle
  <2>2. CASE pending /\ Ours /\ trace[tx.ctx].count # 0
    <3>1. state' = "wait" /\ remaining' = trace[tx.ctx].count
      BY <1>2, <2>2 DEF InIdle, Start
    <3>2. lastNum' = remaining' + 1
      BY <1>0, <1>2, <3>1 DEF Transmit, InIdle
    <3> QED  BY <1>0, <2>1, <3>1, <3>2
  <2>3. CASE ~(pending /\ Ours /\ trace[tx.ctx].count # 0)
    <3>1. state' = "idle" /\ remaining' = remaining
      BY <1>2, <2>3 DEF InIdle
    <3>2. lastNum' = lastNum
      BY <1>0, <2>1, <3>1 DEF Transmit, Taken
    <3> QED  BY <2>1, <3>1, <3>2
  <2> QED  BY <2>2, <2>3
<1>3. CASE on /\ InWait
  <2>1. ~packet.valid /\ remaining' = remaining /\ state = "wait"
    BY <1>3 DEF InWait
  <2>2. lastNum' = lastNum
    BY <1>0, <2>1 DEF Transmit, Taken
  <2>3. CASE packet' = NoPacket /\ state' \in {"idle", "wait"}
    BY <2>1, <2>2, <2>3
  <2>4. CASE packet' = Packet /\ state' = "send" /\ remaining # 0
    BY <2>1, <2>2, <2>4 DEF Packet
  <2> QED  BY <1>3, <2>1, <2>3, <2>4 DEF InWait
<1>4. CASE on /\ InSend(ready)
  <2>1. (state = "send" /\ state' # "send") \/ ~Taken(ready)
    BY <1>4 DEF InSend
  <2>2. CASE ~Taken(ready)
    <3>1. UNCHANGED <<state, remaining, packet>>
      BY <1>4, <2>2 DEF InSend
    <3>2. lastNum' = lastNum
      BY <1>0, <1>4, <2>2, <3>1 DEF Transmit, InSend
    <3> QED  BY <3>1, <3>2
  <2>3. CASE Taken(ready)
    <3>1. packet' = NoPacket /\ packet.valid /\ state = "send"
      BY <1>4, <2>3 DEF InSend, Taken
    <3>2. lastNum' = remaining
      BY <1>0, <2>3, <3>1 DEF Transmit
    <3>3. \/ state' = "wait" /\ remaining' = remaining - 1
          \/ state' = "idle" /\ remaining' = 0
      BY <1>4, <2>3 DEF InSend
    <3> QED  BY <3>1, <3>2, <3>3
  <2> QED  BY <2>2, <2>3
<1> QED  BY <1>0, <1>1, <1>2, <1>3, <1>4 DEF Transmit

\* A burst keeps to the flow and the window it began with, also when the table is
\* written under it.
LEMMA EdgeKeepsSource ==
  ASSUME NEW ready \in BOOLEAN, TableOK, NumberInv, SourceInv, Edge(ready)
  PROVE  SourceInv'
<1>0. Transmit(ready)
  BY DEF Edge
<1>1. CASE ~on
  BY <1>0, <1>1 DEF Transmit, Off, SourceInv
<1>2. CASE on /\ InIdle
  <2>1. packet' = NoPacket
    BY <1>2 DEF InIdle
  <2>2. CASE pending /\ Ours /\ trace[tx.ctx].count # 0
    <3>1. state' = "wait" /\ active' = tx.ctx /\ record' = trace[tx.ctx].flow /\ windowId' = tx.id
      BY <1>2, <2>2 DEF InIdle, Start, Ours
    <3>2. source'.flow = trace[tx.ctx].flow /\ source'.id = tx.id
      BY <1>0, <1>2, <3>1 DEF Transmit, InIdle
    <3> QED  BY <2>1, <3>1, <3>2 DEF SourceInv
  <2>3. CASE ~(pending /\ Ours /\ trace[tx.ctx].count # 0)
    BY <1>2, <2>1, <2>3 DEF InIdle, SourceInv
  <2> QED  BY <2>2, <2>3
<1>3. CASE on /\ InWait
  <2>1. state = "wait" /\ UNCHANGED <<record, windowId, source>>
    BY <1>0, <1>3 DEF InWait, Transmit
  <2>2. packet' = NoPacket \/ packet' = Packet
    BY <1>3 DEF InWait
  <2> QED  BY <2>1, <2>2 DEF SourceInv, Packet
<1>4. CASE on /\ InSend(ready)
  <2>1. state = "send" /\ UNCHANGED <<record, windowId, source>>
    BY <1>0, <1>4 DEF InSend, Transmit
  <2>2. packet' = NoPacket \/ packet' = packet
    BY <1>4 DEF InSend
  <2> QED  BY <2>1, <2>2 DEF SourceInv
<1> QED  BY <1>0, <1>1, <1>2, <1>3, <1>4 DEF Transmit

-------------------------------------------------------------------------------
EngineInv == TableOK /\ ArmingInv /\ NumberInv

LEMMA EngineStart == ReplayInit => EngineInv /\ SourceInv
<1> SUFFICES ASSUME ReplayInit PROVE EngineInv /\ SourceInv
  OBVIOUS
<1>1. TableOK
  BY ZeroIsAValue DEF ReplayInit, TableOK, Dark, Window
<1>2. ArmingInv /\ NumberInv /\ SourceInv
  BY DEF ReplayInit, ArmingInv, NumberInv, SourceInv, Dark, NoSource
<1> QED  BY <1>1, <1>2 DEF EngineInv

LEMMA EngineReset == Reset => EngineInv' /\ SourceInv'
<1> SUFFICES ASSUME Reset PROVE EngineInv' /\ SourceInv'
  OBVIOUS
<1>1. TableOK'
  BY ZeroIsAValue DEF Reset, TableOK, Dark, Window
<1>2. ArmingInv' /\ NumberInv' /\ SourceInv'
  BY DEF Reset, ArmingInv, NumberInv, SourceInv, Dark, NoSource
<1> QED  BY <1>1, <1>2 DEF EngineInv

LEMMA EngineStep == EngineInv /\ [ReplayNext]_replayVars => EngineInv'
<1> SUFFICES ASSUME EngineInv, [ReplayNext]_replayVars PROVE EngineInv'
  OBVIOUS
<1>1. CASE UNCHANGED replayVars
  BY <1>1 DEF EngineInv, TableOK, ArmingInv, NumberInv, replayVars, engineVars, histVars
<1>2. CASE Reset
  BY <1>2, EngineReset
<1>3. CASE \E ready \in BOOLEAN : Edge(ready)
  BY <1>3, EdgeKeepsTable, EdgeKeepsArming, EdgeKeepsNumbers DEF EngineInv
<1> QED  BY <1>1, <1>2, <1>3 DEF ReplayNext

\* However long or short its windows, the engine starts one burst in each at most.
THEOREM OneBurst == ReplaySpec => []OneBurstPerWindow
<1>1. EngineInv => OneBurstPerWindow
  BY DEF EngineInv, ArmingInv, OneBurstPerWindow
<1> QED  BY EngineStart, EngineStep, <1>1, PTL DEF ReplaySpec

\* No packet of a burst is sent twice or left out, for every trace table.
THEOREM NumberedDown == ReplaySpec => []PacketsAreNumberedDown
<1>1. EngineInv => PacketsAreNumberedDown
  BY DEF EngineInv, NumberInv, PacketsAreNumberedDown
<1> QED  BY EngineStart, EngineStep, <1>1, PTL DEF ReplaySpec

\* A burst sends one flow under one window id, however the host rewrites the table
\* meanwhile and in whatever later window its last packets get away.
THEOREM OneFlow == ReplaySpec => []PacketsKeepTheirBurst
<1>1. EngineInv /\ SourceInv /\ [ReplayNext]_replayVars => EngineInv' /\ SourceInv'
  <2> SUFFICES ASSUME EngineInv, SourceInv, [ReplayNext]_replayVars PROVE EngineInv' /\ SourceInv'
    OBVIOUS
  <2>1. EngineInv'
    BY EngineStep
  <2>2. CASE UNCHANGED replayVars
    BY <2>1, <2>2 DEF SourceInv, replayVars, engineVars, histVars
  <2>3. CASE Reset
    BY <2>3, EngineReset
  <2>4. CASE \E ready \in BOOLEAN : Edge(ready)
    BY <2>1, <2>4, EdgeKeepsSource DEF EngineInv
  <2> QED  BY <2>2, <2>3, <2>4 DEF ReplayNext
<1>2. EngineInv /\ SourceInv => PacketsKeepTheirBurst
  BY DEF SourceInv, PacketsKeepTheirBurst
<1> QED  BY EngineStart, <1>1, <1>2, PTL DEF ReplaySpec

===============================================================================
