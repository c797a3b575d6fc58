------------------------------ MODULE AiTraceReplay ------------------------------
(***************************************************************************)
(* The sending half of runtime/dni/rtl/apps/ai_trace_replay.v in its       *)
(* application slot: one burst of packets for each AI_TX window, taken     *)
(* from a trace table that the host writes word by word through a port of  *)
(* its own.  One step is one clock edge.                                   *)
(*                                                                         *)
(* The windows are what the executor and the processor runtime announce: a *)
(* window starts with its open pulse, is lit until it ends, and is dark    *)
(* for a cycle before the next (TTScheduler's WindowsNeverAbut).  A packet *)
(* is taken by the datapath only while the window is lit, since the        *)
(* runtime cuts the stream off outside it (processor_runtime.v:133-150).   *)
(***************************************************************************)
EXTENDS Naturals

CONSTANTS
  Context,     \* trace table entries a schedule refers to
  Count,       \* packet counts of trace records (word 0)
  Gap,         \* inter-packet gaps (word 1)
  Flow,        \* flow and destination node (words 4, 5), of frames too
  Route,       \* destination MAC and EtherType (words 2, 3)
  IdModulus    \* modulus of the window id, 2^64 in the NIC

ASSUME TraceAssumption ==
  /\ \A Word \in {Context, Count, Gap, Flow, Route} : Word \subseteq Nat /\ 0 \in Word
  /\ IdModulus \in Nat \ {0, 1}

VARIABLES
  trace,      \* trace_mem, by context
  on,         \* i_enable && cfg_enable
  tx,         \* the slot's window: [lit, opens, id, ai (the opcode is AI_TX), ctx]
  state,      \* state_reg
  active,     \* active_trace_reg
  record,     \* flow_id_reg, dst_node_id_reg, payload_seed_reg: words 4 and 5 as captured
  remaining,  \* remaining_pkt_reg
  gap,        \* gap_count_reg
  windowId,   \* window_id_reg
  pending,    \* tx_window_pending_reg
  packet,     \* m_axis_tx_*: the packet presented, or NoPacket
  bursts,     \* history: bursts begun since the window opened
  lastNum,    \* history: number of the packet of this burst that was taken last
  source      \* history: what the trace record and the window said when the burst began

engineVars == <<state, active, record, remaining, gap, windowId, pending, packet>>
histVars   == <<bursts, lastNum, source>>
replayVars       == <<trace, on, tx, engineVars, histVars>>

NoPacket == [valid |-> FALSE]
Record   == [count : Count, gap : Gap, route : Route, flow : Flow]
Blank    == [count |-> 0, gap |-> 0, route |-> 0, flow |-> 0]
NoSource == [flow |-> 0, route |-> 0, id |-> 0]
WindowId == 0 .. (IdModulus - 1)
Window   == [lit : BOOLEAN, opens : BOOLEAN, id : WindowId, ai : BOOLEAN, ctx : Context]

-------------------------------------------------------------------------------
(* The windows of the application's slot.                                  *)

Dark(id) == [lit |-> FALSE, opens |-> FALSE, id |-> id, ai |-> FALSE, ctx |-> 0]

\* A lit window goes on or ends; after the dark, other applications' windows may have
\* moved the id on.
WindowEdge ==
  IF tx.lit THEN tx' \in {[tx EXCEPT !.opens = FALSE], Dark(tx.id)}
  ELSE \/ tx' = tx
       \/ \E id \in WindowId \ {tx.id}, ai \in BOOLEAN, c \in Context :
            tx' = [lit |-> TRUE, opens |-> TRUE, id |-> id, ai |-> ai, ctx |-> c]

\* i_tx_window_active: a lit window whose opcode is ours.  i_tx_allowed is its lit half.
Ours == tx.lit /\ tx.ai

-------------------------------------------------------------------------------
(* The transmit engine.                                                    *)

\* Slip: the flow, too, is read from the table when the packet is built.
PacketLive == [valid |-> TRUE, id |-> windowId, num |-> remaining,
               flow |-> trace[active].flow, route |-> trace[active].route]
\* Slip: every packet carries the burst's length.
PacketWithCount == [valid |-> TRUE, id |-> windowId, num |-> trace[active].count,
                    flow |-> record, route |-> trace[active].route]
\* packet_data, built from the live record and the captured registers
Packet == [valid |-> TRUE, id |-> windowId, num |-> remaining,
           flow |-> record, route |-> trace[active].route]

Taken(ready) == packet.valid /\ ready /\ tx.lit

\* Slip: an opening window of any opcode arms a burst.
PendingOfAny == IF tx.opens THEN tx.lit ELSE pending /\ Ours
\* Arm exactly one burst for each window; forget it when the window ends.
Pending == IF tx.opens THEN Ours ELSE pending /\ Ours

\* Slip: the burst does not use up the window's arming.
StartKeepsPending ==
  /\ active' = tx.ctx
  /\ record' = trace[tx.ctx].flow
  /\ remaining' = trace[tx.ctx].count
  /\ gap' = 0
  /\ windowId' = tx.id
  /\ pending' = Pending
  /\ state' = "wait"
Start ==
  /\ active' = tx.ctx
  /\ record' = trace[tx.ctx].flow
  /\ remaining' = trace[tx.ctx].count
  /\ gap' = 0
  /\ windowId' = tx.id
  /\ pending' = FALSE
  /\ state' = "wait"

InIdle ==
  /\ state = "idle"
  /\ packet' = NoPacket
  /\ IF pending /\ Ours /\ trace[tx.ctx].count # 0
     THEN Start
     ELSE pending' = Pending /\ UNCHANGED <<state, active, record, remaining, gap, windowId>>

InWait ==
  /\ state = "wait"
  /\ pending' = Pending
  /\ UNCHANGED <<active, record, remaining, windowId>>
  /\ \/ /\ ~Ours \/ remaining = 0
        /\ state' = "idle" /\ packet' = NoPacket
        /\ UNCHANGED gap
     \/ /\ Ours /\ remaining # 0 /\ gap # 0
        /\ gap' = gap - 1 /\ packet' = NoPacket
        /\ UNCHANGED state
     \/ /\ Ours /\ remaining # 0 /\ gap = 0
        /\ state' = "send" /\ packet' = Packet
        /\ UNCHANGED gap

InSend(ready) ==
  /\ state = "send"
  /\ pending' = Pending
  /\ UNCHANGED <<active, record, windowId>>
  /\ \/ /\ ~Taken(ready)
        /\ UNCHANGED <<state, remaining, gap, packet>>
     \/ /\ Taken(ready)
        /\ packet' = NoPacket
        /\ IF remaining > 1 /\ Ours
           THEN /\ state' = "wait"
                /\ remaining' = remaining - 1
                /\ gap' = trace[active].gap
           ELSE /\ state' = "idle" /\ remaining' = 0
                /\ UNCHANGED gap

Off ==
  /\ state' = "idle" /\ remaining' = 0 /\ gap' = 0 /\ pending' = FALSE
  /\ packet' = NoPacket
  /\ UNCHANGED <<active, record, windowId>>

Transmit(ready) ==
  /\ IF on THEN InIdle \/ InWait \/ InSend(ready) ELSE Off
  /\ LET begins == state = "idle" /\ state' = "wait"
     IN /\ bursts' = (IF tx.opens THEN 0 ELSE bursts) + (IF begins THEN 1 ELSE 0)
        /\ source' = IF begins THEN [flow |-> trace[tx.ctx].flow, route |-> trace[tx.ctx].route,
                                     id |-> tx.id]
                      ELSE source
        /\ lastNum' = IF begins THEN trace[tx.ctx].count + 1
                      ELSE IF Taken(ready) THEN packet.num ELSE lastNum

-------------------------------------------------------------------------------
(* The host: the enable register and the table port.                       *)

WriteWord ==
  \E c \in Context :
    \/ \E v \in Count : trace' = [trace EXCEPT ![c].count = v]
    \/ \E v \in Gap   : trace' = [trace EXCEPT ![c].gap = v]
    \/ \E v \in Route : trace' = [trace EXCEPT ![c].route = v]
    \/ \E v \in Flow  : trace' = [trace EXCEPT ![c].flow = v]

ReplayInit ==
  /\ trace = [c \in Context |-> Blank]
  /\ on = FALSE
  /\ tx = Dark(0)
  /\ state = "idle" /\ remaining = 0 /\ gap = 0 /\ windowId = 0 /\ record = 0
  /\ active = 0
  /\ pending = FALSE /\ packet = NoPacket
  /\ bursts = 0 /\ lastNum = 0 /\ source = NoSource

Edge(ready) == Transmit(ready) /\ WindowEdge /\ on' \in BOOLEAN /\ (WriteWord \/ UNCHANGED trace)

Reset ==
  /\ trace' = [c \in Context |-> Blank]
  /\ tx' = Dark(0)
  /\ state' = "idle" /\ remaining' = 0 /\ gap' = 0 /\ windowId' = 0 /\ record' = 0
  /\ active' = 0
  /\ pending' = FALSE /\ packet' = NoPacket
  /\ bursts' = 0 /\ lastNum' = 0 /\ source' = NoSource
  /\ UNCHANGED on

ReplayNext == Reset \/ \E ready \in BOOLEAN : Edge(ready)

ReplaySpec == ReplayInit /\ [][ReplayNext]_replayVars

-------------------------------------------------------------------------------
(* Properties.                                                             *)

\* Each scheduled window arms exactly one burst: it is not started again before the
\* next window opens.
OneBurstPerWindow == bursts <= 1

\* The packets of a burst are sent one by one, none twice and none left out, and each
\* carries the count of those still to go.
PacketsAreNumberedDown == packet.valid => packet.num > 0 /\ packet.num + 1 = lastNum

\* Whatever the host writes into the table meanwhile, and however late a packet gets
\* away, every packet of a burst carries the flow and the window id with which the
\* burst began.
PacketsKeepTheirBurst ==
  packet.valid => packet.flow = source.flow /\ packet.id = source.id

\* What ai_trace_replay.v:304-307 says of the whole record: the engine remains pinned to
\* it until the burst completes or the window closes.
BurstIsPinned ==
  packet.valid /\ tx.lit /\ tx.id = packet.id =>
    packet.flow = source.flow /\ packet.route = source.route

===============================================================================
