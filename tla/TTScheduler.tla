------------------------------ MODULE TTScheduler ------------------------------
(***************************************************************************)
(* The time-triggered executor of the deterministic network interface      *)
(* (runtime/dni/rtl/core/tt_scheduler.v) together with the double-banked   *)
(* table it reads (core/exec_table.v).                                     *)
(*                                                                         *)
(* Every step is one positive clock edge.  All registers are read before   *)
(* the edge and written by it, so the primed values below are what the     *)
(* rest of the NIC sees in the following cycle.  The TX and the RX half of *)
(* the RTL are the same circuit twice; they are the elements of Channel,   *)
(* coupled by the bank registers and by the clock.                         *)
(***************************************************************************)
EXTENDS Naturals

CONSTANTS
  Channel,      \* the executor's halves: the TX and the RX channel
  EntryCount,   \* entries per channel and bank
  Time,         \* values of the PTP time input
  Advance,      \* pairs <<t, u>>: the time input may go from t to u in a cycle
  App,          \* application ids an entry may name
  NoApp,        \* the application id 0 of an idle output
  HostEntry,    \* the entries whose words software writes into the table
  IdModulus     \* number of window ids (2^64 in the RTL)

Bank  == {0, 1}
Index == 0 .. EntryCount - 1
Flag  == {"valid", "enable", "completion"}
Entry == [start : Time, end : Time, flags : SUBSET Flag, app : App \cup {NoApp}]

\* An all-zero table entry, the contents of the table after reset.
Cleared == [start |-> 0, end |-> 0, flags |-> {}, app |-> NoApp]

ASSUME ConstantsAssumption ==
  /\ EntryCount \in Nat \ {0}
  /\ IdModulus \in Nat \ {0}
  /\ Time \subseteq Nat /\ 0 \in Time
  /\ Advance \subseteq Time \X Time
  /\ HostEntry \subseteq Entry

VARIABLES
  now,           \* i_ptp_time_ns as the next edge samples it
  enable,        \* core_enable: i_enable and cfg_exec_enable
  table,         \* the execution table: bank, channel, index -> entry
  activeBank, pendingValid, pendingBank, pendingTime,
  restart,       \* restart_pulse_reg
  initialized,   \* per channel: the pointer has been brought to entry 0
  active,        \* per channel: tx_window_active_reg / rx_window_active_reg
  windowId,      \* per channel: o_*_current_window_id
  ptr,           \* per channel: o_*_current_entry_ptr
  open, close, commit,    \* per channel: the one-cycle pulses
  execValid,     \* per channel: o_tx_exec_valid / o_rx_exec_valid
  allowed,       \* per channel: o_tx_allowed / o_rx_enabled, = o_*_window_active
  app,           \* per channel: o_*_app_id and the other decoded fields
  windowBank     \* history: the bank each channel's open window was read from

bankVars    == <<activeBank, pendingValid, pendingBank, pendingTime, restart>>
channelVars == <<initialized, active, windowId, ptr, open, close, commit,
                 execValid, allowed, app, windowBank>>
vars        == <<now, enable, table, bankVars, channelVars>>

-------------------------------------------------------------------------------
(* The combinational part: what the entry under the pointer says now.      *)

Current(c)    == table[activeBank][c][ptr[c]]
Armed(e)      == {"valid", "enable"} \subseteq e.flags
\* Slip: the end of the entry is taken to be inside it.
EvalActiveInclusive(c) ==
  Armed(Current(c)) /\ Current(c).start <= now /\ now <= Current(c).end
\* Slip: the start of the entry is not.
EvalActiveAfterStart(c) ==
  Armed(Current(c)) /\ Current(c).start < now /\ now < Current(c).end
EvalActive(c) == Armed(Current(c)) /\ Current(c).start <= now /\ now < Current(c).end
EvalRetire(c) == Armed(Current(c)) /\ now >= Current(c).end

SwitchSafe(c) == ~active[c] \/ EvalRetire(c) \/ ~Armed(Current(c))
\* Slip: the activation time is compared for equality.
CanFlipOnTheDot ==
  pendingValid /\ now = pendingTime /\ \A c \in Channel : SwitchSafe(c)
CanFlipBank   == pendingValid /\ now >= pendingTime /\ \A c \in Channel : SwitchSafe(c)

\* Slip: the channels are not restarted after a flip.
HeldOnlyWhenDisabled == ~enable

\* The branches of the channel process, in the order the RTL tests them.
Held      == ~enable \/ restart
Runs(c)   == ~Held /\ initialized[c]
\* Slip: an open window is not a reason not to open.
OpensAlways(c) == Runs(c) /\ EvalActive(c)
Opens(c)  == Runs(c) /\ ~active[c] /\ EvalActive(c)
Closes(c) == Runs(c) /\ active[c] /\ EvalRetire(c)
Stays(c)  == Runs(c) /\ ~Opens(c) /\ ~Closes(c)

\* Slip: the gate is dropped a cycle after the window register.
LitUntilNextEdge(c) == Opens(c) \/ (Runs(c) /\ active[c])
Lit(c) == Opens(c) \/ (Stays(c) /\ active[c] /\ EvalActive(c))

\* Slip: the pointer counts past the last entry.
NextPtrUnbounded(c) == ptr[c] + 1
NextPtr(c) == (ptr[c] + 1) % EntryCount

-------------------------------------------------------------------------------
(* The clocked part.                                                       *)

NoRequest == [valid |-> FALSE, bank |-> 0, time |-> 0]

\* Slip: a flip does not consume the request.
BankEdgeKeepsPending(request) ==
  /\ restart' = CanFlipBank
  /\ pendingValid' = (pendingValid \/ request.valid)
  /\ pendingBank' = IF request.valid THEN request.bank ELSE pendingBank
  /\ pendingTime' = IF request.valid THEN request.time ELSE pendingTime
  /\ activeBank' = IF CanFlipBank THEN pendingBank ELSE activeBank

\* The bank process.  The flip is written after the latch of a new request, so
\* in a cycle that does both the flip's clearing of pendingValid wins.
BankEdge(request) ==
  LET flip == CanFlipBank IN
  /\ restart' = flip
  /\ pendingValid' = (~flip /\ (pendingValid \/ request.valid))
  /\ pendingBank' = IF request.valid THEN request.bank ELSE pendingBank
  /\ pendingTime' = IF request.valid THEN request.time ELSE pendingTime
  /\ activeBank' = IF flip THEN pendingBank ELSE activeBank

\* The channel process, for both channels.
ChannelEdge ==
  /\ initialized' = [c \in Channel |-> ~Held \/ restart]
  /\ active'    = [c \in Channel |-> Opens(c) \/ (Stays(c) /\ active[c])]
  /\ windowId'  = [c \in Channel |->
                     IF Opens(c) THEN (windowId[c] + 1) % IdModulus ELSE windowId[c]]
  /\ ptr'       = [c \in Channel |->
                     IF ~Runs(c) THEN 0
                     ELSE IF Closes(c) THEN NextPtr(c) ELSE ptr[c]]
  /\ open'      = [c \in Channel |-> Opens(c)]
  /\ close'     = [c \in Channel |-> Closes(c)]
  /\ commit'    = [c \in Channel |-> Closes(c) /\ "completion" \in Current(c).flags]
  /\ execValid' = [c \in Channel |-> Runs(c) /\ Armed(Current(c))]
  /\ allowed'   = [c \in Channel |-> Lit(c)]
  /\ app'       = [c \in Channel |->
                     IF Runs(c) /\ Armed(Current(c)) THEN Current(c).app
                     ELSE IF Held \/ Runs(c) THEN NoApp ELSE app[c]]
  /\ windowBank' = [c \in Channel |->
                     IF Opens(c) THEN activeBank ELSE IF Stays(c) THEN windowBank[c] ELSE 0]

TimeEdge == \E t \in Time : <<now, t>> \in Advance /\ now' = t

\* One clock edge of the executor; `request` is the arm command it sees.
Edge(request) == TimeEdge /\ BankEdge(request) /\ ChannelEdge

-------------------------------------------------------------------------------
(* One clock edge and what software has put on the register bus for it.    *)

Clock == Edge(NoRequest) /\ UNCHANGED <<enable, table>>

ArmFlip(b, t) ==
  /\ Edge([valid |-> TRUE, bank |-> b, time |-> t])
  /\ UNCHANGED <<enable, table>>

\* The register block writes one word of an entry at a time, so the executor
\* meets every mixture of the old entry and the new one.
OneWord(old, e) ==
  {[old EXCEPT !.start = e.start], [old EXCEPT !.end = e.end],
   [old EXCEPT !.app = e.app], [old EXCEPT !.flags = e.flags]}

WriteWord(b, c, i, e) ==
  /\ Edge(NoRequest)
  /\ \E mixed \in OneWord(table[b][c][i], e) : table' = [table EXCEPT ![b][c][i] = mixed]
  /\ UNCHANGED enable

SetEnable(on) == Edge(NoRequest) /\ enable' = on /\ UNCHANGED table

Dark  == [c \in Channel |-> FALSE]
First == [c \in Channel |-> 0]
Blank == [b \in Bank |-> [c \in Channel |-> [i \in Index |-> Cleared]]]

Init ==
  /\ now \in Time /\ enable = FALSE /\ table = Blank
  /\ activeBank = 0 /\ pendingValid = FALSE /\ pendingBank = 0 /\ pendingTime = 0
  /\ restart = FALSE
  /\ initialized = Dark /\ active = Dark /\ windowId = First /\ ptr = First
  /\ open = Dark /\ close = Dark /\ commit = Dark /\ execValid = Dark
  /\ allowed = Dark /\ app = [c \in Channel |-> NoApp] /\ windowBank = First

\* The rst branch of every process; the register block's enable falls with it.
Reset ==
  /\ TimeEdge /\ enable' = FALSE /\ table' = Blank
  /\ activeBank' = 0 /\ pendingValid' = FALSE /\ pendingBank' = 0 /\ pendingTime' = 0
  /\ restart' = FALSE
  /\ initialized' = Dark /\ active' = Dark /\ windowId' = First /\ ptr' = First
  /\ open' = Dark /\ close' = Dark /\ commit' = Dark /\ execValid' = Dark
  /\ allowed' = Dark /\ app' = [c \in Channel |-> NoApp] /\ windowBank' = First

Software ==
  \/ \E b \in Bank, t \in Time : ArmFlip(b, t)
  \/ \E b \in Bank, c \in Channel, i \in Index, e \in HostEntry : WriteWord(b, c, i, e)
  \/ \E on \in BOOLEAN : SetEnable(on)

Next == Clock \/ Software \/ Reset

Spec == Init /\ [][Next]_vars

-------------------------------------------------------------------------------
(* Properties.                                                             *)

TypeOK ==
  /\ now \in Time /\ enable \in BOOLEAN
  /\ table \in [Bank -> [Channel -> [Index -> Entry]]]
  /\ activeBank \in Bank /\ pendingValid \in BOOLEAN /\ pendingBank \in Bank
  /\ pendingTime \in Time /\ restart \in BOOLEAN
  /\ initialized \in [Channel -> BOOLEAN] /\ active \in [Channel -> BOOLEAN]
  /\ windowId \in [Channel -> 0 .. IdModulus - 1] /\ ptr \in [Channel -> Index]
  /\ open \in [Channel -> BOOLEAN] /\ close \in [Channel -> BOOLEAN]
  /\ commit \in [Channel -> BOOLEAN] /\ execValid \in [Channel -> BOOLEAN]
  /\ allowed \in [Channel -> BOOLEAN]
  /\ app \in [Channel -> App \cup {NoApp}]
  /\ windowBank \in [Channel -> Bank]

(* Inductive invariant.  The pulses and gates a channel drives agree with  *)
(* its internal window register, a channel that has not been brought to    *)
(* entry 0 drives nothing, and a window still open was read from the bank  *)
(* that is executing now, except in the single cycle after a flip in which *)
(* the restart pulse is about to kill it.                                  *)
ChannelInv(c) ==
  /\ active[c] => initialized[c]
  /\ allowed[c] => active[c] /\ execValid[c]
  /\ open[c] => allowed[c]
  /\ close[c] => ~active[c] /\ execValid[c]
  /\ commit[c] => close[c]
  /\ ~initialized[c] => ptr[c] = 0 /\ ~execValid[c]
  /\ ~execValid[c] => app[c] = NoApp
  /\ active[c] /\ ~restart => windowBank[c] = activeBank

ExecutorInv == (restart => ~pendingValid) /\ \A c \in Channel : ChannelInv(c)

\* No window outlives its bank: whatever flips, disables and rewrites software
\* interleaves, a gate that is open one cycle after a flip was opened from the
\* bank that is executing (tt_scheduler.v:200-219 kills the others).
NoWindowOutlivesItsBank ==
  \A c \in Channel : allowed[c] /\ ~restart => windowBank[c] = activeBank

\* A gate is only ever open in a cycle whose edge saw an armed entry of the bank
\* in charge with start <= time < end, however time steps and tables change.
GateOnlyInsideItsEntry ==
  [][\A c \in Channel : allowed'[c] =>
       /\ Armed(Current(c)) /\ app'[c] = Current(c).app
       /\ Current(c).start <= now /\ now < Current(c).end]_vars

\* Two windows of one channel never touch: while a gate stays open its window id
\* is unchanged, so a frame can carry the id of no window but its own.
WindowsNeverAbut ==
  [][\A c \in Channel : allowed[c] /\ allowed'[c] =>
       windowId'[c] = windowId[c] /\ ~open'[c]]_vars

\* The detailed executor implements the abstract gate.
Gate == INSTANCE WindowGate WITH lit <- allowed, id <- windowId
ImplementsWindowGate == Gate!Spec

\* An armed bank takes over: with the clock running, a pending activation is
\* consumed by a flip (or thrown away by a reset) whatever windows are open.
PendingBankTakesOver == pendingValid ~> ~pendingValid

===============================================================================
