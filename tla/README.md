# Sync-DCN / Utopia: a TLA+ verification project

The repository builds a synchronous datacenter network: a host control plane compiles
a communication plan into time windows, a *deterministic network interface* (DNI, the
RTL under `runtime/dni`) executes the windows against PTP time, and small applications
in the NIC (consensus, AI trace replay) use the wire only while a window of theirs is
lit. Underneath lies a NIC derived from Corundum, with its kernel driver and the tool
that writes the FPGA's flash. This directory models that chain, from the compiler's
traffic matrices to the consensus verdicts, and of the NIC the paths where several
actors meet: the driver's transmit ring, its completion notification, the restart of a
port, and a flash update. It checks them with TLC on small instances, and proves part
of it with TLAPS for every value of the constants.

Paths below are relative to the repository's root (`src/`). `PROJECT.json` maps every
definition to the lines it models; `rtl/` abbreviates `runtime/dni/rtl/`.

- [The system](#the-system): inventory of components, state, operations, hazards
- [The modules](#the-modules): which module models what, and how it corresponds to the code
- [The runs](#the-runs): what TLC checks, with which bounds and which fairness
- [The proofs](#the-proofs): what holds for every instance, and why
- [Limits](#limits-of-the-models): what is assumed, observed but not claimed, not modelled
- [Plan](#plan)

## The system

```
 toolchain/compiler ──▶ toolchain/lowering ──▶ host/control_plane          (offline / host)
    traffic matrices       table entries          register writes
                                                        │ AXI-Lite
 ┌──────────────────────────────────────────────────────▼─────────────────────────────┐
 │ dni_subsystem: registers ─▶ exec_table (2 banks) ─▶ tt_scheduler ◀── PTP time       │
 │                                                        │ open/close/commit, gate    │
 │                                        processor_runtime (fan-out, stream mux)      │
 │                                         │            │                              │
 │                                  ai_trace_replay  consensus_node (core, tx, rx)     │
 │ host DMA ◀──────────────── comm_datapath ────────────────────▶ MAC                  │
 └─────────────────────────────────────────────────────────────────────────────────────┘
```

| Component | State | Operations | What is hard | What makes it correct |
|---|---|---|---|---|
| Execution table and executor (`rtl/core/exec_table.v`, `tt_scheduler.v`) | two table banks; active bank, pending activation, restart pulse; per channel: pointer, window register, window id, gate, pulses | clock edge; arm; word write; enable; reset | word writes, flips, disables and time steps meet in any order; two channels share one bank register | gates only inside an armed entry of the bank in charge; windows separated; pending bank takes over |
| Register block (`rtl/dni_subsystem.v`) | control, admin bank, activation time, self-clearing arm bit | one register write per edge | reset empties the table but not CTRL; enable is a cycle late | an arm command leaves a pending activation |
| Host control plane (`host/control_plane`) | position in `program_device` | a sequence of register writes | edges, windows and flips between any two writes | never writes the live bank; flips only to whole images |
| Processor runtime (`rtl/core/processor_runtime.v`) | none (combinational) | fan-out of gate and pulses by application id; stream multiplexer | selection follows the gate, which has dropped when the end-of-window pulses come | gates are announced by an open pulse; events reach their application |
| Communication datapath (`rtl/core/comm_datapath.v`) | TX selection and lock, RX route latch | a beat each way per edge | two sources, two sinks, any ready pattern, enable bit moving | frames stay whole and go their own way; host is served |
| AI trace replay (`rtl/apps/ai_trace_replay.v`) | trace table, captured record, counters, armed flag, presented packet | clock edge; table word write; enable | a window may end at any state of the engine; untaken packets outlive it | one burst per window, numbered without a gap, with the flow and window id it began with |
| Consensus core (`rtl/apps/consensus_core.v`) | alive mask, heard masks, knowledge matrix, logs, verdicts, state machine | window opens; frame arrives; completion; detect; commit; halt; clear | crashes in the middle of a broadcast, asymmetric knowledge | survivors agree and do not suspect each other; suspicion is for good |
| Consensus transmit and receive (`rtl/apps/consensus_{node,tx,rx}.v`) | broadcast position; receive filter | send to next node; abort; accept | broadcast cut short; window ids of different NICs | as above, for the cluster |
| Global co-compiler (`toolchain/compiler/utopia_global_compile.py`) | remaining matrix, epoch, time cursor, phases per node | greedy matching; close an epoch; next MoE leg | two ends of a window in two nodes' lists; silence between epochs | every pair served once; one thing at a time per node; ends meet |
| Lowering (`toolchain/lowering`) | entries of one node | expand, sort, check overlap, split by channel | phases of different workloads meet here only | accepted tables can be run in order |
| Fabric switch programs (`runtime/fabric/tofino`) | match tables; a sequencer register | match-action | – | not modelled yet |
| Completion and event queues (`host/nic_driver/mqnic_{cq,eq,irq}.c`, `cpl_queue_manager.v`) | entries with phase bits, producer and consumer pointers on both sides, arm bits, an interrupt, a poll per queue | write an entry; move the producer pointer; raise; interrupt; process events; poll; arm | memory, pointers and arm bits move at different times; queues share an event queue nobody checks for room | one wake-up per queue, never lost; no event lost; unread completions get their poll |
| Transmit ring (`mqnic_tx.c`) | producer and consumer pointer, packet per slot, stopped flag, doorbell | post; stop; ring the doorbell; re-check; process completions; publish; wake | lock-free between the stack's CPU and the poll's; batches; full ring | slots belong to the NIC until reported; stopped queues wake; packets are freed |
| Port life cycle (`mqnic_netdev.c`) | how far a start or stop has come; ring, queue and NAPI context | start; stop; restart under traffic (MTU, ring sizes, channels) | the ring goes away while others use it | a ring is freed once, with nobody inside |
| Flash tool (`platforms/corundum/utils/mqnic-fw.c`, `flash_{spi,bpi}.c`) | flash cells, remaining operations, position in a step | erase a block; program a page; verify a step; fail; be killed | two erase-block sizes, two chips sharing bytes, unreported failures | other segments kept; success means the image can be read |
| NIC driver, the rest; platform, the rest | device registers, tables | – | sequential register access, vendored | not modelled |
| Topology, experiment, orchestration scripts | none | file and SSH I/O | – | not modelled |

The components interact by wires of the same clock domain (everything in the NIC), by
register writes, one clock edge each (host to NIC), by frames (NIC to NIC),
and by artifacts (compiler to host). In the DNI there are no callbacks and no threads:
what makes it hard is that on every edge software may have written one more word, a bank
may flip, time may step and a peer may have crashed. The driver is the opposite: the
network stack, an interrupt, a softirq per queue and the NIC share memory without locks.

`PROJECT.json` lists 40 hazards at the lines where they bite, each with the properties
that would catch it, or with the reason why none does yet.

## The modules

Definitions keep the names of the RTL registers and of the Python functions. An
operator whose comment begins with **Slip** is a plausible mistake in the code beside
it; no specification uses it. Each property has a slip that makes TLC refute it.

### Executor: `WindowGate`, `TTScheduler`, `MCTTScheduler`

`TTScheduler` takes one step per clock edge. `Edge(request)` is all of the RTL's
processes at once: `TimeEdge` (the PTP input moves along a pair in `Advance`),
`BankEdge` (the bank process; a flip written last wins over a request latched in the
same cycle, as non-blocking assignments do) and `ChannelEdge` (the TX and RX process,
the same circuit twice, hence functions over `Channel`). `Held`, `Opens`, `Closes`,
`Stays` are the branches of that process in their order. Software appears as the edge's
companion: `ArmFlip`, `WriteWord` (32-bit words land one at a time, so an entry can be
half old and half new), `SetEnable`. `Reset` is every process's `rst` branch.
`windowBank` is a history variable.

`WindowGate` is the abstract promise: a gate per channel that passes through darkness
from one window id to the next, ids counting up. It is implemented under the mapping
`lit <- allowed, id <- windowId`.

### Host and registers: `HostProgramming`, `MCHostProgramming`

`program_device` as the sequence of register writes it makes: select the admin bank,
the words of all TX and RX entries, the activation time, the arm bit, CTRL. Each write
is an action, and `Idle` lets any number of edges go by between two of them. `RegisterEdge`
is the register block: the arm bit lives one cycle, the executor's enable follows CTRL
one cycle late. `StartProgram` takes no edge, it only puts the host at the head of the
sequence. It has no guard but an idle host: `main()` reads nothing back from the NIC and
takes the bank the artifact names, 1 by default, whatever is active or pending
(`sync_dcn_program.py:654`). `ResetNic` may come at any edge, between two writes or in the
cycle of one, which is then lost (`HostMoves` without its effect); the host does not
notice and goes on with the next write, into an empty table with both bank registers at
their reset values.

What `program_schedule_bank` states for its caller, a bank that is inactive, is therefore
no assumption of the model but a history variable. `astray` is `"now"` for a program
that was started on a bank that was not free, or that a reset has caught; `"once"` when that
happened to an earlier program since the table was last empty; else `"never"`. The
properties of a single program (`HostNeverWritesLiveBank`, `ArmIsLatched`,
`FlipsToWholeImage`) except only the program that is itself astray, and hold of every
other whatever its predecessors did; those about all entries of both banks
(`GateFollowsProgram`, `WindowsEndWithClose`) ask for `"never"`. What happens to an astray
program is in the [Limits](#limits-of-the-models).

### Runtime: `ProcessorRuntime`, `MCProcessorRuntime`, `ProcessorRuntimeProofs`

Functions of the executor's outputs, since the RTL is combinational there: which slot
is selected, and which strobes reach it. The composition (host, registers, executor,
runtime) is one state machine, and `ProcessorRuntimeProofs` holds the theorems about all
three of its layers: the executor, the host in front of it, the runtime behind it.

### Datapath: `CommDatapath`, `MCCommDatapath`, `CommDatapathProofs`

One step is one edge with any ready inputs. The transmit half is the multiplexer and its
lock, the receive half the classifier and its latched route. `wire` and `heading` record
what the neighbours have seen of an unfinished frame. The sources keep a beat up until
it is taken (AXI-Stream), except that an application's beat disappears with its window.
`QuietSpec` moves the enable bit between frames only.

### AI replay: `AiTraceReplay`, `AiTraceReplayProofs`

The transmit engine with its three states, the captured and the live part of a record,
the table's write port. The windows it sees are abstract: they open with a pulse, are
lit, go dark for at least a cycle. This is what `WindowsNeverAbut` and `GateIsAnnounced`
establish of the parts in front of it, for time that does not step back and programs that
did not go astray. Words of the table are written at any cycle, during a burst too, since
`program_device` rewrites the table first, under the schedule that is still running
(`sync_dcn_program.py:410-411`), and the engine does not make it wait. `Packet` takes
from the table what the RTL reads live (length, gap, addresses) and from the registers
what it captures (count, flow, window id). `MCApplications` puts this module and the
cluster below into one run; they share no state, and `machine` says which of them a
behaviour is of (`MCCommDatapath` does the same with the datapath and one replica).

### Consensus: `ConsensusCore`, `ConsensusReplica`, `ConsensusRounds`, `ConsensusProofs`

`ConsensusCore` gives one clock edge as a function of the registers; a mask is a set of
nodes. `ConsensusReplica` puts one core into an arbitrary environment. `ConsensusRounds`
composes a cluster: windows open and close together, broadcasts go out in any order of
senders and in the order of node ids, and a crash may cut one short. Both take the
completion pulse as `consensus_node.v`'s interface promises it. `ConsensusProofs` extends
both (therefore the names `ReplicaInit` .. `ReplicaSpec`), and connects them: each member
of the cluster takes only steps that `ConsensusReplica` allows its environment and itself.

### Compiler: `GlobalCompile`, `GlobalCompileProofs`, `Lowering`, `MCLowering`

`GlobalCompile` schedules a sequence of traffic matrices (one for an AI matrix, two for
a MoE step). `Consider` is one turn of `greedy_matching`'s loop (heaviest pair first),
`CloseEpoch` writes the TX and RX windows and, if work is left, guard, reconfiguration,
guard; `NextLeg` goes from dispatch to combine. `Lowering` turns one node's phases and
its consensus rounds into entries, with the overlap check and the split into the
hardware's tables; a node without any entry is refused as `compile_spec` refuses an
empty `phases[]` list (`compile.py:433`). The code sorts the entries by their start and
compares neighbours; the model keeps a set, and `Follows` says which entries are
neighbours in some order the sort may leave (entries with equal starts follow each other
either way).

### NIC driver: `Notifier`, `EventQueue`, `EventQueueProofs`, `TxRing`, `PortLifecycle`, `PortLifecycleProofs`

`Notifier` is what a completion queue promises: completions wait until they are read, and
one token (arm bit, event or poll) brings the poll. `EventQueue` is how the NIC and the
driver do it, entry by entry: `WriteCompletion` (memory, with the phase bit) and
`CommitCompletion` (pointer, arm bit) are the two stages of `cpl_queue_manager.v`,
`WriteEvent` and `CommitEvent` the same circuit for the event queue, `ProcessEvent` ..
`ArmEventQueue` the interrupt handler, `ReadCompletion` .. `ArmQueue` the NAPI poll. It
implements `Notifier`, with its fairness, under the mapping at the end of the module
(property `ImplementsNotifier`).

`TxRing` therefore EXTENDS `Notifier` and not `EventQueue`: `mqnic_start_xmit` (from
`MapPacket` to `Recheck`) and `mqnic_process_tx_cq` (from `FreeDesc` to
`ReturnFromPoll`), one action per store or load that the other CPU or the NIC can tell
apart. `LookFirst` is the load of the queue's state overtaking the store of `cons_ptr`:
there is no barrier between them. `PortLifecycle` puts the ring under
`mqnic_stop_port` and `mqnic_start_port`, whose steps are `StopQueues` .. `StartQueues`;
`quiet` tells `ndo_stop`, for which the kernel detaches the queue, from a restart under
traffic. `RaisePort` (`port_up = true`) comes before `EnableRing`, as in the code, so
that a packet may be posted and announced to a queue that is not enabled: `RingListens`
says whether the queue manager passes the doorbell on, and `RingDoorbell(heard)` loses it
if not (`queue_manager.v:514-518`). `woken` and `stranded` are history variables.

### Flash tool: `FlashUpdate`, `MCFlashUpdate`, `FlashUpdateProofs`

A run of `mqnic-fw -e` or `-w` is a list of jobs, each worked off in the steps of the
progress loops, a step in erase blocks or pages. A cell holds two nibbles, each a nibble
of a file, of what was there before, erased or spoilt, which is what two chips that
share every byte tell apart. `Spoil` is an operation that fails: a BPI chip reports it,
an SPI chip is not asked. `BoardAssumption` is what the tool takes of the board: segments
that follow each other and meet at boundaries of the blocks lengths are rounded up to.

## The runs

Eight runs pass. Each cfg's constants are the bound; the modules' own actions are not
bounded otherwise, except `MaxRound` in `ConsensusRounds`,
`MaxPackets` in `TxRing` and `MaxRuns` in `FlashUpdate`.

| Run | Question | Instance, and why it is enough |
|---|---|---|
| `banks` | Do gates stay inside the entry and the bank in charge, are windows separate, is the abstract gate implemented, whatever software writes? | Two channels, one entry each per bank, times 0..2 that stall, step by two and wrap, ids modulo 2. Word writes of one entry give every half-written mixture of it with a blank one. One entry per channel still exercises the pointer's wrap and an entry met again; the order of entries is exercised by `programmed`, and every table size by the proofs. Channels are interchangeable (symmetry; no liveness in this run). |
| `programmed` | Does a host that starts programs on any bank at any time, and is met by resets, ever write the live bank, lose an arm, or flip to part of an image, with a program that is not itself astray? Does an armed bank take over in the end? Is a gate lit exactly when its program says, and announced? | Three programs, two of them for the same bank: due in time or late, depending on when they start; short and long, on one channel and on both; one application with a slot and one without; resets between and during writes; times up to 6. Two entries on a channel make an image that can be half-written and a pointer that moves. |
| `frames` | Are frames whole; does the host get through? What may one consensus replica conclude from any frames? | Frames of up to three beats: first, middle and last beat are different cases in both locks. Every ready pattern, windows closing on unsent beats, resets, the enable bit between frames. A replica of three, with a knowledge vector one bit wider than the cluster. |
| `applications` | One burst per window, numbered down, with one flow and window id, whatever is written into the table meanwhile? Do surviving replicas agree, spare each other and detect crashes? | Counts 0 and 2, gaps 0 and 1, two contexts, two flows, ids modulo 2: no packet, a first and a last one; with and without a gap; a record that is rewritten while it is used (addresses, which no property of this run tells apart, vary in `pinned`). Four replicas, two crashes, four windows: a crash in a broadcast shows in the next window's vectors and in the verdict after it, so three windows contain a crash and its consequences, and four contain two of them in sequence. |
| `schedules` | Do schedules serve every pair once, keep nodes to one window, lower to tables that run, and which nodes are refused? | Four nodes; every matrix of up to three pairs with one or two packets, every two legs of up to two pairs; rounds that collide with some plans. Three pairs form chains, stars, triangles and opposite directions, the shapes in which a greedy matching differs. |
| `interrupts` | Can a wake-up be lost or doubled, an event find its queue full, a completion be skipped or read twice? | Two completion queues sharing an event queue of two entries: the smallest in which it can fill. Queues of two entries and pointers modulo four pass the wrap and both phases. A budget that runs out, and up to two writes ahead of their pointer update. |
| `restarts` | Does a slot ever change hands too early, a report get lost, a queue sleep, a packet stay for ever, a ring go away under somebody? | A ring of four slots (stopped at two), a budget of one, six packets: the ring fills, wraps and is freed while packets, doorbells, completions and a poll are at any point of the restart. |
| `flash` | Does success mean the image, are other segments safe, is all erased that is programmed? | Five boards: SPI with two segments that meet at a small block and with four; two SPI chips; BPI with two and with one segment. Lengths around block and page boundaries, two runs of the tool (a second one over what a first one left), two faults. |

Distinct states: `banks` 289 538, `programmed` 275 159, `frames` 39 786, `applications`
927 925, `schedules` 325 740, `interrupts` 130 176, `restarts` 33 251, `flash` 340 868; each
run takes from a few seconds to about two and a half minutes.

`CHECK_DEADLOCK FALSE` stands in `applications` and `fivenodes` (the windows of a cluster are
bounded by `MaxRound`), `schedules` (the compiler terminates), `restarts` (packets are
bounded by `MaxPackets`, and the model ends with a packet on its way into a freed ring) and
`flash` (runs of the tool are bounded by `MaxRuns`).

Four runs exhibit disagreements between the code and what the repository says:

| Run | What is refuted |
|---|---|
| `hitless` | `sync_dcn_host.py:239` calls the flip a "hitless switch". `tx_switch_safe` looks at the window register only, so a flip may happen in the cycle in which a window opens; the restart pulse then cuts that window after one cycle without a close pulse. |
| `pinned` | `ai_trace_replay.v:305` says that during a burst "the engine remains pinned to that trace record". It is, as to the number of packets, the flow and the destination node; length, gap and addresses are read from the table for each packet, and `program_device` writes them under the running schedule. The rest of the claim is `PacketsKeepTheirBurst`, in run `applications`. |
| `commits` | `test_dni_subsystem.py:850` says the completion event "generates the commit pulse that advances the core". The executor drops the gate in the cycle of the pulse, and the runtime gates the pulse with it (`processor_runtime.v:101-102,114`), so it reaches nobody, and an integrated consensus core stays in `collect`. `EndOfWindowIsAlwaysSwallowed` proves that this is so for every window, channel and program, not just in the run's instance. |
| `fivenodes` | `consensus_node.v:6` says "we support up to 5 nodes". With five, two crashes (a minority) in two consecutive broadcasts make survivors count different rows and commit different sets. The integrated NIC builds with three; agreement holds for the four of run `applications`. |

### Fairness

* `programmed` uses `HostProgramming!FairHostSpec`, for `PendingBankTakesOver`: clock
  edges keep coming and time keeps moving forward (weak fairness of a step with
  `now' > now`). A clock and a PTP counter do that
  by themselves. No fairness is asked of software, of enable or of reset. Time there ends
  at the horizon, which satisfies the weak fairness condition because the step is then
  disabled; every activation time and every entry's end lie within the horizon. The
  real input wraps each second, so the claim is for times that do too: a bank armed for
  10^9 ns or later would wait for a time the input never shows.
* `frames` uses `MCCommDatapath!MCSpec`: the MAC lifts its backpressure again and again,
  so does the host's receive queue (both are rate-limited sinks that drain by
  themselves), and again and again no application has a beat ready on the next edge.
  The last is strong fairness and is justified by the applications: their frames are one
  beat long, a consensus broadcast ends after one beat per peer, and the AI engine drops
  its valid for a cycle after every packet.
  `HostIsServed` is claimed only while nobody has *lapsed*: no window closed on an
  application that still waits for its beat to be taken, and the enable bit was not
  cleared. When a window does close on an untaken beat, the lock stays until the next
  processor frame, and the host is shut out meanwhile (`comm_datapath.v:161`).
* `interrupts` uses `EventQueue!FairSpec`. Hardware finishes what it began and an
  interrupt handler returns: weak fairness. A softirq can be interrupted again and again
  and still gets on: strong fairness of a poll's steps. The NIC need not complete
  anything.
* `restarts` uses `PortLifecycle!FairPortSpec`. A driver call that has begun, a poll that
  is scheduled, a stop or start that has begun are carried through, the NIC transmits what
  it was told of while the port is up, and a stack that has announced more packets
  (`netdev_xmit_more`) calls again. No packet need ever be sent, no restart need ever
  begin, and a stopped queue is not assumed to be retried.

All other properties are safety properties and need no fairness, those of `flash` included.

## The proofs

Eight modules hold theorems; every leaf is checked by TLAPS, for every value of the
constants that satisfies the modules' named assumptions. TLC evaluates those
assumptions on every run.

| Module | Theorems | Argument |
|---|---|---|
| `ProcessorRuntimeProofs`, the executor | `TypeCorrect`, `ExecutorCorrect`, `NoWindowOutlives`, `GatesKeepToTheirEntry`, `WindowsAreSeparated`, `ExecutorImplementsGate` | `ExecutorInv` is the inductive invariant: pulses, gate and window register agree, an uninitialised channel drives nothing, and an open window's bank is the active one except in the cycle of the restart pulse. `NoWindowOutlivesItsBank` alone is not inductive: it says nothing of a window register whose gate is dark, which may light up again. Every step but `Reset` is an `Edge` (`StepIsEdgeOrReset`), so the actions of software need no cases of their own. Separation and the refinement come from the invariant and the edge: a lit gate implies an active window, an active window does not open. |
| `ProcessorRuntimeProofs`, host and runtime | `ProgramStaysOffline`, `LiveBankIsNotWritten`, `ArmingIsNeverLost`, `OnlyWholeImagesTakeOver`, `EveryGateIsAnnounced`, `GatesFollowTheProgram`; `ProgrammedTypes`, `EndOfWindowIsAlwaysSwallowed` | `HostInv = BankTyping /\ OfflineInv`: from its start until it arms, the bank of a program that is not astray is not active, nothing is pending and the admin register holds the bank; an arm pulse meets nothing pending; only a pending activation flips the bank. `ImageInv` adds which words of the image have been written at each position of the sequence, so that what is armed is whole. Both say nothing while `astray` is `"now"`, and must therefore be re-established by the next program from any state of banks and registers: that its `StartProgram` finds the bank free is all they need. All these theorems are about `HostSpec`, with programs on any bank and resets at any edge. `EndOfWindowIsAlwaysSwallowed` has no exception. With `astray = "never"`, `WindowInv` (an open window is lit, for the application of its entry, which has begun) gives `EveryGateIsAnnounced` under `Forward`, time that does not step back: a clock that does lights a gate again inside its window, without a pulse. `ScheduleInv` (`Punctual`: the entries behind the pointer are over, those ahead have not begun) gives `GatesFollowTheProgram`, a gate lit exactly when the program in charge says, for images whose armed entries have a length and do not abut (`Spaced`), under `Ticks`, time that moves by at most one unit per edge. Without it an entry can be stepped over, which stops its channel. |
| `CommDatapathProofs` | `TypeCorrect`, `LocksAgree`, `SentFramesAreWhole`, `ReceivedFramesAreWhole` | `LocksFollowFrames`: a begun frame holds its lock, and the other side's lock is free. Assumes `QuietSpec`; typing needs no such assumption. |
| `AiTraceReplayProofs` | `OneBurst`, `NumberedDown`, `OneFlow` | `EngineInv` (arming, numbering) and `SourceInv` (the captured flow and window id are those of the burst's begin), under a host that writes the table at any cycle. The arming part is needed because a burst may end while its window is still lit. |
| `ConsensusProofs`, one replica | `ReplicaTypeCorrect`, `DeadStayDead`, `CommitsUnanimous` | `VerdictHolds` relates the alive mask to the matrix in the commit state. Shrinking the alive set can only shrink what is reached (`ReachedShrinks`), so what the detect state made unanimous still is when the commit state counts again. |
| `ConsensusProofs`, the cluster | `DownIsDetected`, `ReplicasAlwaysAgree`, `NobodyFalselySuspected`, `MinorityIsHarmless`, `MembersAreReplicas` | `RoundInv`: replicas are in step, hear in a window exactly those who reached them (`HeardInWindow`, `NobodyMissed`), and nobody's vector holds a node that was down for the window (`VectorsLackTheDown`). From it `DownAreDead`, hence `CrashesAreDetected`, for every size. Agreement and the absence of false suspicion hold for at most four nodes (`SmallCluster`), because there a quorum is all but one (`SmallInv`); with five they fail, which is the run `fivenodes`. `MinorityHaltsNobody` holds from two nodes on: broadcasts go out in the order of ids, so of two replicas the lower hears and tells more (`LowerHearMore`, `LowerTellMore`), and those a replica believes in and those that crashed are all, or more than a quorum (`EnoughBelieved`). `MembersAreReplicas` is a refinement: every behaviour of the cluster, seen at one node, is one of `ConsensusReplica`; so `DeadStayDead` and `CommitsUnanimous` hold of every member. |
| `GlobalCompileProofs` | `TypeCorrect`, `GreedyProgresses`, `OneThingAtATime`, `EndsMeet`, `WaitsAreBounded`, `ServedOnce`; `TablesRunInOrder`, `OnlyIdleRefused` | `SchedulerInv`: chosen pairs are disjoint, every pair with work is a candidate or touches a chosen one, all windows end by the cursor. `WaitInv` adds that every closed epoch has served a neighbour of each pair still waiting. `ServedOnce` accounts for a pair's windows (`Whole`, `Begun`, `Counted`, `Complete`); it assumes that windows have a length (`WindowsHaveLength`), since windows of length zero with the same start cannot be told apart. Of the lowering: comparing neighbours is enough (`NeighboursSuffice`, by the least entry between two that collide), so an accepted table runs in order; and with a positive guard band a node is refused only if it has no traffic and no phase: `Lasting` (windows take time and do not meet) excludes the other two refusals, and `HasWindow` (a pair that was served has a window) the empty list. |
| `EventQueueProofs` | `WakeUpsAreNotLost`, `EventsNeverOverflow`, `ImplementsNotifierSteps` | `EqInv`: what is written and not given back fits each queue, so that the phase bits tell it from what was there before (`CqPart`, `EqPart`); a queue is armed, or its poll over, only when all it has read is given back (`ArmPart`); and an event in use is the one token of its queue, which is nowhere else until the handler has read it (`Tokens`). Events are as many as queues at most, which is why they find room. The third theorem is the safety part of the refinement: initial states and every step of `EventQueue` are those of `Notifier`. |
| `PortLifecycleProofs` | `PortKeepsSlots`, `PortLosesNoReport`, `RingIsHalfUsed`, `RingIsFreedWithNobodyInside` | `PortInv`: reported, processed and published packets keep their order (`Counts`), a packet is posted only where there is room (`Mapped`, `Limit`), what was read and not given back is room the ring does not use (`Held`), and the scan of the ring stops at the first packet the NIC still owns (`Freed`, `Scanned`). Two packets less than a ring apart have different slots (`SlotsDiffer`). The obvious bound, `prod - cons <= FullSize`, is *not* invariant: starting the queues of a port whose ring has already filled lets one packet more in (`Fresh`, which tracks the new ring until then). Half of the smallest ring still absorbs it. For the last theorem, a poll inside the ring keeps the stop waiting (`Polled`), and a detached queue lets nobody new in (`Detached`). |
| `FlashUpdateProofs` | `SegmentsAreKept`, `ErasedWhenProgrammed`, `ImageIsThere` | `FlashInv`: what is left to do keeps to the segment, writes each chip once and after all erasing (`Ordered`), the driver is within its step and the step within the job (`Position`); what is to be written is blank or will be erased, as long as nothing failed (`ErasedSoFar`); chips that are done hold the file, and the one in work holds the steps that were verified (`Verified`). The arithmetic is in `SegmentShape`, `ImageShape` (a length rounded up stays in the segment because the segment ends at a block) and `StepShape`. |

The proofs use induction over numbers and finite sets in the form of a least element
(`LeastElement`, `LeastValue`, `StrictSubsetOrdering` with its well-foundedness): the
library's induction theorems take operators as parameters, which the installed backends
cannot instantiate.

### Model-checked only

* Liveness and `ENABLED`, which the prover does not handle: `PendingBankTakesOver`,
  `HostIsServed`, `StoppedQueueWakes`, `PacketsAreFreed`, and the fairness that
  `ImplementsNotifier` asks for beyond the steps proved.
* Nothing else: every other property of a passing run is stated by a theorem. What the
  theorems assume beyond the runs is named above: `Forward` and `Ticks` of time,
  `SmallCluster`, `WindowsHaveLength`; the datapath's `QuietSpec` is as in the run.
* RECURSIVE operators would cost the modules their SMT backend; the project declares none.

## Limits of the models

Assumptions, all of them about the environment and named in the modules:

* Times stay below 2^32 (the input is the nanoseconds of a second), so the two halves of
  a 64-bit time are one word.
* A word write reaches the table on one edge; AXI-Lite handshakes are left out.
* Applications' frames are one beat long, as the engines build them.
* Replicas of a cluster count their windows alike, and windows are long enough for every
  broadcast (what the compiler's schedules give them).
* The compiler's padding of matrices to a power of two and its traffic inputs come from
  `toolchain.inputs`, which the repository does not contain: matrices are given.

Observed while modelling and *excluded* from what is claimed, each in the hazards list
or in a comment:

* The command line programs bank 1 unless told otherwise, without reading which bank is
  active (`sync_dcn_program.py:654`). The model does so too; a program that meets a bank in
  use writes the live image and is excepted from what is claimed of programs.
* A reset in the middle of `program_device` empties the table; the rest of the program is
  still written and armed, and part of an image takes over. That program is excepted too.
  CTRL is not reset, so the executor comes up again by itself.
* Slots behind a shorter program keep entries of an earlier, longer one.
* An arm command latched in the cycle of a flip is lost; it cannot happen to a
  program that was started on a free bank with nothing pending (`ArmingIsNeverLost`).
* An entry that is not armed, or that is met after its end, stops its channel until the
  next flip; so do late programs.
* The enable bit cleared in the middle of a frame splits that frame.
* The destination side signal of the multiplexer follows the processor's valid, not the
  locked selection (`dni_subsystem.v:968`).
* A burst outlives its window when its packet is not taken, and is sent on in a later
  window of its own kind.
* A replica that decides to halt still goes through its commit state once;
  windows without a completion in between mix their frames; a log whose frame was
  lost is committed blank.
* A zero guard band, the default of `schedule_timing.py`, makes the lowering refuse every
  matrix of more than one epoch, for the empty guard windows between them.
* The lowering refuses a node with an empty `phases[]` list (`compile.py:433`), and with it
  the plan: a matrix of a single epoch that leaves a node idle cannot be lowered
  (`OnlyIdleNodesAreRefused`).
* Between `port_up = true` and the enabling of the ring (`mqnic_netdev.c:143-150`) a queue
  that a poll has woken during the restart may post and announce a packet; the NIC drops
  the doorbell of a disabled queue (`queue_manager.v:516`), and the packet waits for the
  next one. `PacketsAreFreed` excepts it (`stranded`).
* Starting a port wakes queues that a full ring has stopped (`mqnic_netdev.c:167`); the
  ring takes one packet more than its limit.
* A restart under traffic (MTU, ring sizes, channels) stops the queues without detaching
  them. A poll that finds room wakes one again, and `mqnic_start_xmit`, past its test of
  `port_up`, may then be inside a ring that is freed (`mqnic_netdev.c:209-251`).
  `RingIsFreedOnce` excludes exactly that. With `ndo_stop` it cannot happen.
* When a batch's last packet is dropped, those before it wait for the next packet's
  doorbell (`mqnic_tx.c:501`).
* Between a stop and the re-check, the order of the poll's store and load does not
  matter for liveness: the doorbell of a stopped queue is always rung, so a later
  completion wakes it. The `smp_rmb` of the re-check only saves time.
* Events are dropped when their queue is full; that it never is rests on the number of
  completion queues per event queue, which no code compares with `num_eq_entries`.
* A failing `mqnic_open_cq` closes the event queue it was given, which other queues share
  (`mqnic_cq.c:94`). The failure paths of opening are not modelled.
* `mqnic-fw` reports success for an image that fills a segment of two QSPI chips, or has
  an odd length behind its header, although its last bytes are cut (`mqnic-fw.c:1142`).
* `mqnic-fw -e` alone does not check the slot number (`mqnic-fw.c:888`); the model starts
  it with valid slots.
* A fixed epoch duration is taken as given and may be shorter than a burst. Flow ids
  start anew in the second leg of a MoE step.

Not modelled: status and counter registers and JSON handling (no influence on the state
modelled), the receive side of the AI replay, back-pressure inside the consensus
transmit engine, `processor_adapter_stub.v` (used by its own testbench only), three
combinational helpers that no design instantiates, the P4 programs, one-shot scripts; of
the NIC driver the receive ring's refill, the PTP clock, probing, ethtool and devlink; of
the flash tool the detection of chips, bit files and the boot path; and the vendored
platform but for the circuits the driver meets.

Most of the repository's C cannot carry a model: of its 42 500 lines, more than half are
register headers of transceivers and tables of boards, clocks and modules, the driver is
there twice (`platforms/corundum/modules/mqnic` repeats `host/nic_driver`), and most of the
rest are register accesses in sequence. The models are about the state machines between
them, which are a few thousand lines of C, Python and Verilog.

## Plan

Done, in this order: the executor with its abstract gate; the host and the register
block; the runtime; the datapath; the AI replay's transmit side; the consensus core, one
replica and the cluster; the global compiler and the lowering; the driver's completion
notification with its abstract queue, the transmit ring and the port's life cycle; the
flash tool; the proofs above.

Next, the most important first:

1. Compiler to executor: relate the windows of an accepted table to the executor's
   cycles (abutting entries open a cycle late), so that `NodeDoesOneThingAtATime` and
   `GateFollowsProgram` compose end to end.
2. Window ids of NICs that have counted a different number of windows
   (`consensus_rx.v:114`), and the aborted broadcast with back-pressure, in a
   refinement of `ConsensusRounds`; an abstract agreement specification for it.
3. The receive side of `ai_trace_replay.v` with its registered expectation, and the
   dense trace table with its context ids in the lowering.
4. The sequencer of `nopaxos_tofino.p4`; the receive ring's refill, on `Notifier`;
   `processor_adapter_stub.v` as a further client of the window contract.
5. Failures of `mqnic_open_cq`, `mqnic_open_tx_ring` and `mqnic_start_port`, with several
   queues on one event queue.
6. Proofs: `NobodyFalselySuspected` for every size without crashes; that the applications
   in front of `CommDatapath` keep its assumptions, so that its theorems compose with those
   of the runtime; the same for the windows `AiTraceReplay` assumes.

## Running

`tlc -config <cfg> <module>` for a run (the table in `PROJECT.json` pairs them; the
cfg's name begins with the module's), and `tlapm <module>Proofs.tla` for the proofs.
