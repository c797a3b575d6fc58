------------------------------ MODULE EventQueue ------------------------------
(***************************************************************************)
(* How the NIC tells its driver that work has completed: completion queues *)
(* in host memory, the event queue they share, one interrupt, and a NAPI   *)
(* poll per completion queue.                                              *)
(*                                                                         *)
(* Driver side: host/nic_driver/mqnic_cq.c, mqnic_eq.c, mqnic_irq.c and    *)
(* the polls of mqnic_tx.c and mqnic_rx.c.  NIC side: the queue manager    *)
(* cpl_queue_manager.v, instantiated once for the completion queues and    *)
(* once for the event queue.  One completion queue is modelled entry by    *)
(* entry; of the others only the events matter here.                       *)
(***************************************************************************)
EXTENDS Naturals, FiniteSets

CONSTANTS
  Cq,       \* the completion queue
  Other,    \* the other completion queues of the event queue
  CqSize,   \* entries of the completion queue
  EqSize,   \* entries of the event queue
  PtrMod,   \* number of values of a queue pointer
  Budget,   \* completions a poll may process before it must return
  InFlight  \* bound: entries written whose producer pointer update is outstanding

ASSUME QueueAssumption ==
  /\ CqSize \in Nat \ {0} /\ EqSize \in Nat \ {0} /\ Budget \in Nat \ {0}
  /\ PtrMod \in Nat \ {0} /\ PtrMod % (2 * CqSize) = 0 /\ PtrMod % (2 * EqSize) = 0
  /\ Cq \notin Other /\ IsFiniteSet(Other) /\ Cardinality(Other) < EqSize

Queue == Other \cup {Cq}

VARIABLES
  phase,      \* per slot: the phase bit of the entry in host memory
  written,    \* entries the NIC has written to host memory
  committed,  \* the queue manager's producer pointer
  released,   \* its consumer pointer, as the driver last wrote it
  consumed,   \* cq_cons_ptr: the next entry the driver reads
  done,       \* entries processed by the poll in progress
  eqPhase, eqSource, eqWritten, eqCommitted, eqReleased, eqConsumed,
              \* the same for the event queue, and the queue each event names
  armed,      \* the completion queues whose arm bit is set
  raised,     \* the queues whose event is on its way to the event queue
  poll,       \* per queue: where its NAPI poll is
  eqArmed,    \* the arm bit of the event queue
  irq,        \* an interrupt is pending
  handler     \* where the interrupt handler is

cqVars    == <<phase, written, committed, released, consumed, done>>
eqVars    == <<eqPhase, eqSource, eqWritten, eqCommitted, eqReleased, eqConsumed>>
irqVars   == <<eqArmed, irq, handler>>
tokenVars == <<armed, raised, poll>>
vars      == <<cqVars, eqVars, irqVars, tokenVars>>

Plus(ptr, n)  == (ptr + n) % PtrMod
Minus(p, q)   == (p + PtrMod - q) % PtrMod

-------------------------------------------------------------------------------
(* Phase bits.  The NIC writes 1 into the entries of its first lap, 0 into *)
(* those of the second and so on; the driver starts from memory full of    *)
(* zero phase bits.                                                        *)

Lap(ptr, size)     == (ptr \div size) % 2
PhaseOf(ptr, size) == 1 - Lap(ptr, size)

\* The driver's test for an entry it has not read yet.
Pending      == phase[consumed % CqSize] # Lap(consumed, CqSize)
EventPending == eqPhase[eqConsumed % EqSize] # Lap(eqConsumed, EqSize)

-------------------------------------------------------------------------------
(* The NIC.                                                                *)

\* A completion is written to host memory, where the driver can see it.
WriteCompletion ==
  /\ Minus(written, released) < CqSize /\ Minus(written, committed) < InFlight
  /\ phase' = [phase EXCEPT ![written % CqSize] = PhaseOf(written, CqSize)]
  /\ written' = Plus(written, 1)
  /\ UNCHANGED <<committed, released, consumed, done, eqVars, irqVars, tokenVars>>

\* Slip: a queue whose event is raised stays armed.
CommitCompletionArmed ==
  /\ committed # written
  /\ committed' = Plus(committed, 1)
  /\ raised' = raised \cup (armed \cap {Cq})
  /\ UNCHANGED <<phase, written, released, consumed, done, eqVars, irqVars, armed, poll>>

\* Only later does the producer pointer move, and an armed queue raise its event.
CommitCompletion ==
  /\ committed # written
  /\ committed' = Plus(committed, 1)
  /\ armed' = armed \ {Cq} /\ raised' = raised \cup (armed \cap {Cq})
  /\ UNCHANGED <<phase, written, released, consumed, done, eqVars, irqVars, poll>>

CompleteElsewhere(q) ==
  /\ q \in armed
  /\ armed' = armed \ {q} /\ raised' = raised \cup {q}
  /\ UNCHANGED <<cqVars, eqVars, irqVars, poll>>

\* Slip: arming a queue that is not empty raises nothing.
SetArmQuietly(q, empty) == armed' = armed \cup {q} /\ UNCHANGED raised
\* The driver's write of the arm bit: at once an event if the pointers differ.
SetArm(q, empty) ==
  /\ armed' = IF empty THEN armed \cup {q} ELSE armed
  /\ raised' = IF empty THEN raised ELSE raised \cup {q}

\* An event that finds the event queue full is lost.
WriteEvent(q) ==
  /\ q \in raised /\ raised' = raised \ {q}
  /\ IF Minus(eqWritten, eqReleased) < EqSize
     THEN /\ eqPhase' = [eqPhase EXCEPT ![eqWritten % EqSize] = PhaseOf(eqWritten, EqSize)]
          /\ eqSource' = [eqSource EXCEPT ![eqWritten % EqSize] = q]
          /\ eqWritten' = Plus(eqWritten, 1)
     ELSE UNCHANGED <<eqPhase, eqSource, eqWritten>>
  /\ UNCHANGED <<cqVars, eqCommitted, eqReleased, eqConsumed, irqVars, armed, poll>>

CommitEvent ==
  /\ eqCommitted # eqWritten
  /\ eqCommitted' = Plus(eqCommitted, 1)
  /\ eqArmed' = FALSE /\ irq' = (irq \/ eqArmed)
  /\ UNCHANGED <<cqVars, eqPhase, eqSource, eqWritten, eqReleased, eqConsumed, handler, tokenVars>>

-------------------------------------------------------------------------------
(* The interrupt handler: mqnic_process_eq and mqnic_arm_eq.               *)

TakeInterrupt ==
  /\ irq /\ handler = "off"
  /\ irq' = FALSE /\ handler' = "read"
  /\ UNCHANGED <<cqVars, eqVars, eqArmed, tokenVars>>

\* The event names a queue, whose poll is scheduled unless it already is.
ProcessEvent ==
  /\ handler = "read" /\ EventPending
  /\ LET q == eqSource[eqConsumed % EqSize] IN
       poll' = [poll EXCEPT ![q] = IF @ = "off" THEN "read" ELSE @]
  /\ eqConsumed' = Plus(eqConsumed, 1)
  /\ UNCHANGED <<cqVars, eqPhase, eqSource, eqWritten, eqCommitted, eqReleased, irqVars,
                 armed, raised>>

\* Slip: the consumer pointer is kept in memory only.
FinishEventsUnwritten ==
  /\ handler = "read" /\ ~EventPending /\ handler' = "arm"
  /\ UNCHANGED <<cqVars, eqVars, eqArmed, irq, tokenVars>>
FinishEvents ==
  /\ handler = "read" /\ ~EventPending
  /\ eqReleased' = eqConsumed /\ handler' = "arm"
  /\ UNCHANGED <<cqVars, eqPhase, eqSource, eqWritten, eqCommitted, eqConsumed, eqArmed, irq,
                 tokenVars>>

ArmEventQueue ==
  /\ handler = "arm" /\ handler' = "off"
  /\ eqArmed' = (eqCommitted = eqReleased) /\ irq' = (irq \/ eqCommitted # eqReleased)
  /\ UNCHANGED <<cqVars, eqVars, tokenVars>>

-------------------------------------------------------------------------------
(* The polls.  A softirq runs once the handler has returned.               *)

Polling(q, at) == handler = "off" /\ poll[q] = at

ReadCompletion ==
  /\ Polling(Cq, "read") /\ done < Budget /\ Pending
  /\ consumed' = Plus(consumed, 1) /\ done' = done + 1
  /\ UNCHANGED <<phase, written, committed, released, eqVars, irqVars, tokenVars>>

\* mqnic_cq_write_cons_ptr.  A poll that used up its budget is called again.
ReleaseCompletions ==
  /\ Polling(Cq, "read") /\ (done = Budget \/ ~Pending)
  /\ released' = consumed /\ done' = 0
  /\ poll' = [poll EXCEPT ![Cq] = IF done = Budget THEN "read" ELSE "arm"]
  /\ UNCHANGED <<phase, written, committed, consumed, eqVars, irqVars, armed, raised>>

\* napi_complete, and only then mqnic_arm_cq.
ArmQueue ==
  /\ Polling(Cq, "arm")
  /\ poll' = [poll EXCEPT ![Cq] = "off"] /\ SetArm(Cq, committed = released)
  /\ UNCHANGED <<cqVars, eqVars, irqVars>>

PollElsewhere(q) ==
  /\ Polling(q, "read")
  /\ poll' = [poll EXCEPT ![q] = "off"] /\ \E empty \in BOOLEAN : SetArm(q, empty)
  /\ UNCHANGED <<cqVars, eqVars, irqVars>>

-------------------------------------------------------------------------------

\* After mqnic_open_eq and mqnic_open_cq, and the first arming of the queues.
Init ==
  /\ phase = [s \in 0 .. CqSize - 1 |-> 0]
  /\ written = 0 /\ committed = 0 /\ released = 0 /\ consumed = 0 /\ done = 0
  /\ armed = Queue /\ raised = {} /\ poll = [q \in Queue |-> "off"]
  /\ eqPhase = [s \in 0 .. EqSize - 1 |-> 0] /\ eqSource = [s \in 0 .. EqSize - 1 |-> Cq]
  /\ eqWritten = 0 /\ eqCommitted = 0 /\ eqReleased = 0 /\ eqConsumed = 0
  /\ eqArmed = TRUE /\ irq = FALSE /\ handler = "off"

Interrupt == TakeInterrupt \/ ProcessEvent \/ FinishEvents \/ ArmEventQueue
Nic       == CommitCompletion \/ CommitEvent \/ \E q \in Queue : WriteEvent(q)
Poll      == ReadCompletion \/ ReleaseCompletions \/ ArmQueue
Elsewhere == \E q \in Other : CompleteElsewhere(q) \/ PollElsewhere(q)

Next == WriteCompletion \/ Nic \/ Interrupt \/ Poll \/ Elsewhere

Spec == Init /\ [][Next]_vars

\* The NIC finishes what it began, an interrupt is taken and its handler returns,
\* and a softirq that the handler keeps interrupting still gets on.
FairSpec ==
  /\ Spec
  /\ WF_vars(CommitCompletion) /\ WF_vars(CommitEvent) /\ WF_vars(Interrupt)
  /\ \A q \in Queue : WF_vars(WriteEvent(q))
  /\ SF_vars(Poll)
  /\ \A q \in Other : SF_vars(PollElsewhere(q))

-------------------------------------------------------------------------------
(* Properties.                                                             *)

Unread(tail, head) == {Plus(head, i) : i \in 0 .. Minus(tail, head) - 1}
Queued(q) == {k \in Unread(eqWritten, eqConsumed) : eqSource[k % EqSize] = q}

\* No wake-up is lost and none comes twice: every completion queue is in exactly one
\* place, armed in the NIC, on its way as an event, or in the hands of its poll.
OneNotification ==
  \A q \in Queue :
    LET at == {p \in {"armed", "raised", "queued", "poll"} :
                 \/ p = "armed" /\ q \in armed
                 \/ p = "raised" /\ q \in raised
                 \/ p = "queued" /\ Queued(q) # {}
                 \/ p = "poll" /\ poll[q] # "off"}
    IN  /\ \E p \in at : at = {p}
        /\ \A k, l \in Queued(q) : k = l

\* The event queue, which nobody checks for room (cpl_queue_manager.v drops what does
\* not fit), has room for every event, though it gets its entries back in bulk.
EventsFindRoom == raised # {} => Minus(eqWritten, eqReleased) < EqSize

\* Seen from the transmit path, all of it is a queue of completions and one token.
Token == IF Cq \in armed THEN "armed" ELSE IF poll[Cq] = "off" THEN "raised" ELSE "polling"

Note == INSTANCE Notifier WITH
          Capacity <- CqSize, unread <- Minus(written, consumed),
          held <- Minus(consumed, released), signal <- Token
\* No completion is read before it is written, skipped or read twice, and after the
\* last one the poll comes back until all are read.
ImplementsNotifier == Note!NoteSpec
===============================================================================
