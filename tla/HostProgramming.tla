---------------------------- MODULE HostProgramming ----------------------------
(***************************************************************************)
(* The control plane programming a running NIC: the register writes that   *)
(* program_device (host/control_plane/sync_dcn_program.py) issues through   *)
(* SyncDcnHost, the registers they land in (runtime/dni/rtl/dni_subsystem.v) *)
(* and the executor of TTScheduler behind them.                            *)
(*                                                                         *)
(* Every step but StartProgram is a clock edge, on which at most one        *)
(* register write lands; edges go by between any two writes.  Times stay   *)
(* below 2^32, as the nanoseconds of a second do, so a 64-bit time is one  *)
(* word that matters and one that is always zero.                          *)
(***************************************************************************)
EXTENDS TTScheduler, Sequences

CONSTANTS
  TX, RX,       \* the two channels
  Program       \* the programs the control plane may be given

Words == <<"start", "end", "app", "flags">>

ASSUME HostAssumption ==
  /\ Channel = {TX, RX} /\ TX # RX
  /\ \A p \in Program :
       /\ p.bank \in Bank /\ p.time \in Time /\ p.enableSubsystem \in BOOLEAN
       /\ p.entries \in [Channel -> Seq(Entry)]
       /\ \A c \in Channel : Len(p.entries[c]) <= EntryCount

VARIABLES
  phase,         \* where program_device is
  prog,          \* the program it was called with
  cursor,        \* the next table word it writes
  adminBank,     \* reg_schedule_admin_bank
  activateTime,  \* reg_schedule_activate_time_ns
  armReg,        \* reg_schedule_arm
  ctrl,          \* reg_ctrl[0]
  hurried,       \* history: some program was armed, enabled or flipped in too late
  astray         \* history: whether programs kept to a bank of their own; see Astray

hostVars == <<phase, prog, cursor>>
regVars  == <<adminBank, activateTime, armReg, ctrl>>
allVars  == <<vars, hostVars, regVars, hurried, astray>>

-------------------------------------------------------------------------------
(* The words of a program's table image, in the order they are written.    *)

Slots(p) ==
  [k \in 1 .. Len(p.entries[TX]) |-> [channel |-> TX, index |-> k - 1, entry |-> p.entries[TX][k]]]
  \o
  [k \in 1 .. Len(p.entries[RX]) |-> [channel |-> RX, index |-> k - 1, entry |-> p.entries[RX][k]]]

WordCount(p) == Len(Words) * Len(Slots(p))
Slot(p, n)   == Slots(p)[((n - 1) \div Len(Words)) + 1]
Word(n)      == Words[((n - 1) % Len(Words)) + 1]

-------------------------------------------------------------------------------
(* The register block.                                                     *)

\* History: a bank was armed at its activation time or later, was due before the
\* executor was enabled, had to wait for a window to end, or takes over within two
\* cycles of its first window.
TooLate ==
  \/ armReg /\ now >= activateTime
  \/ pendingValid /\ now >= pendingTime /\ ~(enable /\ CanFlipBank)
  \/ /\ CanFlipBank
     /\ \E c \in Channel, i \in Index :
          LET e == table[pendingBank][c][i] IN Armed(e) /\ e.start < now + 2

\* Slip: the arm bit is not self-clearing.
RegisterEdgeStickyArm(admin, time, arm, control) ==
  /\ Edge([valid |-> armReg, bank |-> adminBank, time |-> activateTime])
  /\ enable' = ctrl
  /\ adminBank' = admin /\ activateTime' = time /\ armReg' = (arm \/ armReg) /\ ctrl' = control
  /\ hurried' = (hurried \/ TooLate)

\* A clock edge of the registers and the executor, with the values a write leaves
\* in the registers.  The arm bit lives for one cycle; the enable follows CTRL a
\* cycle late.
RegisterEdge(admin, time, arm, control) ==
  /\ Edge([valid |-> armReg, bank |-> adminBank, time |-> activateTime])
  /\ enable' = ctrl
  /\ adminBank' = admin /\ activateTime' = time /\ armReg' = arm /\ ctrl' = control
  /\ hurried' = (hurried \/ TooLate)

NoWrite == RegisterEdge(adminBank, activateTime, FALSE, ctrl)

-------------------------------------------------------------------------------
(* program_device, one register write at a time.  First what a write does to  *)
(* the host, which does not learn what became of it, ...                      *)

BankSelected == phase = "admin" /\ phase' = "words" /\ UNCHANGED <<prog, cursor>>
WordSent     == /\ phase = "words" /\ cursor <= WordCount(prog)
                /\ cursor' = cursor + 1 /\ UNCHANGED <<phase, prog>>
TimeSent     == /\ phase = "words" /\ cursor > WordCount(prog)
                /\ phase' = "arm" /\ UNCHANGED <<prog, cursor>>
ArmSent      == phase = "arm" /\ phase' = "ctrl" /\ UNCHANGED <<prog, cursor>>
Finished     == phase = "ctrl" /\ phase' = "idle" /\ UNCHANGED <<prog, cursor>>

HostMoves == BankSelected \/ WordSent \/ TimeSent \/ ArmSent \/ Finished

(* ... and then with what it does to the NIC.                                 *)

\* Slip: the admin bank register keeps the bank of the program before.
SetAdminBankKeepsOld ==
  BankSelected /\ NoWrite /\ UNCHANGED <<table, astray>>

SetAdminBank ==
  /\ BankSelected
  /\ RegisterEdge(prog.bank, activateTime, FALSE, ctrl)
  /\ UNCHANGED <<table, astray>>

WriteTableWord ==
  /\ WordSent
  /\ NoWrite
  /\ LET slot == Slot(prog, cursor) IN
       table' = [table EXCEPT ![adminBank][slot.channel][slot.index][Word(cursor)]
                                = slot.entry[Word(cursor)]]
  /\ UNCHANGED astray

\* Slip: the bank is armed before its image has been written.
WriteActivateTimeEarly ==
  /\ phase = "words" /\ phase' = "arm" /\ UNCHANGED <<prog, cursor>>
  /\ RegisterEdge(adminBank, prog.time, FALSE, ctrl)
  /\ UNCHANGED <<table, astray>>

WriteActivateTime ==
  /\ TimeSent
  /\ RegisterEdge(adminBank, prog.time, FALSE, ctrl)
  /\ UNCHANGED <<table, astray>>

ArmBankSwitch ==
  /\ ArmSent
  /\ RegisterEdge(prog.bank, activateTime, TRUE, ctrl)
  /\ UNCHANGED <<table, astray>>

EnableSubsystem ==
  /\ Finished
  /\ RegisterEdge(adminBank, activateTime, FALSE, ctrl \/ prog.enableSubsystem)
  /\ UNCHANGED <<table, astray>>

\* An edge on which no write lands.
Idle == NoWrite /\ UNCHANGED <<table, hostVars, astray>>

-------------------------------------------------------------------------------
(* Programs and resets that come at any time.                              *)

\* "now": the program written last was started on a bank that was not free, or a reset
\* came before its last write.  "once": that happened to an earlier program since the
\* table was last empty with no program under way.
Astray == {"never", "once", "now"}

\* A reset at any edge, also between two writes of a program, which goes on with its
\* next write, and in the cycle of a write, which is lost.  CTRL itself is not reset, so
\* the executor comes up again by itself, over an empty table.
ResetNic ==
  /\ Reset
  /\ adminBank' = 1 /\ activateTime' = 0 /\ armReg' = FALSE
  /\ UNCHANGED hostVars \/ HostMoves
  /\ astray' = IF phase = "idle" THEN "never" ELSE "now"
  /\ UNCHANGED <<ctrl, hurried>>

\* What program_schedule_bank says of its caller: it selects the inactive bank.  With
\* an activation still outstanding there is no such bank.
Inactive(p) == p.bank # activeBank /\ ~pendingValid /\ ~armReg

\* main() of sync_dcn_program.py: nothing is read back from the NIC first, and the bank
\* is the artifact's, 1 unless it says otherwise.
StartProgram(p) ==
  /\ phase = "idle"
  /\ phase' = "admin" /\ prog' = p /\ cursor' = 1
  /\ astray' = IF ~Inactive(p) THEN "now" ELSE IF astray = "never" THEN "never" ELSE "once"
  /\ UNCHANGED <<vars, regVars, hurried>>

-------------------------------------------------------------------------------

HostInit ==
  /\ Init
  /\ phase = "idle" /\ prog \in Program /\ cursor = 1
  /\ adminBank = 1 /\ activateTime = 0 /\ armReg = FALSE /\ ctrl = FALSE
  /\ hurried = FALSE /\ astray = "never"

Clocked ==
  \/ SetAdminBank \/ WriteTableWord \/ WriteActivateTime \/ ArmBankSwitch
  \/ EnableSubsystem \/ Idle

Running == Clocked \/ ResetNic

HostNext == Running \/ \E p \in Program : StartProgram(p)

HostSpec == HostInit /\ [][HostNext]_allVars

\* Neither the clock nor the time input stops for ever; nothing is asked of software.
FairHostSpec ==
  HostSpec /\ WF_allVars(Clocked) /\ WF_allVars(Clocked /\ now' > now)

-------------------------------------------------------------------------------
(* Properties.                                                             *)

HostTypeOK ==
  /\ TypeOK
  /\ phase \in {"idle", "admin", "words", "arm", "ctrl"}
  /\ prog \in Program /\ cursor \in Nat \ {0}
  /\ adminBank \in Bank /\ activateTime \in Time
  /\ armReg \in BOOLEAN /\ ctrl \in BOOLEAN /\ hurried \in BOOLEAN /\ astray \in Astray

\* A program that is started on a free bank and not caught by a reset never touches the
\* image the executor runs from: not with its words, and not with the rest of them after
\* a flip, also when earlier programs and resets have left both banks in any state.
HostNeverWritesLiveBank ==
  [][~ResetNic /\ astray # "now" => table'[activeBank] = table[activeBank]]_allVars

\* Such a program's arming is not lost: the pulse leaves a pending activation behind it.
\* One that meets the flip of another program's activation would be, since the flip is
\* written last (tt_scheduler.v:156-166).
ArmIsLatched ==
  [][armReg /\ ~ResetNic /\ astray # "now" => pendingValid']_allVars

Flip == activeBank' # activeBank /\ ~ResetNic

Holds(b, p) ==
  \A c \in Channel : \A k \in 1 .. Len(p.entries[c]) : table[b][c][k - 1] = p.entries[c][k]

\* A bank that takes over for such a program holds the whole image of one program,
\* whatever was written into it before.
FlipsToWholeImage ==
  [][Flip /\ astray # "now" =>
       \E p \in Program : p.bank = activeBank' /\ Holds(activeBank', p)]_allVars

\* A window ends with its close pulse, whatever flips around it, as long as no program
\* has rewritten a bank in use.
WindowsEndWithClose ==
  [][astray = "never" =>
       \A c \in Channel : enable /\ ~ResetNic /\ active[c] /\ ~active'[c] => close'[c]]_allVars

\* No window of an image is empty, and its entries leave the executor the cycle it
\* needs to close one window and look at the next.  It would wait for ever at an empty
\* one.
Spaced(image) ==
  \A i \in Index : Armed(image[i]) =>
    /\ image[i].start < image[i].end
    /\ i > 0 => Armed(image[i - 1]) /\ image[i - 1].end < image[i].start

\* On time, every time: if every program so far kept to a free bank and was armed,
\* enabled and flipped in by its activation time, with two cycles to spare, then each
\* gate is lit exactly while the image in charge has it lit, and for the application the
\* entry names.
GateFollowsProgram ==
  [][~hurried /\ astray = "never" /\ Clocked =>
       \A c \in Channel :
         LET image == table[activeBank][c]
             due   == {i \in Index : Armed(image[i]) /\ image[i].start <= now /\ now < image[i].end}
         IN  Spaced(image) =>
               allowed'[c] = (due # {}) /\ \A i \in due : app'[c] = image[i].app]_allVars

===============================================================================
