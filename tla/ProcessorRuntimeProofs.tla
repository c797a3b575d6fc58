------------------------- MODULE ProcessorRuntimeProofs -------------------------
(***************************************************************************)
(* Proofs about the executor, and about a NIC that is programmed while it  *)
(* runs: the control plane, the register block, the executor and the       *)
(* fan-out to the applications.  They hold for every number of channels,   *)
(* entries and slots, every set of programs, every table software may      *)
(* write, and every interleaving of register writes, clock edges and NIC   *)
(* resets.                                                                 *)
(***************************************************************************)
EXTENDS ProcessorRuntime, Integers, SequenceTheorems, WellFoundedInduction, TLAPS

-------------------------------------------------------------------------------
(* The executor by itself, as TTScheduler specifies it.                    *)

\* A pointer or a window id that is incremented modulo its range stays in it.
LEMMA Wrap ==
  ASSUME NEW n \in Nat \ {0}, NEW a \in Nat
  PROVE  a % n \in 0 .. n - 1
  OBVIOUS

\* The value NoRequest, ArmFlip's request: what the bank process may be handed.
Request == [valid : BOOLEAN, bank : Bank, time : Time]

\* A clock edge keeps every register of the executor in its type.
LEMMA EdgeTyping ==
  ASSUME TypeOK, NEW request \in Request, Edge(request),
         enable' \in BOOLEAN, table' \in [Bank -> [Channel -> [Index -> Entry]]]
  PROVE  TypeOK'
  <1>1. now' \in Time
    BY ConstantsAssumption DEF Edge, TimeEdge
  <1>2. /\ activeBank' \in Bank /\ pendingValid' \in BOOLEAN /\ pendingBank' \in Bank
        /\ pendingTime' \in Time /\ restart' \in BOOLEAN
    <2>1. CanFlipBank \in BOOLEAN
      BY DEF TypeOK, CanFlipBank
    <2> QED BY <2>1 DEF TypeOK, Edge, BankEdge, Request
  <1>3. \A c \in Channel : Current(c) \in Entry
    BY DEF TypeOK, Current
  <1>4. /\ Held \in BOOLEAN
        /\ \A c \in Channel : /\ Opens(c) \in BOOLEAN /\ Closes(c) \in BOOLEAN
                              /\ Stays(c) \in BOOLEAN /\ Runs(c) \in BOOLEAN
                              /\ Lit(c) \in BOOLEAN /\ Armed(Current(c)) \in BOOLEAN
    BY DEF TypeOK, Held, Opens, Closes, Stays, Runs, Lit, EvalActive, EvalRetire, Armed
  <1>5. /\ initialized' \in [Channel -> BOOLEAN] /\ active' \in [Channel -> BOOLEAN]
        /\ open' \in [Channel -> BOOLEAN] /\ close' \in [Channel -> BOOLEAN]
        /\ commit' \in [Channel -> BOOLEAN] /\ execValid' \in [Channel -> BOOLEAN]
        /\ allowed' \in [Channel -> BOOLEAN]
    BY <1>4 DEF TypeOK, Edge, ChannelEdge
  <1>6. windowId' \in [Channel -> 0 .. IdModulus - 1]
    <2>1. \A c \in Channel : (windowId[c] + 1) % IdModulus \in 0 .. IdModulus - 1
      <3> TAKE c \in Channel
      <3>1. windowId[c] + 1 \in Nat
        BY ConstantsAssumption DEF TypeOK
      <3> QED BY <3>1, Wrap, ConstantsAssumption
    <2> QED BY <2>1 DEF TypeOK, Edge, ChannelEdge
  <1>7. ptr' \in [Channel -> Index]
    <2>1. \A c \in Channel : NextPtr(c) \in Index
      <3> TAKE c \in Channel
      <3>1. ptr[c] + 1 \in Nat
        BY ConstantsAssumption DEF TypeOK, Index
      <3>2. NextPtr(c) \in 0 .. EntryCount - 1
        BY <3>1, Wrap, ConstantsAssumption DEF NextPtr
      <3> QED BY <3>2 DEF Index
    <2>2. 0 \in Index
      BY ConstantsAssumption DEF Index
    <2> QED BY <2>1, <2>2 DEF TypeOK, Edge, ChannelEdge
  <1>8. app' \in [Channel -> App \cup {NoApp}]
    BY <1>3 DEF TypeOK, Edge, ChannelEdge, Entry
  <1>9. windowBank' \in [Channel -> Bank]
    BY DEF TypeOK, Edge, ChannelEdge, Bank
  <1> QED BY <1>1, <1>2, <1>5, <1>6, <1>7, <1>8, <1>9 DEF TypeOK

\* A word written over an entry leaves an entry.
LEMMA OneWordTyping ==
  ASSUME NEW old \in Entry, NEW e \in Entry, NEW mixed \in OneWord(old, e)
  PROVE  mixed \in Entry
  BY DEF OneWord, Entry

\* Every step of Next is either a clock edge of the executor, handed a request
\* and whatever software left on the bus, or a reset.
LEMMA StepIsEdgeOrReset ==
  ASSUME TypeOK, Next
  PROVE  \/ \E request \in Request :
              Edge(request) /\ enable' \in BOOLEAN
              /\ table' \in [Bank -> [Channel -> [Index -> Entry]]]
         \/ Reset
  <1>1. NoRequest \in Request
    BY ConstantsAssumption DEF NoRequest, Request, Bank
  <1>2. CASE Clock
    BY <1>1, <1>2 DEF Clock, TypeOK
  <1>3. CASE \E b \in Bank, t \in Time : ArmFlip(b, t)
    BY <1>3 DEF ArmFlip, TypeOK, Request
  <1>4. ASSUME NEW b \in Bank, NEW c \in Channel, NEW i \in Index, NEW e \in HostEntry,
               WriteWord(b, c, i, e)
        PROVE  Edge(NoRequest) /\ enable' \in BOOLEAN
               /\ table' \in [Bank -> [Channel -> [Index -> Entry]]]
    <2>1. PICK mixed \in OneWord(table[b][c][i], e) : table' = [table EXCEPT ![b][c][i] = mixed]
      BY <1>4 DEF WriteWord
    <2>2. mixed \in Entry
      BY <2>1, OneWordTyping, ConstantsAssumption DEF TypeOK
    <2> QED BY <1>4, <2>1, <2>2 DEF WriteWord, TypeOK
  <1>5. CASE \E on \in BOOLEAN : SetEnable(on)
    BY <1>1, <1>5 DEF SetEnable, TypeOK
  <1> QED BY <1>1, <1>2, <1>3, <1>4, <1>5 DEF Next, Software

\* The values of reset are typed.
LEMMA ResetValues ==
  /\ Blank \in [Bank -> [Channel -> [Index -> Entry]]]
  /\ Dark \in [Channel -> BOOLEAN]
  /\ First \in [Channel -> Bank] /\ First \in [Channel -> Index]
  /\ First \in [Channel -> 0 .. IdModulus - 1]
  /\ [c \in Channel |-> NoApp] \in [Channel -> App \cup {NoApp}]
  <1>1. Cleared \in Entry
    BY ConstantsAssumption DEF Cleared, Entry
  <1>2. 0 \in Bank /\ 0 \in Index /\ 0 \in 0 .. IdModulus - 1
    BY ConstantsAssumption DEF Bank, Index
  <1> QED BY <1>1, <1>2 DEF Blank, Dark, First

LEMMA ResetTyping == TypeOK /\ Reset => TypeOK'
  BY ResetValues, ConstantsAssumption DEF TypeOK, Reset, TimeEdge, Bank

LEMMA InitTyping == Init => TypeOK
  BY ResetValues, ConstantsAssumption DEF TypeOK, Init, Bank

\* Every register, in particular each channel's entry pointer and window id,
\* stays in the range its width gives it, and every table slot stays an entry.
THEOREM TypeCorrect == Spec => []TypeOK
  <1>1. TypeOK /\ [Next]_vars => TypeOK'
    <2> SUFFICES ASSUME TypeOK, [Next]_vars PROVE TypeOK'
      OBVIOUS
    <2>1. CASE Next
      BY <2>1, StepIsEdgeOrReset, EdgeTyping, ResetTyping
    <2>2. CASE UNCHANGED vars
      BY <2>2 DEF TypeOK, vars, bankVars, channelVars
    <2> QED BY <2>1, <2>2
  <1> QED BY <1>1, InitTyping, PTL DEF Spec

-------------------------------------------------------------------------------
(* The executor's invariant.                                               *)

\* What one clock edge does to one channel, by the branch its process takes.
\* A flip and the restart it causes are the only things that can separate an
\* open window from the bank in charge.
LEMMA EdgeKeepsExecutorInv ==
  ASSUME ExecutorInv, NEW request, Edge(request)
  PROVE  ExecutorInv'
  <1>1. (restart => ~pendingValid)'
    BY DEF Edge, BankEdge
  <1>2. ASSUME NEW c \in Channel PROVE ChannelInv(c)'
    <2> USE DEF Edge, ChannelEdge
    <2>1. ChannelInv(c)
      BY DEF ExecutorInv
    <2>2. (active[c] => initialized[c])'
      BY <2>1 DEF ChannelInv, Opens, Stays, Runs
    <2>3. (allowed[c] => active[c] /\ execValid[c])'
      BY DEF Lit, Opens, Stays, Runs, EvalActive
    <2>4. (open[c] => allowed[c])'
      BY DEF Lit
    <2>5. (close[c] => ~active[c] /\ execValid[c])'
      BY DEF Closes, Opens, Stays, EvalRetire
    <2>6. (commit[c] => close[c])'
      OBVIOUS
    <2>7. (~initialized[c] => ptr[c] = 0 /\ ~execValid[c])'
      BY DEF Runs
    <2>8. (~execValid[c] => app[c] = NoApp)'
      BY <2>1 DEF ChannelInv, Runs, Held
    <2>9. (active[c] /\ ~restart => windowBank[c] = activeBank)'
      BY <2>1 DEF ChannelInv, BankEdge, Opens, Stays, Runs, Held
    <2> QED BY <2>2, <2>3, <2>4, <2>5, <2>6, <2>7, <2>8, <2>9 DEF ChannelInv
  <1> QED BY <1>1, <1>2 DEF ExecutorInv

\* It holds at start and after a reset.
LEMMA InitExecutorInv == Init => ExecutorInv
  BY DEF Init, ExecutorInv, ChannelInv, Dark, First

LEMMA ResetExecutorInv == Reset => ExecutorInv'
  BY DEF Reset, ExecutorInv, ChannelInv, Dark, First

\* Pulses, gates and decoded fields agree with the window register, an
\* uninitialized channel drives nothing, and no window survives its bank.
THEOREM ExecutorCorrect == Spec => []ExecutorInv
  <1>2. TypeOK /\ ExecutorInv /\ [Next]_vars => ExecutorInv'
    <2> SUFFICES ASSUME TypeOK, ExecutorInv, [Next]_vars PROVE ExecutorInv'
      OBVIOUS
    <2>1. CASE Next
      BY <2>1, StepIsEdgeOrReset, EdgeKeepsExecutorInv, ResetExecutorInv
    <2>2. CASE UNCHANGED vars
      BY <2>2 DEF ExecutorInv, ChannelInv, vars, bankVars, channelVars
    <2> QED BY <2>1, <2>2
  <1> QED BY InitExecutorInv, <1>2, TypeCorrect, PTL DEF Spec

\* Whatever flips, disables and rewrites interleave, a gate that is open is open
\* for the bank in charge, one cycle after a flip at the latest.
THEOREM NoWindowOutlives == Spec => []NoWindowOutlivesItsBank
  <1>1. ExecutorInv => NoWindowOutlivesItsBank
    BY DEF ExecutorInv, ChannelInv, NoWindowOutlivesItsBank
  <1> QED BY <1>1, ExecutorCorrect, PTL

-------------------------------------------------------------------------------
(* The gate, as the rest of the NIC sees it.                               *)

\* A gate is lit by an edge only if that edge saw an armed entry of the bank in
\* charge with start <= time < end, and then it names that entry's application.
THEOREM GatesKeepToTheirEntry == Spec => GateOnlyInsideItsEntry
  <1> DEFINE P == \A c \in Channel : allowed'[c] =>
                    /\ Armed(Current(c)) /\ app'[c] = Current(c).app
                    /\ Current(c).start <= now /\ now < Current(c).end
  <1>1. TypeOK /\ [Next]_vars => [P]_vars
    <2> SUFFICES ASSUME TypeOK, Next PROVE P
      OBVIOUS
    <2>1. CASE Reset
      BY <2>1 DEF Reset, Dark
    <2>2. ASSUME NEW request \in Request, Edge(request) PROVE P
      BY <2>2 DEF Edge, ChannelEdge, Lit, Opens, Stays, EvalActive
    <2> QED BY <2>1, <2>2, StepIsEdgeOrReset
  <1> QED BY <1>1, TypeCorrect, PTL DEF Spec, GateOnlyInsideItsEntry

\* While a gate stays lit its window id stands still: one window is never
\* followed by another without a dark cycle between them.
THEOREM WindowsAreSeparated == Spec => WindowsNeverAbut
  <1> DEFINE P == \A c \in Channel : allowed[c] /\ allowed'[c] =>
                    windowId'[c] = windowId[c] /\ ~open'[c]
  <1>1. TypeOK /\ ExecutorInv /\ [Next]_vars => [P]_vars
    <2> SUFFICES ASSUME TypeOK, ExecutorInv, Next PROVE P
      OBVIOUS
    <2>1. CASE Reset
      BY <2>1 DEF Reset, Dark
    <2>2. ASSUME NEW request \in Request, Edge(request) PROVE P
      <3>1. \A c \in Channel : allowed[c] => active[c]
        BY DEF ExecutorInv, ChannelInv
      <3> QED BY <2>2, <3>1 DEF Edge, ChannelEdge, Opens
    <2> QED BY <2>1, <2>2, StepIsEdgeOrReset
  <1> QED BY <1>1, TypeCorrect, ExecutorCorrect, PTL DEF Spec, WindowsNeverAbut

\* The executor implements the abstract gate: seen from outside there is a lit or
\* dark gate per channel, whose id is renewed only on the way from dark to lit.
THEOREM ExecutorImplementsGate == Spec => ImplementsWindowGate
  <1>1. Init => Gate!Init
    BY DEF Init, Gate!Init, Dark, First
  <1>2. TypeOK /\ TypeOK' /\ ExecutorInv /\ [Next]_vars => [Gate!Next]_<<allowed, windowId>>
    <2> SUFFICES ASSUME TypeOK, TypeOK', ExecutorInv, Next
                 PROVE  Gate!Next
      BY DEF vars, channelVars
    <2>1. CASE Reset
      BY <2>1 DEF Reset, Gate!Next, Gate!Reset, Dark, First
    <2>2. ASSUME NEW request \in Request, Edge(request) PROVE Gate!Move
      <3>1. \A c \in Channel : allowed[c] => active[c]
        BY DEF ExecutorInv, ChannelInv
      <3>2. ASSUME NEW c \in Channel
            PROVE  Gate!Stay(c) \/ Gate!GoDark(c) \/ Gate!Open(c) \/ Gate!Relight(c)
        <4>1. CASE Opens(c)
          BY <2>2, <3>1, <4>1 DEF Edge, ChannelEdge, Opens, Lit, Gate!Open, TypeOK
        <4>2. CASE ~Opens(c)
          BY <2>2, <4>2 DEF Edge, ChannelEdge, Gate!Stay, Gate!GoDark, Gate!Relight, TypeOK
        <4> QED BY <4>1, <4>2
      <3> QED BY <3>2 DEF Gate!Move, TypeOK
    <2> QED BY <2>1, <2>2, StepIsEdgeOrReset DEF Gate!Next
  <1> QED BY <1>1, <1>2, TypeCorrect, ExecutorCorrect, PTL DEF Spec, ImplementsWindowGate, Gate!Spec

-------------------------------------------------------------------------------
(* What selecting a free bank buys.                                        *)

\* The banks in play, and the shape of the table, without its contents.
BankTyping ==
  /\ activeBank \in Bank /\ pendingBank \in Bank /\ adminBank \in Bank
  /\ pendingValid \in BOOLEAN /\ armReg \in BOOLEAN
  /\ prog \in Program
  /\ table = [b \in Bank |-> table[b]]

\* From the moment a program is started on a free bank until it has armed the bank or
\* a reset comes in between, the bank is not the one in charge and nothing is
\* outstanding that could put it in charge; the arm pulse itself follows immediately
\* and finds nothing pending.
OfflineInv ==
  astray # "now" =>
    /\ phase \in {"admin", "words", "arm"} => prog.bank # activeBank /\ ~pendingValid /\ ~armReg
    /\ phase \in {"words", "arm"} => adminBank = prog.bank
    /\ armReg => phase = "ctrl" /\ ~pendingValid

HostInv == BankTyping /\ OfflineInv

\* What an edge of registers and executor does to the banks.
BanksAfter(a, arm) ==
  /\ activeBank' \in Bank /\ pendingBank' \in Bank /\ adminBank' = a
  /\ pendingValid' \in BOOLEAN /\ armReg' = arm
  /\ ~pendingValid => activeBank' = activeBank /\ pendingValid' = armReg

LEMMA EdgeKeepsBanks ==
  ASSUME HostInv, NEW a, NEW t, NEW arm, NEW on, RegisterEdge(a, t, arm, on)
  PROVE  BanksAfter(a, arm)
  <1>1. CanFlipBank \in BOOLEAN /\ (CanFlipBank => pendingValid)
    BY DEF CanFlipBank, HostInv, BankTyping
  <1> QED BY <1>1 DEF RegisterEdge, Edge, BankEdge, HostInv, BankTyping, BanksAfter

\* The table keeps its two banks through any write of one of its words.
LEMMA StepKeepsHostInv == HostInv /\ [HostNext]_allVars => HostInv'
  <1> SUFFICES ASSUME HostInv, [HostNext]_allVars PROVE HostInv'
    OBVIOUS
  <1> USE DEF HostInv, OfflineInv, BankTyping, BanksAfter
  <1>0. prog.bank \in Bank
    BY HostAssumption
  <1>1. CASE SetAdminBank
    <2>1. BanksAfter(prog.bank, FALSE)
      BY <1>1, EdgeKeepsBanks DEF SetAdminBank, BankSelected
    <2> QED BY <1>0, <1>1, <2>1 DEF SetAdminBank, BankSelected
  <1>2. CASE WriteTableWord
    <2>1. BanksAfter(adminBank, FALSE)
      BY <1>2, EdgeKeepsBanks DEF WriteTableWord, WordSent, NoWrite
    <2>2. table' = [b \in Bank |-> table'[b]]
      BY <1>2 DEF WriteTableWord, WordSent
    <2> QED BY <1>2, <2>1, <2>2 DEF WriteTableWord, WordSent
  <1>3. CASE WriteActivateTime
    <2>1. BanksAfter(adminBank, FALSE)
      BY <1>3, EdgeKeepsBanks DEF WriteActivateTime, TimeSent
    <2> QED BY <1>3, <2>1 DEF WriteActivateTime, TimeSent
  <1>4. CASE ArmBankSwitch
    <2>1. BanksAfter(prog.bank, TRUE)
      BY <1>4, EdgeKeepsBanks DEF ArmBankSwitch, ArmSent
    <2> QED BY <1>0, <1>4, <2>1 DEF ArmBankSwitch, ArmSent
  <1>5. CASE EnableSubsystem
    <2>1. BanksAfter(adminBank, FALSE)
      BY <1>5, EdgeKeepsBanks DEF EnableSubsystem, Finished
    <2> QED BY <1>5, <2>1 DEF EnableSubsystem, Finished
  <1>6. CASE Idle
    <2>1. BanksAfter(adminBank, FALSE)
      BY <1>6, EdgeKeepsBanks DEF Idle, NoWrite
    <2> QED BY <1>6, <2>1 DEF Idle, hostVars
  <1>7. CASE ResetNic
    <2>1. /\ activeBank' = 0 /\ pendingBank' = 0 /\ adminBank' = 1 /\ ~pendingValid' /\ ~armReg'
          /\ table' = Blank /\ prog' = prog
          /\ phase' = phase \/ phase # "idle"
          /\ astray' = IF phase = "idle" THEN "never" ELSE "now"
      BY <1>7 DEF ResetNic, Reset, hostVars, HostMoves, BankSelected, WordSent, TimeSent,
                  ArmSent, Finished
    <2>2. table' = [b \in Bank |-> table'[b]]
      BY <2>1 DEF Blank
    <2>3. OfflineInv'
      BY <2>1
    <2>4. /\ activeBank' \in Bank /\ pendingBank' \in Bank /\ adminBank' \in Bank
          /\ pendingValid' = FALSE /\ armReg' = FALSE /\ prog' \in Program
      BY <1>7, <2>1 DEF Bank, ResetNic, Reset
    <2> QED BY <2>2, <2>3, <2>4
  <1>8. ASSUME NEW p \in Program, StartProgram(p) PROVE HostInv'
    <2>1. /\ phase' = "admin" /\ prog' = p /\ (astray' # "now" => Inactive(p))
          /\ UNCHANGED <<activeBank, pendingBank, pendingValid, adminBank, armReg, table>>
      BY <1>8 DEF StartProgram, vars, bankVars, regVars
    <2> QED BY <1>8, <2>1 DEF Inactive
  <1>9. CASE UNCHANGED allVars
    BY <1>9 DEF allVars, vars, bankVars, hostVars, regVars
  <1> QED BY <1>1, <1>2, <1>3, <1>4, <1>5, <1>6, <1>7, <1>8, <1>9 DEF HostNext, Running, Clocked

\* A program that was started on a free bank stays offline until it is armed, whatever
\* was started before it and wherever resets came.
THEOREM ProgramStaysOffline == HostSpec => []HostInv
  <1>1. HostInit => HostInv
    BY DEF HostInit, Init, HostInv, BankTyping, OfflineInv, Bank, Blank
  <1> QED BY <1>1, StepKeepsHostInv, PTL DEF HostSpec

\* Only a flip, a reset or a program gone astray changes the image in charge.
LEMMA LiveBankStays ==
  ASSUME HostInv, HostNext, ~ResetNic, astray # "now"
  PROVE  table'[activeBank] = table[activeBank]
  <1>1. CASE WriteTableWord
    <2>1. activeBank # adminBank /\ activeBank \in Bank
      BY <1>1 DEF WriteTableWord, WordSent, HostInv, OfflineInv, BankTyping
    <2>2. table = [b \in Bank |-> table[b]]
      BY DEF HostInv, BankTyping
    <2> QED BY <1>1, <2>1, <2>2 DEF WriteTableWord, WordSent
  <1>2. CASE ~WriteTableWord
    <2>1. table' = table
      BY <1>2 DEF HostNext, Running, Clocked, SetAdminBank, WriteActivateTime, ArmBankSwitch,
                  EnableSubsystem, Idle, StartProgram, vars
    <2> QED BY <2>1
  <1> QED BY <1>1, <1>2

\* No word of a program that was started on a free bank lands in the bank that is
\* executing, unless a reset comes before its last write.
THEOREM LiveBankIsNotWritten == HostSpec => HostNeverWritesLiveBank
  <1>1. HostInv /\ [HostNext]_allVars
          => [~ResetNic /\ astray # "now" => table'[activeBank] = table[activeBank]]_allVars
    BY LiveBankStays
  <1> QED BY <1>1, ProgramStaysOffline, PTL DEF HostSpec, HostNeverWritesLiveBank

\* The arm pulse of a program that was started on a free bank leaves a pending
\* activation behind it.
THEOREM ArmingIsNeverLost == HostSpec => ArmIsLatched
  <1>1. HostInv /\ [HostNext]_allVars
          => [armReg /\ ~ResetNic /\ astray # "now" => pendingValid']_allVars
    <2> SUFFICES ASSUME HostInv, HostNext, armReg, ~ResetNic, astray # "now" PROVE pendingValid'
      OBVIOUS
    <2>1. phase = "ctrl" /\ ~pendingValid
      BY DEF HostInv, OfflineInv
    <2>2. ASSUME NEW a, BanksAfter(a, FALSE) PROVE pendingValid'
      BY <2>1, <2>2 DEF BanksAfter
    <2>3. CASE EnableSubsystem \/ Idle
      BY <2>2, <2>3, EdgeKeepsBanks DEF EnableSubsystem, Finished, Idle, NoWrite
    <2> QED BY <2>1, <2>3 DEF HostNext, Running, Clocked, SetAdminBank, BankSelected,
                              WriteTableWord, WordSent, WriteActivateTime, TimeSent,
                              ArmBankSwitch, ArmSent, StartProgram
  <1> QED BY <1>1, ProgramStaysOffline, PTL DEF HostSpec, ArmIsLatched

-------------------------------------------------------------------------------
(* The executor and the runtime behind any host.                           *)

\* The executor behind the register block keeps the invariant it keeps alone.
LEMMA HostedExecutor == HostSpec => []ExecutorInv
  <1>1. HostInit => ExecutorInv
    BY InitExecutorInv DEF HostInit
  <1>2. ExecutorInv /\ [HostNext]_allVars => ExecutorInv'
    <2> SUFFICES ASSUME ExecutorInv, [HostNext]_allVars PROVE ExecutorInv'
      OBVIOUS
    <2>1. ASSUME NEW a, NEW t, NEW arm, NEW on, RegisterEdge(a, t, arm, on) PROVE ExecutorInv'
      BY <2>1, EdgeKeepsExecutorInv DEF RegisterEdge
    <2>2. CASE ResetNic
      BY <2>2, ResetExecutorInv DEF ResetNic
    <2>3. CASE UNCHANGED vars
      BY <2>3 DEF ExecutorInv, ChannelInv, vars, bankVars, channelVars
    <2> QED
      BY <2>1, <2>2, <2>3 DEF HostNext, Running, Clocked, SetAdminBank, WriteTableWord,
                              WriteActivateTime, ArmBankSwitch, EnableSubsystem, Idle, NoWrite,
                              StartProgram, allVars
  <1> QED BY <1>1, <1>2, PTL DEF HostSpec

\* No application is ever told that a window of its own closed or committed, however
\* the NIC is programmed.
THEOREM EndOfWindowIsAlwaysSwallowed == HostSpec => []EndOfWindowIsSwallowed
  <1>1. ExecutorInv => EndOfWindowIsSwallowed
    <2> SUFFICES ASSUME ExecutorInv, NEW c \in Channel, NEW a \in Slotted
                 PROVE  ~AppClose(c, a) /\ ~AppCommit(c, a)
      BY DEF EndOfWindowIsSwallowed
    <2>1. (allowed[c] => active[c]) /\ (close[c] => ~active[c]) /\ (commit[c] => close[c])
      BY DEF ExecutorInv, ChannelInv
    <2> QED BY <2>1 DEF AppClose, AppCommit, Strobe, Selected
  <1> QED BY <1>1, HostedExecutor, PTL

-------------------------------------------------------------------------------
(* A program's words.                                                      *)

WordName == {"start", "end", "app", "flags"}

LEMMA ProgramTyping ==
  ASSUME NEW p \in Program
  PROVE  /\ p.bank \in Bank /\ p.time \in Time /\ p.enableSubsystem \in BOOLEAN
         /\ TX \in Channel /\ RX \in Channel /\ TX # RX
         /\ \A c \in Channel : /\ c = TX \/ c = RX
                               /\ p.entries[c] \in Seq(Entry)
                               /\ Len(p.entries[c]) \in Nat /\ Len(p.entries[c]) <= EntryCount
  <1>1. \A c \in Channel : p.entries[c] \in Seq(Entry) /\ Len(p.entries[c]) <= EntryCount
    BY HostAssumption
  <1>2. \A c \in Channel : Len(p.entries[c]) \in Nat
    BY <1>1, LenProperties
  <1> QED BY <1>1, <1>2, HostAssumption

\* The slots of the transmit table come first, then those of the receive table.
LEMMA SlotsAre ==
  ASSUME NEW p \in Program
  PROVE  LET m == Len(p.entries[TX])
             n == Len(p.entries[RX])
         IN  /\ Len(Slots(p)) = m + n
             /\ \A k \in 1 .. m :
                  Slots(p)[k] = [channel |-> TX, index |-> k - 1, entry |-> p.entries[TX][k]]
             /\ \A k \in 1 .. n :
                  Slots(p)[m + k] = [channel |-> RX, index |-> k - 1, entry |-> p.entries[RX][k]]
  <1> DEFINE m == Len(p.entries[TX])
             n == Len(p.entries[RX])
             R == [channel : Channel, index : Nat, entry : Entry]
             f == [k \in 1 .. m |-> [channel |-> TX, index |-> k - 1, entry |-> p.entries[TX][k]]]
             g == [k \in 1 .. n |-> [channel |-> RX, index |-> k - 1, entry |-> p.entries[RX][k]]]
  <1>1. m \in Nat /\ n \in Nat /\ TX \in Channel /\ RX \in Channel
    BY ProgramTyping
  <1>2. f \in Seq(R) /\ Len(f) = m
    <2>1. \A k \in 1 .. m : p.entries[TX][k] \in Entry
      BY <1>1, ProgramTyping
    <2> QED BY <1>1, <2>1
  <1>3. g \in Seq(R) /\ Len(g) = n
    <2>1. \A k \in 1 .. n : p.entries[RX][k] \in Entry
      BY <1>1, ProgramTyping
    <2> QED BY <1>1, <2>1
  <1>4. Slots(p) = f \o g
    BY DEF Slots
  <1>5. Len(f \o g) = m + n /\ \A i \in 1 .. m + n : (f \o g)[i] = IF i <= m THEN f[i] ELSE g[i - m]
    <2> HIDE DEF f, g, m, n
    <2> QED BY <1>1, <1>2, <1>3, ConcatProperties
  <1>6. \A k \in 1 .. m : (f \o g)[k] = f[k]
    <2> HIDE DEF f, g, m, n
    <2> QED BY <1>1, <1>5
  <1>7. \A k \in 1 .. n : (f \o g)[m + k] = g[k]
    <2> HIDE DEF f, g, m, n
    <2> QED BY <1>1, <1>5
  <1> QED BY <1>1, <1>4, <1>5, <1>6, <1>7

\* Every slot is a slot of the table, and gets an entry.
LEMMA SlotTyping ==
  ASSUME NEW p \in Program, NEW i \in 1 .. Len(Slots(p))
  PROVE  /\ Slots(p)[i].channel \in Channel /\ Slots(p)[i].index \in Index
         /\ Slots(p)[i].entry \in Entry
  <1> DEFINE m == Len(p.entries[TX])
             n == Len(p.entries[RX])
  <1>1. m \in Nat /\ n \in Nat /\ m <= EntryCount /\ n <= EntryCount /\ EntryCount \in Nat
    BY ProgramTyping, ConstantsAssumption
  <1>2. CASE i <= m
    <2>1. i \in 1 .. m
      BY <1>1, <1>2
    <2>2. Slots(p)[i] = [channel |-> TX, index |-> i - 1, entry |-> p.entries[TX][i]]
      BY <2>1, SlotsAre
    <2>3. p.entries[TX][i] \in Entry
      BY <2>1, ProgramTyping
    <2> QED BY <1>1, <2>1, <2>2, <2>3, ProgramTyping DEF Index
  <1>3. CASE i > m
    <2>1. PICK k \in 1 .. n : i = m + k
      <3>1. i - m \in 1 .. n /\ i = m + (i - m)
        <4>1. i \in 1 .. m + n
          BY SlotsAre
        <4> HIDE DEF m, n
        <4> QED BY <1>1, <1>3, <4>1
      <3> QED BY <3>1
    <2>2. Slots(p)[i] = [channel |-> RX, index |-> k - 1, entry |-> p.entries[RX][k]]
      BY <2>1, SlotsAre
    <2>3. p.entries[RX][k] \in Entry
      BY <2>1, ProgramTyping
    <2> QED BY <1>1, <2>1, <2>2, <2>3, ProgramTyping DEF Index
  <1> QED BY <1>1, <1>2, <1>3

\* The word with number n belongs to a slot, and is one of its four.
LEMMA WordTyping ==
  ASSUME NEW p \in Program, NEW n \in 1 .. WordCount(p)
  PROVE  /\ ((n - 1) \div 4) + 1 \in 1 .. Len(Slots(p)) /\ Len(Words) = 4
         /\ Word(n) \in WordName
         /\ Slot(p, n).channel \in Channel /\ Slot(p, n).index \in Index
         /\ Slot(p, n).entry \in Entry
  <1>1. Len(Words) = 4
    BY DEF Words
  <1>2. Len(Slots(p)) \in Nat
    BY SlotsAre, ProgramTyping
  <1>3. n \in Nat /\ 1 <= n /\ n <= 4 * Len(Slots(p))
    BY <1>1, <1>2 DEF WordCount
  <1>4. ((n - 1) \div 4) + 1 \in 1 .. Len(Slots(p)) /\ (n - 1) % 4 \in 0 .. 3
    BY <1>2, <1>3
  <1>5. Word(n) \in WordName
    <2>1. ((n - 1) % 4) + 1 \in 1 .. 4
      BY <1>4
    <2> QED BY <1>1, <2>1 DEF Word, Words, WordName
  <1> QED BY <1>1, <1>4, <1>5, SlotTyping DEF Slot

\* One word of an entry replaced by that of another leaves an entry.
LEMMA PatchTyping ==
  ASSUME NEW old \in Entry, NEW e \in Entry, NEW w \in WordName, NEW new,
         new = [old EXCEPT ![w] = e[w]]
  PROVE  /\ new \in Entry
         /\ new[w] = e[w]
         /\ \A v \in WordName : v # w => new[v] = old[v]
  <1>1. CASE w = "start"
    BY <1>1 DEF Entry, WordName
  <1>2. CASE w = "end"
    BY <1>2 DEF Entry, WordName
  <1>3. CASE w = "app"
    BY <1>3 DEF Entry, WordName
  <1>4. CASE w = "flags"
    BY <1>4 DEF Entry, WordName
  <1> QED BY <1>1, <1>2, <1>3, <1>4 DEF WordName

\* What writing one word does to the table.
LEMMA WordWritten ==
  ASSUME TypeOK, prog \in Program, adminBank \in Bank, cursor \in 1 .. WordCount(prog),
         WriteTableWord
  PROVE  LET c == Slot(prog, cursor).channel
             i == Slot(prog, cursor).index
             w == Word(cursor)
         IN  /\ table' \in [Bank -> [Channel -> [Index -> Entry]]]
             /\ table'[adminBank][c][i][w] = Slot(prog, cursor).entry[w]
             /\ \A b \in Bank, d \in Channel, j \in Index, v \in WordName :
                  b # adminBank \/ d # c \/ j # i \/ v # w => table'[b][d][j][v] = table[b][d][j][v]
  <1> DEFINE c == Slot(prog, cursor).channel
             i == Slot(prog, cursor).index
             w == Word(cursor)
             e == Slot(prog, cursor).entry
             old == table[adminBank][c][i]
             new == [old EXCEPT ![w] = e[w]]
  <1>1. c \in Channel /\ i \in Index /\ e \in Entry /\ w \in WordName
    BY WordTyping
  <1>2. table \in [Bank -> [Channel -> [Index -> Entry]]]
    BY DEF TypeOK
  <1>3. old \in Entry
    BY <1>1, <1>2
  <1>4. table' = [table EXCEPT ![adminBank][c][i] = new]
    BY Zenon DEF WriteTableWord, WordSent
  <1>5. /\ new \in Entry /\ new[w] = e[w]
        /\ \A v \in WordName : v # w => new[v] = old[v]
    <2>1. new = [old EXCEPT ![w] = e[w]]
      OBVIOUS
    <2> HIDE DEF c, i, w, e, old, new
    <2>2. new \in Entry
      BY <1>1, <1>3, <2>1, PatchTyping
    <2>3. new[w] = e[w]
      BY <1>1, <1>3, <2>1, PatchTyping
    <2>4. \A v \in WordName : v # w => new[v] = old[v]
      BY <1>1, <1>3, <2>1, PatchTyping
    <2> QED BY <2>2, <2>3, <2>4
  <1> HIDE DEF new, w, e, c, i
  <1>6. table' \in [Bank -> [Channel -> [Index -> Entry]]]
    BY <1>1, <1>2, <1>4, <1>5
  <1>7. table'[adminBank][c][i] = new
    BY <1>1, <1>2, <1>4
  <1>8. ASSUME NEW b \in Bank, NEW d \in Channel, NEW j \in Index,
               NEW v \in WordName,
               b # adminBank \/ d # c \/ j # i \/ v # w
        PROVE  table'[b][d][j][v] = table[b][d][j][v]
    <2>1. CASE b = adminBank /\ d = c /\ j = i
      BY <1>5, <1>7, <1>8, <2>1
    <2>2. CASE ~(b = adminBank /\ d = c /\ j = i)
      <3>1. table'[b][d][j] = table[b][d][j]
        BY <1>1, <1>2, <1>4, <2>2
      <3> QED BY <3>1
    <2> QED BY <2>1, <2>2
  <1> QED BY <1>5, <1>6, <1>7, <1>8 DEF w, e, c, i

-------------------------------------------------------------------------------
(* Types.                                                                  *)

LEMMA RegisterTyping ==
  ASSUME HostTypeOK, NEW a \in Bank, NEW t \in Time, NEW arm \in BOOLEAN, NEW on \in BOOLEAN,
         RegisterEdge(a, t, arm, on), table' \in [Bank -> [Channel -> [Index -> Entry]]]
  PROVE  /\ TypeOK'
         /\ adminBank' \in Bank /\ activateTime' \in Time
         /\ armReg' \in BOOLEAN /\ ctrl' \in BOOLEAN /\ hurried' \in BOOLEAN
  <1>1. [valid |-> armReg, bank |-> adminBank, time |-> activateTime] \in Request
    BY DEF HostTypeOK, Request
  <1>2. /\ Edge([valid |-> armReg, bank |-> adminBank, time |-> activateTime])
        /\ enable' \in BOOLEAN /\ TypeOK
    BY DEF HostTypeOK, RegisterEdge
  <1>3. TypeOK'
    BY <1>1, <1>2, EdgeTyping
  <1> QED BY <1>3 DEF RegisterEdge, HostTypeOK

LEMMA StepTyping == HostTypeOK /\ [HostNext]_allVars => HostTypeOK'
  <1> SUFFICES ASSUME HostTypeOK, [HostNext]_allVars PROVE HostTypeOK'
    OBVIOUS
  <1>1. /\ prog.bank \in Bank /\ prog.time \in Time /\ prog.enableSubsystem \in BOOLEAN
        /\ adminBank \in Bank /\ activateTime \in Time /\ ctrl \in BOOLEAN
        /\ table \in [Bank -> [Channel -> [Index -> Entry]]]
        /\ prog \in Program /\ cursor \in Nat \ {0} /\ WordCount(prog) \in Nat
        /\ phase \in {"idle", "admin", "words", "arm", "ctrl"}
    <2>1. prog \in Program
      BY DEF HostTypeOK
    <2>2. WordCount(prog) \in Nat
      <3>1. Len(Words) = 4
        BY DEF Words
      <3>2. Len(Slots(prog)) \in Nat
        BY <2>1, SlotsAre, ProgramTyping
      <3> QED BY <3>1, <3>2 DEF WordCount
    <2> QED BY <2>1, <2>2, ProgramTyping DEF HostTypeOK, TypeOK
  <1>2. CASE SetAdminBank
    BY <1>1, <1>2, RegisterTyping DEF SetAdminBank, BankSelected, HostTypeOK
  <1>3. CASE WriteTableWord
    <2>1. cursor \in 1 .. WordCount(prog)
      BY <1>1, <1>3 DEF WriteTableWord, WordSent
    <2>2. table' \in [Bank -> [Channel -> [Index -> Entry]]]
      BY <1>1, <1>3, <2>1, WordWritten DEF HostTypeOK
    <2>3. RegisterEdge(adminBank, activateTime, FALSE, ctrl) /\ FALSE \in BOOLEAN
      BY <1>3 DEF WriteTableWord, WordSent, NoWrite
    <2>4. /\ TypeOK' /\ adminBank' \in Bank /\ activateTime' \in Time /\ armReg' \in BOOLEAN
          /\ ctrl' \in BOOLEAN /\ hurried' \in BOOLEAN
      BY <1>1, <2>2, <2>3, RegisterTyping, Zenon
    <2> QED BY <1>1, <1>3, <2>4 DEF WriteTableWord, WordSent, HostTypeOK
  <1>4. CASE WriteActivateTime
    BY <1>1, <1>4, RegisterTyping DEF WriteActivateTime, TimeSent, HostTypeOK
  <1>5. CASE ArmBankSwitch
    BY <1>1, <1>5, RegisterTyping DEF ArmBankSwitch, ArmSent, HostTypeOK
  <1>6. CASE EnableSubsystem
    <2>1. (ctrl \/ prog.enableSubsystem) \in BOOLEAN
      BY <1>1
    <2> QED BY <1>1, <1>6, <2>1, RegisterTyping DEF EnableSubsystem, Finished, HostTypeOK
  <1>7. CASE Idle
    BY <1>1, <1>7, RegisterTyping DEF Idle, NoWrite, HostTypeOK, hostVars
  <1>8. CASE ResetNic
    <2>1. TypeOK'
      BY <1>8, ResetTyping DEF ResetNic, HostTypeOK
    <2>2. /\ phase' \in {"idle", "admin", "words", "arm", "ctrl"}
          /\ prog' \in Program /\ cursor' \in Nat \ {0}
      <3>1. /\ prog' = prog /\ (cursor' = cursor \/ cursor' = cursor + 1)
            /\ phase' \in {phase, "idle", "words", "arm", "ctrl"}
        BY <1>8 DEF ResetNic, hostVars, HostMoves, BankSelected, WordSent, TimeSent, ArmSent,
                    Finished
      <3> QED BY <1>1, <3>1
    <2>3. /\ adminBank' \in Bank /\ activateTime' \in Time /\ armReg' \in BOOLEAN
          /\ ctrl' \in BOOLEAN /\ hurried' \in BOOLEAN /\ astray' \in Astray
      BY <1>8, ConstantsAssumption DEF ResetNic, HostTypeOK, Bank, Astray
    <2> QED BY <2>1, <2>2, <2>3 DEF HostTypeOK
  <1>9. ASSUME NEW p \in Program, StartProgram(p) PROVE HostTypeOK'
    BY <1>9 DEF StartProgram, HostTypeOK, TypeOK, vars, bankVars, channelVars, regVars, Astray
  <1>10. CASE UNCHANGED allVars
    BY <1>10 DEF HostTypeOK, TypeOK, allVars, hostVars, vars, bankVars, channelVars, regVars
  <1> QED BY <1>2, <1>3, <1>4, <1>5, <1>6, <1>7, <1>8, <1>9, <1>10 DEF HostNext, Running, Clocked

\* The registers, the table and the executor stay in range however the NIC is
\* programmed: in particular every word lands in a slot the table has
\* (_write_table_words of ctrl_lib.py, dni_subsystem.v), whatever mixture of entries the
\* executor meets on the way.
THEOREM ProgrammedTypes == HostSpec => []HostTypeOK
  <1>1. HostInit => HostTypeOK
    <2> SUFFICES ASSUME HostInit PROVE HostTypeOK
      OBVIOUS
    <2>1. TypeOK
      BY InitTyping DEF HostInit
    <2>2. 1 \in Bank /\ 0 \in Time
      BY ConstantsAssumption DEF Bank
    <2>3. phase \in {"idle", "admin", "words", "arm", "ctrl"} /\ cursor \in Nat \ {0}
      BY DEF HostInit
    <2>4. /\ prog \in Program /\ adminBank \in Bank /\ activateTime \in Time
          /\ armReg \in BOOLEAN /\ ctrl \in BOOLEAN /\ hurried \in BOOLEAN /\ astray \in Astray
      BY <2>2, Zenon DEF HostInit, Astray
    <2> QED BY <2>1, <2>3, <2>4, Zenon DEF HostTypeOK
  <1> QED BY <1>1, StepTyping, PTL DEF HostSpec

-------------------------------------------------------------------------------
(* Windows, under a clock that does not step back.                         *)

Forward == \A step \in Advance : step[1] <= step[2]

\* A window that is open is lit, for the application of its entry, which has begun.
WindowsAreLit ==
  \A c \in Channel : active[c] /\ ~restart =>
    /\ allowed[c] /\ Armed(Current(c)) /\ Current(c).start <= now
    /\ app[c] = Current(c).app

WindowInv == astray = "never" => WindowsAreLit

\* A step is an edge of the executor, a reset, or leaves the executor alone.
LEMMA HostedStep ==
  ASSUME HostNext
  PROVE  \/ ResetNic
         \/ \E request : Edge(request)
         \/ UNCHANGED vars
  BY DEF HostNext, Running, Clocked, SetAdminBank, WriteTableWord, WriteActivateTime,
         ArmBankSwitch, EnableSubsystem, Idle, NoWrite, StartProgram, RegisterEdge

\* Only a reset with no program under way makes up for programs that went astray.
LEMMA NobodyComesBack ==
  ASSUME HostNext, ~ResetNic
  PROVE  astray' = "never" => astray = "never"
  BY DEF HostNext, Running, Clocked, SetAdminBank, WriteTableWord, WriteActivateTime,
         ArmBankSwitch, EnableSubsystem, Idle, StartProgram

LEMMA EdgeKeepsWindows ==
  ASSUME HostTypeOK, HostTypeOK', WindowsAreLit, Forward, NEW request, Edge(request),
         table'[activeBank] = table[activeBank]
  PROVE  WindowsAreLit'
  <1> SUFFICES ASSUME NEW c \in Channel, active'[c], ~restart'
               PROVE  /\ allowed'[c] /\ Armed(Current(c)') /\ Current(c)'.start <= now'
                      /\ app'[c] = Current(c)'.app
    BY DEF WindowsAreLit, Armed
  <1>1. activeBank' = activeBank
    BY DEF Edge, BankEdge
  <1>2. /\ Opens(c) \/ (Stays(c) /\ active[c])
        /\ ptr'[c] = IF ~Runs(c) THEN 0 ELSE IF Closes(c) THEN NextPtr(c) ELSE ptr[c]
        /\ allowed'[c] = Lit(c)
        /\ app'[c] = IF Runs(c) /\ Armed(Current(c)) THEN Current(c).app
                     ELSE IF Held \/ Runs(c) THEN NoApp ELSE app[c]
    BY DEF Edge, ChannelEdge
  <1>3. Runs(c) /\ ~Closes(c)
    BY <1>2 DEF Opens, Stays, Closes
  <1>4. Current(c)' = Current(c)
    BY <1>1, <1>2, <1>3 DEF Current
  <1>5. now \in Nat /\ now' \in Nat /\ now <= now'
    <2>1. now \in Time /\ now' \in Time
      BY DEF HostTypeOK, TypeOK
    <2>2. <<now, now'>> \in Advance
      BY DEF Edge, TimeEdge
    <2>3. now <= now'
      BY <2>2 DEF Forward
    <2> QED BY <2>1, <2>3, ConstantsAssumption
  <1>6. Current(c) \in Entry /\ Current(c).start \in Nat /\ Current(c).end \in Nat
    <2>1. Current(c) \in Entry
      BY DEF HostTypeOK, TypeOK, Current
    <2> QED BY <2>1, ConstantsAssumption DEF Entry
  <1>7. Armed(Current(c)) /\ Current(c).start <= now
    BY <1>2, <1>3 DEF Opens, EvalActive, WindowsAreLit, Runs, Held
  <1>8. Lit(c)
    <2>1. CASE Opens(c)
      BY <2>1 DEF Lit
    <2>2. CASE Stays(c) /\ active[c]
      BY <2>2, <1>3, <1>5, <1>6, <1>7 DEF Lit, EvalActive, Closes, EvalRetire
    <2> QED BY <1>2, <2>1, <2>2
  <1> QED BY <1>2, <1>3, <1>4, <1>5, <1>6, <1>7, <1>8

LEMMA WindowInvHolds ==
  ASSUME Forward
  PROVE  HostSpec => []WindowInv
  <1>1. HostInit => WindowInv
    BY DEF HostInit, Init, WindowInv, WindowsAreLit, Dark
  <1>2. HostInv /\ HostTypeOK /\ HostTypeOK' /\ WindowInv /\ [HostNext]_allVars => WindowInv'
    <2> SUFFICES ASSUME HostInv, HostTypeOK, HostTypeOK', WindowInv, [HostNext]_allVars
                 PROVE  WindowInv'
      OBVIOUS
    <2>1. CASE UNCHANGED vars /\ (astray' = "never" => astray = "never")
      BY <2>1 DEF WindowInv, WindowsAreLit, Current, vars, bankVars, channelVars
    <2>2. CASE ResetNic
      BY <2>2 DEF ResetNic, Reset, WindowInv, WindowsAreLit, Dark
    <2>3. CASE HostNext /\ ~ResetNic
      <3>1. astray' = "never" => astray = "never"
        BY <2>3, NobodyComesBack
      <3> QED BY <2>1, <2>3, <3>1, LiveBankStays, HostedStep, EdgeKeepsWindows DEF WindowInv
    <2> QED BY <2>1, <2>2, <2>3 DEF allVars
  <1> QED BY <1>1, <1>2, ProgramStaysOffline, ProgrammedTypes, PTL DEF HostSpec

\* Whoever may use the wire has been told so, while time does not step back: the gate
\* of an application is lit only by the open pulse of its own window
\* (processor_runtime.v:94-116).  A clock that steps back would light a gate again
\* inside its window, without a pulse.
THEOREM EveryGateIsAnnounced ==
  ASSUME Forward
  PROVE  HostSpec => GateIsAnnounced
  <1> DEFINE Told == astray = "never" =>
                       \A c \in Channel, a \in Slotted :
                         ~AppAllowed(c, a) /\ AppAllowed(c, a)' => AppOpen(c, a)'
  <1>1. HostInv /\ HostTypeOK /\ WindowInv /\ [HostNext]_allVars => [Told]_allVars
    <2> SUFFICES ASSUME WindowsAreLit, HostTypeOK, HostNext,
                        NEW c \in Channel, NEW a \in Slotted, ~AppAllowed(c, a), AppAllowed(c, a)'
                 PROVE  AppOpen(c, a)'
      BY DEF WindowInv
    <2>1. enable' /\ allowed'[c] /\ app'[c] \in Slotted /\ app'[c] = a
      BY DEF AppAllowed, Strobe, Selected
    <2>2. CASE ResetNic
      BY <2>1, <2>2 DEF ResetNic, Reset, Dark
    <2>3. CASE UNCHANGED vars
      <3>1. enable /\ allowed[c] /\ app[c] \in Slotted /\ app[c] = a
        BY <2>1, <2>3 DEF vars, channelVars
      <3> QED BY <3>1 DEF AppAllowed, Strobe, Selected
    <2>4. CASE \E request : Edge(request)
      <3>1. /\ Lit(c) /\ open'[c] = Opens(c)
            /\ app'[c] = IF Runs(c) /\ Armed(Current(c)) THEN Current(c).app
                         ELSE IF Held \/ Runs(c) THEN NoApp ELSE app[c]
        BY <2>1, <2>4 DEF Edge, ChannelEdge
      <3>2. CASE Opens(c)
        <4>1. open'[c]
          BY <3>1, <3>2
        <4> QED BY <2>1, <4>1 DEF AppOpen, Strobe, Selected
      <3>3. CASE Stays(c) /\ active[c] /\ EvalActive(c)
        <4>1. enable /\ ~restart /\ Runs(c) /\ Armed(Current(c))
          BY <3>3 DEF Stays, Runs, Held, EvalActive
        <4>2. allowed[c] /\ app[c] = Current(c).app
          BY <3>3, <4>1 DEF WindowsAreLit
        <4>3. app[c] = a
          BY <2>1, <3>1, <4>1, <4>2
        <4> QED BY <4>1, <4>2, <4>3 DEF AppAllowed, Strobe, Selected
      <3> QED BY <3>1, <3>2, <3>3 DEF Lit
    <2> QED BY <2>2, <2>3, <2>4, HostedStep
  <1> HIDE DEF Told
  <1>2. HostSpec => [][Told]_allVars
    BY <1>1, WindowInvHolds, ProgramStaysOffline, ProgrammedTypes, PTL DEF HostSpec
  <1> QED BY <1>2 DEF GateIsAnnounced, Told

-------------------------------------------------------------------------------
(* A bank is armed with its image whole.                                   *)

\* The words of a slot.
LEMMA WordsOfSlot ==
  ASSUME NEW p \in Program, NEW i \in 1 .. Len(Slots(p)), NEW w \in WordName
  PROVE  \E n \in 1 .. WordCount(p) : Slot(p, n) = Slots(p)[i] /\ Word(n) = w
  <1>1. PICK j \in 1 .. 4 : Words[j] = w
    <2>1. Words[1] = "start" /\ Words[2] = "end" /\ Words[3] = "app" /\ Words[4] = "flags"
      BY DEF Words
    <2> QED BY <2>1 DEF WordName
  <1>2. Len(Words) = 4 /\ Len(Slots(p)) \in Nat
    BY SlotsAre, ProgramTyping DEF Words
  <1> DEFINE n == 4 * (i - 1) + j
  <1>3. n \in 1 .. WordCount(p) /\ ((n - 1) \div 4) + 1 = i /\ ((n - 1) % 4) + 1 = j
    BY <1>2 DEF WordCount
  <1> HIDE DEF n
  <1>4. Slot(p, n) = Slots(p)[i] /\ Word(n) = w
    BY <1>1, <1>2, <1>3 DEF Slot, Word
  <1> QED BY <1>3, <1>4

\* No two slots are at the same place of the table.
LEMMA SlotsAreApart ==
  ASSUME NEW p \in Program, NEW i \in 1 .. Len(Slots(p)), NEW j \in 1 .. Len(Slots(p)),
         Slots(p)[i].channel = Slots(p)[j].channel, Slots(p)[i].index = Slots(p)[j].index
  PROVE  i = j
  <1> DEFINE m == Len(p.entries[TX])
             n == Len(p.entries[RX])
  <1>1. m \in Nat /\ n \in Nat /\ TX # RX /\ Len(Slots(p)) = m + n
    BY ProgramTyping, SlotsAre
  <1>2. ASSUME NEW k \in 1 .. Len(Slots(p))
        PROVE  /\ k <= m => Slots(p)[k].channel = TX /\ Slots(p)[k].index = k - 1
               /\ k > m => Slots(p)[k].channel = RX /\ Slots(p)[k].index = k - m - 1
    <2>1. CASE k <= m
      <3>1. k \in 1 .. m
        BY <1>1, <2>1
      <3>2. Slots(p)[k] = [channel |-> TX, index |-> k - 1, entry |-> p.entries[TX][k]]
        BY <3>1, SlotsAre
      <3> QED BY <1>1, <2>1, <3>2
    <2>2. CASE k > m
      <3>1. PICK l \in 1 .. n : k = m + l
        <4> HIDE DEF m, n
        <4>1. k - m \in 1 .. n /\ k = m + (k - m)
          BY <1>1, <2>2
        <4> QED BY <4>1
      <3>2. Slots(p)[k] = [channel |-> RX, index |-> l - 1, entry |-> p.entries[RX][l]]
        BY <3>1, SlotsAre
      <3> QED BY <1>1, <2>2, <3>1, <3>2
    <2> QED BY <1>1, <2>1, <2>2
  <1> HIDE DEF m, n
  <1>3. /\ i <= m => Slots(p)[i].channel = TX /\ Slots(p)[i].index = i - 1
        /\ i > m => Slots(p)[i].channel = RX /\ Slots(p)[i].index = i - m - 1
        /\ j <= m => Slots(p)[j].channel = TX /\ Slots(p)[j].index = j - 1
        /\ j > m => Slots(p)[j].channel = RX /\ Slots(p)[j].index = j - m - 1
    BY <1>2
  <1> QED BY <1>1, <1>3

\* No two words of a program go to the same place.
LEMMA WordsAreApart ==
  ASSUME NEW p \in Program, NEW n \in 1 .. WordCount(p), NEW k \in 1 .. WordCount(p),
         Slot(p, n).channel = Slot(p, k).channel, Slot(p, n).index = Slot(p, k).index,
         Word(n) = Word(k)
  PROVE  n = k
  <1> DEFINE i == ((n - 1) \div 4) + 1
             j == ((k - 1) \div 4) + 1
  <1>1. i \in 1 .. Len(Slots(p)) /\ j \in 1 .. Len(Slots(p)) /\ Len(Words) = 4
    BY WordTyping
  <1>2. i = j
    <2> HIDE DEF i, j
    <2>1. Slot(p, n) = Slots(p)[i] /\ Slot(p, k) = Slots(p)[j]
      BY <1>1 DEF Slot, i, j
    <2> QED BY <1>1, <2>1, SlotsAreApart
  <1>3. n \in Nat /\ k \in Nat /\ n >= 1 /\ k >= 1
    <2>1. Len(Slots(p)) \in Nat
      BY SlotsAre, ProgramTyping
    <2> QED BY <1>1, <2>1 DEF WordCount
  <1>4. (n - 1) % 4 = (k - 1) % 4
    <2> DEFINE a == ((n - 1) % 4) + 1
               b == ((k - 1) % 4) + 1
    <2>1. a \in 1 .. 4 /\ b \in 1 .. 4
      BY <1>3
    <2>2. Words[a] = Words[b]
      BY <1>1 DEF Word
    <2>3. a = b
      <3> HIDE DEF a, b
      <3> QED BY <2>1, <2>2 DEF Words
    <2> QED BY <1>3, <2>3
  <1> QED BY <1>2, <1>3, <1>4

\* Word n of p is in its place in bank b.
Written(b, p, n) ==
  table[b][Slot(p, n).channel][Slot(p, n).index][Word(n)] = Slot(p, n).entry[Word(n)]

\* A bank with every word of a program in place holds its image.
LEMMA AllWordsMakeTheImage ==
  ASSUME TypeOK, NEW p \in Program, NEW b \in Bank, \A n \in 1 .. WordCount(p) : Written(b, p, n)
  PROVE  Holds(b, p)
  <1>1. table \in [Bank -> [Channel -> [Index -> Entry]]]
    BY DEF TypeOK
  <1>2. ASSUME NEW e \in Entry, NEW f \in Entry, \A w \in WordName : e[w] = f[w] PROVE e = f
    <2>1. e.start = f.start /\ e.end = f.end /\ e.flags = f.flags /\ e.app = f.app
      BY <1>2 DEF WordName
    <2> QED BY <2>1 DEF Entry
  <1>3. ASSUME NEW i \in 1 .. Len(Slots(p))
        PROVE  table[b][Slots(p)[i].channel][Slots(p)[i].index] = Slots(p)[i].entry
    <2>1. /\ Slots(p)[i].channel \in Channel /\ Slots(p)[i].index \in Index
          /\ Slots(p)[i].entry \in Entry
      BY SlotTyping
    <2>2. table[b][Slots(p)[i].channel][Slots(p)[i].index] \in Entry
      BY <1>1, <2>1
    <2>3. ASSUME NEW w \in WordName
          PROVE  table[b][Slots(p)[i].channel][Slots(p)[i].index][w] = Slots(p)[i].entry[w]
      <3>1. PICK n \in 1 .. WordCount(p) : Slot(p, n) = Slots(p)[i] /\ Word(n) = w
        BY WordsOfSlot
      <3> QED BY <3>1 DEF Written
    <2> QED BY <1>2, <2>1, <2>2, <2>3
  <1> SUFFICES ASSUME NEW c \in Channel, NEW k \in 1 .. Len(p.entries[c])
               PROVE  table[b][c][k - 1] = p.entries[c][k]
    BY DEF Holds
  <1> DEFINE m == Len(p.entries[TX])
             n == Len(p.entries[RX])
  <1>4. m \in Nat /\ n \in Nat /\ Len(Slots(p)) = m + n /\ (c = TX \/ c = RX)
    BY ProgramTyping, SlotsAre
  <1>5. CASE c = TX
    <2>1. k \in 1 .. m /\ k \in 1 .. Len(Slots(p))
      <3>1. k \in 1 .. m
        BY <1>5
      <3> HIDE DEF m, n
      <3> QED BY <1>4, <3>1
    <2>2. Slots(p)[k] = [channel |-> TX, index |-> k - 1, entry |-> p.entries[TX][k]]
      BY <2>1, SlotsAre
    <2>3. table[b][Slots(p)[k].channel][Slots(p)[k].index] = Slots(p)[k].entry
      BY <1>3, <2>1
    <2>4. table[b][TX][k - 1] = p.entries[TX][k]
      BY <2>2, <2>3
    <2> QED BY <1>5, <2>4
  <1>6. CASE c = RX
    <2>1. k \in 1 .. n /\ m + k \in 1 .. Len(Slots(p))
      <3>1. k \in 1 .. n
        BY <1>6
      <3> HIDE DEF m, n
      <3> QED BY <1>4, <3>1
    <2>2. Slots(p)[m + k] = [channel |-> RX, index |-> k - 1, entry |-> p.entries[RX][k]]
      BY <2>1, SlotsAre
    <2>3. table[b][Slots(p)[m + k].channel][Slots(p)[m + k].index] = Slots(p)[m + k].entry
      BY <1>3, <2>1
    <2>4. table[b][RX][k - 1] = p.entries[RX][k]
      BY <2>2, <2>3
    <2> QED BY <1>6, <2>4
  <1> QED BY <1>4, <1>5, <1>6

PendingIsWhole ==
  pendingValid => \E p \in Program : p.bank = pendingBank /\ Holds(pendingBank, p)

\* Half written, a bank has the words so far; written, armed or about to take over, it
\* has them all.
WholeSoFar ==
  /\ phase = "admin" => cursor = 1
  /\ phase = "words" => \A n \in 1 .. WordCount(prog) : n < cursor => Written(prog.bank, prog, n)
  /\ phase = "arm" \/ armReg => Holds(prog.bank, prog)
  /\ armReg => adminBank = prog.bank
  /\ PendingIsWhole

ImageInv == astray # "now" => WholeSoFar

LEMMA WordKeepsTheOthers ==
  ASSUME HostInv, HostTypeOK, WholeSoFar, astray # "now", WriteTableWord
  PROVE  \A n \in 1 .. WordCount(prog) : n < cursor + 1 => Written(prog.bank, prog, n)'
  <1>1. /\ prog \in Program /\ adminBank \in Bank /\ TypeOK /\ prog.bank = adminBank
        /\ phase = "words" /\ cursor \in Nat \ {0} /\ cursor <= WordCount(prog)
        /\ prog' = prog
    BY DEF HostTypeOK, WriteTableWord, WordSent, HostInv, OfflineInv
  <1>2. WordCount(prog) \in Nat
    <2>1. Len(Words) = 4 /\ Len(Slots(prog)) \in Nat
      BY <1>1, SlotsAre, ProgramTyping DEF Words
    <2> QED BY <2>1 DEF WordCount
  <1>3. cursor \in 1 .. WordCount(prog)
    BY <1>1, <1>2
  <1> SUFFICES ASSUME NEW n \in 1 .. WordCount(prog), n < cursor + 1
               PROVE  table'[adminBank][Slot(prog, n).channel][Slot(prog, n).index][Word(n)]
                        = Slot(prog, n).entry[Word(n)]
    BY <1>1 DEF Written, Slot, Word
  <1>4. CASE n = cursor
    BY <1>1, <1>3, <1>4, WordWritten
  <1>5. CASE n # cursor
    <2>1. Written(adminBank, prog, n)
      <3>1. n < cursor
        BY <1>1, <1>2, <1>5
      <3> QED BY <1>1, <3>1 DEF WholeSoFar
    <2>2. /\ Slot(prog, n).channel \in Channel /\ Slot(prog, n).index \in Index
          /\ Word(n) \in WordName
      BY <1>1, WordTyping
    <2>3. \/ Slot(prog, n).channel # Slot(prog, cursor).channel
          \/ Slot(prog, n).index # Slot(prog, cursor).index
          \/ Word(n) # Word(cursor)
      BY <1>1, <1>3, <1>5, WordsAreApart
    <2>4. table'[adminBank][Slot(prog, n).channel][Slot(prog, n).index][Word(n)]
            = table[adminBank][Slot(prog, n).channel][Slot(prog, n).index][Word(n)]
      BY <1>1, <1>3, <2>2, <2>3, WordWritten
    <2> QED BY <2>1, <2>4 DEF Written
  <1> QED BY <1>4, <1>5

\* What an edge without a table write leaves of the images.
LEMMA EdgeKeepsPending ==
  ASSUME HostInv, WholeSoFar, prog \in Program, NEW a, NEW t, NEW arm, NEW on,
         RegisterEdge(a, t, arm, on), table' = table \/ (~pendingValid /\ ~armReg)
  PROVE  PendingIsWhole'
  <1> SUFFICES ASSUME pendingValid'
               PROVE  \E p \in Program : p.bank = pendingBank' /\ Holds(pendingBank, p)'
    BY DEF PendingIsWhole
  <1>1. /\ pendingValid \/ armReg
        /\ pendingBank' = IF armReg THEN adminBank ELSE pendingBank
    BY DEF RegisterEdge, Edge, BankEdge
  <1>2. table' = table
    BY <1>1
  <1>3. CASE armReg
    <2>1. prog.bank = pendingBank' /\ Holds(prog.bank, prog)
      BY <1>1, <1>3 DEF WholeSoFar
    <2> QED BY <1>2, <2>1 DEF Holds
  <1>4. CASE ~armReg
    <2>1. PICK p \in Program : p.bank = pendingBank /\ Holds(pendingBank, p)
      BY <1>1, <1>4 DEF WholeSoFar, PendingIsWhole
    <2> QED BY <1>1, <1>2, <1>4, <2>1 DEF Holds
  <1> QED BY <1>3, <1>4

LEMMA StepKeepsImages == HostInv /\ HostTypeOK /\ ImageInv /\ [HostNext]_allVars => ImageInv'
  <1> SUFFICES ASSUME HostInv, HostTypeOK, ImageInv, [HostNext]_allVars, astray' # "now"
               PROVE  WholeSoFar'
    BY DEF ImageInv
  <1>0. prog \in Program /\ adminBank \in Bank /\ TypeOK /\ cursor \in Nat \ {0}
    BY DEF HostTypeOK
  <1>1. CASE SetAdminBank /\ WholeSoFar /\ astray # "now"
    <2>1. cursor' = 1 /\ prog' = prog /\ phase' = "words" /\ ~armReg' /\ table' = table
      BY <1>1 DEF SetAdminBank, BankSelected, RegisterEdge, WholeSoFar
    <2>2. WordCount(prog) \in Nat /\ \A n \in 1 .. WordCount(prog) : ~(n < 1)
      <3>1. Len(Words) = 4 /\ Len(Slots(prog)) \in Nat
        BY <1>0, SlotsAre, ProgramTyping DEF Words
      <3> QED BY <3>1 DEF WordCount
    <2>3. \A n \in 1 .. WordCount(prog') : ~(n < cursor')
      BY <2>1, <2>2
    <2>4. PendingIsWhole'
      BY <1>0, <1>1, <2>1, EdgeKeepsPending DEF SetAdminBank, BankSelected
    <2> QED BY <2>1, <2>3, <2>4 DEF WholeSoFar
  <1>2. CASE WriteTableWord /\ WholeSoFar /\ astray # "now"
    <2>1. /\ cursor' = cursor + 1 /\ prog' = prog /\ phase' = "words" /\ ~armReg'
          /\ ~pendingValid /\ ~armReg
      BY <1>2 DEF WriteTableWord, WordSent, NoWrite, RegisterEdge, HostInv, OfflineInv
    <2>2. \A n \in 1 .. WordCount(prog) : n < cursor + 1 => Written(prog.bank, prog, n)'
      BY <1>2, WordKeepsTheOthers
    <2>3. \A n \in 1 .. WordCount(prog') : n < cursor' => Written(prog.bank, prog, n)'
      BY <2>1, <2>2
    <2>4. PendingIsWhole'
      BY <1>0, <1>2, <2>1, EdgeKeepsPending DEF WriteTableWord, WordSent, NoWrite
    <2> QED BY <2>1, <2>3, <2>4 DEF WholeSoFar
  <1>3. CASE WriteActivateTime /\ WholeSoFar /\ astray # "now"
    <2>1. prog' = prog /\ phase' = "arm" /\ ~armReg' /\ table' = table /\ cursor > WordCount(prog)
      BY <1>3 DEF WriteActivateTime, TimeSent, RegisterEdge
    <2>2. \A n \in 1 .. WordCount(prog) : Written(prog.bank, prog, n)
      <3>1. Len(Words) = 4 /\ Len(Slots(prog)) \in Nat
        BY <1>0, SlotsAre, ProgramTyping DEF Words
      <3>2. WordCount(prog) \in Nat
        BY <3>1 DEF WordCount
      <3>3. \A n \in 1 .. WordCount(prog) : n < cursor
        BY <1>0, <2>1, <3>2
      <3> QED BY <1>3, <3>3 DEF WholeSoFar, WriteActivateTime, TimeSent
    <2>3. Holds(prog.bank, prog)
      BY <1>0, <2>2, AllWordsMakeTheImage, ProgramTyping
    <2>4. Holds(prog.bank, prog)'
      BY <2>1, <2>3 DEF Holds
    <2>5. PendingIsWhole'
      BY <1>0, <1>3, <2>1, EdgeKeepsPending DEF WriteActivateTime, TimeSent
    <2> QED BY <2>1, <2>4, <2>5 DEF WholeSoFar
  <1>4. CASE ArmBankSwitch /\ WholeSoFar /\ astray # "now"
    <2>1. /\ prog' = prog /\ phase' = "ctrl" /\ adminBank' = prog.bank /\ table' = table
          /\ Holds(prog.bank, prog)
      BY <1>4 DEF ArmBankSwitch, ArmSent, RegisterEdge, WholeSoFar
    <2>2. Holds(prog.bank, prog)'
      BY <2>1 DEF Holds
    <2>3. PendingIsWhole'
      BY <1>0, <1>4, <2>1, EdgeKeepsPending DEF ArmBankSwitch, ArmSent
    <2> QED BY <2>1, <2>2, <2>3 DEF WholeSoFar
  <1>5. CASE EnableSubsystem /\ WholeSoFar /\ astray # "now"
    <2>1. prog' = prog /\ phase' = "idle" /\ ~armReg' /\ table' = table
      BY <1>5 DEF EnableSubsystem, Finished, RegisterEdge
    <2>2. PendingIsWhole'
      BY <1>0, <1>5, <2>1, EdgeKeepsPending DEF EnableSubsystem, Finished
    <2> QED BY <2>1, <2>2 DEF WholeSoFar
  <1>6. CASE Idle /\ WholeSoFar /\ astray # "now"
    <2>1. /\ prog' = prog /\ phase' = phase /\ cursor' = cursor /\ ~armReg' /\ table' = table
      BY <1>6 DEF Idle, NoWrite, RegisterEdge, hostVars
    <2>2. PendingIsWhole'
      BY <1>0, <1>6, <2>1, EdgeKeepsPending DEF Idle, NoWrite
    <2> QED BY <1>6, <2>1, <2>2 DEF WholeSoFar, Written, Holds
  <1>7. CASE ResetNic
    <2>1. phase = "idle" /\ phase' = "idle" /\ ~armReg' /\ ~pendingValid'
      BY <1>7 DEF ResetNic, Reset, hostVars, HostMoves, BankSelected, WordSent, TimeSent,
                  ArmSent, Finished
    <2> QED BY <2>1 DEF WholeSoFar, PendingIsWhole
  <1>8. ASSUME NEW p \in Program, StartProgram(p) PROVE WholeSoFar'
    <2>1. /\ phase' = "admin" /\ cursor' = 1 /\ ~armReg' /\ ~pendingValid'
      BY <1>8 DEF StartProgram, Inactive, vars, bankVars, regVars
    <2> QED BY <2>1 DEF WholeSoFar, PendingIsWhole
  <1>9. CASE UNCHANGED allVars
    BY <1>9 DEF allVars, vars, bankVars, hostVars, regVars, ImageInv, WholeSoFar, PendingIsWhole,
                Written, Holds
  <1>10. CASE Clocked
    <2>1. WholeSoFar /\ astray # "now"
      BY <1>10 DEF ImageInv, Clocked, SetAdminBank, WriteTableWord, WriteActivateTime,
                   ArmBankSwitch, EnableSubsystem, Idle
    <2> QED BY <1>1, <1>2, <1>3, <1>4, <1>5, <1>6, <1>10, <2>1 DEF Clocked
  <1> QED BY <1>7, <1>8, <1>9, <1>10 DEF HostNext, Running

LEMMA ImageInvHolds == HostSpec => []ImageInv
  <1>1. HostInit => ImageInv
    BY DEF HostInit, Init, ImageInv, WholeSoFar, PendingIsWhole
  <1> QED BY <1>1, StepKeepsImages, ProgramStaysOffline, ProgrammedTypes, PTL
          DEF HostSpec

\* While programs are started on free banks and no reset comes in between, a bank that
\* takes over holds, slot for slot, every entry of a program that was written for it:
\* no flip meets an image half written (program_device writes the
\* words, then the time, then the arm bit), nor one written over before its turn.
THEOREM OnlyWholeImagesTakeOver == HostSpec => FlipsToWholeImage
  <1> DEFINE Whole == Flip /\ astray # "now" =>
                        \E p \in Program : p.bank = activeBank' /\ Holds(activeBank', p)
  <1>1. HostInv /\ ImageInv /\ [HostNext]_allVars => [Whole]_allVars
    <2> SUFFICES ASSUME HostInv, ImageInv, HostNext, activeBank' # activeBank, ~ResetNic,
                        astray # "now"
                 PROVE  \E p \in Program : p.bank = activeBank' /\ Holds(activeBank', p)
      BY DEF Flip
    <2>1. CASE UNCHANGED vars
      BY <2>1 DEF vars, bankVars
    <2>2. CASE \E request : Edge(request)
      <3>1. pendingValid /\ activeBank' = pendingBank
        BY <2>2 DEF Edge, BankEdge, CanFlipBank
      <3> QED BY <3>1 DEF ImageInv, WholeSoFar, PendingIsWhole
    <2> QED BY <2>1, <2>2, HostedStep
  <1> HIDE DEF Whole
  <1>2. HostSpec => [][Whole]_allVars
    BY <1>1, ImageInvHolds, ProgramStaysOffline, PTL DEF HostSpec
  <1> QED BY <1>2 DEF FlipsToWholeImage, Whole

-------------------------------------------------------------------------------
(* The gates follow the program.                                           *)

\* Time goes by in steps of at most its unit, as it does when the unit is the step of
\* the clock.
Ticks == \A step \in Advance : step[1] <= step[2] /\ step[2] <= step[1] + 1

LEMMA EntryTyping ==
  ASSUME NEW e \in Entry
  PROVE  e.start \in Nat /\ e.end \in Nat
  BY ConstantsAssumption DEF Entry

LEMMA IndexTyping == /\ EntryCount \in Nat /\ EntryCount >= 1 /\ 0 \in Index
                     /\ \A i \in Index : i \in Nat /\ i < EntryCount
  BY ConstantsAssumption DEF Index

\* Induction over the natural numbers, where the library's theorems take an operator: a
\* set of them has a least element.
LEMMA LeastElement ==
  ASSUME NEW S \in SUBSET Nat, S # {}
  PROVE  \E x \in S : \A y \in S : x <= y
  <1> DEFINE R == {ss \in Nat \X Nat : ss[1] < ss[2]}
  <1>1. IsWellFoundedOn(R, Nat)
    BY NatLessThanWellFounded, Zenon DEF OpToRel
  <1>2. \E x \in S : \A y \in S : ~(<<y, x>> \in R)
    <2> HIDE DEF R
    <2> QED BY <1>1, WFMin
  <1>3. PICK x \in S : \A y \in S : ~(<<y, x>> \in R)
    BY <1>2
  <1>4. ASSUME NEW y \in S PROVE x <= y
    <2>1. x \in Nat /\ y \in Nat /\ <<y, x>> \in Nat \X Nat /\ ~(<<y, x>> \in R)
      BY <1>3
    <2>2. ~(y < x)
      BY <2>1
    <2> QED BY <2>1, <2>2
  <1> QED BY <1>4

\* The entries of a spaced image come in order, without a hole: by induction along the
\* table, as a least counterexample.
LEMMA SpacedIsOrdered ==
  ASSUME NEW image \in [Index -> Entry], Spaced(image),
         NEW i \in Index, NEW j \in Index, i < j, Armed(image[j])
  PROVE  Armed(image[i]) /\ image[i].end < image[j].start
  <1> DEFINE S == {k \in Index : /\ i < k /\ Armed(image[k])
                                 /\ ~(Armed(image[i]) /\ image[i].end < image[k].start)}
  <1>1. S \in SUBSET Nat
    BY IndexTyping
  <1>2. S = {}
    <2> SUFFICES ASSUME S # {} PROVE FALSE
      OBVIOUS
    <2>1. PICK k \in S : \A l \in S : k <= l
      <3> HIDE DEF S
      <3> QED BY <1>1, LeastElement
    <2>2. /\ k \in Index /\ k \in Nat /\ i < k /\ Armed(image[k]) /\ i \in Nat /\ k < EntryCount
          /\ ~(Armed(image[i]) /\ image[i].end < image[k].start)
      BY IndexTyping
    <2>3. k - 1 \in Index /\ k - 1 < k /\ k > 0 /\ (k - 1 = i \/ i < k - 1)
      BY <2>2, IndexTyping DEF Index
    <2>4. /\ Armed(image[k - 1]) /\ image[k - 1].end < image[k].start
          /\ image[k - 1].start < image[k - 1].end
      BY <2>2, <2>3 DEF Spaced
    <2>5. CASE k - 1 = i
      BY <2>2, <2>4, <2>5
    <2>6. CASE i < k - 1
      <3>1. k - 1 \notin S
        BY <2>1, <2>2, <2>3
      <3>2. Armed(image[i]) /\ image[i].end < image[k - 1].start
        BY <2>3, <2>4, <2>6, <3>1
      <3>3. /\ image[i].end \in Nat /\ image[k - 1].start \in Nat /\ image[k - 1].end \in Nat
            /\ image[k].start \in Nat
        BY <2>2, <2>3, EntryTyping
      <3>4. image[i].end < image[k].start
        BY <2>4, <3>2, <3>3
      <3> QED BY <2>2, <3>2, <3>4
    <2> QED BY <2>3, <2>5, <2>6
  <1> QED BY <1>2

Image(c) == table[activeBank][c]

\* Every window among the first n entries of an image has ended by time t.
Over(image, n, t) == \A j \in Index : j < n /\ Armed(image[j]) => image[j].end <= t

\* A running channel is at the entry whose window is open, or at the next to open, or
\* has been through its image.
Tracks(c) ==
  LET e == Image(c)[ptr[c]] IN
  \/ active[c] /\ Armed(e) /\ e.start <= now /\ now <= e.end /\ Over(Image(c), ptr[c], now)
  \/ ~active[c] /\ Over(Image(c), ptr[c], now) /\ (Armed(e) => now <= e.start)
  \/ ~active[c] /\ Over(Image(c), EntryCount, now)

NoneArmed(image) == \A i \in Index : ~Armed(image[i])

\* With everything on time, an executor that is off has an empty table in charge, one
\* that restarts is ahead of every window, and one that runs keeps track of them.
Punctual(c) ==
  /\ ~enable \/ (~restart /\ ~initialized[c]) => NoneArmed(Image(c))
  /\ restart => enable /\ \A i \in Index : Armed(Image(c)[i]) => now < Image(c)[i].start
  /\ enable /\ ~restart /\ initialized[c] /\ Spaced(Image(c)) => Tracks(c)

ScheduleInv ==
  /\ enable => ctrl
  /\ ~hurried /\ astray = "never" => \A c \in Channel : Punctual(c)

\* What the windows of a spaced image that is kept track of ask of the gate.
Due(c) == {i \in Index : Armed(Image(c)[i]) /\ Image(c)[i].start <= now /\ now < Image(c)[i].end}

LEMMA HostedTyping ==
  ASSUME HostTypeOK, NEW c \in Channel
  PROVE  /\ Image(c) \in [Index -> Entry] /\ ptr[c] \in Index /\ now \in Nat
         /\ Current(c) = Image(c)[ptr[c]]
         /\ \A i \in Index : Image(c)[i].start \in Nat /\ Image(c)[i].end \in Nat
         /\ active[c] \in BOOLEAN /\ initialized[c] \in BOOLEAN
  <1>1. Image(c) \in [Index -> Entry] /\ ptr[c] \in Index /\ now \in Time
    BY DEF HostTypeOK, TypeOK, Image
  <1>2. \A i \in Index : Image(c)[i] \in Entry
    BY <1>1
  <1>3. \A i \in Index : Image(c)[i].start \in Nat /\ Image(c)[i].end \in Nat
    BY <1>2, EntryTyping
  <1> QED BY <1>1, <1>3, ConstantsAssumption DEF Current, Image, HostTypeOK, TypeOK

\* The next window is the only one that can be due.
LEMMA OnlyTheNextIsDue ==
  ASSUME HostTypeOK, NEW c \in Channel, Spaced(Image(c)), NEW n \in Index,
         Over(Image(c), n, now), NEW i \in Due(c)
  PROVE  /\ Armed(Image(c)[n]) /\ Image(c)[n].start <= now
         /\ i # n => Image(c)[n].end < now
  <1>1. /\ i \in Index /\ Armed(Image(c)[i]) /\ Image(c)[i].start <= now /\ now < Image(c)[i].end
        /\ i \in Nat /\ n \in Nat /\ now \in Nat
        /\ Image(c)[i].end \in Nat /\ Image(c)[i].start \in Nat
        /\ Image(c)[n].start \in Nat /\ Image(c)[n].end \in Nat
    BY HostedTyping, IndexTyping DEF Due
  <1>2. ~(i < n)
    BY <1>1 DEF Over
  <1>3. CASE i = n
    BY <1>1, <1>3
  <1>4. CASE n < i
    <2>1. Armed(Image(c)[n]) /\ Image(c)[n].end < Image(c)[i].start
      BY <1>1, <1>4, HostedTyping, SpacedIsOrdered
    <2>2. Image(c)[n].start < Image(c)[n].end
      BY <2>1 DEF Spaced
    <2> QED BY <1>1, <2>1, <2>2
  <1> QED BY <1>1, <1>2, <1>3, <1>4

\* While nothing is in the way of the channel, its gate is lit when a window is due.
LEMMA TrackedGateFollows ==
  ASSUME HostTypeOK, NEW c \in Channel, Runs(c), Spaced(Image(c)), Tracks(c)
  PROVE  /\ Lit(c) <=> Due(c) # {}
         /\ \A i \in Due(c) : Armed(Current(c)) /\ Current(c) = Image(c)[i]
  <1> DEFINE n == ptr[c]
             e == Image(c)[n]
  <1>1. /\ n \in Index /\ now \in Nat /\ e.start \in Nat /\ e.end \in Nat /\ Current(c) = e
        /\ active[c] \in BOOLEAN
    BY HostedTyping
  <1>2. Armed(e) => e.start < e.end
    BY <1>1 DEF Spaced
  <1>3. EvalActive(c) <=> n \in Due(c)
    BY <1>1 DEF EvalActive, Due
  <1>4. \A i \in Due(c) : Over(Image(c), n, now) =>
          Armed(e) /\ e.start <= now /\ (i # n => e.end < now)
    <2> HIDE DEF n, e
    <2> QED BY <1>1, OnlyTheNextIsDue DEF e
  <1>5. Armed(e) => /\ EvalActive(c) <=> e.start <= now /\ now < e.end
                    /\ EvalRetire(c) <=> now >= e.end
    BY <1>1 DEF EvalActive, EvalRetire
  <1> HIDE DEF n, e
  <1>6. CASE active[c] /\ Armed(e) /\ e.start <= now /\ now <= e.end /\ Over(Image(c), n, now)
    <2>1. \A i \in Due(c) : i = n
      BY <1>1, <1>4, <1>6
    <2>2. Lit(c) <=> EvalActive(c)
      <3>1. Lit(c) <=> ~EvalRetire(c) /\ EvalActive(c)
        BY <1>6 DEF Lit, Opens, Stays, Closes
      <3> QED BY <1>1, <1>5, <1>6, <3>1
    <2>3. Lit(c) <=> Due(c) # {}
      BY <1>3, <2>1, <2>2
    <2>4. \A i \in Due(c) : Armed(e) /\ e = Image(c)[i]
      BY <1>6, <2>1 DEF e
    <2> QED BY <1>1, <2>3, <2>4
  <1>7. CASE ~active[c] /\ Over(Image(c), n, now) /\ (Armed(e) => now <= e.start)
    <2>1. \A i \in Due(c) : i = n /\ Armed(e)
      BY <1>1, <1>2, <1>4, <1>7
    <2>2. Lit(c) <=> EvalActive(c)
      BY <1>7 DEF Lit, Opens, Stays, Closes
    <2>3. Lit(c) <=> Due(c) # {}
      BY <1>3, <2>1, <2>2
    <2>4. \A i \in Due(c) : Armed(e) /\ e = Image(c)[i]
      BY <2>1 DEF e
    <2> QED BY <1>1, <2>3, <2>4
  <1>8. CASE ~active[c] /\ Over(Image(c), EntryCount, now)
    <2>1. Due(c) = {}
      <3> SUFFICES ASSUME NEW i \in Due(c) PROVE FALSE
        OBVIOUS
      <3>1. /\ i \in Index /\ Armed(Image(c)[i]) /\ now < Image(c)[i].end
            /\ Image(c)[i].end \in Nat /\ i < EntryCount
        BY HostedTyping, IndexTyping DEF Due
      <3> QED BY <1>1, <1>8, <3>1 DEF Over
    <2>2. ~EvalActive(c)
      BY <1>3, <2>1
    <2> QED BY <1>8, <2>1, <2>2 DEF Lit, Opens
  <1> QED BY <1>6, <1>7, <1>8 DEF Tracks, n, e

\* An index that is not the last is not wrapped.
LEMMA NoWrap ==
  ASSUME NEW k \in Nat, NEW m \in Nat, k + 1 < m
  PROVE  (k + 1) % m = k + 1
  OBVIOUS

LEMMA OneTick ==
  ASSUME Ticks, HostTypeOK, HostTypeOK', TimeEdge
  PROVE  now \in Nat /\ now' \in Nat /\ now <= now' /\ now' <= now + 1
  <1>1. now \in Time /\ now' \in Time
    BY DEF HostTypeOK, TypeOK
  <1>2. <<now, now'>> \in Advance
    BY DEF TimeEdge
  <1>3. now <= now' /\ now' <= now + 1
    BY <1>2 DEF Ticks
  <1> QED BY <1>1, <1>3, ConstantsAssumption

\* A running channel stays on the track of its image, from window to window.
LEMMA EdgeKeepsTrack ==
  ASSUME HostTypeOK, HostTypeOK', Ticks, NEW c \in Channel, NEW request, Edge(request),
         Runs(c), Image(c)' = Image(c), Spaced(Image(c)), Tracks(c)
  PROVE  Tracks(c)'
  <1> DEFINE n == ptr[c]
             e == Image(c)[n]
  <1>1. /\ n \in Index /\ n \in Nat /\ n < EntryCount /\ e.start \in Nat /\ e.end \in Nat
        /\ Current(c) = e /\ active[c] \in BOOLEAN /\ Image(c) \in [Index -> Entry]
        /\ EntryCount \in Nat
    BY HostedTyping, IndexTyping
  <1>2. now \in Nat /\ now' \in Nat /\ now <= now' /\ now' <= now + 1
    BY OneTick DEF Edge
  <1>3. Armed(e) => e.start < e.end
    BY <1>1 DEF Spaced
  <1>4. /\ active'[c] <=> Opens(c) \/ (Stays(c) /\ active[c])
        /\ ptr'[c] = IF Closes(c) THEN NextPtr(c) ELSE n
    BY DEF Edge, ChannelEdge
  <1>5. \A k : Over(Image(c), k, now) => Over(Image(c), k, now')
    BY <1>2, HostedTyping DEF Over
  <1>6. Armed(e) => /\ EvalActive(c) <=> e.start <= now /\ now < e.end
                    /\ EvalRetire(c) <=> now >= e.end
    BY <1>1 DEF EvalActive, EvalRetire
  <1>7. ~Armed(e) => ~EvalActive(c)
    BY <1>1 DEF EvalActive
  <1> SUFFICES LET f == Image(c)[ptr'[c]] IN
                 \/ /\ active'[c] /\ Armed(f) /\ f.start <= now' /\ now' <= f.end
                    /\ Over(Image(c), ptr'[c], now')
                 \/ ~active'[c] /\ Over(Image(c), ptr'[c], now') /\ (Armed(f) => now' <= f.start)
                 \/ ~active'[c] /\ Over(Image(c), EntryCount, now')
    BY DEF Tracks, Over, Armed
  <1>8. CASE active[c] /\ Armed(e) /\ e.start <= now /\ now <= e.end /\ Over(Image(c), n, now)
    <2>1. CASE now < e.end
      <3>1. ~Closes(c) /\ Stays(c)
        <4>1. ~EvalRetire(c)
          <5> HIDE DEF n, e
          <5> QED BY <1>1, <1>2, <1>6, <1>8, <2>1
        <4> QED BY <1>8, <4>1 DEF Closes, Stays, Opens
      <3>2. active'[c] /\ ptr'[c] = n
        BY <1>4, <1>8, <3>1
      <3>3. e.start <= now' /\ now' <= e.end
        <4> HIDE DEF n, e
        <4> QED BY <1>1, <1>2, <1>8, <2>1
      <3> QED BY <1>5, <1>8, <3>2, <3>3
    <2>2. CASE now = e.end
      <3>1. Closes(c) /\ ~Opens(c) /\ ~Stays(c)
        BY <1>1, <1>6, <1>8, <2>2 DEF Closes, Stays, Opens
      <3>2. ~active'[c] /\ ptr'[c] = (n + 1) % EntryCount
        BY <1>4, <3>1 DEF NextPtr
      <3>3. ASSUME NEW j \in Index, j < n + 1, Armed(Image(c)[j]) PROVE Image(c)[j].end <= now'
        <4>1. j \in Nat /\ Image(c)[j].end \in Nat
          BY HostedTyping, IndexTyping
        <4>2. CASE j = n
          BY <1>1, <1>2, <2>2, <4>2
        <4>3. CASE j < n
          <5>1. Image(c)[j].end <= now
            BY <1>8, <3>3, <4>3 DEF Over
          <5> QED BY <1>2, <4>1, <5>1
        <4> HIDE DEF n
        <4> QED BY <1>1, <3>3, <4>1, <4>2, <4>3
      <3>4. CASE n + 1 < EntryCount
        <4>1. ptr'[c] = n + 1 /\ n + 1 \in Index
          <5>1. (n + 1) % EntryCount = n + 1
            <6> HIDE DEF n
            <6> QED BY <1>1, <3>4, NoWrap
          <5> QED BY <1>1, <3>2, <3>4, <5>1 DEF Index
        <4>2. Armed(Image(c)[n + 1]) => e.end < Image(c)[n + 1].start
          <5>1. (n + 1) - 1 = n /\ n + 1 > 0
            BY <1>1
          <5> QED BY <4>1, <5>1 DEF Spaced
        <4>3. Image(c)[n + 1].start \in Nat
          BY <4>1, HostedTyping
        <4>4. Armed(Image(c)[n + 1]) => now' <= Image(c)[n + 1].start
          <5> HIDE DEF n, e
          <5> QED BY <1>1, <1>2, <2>2, <4>2, <4>3
        <4>5. Over(Image(c), n + 1, now')
          BY <3>3 DEF Over
        <4> QED BY <3>2, <4>1, <4>4, <4>5
      <3>5. CASE n + 1 = EntryCount
        <4>1. Over(Image(c), EntryCount, now')
          BY <3>3, <3>5 DEF Over
        <4> QED BY <3>2, <4>1
      <3> HIDE DEF n
      <3> QED BY <1>1, <3>4, <3>5
    <2> HIDE DEF n, e
    <2> QED BY <1>1, <1>2, <1>8, <2>1, <2>2
  <1>9. CASE ~active[c] /\ Over(Image(c), n, now) /\ (Armed(e) => now <= e.start)
    <2>1. ptr'[c] = n
      BY <1>4, <1>9 DEF Closes
    <2>2. CASE EvalActive(c)
      <3>1. active'[c] /\ Armed(e) /\ e.start <= now /\ now < e.end
        BY <1>4, <1>6, <1>7, <1>9, <2>2 DEF Opens
      <3>2. e.start <= now' /\ now' <= e.end
        <4> HIDE DEF n, e
        <4> QED BY <1>1, <1>2, <3>1
      <3> QED BY <1>5, <1>9, <2>1, <3>1, <3>2
    <2>3. CASE ~EvalActive(c)
      <3>1. ~active'[c]
        BY <1>4, <1>9, <2>3 DEF Opens
      <3>2. Armed(e) => now' <= e.start
        <4> HIDE DEF n, e
        <4> QED BY <1>1, <1>2, <1>3, <1>6, <1>9, <2>3
      <3> QED BY <1>5, <1>9, <2>1, <3>1, <3>2
    <2> QED BY <2>2, <2>3
  <1>10. CASE ~active[c] /\ Over(Image(c), EntryCount, now)
    <2>1. ~EvalActive(c)
      <3>1. Armed(e) => e.end <= now
        BY <1>1, <1>10 DEF Over
      <3> HIDE DEF n, e
      <3> QED BY <1>1, <1>2, <1>6, <1>7, <3>1
    <2>2. ~active'[c]
      BY <1>4, <1>10, <2>1 DEF Opens
    <2> QED BY <1>5, <1>10, <2>2
  <1> QED BY <1>8, <1>9, <1>10 DEF Tracks

\* A channel brought to the head of an image ahead of its windows is on the track of it.
LEMMA StartsOnTrack ==
  ASSUME HostTypeOK, HostTypeOK', NEW c \in Channel, Image(c)' = Image(c),
         ~active'[c], ptr'[c] = 0,
         \A i \in Index : Armed(Image(c)[i]) => now' <= Image(c)[i].start
  PROVE  Tracks(c)'
  <1>1. Over(Image(c), 0, now') /\ 0 \in Index
    BY IndexTyping DEF Over
  <1> QED BY <1>1 DEF Tracks, Over, Armed

\* What an edge of the register block leaves of the schedule.
LEMMA EdgeKeepsSchedule ==
  ASSUME HostTypeOK, HostTypeOK', ExecutorInv, ScheduleInv, Ticks,
         NEW a, NEW t, NEW arm, NEW on, RegisterEdge(a, t, arm, on), ctrl => on,
         astray' = astray,
         astray = "never" => table'[activeBank] = table[activeBank],
         astray = "never" /\ pendingValid => table' = table
  PROVE  ScheduleInv'
  <1>1. PICK request : Edge(request)
    BY DEF RegisterEdge
  <1>2. /\ enable' = ctrl /\ ctrl' = on /\ hurried' = (hurried \/ TooLate)
        /\ enable => ctrl
        /\ enable \in BOOLEAN /\ ctrl \in BOOLEAN /\ hurried \in BOOLEAN /\ restart \in BOOLEAN
    BY DEF RegisterEdge, ScheduleInv, HostTypeOK, TypeOK
  <1>3. now \in Nat /\ now' \in Nat /\ now <= now' /\ now' <= now + 1
    BY <1>1, OneTick DEF Edge
  <1>4. restart' = CanFlipBank /\ activeBank' = IF CanFlipBank THEN pendingBank ELSE activeBank
    BY <1>1 DEF Edge, BankEdge
  <1> SUFFICES ASSUME ~hurried', astray = "never", NEW c \in Channel PROVE Punctual(c)'
    BY <1>2 DEF ScheduleInv
  <1>5. ~hurried /\ ~TooLate /\ Punctual(c)
    BY <1>2 DEF ScheduleInv
  <1>6. /\ ~active[c] \/ initialized[c]
        /\ initialized'[c] <=> ~Held \/ restart
        /\ active'[c] => Runs(c)
        /\ ~Runs(c) => ptr'[c] = 0
    BY <1>1 DEF ExecutorInv, ChannelInv, Edge, ChannelEdge, Opens, Stays
  <1>7. CASE CanFlipBank
    <2>1. /\ enable /\ pendingValid /\ table' = table
          /\ \A i \in Index : Armed(table[pendingBank][c][i]) =>
               ~(table[pendingBank][c][i].start < now + 2)
      BY <1>5, <1>7 DEF TooLate, CanFlipBank
    <2>2. Image(c)' = table[pendingBank][c] /\ restart' /\ enable'
      BY <1>2, <1>4, <1>7, <2>1 DEF Image
    <2>3. ASSUME NEW i \in Index, Armed(Image(c)'[i]) PROVE now' < Image(c)'[i].start
      <3>1. ~(Image(c)'[i].start < now + 2)
        BY <2>1, <2>2, <2>3
      <3>2. Image(c)'[i].start \in Nat
        <4>1. table[pendingBank][c][i] \in Entry
          BY DEF HostTypeOK, TypeOK
        <4> QED BY <2>2, <4>1, EntryTyping
      <3> QED BY <1>3, <3>1, <3>2
    <2> QED BY <2>2, <2>3 DEF Punctual, Armed
  <1>8. CASE ~CanFlipBank
    <2>1. ~restart' /\ Image(c)' = Image(c)
      BY <1>4, <1>8 DEF Image
    <2>2. CASE ~enable
      <3>1. NoneArmed(Image(c)) /\ ~restart /\ ~initialized'[c]
        BY <1>5, <1>6, <2>2 DEF Punctual, Held
      <3> QED BY <2>1, <3>1 DEF Punctual, NoneArmed, Armed
    <2>3. CASE enable /\ restart
      <3>1. /\ initialized'[c] /\ ~active'[c] /\ ptr'[c] = 0 /\ enable'
            /\ \A i \in Index : Armed(Image(c)[i]) => now < Image(c)[i].start
        BY <1>2, <1>5, <1>6, <2>3 DEF Punctual, Held, Runs
      <3>2. \A i \in Index : Armed(Image(c)[i]) => now' <= Image(c)[i].start
        BY <1>3, <3>1, HostedTyping
      <3> QED BY <2>1, <3>1, <3>2, StartsOnTrack DEF Punctual
    <2>4. CASE enable /\ ~restart /\ ~initialized[c]
      <3>1. /\ initialized'[c] /\ ~active'[c] /\ ptr'[c] = 0 /\ enable'
            /\ NoneArmed(Image(c))
        BY <1>2, <1>5, <1>6, <2>4 DEF Punctual, Held, Runs
      <3>2. \A i \in Index : Armed(Image(c)[i]) => now' <= Image(c)[i].start
        BY <3>1 DEF NoneArmed
      <3> QED BY <2>1, <3>1, <3>2, StartsOnTrack DEF Punctual
    <2>5. CASE enable /\ ~restart /\ initialized[c]
      <3>1. Runs(c) /\ enable' /\ initialized'[c]
        BY <1>2, <1>6, <2>5 DEF Runs, Held
      <3>2. Spaced(Image(c)) => Tracks(c)'
        BY <1>1, <1>5, <2>1, <2>5, <3>1, EdgeKeepsTrack DEF Punctual
      <3> QED BY <2>1, <3>1, <3>2 DEF Punctual, Spaced, Armed
    <2> QED BY <1>2, <2>2, <2>3, <2>4, <2>5
  <1> QED BY <1>7, <1>8

LEMMA ScheduleInvHolds ==
  ASSUME Ticks
  PROVE  HostSpec => []ScheduleInv
  <1>1. HostInit => ScheduleInv
    BY DEF HostInit, Init, ScheduleInv, Punctual, NoneArmed, Image, Blank, Cleared, Armed,
       Bank, Dark
  <1>2. HostInv /\ HostTypeOK /\ HostTypeOK' /\ ExecutorInv /\ ScheduleInv /\ [HostNext]_allVars
          => ScheduleInv'
    <2> SUFFICES ASSUME HostInv, HostTypeOK, HostTypeOK', ExecutorInv, ScheduleInv,
                        [HostNext]_allVars
                 PROVE  ScheduleInv'
      OBVIOUS
    <2>1. CASE ResetNic
      BY <2>1 DEF ResetNic, Reset, ScheduleInv, Punctual, NoneArmed, Image, Blank, Cleared, Armed,
                  Bank, Dark
    <2>2. CASE UNCHANGED <<vars, ctrl, hurried>> /\ (astray' = "never" => astray = "never")
      BY <2>2 DEF vars, bankVars, channelVars, ScheduleInv, Punctual, NoneArmed, Image, Tracks,
                  Over, Spaced, Armed
    <2>3. ASSUME NEW a, NEW t, NEW arm, NEW on, RegisterEdge(a, t, arm, on), ctrl => on,
                 HostNext, ~ResetNic, astray' = astray,
                 astray = "never" /\ pendingValid => table' = table
          PROVE  ScheduleInv'
      BY <2>3, LiveBankStays, EdgeKeepsSchedule
    <2>4. astray = "never" /\ pendingValid => ~WriteTableWord
      BY DEF HostInv, OfflineInv, WriteTableWord, WordSent
    <2> QED
      BY <2>1, <2>2, <2>3, <2>4 DEF HostNext, Running, Clocked, SetAdminBank, WriteTableWord,
                                    WriteActivateTime, ArmBankSwitch, EnableSubsystem, Idle,
                                    NoWrite, StartProgram, allVars, regVars
  <1> QED BY <1>1, <1>2, HostedExecutor, ProgramStaysOffline, ProgrammedTypes, PTL
          DEF HostSpec

\* With every program in time, and a clock whose steps are the unit of the table, each
\* gate is lit in exactly the cycles its image says, for the application it says
\* (tt_scheduler.v:129-219).
THEOREM GatesFollowTheProgram ==
  ASSUME Ticks
  PROVE  HostSpec => GateFollowsProgram
  <1> DEFINE Follows ==
        ~hurried /\ astray = "never" /\ Clocked =>
          \A c \in Channel :
            LET image == table[activeBank][c]
                due   == {i \in Index :
                            Armed(image[i]) /\ image[i].start <= now /\ now < image[i].end}
            IN  Spaced(image) =>
                  allowed'[c] = (due # {}) /\ \A i \in due : app'[c] = image[i].app
  <1>1. HostTypeOK /\ ScheduleInv /\ [HostNext]_allVars => [Follows]_allVars
    <2> SUFFICES ASSUME HostTypeOK, ScheduleInv, ~hurried, astray = "never", Clocked,
                        NEW c \in Channel,
                        Spaced(Image(c))
                 PROVE  /\ allowed'[c] = (Due(c) # {})
                        /\ \A i \in Due(c) : app'[c] = Image(c)[i].app
      BY DEF Image, Due
    <2>1. PICK request : Edge(request)
      BY DEF Clocked, SetAdminBank, WriteTableWord, WriteActivateTime, ArmBankSwitch,
             EnableSubsystem, Idle, NoWrite, RegisterEdge
    <2>2. /\ allowed'[c] = Lit(c)
          /\ app'[c] = IF Runs(c) /\ Armed(Current(c)) THEN Current(c).app
                       ELSE IF Held \/ Runs(c) THEN NoApp ELSE app[c]
      BY <2>1 DEF Edge, ChannelEdge
    <2>3. Punctual(c)
      BY DEF ScheduleInv
    <2>4. /\ Lit(c) <=> Due(c) # {}
          /\ \A i \in Due(c) : Runs(c) /\ Armed(Current(c)) /\ Current(c) = Image(c)[i]
      <3>1. CASE Runs(c)
        <4>1. Tracks(c)
          BY <2>3, <3>1 DEF Punctual, Runs, Held
        <4> QED BY <3>1, <4>1, TrackedGateFollows
      <3>2. CASE ~Runs(c)
        <4>1. ~Lit(c)
          BY <3>2 DEF Lit, Opens, Stays
        <4>2. \A i \in Index : Armed(Image(c)[i]) => now < Image(c)[i].start
          BY <2>3, <3>2 DEF Punctual, NoneArmed, Runs, Held
        <4>3. Due(c) = {}
          <5> SUFFICES ASSUME NEW i \in Due(c) PROVE FALSE
            OBVIOUS
          <5>1. i \in Index /\ Armed(Image(c)[i]) /\ Image(c)[i].start <= now
            BY DEF Due
          <5>2. now \in Nat /\ Image(c)[i].start \in Nat
            BY <5>1, HostedTyping
          <5> QED BY <4>2, <5>1, <5>2
        <4> QED BY <4>1, <4>3
      <3> QED BY <3>1, <3>2
    <2>5. allowed'[c] \in BOOLEAN
      BY <2>2 DEF Lit
    <2>6. allowed'[c] = (Due(c) # {})
      BY <2>2, <2>4, <2>5
    <2> QED BY <2>2, <2>4, <2>6
  <1> QED BY <1>1, ScheduleInvHolds, ProgrammedTypes, PTL
          DEF HostSpec, GateFollowsProgram
===============================================================================
