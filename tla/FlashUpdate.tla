------------------------------ MODULE FlashUpdate ------------------------------
(***************************************************************************)
(* The firmware tool mqnic-fw (platforms/corundum/utils): it erases,       *)
(* programs and verifies one segment of the flash the FPGA boots from,     *)
(* which is one SPI chip, two SPI chips that share every byte, or one      *)
(* parallel (BPI) chip.  The work is modelled block by block and page by   *)
(* page, with operations that fail, reported or not, a read-back that      *)
(* errs, and a tool that is killed and started again.                      *)
(***************************************************************************)
EXTENDS Naturals, Sequences

CONSTANTS
  Board,      \* the boards: [kind, configuration, segment0]
  Length,     \* file lengths
  ChipSize,   \* cells of one flash chip
  Page,       \* write_buffer_size
  Subsector,  \* the smaller erase block
  Sector,     \* the larger erase block, and the step of the progress loops
  Header,     \* length of the part of a file that only the primary chip of two gets
  MaxRuns,    \* bound: times the tool is started
  MaxFaults   \* bound: operations that fail and interruptions

VARIABLES
  board,    \* the board, with its configuration register
  flash,    \* per chip: its cells
  slot,     \* the selected segment
  length,   \* of the file, 0 if there is none
  todo,     \* the operations left to do
  start,    \* where the step of the progress loop began
  at,       \* where the driver is within it
  outcome,  \* of the tool
  run,      \* how often it was started
  faults    \* how often something failed

vars == <<board, flash, slot, length, todo, start, at, outcome, run, faults>>

Dual == board.kind = "dual"
Chip == IF board.kind = "dual" THEN {"pri", "sec"} ELSE {"pri"}
AllCells == 0 .. ChipSize - 1

-------------------------------------------------------------------------------
(* Segments.  On two chips each has one half of every segment.             *)

Chips(b) == IF b.kind = "dual" THEN 2 ELSE 1

FlashSize(b) == Chips(b) * ChipSize

StartOn(b, k) ==
  IF b.configuration = 2 /\ b.segment0 > 0
  THEN (CASE k = 0 -> 0 [] k = 1 -> b.segment0 [] OTHER -> FlashSize(b))
  ELSE k * (FlashSize(b) \div b.configuration)

SegmentStart(k) == StartOn(board, k)

SegmentSize == SegmentStart(slot + 1) - SegmentStart(slot)
Base        == IF Dual THEN SegmentStart(slot) \div 2 ELSE SegmentStart(slot)
Room        == IF Dual THEN SegmentSize \div 2 ELSE SegmentSize

\* The block size lengths are rounded up to: the larger one of a BPI chip.
EraseBlockOn(b) == IF b.kind = "bpi" THEN Sector ELSE Subsector

ASSUME SizesAssumption ==
  /\ ChipSize \in Nat \ {0} /\ Page \in Nat \ {0}
  /\ Subsector \in Nat \ {0} /\ Sector \in Nat \ {0}
  /\ Header \in Nat /\ Length \subseteq Nat

\* Segments follow each other, and meet at a boundary of the blocks that lengths are
\* rounded up to on every chip.  The tool clears the low bits of segment0
\* (mqnic-fw.c:681) and relies on the board for the rest.
ASSUME BoardAssumption ==
  \A b \in Board :
    /\ b.kind \in {"spi", "dual", "bpi"} /\ b.configuration \in Nat \ {0}
    /\ \A k \in 0 .. b.configuration :
         /\ \E m \in 0 .. ChipSize : StartOn(b, k) = Chips(b) * (EraseBlockOn(b) * m)
         /\ StartOn(b, k) <= FlashSize(b)
    /\ \A k \in 1 .. b.configuration : StartOn(b, k - 1) <= StartOn(b, k)

-------------------------------------------------------------------------------
(* Contents.  A byte is a pair of nibbles, each a nibble of the file or    *)
(* what was there before; an erased byte is all ones.                      *)

Nibble(what) == <<0, 0, what>>

Blank == <<Nibble("ones"), Nibble("ones")>>
Old   == <<Nibble("old"), Nibble("old")>>
Bad   == <<Nibble("bad"), Nibble("bad")>>

High(k) == IF k < length THEN <<run, k, "high">> ELSE Nibble("ones")
Low(k)  == IF k < length THEN <<run, k, "low">>  ELSE Nibble("ones")
Byte(k) == <<High(k), Low(k)>>

\* The first of the two file bytes that share the bytes at a behind the header.
Pair(a) == Header + 2 * (a - Header)

\* What is to be written to byte a of the segment's part on a chip.
Buffer(c, a) ==
  IF ~Dual THEN Byte(a)
  ELSE IF a < Header THEN (IF c = "pri" THEN Byte(a) ELSE Blank)
  ELSE IF c = "pri" THEN <<Low(Pair(a)), Low(Pair(a) + 1)>>
  ELSE <<High(Pair(a)), High(Pair(a) + 1)>>

\* What reading the segment gives for byte k of a file.
ReadBack(k) ==
  IF ~Dual \/ k < Header THEN flash["pri"][Base + k]
  ELSE LET a == Base + Header + (k - Header) \div 2
           i == 1 + ((k - Header) % 2)
       IN  <<flash["sec"][a][i], flash["pri"][a][i]>>

-------------------------------------------------------------------------------
(* What is to be done, computed when the tool starts.                      *)

EraseBlock == EraseBlockOn(board)

\* Slip: a length that fills its last block is rounded up as well.
RoundUpAlways(end) == end + EraseBlock - (end % EraseBlock)
RoundUp(end) ==
  IF end % EraseBlock = 0 THEN end ELSE end + EraseBlock - (end % EraseBlock)

Shorter(m, n) == IF m < n THEN m ELSE n

ImageEnd(n) ==
  RoundUp(Base + IF Dual THEN Shorter((n - Header) \div 2 + Header, Room) ELSE n)

OnEach(op, end) ==
  IF Dual THEN << [op |-> op, chip |-> "pri", end |-> end],
                  [op |-> op, chip |-> "sec", end |-> end] >>
  ELSE << [op |-> op, chip |-> "pri", end |-> end] >>

Erasing(erase) == IF erase THEN OnEach("erase", Base + Room) ELSE << >>
Writing(n)     ==
  IF n > 0 THEN OnEach("erase", ImageEnd(n)) \o OnEach("write", ImageEnd(n)) ELSE << >>

Idle == outcome # "busy"

\* A run with -e, -w or both.  It refuses a file that is too long for the segment.
Start(s, erase, n) ==
  /\ Idle /\ run < MaxRuns /\ (erase \/ n > 0)
  /\ UNCHANGED <<board, flash, faults>>
  /\ slot' = s /\ length' = n /\ run' = run + 1
  /\ n > 0 => n > Header /\ n <= SegmentSize'
  /\ todo' = (Erasing(erase) \o Writing(length))' /\ start' = Base' /\ at' = Base'
  /\ outcome' = "busy"

-------------------------------------------------------------------------------
(* The progress loops: steps that end where a step of the chip ends.       *)

Job     == Head(todo)
StepEnd == IF Job.end - start > Sector THEN start + Sector - (start % Sector) ELSE Job.end

Busy(op) == outcome = "busy" /\ todo # << >> /\ Job.op = op

Fault == faults < MaxFaults /\ faults' = faults + 1
Fail  == outcome' = "failed" /\ UNCHANGED <<todo, start, at>>

\* On with the next step, or with the next operation.
NextStep ==
  IF StepEnd < Job.end THEN start' = StepEnd /\ at' = StepEnd /\ UNCHANGED <<todo, outcome>>
  ELSE /\ todo' = Tail(todo) /\ start' = Base /\ at' = Base
       /\ outcome' = IF Len(todo) = 1 THEN "ok" ELSE "busy"

Set(new) ==
  flash' = [flash EXCEPT ![Job.chip] =
              [a \in AllCells |-> IF a \in DOMAIN new THEN new[a] ELSE @[a]]]

\* An operation on cells has failed: they hold what they did, or nothing useful.
\* A BPI chip reports it in its status; of an SPI chip nobody asks.
Spoil(cells) ==
  /\ Fault
  /\ UNCHANGED flash \/ Set([a \in cells |-> Bad])

\* The chip does not accept the command (no write enable, or a locked block).
Refused == Fault /\ Fail /\ UNCHANGED flash

-------------------------------------------------------------------------------
(* spi_flash_erase and bpi_flash_erase.  The blocks of the upper half of a *)
(* BPI chip are the small ones.                                            *)

BlockAt(a, n) ==
  IF board.kind = "bpi"
  THEN LET size == IF a < ChipSize \div 2 THEN Sector ELSE Subsector
       IN  IF a % size = 0 /\ n >= size THEN size ELSE 0
  ELSE IF a % Sector = 0 /\ n >= Sector THEN Sector
  ELSE IF a % Subsector = 0 /\ n >= Subsector THEN Subsector ELSE 0

\* Slip: the command always erases a small block.
ClearedSmall(a, size) == a .. a + Subsector - 1
Cleared(a, size) == a .. a + size - 1

Erase ==
  /\ Busy("erase")
  /\ LET size == BlockAt(at, StepEnd - at)
         On   == IF at + size = StepEnd THEN NextStep
                 ELSE at' = at + size /\ UNCHANGED <<todo, start, outcome>>
     IN  \/ size = 0 /\ Fail /\ UNCHANGED <<flash, faults>>
         \/ size > 0 /\ Set([a \in Cleared(at, size) |-> Blank]) /\ On /\ UNCHANGED faults
         \/ size > 0 /\ Spoil(Cleared(at, size)) /\ IF board.kind = "bpi" THEN Fail ELSE On
         \/ size > 0 /\ Refused
  /\ UNCHANGED <<board, slot, length, run>>

-------------------------------------------------------------------------------
(* spi_flash_write, bpi_flash_write and the verification that follows.     *)

\* Programming only clears bits.
Programmed(old, new) == IF old = Blank THEN new ELSE IF new = Blank THEN old ELSE Bad

PageEnd == Shorter(at + Page - (at % Page), StepEnd)

Program ==
  /\ Busy("write") /\ at < StepEnd
  /\ LET cells == at .. PageEnd - 1
         On    == at' = PageEnd /\ UNCHANGED <<todo, start, outcome>>
     IN  \/ /\ Set([a \in cells |-> Programmed(flash[Job.chip][a], Buffer(Job.chip, a - Base))])
            /\ On /\ UNCHANGED faults
         \/ Spoil(cells) /\ IF board.kind = "bpi" THEN Fail ELSE On
         \/ Refused
  /\ UNCHANGED <<board, slot, length, run>>

Matches == \A a \in start .. StepEnd - 1 : flash[Job.chip][a] = Buffer(Job.chip, a - Base)

\* Slip: a step that does not verify is reported and passed over.
VerifyInPassing ==
  /\ Busy("write") /\ at = StepEnd
  /\ NextStep /\ UNCHANGED <<flash, faults, board, slot, length, run>>
\* Each step is read four times, and the last time decides; a reading may err.
Verify ==
  /\ Busy("write") /\ at = StepEnd
  /\ \/ Matches /\ NextStep /\ UNCHANGED faults
     \/ ~Matches /\ Fail /\ UNCHANGED faults
     \/ Fault /\ Fail
  /\ UNCHANGED <<flash, board, slot, length, run>>

-------------------------------------------------------------------------------

\* The tool is killed, or the machine goes down.
Kill ==
  /\ outcome = "busy" /\ Fault /\ outcome' = "killed"
  /\ UNCHANGED <<board, flash, slot, length, todo, start, at, run>>

Init ==
  /\ board \in Board /\ flash = [c \in Chip |-> [a \in AllCells |-> Old]]
  /\ slot = 0 /\ length = 0 /\ todo = << >> /\ start = 0 /\ at = 0
  /\ outcome = "none" /\ run = 0 /\ faults = 0

Request ==
  \E s \in 0 .. board.configuration - 1, e \in BOOLEAN, n \in Length \cup {0} : Start(s, e, n)

Next == Request \/ Erase \/ Program \/ Verify \/ Kill

Spec == Init /\ [][Next]_vars

-------------------------------------------------------------------------------
(* Properties.                                                             *)

\* Whatever fails, an update leaves the other segments alone, among them the one
\* the board falls back to: rounding, steps and blocks all end where the segment does.
OtherSegmentsAreKept ==
  [][\A c \in Chip : \A a \in AllCells \ (Base .. Base + Room - 1) :
       flash'[c][a] = flash[c][a]]_vars

\* When programming has succeeded, the file can be read from the segment, whatever
\* went wrong on the way, also unnoticed.  On two chips two things are out of reach: the
\* last bytes of a segment, of which the header takes the place (mqnic-fw.c:1142), and an
\* odd byte at the end; a file that has them is reported as programmed but may be cut.
InReach(k) == Dual => k < SegmentSize - Header /\ k < length - ((length - Header) % 2)
SuccessMeansImage ==
  outcome = "ok" => \A k \in 0 .. length - 1 : InReach(k) => ReadBack(k) = Byte(k)

\* Every page that is programmed was erased before: erasing with blocks of two sizes
\* covers all that is written, unless an erase failed unnoticed.
OnlyErasedIsProgrammed ==
  [][Program /\ faults' = 0 =>
       \A a \in at .. PageEnd - 1 : flash[Job.chip][a] = Blank]_vars

===============================================================================
