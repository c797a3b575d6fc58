--------------------------- MODULE FlashUpdateProofs ---------------------------
(***************************************************************************)
(* Proofs about the firmware tool, for every board whose segments meet at  *)
(* block boundaries, chips, blocks and pages of every size, files of every *)
(* length, and every number of runs, failures and interruptions.           *)
(***************************************************************************)
EXTENDS FlashUpdate, Integers, SequenceTheorems, TLAPS

-------------------------------------------------------------------------------
(* Segments, and lengths rounded up to blocks.                             *)

LEMMA RoundedUp ==
  ASSUME NEW b \in Nat \ {0}, NEW m \in Nat, NEW x \in Nat, x <= b * m,
         NEW y, y = IF x % b = 0 THEN x ELSE x + b - (x % b)
  PROVE  y \in Nat /\ x <= y /\ y <= b * m
<1> DEFINE q == x \div b
           r == x % b
<1>1. q \in Nat /\ r \in 0 .. b - 1 /\ x = b * q + r
  OBVIOUS
<1> HIDE DEF q, r
<1>2. CASE r = 0
  BY <1>1, <1>2 DEF r
<1>3. CASE r # 0
  <2>1. y = x + b - r
    BY <1>3 DEF r
  <2>2. b * q \in Nat /\ b * m \in Nat /\ b * q < b * m
    BY <1>1, <1>3
  <2>3. q + 1 <= m
    BY <1>1, <2>2
  <2>4. b * (q + 1) <= b * m
    BY <1>1, <2>3
  <2>5. b * (q + 1) = b * q + b
    BY <1>1
  <2> QED  BY <1>1, <2>1, <2>2, <2>4, <2>5
<1> QED  BY <1>2, <1>3

\* The board stays what it is, and the tool is given one of its segments.
Given == board \in Board /\ slot \in 0 .. board.configuration - 1

\* Where the segment lies on each chip.
LEMMA SegmentShape ==
  ASSUME Given
  PROVE  /\ Base \in Nat /\ Room \in Nat /\ Base + Room <= ChipSize
         /\ SegmentSize = IF Dual THEN 2 * Room ELSE Room
         /\ EraseBlock \in Nat \ {0}
         /\ \E m \in Nat : Base + Room = EraseBlock * m
<1> DEFINE E == EraseBlock
           s == SegmentStart(slot)
           e == SegmentStart(slot + 1)
<1>1. E \in Nat \ {0} /\ ChipSize \in Nat
  BY SizesAssumption DEF EraseBlock, EraseBlockOn
<1>2. slot \in 0 .. board.configuration /\ slot + 1 \in 1 .. board.configuration
  BY BoardAssumption DEF Given
<1>3. PICK i \in 0 .. ChipSize : s = Chips(board) * (E * i)
  BY <1>2, BoardAssumption DEF Given, SegmentStart, EraseBlock
<1>4. PICK j \in 0 .. ChipSize : e = Chips(board) * (E * j)
  BY <1>2, BoardAssumption DEF Given, SegmentStart, EraseBlock
<1>5. s <= e /\ e <= Chips(board) * ChipSize
  <2>1. StartOn(board, slot + 1 - 1) <= StartOn(board, slot + 1)
    BY <1>2, BoardAssumption DEF Given
  <2>2. slot + 1 - 1 = slot
    BY <1>2
  <2> QED  BY <1>2, <2>1, <2>2, BoardAssumption DEF Given, SegmentStart, FlashSize
<1>6. E * i \in Nat /\ E * j \in Nat /\ i \in Nat /\ j \in Nat
  BY <1>1
<1> HIDE DEF E, s, e
<1>7. CASE Dual
  <2>1. Chips(board) = 2
    BY <1>7 DEF Dual, Chips
  <2>2. s = 2 * (E * i) /\ e = 2 * (E * j)
    BY <1>3, <1>4, <2>1
  <2>3. Base = s \div 2 /\ Room = (e - s) \div 2 /\ SegmentSize = e - s
    BY <1>7 DEF Base, Room, SegmentSize, s, e
  <2>4. Base = E * i /\ Room = E * j - E * i /\ SegmentSize = 2 * Room /\ Room \in Nat
    BY <1>5, <1>6, <2>2, <2>3
  <2>5. Base + Room = E * j /\ E * j <= ChipSize
    BY <1>1, <1>5, <1>6, <2>1, <2>2, <2>4
  <2> QED  BY <1>1, <1>6, <1>7, <2>4, <2>5 DEF E
<1>8. CASE ~Dual
  <2>1. Chips(board) = 1
    BY <1>8 DEF Dual, Chips
  <2>2. s = E * i /\ e = E * j
    BY <1>3, <1>4, <1>6, <2>1
  <2>3. Base = s /\ Room = e - s /\ SegmentSize = e - s
    BY <1>8 DEF Base, Room, SegmentSize, s, e
  <2> QED  BY <1>1, <1>5, <1>6, <1>8, <2>1, <2>2, <2>3 DEF E
<1> QED  BY <1>7, <1>8

\* What a file takes on each chip, and with what it is rounded up.
Taken(n) == IF Dual THEN Shorter((n - Header) \div 2 + Header, Room) ELSE n

LEMMA ImageShape ==
  ASSUME Given, NEW n \in Nat, n > Header, n <= SegmentSize
  PROVE  /\ Taken(n) \in Nat
         /\ ImageEnd(n) \in Nat
         /\ Base + Taken(n) <= ImageEnd(n) /\ ImageEnd(n) <= Base + Room
<1>1. /\ Base \in Nat /\ Room \in Nat /\ Header \in Nat /\ EraseBlock \in Nat \ {0}
      /\ SegmentSize = IF Dual THEN 2 * Room ELSE Room
  BY SegmentShape, SizesAssumption
<1>2. PICK m \in Nat : Base + Room = EraseBlock * m
  BY SegmentShape
<1>3. Taken(n) \in Nat /\ Taken(n) <= Room
  <2>1. (n - Header) \div 2 + Header \in Nat
    BY <1>1
  <2> QED  BY <1>1, <2>1 DEF Taken, Shorter
<1>4. ImageEnd(n) = RoundUp(Base + Taken(n))
  BY DEF ImageEnd, Taken
<1>5. Base + Taken(n) \in Nat /\ Base + Taken(n) <= EraseBlock * m
  BY <1>1, <1>2, <1>3
<1> QED  BY <1>1, <1>2, <1>3, <1>4, <1>5, RoundedUp DEF RoundUp

-------------------------------------------------------------------------------
(* The operations of a run.                                                *)

Jobs == [op : {"erase", "write"}, chip : Chip, end : Nat]

\* Everything is done within the segment.
Fits(p) ==
  p \in Seq(Jobs) /\ \A i \in 1 .. Len(p) : Base <= p[i].end /\ p[i].end <= Base + Room

WritesLast(p) ==
  \A i, j \in 1 .. Len(p) : i < j /\ p[i].op = "write" => p[j].op = "write"

\* A chip is written once, as far as the image goes.
WrittenOnce(p) ==
  \A i \in 1 .. Len(p) : p[i].op = "write" =>
    /\ length > 0 /\ p[i].end = ImageEnd(length)
    /\ \A j \in 1 .. Len(p) : p[j].op = "write" /\ p[j].chip = p[i].chip => i = j

Writes(p, c) == \E i \in 1 .. Len(p) : p[i].op = "write" /\ p[i].chip = c

\* No chip is written before the last one is erased.
ErasedBefore(p) ==
  length > 0 /\ (\E i \in 1 .. Len(p) : p[i].op = "erase") => \A c \in Chip : Writes(p, c)

\* What job i writes is erased by an earlier job.
Erases(p, i) ==
  \E j \in 1 .. i - 1 : p[j] = [op |-> "erase", chip |-> p[i].chip, end |-> p[i].end]

Ordered(p) == Fits(p) /\ WritesLast(p) /\ WrittenOnce(p) /\ ErasedBefore(p)

\* s does the same on each chip.
OnAll(s, op, end) ==
  /\ s \in Seq(Jobs) /\ Len(s) > 0
  /\ \A i \in 1 .. Len(s) : s[i].op = op /\ s[i].end = end
  /\ \A c \in Chip : \E i \in 1 .. Len(s) : s[i].chip = c
  /\ \A i, j \in 1 .. Len(s) : s[i].chip = s[j].chip => i = j

LEMMA OnEachShape ==
  ASSUME NEW op \in {"erase", "write"}, NEW end \in Nat
  PROVE  OnAll(OnEach(op, end), op, end)
<1> DEFINE job(c) == [op |-> op, chip |-> c, end |-> end]
           s == OnEach(op, end)
<1>1. CASE Dual
  <2>1. Chip = {"pri", "sec"}
    BY <1>1 DEF Dual, Chip
  <2>2. s = << job("pri"), job("sec") >>
    BY <1>1 DEF OnEach
  <2>3. job("pri") \in Jobs /\ job("sec") \in Jobs
    BY <2>1 DEF Jobs
  <2>4. /\ s \in Seq(Jobs) /\ Len(s) = 2 /\ s[1] = job("pri") /\ s[2] = job("sec")
    <3> HIDE DEF job, s
    <3> QED  BY <2>2, <2>3
  <2> HIDE DEF s
  <2>5. \A i \in 1 .. Len(s) : i = 1 \/ i = 2
    BY <2>4
  <2>6. OnAll(s, op, end)
    BY <2>1, <2>4, <2>5 DEF OnAll
  <2> QED  BY <2>6 DEF s
<1>2. CASE ~Dual
  <2>1. Chip = {"pri"}
    BY <1>2 DEF Dual, Chip
  <2>2. s = << job("pri") >>
    BY <1>2 DEF OnEach
  <2>3. job("pri") \in Jobs
    BY <2>1 DEF Jobs
  <2>4. /\ s \in Seq(Jobs) /\ Len(s) = 1 /\ s[1] = job("pri")
    <3> HIDE DEF job, s
    <3> QED  BY <2>2, <2>3
  <2> HIDE DEF s
  <2>5. \A i \in 1 .. Len(s) : i = 1
    BY <2>4
  <2>6. OnAll(s, op, end)
    BY <2>1, <2>4, <2>5 DEF OnAll
  <2> QED  BY <2>6 DEF s
<1> QED  BY <1>1, <1>2

\* p consists of three parts.
Parts(p, e, f, g) ==
  /\ Len(p) = Len(e) + Len(f) + Len(g)
  /\ \A i \in 1 .. Len(e) : p[i] = e[i]
  /\ \A i \in 1 .. Len(f) : p[Len(e) + i] = f[i]
  /\ \A i \in 1 .. Len(g) : p[Len(e) + Len(f) + i] = g[i]

LEMMA Concatenated ==
  ASSUME NEW S, NEW e \in Seq(S), NEW f \in Seq(S), NEW g \in Seq(S)
  PROVE  e \o (f \o g) \in Seq(S) /\ Parts(e \o (f \o g), e, f, g)
<1> DEFINE w == f \o g
           p == e \o w
           L == Len(e)
           M == Len(f)
           K == Len(g)
<1>1. /\ w \in Seq(S) /\ Len(w) = M + K
      /\ \A i \in 1 .. M + K : w[i] = IF i <= M THEN f[i] ELSE g[i - M]
  BY ConcatProperties
<1>2. L \in Nat /\ M \in Nat /\ K \in Nat
  BY LenProperties
<1> HIDE DEF w, M, K
<1>3. p \in Seq(S) /\ Len(p) = L + Len(w)
      /\ \A i \in 1 .. L + Len(w) : p[i] = IF i <= L THEN e[i] ELSE w[i - L]
  <2>1. w \in Seq(S)
    BY <1>1
  <2> QED  BY <2>1, ConcatProperties
<1> HIDE DEF p, L, M, K
<1>4. \A i \in 1 .. L : p[i] = e[i]
  <2> TAKE i \in 1 .. L
  <2>1. i \in 1 .. L + Len(w) /\ i <= L
    BY <1>1, <1>2
  <2> QED  BY <1>3, <2>1
<1>5. \A i \in 1 .. M : p[L + i] = f[i]
  <2> TAKE i \in 1 .. M
  <2>1. L + i \in 1 .. L + Len(w) /\ ~(L + i <= L) /\ L + i - L = i
    BY <1>1, <1>2
  <2>2. i \in 1 .. M + K /\ i <= M
    BY <1>2
  <2>3. p[L + i] = w[L + i - L]
    BY <1>2, <1>3, <2>1
  <2>4. w[i] = f[i]
    BY <1>1, <1>2, <2>2
  <2> QED  BY <2>1, <2>3, <2>4
<1>6. \A i \in 1 .. K : p[L + M + i] = g[i]
  <2> TAKE i \in 1 .. K
  <2>1. L + M + i \in 1 .. L + Len(w) /\ ~(L + M + i <= L) /\ L + M + i - L = M + i
    BY <1>1, <1>2
  <2>2. M + i \in 1 .. M + K /\ ~(M + i <= M) /\ M + i - M = i
    BY <1>2
  <2>3. p[L + M + i] = w[L + M + i - L]
    BY <1>2, <1>3, <2>1
  <2>4. w[M + i] = g[M + i - M]
    BY <1>1, <1>2, <2>2
  <2> QED  BY <2>1, <2>2, <2>3, <2>4
<1>7. Len(p) = L + M + K
  BY <1>1, <1>2, <1>3
<1>8. p \in Seq(S) /\ Parts(p, e, f, g)
  BY <1>3, <1>4, <1>5, <1>6, <1>7 DEF Parts, L, M, K
<1> QED  BY <1>8 DEF p, w

\* e erases whole segments.
OnlyErases(e) ==
  e \in Seq(Jobs) /\ \A i \in 1 .. Len(e) : e[i].op = "erase" /\ e[i].end = Base + Room

Planned(p) ==
  /\ Ordered(p) /\ p # << >>
  /\ \A i \in 1 .. Len(p) : p[i].op = "write" => Erases(p, i)
  /\ length > 0 => \A c \in Chip : Writes(p, c)

LEMMA ErasingPlan ==
  ASSUME Given, length = 0, NEW e, OnlyErases(e), Len(e) > 0
  PROVE  Planned(e)
<1>1. Base \in Nat /\ Room \in Nat
  BY SegmentShape
<1>2. /\ e \in Seq(Jobs) /\ Len(e) > 0
      /\ \A i \in 1 .. Len(e) : e[i].op = "erase" /\ e[i].end = Base + Room
  BY DEF OnlyErases
<1>3. Base <= Base + Room
  BY <1>1
<1>4. Fits(e)
  BY <1>1, <1>2, <1>3 DEF Fits
<1>5. WritesLast(e) /\ WrittenOnce(e)
  BY <1>2 DEF WritesLast, WrittenOnce
<1>6. ErasedBefore(e) /\ ~(length > 0)
  BY DEF ErasedBefore
<1>7. e # << >>
  BY <1>2
<1> QED  BY <1>2, <1>4, <1>5, <1>6, <1>7 DEF Planned, Ordered

LEMMA WritingPlan ==
  ASSUME Given, length > 0,
         NEW end, end = ImageEnd(length), end \in Nat, Base <= end, end <= Base + Room,
         NEW e, OnlyErases(e),
         NEW f, OnAll(f, "erase", end), NEW g, OnAll(g, "write", end),
         NEW p, p \in Seq(Jobs), Parts(p, e, f, g)
  PROVE  Planned(p)
<1> DEFINE L == Len(e)
           M == Len(f)
           K == Len(g)
<1>1. Base \in Nat /\ Room \in Nat
  BY SegmentShape
<1>2. L \in Nat /\ M \in Nat /\ K \in Nat /\ M > 0
  BY DEF OnlyErases, OnAll
<1>3. /\ \A i \in 1 .. L : e[i].op = "erase" /\ e[i].end = Base + Room
      /\ \A i \in 1 .. M : f[i].op = "erase" /\ f[i].end = end
      /\ \A i \in 1 .. K : g[i].op = "write" /\ g[i].end = end
  BY DEF OnlyErases, OnAll
<1>4. /\ Len(p) = L + M + K
      /\ \A i \in 1 .. L : p[i] = e[i]
      /\ \A i \in 1 .. M : p[L + i] = f[i]
      /\ \A i \in 1 .. K : p[L + M + i] = g[i]
  BY DEF Parts
<1> HIDE DEF L, M, K
<1>5. ASSUME NEW i \in 1 .. Len(p), i <= L + M
      PROVE  p[i].op = "erase" /\ (p[i].end = end \/ p[i].end = Base + Room)
  <2>1. CASE i <= L
    <3>1. i \in 1 .. L
      BY <1>2, <2>1
    <3> QED  BY <1>3, <1>4, <3>1
  <2>2. CASE ~(i <= L)
    <3>1. i - L \in 1 .. M /\ L + (i - L) = i
      BY <1>2, <1>4, <1>5, <2>2
    <3>2. p[L + (i - L)] = f[i - L]
      BY <1>4, <3>1
    <3> QED  BY <1>3, <3>1, <3>2
  <2> QED  BY <2>1, <2>2
<1>6. ASSUME NEW i \in 1 .. Len(p), ~(i <= L + M)
      PROVE  i - L - M \in 1 .. K /\ p[i] = g[i - L - M] /\ p[i].op = "write" /\ p[i].end = end
  <2>1. i - L - M \in 1 .. K /\ L + M + (i - L - M) = i
    BY <1>2, <1>4, <1>6
  <2>2. p[L + M + (i - L - M)] = g[i - L - M]
    BY <1>4, <2>1
  <2> QED  BY <1>3, <2>1, <2>2
<1>7. Fits(p)
  <2>1. \A i \in 1 .. Len(p) : p[i].end = end \/ p[i].end = Base + Room
    BY <1>5, <1>6
  <2>2. Base <= Base + Room /\ Base + Room <= Base + Room
    BY <1>1
  <2> QED  BY <2>1, <2>2 DEF Fits
<1>8. WritesLast(p)
  <2> SUFFICES ASSUME NEW i \in 1 .. Len(p), NEW j \in 1 .. Len(p), i < j, p[i].op = "write"
               PROVE  p[j].op = "write"
    BY DEF WritesLast
  <2>1. ~(i <= L + M)
    BY <1>5
  <2>2. ~(j <= L + M)
    BY <1>2, <1>4, <2>1
  <2> QED  BY <1>6, <2>2
<1>9. WrittenOnce(p)
  <2> SUFFICES ASSUME NEW i \in 1 .. Len(p), p[i].op = "write"
               PROVE  /\ p[i].end = end
                      /\ \A j \in 1 .. Len(p) :
                           p[j].op = "write" /\ p[j].chip = p[i].chip => i = j
    BY DEF WrittenOnce
  <2>1. i - L - M \in 1 .. K /\ p[i] = g[i - L - M] /\ p[i].end = end
    BY <1>5, <1>6
  <2>2. ASSUME NEW j \in 1 .. Len(p), p[j].op = "write", p[j].chip = p[i].chip PROVE i = j
    <3>1. j - L - M \in 1 .. K /\ p[j] = g[j - L - M]
      BY <1>5, <1>6, <2>2
    <3>2. i - L - M = j - L - M
      BY <2>1, <2>2, <3>1 DEF K, OnAll
    <3> QED  BY <1>2, <1>4, <3>2
  <2> QED  BY <2>1, <2>2
<1>10. \A c \in Chip : Writes(p, c)
  <2> SUFFICES ASSUME NEW c \in Chip PROVE Writes(p, c)
    OBVIOUS
  <2>1. PICK i \in 1 .. K : g[i].chip = c
    BY DEF K, OnAll
  <2>2. L + M + i \in 1 .. Len(p)
    BY <1>2, <1>4
  <2> QED  BY <1>3, <1>4, <2>1, <2>2 DEF Writes
<1>11. ASSUME NEW i \in 1 .. Len(p), p[i].op = "write" PROVE Erases(p, i)
  <2>1. ~(i <= L + M) /\ p[i].end = end
    BY <1>5, <1>6, <1>11
  <2>2. p[i] \in Jobs
    BY ElementOfSeq
  <2>3. p[i].chip \in Chip
    BY <2>2 DEF Jobs
  <2>4. PICK j \in 1 .. M : f[j].chip = p[i].chip
    BY <2>3 DEF M, OnAll
  <2>5. f[j] \in Jobs
    BY ElementOfSeq DEF M, OnAll
  <2>6. f[j] = [op |-> "erase", chip |-> p[i].chip, end |-> p[i].end]
    BY <1>3, <2>1, <2>4, <2>5 DEF Jobs
  <2>7. L + j \in 1 .. i - 1
    BY <1>2, <1>4, <2>1
  <2>8. p[L + j] = f[j]
    BY <1>4
  <2> QED  BY <2>6, <2>7, <2>8 DEF Erases
<1>12. p # << >>
  BY <1>2, <1>4
<1> QED  BY <1>7, <1>8, <1>9, <1>10, <1>11, <1>12 DEF Planned, Ordered, ErasedBefore

LEMMA PlanShape ==
  ASSUME Given, NEW erase \in BOOLEAN, length \in Nat, length > 0 \/ erase,
         length > 0 => length > Header /\ length <= SegmentSize
  PROVE  Planned(Erasing(erase) \o Writing(length))
<1> DEFINE e == Erasing(erase)
           end == ImageEnd(length)
<1>1. Base \in Nat /\ Room \in Nat
  BY SegmentShape
<1>2. OnlyErases(e) /\ (length = 0 => Len(e) > 0)
  <2>1. CASE erase
    <3>1. OnAll(OnEach("erase", Base + Room), "erase", Base + Room)
      <4>1. Base + Room \in Nat
        BY <1>1
      <4> QED  BY <4>1, OnEachShape
    <3>2. e = OnEach("erase", Base + Room)
      BY <2>1 DEF Erasing
    <3> QED  BY <3>1, <3>2 DEF OnAll, OnlyErases
  <2>2. CASE ~erase
    <3>1. length > 0
      BY <2>2
    <3>2. length # 0
      BY <3>1
    <3>3. e = << >> /\ OnlyErases(<< >>)
      BY <2>2 DEF Erasing, OnlyErases
    <3> QED  BY <3>2, <3>3
  <2> QED  BY <2>1, <2>2
<1> HIDE DEF e
<1>3. CASE length = 0
  <2>1. Writing(length) = << >>
    BY <1>3 DEF Writing
  <2>2. e \o << >> = e
    BY <1>2, ConcatEmptySeq DEF OnlyErases
  <2> QED  BY <1>2, <1>3, <2>1, <2>2, ErasingPlan DEF e
<1>4. CASE length > 0
  <2> DEFINE f == OnEach("erase", end)
             g == OnEach("write", end)
  <2>1. end \in Nat /\ Base <= end /\ end <= Base + Room
    <3>1. /\ Taken(length) \in Nat /\ end \in Nat /\ Base + Taken(length) <= end
          /\ end <= Base + Room
      BY <1>4, ImageShape
    <3> HIDE DEF end
    <3> QED  BY <1>1, <3>1
  <2>2. Writing(length) = f \o g
    BY <1>4 DEF Writing
  <2>3. OnAll(f, "erase", end) /\ OnAll(g, "write", end)
    BY <2>1, OnEachShape
  <2> HIDE DEF end, f, g
  <2>4. e \o (f \o g) \in Seq(Jobs) /\ Parts(e \o (f \o g), e, f, g)
    BY <1>2, <2>3, Concatenated DEF OnlyErases, OnAll
  <2>5. Planned(e \o (f \o g))
    BY <1>2, <1>4, <2>1, <2>3, <2>4, WritingPlan DEF end
  <2> QED  BY <2>2, <2>5 DEF e
<1> QED  BY <1>3, <1>4

LEMMA TailShape ==
  ASSUME NEW p, Ordered(p), p # << >>, NEW q, q = Tail(p)
  PROVE  /\ Ordered(q)
         /\ Len(q) = Len(p) - 1 /\ Len(p) \in Nat \ {0}
         /\ \A i \in 1 .. Len(q) : q[i] = p[i + 1] /\ i + 1 \in 1 .. Len(p)
         /\ Head(p) = p[1] /\ 1 \in 1 .. Len(p)
<1>1. p \in Seq(Jobs)
  BY DEF Ordered, Fits
<1>2. /\ q \in Seq(Jobs) /\ Len(q) = Len(p) - 1 /\ Len(p) \in Nat \ {0}
      /\ \A i \in 1 .. Len(q) : q[i] = p[i + 1]
      /\ Head(p) = p[1]
  BY <1>1, HeadTailProperties
<1>3. \A i \in 1 .. Len(q) : i + 1 \in 1 .. Len(p)
  BY <1>2
<1>4. Fits(q)
  BY <1>2, <1>3 DEF Ordered, Fits
<1>5. WritesLast(q)
  <2> SUFFICES ASSUME NEW i \in 1 .. Len(q), NEW j \in 1 .. Len(q), i < j, q[i].op = "write"
               PROVE  q[j].op = "write"
    BY DEF WritesLast
  <2>1. i + 1 < j + 1 /\ i + 1 \in 1 .. Len(p) /\ j + 1 \in 1 .. Len(p)
    BY <1>2, <1>3
  <2> QED  BY <1>2, <2>1 DEF Ordered, WritesLast
<1>6. WrittenOnce(q)
  <2> SUFFICES ASSUME NEW i \in 1 .. Len(q), q[i].op = "write"
               PROVE  /\ length > 0 /\ q[i].end = ImageEnd(length)
                      /\ \A j \in 1 .. Len(q) :
                           q[j].op = "write" /\ q[j].chip = q[i].chip => i = j
    BY DEF WrittenOnce
  <2>1. /\ length > 0 /\ p[i + 1].end = ImageEnd(length)
        /\ \A j \in 1 .. Len(p) : p[j].op = "write" /\ p[j].chip = p[i + 1].chip => i + 1 = j
    BY <1>2, <1>3 DEF Ordered, WrittenOnce
  <2>2. \A j \in 1 .. Len(q) : i + 1 = j + 1 => i = j
    BY <1>2
  <2> QED  BY <1>2, <1>3, <2>1, <2>2
<1>7. ErasedBefore(q)
  <2> SUFFICES ASSUME length > 0, NEW i \in 1 .. Len(q), q[i].op = "erase", NEW c \in Chip
               PROVE  Writes(q, c)
    BY DEF ErasedBefore
  <2>1. p[i + 1].op = "erase" /\ i + 1 \in 1 .. Len(p) /\ 1 \in 1 .. Len(p) /\ 1 < i + 1
    BY <1>2, <1>3
  <2>2. p[1].op # "write"
    BY <2>1 DEF Ordered, WritesLast
  <2>3. PICK j \in 1 .. Len(p) : p[j].op = "write" /\ p[j].chip = c
    BY <2>1 DEF Ordered, ErasedBefore, Writes
  <2>4. j - 1 \in 1 .. Len(q) /\ j - 1 + 1 = j
    BY <1>2, <2>2, <2>3
  <2>5. q[j - 1] = p[j]
    BY <1>2, <2>4
  <2> QED  BY <2>3, <2>4, <2>5 DEF Writes
<1> QED  BY <1>2, <1>3, <1>4, <1>5, <1>6, <1>7 DEF Ordered

-------------------------------------------------------------------------------
(* The inductive invariant.                                                *)

Basics ==
  /\ Given
  /\ length \in Nat /\ start \in Nat /\ at \in Nat /\ faults \in Nat
  /\ length > 0 => length > Header /\ length <= SegmentSize

Filled == flash = [c \in Chip |-> [a \in AllCells |-> flash[c][a]]]

Planning == Ordered(todo) /\ (outcome = "ok" => todo = << >>)

\* The driver is within its step, and the step within the operation.
Position ==
  outcome = "busy" =>
    todo # << >> /\ Base <= start /\ start <= at /\ at <= StepEnd /\ start <= Job.end

BlankOn(c, from, to) == \A a \in from .. to - 1 : flash[c][a] = Blank
Wanted(c, a) == Buffer(c, a - Base)
HoldsFile(c, from, to) == \A a \in from .. to - 1 : flash[c][a] = Wanted(c, a)

\* As long as nothing has failed, what is to be written is blank, or will be erased.
ErasedSoFar ==
  outcome = "busy" /\ faults = 0 =>
    /\ \A i \in 1 .. Len(todo) : todo[i].op = "write" =>
         \/ Erases(todo, i)
         \/ BlankOn(todo[i].chip, IF i = 1 THEN at ELSE Base, todo[i].end)
    /\ Job.op = "erase" => BlankOn(Job.chip, Base, at)

\* Chips that are written hold the file, and the one that is being written holds the
\* steps that were verified.
Verified ==
  outcome \in {"busy", "ok"} /\ length > 0 =>
    \A c \in Chip :
      /\ ~Writes(todo, c) => HoldsFile(c, Base, ImageEnd(length))
      /\ outcome = "busy" /\ Job.op = "write" /\ Job.chip = c => HoldsFile(c, Base, start)

FlashInv == Basics /\ Filled /\ Planning /\ Position /\ ErasedSoFar /\ Verified

\* What steps of the driver leave alone.
Kept == UNCHANGED <<board, slot, length, run>>

LEMMA SameSegment ==
  ASSUME Kept
  PROVE  /\ Base' = Base /\ Room' = Room /\ Chip' = Chip /\ Given' = Given
         /\ SegmentSize' = SegmentSize
         /\ ImageEnd(length)' = ImageEnd(length)
BY DEF Kept, Base, Room, Chip, Given, SegmentSize, SegmentStart, StartOn, FlashSize, Chips, Dual,
       ImageEnd, RoundUp, EraseBlock, EraseBlockOn, Shorter

LEMMA SameWanted ==
  ASSUME Kept, NEW c, NEW a
  PROVE  Wanted(c, a)' = Wanted(c, a)
BY SameSegment DEF Kept, Wanted, Buffer, Dual, Byte, High, Low, Pair

LEMMA StaysOrdered ==
  ASSUME Kept, Ordered(todo')
  PROVE  Ordered(todo)'
<1>1. Base' = Base /\ Room' = Room /\ Chip' = Chip /\ ImageEnd(length)' = ImageEnd(length)
  BY SameSegment
<1>2. length' = length
  BY DEF Kept
<1> QED  BY <1>1, <1>2 DEF Ordered, Fits, Jobs, WritesLast, WrittenOnce, ErasedBefore, Writes

LEMMA JobShape ==
  ASSUME Ordered(todo), todo # << >>
  PROVE  /\ Len(todo) \in Nat \ {0} /\ 1 \in 1 .. Len(todo) /\ Job = todo[1]
         /\ Job \in Jobs /\ Job.chip \in Chip /\ Job.end \in Nat
         /\ Base <= Job.end /\ Job.end <= Base + Room
<1>1. todo \in Seq(Jobs)
  BY DEF Ordered, Fits
<1>2. Len(todo) \in Nat \ {0} /\ Head(todo) = todo[1] /\ Head(todo) \in Jobs
  BY <1>1, HeadTailProperties
<1>3. 1 \in 1 .. Len(todo)
  BY <1>2
<1> QED  BY <1>2, <1>3 DEF Ordered, Fits, Job, Jobs

StepHolds ==
  start \in Nat /\ Job.end \in Nat /\ start <= Job.end =>
    /\ StepEnd \in Nat /\ start <= StepEnd /\ StepEnd <= Job.end
    /\ ~(StepEnd < Job.end) => StepEnd = Job.end

LEMMA StepShape == StepHolds
<1> SUFFICES ASSUME start \in Nat, Job.end \in Nat, start <= Job.end
             PROVE  /\ StepEnd \in Nat /\ start <= StepEnd /\ StepEnd <= Job.end
                    /\ ~(StepEnd < Job.end) => StepEnd = Job.end
  BY DEF StepHolds
<1> DEFINE r == start % Sector
           e == Job.end
<1>1. r \in 0 .. Sector - 1 /\ Sector \in Nat \ {0} /\ e \in Nat
  BY SizesAssumption
<1>2. StepEnd = IF e - start > Sector THEN start + Sector - r ELSE e
  BY DEF StepEnd
<1> HIDE DEF r, e
<1>3. CASE e - start > Sector
  BY <1>1, <1>2, <1>3 DEF e
<1>4. CASE ~(e - start > Sector)
  BY <1>1, <1>2, <1>4 DEF e
<1> QED  BY <1>3, <1>4

\* Only cells of the chip in question change.
Changed(cells) ==
  /\ Filled'
  /\ \A c \in Chip : \A a \in AllCells :
       flash'[c][a] # flash[c][a] => c = Job.chip /\ a \in cells

LEMMA SetChanges ==
  ASSUME Filled, Kept, Job.chip \in Chip, NEW new, Set(new)
  PROVE  /\ Changed(DOMAIN new)
         /\ \A a \in AllCells :
              flash'[Job.chip][a] = IF a \in DOMAIN new THEN new[a] ELSE flash[Job.chip][a]
<1> DEFINE part == [a \in AllCells |-> IF a \in DOMAIN new THEN new[a] ELSE flash[Job.chip][a]]
<1>1. DOMAIN flash = Chip
  BY DEF Filled
<1>2. flash' = [flash EXCEPT ![Job.chip] = part]
  BY DEF Set
<1>3. flash' = [c \in Chip |-> IF c = Job.chip THEN part ELSE flash[c]]
  BY <1>1, <1>2
<1>4. \A c \in Chip : flash'[c] = IF c = Job.chip THEN part ELSE flash[c]
  BY <1>3
<1>5. Chip' = Chip
  BY SameSegment
<1>6. \A c \in Chip : flash[c] = [a \in AllCells |-> flash[c][a]]
  BY DEF Filled
<1>7. \A c \in Chip : flash'[c] = [a \in AllCells |-> flash'[c][a]]
  BY <1>4, <1>6
<1>8. flash' = [c \in Chip |-> [a \in AllCells |-> flash'[c][a]]]
  BY <1>3, <1>7
<1>9. Filled'
  BY <1>5, <1>8 DEF Filled, AllCells
<1>10. \A a \in AllCells :
         flash'[Job.chip][a] = IF a \in DOMAIN new THEN new[a] ELSE flash[Job.chip][a]
  BY <1>4
<1>11. \A c \in Chip : c # Job.chip => flash'[c] = flash[c]
  BY <1>4
<1> HIDE DEF part
<1>12. ASSUME NEW c \in Chip, NEW a \in AllCells, flash'[c][a] # flash[c][a]
       PROVE  c = Job.chip /\ a \in DOMAIN new
  BY <1>10, <1>11, <1>12
<1> QED  BY <1>9, <1>10, <1>12 DEF Changed

LEMMA NothingChanges ==
  ASSUME Filled, Kept, UNCHANGED flash
  PROVE  Changed({})
<1>1. Chip' = Chip
  BY SameSegment
<1> QED  BY <1>1 DEF Filled, Changed, AllCells

\* The driver moves on within its step.
Forward == at' \in Nat /\ at <= at' /\ at' <= StepEnd /\ UNCHANGED <<todo, start, outcome>>

LEMMA Moves ==
  ASSUME Basics, Planning, Position, outcome = "busy", Kept, faults' \in Nat,
         Fail \/ Forward \/ NextStep
  PROVE  Basics' /\ Planning' /\ Position'
<1>1. /\ Base' = Base /\ Room' = Room /\ SegmentSize' = SegmentSize /\ Given'
      /\ length' = length /\ length' \in Nat
      /\ length' > 0 => length' > Header /\ length' <= SegmentSize'
  BY SameSegment DEF Kept, Basics
<1>2. Base \in Nat /\ Room \in Nat
  BY SegmentShape DEF Basics
<1>3. /\ Ordered(todo) /\ todo # << >> /\ start \in Nat /\ at \in Nat
      /\ Base <= start /\ start <= at /\ at <= StepEnd /\ start <= Job.end
  BY DEF Basics, Planning, Position
<1>4. Job.end \in Nat /\ Base <= Job.end /\ Len(todo) \in Nat \ {0}
  BY <1>3, JobShape
<1>5. /\ StepEnd \in Nat /\ start <= StepEnd /\ StepEnd <= Job.end
      /\ ~(StepEnd < Job.end) => StepEnd = Job.end
  BY <1>3, <1>4, StepShape DEF StepHolds
<1>6. StepHolds'
  BY StepShape, PTL
<1>7. CASE Fail
  <2>1. outcome' = "failed" /\ todo' = todo /\ start' = start /\ at' = at
    BY <1>7 DEF Fail
  <2>2. Ordered(todo)'
    BY <1>3, <2>1, StaysOrdered
  <2> QED  BY <1>1, <1>3, <2>1, <2>2 DEF Basics, Planning, Position
<1>8. CASE Forward
  <2>1. /\ at' \in Nat /\ at <= at' /\ at' <= StepEnd
        /\ todo' = todo /\ start' = start /\ outcome' = "busy"
    BY <1>8 DEF Forward
  <2>2. Ordered(todo)'
    BY <1>3, <2>1, StaysOrdered
  <2>3. Job' = Job /\ StepEnd' = StepEnd
    BY <2>1 DEF Job, StepEnd
  <2>4. start' <= at'
    BY <1>3, <2>1
  <2> QED  BY <1>1, <1>3, <2>1, <2>2, <2>3, <2>4 DEF Basics, Planning, Position
<1>9. CASE NextStep /\ StepEnd < Job.end
  <2>1. start' = StepEnd /\ at' = StepEnd /\ todo' = todo /\ outcome' = "busy"
    BY <1>9 DEF NextStep
  <2>2. Ordered(todo)'
    BY <1>3, <2>1, StaysOrdered
  <2>3. Job' = Job /\ Job'.end = Job.end
    BY <2>1 DEF Job
  <2>4. start' \in Nat /\ start' <= Job'.end /\ Base <= start'
    BY <1>2, <1>3, <1>5, <2>1, <2>3
  <2>5. start' <= StepEnd'
    BY <1>4, <1>6, <2>3, <2>4 DEF StepHolds
  <2> QED  BY <1>1, <1>3, <2>1, <2>2, <2>4, <2>5 DEF Basics, Planning, Position
<1>10. CASE NextStep /\ ~(StepEnd < Job.end)
  <2>1. /\ todo' = Tail(todo) /\ start' = Base /\ at' = Base
        /\ outcome' = IF Len(todo) = 1 THEN "ok" ELSE "busy"
    BY <1>10 DEF NextStep
  <2>2. Ordered(todo') /\ Len(todo') = Len(todo) - 1
    BY <1>3, <2>1, TailShape
  <2>3. Ordered(todo)'
    BY <2>2, StaysOrdered
  <2>4. Len(todo) = 1 => todo' = << >>
    BY <2>2, EmptySeq DEF Ordered, Fits
  <2>5. Basics' /\ Planning'
    BY <1>1, <1>2, <2>1, <2>3, <2>4 DEF Basics, Planning
  <2>6. ASSUME outcome' = "busy" PROVE Position'
    <3>1. todo' # << >>
      BY <1>4, <2>1, <2>2, <2>6
    <3>2. Head(todo').end \in Nat /\ Base <= Head(todo').end
      <4>1. todo' \in Seq(Jobs) /\ Len(todo') \in Nat
        BY <2>2 DEF Ordered, Fits
      <4>2. Head(todo') = todo'[1] /\ Len(todo') # 0
        BY <3>1, <4>1, HeadTailProperties, EmptySeq
      <4>3. 1 \in 1 .. Len(todo') /\ todo'[1] \in Jobs
        BY <4>1, <4>2
      <4> QED  BY <2>2, <4>2, <4>3 DEF Ordered, Fits, Jobs
    <3>3. Job'.end \in Nat /\ start' \in Nat /\ start' <= Job'.end
      BY <1>2, <2>1, <3>2 DEF Job
    <3>4. start' <= StepEnd'
      BY <1>6, <3>3 DEF StepHolds
    <3> QED  BY <1>1, <1>2, <2>1, <3>1, <3>3, <3>4 DEF Position
  <2> QED  BY <2>5, <2>6 DEF Position
<1> QED  BY <1>7, <1>8, <1>9, <1>10

\* The blocks that are erased end where the step does, or before.
LEMMA BlockShape ==
  ASSUME NEW a \in Nat, NEW n \in Nat
  PROVE  BlockAt(a, n) \in Nat /\ (BlockAt(a, n) > 0 => BlockAt(a, n) <= n)
BY SizesAssumption DEF BlockAt

LEMMA EraseStep ==
  ASSUME FlashInv, Erase
  PROVE  /\ Busy("erase") /\ Kept /\ faults' \in Nat
         /\ \E size \in Nat :
              /\ at + size <= StepEnd
              /\ Changed(at .. at + size - 1)
              /\ \/ Fail
                 \/ /\ \/ at + size = StepEnd /\ NextStep
                       \/ at' = at + size /\ UNCHANGED <<todo, start, outcome>>
                    /\ faults' = 0 =>
                         faults = 0 /\ \A a \in at .. at + size - 1 : flash'[Job.chip][a] = Blank
<1> DEFINE size == BlockAt(at, StepEnd - at)
           cells == at .. at + size - 1
           On == IF at + size = StepEnd THEN NextStep
                 ELSE at' = at + size /\ UNCHANGED <<todo, start, outcome>>
<1>1. Busy("erase") /\ Kept
  BY DEF Erase, Kept
<1>2. /\ outcome = "busy" /\ todo # << >> /\ Ordered(todo) /\ Filled /\ Given
      /\ faults \in Nat /\ start \in Nat /\ at \in Nat
      /\ Base <= start /\ start <= at /\ at <= StepEnd /\ start <= Job.end
  BY <1>1 DEF FlashInv, Basics, Planning, Position, Busy
<1>3. Job.chip \in Chip /\ Job.end \in Nat /\ Job.end <= Base + Room
  BY <1>2, JobShape
<1>4. StepEnd \in Nat /\ StepEnd <= Job.end
  BY <1>2, <1>3, StepShape DEF StepHolds
<1>5. Base \in Nat /\ Room \in Nat /\ Base + Room <= ChipSize /\ ChipSize \in Nat
  BY <1>2, SegmentShape, SizesAssumption
<1>6. size \in Nat /\ at + size <= StepEnd
  <2>1. StepEnd - at \in Nat
    BY <1>2, <1>4
  <2>2. BlockAt(at, StepEnd - at) \in Nat
        /\ (BlockAt(at, StepEnd - at) > 0 => BlockAt(at, StepEnd - at) <= StepEnd - at)
    BY <1>2, <2>1, BlockShape
  <2> HIDE DEF size
  <2>3. size \in Nat /\ (size > 0 => size <= StepEnd - at)
    BY <2>2 DEF size
  <2> QED  BY <1>2, <1>4, <2>3
<1>7. \A a \in cells : a \in AllCells
  <2> HIDE DEF size
  <2> QED  BY <1>2, <1>3, <1>4, <1>5, <1>6 DEF AllCells
<1>8. \/ size = 0 /\ Fail /\ UNCHANGED <<flash, faults>>
      \/ Set([a \in cells |-> Blank]) /\ On /\ UNCHANGED faults
      \/ Spoil(cells) /\ (Fail \/ On)
      \/ Refused
  BY DEF Erase, Cleared
<1> HIDE DEF size
<1>9. CASE size = 0 /\ Fail /\ UNCHANGED <<flash, faults>>
  <2>1. Changed({})
    BY <1>1, <1>2, <1>9, NothingChanges
  <2>2. Changed(cells)
    BY <2>1 DEF Changed
  <2>3. faults' \in Nat
    BY <1>2, <1>9
  <2> QED  BY <1>1, <1>6, <1>9, <2>2, <2>3
<1>10. CASE Set([a \in cells |-> Blank]) /\ On /\ UNCHANGED faults
  <2>1. /\ Changed(DOMAIN [a \in cells |-> Blank])
        /\ \A a \in AllCells : flash'[Job.chip][a] =
             IF a \in DOMAIN [b \in cells |-> Blank] THEN [b \in cells |-> Blank][a]
             ELSE flash[Job.chip][a]
    BY <1>1, <1>2, <1>3, <1>10, SetChanges
  <2>2. Changed(cells) /\ \A a \in cells : flash'[Job.chip][a] = Blank
    <3> HIDE DEF cells
    <3> QED  BY <1>7, <2>1
  <2>3. faults' = faults /\ faults' \in Nat
    BY <1>2, <1>10
  <2> QED  BY <1>1, <1>6, <1>10, <2>2, <2>3
<1>11. CASE Spoil(cells) /\ (Fail \/ On)
  <2>1. faults' = faults + 1
    BY <1>11 DEF Spoil, Fault
  <2>2. faults' \in Nat /\ faults' # 0
    BY <1>2, <2>1
  <2>3. Changed(cells)
    <3>1. CASE UNCHANGED flash
      BY <1>1, <1>2, <3>1, NothingChanges DEF Changed
    <3>2. CASE Set([a \in cells |-> Bad])
      <4>1. Changed(DOMAIN [a \in cells |-> Bad])
        BY <1>1, <1>2, <1>3, <3>2, SetChanges
      <4> QED  BY <4>1
    <3> QED  BY <1>11, <3>1, <3>2 DEF Spoil
  <2> QED  BY <1>1, <1>6, <1>11, <2>2, <2>3
<1>12. CASE Refused
  <2>1. faults' = faults + 1 /\ Fail /\ UNCHANGED flash
    BY <1>12 DEF Refused, Fault
  <2>2. Changed(cells)
    BY <1>1, <1>2, <2>1, NothingChanges DEF Changed
  <2>3. faults' \in Nat
    BY <1>2, <2>1
  <2> QED  BY <1>1, <1>6, <2>1, <2>2, <2>3
<1> QED  BY <1>8, <1>9, <1>10, <1>11, <1>12

LEMMA ProgramStep ==
  ASSUME FlashInv, Program
  PROVE  /\ Busy("write") /\ Kept /\ faults' \in Nat
         /\ PageEnd \in Nat /\ at <= PageEnd /\ PageEnd <= StepEnd
         /\ Changed(at .. PageEnd - 1)
         /\ Fail \/ (at' = PageEnd /\ UNCHANGED <<todo, start, outcome>>)
         /\ faults' = 0 => faults = 0
<1> DEFINE cells == at .. PageEnd - 1
           On == at' = PageEnd /\ UNCHANGED <<todo, start, outcome>>
<1>1. Busy("write") /\ Kept /\ at < StepEnd
  BY DEF Program, Kept
<1>2. /\ outcome = "busy" /\ todo # << >> /\ Ordered(todo) /\ Filled /\ Given
      /\ faults \in Nat /\ start \in Nat /\ at \in Nat /\ start <= Job.end
  BY <1>1 DEF FlashInv, Basics, Planning, Position, Busy
<1>3. Job.chip \in Chip /\ Job.end \in Nat
  BY <1>2, JobShape
<1>4. StepEnd \in Nat
  BY <1>2, <1>3, StepShape DEF StepHolds
<1>5. PageEnd \in Nat /\ at <= PageEnd /\ PageEnd <= StepEnd
  <2> DEFINE r == at % Page
  <2>1. r \in 0 .. Page - 1 /\ Page \in Nat \ {0}
    BY <1>2, SizesAssumption
  <2>2. PageEnd = IF at + Page - r < StepEnd THEN at + Page - r ELSE StepEnd
    BY DEF PageEnd, Shorter
  <2> HIDE DEF r
  <2> QED  BY <1>1, <1>2, <1>4, <2>1, <2>2
<1>6. \/ /\ Set([a \in cells |-> Programmed(flash[Job.chip][a], Buffer(Job.chip, a - Base))])
         /\ On /\ UNCHANGED faults
      \/ Spoil(cells) /\ (Fail \/ On)
      \/ Refused
  BY DEF Program
<1>7. ASSUME NEW new, DOMAIN new = cells, Set(new) PROVE Changed(cells)
  BY <1>1, <1>2, <1>3, <1>7, SetChanges
<1> HIDE DEF cells
<1>8. CASE /\ Set([a \in cells |-> Programmed(flash[Job.chip][a], Buffer(Job.chip, a - Base))])
           /\ On /\ UNCHANGED faults
  <2>1. Changed(cells)
    BY <1>7, <1>8
  <2>2. faults' = faults
    BY <1>8
  <2> QED  BY <1>1, <1>2, <1>5, <1>8, <2>1, <2>2 DEF cells
<1>9. CASE Spoil(cells) /\ (Fail \/ On)
  <2>1. faults' = faults + 1
    BY <1>9 DEF Spoil, Fault
  <2>2. faults' \in Nat /\ faults' # 0
    BY <1>2, <2>1
  <2>3. Changed(cells)
    <3>1. CASE UNCHANGED flash
      BY <1>1, <1>2, <3>1, NothingChanges DEF Changed
    <3>2. CASE Set([a \in cells |-> Bad])
      BY <1>7, <3>2
    <3> QED  BY <1>9, <3>1, <3>2 DEF Spoil
  <2> QED  BY <1>1, <1>5, <1>9, <2>2, <2>3 DEF cells
<1>10. CASE Refused
  <2>1. faults' = faults + 1 /\ Fail /\ UNCHANGED flash
    BY <1>10 DEF Refused, Fault
  <2>2. Changed(cells)
    BY <1>1, <1>2, <2>1, NothingChanges DEF Changed
  <2>3. faults' \in Nat /\ faults' # 0
    BY <1>2, <2>1
  <2> QED  BY <1>1, <1>5, <2>1, <2>2, <2>3 DEF cells
<1> QED  BY <1>6, <1>8, <1>9, <1>10

LEMMA VerifyStep ==
  ASSUME FlashInv, Verify
  PROVE  /\ Busy("write") /\ Kept /\ at = StepEnd /\ faults' \in Nat /\ UNCHANGED flash
         /\ Changed({})
         /\ \/ Fail
            \/ NextStep /\ HoldsFile(Job.chip, start, StepEnd) /\ faults' = faults
<1>1. Busy("write") /\ Kept /\ at = StepEnd /\ UNCHANGED flash
  BY DEF Verify, Kept
<1>2. Filled /\ faults \in Nat
  BY DEF FlashInv, Basics
<1>3. Changed({})
  BY <1>1, <1>2, NothingChanges
<1>4. \/ Matches /\ NextStep /\ faults' = faults
      \/ Fail /\ (faults' = faults \/ faults' = faults + 1)
  BY DEF Verify, Fault
<1>5. faults' \in Nat
  BY <1>2, <1>4
<1> QED  BY <1>1, <1>3, <1>4, <1>5 DEF Matches, HoldsFile, Wanted

\* The operation that is done next, and how a step that ends it goes on.
LEMMA EndsJob ==
  ASSUME Basics, Planning, Position, outcome = "busy", NextStep
  PROVE  \/ /\ UNCHANGED <<todo, outcome>> /\ start' = StepEnd /\ at' = StepEnd
            /\ StepEnd < Job.end
         \/ /\ todo' = Tail(todo) /\ start' = Base /\ at' = Base
            /\ outcome' = IF Len(todo) = 1 THEN "ok" ELSE "busy"
            /\ StepEnd = Job.end
<1>1. Ordered(todo) /\ todo # << >> /\ start \in Nat /\ start <= Job.end
  BY DEF Basics, Planning, Position
<1>2. Job.end \in Nat
  BY <1>1, JobShape
<1>3. ~(StepEnd < Job.end) => StepEnd = Job.end
  BY <1>1, <1>2, StepShape DEF StepHolds
<1> QED  BY <1>3 DEF NextStep

LEMMA CellsOfJobs ==
  ASSUME Basics, Ordered(todo), NEW i \in 1 .. Len(todo)
  PROVE  /\ todo[i].chip \in Chip /\ todo[i].end \in Nat /\ Base \in Nat
         /\ \A a \in Base .. todo[i].end - 1 : a \in AllCells
<1>1. Base \in Nat /\ Room \in Nat /\ Base + Room <= ChipSize /\ ChipSize \in Nat
  BY SegmentShape, SizesAssumption DEF Basics
<1>2. todo[i] \in Jobs
  BY ElementOfSeq DEF Ordered, Fits
<1>3. todo[i].chip \in Chip /\ todo[i].end \in Nat /\ todo[i].end <= Base + Room
  BY <1>2 DEF Jobs, Ordered, Fits
<1>4. \A a \in Base .. todo[i].end - 1 : a \in AllCells
  BY <1>1, <1>3 DEF AllCells
<1> QED  BY <1>1, <1>3, <1>4

LEMMA EraseKeepsErased ==
  ASSUME FlashInv, Erase
  PROVE  ErasedSoFar'
<1> SUFFICES ASSUME outcome' = "busy", faults' = 0
             PROVE  /\ \A i \in 1 .. Len(todo') : todo'[i].op = "write" =>
                         \/ Erases(todo', i)
                         \/ \A a \in (IF i = 1 THEN at' ELSE Base) .. todo'[i].end - 1 :
                              flash'[todo'[i].chip][a] = Blank
                    /\ Job'.op = "erase" => \A a \in Base .. at' - 1 : flash'[Job'.chip][a] = Blank
  <2>1. Kept
    BY EraseStep
  <2>2. Base' = Base
    BY <2>1, SameSegment
  <2> QED  BY <2>2 DEF ErasedSoFar, BlankOn, Erases
<1>1. Busy("erase")
  BY EraseStep
<1>2. /\ Basics /\ Planning /\ Position /\ outcome = "busy" /\ Ordered(todo) /\ todo # << >>
      /\ Job.op = "erase" /\ at \in Nat
  BY <1>1 DEF FlashInv, Busy, Planning, Basics
<1>3. PICK size \in Nat :
        /\ at + size <= StepEnd
        /\ Changed(at .. at + size - 1)
        /\ \/ at + size = StepEnd /\ NextStep
           \/ at' = at + size /\ UNCHANGED <<todo, start, outcome>>
        /\ faults = 0 /\ \A a \in at .. at + size - 1 : flash'[Job.chip][a] = Blank
  BY EraseStep, Zenon DEF Fail
<1>4. /\ 1 \in 1 .. Len(todo) /\ Job = todo[1] /\ Job.chip \in Chip /\ Job.end \in Nat
      /\ Len(todo) \in Nat
  BY <1>2, JobShape
<1>5. /\ \A i \in 1 .. Len(todo) : todo[i].op = "write" =>
           \/ Erases(todo, i)
           \/ \A a \in (IF i = 1 THEN at ELSE Base) .. todo[i].end - 1 :
                flash[todo[i].chip][a] = Blank
      /\ \A a \in Base .. at - 1 : flash[Job.chip][a] = Blank
  BY <1>2, <1>3 DEF FlashInv, ErasedSoFar, BlankOn
<1>6. \A c \in Chip : \A a \in AllCells : flash[c][a] = Blank => flash'[c][a] = Blank
  BY <1>3 DEF Changed
<1>7. /\ Base \in Nat /\ \A a \in Base .. Job.end - 1 : a \in AllCells
      /\ StepEnd \in Nat /\ StepEnd <= Job.end
  BY <1>2, <1>4, CellsOfJobs, StepShape DEF StepHolds, Position, Basics
<1>8. \A a \in Base .. at + size - 1 : flash'[Job.chip][a] = Blank
  <2> TAKE a \in Base .. at + size - 1
  <2>1. CASE a < at
    <3>1. a \in Base .. at - 1 /\ a \in Base .. Job.end - 1
      BY <1>2, <1>3, <1>4, <1>7, <2>1
    <3> QED  BY <1>4, <1>5, <1>6, <1>7, <3>1
  <2>2. CASE ~(a < at)
    <3>1. a \in at .. at + size - 1
      BY <1>2, <1>7, <2>2
    <3> QED  BY <1>3, <3>1
  <2> QED  BY <2>1, <2>2
<1>9. ASSUME NEW i \in 1 .. Len(todo), todo[i].op = "write"
      PROVE  /\ i # 1
             /\ \/ Erases(todo, i)
                \/ \A a \in Base .. todo[i].end - 1 : flash'[todo[i].chip][a] = Blank
  <2>1. i # 1
    BY <1>2, <1>4, <1>9
  <2>2. todo[i].chip \in Chip /\ \A a \in Base .. todo[i].end - 1 : a \in AllCells
    BY <1>2, CellsOfJobs
  <2> QED  BY <1>5, <1>6, <1>9, <2>1, <2>2
<1>10. CASE todo' = todo /\ at' = at + size
  <2>1. Job' = Job
    BY <1>10 DEF Job
  <2>2. \A i \in 1 .. Len(todo') : todo'[i].op = "write" =>
          \/ Erases(todo', i)
          \/ \A a \in (IF i = 1 THEN at' ELSE Base) .. todo'[i].end - 1 :
               flash'[todo'[i].chip][a] = Blank
    BY <1>9, <1>10, Zenon
  <2>3. \A a \in Base .. at' - 1 : flash'[Job'.chip][a] = Blank
    <3> TAKE a \in Base .. at' - 1
    <3>1. a \in Base .. at + size - 1
      BY <1>2, <1>7, <1>10
    <3>2. flash'[Job.chip][a] = Blank
      BY <1>8, <3>1
    <3> QED  BY <2>1, <3>2
  <2> QED  BY <2>2, <2>3
<1>11. CASE todo' = Tail(todo) /\ at' = Base /\ at + size = Job.end
  <2>1. /\ \A i \in 1 .. Len(todo') : todo'[i] = todo[i + 1] /\ i + 1 \in 1 .. Len(todo)
        /\ Len(todo') \in Nat
    BY <1>2, <1>11, TailShape DEF Ordered, Fits
  <2>2. \A a \in Base .. at' - 1 : FALSE
    BY <1>7, <1>11
  <2>3. ASSUME NEW i \in 1 .. Len(todo'), todo'[i].op = "write", Erases(todo, i + 1)
        PROVE  \/ Erases(todo', i)
               \/ \A a \in Base .. todo'[i].end - 1 : flash'[todo'[i].chip][a] = Blank
    <3>1. PICK j \in 1 .. i + 1 - 1 :
            todo[j] = [op |-> "erase", chip |-> todo[i + 1].chip, end |-> todo[i + 1].end]
      BY <2>3 DEF Erases
    <3>2. CASE j = 1
      <4>1. Job.chip = todo'[i].chip /\ Job.end = todo'[i].end
        BY <1>4, <2>1, <3>1, <3>2
      <4>2. at + size = todo'[i].end
        BY <1>11, <4>1
      <4>3. \A a \in Base .. todo'[i].end - 1 : flash'[todo'[i].chip][a] = Blank
        <5> TAKE a \in Base .. todo'[i].end - 1
        <5>1. a \in Base .. at + size - 1
          BY <1>2, <1>7, <4>2
        <5>2. flash'[Job.chip][a] = Blank
          BY <1>8, <5>1
        <5> QED  BY <4>1, <5>2
      <4> QED  BY <4>3
    <3>3. CASE j # 1
      <4>1. j - 1 \in 1 .. i - 1 /\ j - 1 \in 1 .. Len(todo') /\ j - 1 + 1 = j
        BY <2>1, <3>1, <3>3
      <4>2. todo'[j - 1] = todo[j - 1 + 1]
        BY <2>1, <4>1
      <4>3. todo'[j - 1] = [op |-> "erase", chip |-> todo'[i].chip, end |-> todo'[i].end]
        BY <2>1, <3>1, <4>1, <4>2
      <4> QED  BY <4>1, <4>3 DEF Erases
    <3> QED  BY <3>2, <3>3
  <2>4. ASSUME NEW i \in 1 .. Len(todo'), todo'[i].op = "write"
        PROVE  \/ Erases(todo', i)
               \/ \A a \in Base .. todo'[i].end - 1 : flash'[todo'[i].chip][a] = Blank
    BY <1>9, <2>1, <2>3, <2>4
  <2> QED  BY <1>11, <2>2, <2>4
<1> QED
  <2>1. CASE at' = at + size /\ UNCHANGED <<todo, start, outcome>>
    BY <1>10, <2>1
  <2>2. CASE at + size = StepEnd /\ NextStep
    <3>1. \/ todo' = todo /\ at' = StepEnd
          \/ todo' = Tail(todo) /\ at' = Base /\ StepEnd = Job.end
      BY <1>2, <2>2, EndsJob
    <3> QED  BY <1>10, <1>11, <2>2, <3>1
  <2> QED  BY <1>3, <2>1, <2>2

\* A chip is written once.
LEMMA WriteOfAnother ==
  ASSUME Planning, todo # << >>, Job.op = "write"
  PROVE  \A i \in 1 .. Len(todo) :
           todo[i].op = "write" /\ (i # 1 => todo[i].chip # Job.chip)
<1>1. /\ 1 \in 1 .. Len(todo) /\ Job = todo[1] /\ Len(todo) \in Nat
      /\ WritesLast(todo) /\ WrittenOnce(todo)
  BY JobShape DEF Planning, Ordered
<1>2. TAKE i \in 1 .. Len(todo)
<1>3. todo[i].op = "write"
  <2>1. CASE i = 1
    BY <1>1, <2>1
  <2>2. CASE i # 1
    <3>1. 1 < i
      BY <1>1, <2>2
    <3> QED  BY <1>1, <3>1 DEF WritesLast
  <2> QED  BY <2>1, <2>2
<1>4. todo[i].chip = todo[1].chip => i = 1
  BY <1>1, <1>3 DEF WrittenOnce
<1> QED  BY <1>1, <1>3, <1>4

LEMMA ProgramKeepsErased ==
  ASSUME FlashInv, Program
  PROVE  ErasedSoFar'
<1> SUFFICES ASSUME outcome' = "busy", faults' = 0
             PROVE  /\ \A i \in 1 .. Len(todo') : todo'[i].op = "write" =>
                         \/ Erases(todo', i)
                         \/ \A a \in (IF i = 1 THEN at' ELSE Base) .. todo'[i].end - 1 :
                              flash'[todo'[i].chip][a] = Blank
                    /\ Job'.op # "erase"
  <2>1. Kept
    BY ProgramStep
  <2>2. Base' = Base
    BY <2>1, SameSegment
  <2> QED  BY <2>2 DEF ErasedSoFar, BlankOn, Erases
<1>1. /\ Busy("write") /\ PageEnd \in Nat /\ at <= PageEnd /\ PageEnd <= StepEnd
      /\ Changed(at .. PageEnd - 1) /\ at' = PageEnd /\ todo' = todo /\ faults = 0
  BY ProgramStep DEF Fail
<1>2. /\ Basics /\ Planning /\ Position /\ outcome = "busy" /\ Ordered(todo) /\ todo # << >>
      /\ Job.op = "write" /\ at \in Nat /\ start \in Nat /\ Base <= start /\ start <= at
  BY <1>1 DEF FlashInv, Busy, Planning, Basics, Position
<1>3. /\ 1 \in 1 .. Len(todo) /\ Job = todo[1] /\ Len(todo) \in Nat
  BY <1>2, JobShape
<1>4. \A i \in 1 .. Len(todo) : todo[i].op = "write" =>
           \/ Erases(todo, i)
           \/ \A a \in (IF i = 1 THEN at ELSE Base) .. todo[i].end - 1 :
                flash[todo[i].chip][a] = Blank
  BY <1>1, <1>2 DEF FlashInv, ErasedSoFar, BlankOn
<1>5. \A c \in Chip : \A a \in AllCells :
        flash'[c][a] # flash[c][a] => c = Job.chip /\ a \in at .. PageEnd - 1
  BY <1>1 DEF Changed
<1>6. Base \in Nat
  BY <1>2, <1>3, CellsOfJobs
<1>7. ASSUME NEW i \in 1 .. Len(todo)
      PROVE  \/ Erases(todo, i)
             \/ \A a \in (IF i = 1 THEN at' ELSE Base) .. todo[i].end - 1 :
                  flash'[todo[i].chip][a] = Blank
  <2>1. /\ todo[i].op = "write" /\ (i # 1 => todo[i].chip # Job.chip)
        /\ todo[i].chip \in Chip /\ todo[i].end \in Nat
        /\ \A a \in Base .. todo[i].end - 1 : a \in AllCells
    BY <1>2, WriteOfAnother, CellsOfJobs
  <2>2. CASE i = 1
    <3>1. ~Erases(todo, i)
      BY <2>2 DEF Erases
    <3>2. \A a \in at .. todo[i].end - 1 : flash[todo[i].chip][a] = Blank
      BY <1>4, <2>1, <2>2, <3>1
    <3>3. ASSUME NEW a \in PageEnd .. todo[i].end - 1 PROVE flash'[todo[i].chip][a] = Blank
      <4>1. /\ a \in at .. todo[i].end - 1 /\ a \in Base .. todo[i].end - 1
            /\ a \notin at .. PageEnd - 1
        BY <1>1, <1>2, <1>6, <2>1
      <4> QED  BY <1>5, <2>1, <3>2, <4>1
    <3> QED  BY <1>1, <2>2, <3>3
  <2>3. CASE i # 1
    <3>1. \A a \in AllCells : flash'[todo[i].chip][a] = flash[todo[i].chip][a]
      BY <1>5, <2>1, <2>3
    <3> QED  BY <1>4, <2>1, <2>3, <3>1
  <2> QED  BY <2>2, <2>3
<1>8. Job'.op # "erase"
  <2>1. Job' = Job
    BY <1>1 DEF Job
  <2> QED  BY <1>2, <2>1
<1> QED  BY <1>1, <1>7, <1>8, Zenon

LEMMA VerifyKeepsErased ==
  ASSUME FlashInv, Verify
  PROVE  ErasedSoFar'
<1> SUFFICES ASSUME outcome' = "busy", faults' = 0
             PROVE  /\ \A i \in 1 .. Len(todo') : todo'[i].op = "write" =>
                         \/ Erases(todo', i)
                         \/ \A a \in (IF i = 1 THEN at' ELSE Base) .. todo'[i].end - 1 :
                              flash'[todo'[i].chip][a] = Blank
                    /\ Job'.op = "erase" => \A a \in Base .. at' - 1 : flash'[Job'.chip][a] = Blank
  <2>1. Kept
    BY VerifyStep
  <2>2. Base' = Base
    BY <2>1, SameSegment
  <2> QED  BY <2>2 DEF ErasedSoFar, BlankOn, Erases
<1>1. Busy("write") /\ at = StepEnd /\ flash' = flash /\ NextStep /\ faults = 0
  BY VerifyStep DEF Fail
<1>2. /\ Basics /\ Planning /\ Position /\ outcome = "busy" /\ Ordered(todo) /\ todo # << >>
      /\ Job.op = "write"
  BY <1>1 DEF FlashInv, Busy, Planning
<1>3. /\ 1 \in 1 .. Len(todo) /\ Job = todo[1] /\ Len(todo) \in Nat
  BY <1>2, JobShape
<1>4. \A i \in 1 .. Len(todo) : todo[i].op = "write" =>
           \/ Erases(todo, i)
           \/ \A a \in (IF i = 1 THEN at ELSE Base) .. todo[i].end - 1 :
                flash[todo[i].chip][a] = Blank
  BY <1>1, <1>2 DEF FlashInv, ErasedSoFar, BlankOn
<1>5. CASE todo' = todo /\ at' = at
  <2>1. Job' = Job
    BY <1>5 DEF Job
  <2>2. Job'.op # "erase"
    BY <1>2, <2>1
  <2> QED  BY <1>1, <1>4, <1>5, <2>2, Zenon
<1>6. CASE todo' = Tail(todo) /\ at' = Base
  <2>1. Base \in Nat
    BY <1>2, <1>3, CellsOfJobs
  <2>2. \A a \in Base .. at' - 1 : FALSE
    BY <1>6, <2>1
  <2>3. /\ \A i \in 1 .. Len(todo') : todo'[i] = todo[i + 1] /\ i + 1 \in 1 .. Len(todo)
        /\ Len(todo') \in Nat
    BY <1>2, <1>6, TailShape DEF Ordered, Fits
  <2>4. ASSUME NEW i \in 1 .. Len(todo'), todo'[i].op = "write"
        PROVE  \/ Erases(todo', i)
               \/ \A a \in Base .. todo'[i].end - 1 : flash'[todo'[i].chip][a] = Blank
    <3>1. i + 1 \in 1 .. Len(todo) /\ todo'[i] = todo[i + 1] /\ i + 1 # 1
      BY <2>3
    <3>2. ~Erases(todo, i + 1)
      <4> SUFFICES ASSUME NEW j \in 1 .. i + 1 - 1,
                          todo[j] = [op |-> "erase", chip |-> todo[i + 1].chip,
                                     end |-> todo[i + 1].end]
                   PROVE  FALSE
        BY DEF Erases
      <4>1. j \in 1 .. Len(todo)
        BY <1>3, <3>1
      <4>2. todo[j].op = "write"
        BY <1>2, <4>1, WriteOfAnother
      <4> QED  BY <4>2
    <3>3. \A a \in Base .. todo[i + 1].end - 1 : flash[todo[i + 1].chip][a] = Blank
      BY <1>4, <2>4, <3>1, <3>2
    <3> QED  BY <1>1, <3>1, <3>3
  <2> QED  BY <1>6, <2>2, <2>4
<1> QED
  <2>1. \/ todo' = todo /\ at' = StepEnd
        \/ todo' = Tail(todo) /\ at' = Base
    BY <1>1, <1>2, EndsJob
  <2> QED  BY <1>1, <1>5, <1>6, <2>1

\* What has to be shown of a step for Verified to hold after it.
LEMMA VerifiedAfter ==
  ASSUME Kept,
         ASSUME outcome' \in {"busy", "ok"}, length > 0, NEW c \in Chip
         PROVE  /\ ~Writes(todo', c) =>
                     \A a \in Base .. ImageEnd(length) - 1 : flash'[c][a] = Wanted(c, a)
                /\ outcome' = "busy" /\ Job'.op = "write" /\ Job'.chip = c =>
                     \A a \in Base .. start' - 1 : flash'[c][a] = Wanted(c, a)
  PROVE  Verified'
<1>1. /\ Base' = Base /\ Chip' = Chip /\ ImageEnd(length)' = ImageEnd(length)
      /\ length' = length
  BY SameSegment DEF Kept
<1>2. \A c, a : Wanted(c, a)' = Wanted(c, a)
  BY SameWanted
<1> QED  BY <1>1, <1>2 DEF Verified, HoldsFile, Writes

LEMMA EraseKeepsVerified ==
  ASSUME FlashInv, Erase
  PROVE  Verified'
<1>1. /\ Busy("erase") /\ Kept
      /\ Fail \/ NextStep \/ UNCHANGED <<todo, start, outcome>>
  BY EraseStep, Zenon
<1>2. /\ Basics /\ Planning /\ Position /\ outcome = "busy" /\ Ordered(todo) /\ todo # << >>
      /\ Job.op = "erase"
  BY <1>1 DEF FlashInv, Busy, Planning
<1>3. /\ 1 \in 1 .. Len(todo) /\ Job = todo[1] /\ Len(todo) \in Nat
  BY <1>2, JobShape
<1> SUFFICES ASSUME outcome' \in {"busy", "ok"}, length > 0, NEW c \in Chip
             PROVE  /\ Writes(todo', c)
                    /\ outcome' = "busy" /\ Job'.op = "write" => start' = Base
  <2> SUFFICES ASSUME outcome' \in {"busy", "ok"}, length > 0, NEW c \in Chip
               PROVE  /\ ~Writes(todo', c) =>
                           \A a \in Base .. ImageEnd(length) - 1 : flash'[c][a] = Wanted(c, a)
                      /\ outcome' = "busy" /\ Job'.op = "write" /\ Job'.chip = c =>
                           \A a \in Base .. start' - 1 : flash'[c][a] = Wanted(c, a)
    BY <1>1, VerifiedAfter
  <2>1. Base \in Nat
    BY <1>2, <1>3, CellsOfJobs
  <2>2. \A a \in Base .. Base - 1 : FALSE
    BY <2>1
  <2> QED  BY <2>2
<1>4. Writes(todo, c)
  BY <1>2, <1>3 DEF Ordered, ErasedBefore
<1>5. CASE todo' = todo
  <2>1. Job' = Job
    BY <1>5 DEF Job
  <2> QED  BY <1>2, <1>4, <1>5, <2>1
<1>6. CASE todo' = Tail(todo) /\ start' = Base
  <2>1. PICK i \in 1 .. Len(todo) : todo[i].op = "write" /\ todo[i].chip = c
    BY <1>4 DEF Writes
  <2>2. i # 1
    BY <1>2, <1>3, <2>1
  <2>3. /\ Len(todo') = Len(todo) - 1
        /\ \A k \in 1 .. Len(todo') : todo'[k] = todo[k + 1]
    BY <1>2, <1>6, TailShape
  <2>4. i - 1 \in 1 .. Len(todo') /\ i - 1 + 1 = i
    BY <1>3, <2>1, <2>2, <2>3
  <2>5. todo'[i - 1] = todo[i]
    BY <2>3, <2>4
  <2> QED  BY <1>6, <2>1, <2>4, <2>5 DEF Writes
<1>7. todo' = todo \/ (todo' = Tail(todo) /\ start' = Base)
  <2>1. ASSUME NextStep PROVE todo' = todo \/ (todo' = Tail(todo) /\ start' = Base)
    BY <1>2, <2>1, EndsJob
  <2>2. ASSUME Fail \/ UNCHANGED <<todo, start, outcome>> PROVE todo' = todo
    BY <2>2 DEF Fail
  <2> QED  BY <1>1, <2>1, <2>2
<1> QED  BY <1>5, <1>6, <1>7

LEMMA ProgramKeepsVerified ==
  ASSUME FlashInv, Program
  PROVE  Verified'
<1>1. /\ Busy("write") /\ Kept /\ PageEnd \in Nat /\ Changed(at .. PageEnd - 1)
      /\ Fail \/ UNCHANGED <<todo, start, outcome>>
  BY ProgramStep
<1>2. /\ Basics /\ Planning /\ Position /\ outcome = "busy" /\ Ordered(todo) /\ todo # << >>
      /\ Job.op = "write" /\ at \in Nat /\ start \in Nat /\ Base <= start /\ start <= at
      /\ at <= StepEnd /\ start <= Job.end
  BY <1>1 DEF FlashInv, Busy, Planning, Basics, Position
<1>3. /\ 1 \in 1 .. Len(todo) /\ Job = todo[1] /\ Len(todo) \in Nat /\ Job.end \in Nat
      /\ Job.chip \in Chip
  BY <1>2, JobShape
<1> SUFFICES ASSUME outcome' \in {"busy", "ok"}, length > 0, NEW c \in Chip
             PROVE  /\ ~Writes(todo', c) =>
                         \A a \in Base .. ImageEnd(length) - 1 : flash'[c][a] = Wanted(c, a)
                    /\ outcome' = "busy" /\ Job'.op = "write" /\ Job'.chip = c =>
                         \A a \in Base .. start' - 1 : flash'[c][a] = Wanted(c, a)
  BY <1>1, VerifiedAfter
<1>4. todo' = todo /\ start' = start /\ outcome' = outcome
  BY <1>1 DEF Fail
<1>5. Job' = Job
  BY <1>4 DEF Job
<1>6. /\ ~Writes(todo, c) => \A a \in Base .. ImageEnd(length) - 1 : flash[c][a] = Wanted(c, a)
      /\ Job.chip = c => \A a \in Base .. start - 1 : flash[c][a] = Wanted(c, a)
  BY <1>2 DEF FlashInv, Verified, HoldsFile
<1>7. \A a \in AllCells :
        flash'[c][a] # flash[c][a] => c = Job.chip /\ a \in at .. PageEnd - 1
  BY <1>1 DEF Changed
<1>8. ASSUME ~Writes(todo, c)
      PROVE  \A a \in Base .. ImageEnd(length) - 1 : flash'[c][a] = Wanted(c, a)
  <2>1. c # Job.chip
    BY <1>2, <1>3, <1>8 DEF Writes
  <2>2. \A a \in Base .. ImageEnd(length) - 1 : a \in AllCells
    <3>1. ImageEnd(length) = Job.end
      BY <1>2, <1>3 DEF Ordered, WrittenOnce
    <3> QED  BY <1>2, <1>3, <3>1, CellsOfJobs
  <2> QED  BY <1>6, <1>7, <1>8, <2>1, <2>2
<1>9. ASSUME Job.chip = c
      PROVE  \A a \in Base .. start - 1 : flash'[c][a] = Wanted(c, a)
  <2> TAKE a \in Base .. start - 1
  <2>1. Base \in Nat /\ \A b \in Base .. Job.end - 1 : b \in AllCells
    BY <1>2, <1>3, CellsOfJobs
  <2>2. a \in Base .. Job.end - 1 /\ a \notin at .. PageEnd - 1
    BY <1>1, <1>2, <1>3, <2>1
  <2> QED  BY <1>6, <1>7, <1>9, <2>1, <2>2
<1> QED  BY <1>4, <1>5, <1>8, <1>9

LEMMA VerifyKeepsVerified ==
  ASSUME FlashInv, Verify
  PROVE  Verified'
<1>1. /\ Busy("write") /\ Kept /\ flash' = flash
      /\ Fail \/ (NextStep /\ HoldsFile(Job.chip, start, StepEnd))
  <2>1. Busy("write") /\ Kept /\ flash' = flash
    BY VerifyStep
  <2>2. Fail \/ (NextStep /\ HoldsFile(Job.chip, start, StepEnd))
    BY VerifyStep, Zenon
  <2> QED  BY <2>1, <2>2
<1>2. /\ Basics /\ Planning /\ Position /\ outcome = "busy" /\ Ordered(todo) /\ todo # << >>
      /\ Job.op = "write" /\ start \in Nat
  BY <1>1 DEF FlashInv, Busy, Planning, Basics
<1>3. /\ 1 \in 1 .. Len(todo) /\ Job = todo[1] /\ Len(todo) \in Nat
      /\ Job.chip \in Chip /\ Job.end \in Nat
  BY <1>2, JobShape
<1>4. Base \in Nat /\ StepEnd \in Nat
  BY <1>2, <1>3, CellsOfJobs, StepShape DEF StepHolds, Position
<1> SUFFICES ASSUME outcome' \in {"busy", "ok"}, length > 0, NEW c \in Chip
             PROVE  /\ ~Writes(todo', c) =>
                         \A a \in Base .. ImageEnd(length) - 1 : flash'[c][a] = Wanted(c, a)
                    /\ outcome' = "busy" /\ Job'.op = "write" /\ Job'.chip = c =>
                         \A a \in Base .. start' - 1 : flash'[c][a] = Wanted(c, a)
  BY <1>1, VerifiedAfter
<1>5. NextStep /\ \A a \in start .. StepEnd - 1 : flash[Job.chip][a] = Wanted(Job.chip, a)
  BY <1>1 DEF Fail, HoldsFile
<1>6. /\ ~Writes(todo, c) => \A a \in Base .. ImageEnd(length) - 1 : flash[c][a] = Wanted(c, a)
      /\ Job.chip = c => \A a \in Base .. start - 1 : flash[c][a] = Wanted(c, a)
  BY <1>2 DEF FlashInv, Verified, HoldsFile
<1>7. ASSUME Job.chip = c
      PROVE  \A a \in Base .. StepEnd - 1 : flash'[c][a] = Wanted(c, a)
  <2> TAKE a \in Base .. StepEnd - 1
  <2>1. a \in Base .. start - 1 \/ a \in start .. StepEnd - 1
    BY <1>2, <1>4
  <2> QED  BY <1>1, <1>5, <1>6, <1>7, <2>1
<1>8. CASE todo' = todo /\ start' = StepEnd
  <2>1. Job' = Job
    BY <1>8 DEF Job
  <2> QED  BY <1>1, <1>6, <1>7, <1>8, <2>1
<1>9. CASE todo' = Tail(todo) /\ start' = Base /\ StepEnd = Job.end
  <2>1. ImageEnd(length) = Job.end
    BY <1>2, <1>3 DEF Ordered, WrittenOnce
  <2>2. \A a \in Base .. start' - 1 : FALSE
    BY <1>4, <1>9
  <2>3. /\ Len(todo') = Len(todo) - 1
        /\ \A k \in 1 .. Len(todo') : todo'[k] = todo[k + 1]
    BY <1>2, <1>9, TailShape
  <2>4. ASSUME ~Writes(todo', c), c # Job.chip PROVE ~Writes(todo, c)
    <3> SUFFICES ASSUME NEW i \in 1 .. Len(todo), todo[i].op = "write", todo[i].chip = c
                 PROVE  FALSE
      BY DEF Writes
    <3>1. i # 1
      BY <1>3, <2>4
    <3>2. i - 1 \in 1 .. Len(todo') /\ i - 1 + 1 = i
      BY <1>3, <2>3, <3>1
    <3>3. todo'[i - 1] = todo[i]
      BY <2>3, <3>2
    <3> QED  BY <2>4, <3>2, <3>3 DEF Writes
  <2>5. c = Job.chip => \A a \in Base .. ImageEnd(length) - 1 : flash'[c][a] = Wanted(c, a)
    BY <1>7, <1>9, <2>1
  <2>6. ~Writes(todo', c) =>
          \A a \in Base .. ImageEnd(length) - 1 : flash'[c][a] = Wanted(c, a)
    BY <1>1, <1>6, <2>4, <2>5
  <2> QED  BY <2>2, <2>6
<1> QED
  <2>1. \/ todo' = todo /\ start' = StepEnd
        \/ todo' = Tail(todo) /\ start' = Base /\ StepEnd = Job.end
    BY <1>2, <1>5, EndsJob
  <2> QED  BY <1>8, <1>9, <2>1

LEMMA NothingHappens ==
  ASSUME FlashInv, Kept, UNCHANGED <<flash, todo, start, at>>,
         \/ UNCHANGED <<outcome, faults>>
         \/ outcome' = "killed" /\ faults' = faults + 1
  PROVE  FlashInv'
<1>1. /\ Base' = Base /\ Chip' = Chip /\ Given' = Given /\ SegmentSize' = SegmentSize
      /\ ImageEnd(length)' = ImageEnd(length) /\ length' = length
      /\ flash' = flash /\ todo' = todo /\ start' = start /\ at' = at
  BY SameSegment DEF Kept
<1>2. Job' = Job /\ StepEnd' = StepEnd
  BY <1>1 DEF Job, StepEnd
<1>3. faults \in Nat /\ faults' \in Nat
  BY DEF FlashInv, Basics
<1>4. Basics'
  BY <1>1, <1>3 DEF FlashInv, Basics
<1>5. Filled'
  BY <1>1 DEF FlashInv, Filled, AllCells
<1>6. Planning'
  <2>1. Ordered(todo)'
    BY <1>1, StaysOrdered DEF FlashInv, Planning
  <2> QED  BY <1>1, <2>1 DEF FlashInv, Planning
<1>7. Position'
  BY <1>1, <1>2 DEF FlashInv, Position
<1>8. ErasedSoFar'
  BY <1>1, <1>2 DEF FlashInv, ErasedSoFar, BlankOn, Erases
<1>9. Verified'
  <2> SUFFICES ASSUME outcome' \in {"busy", "ok"}, length > 0, NEW c \in Chip
               PROVE  /\ ~Writes(todo', c) =>
                           \A a \in Base .. ImageEnd(length) - 1 : flash'[c][a] = Wanted(c, a)
                      /\ outcome' = "busy" /\ Job'.op = "write" /\ Job'.chip = c =>
                           \A a \in Base .. start' - 1 : flash'[c][a] = Wanted(c, a)
    BY VerifiedAfter
  <2>1. outcome' = outcome
    OBVIOUS
  <2> QED  BY <1>1, <1>2, <2>1 DEF FlashInv, Verified, HoldsFile
<1> QED  BY <1>4, <1>5, <1>6, <1>7, <1>8, <1>9 DEF FlashInv

\* A run begins with a plan that keeps to the segment.
StartHolds ==
  \A erase \in BOOLEAN :
    /\ Basics /\ (length > 0 \/ erase)
    /\ todo = Erasing(erase) \o Writing(length) /\ start = Base /\ at = Base /\ outcome = "busy"
    => Planning /\ Position /\ ErasedSoFar /\ Verified

LEMMA StartShape == StartHolds
<1> SUFFICES ASSUME NEW erase \in BOOLEAN,
                    Basics, length > 0 \/ erase,
                    todo = Erasing(erase) \o Writing(length),
                    start = Base, at = Base, outcome = "busy"
             PROVE  Planning /\ Position /\ ErasedSoFar /\ Verified
  BY DEF StartHolds
<1>1. Planned(todo)
  BY PlanShape DEF Basics
<1>2. /\ Ordered(todo) /\ todo # << >>
      /\ \A i \in 1 .. Len(todo) : todo[i].op = "write" => Erases(todo, i)
      /\ length > 0 => \A c \in Chip : Writes(todo, c)
  BY <1>1, Zenon DEF Planned
<1>3. /\ Base \in Nat /\ Job.end \in Nat /\ Base <= Job.end /\ start = Base /\ at = Base
      /\ start \in Nat
  BY <1>2, JobShape, SegmentShape DEF Basics
<1>4. start <= StepEnd
  BY <1>3, StepShape DEF StepHolds
<1>5. \A a \in Base .. Base - 1 : FALSE
  BY <1>3
<1>6. outcome = "busy" /\ outcome # "ok"
  OBVIOUS
<1>7. Planning /\ Position
  BY <1>2, <1>3, <1>4, <1>6 DEF Planning, Position
<1>8. ErasedSoFar
  BY <1>2, <1>3, <1>5 DEF ErasedSoFar, BlankOn
<1>9. Verified
  BY <1>2, <1>3, <1>5 DEF Verified, HoldsFile
<1> QED  BY <1>7, <1>8, <1>9

LEMMA BaseShape == Given => Base \in Nat
BY SegmentShape

LEMMA StartKeeps ==
  ASSUME FlashInv, NEW s \in 0 .. board.configuration - 1, NEW e \in BOOLEAN,
         NEW n \in Length \cup {0}, Start(s, e, n)
  PROVE  FlashInv'
<1>1. /\ board' = board /\ flash' = flash /\ faults' = faults /\ slot' = s /\ length' = n
      /\ n > 0 => n > Header /\ n <= SegmentSize'
      /\ todo' = (Erasing(e) \o Writing(length))' /\ start' = Base' /\ at' = Base'
      /\ outcome' = "busy"
  BY Zenon DEF Start
<1>2. length' > 0 \/ e
  BY Zenon DEF Start
<1>3. n \in Nat
  BY SizesAssumption
<1>4. Given'
  BY <1>1 DEF FlashInv, Basics, Given
<1>5. (Given => Base \in Nat)'
  BY BaseShape, PTL
<1>6. Basics'
  BY <1>1, <1>3, <1>4, <1>5 DEF FlashInv, Basics
<1>7. Filled'
  BY <1>1 DEF FlashInv, Filled, AllCells, Chip
<1>8. StartHolds'
  BY StartShape, PTL
<1>9. Planning' /\ Position' /\ ErasedSoFar' /\ Verified'
  BY <1>1, <1>2, <1>6, <1>8, Zenon DEF StartHolds
<1> QED  BY <1>6, <1>7, <1>9 DEF FlashInv

LEMMA EraseKeeps ==
  ASSUME FlashInv, Erase
  PROVE  FlashInv'
<1>1. PICK size \in Nat :
        /\ at + size <= StepEnd
        /\ Changed(at .. at + size - 1)
        /\ Fail \/ NextStep \/ (at' = at + size /\ UNCHANGED <<todo, start, outcome>>)
  BY EraseStep, Zenon
<1>2. Busy("erase") /\ Kept /\ faults' \in Nat
  BY EraseStep
<1>3. Basics /\ Planning /\ Position /\ outcome = "busy" /\ at \in Nat
  BY <1>2 DEF FlashInv, Basics, Busy
<1>4. Filled'
  BY <1>1 DEF Changed
<1>5. ASSUME at' = at + size, UNCHANGED <<todo, start, outcome>> PROVE Forward
  BY <1>1, <1>3, <1>5 DEF Forward
<1>6. Fail \/ Forward \/ NextStep
  BY <1>1, <1>5
<1>7. Basics' /\ Planning' /\ Position'
  BY <1>2, <1>3, <1>6, Moves
<1> QED  BY <1>4, <1>7, EraseKeepsErased, EraseKeepsVerified DEF FlashInv

LEMMA ProgramKeeps ==
  ASSUME FlashInv, Program
  PROVE  FlashInv'
<1>1. /\ PageEnd \in Nat /\ at <= PageEnd /\ PageEnd <= StepEnd
      /\ Changed(at .. PageEnd - 1)
      /\ Fail \/ (at' = PageEnd /\ UNCHANGED <<todo, start, outcome>>)
  BY ProgramStep
<1>2. Busy("write") /\ Kept /\ faults' \in Nat
  BY ProgramStep
<1>3. Basics /\ Planning /\ Position /\ outcome = "busy"
  BY <1>2 DEF FlashInv, Busy
<1>4. Filled'
  BY <1>1 DEF Changed
<1>5. ASSUME at' = PageEnd, UNCHANGED <<todo, start, outcome>> PROVE Forward
  BY <1>1, <1>5 DEF Forward
<1>6. Basics' /\ Planning' /\ Position'
  BY <1>1, <1>2, <1>3, <1>5, Moves
<1> QED  BY <1>4, <1>6, ProgramKeepsErased, ProgramKeepsVerified DEF FlashInv

LEMMA VerifyKeeps ==
  ASSUME FlashInv, Verify
  PROVE  FlashInv'
<1>1. Busy("write") /\ Kept /\ faults' \in Nat /\ Changed({})
  BY VerifyStep
<1>2. Fail \/ NextStep
  BY VerifyStep, Zenon
<1>3. Basics /\ Planning /\ Position /\ outcome = "busy"
  BY <1>1 DEF FlashInv, Busy
<1>4. Filled'
  BY <1>1 DEF Changed
<1>5. Basics' /\ Planning' /\ Position'
  BY <1>1, <1>2, <1>3, Moves
<1> QED  BY <1>4, <1>5, VerifyKeepsErased, VerifyKeepsVerified DEF FlashInv

LEMMA Invariance == Spec => []FlashInv
<1>1. Init => FlashInv
  <2> SUFFICES ASSUME Init PROVE FlashInv
    OBVIOUS
  <2> USE DEF Init
  <2>1. Given
    BY BoardAssumption DEF Given
  <2>2. Basics
    BY <2>1 DEF Basics
  <2>3. Filled
    BY DEF Filled
  <2>4. Ordered(todo)
    BY DEF Ordered, Fits, WritesLast, WrittenOnce, ErasedBefore
  <2> QED  BY <2>2, <2>3, <2>4 DEF FlashInv, Planning, Position, ErasedSoFar, Verified
<1>2. FlashInv /\ [Next]_vars => FlashInv'
  <2> SUFFICES ASSUME FlashInv, [Next]_vars PROVE FlashInv'
    OBVIOUS
  <2>1. CASE Request
    BY <2>1, StartKeeps DEF Request
  <2>2. CASE Erase
    BY <2>2, EraseKeeps
  <2>3. CASE Program
    BY <2>3, ProgramKeeps
  <2>4. CASE Verify
    BY <2>4, VerifyKeeps
  <2>5. CASE Kill
    BY <2>5, NothingHappens DEF Kill, Kept, Fault
  <2>6. CASE UNCHANGED vars
    BY <2>6, NothingHappens DEF vars, Kept
  <2> QED  BY <2>1, <2>2, <2>3, <2>4, <2>5, <2>6 DEF Next
<1> QED  BY <1>1, <1>2, PTL DEF Spec

-------------------------------------------------------------------------------
(* The properties.                                                         *)

\* Whatever fails, and wherever the tool is killed, mqnic-fw changes no cell outside the
\* segment it was given: no block it erases and no page it programs (spi_flash_erase,
\* bpi_flash_erase, spi_flash_write, bpi_flash_write) reaches past the segment.
THEOREM SegmentsAreKept == Spec => OtherSegmentsAreKept
<1> DEFINE Outside(c, a) == a \in AllCells \ (Base .. Base + Room - 1)
           Keeps == \A c \in Chip : \A a \in AllCells \ (Base .. Base + Room - 1) :
                      flash'[c][a] = flash[c][a]
<1>1. ASSUME FlashInv, outcome = "busy",
             NEW cells, \A a \in cells : a \in at .. StepEnd - 1, Changed(cells)
      PROVE  Keeps
  <2>1. /\ Basics /\ Ordered(todo) /\ todo # << >> /\ start \in Nat /\ at \in Nat
        /\ Base <= start /\ start <= at /\ start <= Job.end
    BY <1>1 DEF FlashInv, Basics, Planning, Position
  <2>2. Base \in Nat /\ Room \in Nat /\ Job.end \in Nat /\ Job.end <= Base + Room
    BY <2>1, JobShape, SegmentShape DEF Basics
  <2>3. StepEnd \in Nat /\ StepEnd <= Job.end
    BY <2>1, <2>2, StepShape DEF StepHolds
  <2>4. \A a \in cells : a \in Base .. Base + Room - 1
    BY <1>1, <2>1, <2>2, <2>3
  <2> QED  BY <1>1, <2>4 DEF Changed
<1>2. FlashInv /\ outcome = "busy" => StepEnd \in Nat
  <2> SUFFICES ASSUME FlashInv, outcome = "busy" PROVE StepEnd \in Nat
    OBVIOUS
  <2>1. Ordered(todo) /\ todo # << >> /\ start \in Nat /\ start <= Job.end
    BY DEF FlashInv, Basics, Planning, Position
  <2> QED  BY <2>1, JobShape, StepShape DEF StepHolds
<1>3. FlashInv /\ [Next]_vars => [Keeps]_vars
  <2> SUFFICES ASSUME FlashInv, [Next]_vars PROVE [Keeps]_vars
    OBVIOUS
  <2>1. CASE Request
    BY <2>1 DEF Request, Start
  <2>2. CASE Erase
    <3>1. PICK size \in Nat : at + size <= StepEnd /\ Changed(at .. at + size - 1)
      BY <2>2, EraseStep, Zenon
    <3>2. outcome = "busy"
      BY <2>2 DEF Erase, Busy
    <3>3. StepEnd \in Nat
      BY <1>2, <3>2
    <3>4. \A a \in at .. at + size - 1 : a \in at .. StepEnd - 1
      BY <3>1, <3>3 DEF FlashInv, Basics
    <3> QED  BY <1>1, <3>1, <3>2, <3>4, Zenon
  <2>3. CASE Program
    <3>1. PageEnd \in Nat /\ PageEnd <= StepEnd /\ Changed(at .. PageEnd - 1)
      BY <2>3, ProgramStep
    <3>2. outcome = "busy"
      BY <2>3 DEF Program, Busy
    <3>3. StepEnd \in Nat
      BY <1>2, <3>2
    <3>4. \A a \in at .. PageEnd - 1 : a \in at .. StepEnd - 1
      BY <3>1, <3>3 DEF FlashInv, Basics
    <3> QED  BY <1>1, <3>1, <3>2, <3>4, Zenon
  <2>4. CASE Verify
    BY <2>4 DEF Verify
  <2>5. CASE Kill
    BY <2>5 DEF Kill
  <2>6. CASE UNCHANGED vars
    BY <2>6
  <2> QED  BY <2>1, <2>2, <2>3, <2>4, <2>5, <2>6 DEF Next
<1> QED  BY <1>3, Invariance, PTL DEF Spec, OtherSegmentsAreKept

\* As long as nothing fails, every page that spi_flash_write or bpi_flash_write programs
\* is blank: the erase that the tool does first covers all that it writes.
THEOREM ErasedWhenProgrammed == Spec => OnlyErasedIsProgrammed
<1> DEFINE OnBlank == Program /\ faults' = 0 =>
                        \A a \in at .. PageEnd - 1 : flash[Job.chip][a] = Blank
<1>1. FlashInv /\ [Next]_vars => [OnBlank]_vars
  <2> SUFFICES ASSUME FlashInv, Program, faults' = 0, NEW a \in at .. PageEnd - 1
               PROVE  flash[Job.chip][a] = Blank
    OBVIOUS
  <2>1. /\ Busy("write") /\ PageEnd \in Nat /\ PageEnd <= StepEnd /\ faults = 0
    BY ProgramStep
  <2>2. /\ outcome = "busy" /\ Job.op = "write" /\ Ordered(todo) /\ todo # << >>
        /\ start \in Nat /\ at \in Nat /\ start <= Job.end
    BY <2>1 DEF FlashInv, Basics, Planning, Position, Busy
  <2>3. 1 \in 1 .. Len(todo) /\ Job = todo[1] /\ Job.end \in Nat
    BY <2>2, JobShape
  <2>4. ~Erases(todo, 1)
    BY DEF Erases
  <2>5. \A b \in at .. Job.end - 1 : flash[Job.chip][b] = Blank
    BY <2>1, <2>2, <2>3, <2>4 DEF FlashInv, ErasedSoFar, BlankOn
  <2>6. StepEnd \in Nat /\ StepEnd <= Job.end
    BY <2>2, <2>3, StepShape DEF StepHolds
  <2>7. a \in at .. Job.end - 1
    BY <2>1, <2>2, <2>3, <2>6
  <2> QED  BY <2>5, <2>7
<1> QED  BY <1>1, Invariance, PTL DEF Spec, OnlyErasedIsProgrammed

\* Where a byte of the file lies on two chips.
LEMMA HalfShape ==
  ASSUME NEW d \in Nat, NEW q, q = d \div 2, NEW r, r = d % 2
  PROVE  q \in Nat /\ r \in {0, 1} /\ d = 2 * q + r
OBVIOUS

\* When mqnic-fw reports success, what it was given can be read from the segment, on one
\* chip and on two, whatever went wrong on the way, reported or not: the last of the four
\* comparisons decides (mqnic-fw.c, flash write and verify loops).
THEOREM ImageIsThere == Spec => []SuccessMeansImage
<1>1. FlashInv => SuccessMeansImage
  <2> SUFFICES ASSUME FlashInv, outcome = "ok", NEW k \in 0 .. length - 1, InReach(k)
               PROVE  ReadBack(k) = Byte(k)
    BY DEF SuccessMeansImage
  <2>1. /\ Given /\ length \in Nat /\ length > 0 /\ length > Header /\ length <= SegmentSize
        /\ todo = << >>
    BY DEF FlashInv, Basics, Planning
  <2>2. /\ Base \in Nat /\ Room \in Nat /\ Header \in Nat
        /\ SegmentSize = IF Dual THEN 2 * Room ELSE Room
    BY <2>1, SegmentShape, SizesAssumption
  <2>3. /\ Taken(length) \in Nat /\ ImageEnd(length) \in Nat
        /\ Base + Taken(length) <= ImageEnd(length)
    BY <2>1, ImageShape
  <2>4. \A c \in Chip : ~Writes(todo, c)
    BY <2>1 DEF Writes
  <2>5. \A c \in Chip : \A a \in Base .. ImageEnd(length) - 1 : flash[c][a] = Wanted(c, a)
    BY <2>1, <2>4 DEF FlashInv, Verified, HoldsFile
  <2>6. ASSUME NEW c \in Chip, NEW i \in Nat, i < Taken(length)
        PROVE  flash[c][Base + i] = Buffer(c, i)
    <3>1. PICK x : x = Base + i
      OBVIOUS
    <3>2. x \in Base .. ImageEnd(length) - 1 /\ x - Base = i
      BY <2>2, <2>3, <2>6, <3>1
    <3>3. flash[c][x] = Buffer(c, x - Base)
      BY <2>5, <3>2 DEF Wanted
    <3>4. Buffer(c, x - Base) = Buffer(c, i)
      BY <3>2, Zenon
    <3> QED  BY <3>1, <3>3, <3>4, Zenon
  <2>7. CASE ~Dual
    <3>1. Taken(length) = length /\ "pri" \in Chip
      BY <2>7 DEF Taken, Chip
    <3>2. flash["pri"][Base + k] = Buffer("pri", k)
      BY <2>1, <2>6, <3>1
    <3> QED  BY <2>7, <3>2 DEF ReadBack, Buffer
  <2>8. CASE Dual
    <3> DEFINE h == (length - Header) \div 2
               o == (length - Header) % 2
               q == (k - Header) \div 2
               r == (k - Header) % 2
    <3>1. h \in Nat /\ o \in {0, 1} /\ length - Header = 2 * h + o
      <4>1. length - Header \in Nat
        BY <2>1, <2>2
      <4> QED  BY <4>1, HalfShape
    <3>2. k \in Nat /\ k < 2 * Room - Header /\ k < length - o
      BY <2>1, <2>2, <2>8 DEF InReach
    <3>3. Taken(length) = IF h + Header < Room THEN h + Header ELSE Room
      BY <2>8 DEF Taken, Shorter
    <3>4. "pri" \in Chip /\ "sec" \in Chip
      BY <2>8 DEF Dual, Chip
    <3>5. CASE k < Header
      <4>1. k < Taken(length)
        <5> HIDE DEF h, o
        <5> QED  BY <2>2, <3>1, <3>2, <3>3, <3>5
      <4>2. flash["pri"][Base + k] = Buffer("pri", k)
        BY <2>6, <3>2, <3>4, <4>1
      <4> QED  BY <2>8, <3>5, <4>2 DEF ReadBack, Buffer
    <3>6. CASE ~(k < Header)
      <4>1. q \in Nat /\ r \in {0, 1} /\ k - Header = 2 * q + r
        <5>1. k - Header \in Nat
          BY <2>2, <3>2, <3>6
        <5> QED  BY <5>1, HalfShape
      <4>2. ReadBack(k) = << flash["sec"][Base + Header + q][1 + r],
                             flash["pri"][Base + Header + q][1 + r] >>
        BY <2>8, <3>6 DEF ReadBack
      <4> HIDE DEF h, o, q, r
      <4>3. Header + q \in Nat /\ Header + q < Taken(length)
        BY <2>1, <2>2, <3>1, <3>2, <3>3, <4>1
      <4>4. Base + Header + q = Base + (Header + q)
        BY <2>2, <4>1
      <4>5. /\ flash["pri"][Base + Header + q] = Buffer("pri", Header + q)
            /\ flash["sec"][Base + Header + q] = Buffer("sec", Header + q)
        BY <2>6, <3>4, <4>3, <4>4
      <4>6. ~(Header + q < Header) /\ Pair(Header + q) = Header + 2 * q
        BY <2>2, <4>1 DEF Pair
      <4>7. /\ Buffer("pri", Header + q) = << Low(Header + 2 * q), Low(Header + 2 * q + 1) >>
            /\ Buffer("sec", Header + q) = << High(Header + 2 * q), High(Header + 2 * q + 1) >>
        BY <2>8, <4>6 DEF Buffer
      <4>8. CASE r = 0
        <5>1. k = Header + 2 * q /\ 1 + r = 1
          BY <2>2, <3>2, <4>1, <4>8
        <5> QED  BY <4>2, <4>5, <4>7, <5>1 DEF Byte
      <4>9. CASE r = 1
        <5>1. k = Header + 2 * q + 1 /\ 1 + r = 2
          BY <2>2, <3>2, <4>1, <4>9
        <5> QED  BY <4>2, <4>5, <4>7, <5>1 DEF Byte
      <4> QED  BY <4>1, <4>8, <4>9
    <3> QED  BY <3>5, <3>6
  <2> QED  BY <2>7, <2>8
<1> QED  BY <1>1, Invariance, PTL

===============================================================================
