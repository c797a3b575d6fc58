---------------------------- MODULE EventQueueProofs ----------------------------
(***************************************************************************)
(* Proofs about the notification of completions (EventQueue), for every    *)
(* number of queues, size of the completion and of the event queue, width  *)
(* of their pointers and budget of the poll: no wake-up is lost or comes   *)
(* twice, the event queue never overflows, and each step is one of the     *)
(* Notifier's.                                                             *)
(***************************************************************************)
EXTENDS EventQueue, Integers, FiniteSetTheorems, TLAPS

Ptr == 0 .. PtrMod - 1

-------------------------------------------------------------------------------
(* Queue pointers.  What they say of a queue is their place in two laps,   *)
(* which the lap's parity and the slot give, and how far they are apart.   *)

LEMMA Division ==
  ASSUME NEW N \in Nat \ {0}, NEW a \in Nat
  PROVE  a = N * (a \div N) + (a % N) /\ a % N \in 0 .. N - 1 /\ a \div N \in Nat
  BY SMT

\* Two multiples of N that are less than N apart are equal.
LEMMA Multiples ==
  ASSUME NEW N \in Nat \ {0}, NEW p \in Int, NEW q \in Int,
         N * p - N * q < N, N * q - N * p < N
  PROVE  p = q
  <1>1. CASE q < p
    <2>1. PICK d \in Nat : p = q + 1 + d
      <3>1. p - q - 1 \in Nat /\ p = q + 1 + (p - q - 1)
        BY <1>1
      <3> QED BY <3>1
    <2>2. N * p = N * q + N + N * d /\ N * d \in Nat /\ N * q \in Int
      BY <2>1
    <2> QED BY <2>2
  <1>2. CASE p < q
    <2>1. PICK d \in Nat : q = p + 1 + d
      <3>1. q - p - 1 \in Nat /\ q = p + 1 + (q - p - 1)
        BY <1>2
      <3> QED BY <3>1
    <2>2. N * q = N * p + N + N * d /\ N * d \in Nat /\ N * p \in Int
      BY <2>1
    <2> QED BY <2>2
  <1> QED BY <1>1, <1>2

LEMMA SmallMod ==
  ASSUME NEW N \in Nat \ {0}, NEW a \in Nat, a < 2 * N
  PROVE  a % N = (IF a < N THEN a ELSE a - N) /\ a \div N = (IF a < N THEN 0 ELSE 1)
  <1>1. a = N * (a \div N) + (a % N) /\ a % N \in 0 .. N - 1 /\ a \div N \in Nat
    BY Division, Zenon
  <1>2. N * 0 = 0 /\ N * 1 = N
    OBVIOUS
  <1>3. a \div N = IF a < N THEN 0 ELSE 1
    <2>1. CASE a < N
      <3>1. N * (a \div N) - N * 0 < N /\ N * 0 - N * (a \div N) < N
        BY <1>1, <1>2, <2>1
      <3> QED BY <3>1, <1>1, <2>1, Multiples
    <2>2. CASE a >= N
      <3>1. N * (a \div N) - N * 1 < N /\ N * 1 - N * (a \div N) < N
        BY <1>1, <1>2, <2>2
      <3> QED BY <3>1, <1>1, <2>2, Multiples
    <2> QED BY <2>1, <2>2
  <1>4. CASE a < N
    <2>1. a \div N = 0 BY <1>3, <1>4
    <2>2. N * (a \div N) = 0 BY <2>1, <1>2
    <2> QED BY <1>1, <1>3, <1>4, <2>2
  <1>5. CASE a >= N
    <2>1. a \div N = 1 BY <1>3, <1>5
    <2>2. N * (a \div N) = N BY <2>1, <1>2
    <2> QED BY <1>1, <1>3, <1>5, <2>2
  <1> QED BY <1>4, <1>5

LEMMA Wrap ==
  ASSUME NEW a \in Nat, a < 2 * PtrMod
  PROVE  a % PtrMod = (IF a < PtrMod THEN a ELSE a - PtrMod) /\ a % PtrMod \in Ptr
  <1>1. PtrMod \in Nat \ {0}
    BY QueueAssumption
  <1>2. a % PtrMod = IF a < PtrMod THEN a ELSE a - PtrMod
    BY <1>1, SmallMod, Zenon
  <1> QED BY <1>1, <1>2 DEF Ptr

LEMMA PlusIs ==
  ASSUME NEW p \in Ptr, NEW i \in Ptr \cup {1}
  PROVE  Plus(p, i) = (IF p + i < PtrMod THEN p + i ELSE p + i - PtrMod) /\ Plus(p, i) \in Ptr
  <1>1. PICK a \in Nat : a = p + i /\ a < 2 * PtrMod
    BY QueueAssumption DEF Ptr
  <1>2. Plus(p, i) = a % PtrMod
    BY <1>1, Zenon DEF Plus
  <1>3. a % PtrMod = (IF a < PtrMod THEN a ELSE a - PtrMod) /\ a % PtrMod \in Ptr
    BY <1>1, Wrap, Zenon
  <1> QED BY <1>1, <1>2, <1>3, QueueAssumption DEF Ptr

LEMMA MinusIs ==
  ASSUME NEW p \in Ptr, NEW q \in Ptr
  PROVE  Minus(p, q) = (IF q <= p THEN p - q ELSE p + PtrMod - q) /\ Minus(p, q) \in Ptr
  <1>1. PICK a \in Nat : a = p + PtrMod - q /\ a < 2 * PtrMod
    BY QueueAssumption DEF Ptr
  <1>2. Minus(p, q) = a % PtrMod
    BY <1>1, Zenon DEF Minus
  <1>3. a % PtrMod = (IF a < PtrMod THEN a ELSE a - PtrMod) /\ a % PtrMod \in Ptr
    BY <1>1, Wrap, Zenon
  <1> QED BY <1>1, <1>2, <1>3, QueueAssumption DEF Ptr

LEMMA MinusType ==
  ASSUME NEW p \in Ptr, NEW q \in Ptr
  PROVE  Minus(p, q) \in Nat /\ (Minus(p, q) = 0 <=> p = q)
  <1>1. Minus(p, q) = IF q <= p THEN p - q ELSE p + PtrMod - q
    BY MinusIs
  <1>2. p \in Nat /\ q \in Nat /\ p < PtrMod /\ q < PtrMod /\ PtrMod \in Nat
    BY QueueAssumption DEF Ptr
  <1> QED BY <1>1, <1>2

LEMMA Next1 ==
  ASSUME NEW p \in Ptr
  PROVE  /\ p \in Nat /\ p < PtrMod /\ PtrMod \in Nat
         /\ Plus(p, 1) = IF p = PtrMod - 1 THEN 0 ELSE p + 1
         /\ Plus(p, 1) \in Ptr
  <1>1. Plus(p, 1) = (IF p + 1 < PtrMod THEN p + 1 ELSE p + 1 - PtrMod) /\ Plus(p, 1) \in Ptr
    BY PlusIs
  <1>2. p \in Nat /\ p < PtrMod /\ PtrMod \in Nat
    BY QueueAssumption DEF Ptr
  <1> QED BY <1>1, <1>2

\* The pointers wrap after a whole number of double laps.
LEMMA Laps ==
  ASSUME NEW N \in {CqSize, EqSize}
  PROVE  /\ N \in Nat \ {0} /\ 2 * N \in Nat \ {0} /\ PtrMod \in Nat \ {0} /\ 2 * N <= PtrMod
         /\ \E m \in Nat : PtrMod = (2 * N) * m
  <1>1. N \in Nat \ {0} /\ 2 * N \in Nat \ {0} /\ PtrMod \in Nat \ {0} /\ PtrMod % (2 * N) = 0
    BY QueueAssumption
  <1>2. PICK T \in Nat \ {0} : T = 2 * N
    BY <1>1
  <1>3. PtrMod = T * (PtrMod \div T) + (PtrMod % T) /\ PtrMod \div T \in Nat
    BY <1>1, <1>2, Division, Zenon
  <1>4. PtrMod % T = 0
    BY <1>1, <1>2, Zenon
  <1>5. PtrMod = T * (PtrMod \div T)
    BY <1>3, <1>4, <1>1
  <1>6. \E m \in Nat : PtrMod = T * m
    BY <1>5, <1>3, Zenon
  <1>7. T <= PtrMod
    <2>1. PICK m \in Nat : PtrMod = T * m
      BY <1>6
    <2>2. m # 0
      BY <1>1, <2>1
    <2>3. PICK n \in Nat : m = n + 1
      <3>1. m - 1 \in Nat /\ m = (m - 1) + 1
        BY <2>2
      <3> QED BY <3>1
    <2>4. T * m = T * n + T /\ T * n \in Nat
      BY <2>3
    <2> QED BY <2>1, <2>4
  <1> QED BY <1>1, <1>2, <1>6, <1>7

LEMMA Sizes ==
  /\ CqSize \in Nat \ {0} /\ EqSize \in Nat \ {0} /\ PtrMod \in Nat \ {0}
  /\ 2 * CqSize <= PtrMod /\ 2 * EqSize <= PtrMod
  BY Laps

\* A pointer's slot, and its place in two laps.
At(p, N)    == p % N
Place(p, N) == p % (2 * N)

LEMMA PlaceIs ==
  ASSUME NEW p \in Ptr, NEW N \in {CqSize, EqSize}
  PROVE  /\ Place(p, N) \in 0 .. 2 * N - 1 /\ N \in Nat \ {0}
         /\ Place(p, N) < N => Lap(p, N) = 0 /\ At(p, N) = Place(p, N)
         /\ Place(p, N) >= N => Lap(p, N) = 1 /\ At(p, N) = Place(p, N) - N
  <1>1. N \in Nat \ {0} /\ p \in Nat
    BY Laps, QueueAssumption DEF Ptr
  <1>2. PICK T \in Nat \ {0} : T = 2 * N
    BY <1>1
  <1>3. PICK a \in Nat, r \in 0 .. T - 1 : p = T * a + r /\ r = p % T
    BY <1>1, Division, Zenon
  <1>4. PICK l \in {0, 1}, s \in 0 .. N - 1 :
          r = (IF l = 1 THEN N ELSE 0) + s /\ (l = 1 <=> N <= r)
    <2>1. CASE r < N
      <3>1. r \in 0 .. N - 1 /\ r = 0 + r
        BY <2>1, <1>1
      <3> QED BY <3>1, <2>1, <1>1
    <2>2. CASE r >= N
      <3>1. r - N \in 0 .. N - 1 /\ r = N + (r - N)
        BY <2>2, <1>1, <1>2
      <3> QED BY <3>1, <2>2, <1>1
    <2> QED BY <2>1, <2>2, <1>1, <1>2
  <1>5. p = N * (2 * a + l) + s
    <2>1. PICK x \in Nat : x = T * a
      BY <1>1, <1>2
    <2>2. x = N * (2 * a)
      BY <1>1, <1>2, <2>1
    <2>3. N * (2 * a + l) = x + N * l
      BY <1>1, <2>2
    <2>4. N * l = IF l = 1 THEN N ELSE 0
      BY <1>1
    <2>5. N * (2 * a + l) = x + IF l = 1 THEN N ELSE 0
      BY <2>3, <2>4, Zenon
    <2>6. p = x + r
      BY <1>3, <2>1, Zenon
    <2>7. p = x + (IF l = 1 THEN N ELSE 0) + s
      BY <1>1, <1>4, <2>6
    <2> QED BY <2>5, <2>7, Zenon
  <1>6. p \div N = 2 * a + l /\ p % N = s
    <2>1. PICK c \in Nat : c = 2 * a + l
      OBVIOUS
    <2>2. p = N * (p \div N) + (p % N) /\ p % N \in 0 .. N - 1 /\ p \div N \in Nat
      BY <1>1, Division, Zenon
    <2>3. p = N * c + s /\ N * c \in Int /\ N * (p \div N) \in Int
      BY <1>1, <1>5, <2>1, <2>2
    <2>4. N * c - N * (p \div N) < N /\ N * (p \div N) - N * c < N
      BY <1>1, <2>2, <2>3
    <2>5. p \div N = c
      BY <1>1, <2>1, <2>2, <2>4, Multiples
    <2>6. N * (p \div N) = N * c
      BY <2>5
    <2> QED BY <2>1, <2>2, <2>3, <2>5, <2>6, <1>1
  <1>7. Lap(p, N) = l
    <2>1. (2 * a + l) % 2 = l
      OBVIOUS
    <2> QED BY <1>6, <2>1 DEF Lap
  <1>8. Place(p, N) = r
    BY <1>2, <1>3, Zenon DEF Place
  <1>9. At(p, N) = s
    BY <1>6 DEF At
  <1> QED BY <1>1, <1>2, <1>4, <1>7, <1>8, <1>9

\* The distance of two pointers is that of their places, modulo two laps.
LEMMA Apart ==
  ASSUME NEW p \in Ptr, NEW q \in Ptr, NEW N \in {CqSize, EqSize}, Minus(p, q) < 2 * N
  PROVE  \/ Place(p, N) = Place(q, N) + Minus(p, q)
         \/ Place(p, N) = Place(q, N) + Minus(p, q) - 2 * N
  <1>1. PICK T \in Nat \ {0} : T = 2 * N
    BY Laps
  <1>2. PICK m \in Nat : PtrMod = T * m
    BY <1>1, Laps, Zenon
  <1>3. p \in Nat /\ q \in Nat
    BY QueueAssumption DEF Ptr
  <1>4. PICK a \in Nat, r \in 0 .. T - 1 : p = T * a + r /\ r = p % T
    BY <1>3, Division, Zenon
  <1>5. PICK b \in Nat, u \in 0 .. T - 1 : q = T * b + u /\ u = q % T
    BY <1>3, Division, Zenon
  <1>0. PICK x \in Int, y \in Int, z \in Int : x = T * a /\ y = T * b /\ z = T * m
    OBVIOUS
  <1>13. p = x + r /\ q = y + u
    BY <1>0, <1>4, <1>5, Zenon
  <1>14. PtrMod = z
    BY <1>0, <1>2, Zenon
  <1>6. PICK d \in Nat : d = Minus(p, q)
    BY MinusIs DEF Ptr
  <1>7. PICK e \in {0, 1} : d = (p - q) + (IF e = 1 THEN PtrMod ELSE 0)
    BY <1>3, <1>6, MinusIs, QueueAssumption
  <1>8. PICK k \in Int : T * k = u + d - r
    <2>1. CASE e = 1
      <3>1. PICK k \in Int : k = a - b + m
        OBVIOUS
      <3>2. T * k = x - y + z
        BY <3>1, <1>0
      <3>3. x - y + z = u + d - r
        BY <2>1, <1>7, <1>13, <1>14
      <3> QED BY <3>2, <3>3
    <2>2. CASE e = 0
      <3>1. PICK k \in Int : k = a - b
        OBVIOUS
      <3>2. T * k = x - y
        BY <3>1, <1>0
      <3>3. x - y = u + d - r
        BY <2>2, <1>7, <1>13
      <3> QED BY <3>2, <3>3
    <2> QED BY <2>1, <2>2
  <1>9. d < T
    BY <1>1, <1>6
  <1>10. k = 0 \/ k = 1
    <2>1. T * 0 = 0 /\ T * 1 = T
      OBVIOUS
    <2>2. CASE T * k >= T
      <3>1. T * k - T * 1 < T /\ T * 1 - T * k < T
        BY <2>1, <2>2, <1>8, <1>9
      <3> QED BY <3>1, Multiples
    <2>3. CASE T * k < T
      <3>1. T * k - T * 0 < T /\ T * 0 - T * k < T
        BY <2>1, <2>3, <1>8, <1>9
      <3> QED BY <3>1, Multiples
    <2> QED BY <2>2, <2>3
  <1>11. T * k = 0 \/ T * k = T
    BY <1>10
  <1>12. Place(p, N) = r /\ Place(q, N) = u
    BY <1>1, <1>4, <1>5, Zenon DEF Place
  <1> QED BY <1>1, <1>6, <1>8, <1>11, <1>12

\* A step of one of two pointers changes their distance by one.
LEMMA StepUp ==
  ASSUME NEW p \in Ptr, NEW q \in Ptr
  PROVE  /\ Minus(Plus(p, 1), q) = IF Minus(p, q) = PtrMod - 1 THEN 0 ELSE Minus(p, q) + 1
         /\ p # q => Minus(p, Plus(q, 1)) = Minus(p, q) - 1
         /\ PtrMod > 1
  <1>1. Minus(p, q) = IF q <= p THEN p - q ELSE p + PtrMod - q
    BY MinusIs
  <1>2. Minus(Plus(p, 1), q) = IF q <= Plus(p, 1) THEN Plus(p, 1) - q ELSE Plus(p, 1) + PtrMod - q
    BY MinusIs, Next1, Zenon
  <1>3. Minus(p, Plus(q, 1)) = IF Plus(q, 1) <= p THEN p - Plus(q, 1) ELSE p + PtrMod - Plus(q, 1)
    BY MinusIs, Next1, Zenon
  <1>4. /\ Plus(p, 1) = IF p = PtrMod - 1 THEN 0 ELSE p + 1
        /\ Plus(q, 1) = IF q = PtrMod - 1 THEN 0 ELSE q + 1
        /\ p \in Nat /\ q \in Nat /\ p < PtrMod /\ q < PtrMod /\ PtrMod \in Nat
    BY Next1, Zenon
  <1>5. PtrMod > 1
    BY Sizes
  <1> QED BY <1>1, <1>2, <1>3, <1>4, <1>5

\* Distances add up.
LEMMA Chain ==
  ASSUME NEW a \in Ptr, NEW b \in Ptr, NEW c \in Ptr
  PROVE  /\ Minus(b, a) + Minus(c, b) < PtrMod => Minus(c, a) = Minus(b, a) + Minus(c, b)
         /\ Minus(b, a) <= Minus(c, a) => Minus(c, b) = Minus(c, a) - Minus(b, a)
         /\ Minus(b, a) = Minus(c, a) => b = c
  <1>1. /\ Minus(b, a) = IF a <= b THEN b - a ELSE b + PtrMod - a
        /\ Minus(c, a) = IF a <= c THEN c - a ELSE c + PtrMod - a
        /\ Minus(c, b) = IF b <= c THEN c - b ELSE c + PtrMod - b
    BY MinusIs, Zenon
  <1>2. /\ a \in Nat /\ b \in Nat /\ c \in Nat /\ PtrMod \in Nat
        /\ a < PtrMod /\ b < PtrMod /\ c < PtrMod
    BY Next1, Zenon
  <1> QED BY <1>1, <1>2

-------------------------------------------------------------------------------
(* Slots and phase bits.                                                   *)

\* Pointers that are less than a queue's size apart have slots of their own.
LEMMA SlotsDiffer ==
  ASSUME NEW N \in {CqSize, EqSize}, NEW p \in Ptr, NEW q \in Ptr, p # q, Minus(p, q) < N
  PROVE  At(p, N) # At(q, N)
  <1>1. N \in Nat \ {0} /\ Minus(p, q) \in Nat /\ Minus(p, q) # 0 /\ Minus(p, q) < 2 * N
    <2>1. N \in Nat \ {0}
      BY Sizes
    <2> QED BY <2>1, MinusType
  <1>2. \/ Place(p, N) = Place(q, N) + Minus(p, q)
        \/ Place(p, N) = Place(q, N) + Minus(p, q) - 2 * N
    BY <1>1, Apart
  <1> QED BY <1>1, <1>2, PlaceIs

LEMMA SlotOf ==
  ASSUME NEW N \in {CqSize, EqSize}, NEW p \in Ptr
  PROVE  At(p, N) \in 0 .. N - 1 /\ Lap(p, N) \in {0, 1} /\ PhaseOf(p, N) \in {0, 1}
  BY PlaceIs DEF PhaseOf

\* The slots the NIC has written in this lap hold its phase bit, the others the last lap's.
PhaseInv(ph, w, N) ==
  \A s \in 0 .. N - 1 : ph[s] = IF s < At(w, N) THEN 1 - Lap(w, N) ELSE Lap(w, N)

\* The phase bit tells the driver whether there is an entry to read.
LEMMA PhaseTells ==
  ASSUME NEW N \in {CqSize, EqSize}, NEW ph, NEW w \in Ptr, NEW c \in Ptr,
         PhaseInv(ph, w, N), Minus(w, c) <= N
  PROVE  ph[At(c, N)] # Lap(c, N) <=> w # c
  <1>1. ph[At(c, N)] = IF At(c, N) < At(w, N) THEN 1 - Lap(w, N) ELSE Lap(w, N)
    BY SlotOf, Zenon DEF PhaseInv
  <1>2. /\ N \in Nat \ {0} /\ Minus(w, c) < 2 * N
        /\ w = c <=> Minus(w, c) = 0
        /\ Minus(w, c) \in Nat
    <2>1. N \in Nat \ {0}
      BY Sizes
    <2> QED BY <2>1, MinusType
  <1>3. \/ Place(w, N) = Place(c, N) + Minus(w, c)
        \/ Place(w, N) = Place(c, N) + Minus(w, c) - 2 * N
    BY <1>2, Apart
  <1> QED BY <1>1, <1>2, <1>3, PlaceIs

LEMMA PhaseStep ==
  ASSUME NEW N \in {CqSize, EqSize}, NEW ph \in [0 .. N - 1 -> {0, 1}], NEW w \in Ptr,
         PhaseInv(ph, w, N)
  PROVE  /\ PhaseInv([ph EXCEPT ![At(w, N)] = PhaseOf(w, N)], Plus(w, 1), N)
         /\ [ph EXCEPT ![At(w, N)] = PhaseOf(w, N)] \in [0 .. N - 1 -> {0, 1}]
  <1> DEFINE new == [ph EXCEPT ![At(w, N)] = PhaseOf(w, N)]
             v   == Plus(w, 1)
  <1>1. v \in Ptr /\ Minus(v, w) = 1 /\ N \in Nat \ {0}
    <2>1. v \in Ptr /\ N \in Nat \ {0}
      BY Next1, Sizes
    <2>2. Minus(w, w) = 0
      BY MinusType
    <2>3. Minus(v, w) = (IF Minus(w, w) = PtrMod - 1 THEN 0 ELSE Minus(w, w) + 1) /\ PtrMod > 1
      BY StepUp
    <2> HIDE DEF v
    <2> QED BY <2>1, <2>2, <2>3, Sizes
  <1>2. Place(v, N) = Place(w, N) + 1 \/ Place(v, N) = Place(w, N) + 1 - 2 * N
    <2>1. 1 < 2 * N
      BY <1>1
    <2> HIDE DEF v
    <2> QED BY <1>1, <2>1, Apart, Zenon
  <1>3. At(w, N) \in 0 .. N - 1 /\ PhaseOf(w, N) \in {0, 1}
    BY SlotOf
  <1>4. new \in [0 .. N - 1 -> {0, 1}]
    BY <1>3, Zenon
  <1>5. new[At(w, N)] = PhaseOf(w, N) /\ \A s \in 0 .. N - 1 : s # At(w, N) => new[s] = ph[s]
    BY <1>3, Zenon
  <1>6. ASSUME NEW s \in 0 .. N - 1
        PROVE  new[s] = IF s < At(v, N) THEN 1 - Lap(v, N) ELSE Lap(v, N)
    <2> HIDE DEF new, v
    <2>0. /\ Place(v, N) \in 0 .. 2 * N - 1 /\ Place(w, N) \in 0 .. 2 * N - 1
          /\ Place(v, N) < N => Lap(v, N) = 0 /\ At(v, N) = Place(v, N)
          /\ Place(v, N) >= N => Lap(v, N) = 1 /\ At(v, N) = Place(v, N) - N
          /\ Place(w, N) < N => Lap(w, N) = 0 /\ At(w, N) = Place(w, N)
          /\ Place(w, N) >= N => Lap(w, N) = 1 /\ At(w, N) = Place(w, N) - N
      BY <1>1, PlaceIs
    <2>1. ph[s] = IF s < At(w, N) THEN 1 - Lap(w, N) ELSE Lap(w, N)
      BY DEF PhaseInv
    <2>2. CASE s = At(w, N)
      <3>1. new[s] = 1 - Lap(w, N)
        BY <2>2, <1>5 DEF PhaseOf
      <3> QED BY <3>1, <2>0, <2>2, <1>1, <1>2
    <2>3. CASE s # At(w, N)
      <3>1. new[s] = ph[s]
        BY <2>3, <1>5
      <3> QED BY <3>1, <2>0, <2>1, <2>3, <1>1, <1>2
    <2> QED BY <2>2, <2>3
  <1> QED BY <1>4, <1>6 DEF PhaseInv

-------------------------------------------------------------------------------
(* The inductive invariant.                                                *)

TypeOK ==
  /\ phase \in [0 .. CqSize - 1 -> {0, 1}] /\ eqPhase \in [0 .. EqSize - 1 -> {0, 1}]
  /\ eqSource \in [0 .. EqSize - 1 -> Queue]
  /\ written \in Ptr /\ committed \in Ptr /\ released \in Ptr /\ consumed \in Ptr
  /\ eqWritten \in Ptr /\ eqCommitted \in Ptr /\ eqReleased \in Ptr /\ eqConsumed \in Ptr
  /\ armed \subseteq Queue /\ raised \subseteq Queue
  /\ poll \in [Queue -> {"off", "read", "arm"}]

\* The consumer is between the pointer it released and the entries written, and
\* these are no more than the queue holds.
CqPart ==
  /\ PhaseInv(phase, written, CqSize)
  /\ Minus(consumed, released) + Minus(written, consumed) <= CqSize
EqPart ==
  /\ PhaseInv(eqPhase, eqWritten, EqSize)
  /\ Minus(eqConsumed, eqReleased) + Minus(eqWritten, eqConsumed) <= EqSize
  /\ handler # "read" => eqReleased = eqConsumed

\* A queue is armed, or its poll over, only when all that was read is released.
ArmPart ==
  /\ Cq \in armed => committed = released /\ released = consumed
  /\ poll[Cq] # "read" => released = consumed
  /\ \A q \in Other : poll[q] # "arm"

\* The events in the event queue that have not been given back to the NIC.
InUse(k) == Minus(k, eqReleased) < Minus(eqWritten, eqReleased)
Seen(k)  == Minus(k, eqReleased) < Minus(eqConsumed, eqReleased)
Src(k)   == eqSource[At(k, EqSize)]

\* An event in use takes its queue's token, which is in the poll from the moment the
\* handler has read it, and not before.
Entries ==
  \A k \in Ptr : InUse(k) =>
    /\ Src(k) \notin armed /\ Src(k) \notin raised
    /\ poll[Src(k)] # "off" <=> Seen(k)

Distinct == \A k, l \in Ptr : InUse(k) /\ InUse(l) /\ Src(k) = Src(l) => k = l

Places ==
  \A q \in Queue :
    /\ q \in armed => q \notin raised
    /\ q \in armed \/ q \in raised => poll[q] = "off"
    /\ q \in armed \/ q \in raised \/ poll[q] # "off" \/ \E k \in Ptr : InUse(k) /\ Src(k) = q

Tokens == Entries /\ Distinct /\ Places

EqInv == TypeOK /\ CqPart /\ EqPart /\ ArmPart /\ Tokens

\* What the driver's tests of the phase bits find out.
LEMMA PendingIs ==
  ASSUME TypeOK, CqPart, EqPart
  PROVE  (Pending <=> written # consumed) /\ (EventPending <=> eqWritten # eqConsumed)
  <1>1. Minus(written, consumed) <= CqSize /\ Minus(eqWritten, eqConsumed) <= EqSize
    <2>1. /\ Minus(written, consumed) \in Nat /\ Minus(consumed, released) \in Nat
          /\ Minus(eqWritten, eqConsumed) \in Nat /\ Minus(eqConsumed, eqReleased) \in Nat
      BY MinusType DEF TypeOK
    <2> QED BY <2>1, Sizes DEF CqPart, EqPart
  <1>2. CqSize \in {CqSize, EqSize} /\ EqSize \in {CqSize, EqSize}
    OBVIOUS
  <1>3. Pending <=> written # consumed
    BY <1>1, <1>2, PhaseTells, Zenon DEF TypeOK, CqPart, Pending, At
  <1>4. EventPending <=> eqWritten # eqConsumed
    BY <1>1, <1>2, PhaseTells, Zenon DEF TypeOK, EqPart, EventPending, At
  <1> QED BY <1>3, <1>4

\* The events in use name different queues, none of them one whose event is raised.
LEMMA Room ==
  ASSUME TypeOK, EqPart, Tokens
  PROVE  EventsFindRoom
  <1> SUFFICES ASSUME NEW r \in raised
               PROVE  Minus(eqWritten, eqReleased) < EqSize
    BY DEF EventsFindRoom
  <1> DEFINE n == Minus(eqWritten, eqReleased)
             S == 0 .. n - 1
             T == Queue \ {r}
             f == [i \in S |-> Src(Plus(eqReleased, i))]
  <1>1. n \in Ptr /\ n \in Nat
    BY MinusIs, MinusType DEF TypeOK
  <1>2. IsFiniteSet(S) /\ Cardinality(S) = n
    BY <1>1, FS_Interval
  <1>3. IsFiniteSet(T) /\ Cardinality(T) < EqSize
    <2>1. IsFiniteSet(Queue) /\ Cardinality(Queue) = Cardinality(Other) + 1
      BY FS_AddElement, QueueAssumption DEF Queue
    <2>2. Cardinality(Other) \in Nat
      BY FS_CardinalityType, QueueAssumption
    <2>3. r \in Queue
      BY DEF TypeOK
    <2>4. IsFiniteSet(T) /\ Cardinality(T) = Cardinality(Queue) - 1
      BY <2>1, <2>3, FS_RemoveElement
    <2> QED BY <2>1, <2>2, <2>4, QueueAssumption
  <1>4. ASSUME NEW i \in S
        PROVE  Plus(eqReleased, i) \in Ptr /\ Minus(Plus(eqReleased, i), eqReleased) = i
    <2>0. eqReleased \in Nat /\ eqReleased < PtrMod /\ PtrMod \in Nat /\ n < PtrMod
      BY <1>1, Next1, Sizes DEF TypeOK, Ptr
    <2>1. i \in Ptr /\ i \in Nat /\ i < PtrMod
      BY <1>1, <2>0 DEF Ptr
    <2>2. /\ Plus(eqReleased, i) \in Ptr /\ eqReleased \in Ptr
          /\ Plus(eqReleased, i) = IF eqReleased + i < PtrMod THEN eqReleased + i
                                   ELSE eqReleased + i - PtrMod
      BY <2>1, PlusIs, Zenon DEF TypeOK
    <2>3. Minus(Plus(eqReleased, i), eqReleased)
            = IF eqReleased <= Plus(eqReleased, i) THEN Plus(eqReleased, i) - eqReleased
              ELSE Plus(eqReleased, i) + PtrMod - eqReleased
      BY <2>2, MinusIs, Zenon
    <2> QED BY <2>0, <2>1, <2>2, <2>3
  <1>5. ASSUME NEW i \in S
        PROVE  InUse(Plus(eqReleased, i))
    BY <1>4, <1>1 DEF InUse
  <1>6. f \in [S -> T]
    <2> SUFFICES ASSUME NEW i \in S PROVE Src(Plus(eqReleased, i)) \in T
      BY Zenon
    <2>1. Src(Plus(eqReleased, i)) \in Queue
      BY <1>4, SlotOf DEF Src, TypeOK
    <2>2. Src(Plus(eqReleased, i)) \notin raised
      BY <1>4, <1>5, Zenon DEF Tokens, Entries
    <2> QED BY <2>1, <2>2
  <1>7. ASSUME NEW i \in S, NEW j \in S, f[i] = f[j] PROVE i = j
    <2>1. Plus(eqReleased, i) = Plus(eqReleased, j)
      BY <1>4, <1>5, <1>7, Zenon DEF Tokens, Distinct
    <2> QED BY <2>1, <1>4, Zenon
  <1>8. ~(Cardinality(T) < Cardinality(S))
    <2> HIDE DEF S, T, f
    <2>1. \A i, j \in S : f[i] = f[j] => i = j
      BY <1>7
    <2> QED BY <1>2, <1>3, <1>6, <2>1, FS_PigeonHole
  <1>9. Cardinality(T) \in Nat
    BY <1>3, FS_CardinalityType
  <1> QED BY <1>1, <1>2, <1>3, <1>8, <1>9, QueueAssumption

-------------------------------------------------------------------------------
(* Each step keeps the invariant.                                          *)

\* A part whose variables do not change holds on.
LEMMA Frame ==
  ASSUME EqInv
  PROVE  /\ UNCHANGED <<phase, written, released, consumed>> => CqPart'
         /\ UNCHANGED <<eqPhase, eqWritten, eqReleased, eqConsumed, handler>> => EqPart'
         /\ UNCHANGED <<committed, released, consumed, armed, poll>> => ArmPart'
         /\ UNCHANGED <<eqSource, eqWritten, eqReleased, eqConsumed, tokenVars>> => Tokens'
  <1>1. UNCHANGED <<phase, written, released, consumed>> => CqPart'
    BY DEF EqInv, CqPart
  <1>2. UNCHANGED <<eqPhase, eqWritten, eqReleased, eqConsumed, handler>> => EqPart'
    BY DEF EqInv, EqPart
  <1>3. UNCHANGED <<committed, released, consumed, armed, poll>> => ArmPart'
    BY DEF EqInv, ArmPart
  <1>4. UNCHANGED <<eqSource, eqWritten, eqReleased, eqConsumed, tokenVars>> => Tokens'
    BY DEF EqInv, Tokens, Entries, Distinct, Places, InUse, Seen, Src, tokenVars
  <1> QED BY <1>1, <1>2, <1>3, <1>4

\* A token that is in no event moves between the arm bit, the raised events and the poll.
LEMMA Moves ==
  ASSUME EqInv, UNCHANGED <<eqSource, eqWritten, eqReleased, eqConsumed>>, NEW q \in Queue,
         \A p \in Queue \ {q} :
           /\ p \in armed' <=> p \in armed
           /\ p \in raised' <=> p \in raised
           /\ poll'[p] = poll[p],
         \/ /\ \A k \in Ptr : InUse(k) => Src(k) # q
            /\ poll'[q] = "off" /\ (q \in armed' <=> q \notin raised')
         \/ poll[q] # "off" /\ poll'[q] # "off" /\ q \notin armed' /\ q \notin raised'
  PROVE  Tokens'
  <1>0. \A k \in Ptr :
          /\ InUse(k)' <=> InUse(k)
          /\ Seen(k)' <=> Seen(k)
          /\ Src(k)' = Src(k)
          /\ Src(k) \in Queue
    BY SlotOf DEF InUse, Seen, Src, EqInv, TypeOK
  <1>1. Entries'
    <2>1. SUFFICES ASSUME NEW k \in Ptr, InUse(k)
                   PROVE  /\ Src(k) \notin armed' /\ Src(k) \notin raised'
                          /\ poll'[Src(k)] # "off" <=> Seen(k)
      BY <1>0, Zenon DEF Entries
    <2>2. /\ Src(k) \notin armed /\ Src(k) \notin raised /\ Src(k) \in Queue
          /\ poll[Src(k)] # "off" <=> Seen(k)
      BY <1>0, <2>1, Zenon DEF EqInv, Tokens, Entries
    <2>3. CASE Src(k) = q
      BY <2>1, <2>2, <2>3, Zenon
    <2>4. CASE Src(k) # q
      <3>1. Src(k) \in Queue \ {q}
        BY <2>2, <2>4, Zenon
      <3> QED BY <2>2, <3>1
    <2> QED BY <2>3, <2>4
  <1>2. Distinct'
    BY <1>0 DEF EqInv, Tokens, Distinct
  <1>3. Places'
    <2>1. SUFFICES ASSUME NEW p \in Queue
                   PROVE  /\ p \in armed' => p \notin raised'
                          /\ p \in armed' \/ p \in raised' => poll'[p] = "off"
                          /\ \/ p \in armed' \/ p \in raised' \/ poll'[p] # "off"
                             \/ \E k \in Ptr : InUse(k) /\ Src(k) = p
      BY <1>0, Zenon DEF Places
    <2>2. CASE p = q
      BY <2>2, Zenon
    <2>3. CASE p # q
      <3>1. p \in Queue \ {q}
        BY <2>3, Zenon
      <3> QED BY <3>1 DEF EqInv, Tokens, Places
    <2> QED BY <2>2, <2>3
  <1> QED BY <1>1, <1>2, <1>3 DEF Tokens

LEMMA InitHolds == Init => EqInv
  <1> SUFFICES ASSUME Init PROVE EqInv
    OBVIOUS
  <1> USE DEF Init
  <1>1. 0 \in Ptr /\ Minus(0, 0) = 0
    <2>1. 0 \in Ptr
      BY Sizes DEF Ptr
    <2> QED BY <2>1, MinusType
  <1>2. TypeOK
    BY <1>1, Zenon DEF TypeOK, Queue
  <1>3. ASSUME NEW N \in {CqSize, EqSize} PROVE PhaseInv([s \in 0 .. N - 1 |-> 0], 0, N)
    <2>1. N \in Nat \ {0}
      BY Sizes
    <2>2. 0 \div N = 0 /\ 0 % N = 0
      BY <2>1, SmallMod
    <2>3. Lap(0, N) = 0 /\ At(0, N) = 0
      BY <2>2 DEF Lap, At
    <2> QED BY <2>3 DEF PhaseInv
  <1>4. CqPart /\ EqPart
    BY <1>1, <1>3, Sizes DEF CqPart, EqPart
  <1>5. ArmPart
    BY DEF ArmPart, Queue
  <1>6. Tokens
    <2>1. \A k \in Ptr : ~InUse(k)
      BY <1>1, MinusType DEF InUse
    <2> QED BY <2>1 DEF Tokens, Entries, Distinct, Places
  <1> QED BY <1>2, <1>4, <1>5, <1>6 DEF EqInv

LEMMA WriteCompletionStep ==
  ASSUME EqInv, WriteCompletion
  PROVE  EqInv'
  <1> USE DEF WriteCompletion, eqVars, irqVars, tokenVars
  <1>1. phase' = [phase EXCEPT ![At(written, CqSize)] = PhaseOf(written, CqSize)]
    BY Zenon DEF At
  <1>2. PhaseInv(phase', written', CqSize) /\ phase' \in [0 .. CqSize - 1 -> {0, 1}]
    <2>1. CqSize \in {CqSize, EqSize} /\ written' = Plus(written, 1)
      BY Zenon
    <2>2. /\ PhaseInv(phase, written, CqSize) /\ written \in Ptr
          /\ phase \in [0 .. CqSize - 1 -> {0, 1}]
      BY Zenon DEF EqInv, TypeOK, CqPart
    <2> HIDE DEF WriteCompletion
    <2>3. /\ PhaseInv([phase EXCEPT ![At(written, CqSize)] = PhaseOf(written, CqSize)],
                      Plus(written, 1), CqSize)
          /\ [phase EXCEPT ![At(written, CqSize)] = PhaseOf(written, CqSize)]
               \in [0 .. CqSize - 1 -> {0, 1}]
      BY <2>1, <2>2, PhaseStep, Zenon
    <2> QED BY <1>1, <2>1, <2>3, Zenon
  <1>3. TypeOK'
    BY <1>2, Next1 DEF EqInv, TypeOK
  <1>4. CqPart'
    <2>1. /\ Minus(written, consumed) \in Nat /\ Minus(consumed, released) \in Nat
          /\ Minus(written', consumed) = IF Minus(written, consumed) = PtrMod - 1 THEN 0
                                         ELSE Minus(written, consumed) + 1
      BY MinusType, StepUp DEF EqInv, TypeOK
    <2>2. Minus(consumed, released) + Minus(written, consumed) < PtrMod
            => Minus(written, released) = Minus(consumed, released) + Minus(written, consumed)
      BY Chain DEF EqInv, TypeOK
    <2>3. Minus(consumed, released) + Minus(written', consumed) <= CqSize
      BY <2>1, <2>2, Sizes DEF EqInv, CqPart
    <2> QED BY <1>2, <2>3 DEF CqPart
  <1> QED BY <1>3, <1>4, Frame DEF EqInv

LEMMA CommitStep ==
  ASSUME EqInv, CommitCompletion
  PROVE  EqInv'
  <1> USE DEF CommitCompletion, eqVars, irqVars
  <1>1. TypeOK'
    BY Next1 DEF EqInv, TypeOK, Queue
  <1>2. ArmPart'
    BY DEF EqInv, ArmPart
  <1>3. Tokens'
    <2>1. CASE Cq \in armed
      <3>1. \A k \in Ptr : InUse(k) => Src(k) # Cq
        BY <2>1 DEF EqInv, Tokens, Entries
      <3>2. poll[Cq] = "off" /\ Cq \notin raised /\ Cq \in Queue
        BY <2>1, Zenon DEF EqInv, Tokens, Places, Queue
      <3>3. Cq \notin armed' /\ Cq \in raised' /\ poll' = poll
        BY <2>1
      <3>4. \A p \in Queue \ {Cq} :
              /\ p \in armed' <=> p \in armed
              /\ p \in raised' <=> p \in raised
              /\ poll'[p] = poll[p]
        OBVIOUS
      <3>5. UNCHANGED <<eqSource, eqWritten, eqReleased, eqConsumed>>
        OBVIOUS
      <3> HIDE DEF CommitCompletion
      <3> QED BY <3>1, <3>2, <3>3, <3>4, <3>5, Moves
    <2>2. CASE Cq \notin armed
      <3>1. armed' = armed /\ raised' = raised /\ poll' = poll
        BY <2>2
      <3> QED BY <3>1, Frame DEF tokenVars
    <2> QED BY <2>1, <2>2
  <1> QED BY <1>1, <1>2, <1>3, Frame DEF EqInv

LEMMA CompleteElsewhereStep ==
  ASSUME EqInv, NEW q \in Other, CompleteElsewhere(q)
  PROVE  EqInv'
  <1> USE DEF CompleteElsewhere, cqVars, eqVars, irqVars
  <1>0. q # Cq /\ q \in Queue /\ Cq \in Queue
    BY QueueAssumption DEF Queue
  <1>1. TypeOK'
    BY <1>0 DEF EqInv, TypeOK
  <1>2. ArmPart'
    BY <1>0 DEF EqInv, ArmPart
  <1>3. Tokens'
    <2>1. \A k \in Ptr : InUse(k) => Src(k) # q
      BY DEF EqInv, Tokens, Entries
    <2>2. poll[q] = "off" /\ q \notin raised
      BY <1>0, Zenon DEF EqInv, Tokens, Places
    <2>3. q \notin armed' /\ q \in raised' /\ poll' = poll
      OBVIOUS
    <2>4. \A p \in Queue \ {q} :
            /\ p \in armed' <=> p \in armed
            /\ p \in raised' <=> p \in raised
            /\ poll'[p] = poll[p]
      OBVIOUS
    <2>5. UNCHANGED <<eqSource, eqWritten, eqReleased, eqConsumed>>
      OBVIOUS
    <2> HIDE DEF CompleteElsewhere
    <2> QED BY <1>0, <2>1, <2>2, <2>3, <2>4, <2>5, Moves
  <1> QED BY <1>1, <1>2, <1>3, Frame DEF EqInv

\* The event queue's pointers, from the one given back to the one written.
LEMMA EqPointers ==
  ASSUME EqInv
  PROVE  /\ Minus(eqWritten, eqReleased)
              = Minus(eqConsumed, eqReleased) + Minus(eqWritten, eqConsumed)
         /\ Minus(eqWritten, eqReleased) <= EqSize
         /\ Minus(eqWritten, eqReleased) \in Nat /\ Minus(eqConsumed, eqReleased) \in Nat
         /\ Minus(eqWritten, eqConsumed) \in Nat
         /\ eqWritten # eqConsumed => Minus(eqWritten, eqConsumed) > 0
  <1>1. /\ Minus(eqWritten, eqReleased) \in Nat /\ Minus(eqConsumed, eqReleased) \in Nat
        /\ Minus(eqWritten, eqConsumed) \in Nat
        /\ eqWritten # eqConsumed => Minus(eqWritten, eqConsumed) # 0
    BY MinusType DEF EqInv, TypeOK
  <1>2. Minus(eqConsumed, eqReleased) + Minus(eqWritten, eqConsumed) < PtrMod
    BY <1>1, Sizes DEF EqInv, EqPart
  <1>3. Minus(eqWritten, eqReleased) = Minus(eqConsumed, eqReleased) + Minus(eqWritten, eqConsumed)
    BY <1>2, Chain DEF EqInv, TypeOK
  <1> QED BY <1>1, <1>3 DEF EqInv, EqPart

\* Entries in use have slots of their own, none of them the next one to be written.
LEMMA NextSlot ==
  ASSUME EqInv, Minus(eqWritten, eqReleased) < EqSize, NEW k \in Ptr, InUse(k)
  PROVE  At(k, EqSize) \in 0 .. EqSize - 1 /\ At(k, EqSize) # At(eqWritten, EqSize)
  <1>1. eqWritten \in Ptr /\ eqReleased \in Ptr /\ EqSize \in {CqSize, EqSize}
    BY DEF EqInv, TypeOK
  <1>2. Minus(k, eqReleased) \in Nat /\ Minus(eqWritten, eqReleased) \in Nat
    BY <1>1, MinusType
  <1>3. Minus(eqWritten, k) = Minus(eqWritten, eqReleased) - Minus(k, eqReleased)
    BY <1>1, <1>2, Chain DEF InUse
  <1>4. Minus(eqWritten, k) < EqSize /\ eqWritten # k
    BY <1>2, <1>3, Sizes DEF InUse
  <1> QED BY <1>1, <1>4, SlotsDiffer, SlotOf, Zenon

LEMMA WriteEventStep ==
  ASSUME EqInv, NEW q \in Queue, WriteEvent(q)
  PROVE  EqInv'
  <1>1. Minus(eqWritten, eqReleased) < EqSize
    BY Room DEF EqInv, EventsFindRoom, WriteEvent
  <1>2. /\ q \in raised /\ raised' = raised \ {q}
        /\ eqPhase' = [eqPhase EXCEPT ![At(eqWritten, EqSize)] = PhaseOf(eqWritten, EqSize)]
        /\ eqSource' = [eqSource EXCEPT ![At(eqWritten, EqSize)] = q]
        /\ eqWritten' = Plus(eqWritten, 1)
        /\ UNCHANGED <<cqVars, eqCommitted, eqReleased, eqConsumed, irqVars, armed, poll>>
    BY <1>1, Zenon DEF WriteEvent, At
  <1>3. UNCHANGED <<phase, written, committed, released, consumed, eqCommitted, eqReleased,
                    eqConsumed, handler, armed, poll>>
    BY <1>2 DEF cqVars, irqVars
  <1>4. /\ eqWritten \in Ptr /\ EqSize \in {CqSize, EqSize} /\ PhaseInv(eqPhase, eqWritten, EqSize)
        /\ eqPhase \in [0 .. EqSize - 1 -> {0, 1}] /\ eqSource \in [0 .. EqSize - 1 -> Queue]
        /\ At(eqWritten, EqSize) \in 0 .. EqSize - 1
    BY SlotOf DEF EqInv, TypeOK, EqPart
  <1>5. PhaseInv(eqPhase', eqWritten', EqSize) /\ eqPhase' \in [0 .. EqSize - 1 -> {0, 1}]
    <2>1. /\ PhaseInv([eqPhase EXCEPT ![At(eqWritten, EqSize)] = PhaseOf(eqWritten, EqSize)],
                      Plus(eqWritten, 1), EqSize)
          /\ [eqPhase EXCEPT ![At(eqWritten, EqSize)] = PhaseOf(eqWritten, EqSize)]
               \in [0 .. EqSize - 1 -> {0, 1}]
      BY <1>4, PhaseStep, Zenon
    <2> QED BY <1>2, <2>1, Zenon
  <1>6. eqSource' \in [0 .. EqSize - 1 -> Queue] /\ eqSource'[At(eqWritten, EqSize)] = q
        /\ \A s \in 0 .. EqSize - 1 : s # At(eqWritten, EqSize) => eqSource'[s] = eqSource[s]
    BY <1>2, <1>4, Zenon
  <1>7. eqWritten' \in Ptr
    BY <1>2, <1>4, Next1, Zenon
  <1>8. TypeOK'
    BY <1>2, <1>3, <1>5, <1>6, <1>7 DEF EqInv, TypeOK
  <1>9. /\ Minus(eqWritten', eqReleased) = Minus(eqWritten, eqReleased) + 1
        /\ Minus(eqWritten', eqConsumed) = Minus(eqWritten, eqConsumed) + 1
    <2>1. /\ Minus(eqWritten', eqReleased) = IF Minus(eqWritten, eqReleased) = PtrMod - 1 THEN 0
                                            ELSE Minus(eqWritten, eqReleased) + 1
          /\ Minus(eqWritten', eqConsumed) = IF Minus(eqWritten, eqConsumed) = PtrMod - 1 THEN 0
                                            ELSE Minus(eqWritten, eqConsumed) + 1
      BY <1>2, StepUp DEF EqInv, TypeOK
    <2> QED BY <1>1, <2>1, EqPointers, Sizes
  <1>10. EqPart'
    BY <1>1, <1>3, <1>5, <1>9, EqPointers, Sizes DEF EqInv, EqPart
  <1>11. CqPart' /\ ArmPart'
    BY <1>3, Frame
  \* The new entry, and those that were in use before.
  <1>12. \A k \in Ptr : InUse(k)' <=> InUse(k) \/ k = eqWritten
    <2> SUFFICES ASSUME NEW k \in Ptr PROVE InUse(k)' <=> InUse(k) \/ k = eqWritten
      OBVIOUS
    <2>1. /\ Minus(k, eqReleased) \in Nat
          /\ Minus(k, eqReleased) = Minus(eqWritten, eqReleased) => k = eqWritten
      BY MinusType, Chain DEF EqInv, TypeOK
    <2> QED BY <1>3, <1>9, <2>1, EqPointers DEF InUse
  <1>13. \A k \in Ptr : Seen(k)' <=> Seen(k)
    BY <1>3 DEF Seen
  <1>w. PICK w \in Ptr : w = eqWritten
    BY <1>4
  <1>14. ~Seen(w) /\ Src(w)' = q /\ InUse(w)'
    <2>1. ~Seen(w) /\ Src(w)' = q
      BY <1>6, <1>w, EqPointers DEF Seen, Src
    <2> QED BY <2>1, <1>12, <1>w
  <1>15. \A k \in Ptr : InUse(k) => Src(k)' = Src(k)
    BY <1>1, <1>6, NextSlot DEF Src
  <1>16. q \notin armed /\ poll[q] = "off"
    BY <1>2 DEF EqInv, Tokens, Places
  <1>17. \A k \in Ptr : InUse(k) => /\ Src(k) \notin armed /\ Src(k) \notin raised
                                   /\ (poll[Src(k)] # "off" <=> Seen(k))
    BY Zenon DEF EqInv, Tokens, Entries
  <1>18. \A k \in Ptr : InUse(k) => Src(k) # q
    BY <1>2, <1>17, Zenon
  <1>19. Entries'
    <2>1. SUFFICES ASSUME NEW k \in Ptr, InUse(k)'
                   PROVE  (/\ Src(k) \notin armed /\ Src(k) \notin raised
                           /\ poll[Src(k)] # "off" <=> Seen(k))'
      BY Zenon DEF Entries
    <2>2. CASE k = w
      BY <2>2, <1>2, <1>3, <1>13, <1>14, <1>16
    <2>3. CASE k # w
      <3>1. InUse(k) /\ Src(k)' = Src(k)
        BY <2>1, <2>3, <1>12, <1>15, <1>w, Zenon
      <3>2. /\ Src(k) \notin armed /\ Src(k) \notin raised
            /\ poll[Src(k)] # "off" <=> Seen(k)
        BY <3>1, <1>17, Zenon
      <3> QED BY <3>1, <3>2, <1>2, <1>3, <1>13
    <2> QED BY <2>2, <2>3
  <1>20. Distinct'
    <2>1. SUFFICES ASSUME NEW k \in Ptr, NEW l \in Ptr, InUse(k)', InUse(l)', (Src(k) = Src(l))'
                   PROVE  k = l
      BY Zenon DEF Distinct
    <2>2. CASE k = w \/ l = w
      BY <2>1, <2>2, <1>12, <1>14, <1>15, <1>18, <1>w, Zenon
    <2>3. CASE k # w /\ l # w
      BY <2>1, <2>3, <1>12, <1>15, <1>w, Zenon DEF EqInv, Tokens, Distinct
    <2> QED BY <2>2, <2>3
  <1>21. Places'
    <2>1. SUFFICES ASSUME NEW p \in Queue
                   PROVE  (/\ p \in armed => p \notin raised
                           /\ p \in armed \/ p \in raised => poll[p] = "off"
                           /\ \/ p \in armed \/ p \in raised \/ poll[p] # "off"
                              \/ \E k \in Ptr : InUse(k) /\ Src(k) = p)'
      BY Zenon DEF Places
    <2>2. CASE p = q
      <3>1. \E k \in Ptr : InUse(k)' /\ Src(k)' = q
        BY <1>14, Zenon
      <3> QED BY <2>2, <3>1, <1>2, <1>16
    <2>3. CASE p # q
      <3>1. p \in raised' <=> p \in raised
        BY <1>2, <2>3
      <3>2. (\E k \in Ptr : InUse(k) /\ Src(k) = p) => \E k \in Ptr : InUse(k)' /\ Src(k)' = p
        BY <1>12, <1>15, Zenon
      <3> QED BY <3>1, <3>2, <1>3, Zenon DEF EqInv, Tokens, Places
    <2> QED BY <2>2, <2>3
  <1> QED BY <1>8, <1>10, <1>11, <1>19, <1>20, <1>21 DEF EqInv, Tokens

LEMMA ProcessEventStep ==
  ASSUME EqInv, ProcessEvent
  PROVE  EqInv'
  <1> DEFINE q == Src(eqConsumed)
  <1>1. /\ handler = "read" /\ eqWritten # eqConsumed
        /\ poll' = [poll EXCEPT ![q] = IF poll[q] = "off" THEN "read" ELSE poll[q]]
        /\ eqConsumed' = Plus(eqConsumed, 1)
        /\ UNCHANGED <<phase, written, committed, released, consumed, eqPhase, eqSource, eqWritten,
                       eqCommitted, eqReleased, handler, armed, raised>>
    BY PendingIs, Zenon DEF ProcessEvent, EqInv, Src, At, cqVars, irqVars
  <1>2. /\ eqConsumed \in Ptr /\ q \in Queue /\ Cq \in Queue
        /\ poll \in [Queue -> {"off", "read", "arm"}]
    BY SlotOf DEF EqInv, TypeOK, Src, Queue
  <1>3. InUse(eqConsumed) /\ ~Seen(eqConsumed)
    BY <1>1, EqPointers DEF InUse, Seen
  <1>4. poll[q] = "off" /\ q \notin armed /\ q \notin raised
    BY <1>2, <1>3, Zenon DEF EqInv, Tokens, Entries
  <1>5. poll'[q] = "read" /\ \A p \in Queue : p # q => poll'[p] = poll[p]
    BY <1>1, <1>2, <1>4
  <1>6. TypeOK'
    <2>1. poll' \in [Queue -> {"off", "read", "arm"}]
      BY <1>1, <1>2
    <2>2. eqConsumed' \in Ptr
      BY <1>1, <1>2, Next1, Zenon
    <2> HIDE DEF q
    <2> QED BY <1>1, <2>1, <2>2 DEF EqInv, TypeOK
  <1>7. /\ Minus(eqConsumed', eqReleased) = Minus(eqConsumed, eqReleased) + 1
        /\ Minus(eqWritten, eqConsumed') = Minus(eqWritten, eqConsumed) - 1
    <2>1. /\ Minus(eqConsumed', eqReleased) = IF Minus(eqConsumed, eqReleased) = PtrMod - 1 THEN 0
                                             ELSE Minus(eqConsumed, eqReleased) + 1
          /\ Minus(eqWritten, eqConsumed') = Minus(eqWritten, eqConsumed) - 1
      BY <1>1, StepUp DEF EqInv, TypeOK
    <2> QED BY <1>1, <2>1, EqPointers, Sizes
  <1>8. EqPart'
    BY <1>1, <1>7, EqPointers DEF EqInv, EqPart
  <1>9. ArmPart'
    <2> HIDE DEF q
    <2>1. poll'[Cq] # "read" => poll[Cq] # "read"
      BY <1>2, <1>4, <1>5
    <2>2. \A p \in Other : poll'[p] # "arm"
      BY <1>2, <1>5 DEF EqInv, ArmPart, Queue
    <2> QED BY <1>1, <2>1, <2>2 DEF EqInv, ArmPart
  <1>10. CqPart'
    BY <1>1, Frame
  <1>11. \A k \in Ptr : /\ InUse(k)' <=> InUse(k)
                       /\ Src(k)' = Src(k)
                       /\ Src(k) \in Queue
    BY <1>1, SlotOf DEF InUse, Src, EqInv, TypeOK
  <1>12. \A k \in Ptr : Seen(k)' <=> Seen(k) \/ k = eqConsumed
    <2> SUFFICES ASSUME NEW k \in Ptr PROVE Seen(k)' <=> Seen(k) \/ k = eqConsumed
      OBVIOUS
    <2>1. /\ Minus(k, eqReleased) \in Nat
          /\ Minus(k, eqReleased) = Minus(eqConsumed, eqReleased) => k = eqConsumed
      BY MinusType, Chain DEF EqInv, TypeOK
    <2> QED BY <1>1, <1>7, <2>1, EqPointers DEF Seen
  <1>13. Entries'
    <2>1. SUFFICES ASSUME NEW k \in Ptr, InUse(k)
                   PROVE  /\ Src(k) \notin armed /\ Src(k) \notin raised
                          /\ poll'[Src(k)] # "off" <=> Seen(k)'
      BY <1>1, <1>11, Zenon DEF Entries
    <2>2. /\ Src(k) \notin armed /\ Src(k) \notin raised
          /\ poll[Src(k)] # "off" <=> Seen(k)
      BY <2>1, Zenon DEF EqInv, Tokens, Entries
    <2>3. CASE k = eqConsumed
      BY <2>2, <2>3, <1>5, <1>12
    <2>4. CASE k # eqConsumed
      <3>1. Src(k) # q /\ Src(k) \in Queue
        BY <2>1, <2>4, <1>2, <1>3, <1>11, Zenon DEF EqInv, Tokens, Distinct
      <3>2. poll'[Src(k)] = poll[Src(k)]
        BY <3>1, <1>5, Zenon
      <3> QED BY <2>2, <2>4, <3>2, <1>12
    <2> QED BY <2>3, <2>4
  <1>14. Distinct'
    BY <1>11, Zenon DEF EqInv, Tokens, Distinct
  <1>15. Places'
    <2>1. SUFFICES ASSUME NEW p \in Queue
                   PROVE  /\ p \in armed => p \notin raised
                          /\ p \in armed \/ p \in raised => poll'[p] = "off"
                          /\ \/ p \in armed \/ p \in raised \/ poll'[p] # "off"
                             \/ \E k \in Ptr : InUse(k) /\ Src(k) = p
      BY <1>1, <1>11, Zenon DEF Places
    <2>2. CASE p = q
      <3> HIDE DEF q
      <3> QED BY <2>2, <1>4, <1>5
    <2>3. CASE p # q
      <3>1. poll'[p] = poll[p]
        BY <2>3, <1>5, Zenon
      <3> QED BY <3>1, Zenon DEF EqInv, Tokens, Places
    <2> QED BY <2>2, <2>3
  <1> QED BY <1>6, <1>8, <1>9, <1>10, <1>13, <1>14, <1>15 DEF EqInv, Tokens

\* When the handler gives back what it has read, no event is left in use.
LEMMA FinishStep ==
  ASSUME EqInv, FinishEvents
  PROVE  EqInv'
  <1> USE DEF FinishEvents, cqVars, tokenVars
  <1>1. eqWritten = eqConsumed
    BY PendingIs DEF EqInv
  <1>2. eqReleased' = eqWritten' /\ eqConsumed' = eqWritten'
    BY <1>1
  <1>3. TypeOK'
    BY DEF EqInv, TypeOK
  <1>4. EqPart'
    <2>1. Minus(eqWritten, eqWritten) = 0
      BY MinusType DEF EqInv, TypeOK
    <2> QED BY <1>1, <2>1, Sizes DEF EqInv, EqPart
  <1>5. \A k \in Ptr : ~InUse(k)'
    <2>1. \A k \in Ptr : Minus(k, eqWritten) \in Nat
      BY MinusType DEF EqInv, TypeOK
    <2>2. Minus(eqWritten, eqWritten) = 0
      BY MinusType DEF EqInv, TypeOK
    <2> QED BY <1>1, <2>1, <2>2 DEF InUse
  <1>6. \A k \in Ptr : InUse(k) => poll[Src(k)] # "off"
    <2> SUFFICES ASSUME NEW k \in Ptr, InUse(k) PROVE poll[Src(k)] # "off"
      OBVIOUS
    <2>1. Seen(k)
      BY <1>1 DEF Seen, InUse
    <2> QED BY <2>1, Zenon DEF EqInv, Tokens, Entries
  <1>7. Tokens'
    <2>1. Entries' /\ Distinct'
      BY <1>5, Zenon DEF Entries, Distinct
    <2>2. ASSUME NEW p \in Queue
          PROVE  p \in armed \/ p \in raised \/ poll[p] # "off"
      BY <1>6, Zenon DEF EqInv, Tokens, Places
    <2>3. Places'
      BY <2>2 DEF EqInv, Tokens, Places
    <2> QED BY <2>1, <2>3 DEF Tokens
  <1> QED BY <1>3, <1>4, <1>7, Frame DEF EqInv

\* The steps of the interrupt that move no entry.
LEMMA InterruptStep ==
  ASSUME EqInv, TakeInterrupt \/ ArmEventQueue \/ CommitEvent
  PROVE  EqInv'
  <1>1. UNCHANGED <<cqVars, tokenVars, eqPhase, eqSource, eqWritten, eqReleased, eqConsumed>>
    BY DEF TakeInterrupt, ArmEventQueue, CommitEvent, eqVars
  <1>2. UNCHANGED <<phase, written, committed, released, consumed, armed, raised, poll>>
    BY <1>1 DEF cqVars, tokenVars
  <1>3. TypeOK'
    <2>1. eqCommitted' \in Ptr
      BY Next1 DEF TakeInterrupt, ArmEventQueue, CommitEvent, eqVars, EqInv, TypeOK
    <2> QED BY <1>1, <1>2, <2>1 DEF EqInv, TypeOK
  <1>4. EqPart'
    <2>1. handler' # "read" => handler # "read"
      BY DEF TakeInterrupt, ArmEventQueue, CommitEvent
    <2> QED BY <1>1, <2>1 DEF EqInv, EqPart
  <1>5. CqPart' /\ ArmPart' /\ Tokens'
    BY <1>1, <1>2, Frame
  <1> QED BY <1>3, <1>4, <1>5 DEF EqInv

\* A poll runs while the handler does not, and has what it read in its own hands.
LEMMA Undelayed ==
  ASSUME EqInv, NEW q \in Queue, handler = "off", poll[q] # "off"
  PROVE  /\ \A k \in Ptr : InUse(k) => Src(k) # q
         /\ q \notin armed /\ q \notin raised
  <1>1. Minus(eqConsumed, eqReleased) = 0
    BY MinusType DEF EqInv, EqPart, TypeOK
  <1>2. \A k \in Ptr : ~Seen(k)
    <2>1. \A k \in Ptr : Minus(k, eqReleased) \in Nat
      BY MinusType DEF EqInv, TypeOK
    <2> QED BY <1>1, <2>1 DEF Seen
  <1>3. \A k \in Ptr : InUse(k) => Src(k) # q
    BY <1>2, Zenon DEF EqInv, Tokens, Entries
  <1>4. q \notin armed /\ q \notin raised
    BY Zenon DEF EqInv, Tokens, Places
  <1> QED BY <1>3, <1>4

LEMMA ReadStep ==
  ASSUME EqInv, ReadCompletion
  PROVE  EqInv'
  <1> USE DEF ReadCompletion, Polling, eqVars, irqVars, tokenVars
  <1>1. written # consumed
    BY PendingIs DEF EqInv
  <1>2. TypeOK'
    BY Next1 DEF EqInv, TypeOK
  <1>3. CqPart'
    <2>1. /\ Minus(written, consumed) \in Nat /\ Minus(consumed, released) \in Nat
          /\ Minus(written, consumed) # 0
          /\ Minus(written, consumed') = Minus(written, consumed) - 1
          /\ Minus(consumed', released) = IF Minus(consumed, released) = PtrMod - 1 THEN 0
                                         ELSE Minus(consumed, released) + 1
      BY <1>1, MinusType, StepUp DEF EqInv, TypeOK
    <2> QED BY <2>1, Sizes DEF EqInv, CqPart
  <1>4. Cq \notin armed
    BY Undelayed DEF Queue
  <1>5. ArmPart'
    BY <1>4 DEF EqInv, ArmPart
  <1> QED BY <1>2, <1>3, <1>5, Frame DEF EqInv

LEMMA ReleaseStep ==
  ASSUME EqInv, ReleaseCompletions
  PROVE  EqInv'
  <1> USE DEF ReleaseCompletions, Polling, eqVars, irqVars
  <1>0. /\ Cq \in Queue /\ Cq \notin Other /\ Other \subseteq Queue
        /\ poll \in [Queue -> {"off", "read", "arm"}]
    BY QueueAssumption DEF Queue, EqInv, TypeOK
  <1>1. Cq \notin armed /\ Cq \notin raised
    BY <1>0, Undelayed
  <1>2. poll'[Cq] \in {"read", "arm"} /\ \A p \in Queue : p # Cq => poll'[p] = poll[p]
    BY <1>0
  <1>3. TypeOK'
    BY <1>0 DEF EqInv, TypeOK
  <1>4. CqPart'
    <2>1. /\ Minus(written, consumed) \in Nat /\ Minus(consumed, released) \in Nat
          /\ Minus(consumed, consumed) = 0
      BY MinusType DEF EqInv, TypeOK
    <2> QED BY <2>1, Sizes DEF EqInv, CqPart
  <1>5. ArmPart'
    BY <1>0, <1>1, <1>2 DEF EqInv, ArmPart
  <1>6. Tokens'
    <2>1. poll[Cq] # "off" /\ poll'[Cq] # "off" /\ Cq \notin armed' /\ Cq \notin raised'
      BY <1>1, <1>2
    <2>2. \A p \in Queue \ {Cq} :
            /\ p \in armed' <=> p \in armed
            /\ p \in raised' <=> p \in raised
            /\ poll'[p] = poll[p]
      BY <1>2
    <2>3. UNCHANGED <<eqSource, eqWritten, eqReleased, eqConsumed>>
      OBVIOUS
    <2> HIDE DEF ReleaseCompletions
    <2> QED BY <1>0, <2>1, <2>2, <2>3, Moves
  <1> QED BY <1>3, <1>4, <1>5, <1>6, Frame DEF EqInv

\* A poll that is over arms its queue, or finds that it must be called again.
LEMMA PollOver ==
  ASSUME EqInv, NEW q \in Queue, NEW empty \in BOOLEAN, handler = "off", poll[q] # "off",
         poll' = [poll EXCEPT ![q] = "off"], SetArm(q, empty),
         UNCHANGED <<cqVars, eqVars, irqVars>>,
         q = Cq => poll[q] = "arm" /\ (empty <=> committed = released)
  PROVE  EqInv'
  <1>0. /\ Cq \notin Other /\ Other \subseteq Queue /\ poll \in [Queue -> {"off", "read", "arm"}]
        /\ q # Cq => q \in Other
    BY QueueAssumption DEF Queue, EqInv, TypeOK
  <1>1. UNCHANGED <<phase, written, committed, released, consumed, eqPhase, eqSource, eqWritten,
                    eqCommitted, eqReleased, eqConsumed, handler>>
    BY DEF cqVars, eqVars, irqVars
  <1>2. /\ \A k \in Ptr : InUse(k) => Src(k) # q
        /\ q \notin armed /\ q \notin raised
    BY Undelayed
  <1>3. poll'[q] = "off" /\ \A p \in Queue : p # q => poll'[p] = poll[p]
    BY <1>0
  <1>4. /\ q \in armed' <=> q \notin raised'
        /\ q \in armed' <=> empty
        /\ \A p : p # q => (p \in armed' <=> p \in armed) /\ (p \in raised' <=> p \in raised)
    BY <1>2 DEF SetArm
  <1>5. TypeOK'
    <2>1. armed' \subseteq Queue /\ raised' \subseteq Queue
      BY DEF SetArm, EqInv, TypeOK
    <2>2. poll' \in [Queue -> {"off", "read", "arm"}]
      BY <1>0
    <2> QED BY <1>1, <2>1, <2>2 DEF EqInv, TypeOK
  <1>6. ArmPart'
    <2>1. CASE q = Cq
      BY <2>1, <1>0, <1>1, <1>3, <1>4 DEF EqInv, ArmPart
    <2>2. CASE q # Cq
      <3>1. poll'[Cq] = poll[Cq] /\ (Cq \in armed' <=> Cq \in armed)
        BY <2>2, <1>3, <1>4 DEF Queue
      <3>2. \A p \in Other : poll'[p] # "arm"
        BY <1>0, <1>3 DEF EqInv, ArmPart
      <3> QED BY <3>1, <3>2, <1>1 DEF EqInv, ArmPart
    <2> QED BY <2>1, <2>2
  <1>7. Tokens'
    <2>1. \A p \in Queue \ {q} :
            /\ p \in armed' <=> p \in armed
            /\ p \in raised' <=> p \in raised
            /\ poll'[p] = poll[p]
      BY <1>3, <1>4
    <2>2. UNCHANGED <<eqSource, eqWritten, eqReleased, eqConsumed>>
      BY <1>1
    <2> QED BY <1>2, <1>3, <1>4, <2>1, <2>2, Moves
  <1> QED BY <1>1, <1>5, <1>6, <1>7, Frame DEF EqInv

LEMMA EqInvHolds == Spec => []EqInv
  <1>1. EqInv /\ [Next]_vars => EqInv'
    <2> SUFFICES ASSUME EqInv, [Next]_vars PROVE EqInv'
      OBVIOUS
    <2>1. CASE UNCHANGED vars
      <3>1. UNCHANGED <<cqVars, eqVars, irqVars, tokenVars>>
        BY <2>1 DEF vars
      <3>2. TypeOK'
        BY <3>1 DEF cqVars, eqVars, irqVars, tokenVars, EqInv, TypeOK
      <3> QED BY <3>1, <3>2, Frame DEF cqVars, eqVars, irqVars, tokenVars, EqInv
    <2>2. CASE WriteCompletion \/ CommitCompletion
      BY <2>2, WriteCompletionStep, CommitStep
    <2>3. CASE CommitEvent \/ TakeInterrupt \/ ArmEventQueue
      BY <2>3, InterruptStep
    <2>4. CASE \E q \in Queue : WriteEvent(q)
      BY <2>4, WriteEventStep
    <2>5. CASE ProcessEvent \/ FinishEvents
      BY <2>5, ProcessEventStep, FinishStep
    <2>6. CASE ReadCompletion \/ ReleaseCompletions
      BY <2>6, ReadStep, ReleaseStep
    <2>7. CASE ArmQueue
      <3>1. PICK empty \in BOOLEAN : empty <=> committed = released
        OBVIOUS
      <3>2. SetArm(Cq, empty)
        BY <2>7, <3>1 DEF ArmQueue, SetArm
      <3> QED BY <2>7, <3>1, <3>2, PollOver DEF ArmQueue, Polling, Queue
    <2>8. CASE \E q \in Other : CompleteElsewhere(q)
      BY <2>8, CompleteElsewhereStep
    <2>9. CASE \E q \in Other : PollElsewhere(q)
      <3>1. PICK q \in Other : PollElsewhere(q)
        BY <2>9
      <3>2. PICK empty \in BOOLEAN : SetArm(q, empty)
        BY <3>1 DEF PollElsewhere
      <3>3. q \in Queue /\ q # Cq
        BY QueueAssumption DEF Queue
      <3> QED BY <3>1, <3>2, <3>3, PollOver DEF PollElsewhere, Polling
    <2> QED BY <2>1, <2>2, <2>3, <2>4, <2>5, <2>6, <2>7, <2>8, <2>9
            DEF Next, Nic, Interrupt, Poll, Elsewhere
  <1> QED BY InitHolds, <1>1, PTL DEF Spec

-------------------------------------------------------------------------------
(* The theorems.                                                           *)

\* The events the handler has not read are those in use that it has not seen.
LEMMA UnreadIs ==
  ASSUME EqInv
  PROVE  \A k : k \in Unread(eqWritten, eqConsumed) <=> k \in Ptr /\ InUse(k) /\ ~Seen(k)
  <1> DEFINE n == Minus(eqWritten, eqConsumed)
  <1>1. /\ eqWritten \in Ptr /\ eqConsumed \in Ptr /\ eqReleased \in Ptr
        /\ n \in Nat /\ n < PtrMod /\ PtrMod \in Nat
    <2>1. eqWritten \in Ptr /\ eqConsumed \in Ptr /\ eqReleased \in Ptr
      BY DEF EqInv, TypeOK
    <2>2. n \in Ptr
      BY <2>1, MinusIs
    <2> QED BY <2>1, <2>2, Next1
  <1>2. ASSUME NEW i \in 0 .. n - 1
        PROVE  Plus(eqConsumed, i) \in Ptr /\ Minus(Plus(eqConsumed, i), eqConsumed) = i
    <2>1. i \in Ptr /\ i \in Nat /\ i < PtrMod
      BY <1>1 DEF Ptr
    <2>2. /\ Plus(eqConsumed, i) \in Ptr
          /\ Plus(eqConsumed, i) = IF eqConsumed + i < PtrMod THEN eqConsumed + i
                                   ELSE eqConsumed + i - PtrMod
      BY <1>1, <2>1, PlusIs, Zenon
    <2>3. Minus(Plus(eqConsumed, i), eqConsumed)
            = IF eqConsumed <= Plus(eqConsumed, i) THEN Plus(eqConsumed, i) - eqConsumed
              ELSE Plus(eqConsumed, i) + PtrMod - eqConsumed
      BY <1>1, <2>2, MinusIs, Zenon
    <2>4. eqConsumed \in Nat /\ eqConsumed < PtrMod
      BY <1>1, Next1
    <2> QED BY <1>1, <2>1, <2>2, <2>3, <2>4
  <1>3. ASSUME NEW k
        PROVE  k \in Unread(eqWritten, eqConsumed) <=> k \in Ptr /\ Minus(k, eqConsumed) < n
    <2>1. ASSUME NEW i \in 0 .. n - 1, k = Plus(eqConsumed, i)
          PROVE  k \in Ptr /\ Minus(k, eqConsumed) < n
      BY <1>1, <1>2, <2>1
    <2>2. ASSUME k \in Ptr, Minus(k, eqConsumed) < n
          PROVE  \E i \in 0 .. n - 1 : k = Plus(eqConsumed, i)
      <3>1. Minus(k, eqConsumed) \in 0 .. n - 1
        BY <1>1, <2>2, MinusType
      <3>2. k = Plus(eqConsumed, Minus(k, eqConsumed))
        BY <1>1, <1>2, <2>2, <3>1, Chain
      <3> QED BY <3>1, <3>2
    <2> QED BY <2>1, <2>2 DEF Unread
  <1>4. ASSUME NEW k \in Ptr
        PROVE  Minus(k, eqConsumed) < n <=> InUse(k) /\ ~Seen(k)
    <2>1. /\ Minus(k, eqReleased) \in Nat /\ Minus(k, eqConsumed) \in Nat
          /\ Minus(eqConsumed, eqReleased) + Minus(k, eqConsumed) < PtrMod
               => Minus(k, eqReleased) = Minus(eqConsumed, eqReleased) + Minus(k, eqConsumed)
          /\ Minus(eqConsumed, eqReleased) <= Minus(k, eqReleased)
               => Minus(k, eqConsumed) = Minus(k, eqReleased) - Minus(eqConsumed, eqReleased)
      BY <1>1, MinusType, Chain
    <2> QED BY <1>1, <2>1, EqPointers, Sizes DEF InUse, Seen
  <1> QED BY <1>3, <1>4

\* No wake-up is lost and none comes twice (mqnic_arm_cq after napi_complete,
\* mqnic_process_eq; cpl_queue_manager.v): every completion queue is in exactly one
\* place, armed, raised, named by one event or polled.
THEOREM WakeUpsAreNotLost == Spec => []OneNotification
  <1>1. EqInv => OneNotification
    <2> SUFFICES ASSUME EqInv, NEW q \in Queue
                 PROVE  LET at == {p \in {"armed", "raised", "queued", "poll"} :
                                     \/ p = "armed" /\ q \in armed
                                     \/ p = "raised" /\ q \in raised
                                     \/ p = "queued" /\ Queued(q) # {}
                                     \/ p = "poll" /\ poll[q] # "off"}
                        IN  /\ \E p \in at : at = {p}
                            /\ \A k, l \in Queued(q) : k = l
      BY Zenon DEF OneNotification
    <2>1. \A k : k \in Queued(q) <=> k \in Ptr /\ InUse(k) /\ ~Seen(k) /\ Src(k) = q
      BY UnreadIs, Zenon DEF Queued, Src, At
    <2>2. \A k, l \in Queued(q) : k = l
      BY <2>1, Zenon DEF EqInv, Tokens, Distinct
    <2>3. Queued(q) # {} => q \notin armed /\ q \notin raised /\ poll[q] = "off"
      BY <2>1, Zenon DEF EqInv, Tokens, Entries
    <2>4. Queued(q) # {} \/ q \in armed \/ q \in raised \/ poll[q] # "off"
      BY <2>1, Zenon DEF EqInv, Tokens, Entries, Places
    <2>5. (q \in armed => q \notin raised) /\ (q \in armed \/ q \in raised => poll[q] = "off")
      BY Zenon DEF EqInv, Tokens, Places
    <2> DEFINE at == {p \in {"armed", "raised", "queued", "poll"} :
                        \/ p = "armed" /\ q \in armed
                        \/ p = "raised" /\ q \in raised
                        \/ p = "queued" /\ Queued(q) # {}
                        \/ p = "poll" /\ poll[q] # "off"}
    <2>6. \E p \in at : at = {p}
      <3>1. CASE q \in armed
        <4>1. at = {"armed"}
          BY <3>1, <2>3, <2>5
        <4> QED BY <4>1
      <3>2. CASE q \in raised
        <4>1. at = {"raised"}
          BY <3>2, <2>3, <2>5
        <4> QED BY <4>1
      <3>3. CASE Queued(q) # {}
        <4>1. at = {"queued"}
          BY <3>3, <2>3, <2>5
        <4> QED BY <4>1
      <3>4. CASE poll[q] # "off"
        <4>1. at = {"poll"}
          BY <3>4, <2>3, <2>5
        <4> QED BY <4>1
      <3> QED BY <2>4, <3>1, <3>2, <3>3, <3>4
    <2> QED BY <2>2, <2>6
  <1> QED BY EqInvHolds, <1>1, PTL

\* The event queue has room for every event though nobody checks it
\* (cpl_queue_manager.v drops an event that does not fit): the events in it name
\* different completion queues, and mqnic_process_eq gives its entries back in bulk.
THEOREM EventsNeverOverflow == Spec => []EventsFindRoom
  <1>1. EqInv => EventsFindRoom
    BY Room DEF EqInv
  <1> QED BY EqInvHolds, <1>1, PTL

\* Every step is one of the Notifier's or a stutter: what the driver and the NIC do with
\* phase bits, pointers, arm bits, events and polls is the queue and the token that the
\* transmit path (TxRing) is built on.
THEOREM ImplementsNotifierSteps == Spec => Note!NoteInit /\ [][Note!NoteNext]_(Note!noteVars)
  <1> DEFINE u == Minus(written, consumed)
             h == Minus(consumed, released)
  <1>1. Init => Note!NoteInit
    <2>1. 0 \in Ptr
      BY Sizes DEF Ptr
    <2>2. Minus(0, 0) = 0
      BY <2>1, MinusType
    <2> QED BY <2>2 DEF Init, Note!NoteInit, Token, Queue
  <1>2. EqInv /\ [Next]_vars => [Note!NoteNext]_(Note!noteVars)
    <2> SUFFICES ASSUME EqInv, [Next]_vars
                 PROVE  Note!NoteNext \/ (u' = u /\ h' = h /\ Token' = Token)
      BY DEF Note!noteVars
    <2>1. /\ u \in Nat /\ h \in Nat /\ h + u <= CqSize /\ CqSize < PtrMod
          /\ written # consumed <=> u # 0
          /\ Cq \in Queue /\ Cq \notin Other
          /\ CqSize \in Nat /\ PtrMod \in Nat
      <3>1. u \in Nat /\ h \in Nat /\ (written # consumed <=> u # 0)
        BY MinusType DEF EqInv, TypeOK
      <3>2. CqSize < PtrMod /\ CqSize \in Nat /\ PtrMod \in Nat
        BY Sizes
      <3>3. Cq \in Queue /\ Cq \notin Other
        BY QueueAssumption DEF Queue
      <3> QED BY <3>1, <3>2, <3>3 DEF EqInv, CqPart
    <2>2. CASE WriteCompletion
      <3>1. u' = (IF u = PtrMod - 1 THEN 0 ELSE u + 1) /\ h' = h /\ Token' = Token
        BY <2>2, StepUp DEF WriteCompletion, EqInv, TypeOK, tokenVars, Token
      <3>2. h + u < PtrMod => Minus(written, released) = h + u
        BY Chain DEF EqInv, TypeOK
      <3>3. Minus(written, released) < CqSize
        BY <2>2 DEF WriteCompletion
      <3> HIDE DEF u, h
      <3>4. u + h < CqSize
        BY <2>1, <3>2, <3>3
      <3>5. u' = u + 1
        BY <2>1, <3>1, <3>4
      <3> QED BY <3>1, <3>4, <3>5 DEF Note!NoteNext, Note!Deliver, u, h
    <2>3. CASE CommitCompletion
      <3>1. UNCHANGED <<written, consumed, released, poll>>
        BY <2>3 DEF CommitCompletion
      <3>2. CASE Cq \in armed
        <4>1. poll[Cq] = "off" /\ committed = consumed
          BY <2>1, <3>2 DEF EqInv, ArmPart, Tokens, Places
        <4>2. u > 0
          BY <2>1, <2>3, <4>1 DEF CommitCompletion
        <4>3. Token = "armed" /\ Token' = "raised"
          BY <2>3, <3>1, <3>2, <4>1 DEF CommitCompletion, Token
        <4> QED BY <3>1, <4>2, <4>3 DEF Note!NoteNext, Note!Raise
      <3>3. CASE Cq \notin armed
        BY <2>3, <3>1, <3>3 DEF CommitCompletion, Token
      <3> QED BY <3>2, <3>3
    <2>4. CASE ProcessEvent
      <3>1. /\ UNCHANGED <<written, consumed, released, armed>>
            /\ eqWritten # eqConsumed
            /\ poll' = [poll EXCEPT ![Src(eqConsumed)]
                          = IF poll[Src(eqConsumed)] = "off" THEN "read" ELSE poll[Src(eqConsumed)]]
        BY <2>4, PendingIs, Zenon DEF ProcessEvent, EqInv, cqVars, Src, At
      <3>2. poll \in [Queue -> {"off", "read", "arm"}] /\ eqConsumed \in Ptr
        BY DEF EqInv, TypeOK
      <3>3. Src(eqConsumed) \notin armed /\ poll[Src(eqConsumed)] = "off"
        <4>1. InUse(eqConsumed) /\ ~Seen(eqConsumed)
          BY <3>1, EqPointers DEF InUse, Seen
        <4> QED BY <3>2, <4>1, Zenon DEF EqInv, Tokens, Entries
      <3>4. CASE Src(eqConsumed) = Cq
        <4>1. poll'[Cq] = "read" /\ poll[Cq] = "off" /\ Cq \notin armed
          BY <2>1, <3>1, <3>2, <3>3, <3>4
        <4>2. Token = "raised" /\ Token' = "polling"
          BY <3>1, <4>1 DEF Token
        <4> QED BY <3>1, <4>2 DEF Note!NoteNext, Note!Schedule
      <3>5. CASE Src(eqConsumed) # Cq
        <4>1. poll'[Cq] = poll[Cq]
          BY <2>1, <3>1, <3>2, <3>5
        <4> QED BY <3>1, <4>1 DEF Token
      <3> QED BY <3>4, <3>5
    <2>5. CASE ReadCompletion
      <3>1. written # consumed /\ handler = "off" /\ poll[Cq] = "read"
        BY <2>5, PendingIs DEF ReadCompletion, Polling, EqInv
      <3>2. Cq \notin armed
        BY <2>1, <3>1, Undelayed
      <3>3. Token = "polling" /\ Token' = Token
        BY <2>5, <3>1, <3>2 DEF ReadCompletion, Token, tokenVars
      <3>4. /\ u' = u - 1
            /\ h' = IF h = PtrMod - 1 THEN 0 ELSE h + 1
        BY <2>5, <3>1, StepUp DEF ReadCompletion, EqInv, TypeOK
      <3> HIDE DEF u, h
      <3>5. u > 0 /\ h' = h + 1
        BY <2>1, <3>1, <3>4
      <3> QED BY <3>3, <3>4, <3>5 DEF Note!NoteNext, Note!Read, u, h
    <2>6. CASE ReleaseCompletions
      <3>1. poll[Cq] = "read" /\ poll'[Cq] # "off" /\ handler = "off"
        BY <2>1, <2>6 DEF ReleaseCompletions, Polling, EqInv, TypeOK
      <3>2. Cq \notin armed
        BY <2>1, <3>1, Undelayed
      <3>3. Token = "polling" /\ Token' = Token
        BY <2>6, <3>1, <3>2 DEF ReleaseCompletions, Token
      <3>4. u' = u /\ h' = 0
        BY <2>6, MinusType DEF ReleaseCompletions, EqInv, TypeOK
      <3> QED BY <3>3, <3>4 DEF Note!NoteNext, Note!Release
    <2>7. CASE ArmQueue
      <3>1. poll[Cq] = "arm" /\ poll'[Cq] = "off" /\ handler = "off" /\ u' = u /\ h' = h
        BY <2>1, <2>7 DEF ArmQueue, Polling, EqInv, TypeOK, cqVars
      <3>2. Cq \notin armed
        BY <2>1, <3>1, Undelayed
      <3>3. Token = "polling" /\ Token' \in {"armed", "raised"}
        BY <3>1, <3>2 DEF Token
      <3>4. h = 0
        BY <3>1, MinusType DEF EqInv, TypeOK, ArmPart
      <3> QED BY <3>1, <3>3, <3>4 DEF Note!NoteNext, Note!Rearm
    <2>8. CASE \E q \in Other : CompleteElsewhere(q) \/ PollElsewhere(q)
      <3>1. PICK q \in Other : CompleteElsewhere(q) \/ PollElsewhere(q)
        BY <2>8
      <3>2. q # Cq /\ UNCHANGED cqVars
        BY <2>1, <3>1 DEF CompleteElsewhere, PollElsewhere
      <3>3. (Cq \in armed' <=> Cq \in armed) /\ poll'[Cq] = poll[Cq]
        BY <2>1, <3>1, <3>2 DEF CompleteElsewhere, PollElsewhere, SetArm, EqInv, TypeOK
      <3> QED BY <3>2, <3>3 DEF Token, cqVars
    <2>9. CASE CommitEvent \/ TakeInterrupt \/ FinishEvents \/ ArmEventQueue \/ UNCHANGED vars
               \/ \E q \in Queue : WriteEvent(q)
      <3>1. UNCHANGED <<cqVars, armed, poll>>
        BY <2>9 DEF CommitEvent, TakeInterrupt, FinishEvents, ArmEventQueue, WriteEvent, vars,
                    tokenVars
      <3> QED BY <3>1 DEF cqVars, Token
    <2> QED BY <2>2, <2>3, <2>4, <2>5, <2>6, <2>7, <2>8, <2>9
            DEF Next, Nic, Interrupt, Poll, Elsewhere
  <1> QED BY EqInvHolds, <1>1, <1>2, PTL DEF Spec
===============================================================================
